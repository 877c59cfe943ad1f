---------------------------- MODULE LedgerProofs ----------------------------
(* Theorems about the ledger of a page on the bridge, for any number of      *)
(* pages, any buffers and any mishaps.                                       *)
EXTENDS OkLedgerProperties, GcodeQueueProofs

-----------------------------------------------------------------------------
(* Types. *)

Printed == [what : {"ok", "lost", "halted", "start"}, id : Nat]

LEMMA MessageTypes ==
    /\ \A what \in {"open", "closed", "error"} : <<Message(what)>> \in Seq(Messages)
    /\ \A what \in {"tx", "button"}, text \in Kinds : <<Echo(what, text)>> \in Seq(Messages)
BY DEF Message, Echo, Messages

LEMMA ToldTypes ==
    ASSUME BridgeTypeOK, NEW messages \in Seq(Messages)
    PROVE  Told(messages) \in [Clients -> Seq(Messages)]
<1>1. inbox \in [Clients -> Seq(Messages)]
  BY DEF BridgeTypeOK
<1>2. \A c \in Clients : inbox[c] \o messages \in Seq(Messages)
  BY <1>1, ConcatProperties
<1> QED BY <1>1, <1>2 DEF Told

LEMMA ExceptType ==
    ASSUME NEW D, NEW S, NEW f \in [D -> S], NEW d \in D, NEW x \in S
    PROVE  [f EXCEPT ![d] = x] \in [D -> S]
OBVIOUS

\* What the Mega prints arrives, or is lost at a port that is not open.
LEMMA TransmitTypes ==
    ASSUME BridgeTypeOK, Transmit, printed' \in Seq(Printed)
    PROVE  wire' \in Seq(Printed)
<1>1. wire \in Seq(Printed)
  BY DEF BridgeTypeOK, Printed
<1>2. wire \o printed' \in Seq(Printed)
  BY <1>1, ConcatProperties
<1> QED BY <1>1, <1>2 DEF Transmit

LEMMA PrintedReports == \A s \in Seq(Printed) : s \in Seq(Reports)
<1>1. Printed \subseteq Reports
  BY DEF Printed, Reports
<1> QED BY <1>1

LEMMA ReportPrinted ==
    \A what \in {"lost", "halted", "start"} : Report(what) \in Seq(Printed)
BY DEF Report, Printed

LEMMA OkPrinted ==
    ASSUME NEW line, line.id \in Nat
    PROVE  <<>> \in Seq(Reports) /\ Append(<<>>, Ok(line)) \in Seq(Printed)
<1>1. Ok(line) \in Printed
  BY DEF Ok, Printed
<1> QED BY <1>1

\* The steps of the Mega by itself: the queue and the order of its lines.
LEMMA FetchTypes ==
    ASSUME BridgeTypeOK, QueueOrder, MegaFetches
    PROVE  BridgeTypeOK' /\ QueueOrder'
<1>1. QueueTypeOK' /\ QueueOrder'
  BY FetchQueue DEF BridgeTypeOK, MegaFetches
<1> QED BY <1>1 DEF BridgeTypeOK, MegaFetches, MegaStep, bridgeVars, linkVars

LEMMA CarriesOutTypes ==
    ASSUME BridgeTypeOK, QueueOrder, MegaCarriesOut
    PROVE  BridgeTypeOK' /\ QueueOrder'
<1> USE DEF MegaCarriesOut
<1>1. QueueTypeOK /\ <<>> \in Seq(Reports)
  BY DEF BridgeTypeOK
<1>5. QueueTypeOK' /\ QueueOrder' /\ printed' \in Seq(Printed)
  <2>2. CASE \E line \in {ring[i] : i \in 1..Len(ring)} : Dispatch(line) /\ Return(line, <<>>)
    <3> PICK line \in {ring[i] : i \in 1..Len(ring)} : Dispatch(line) /\ Return(line, <<>>)
      BY <2>2
    <3>1. QueueTypeOK' /\ QueueOrder'
      BY <1>1, DispatchReturnQueue
    <3>2. line.id \in Nat
      BY <1>1, LineTypes
    <3>3. printed' \in Seq(Printed)
      BY <3>2, OkPrinted DEF Return
    <3> QED BY <3>1, <3>3
  <2>3. CASE \E line \in {ring[i] : i \in 1..Len(ring)} : Dispatch(line) /\ Wait(line)
    <3> PICK line \in {ring[i] : i \in 1..Len(ring)} : Dispatch(line) /\ Wait(line)
      BY <2>3
    <3>1. printed' = <<>> /\ running' = line /\ ring' = ring
      BY DEF Wait, Quiet
    <3>2. QueueTypeOK' /\ QueueOrder'
      BY <1>1, <3>1, DispatchWaitQueue
    <3> QED BY <3>1, <3>2
  <2>4. CASE running # NoLine /\ Return(running, <<>>) /\ UNCHANGED lastStarted
    <3>1. QueueTypeOK' /\ QueueOrder'
      BY <1>1, <2>4, ReturnQueue
    <3>2. running.id \in Nat
      BY <1>1, LineTypes
    <3>3. printed' \in Seq(Printed)
      BY <2>4, <3>2, OkPrinted DEF Return
    <3> QED BY <3>1, <3>3
  <2> QED BY <2>2, <2>3, <2>4
<1>6. wire' \in Seq(Printed)
  BY <1>5, TransmitTypes
<1> QED BY <1>5, <1>6 DEF BridgeTypeOK, MegaStep, bridgeVars, linkVars, Printed

LEMMA RestartQueue ==
    ASSUME QueueTypeOK, QueueOrder, Restarted, UNCHANGED <<sent, lastStarted>>
    PROVE  QueueTypeOK' /\ QueueOrder' /\ mega' = "booting"
<1>1. /\ rx' = <<>> /\ ring' = <<>> /\ running' = NoLine /\ printed' = <<>>
      /\ Len(rx') = 0 /\ Len(ring') = 0 /\ mega' = "booting"
  BY DEF Restarted, Quiet
<1>2. QueueTypeOK'
  BY <1>1, BufSizeAssumption, RxAssumption DEF QueueTypeOK
<1>3. QueueOrder'
  BY <1>1 DEF QueueOrder, Ascending, NoLine
<1> QED BY <1>1, <1>2, <1>3

\* A loss, a kill, a reset and a boot.
LEMMA MishapTypes ==
    ASSUME BridgeTypeOK, QueueOrder, PowerLoss \/ Kill \/ Reset \/ Boots
    PROVE  BridgeTypeOK' /\ QueueOrder'
<1>1. QueueTypeOK /\ <<>> \in Seq(Printed) /\ mishaps \in Nat /\ wire \in Seq(Printed)
  BY DEF BridgeTypeOK, Printed
<1>2. /\ QueueTypeOK' /\ QueueOrder' /\ wire' \in Seq(Printed)
      /\ mega' \in {"up", "booting", "halted"} /\ mishaps' \in Nat
  <2>1. CASE PowerLoss
    <3>1. printed' \in Seq(Printed)
      BY <2>1, ReportPrinted DEF PowerLoss
    <3>2. QueueTypeOK' /\ QueueOrder'
      BY <1>1, <2>1, <3>1, PrintedReports, ClearQueue DEF PowerLoss
    <3>3. wire' \in Seq(Printed)
      BY <2>1, <3>1, TransmitTypes DEF PowerLoss
    <3> QED BY <1>1, <2>1, <3>2, <3>3 DEF PowerLoss, Mishap
  <2>2. CASE Kill \/ Boots
    <3>1. printed' \in Seq(Printed)
      BY <2>2, ReportPrinted DEF Kill, Boots
    <3>2. QueueTypeOK' /\ QueueOrder'
      BY <1>1, <2>2, <3>1, PrintedReports, QuietQueue DEF Kill, Boots
    <3>3. wire' \in Seq(Printed)
      BY <2>2, <3>1, TransmitTypes DEF Kill, Boots
    <3> QED BY <1>1, <2>2, <3>2, <3>3 DEF Kill, Boots, Mishap
  <2>3. CASE Reset
    BY <1>1, <2>3, RestartQueue DEF Reset, Mishap, Restarted
  <2> QED BY <2>1, <2>2, <2>3
<1>3. MegaStep
  BY DEF PowerLoss, Kill, Reset, Boots
<1> QED BY <1>2, <1>3 DEF BridgeTypeOK, MegaStep, bridgeVars, linkVars, Printed

\* write_serial()
LEMMA WriteBeginsTypes ==
    ASSUME BridgeTypeOK, QueueOrder, WriteBegins
    PROVE  BridgeTypeOK' /\ QueueOrder'
<1>1. QueueTypeOK' /\ QueueOrder'
  BY QuietQueue DEF BridgeTypeOK, WriteBegins, Quiet
<1>2. /\ writing' \in Writes /\ issued' \in Nat
      /\ outbox' \in [Clients -> Seq([text : Kinds, step : Nat])]
      /\ inbox' \in [Clients -> Seq(Messages)]
  <2>1. CASE \E c \in Clients :
               /\ outbox[c] # <<>>
               /\ writing' = [text |-> Head(outbox[c]).text, by |-> c, step |-> Head(outbox[c]).step]
               /\ outbox' = [outbox EXCEPT ![c] = Tail(@)]
               /\ inbox' = Told(<<Echo("tx", writing'.text)>>)
               /\ UNCHANGED issued
    <3> PICK c \in Clients :
               /\ outbox[c] # <<>>
               /\ writing' = [text |-> Head(outbox[c]).text, by |-> c, step |-> Head(outbox[c]).step]
               /\ outbox' = [outbox EXCEPT ![c] = Tail(@)]
               /\ inbox' = Told(<<Echo("tx", writing'.text)>>)
               /\ UNCHANGED issued
      BY <2>1
    <3>1. outbox[c] \in Seq([text : Kinds, step : Nat])
      BY DEF BridgeTypeOK
    <3>2. /\ Head(outbox[c]) \in [text : Kinds, step : Nat]
          /\ Tail(outbox[c]) \in Seq([text : Kinds, step : Nat])
      BY <3>1, HeadTailProperties
    <3>3. writing' \in Writes /\ writing'.text \in Kinds
      BY <3>2 DEF Writes, Sources
    <3>4. inbox' \in [Clients -> Seq(Messages)]
      BY <3>3, MessageTypes, ToldTypes
    <3> QED BY <3>2, <3>3, <3>4 DEF BridgeTypeOK
  <2>2. CASE /\ issued' = issued + 1
             /\ writing' = [text |-> ButtonText, by |-> "button", step |-> 0]
             /\ inbox' = Told(<<Echo("button", ButtonText)>>)
             /\ UNCHANGED outbox
    <3>1. ButtonText \in Kinds /\ <<Echo("button", ButtonText)>> \in Seq(Messages)
      BY MessageTypes, BridgeAssumption
    <3>2. inbox' \in [Clients -> Seq(Messages)]
      BY <2>2, <3>1, ToldTypes
    <3>3. writing' \in Writes
      BY <2>2, <3>1 DEF Writes, Sources
    <3>4. issued' \in Nat
      BY <2>2 DEF BridgeTypeOK
    <3>5. outbox' = outbox
      BY <2>2
    <3> QED BY <3>2, <3>3, <3>4, <3>5 DEF BridgeTypeOK
  <2> QED BY <2>1, <2>2 DEF WriteBegins
<1> QED BY <1>1, <1>2 DEF WriteBegins, BridgeTypeOK

LEMMA WriteEndsTypes ==
    ASSUME BridgeTypeOK, QueueOrder, WriteEnds
    PROVE  BridgeTypeOK' /\ QueueOrder'
<1>1. QueueTypeOK /\ writing \in Writes /\ writing' = NoWrite
  BY DEF WriteEnds, BridgeTypeOK
<1>2. writing.text \in Kinds /\ writing.by \in Sources /\ writing.step \in Nat
  BY <1>1 DEF Writes
<1>3. /\ QueueTypeOK' /\ QueueOrder' /\ failing' \in Nat /\ dropped' \in BOOLEAN
      /\ inbox' \in [Clients -> Seq(Messages)] /\ origin' \in Seq(Sources \X Nat)
  <2>1. CASE WriteSucceeds
    <3>1. QueueTypeOK' /\ QueueOrder'
      <4>1. CASE mega = "booting"
        <5>1. /\ sent' = sent + 1 /\ printed' = <<>>
              /\ UNCHANGED <<rx, ring, running, lastStarted>>
          BY <2>1, <4>1 DEF WriteEnds, WriteSucceeds, Quiet
        <5>2. /\ sent \in Nat /\ lastStarted <= sent + 1
              /\ \A j \in 1..Len(rx) : rx[j].id <= sent + 1
              /\ \A i \in 1..Len(ring) : ring[i].id <= sent + 1
          BY <1>1, LineTypes DEF QueueTypeOK, QueueOrder
        <5> QED BY <1>1, <5>1, <5>2 DEF QueueTypeOK, QueueOrder, Ascending
      <4>2. CASE mega # "booting"
        BY <1>1, <1>2, <2>1, <4>2, SendLineQueue DEF WriteEnds, WriteSucceeds
      <4> QED BY <4>1, <4>2
    <3>2. origin' \in Seq(Sources \X Nat)
      BY <1>2, <2>1, AppendProperties DEF WriteSucceeds, BridgeTypeOK
    <3>3. dropped' \in BOOLEAN
      BY <2>1 DEF WriteSucceeds, BridgeTypeOK
    <3> QED BY <2>1, <3>1, <3>2, <3>3 DEF WriteSucceeds, BridgeTypeOK
  <2>2. CASE WriteFails
    <3>1. QueueTypeOK' /\ QueueOrder'
      BY <1>1, <2>2, QuietQueue DEF WriteEnds, WriteFails, Quiet, queueVars
    <3>2. inbox' \in [Clients -> Seq(Messages)]
      BY <2>2, MessageTypes, ToldTypes DEF WriteFails, BridgeTypeOK
    <3> QED BY <2>2, <3>1, <3>2 DEF WriteFails, BridgeTypeOK
  <2> QED BY <2>1, <2>2 DEF WriteEnds
<1> QED BY <1>1, <1>3 DEF WriteEnds, BridgeTypeOK

\* serial_reader() and the report of a dropped line
LEMMA ReaderTypes ==
    ASSUME BridgeTypeOK, QueueOrder,
           ReportsDropped \/ ReadsLine \/ LosesPort \/ ClosesPort \/ OpensPort \/ TellsStatus
    PROVE  BridgeTypeOK' /\ QueueOrder'
<1>1. /\ QueueTypeOK /\ <<>> \in Seq(Printed) /\ wire \in Seq(Printed)
      /\ mishaps \in Nat /\ failing \in Nat /\ mega \in {"up", "booting", "halted"}
      /\ inbox \in [Clients -> Seq(Messages)]
  BY DEF BridgeTypeOK, Printed
<1>2. /\ QueueTypeOK' /\ QueueOrder' /\ wire' \in Seq(Printed)
      /\ mega' \in {"up", "booting", "halted"} /\ mishaps' \in Nat /\ failing' \in Nat
      /\ port' \in {"open", "gone", "lost", "closed", "opened"}
      /\ inbox' \in [Clients -> Seq(Messages)]
  <2>1. CASE OpensPort
    BY <1>1, <2>1, RestartQueue DEF OpensPort, Restarted, ReaderStep
  <2>2. CASE ReadsLine
    <3>1. Head(wire) \in Printed /\ wire' \in Seq(Printed)
      BY <1>1, <2>2 DEF ReadsLine
    <3>2. <<[what |-> Head(wire).what, id |-> Head(wire).id, text |-> "none"]>> \in Seq(Messages)
      BY <3>1 DEF Printed, Messages
    <3>3. inbox' \in [Clients -> Seq(Messages)]
      BY <2>2, <3>2, ToldTypes DEF ReadsLine
    <3>4. QueueTypeOK' /\ QueueOrder'
      BY <1>1, <2>2, QuietQueue DEF ReadsLine, Quiet
    <3> QED BY <1>1, <2>2, <3>1, <3>3, <3>4 DEF ReadsLine, ReaderStep, BridgeTypeOK
  <2>3. CASE ReportsDropped \/ LosesPort \/ ClosesPort \/ TellsStatus
    <3>1. UNCHANGED queueVars /\ printed' = <<>>
      BY <2>3 DEF ReportsDropped, LosesPort, ClosesPort, TellsStatus, Quiet
    <3>4. QueueTypeOK' /\ QueueOrder'
      BY <1>1, <3>1, PrintedReports, QuietQueue
    <3>5. mega' = mega /\ wire' \in {wire, <<>>}
      BY <2>3 DEF ReportsDropped, LosesPort, ClosesPort, TellsStatus
    <3>6. /\ mishaps' \in {mishaps, mishaps + 1} /\ failing' \in Nat
          /\ port' \in {"open", "gone", "lost", "closed", "opened"}
      BY <1>1, <2>3 DEF ReportsDropped, LosesPort, ClosesPort, TellsStatus, ReaderStep,
          BridgeTypeOK, Mishap, histVars
    <3>2. inbox' \in [Clients -> Seq(Messages)]
      BY <1>1, <2>3, MessageTypes, ToldTypes DEF ReportsDropped, LosesPort, ClosesPort, TellsStatus
    <3>7. mega' \in {"up", "booting", "halted"} /\ wire' \in Seq(Printed)
      BY <1>1, <3>5
    <3>8. mishaps' \in Nat
      BY <1>1, <3>6
    <3> QED BY <3>2, <3>4, <3>6, <3>7, <3>8
  <2> QED BY <2>1, <2>2, <2>3
<1>3. UNCHANGED <<writing, conn, outbox, issued, origin, dropped>>
  BY DEF ReportsDropped, ReadsLine, LosesPort, ClosesPort, OpensPort, TellsStatus, ReaderStep, histVars
<1> QED BY <1>2, <1>3 DEF BridgeTypeOK, Printed

\* One step of the bridge or the Mega.
LEMMA BridgeStepTypes ==
    ASSUME BridgeTypeOK, QueueOrder, BridgeStep
    PROVE  BridgeTypeOK' /\ QueueOrder'
BY FetchTypes, CarriesOutTypes, MishapTypes, WriteBeginsTypes, WriteEndsTypes, ReaderTypes
   DEF BridgeStep

-----------------------------------------------------------------------------
(* The types of the page. *)

Sends == [text : Kinds, step : Nat]

LedgerTypes ==
    /\ ledger \in [Clients -> Seq(Nat)]
    /\ pending \in [Clients -> Seq(Sends)]
    /\ waiter \in [Clients -> Nat] /\ steps \in [Clients -> Nat]
    /\ \A c \in Clients : Len(ledger[c]) <= LedgerMax

LEMMA TypeParts == TypeOK <=> BridgeTypeOK /\ LedgerTypes
BY DEF TypeOK, LedgerTypes, Sends

\* sendCmd()
LEMMA SendCmdTypes ==
    ASSUME TypeOK, QueueOrder, NEW c \in Clients, NEW text \in Kinds, NEW step \in Nat,
           SendCmd(c, text, step)
    PROVE  BridgeTypeOK' /\ QueueOrder' /\ pending' \in [Clients -> Seq(Sends)] /\ ledger' = ledger
<1>1. BridgeTypeOK /\ pending \in [Clients -> Seq(Sends)] /\ outbox \in [Clients -> Seq(Sends)]
  BY TypeParts DEF LedgerTypes, BridgeTypeOK, Sends
<1>2. /\ UNCHANGED <<queueVars, mega, wire, bridgeVars, conn, inbox, mishaps, origin, dropped, ledger>>
      /\ printed' = <<>> /\ issued' = issued + 1
  BY DEF SendCmd, Quiet
<1>3. [text |-> text, step |-> step] \in Sends
  BY DEF Sends
<1>4. \A s \in Seq(Sends) : Append(s, [text |-> text, step |-> step]) \in Seq(Sends)
  BY <1>3, AppendProperties
<1>5. outbox' \in [Clients -> Seq(Sends)] /\ pending' \in [Clients -> Seq(Sends)]
  BY <1>1, <1>4 DEF SendCmd
<1>6. QueueTypeOK' /\ QueueOrder'
  BY <1>1, <1>2, PrintedReports, QuietQueue DEF BridgeTypeOK
<1>7. issued' \in Nat
  BY <1>1, <1>2 DEF BridgeTypeOK
<1> QED BY <1>1, <1>2, <1>5, <1>6, <1>7 DEF BridgeTypeOK, bridgeVars, Sends

LEMMA SendingTypes ==
    ASSUME TypeOK, QueueOrder, NEW c \in Clients, SendOnly(c) \/ Step(c) \/ Stop(c)
    PROVE  TypeOK' /\ QueueOrder'
<1>1. LedgerTypes
  BY TypeParts
<1>2. CASE SendOnly(c)
  <2> PICK text \in TextsOf[c] : SendCmd(c, text, 0)
    BY <1>2 DEF SendOnly
  <2>1. BridgeTypeOK' /\ QueueOrder' /\ pending' \in [Clients -> Seq(Sends)] /\ ledger' = ledger
    BY SendCmdTypes, LedgerAssumption
  <2> QED BY <1>1, <1>2, <2>1, TypeParts DEF SendOnly, LedgerTypes, TypeOK, Sends
<1>3. CASE Step(c)
  <2>1. steps' \in [Clients -> Nat] /\ waiter' \in [Clients -> Nat] /\ steps'[c] \in Nat
    BY <1>1, <1>3 DEF Step, LedgerTypes
  <2> PICK text \in TextsOf[c] : SendCmd(c, text, steps'[c])
    BY <1>3 DEF Step
  <2>2. BridgeTypeOK' /\ QueueOrder' /\ pending' \in [Clients -> Seq(Sends)] /\ ledger' = ledger
    BY <2>1, SendCmdTypes, LedgerAssumption
  <2> QED BY <1>1, <2>1, <2>2 DEF LedgerTypes, TypeOK, Sends
<1>4. CASE Stop(c)
  <2>1. waiter' \in [Clients -> Nat] /\ steps' = steps
    BY <1>1, <1>4 DEF Stop, GivesUp, LedgerTypes
  <2>2. BridgeTypeOK' /\ QueueOrder' /\ pending' \in [Clients -> Seq(Sends)] /\ ledger' = ledger
    BY <1>4, SendCmdTypes, LedgerAssumption DEF Stop
  <2> QED BY <1>1, <2>1, <2>2 DEF LedgerTypes, TypeOK, Sends
<1> QED BY <1>2, <1>3, <1>4

\* What any message may do to the ledger, what is pending and the waiter.
LEMMA LostTypes ==
    ASSUME LedgerTypes, NEW c \in Clients, OkLedgerLost(c)
    PROVE  /\ ledger' \in [Clients -> Seq(Nat)] /\ waiter' \in [Clients -> Nat]
           /\ ledger'[c] = <<>> /\ waiter'[c] = 0
           /\ \A d \in Clients \ {c} : ledger'[d] = ledger[d] /\ waiter'[d] = waiter[d]
           /\ \A d \in Clients : Len(ledger'[d]) <= LedgerMax
<1>1. <<>> \in Seq(Nat) /\ Len(<<>>) = 0 /\ 0 <= LedgerMax
  BY LedgerAssumption
<1> QED BY <1>1 DEF LedgerTypes, OkLedgerLost

LEMMA AddTypes ==
    ASSUME LedgerTypes, NEW c \in Clients, NEW step \in Nat, OkLedgerAdd(c, step)
    PROVE  /\ ledger' \in [Clients -> Seq(Nat)] /\ waiter' \in [Clients -> Nat]
           /\ \A d \in Clients : Len(ledger'[d]) <= LedgerMax
           /\ \A d \in Clients \ {c} : ledger'[d] = ledger[d] /\ waiter'[d] = waiter[d]
           /\ \/ ledger'[c] = Append(ledger[c], step) /\ waiter'[c] = waiter[c]
              \/ ledger'[c] = <<>> /\ waiter'[c] = 0
<1>1. CASE Len(ledger[c]) < LedgerMax
  <2>1. ledger' = [ledger EXCEPT ![c] = Append(@, step)] /\ waiter' = waiter
    BY <1>1 DEF OkLedgerAdd
  <2>2. /\ Append(ledger[c], step) \in Seq(Nat)
        /\ Len(Append(ledger[c], step)) = Len(ledger[c]) + 1
        /\ Len(ledger[c]) \in Nat
    BY AppendProperties DEF LedgerTypes
  <2>3. Len(Append(ledger[c], step)) <= LedgerMax
    BY <1>1, <2>2, LedgerAssumption
  <2> QED BY <2>1, <2>2, <2>3 DEF LedgerTypes
<1>2. CASE ~(Len(ledger[c]) < LedgerMax)
  <2>1. OkLedgerLost(c)
    BY <1>2 DEF OkLedgerAdd
  <2> QED BY <2>1, LostTypes
<1> QED BY <1>1, <1>2

\* The echo of a line.
LEMMA EchoTypes ==
    ASSUME LedgerTypes, NEW c \in Clients, NEW msg \in Messages, OkLedgerEcho(c, msg)
    PROVE  /\ ledger' \in [Clients -> Seq(Nat)] /\ waiter' \in [Clients -> Nat]
           /\ pending' \in [Clients -> Seq(Sends)]
           /\ \A d \in Clients : Len(ledger'[d]) <= LedgerMax
           /\ \A d \in Clients \ {c} :
                 ledger'[d] = ledger[d] /\ waiter'[d] = waiter[d] /\ pending'[d] = pending[d]
           /\ \E step \in Nat :
                 /\ \/ ledger'[c] = Append(ledger[c], step) /\ waiter'[c] = waiter[c]
                    \/ ledger'[c] = <<>> /\ waiter'[c] = 0
                 /\ \/ Own(c, msg) /\ pending'[c] = Tail(pending[c]) /\ step = pending[c][1].step
                    \/ ~Own(c, msg) /\ pending'[c] = pending[c] /\ step = 0
<1>1. CASE Own(c, msg)
  <2>1. pending' = [pending EXCEPT ![c] = Tail(@)] /\ OkLedgerAdd(c, Head(pending[c]).step)
    BY <1>1 DEF OkLedgerEcho
  <2>2. pending[c] \in Seq(Sends) /\ pending[c] # <<>>
    BY <1>1 DEF Own, LedgerTypes
  <2>3. /\ Head(pending[c]) \in Sends /\ Tail(pending[c]) \in Seq(Sends)
        /\ Head(pending[c]) = pending[c][1]
    BY <2>2, HeadTailProperties
  <2>4. Head(pending[c]).step \in Nat
    BY <2>3 DEF Sends
  <2>5. /\ pending' \in [Clients -> Seq(Sends)] /\ pending'[c] = Tail(pending[c])
        /\ \A d \in Clients \ {c} : pending'[d] = pending[d]
    BY <2>1, <2>3 DEF LedgerTypes
  <2> QED BY <1>1, <2>1, <2>3, <2>4, <2>5, AddTypes
<1>2. CASE ~Own(c, msg)
  <2>1. pending' = pending /\ OkLedgerAdd(c, 0)
    BY <1>2 DEF OkLedgerEcho
  <2>2. pending' \in [Clients -> Seq(Sends)]
    BY <2>1 DEF LedgerTypes
  <2> QED BY <1>2, <2>1, <2>2, AddTypes
<1> QED BY <1>1, <1>2

\* An ok.
LEMMA OkTypes ==
    ASSUME LedgerTypes, NEW c \in Clients, NEW msg \in Messages, OkLedgerOk(c, msg)
    PROVE  /\ ledger' \in [Clients -> Seq(Nat)] /\ waiter' \in [Clients -> Nat]
           /\ pending' = pending
           /\ \A d \in Clients : Len(ledger'[d]) <= LedgerMax
           /\ \A d \in Clients \ {c} : ledger'[d] = ledger[d] /\ waiter'[d] = waiter[d]
           /\ \/ ledger[c] = <<>> /\ ledger'[c] = <<>> /\ waiter'[c] = waiter[c]
              \/ /\ ledger[c] # <<>> /\ ledger'[c] = Tail(ledger[c])
                 /\ waiter'[c] = IF ledger[c][1] # 0 /\ ledger[c][1] = waiter[c] THEN 0 ELSE waiter[c]
<1>1. CASE ledger[c] = <<>>
  BY <1>1 DEF OkLedgerOk, LedgerTypes
<1>2. CASE ledger[c] # <<>>
  <2>1. /\ ledger' = [ledger EXCEPT ![c] = Tail(@)]
        /\ waiter' = [waiter EXCEPT ![c] = IF Resolves(c, Head(ledger[c])) THEN 0 ELSE @]
        /\ pending' = pending
    BY <1>2 DEF OkLedgerOk
  <2>2. /\ Tail(ledger[c]) \in Seq(Nat) /\ Len(Tail(ledger[c])) = Len(ledger[c]) - 1
        /\ Head(ledger[c]) = ledger[c][1] /\ Len(ledger[c]) \in Nat
    BY <1>2, HeadTailProperties DEF LedgerTypes
  <2>3. Len(Tail(ledger[c])) <= LedgerMax
    BY <2>2, LedgerAssumption DEF LedgerTypes
  <2> QED BY <1>2, <2>1, <2>2, <2>3 DEF LedgerTypes, Resolves
<1> QED BY <1>1, <1>2

LEMMA HandleMessageTypes ==
    ASSUME TypeOK, QueueOrder, NEW c \in Clients, HandleMessage(c)
    PROVE  TypeOK' /\ QueueOrder'
<1>1. BridgeTypeOK /\ LedgerTypes
  BY TypeParts
<1>2. inbox[c] \in Seq(Messages) /\ inbox[c] # <<>>
  BY <1>1 DEF HandleMessage, BridgeTypeOK
<1>3. Head(inbox[c]) \in Messages /\ Tail(inbox[c]) \in Seq(Messages)
  BY <1>2, HeadTailProperties
<1>4. /\ UNCHANGED <<queueVars, mega, wire, bridgeVars, conn, outbox, histVars, steps>>
      /\ printed' = <<>> /\ inbox' = [inbox EXCEPT ![c] = Tail(@)]
  BY DEF HandleMessage, Quiet
<1>5. QueueTypeOK' /\ QueueOrder'
  BY <1>1, <1>4, PrintedReports, QuietQueue DEF BridgeTypeOK
<1>6. BridgeTypeOK'
  BY <1>1, <1>3, <1>4, <1>5 DEF BridgeTypeOK, bridgeVars, histVars
<1>7. LedgerTypes'
  <2>1. CASE OkLedgerEcho(c, Head(inbox[c]))
    BY <1>1, <1>3, <1>4, <2>1, EchoTypes DEF LedgerTypes
  <2>2. CASE OkLedgerOk(c, Head(inbox[c]))
    BY <1>1, <1>3, <1>4, <2>2, OkTypes DEF LedgerTypes
  <2>3. CASE Unanswered(c, Head(inbox[c]))
    BY <1>1, <1>4, <2>3, LostTypes DEF LedgerTypes, Unanswered
  <2> QED BY <2>1, <2>2, <2>3 DEF HandleMessage
<1> QED BY <1>5, <1>6, <1>7 DEF TypeOK, LedgerTypes, Sends

LEMMA ConnectionTypes ==
    ASSUME TypeOK, QueueOrder, NEW c \in Clients, SetConnected(c) \/ Timeout(c)
    PROVE  TypeOK' /\ QueueOrder'
<1>1. BridgeTypeOK /\ LedgerTypes
  BY TypeParts
<1>2. UNCHANGED <<queueVars, mega, wire, bridgeVars, issued, origin, dropped, steps>> /\ printed' = <<>>
  BY DEF SetConnected, Accepts, Loses, Timeout, linkVars, histVars, Quiet
<1>3. QueueTypeOK' /\ QueueOrder'
  BY <1>1, <1>2, PrintedReports, QuietQueue DEF BridgeTypeOK
<1>4. CASE SetConnected(c)
  <2>1. LedgerTypes'
    <3>1. pending' \in [Clients -> Seq(Sends)]
      BY <1>1, <1>4 DEF SetConnected, LedgerTypes
    <3> QED BY <1>1, <1>2, <1>4, <3>1, LostTypes DEF SetConnected, LedgerTypes
  <2>2. /\ conn' \in [Clients -> BOOLEAN] /\ mishaps' \in Nat
        /\ inbox' \in [Clients -> Seq(Messages)]
        /\ outbox' \in [Clients -> Seq([text : Kinds, step : Nat])]
    <3>1. CASE Accepts(c)
      <4>1. <<Message(IF port \in {"open", "gone", "opened"} THEN "open" ELSE "closed")>>
                 \in Seq(Messages)
        BY MessageTypes
      <4> QED BY <1>1, <3>1, <4>1 DEF Accepts, BridgeTypeOK, histVars
    <3>2. CASE Loses(c)
      <4>1. /\ outbox' \in {outbox, [outbox EXCEPT ![c] = <<>>]}
            /\ conn' = [conn EXCEPT ![c] = FALSE] /\ inbox' = [inbox EXCEPT ![c] = <<>>]
            /\ mishaps' = mishaps + 1
        BY <3>2 DEF Loses, Mishap
      <4>2. outbox \in [Clients -> Seq([text : Kinds, step : Nat])]
        BY <1>1 DEF BridgeTypeOK
      <4>8. <<>> \in Seq([text : Kinds, step : Nat])
        OBVIOUS
      <4>6. [outbox EXCEPT ![c] = <<>>] \in [Clients -> Seq([text : Kinds, step : Nat])]
        <5> DEFINE S == Seq([text : Kinds, step : Nat])
        <5>1. outbox \in [Clients -> S] /\ <<>> \in S
          BY <4>2, <4>8, Zenon
        <5> HIDE DEF S
        <5>2. [outbox EXCEPT ![c] = <<>>] \in [Clients -> S]
          BY <5>1, ExceptType
        <5> QED BY <5>2 DEF S
      <4>7. outbox' = outbox \/ outbox' = [outbox EXCEPT ![c] = <<>>]
        BY <4>1
      <4>3. outbox' \in [Clients -> Seq([text : Kinds, step : Nat])]
        BY <4>2, <4>6, <4>7, Zenon
      <4>4. conn' \in [Clients -> BOOLEAN] /\ mishaps' \in Nat
        BY <1>1, <4>1 DEF BridgeTypeOK
      <4>5. inbox' \in [Clients -> Seq(Messages)]
        BY <1>1, <4>1, <4>2 DEF BridgeTypeOK
      <4> QED BY <4>3, <4>4, <4>5
    <3> QED BY <1>4, <3>1, <3>2 DEF SetConnected
  <2> QED BY <1>1, <1>2, <1>3, <2>1, <2>2 DEF TypeOK, LedgerTypes, Sends, BridgeTypeOK, bridgeVars
<1>5. CASE Timeout(c)
  <2>1. waiter' \in [Clients -> Nat]
    BY <1>1, <1>5 DEF Timeout, GivesUp, LedgerTypes
  <2> QED BY <1>1, <1>2, <1>3, <1>5, <2>1
      DEF Timeout, TypeOK, LedgerTypes, Sends, BridgeTypeOK, bridgeVars, linkVars, histVars
<1> QED BY <1>4, <1>5

LEMMA LedgerInitTypes == Init => TypeOK /\ QueueOrder
<1> SUFFICES ASSUME Init PROVE TypeOK /\ QueueOrder
  OBVIOUS
<1>1. QueueInit /\ Len(<<>>) = 0
  BY DEF Init, BridgeInit
<1>2. QueueTypeOK
  BY <1>1, BufSizeAssumption, RxAssumption DEF QueueInit, QueueTypeOK
<1>3. QueueOrder
  BY <1>1 DEF QueueInit, QueueOrder, Ascending, NoLine
<1>4. BridgeTypeOK
  <2>1. /\ mega = "up" /\ wire = <<>> /\ port = "open"
        /\ writing = NoWrite /\ failing = 0 /\ issued = 0 /\ mishaps = 0
        /\ origin = <<>> /\ dropped = FALSE
    BY DEF Init, BridgeInit
  <2>2. /\ conn \in [Clients -> BOOLEAN]
        /\ outbox \in [Clients -> Seq([text : Kinds, step : Nat])]
        /\ inbox \in [Clients -> Seq(Messages)]
    BY DEF Init, BridgeInit
  <2>3. wire \in Seq(Printed) /\ origin \in Seq(Sources \X Nat)
    BY <2>1
  <2> QED BY <1>2, <2>1, <2>2, <2>3 DEF BridgeTypeOK, Printed
<1>5. LedgerTypes
  BY <1>1, LedgerAssumption DEF Init, LedgerTypes
<1> QED BY <1>3, <1>4, <1>5, TypeParts

\* The bridge keeps its types and the order of its lines, and so does each page.
LEMMA LedgerStepTypes == TypeOK /\ QueueOrder /\ [Next]_vars => TypeOK' /\ QueueOrder'
<1> SUFFICES ASSUME TypeOK, QueueOrder, [Next]_vars PROVE TypeOK' /\ QueueOrder'
  OBVIOUS
<1>1. CASE BridgeStep /\ UNCHANGED pageVars
  BY <1>1, BridgeStepTypes DEF TypeOK, pageVars
<1>2. CASE PageStep
  <2> PICK c \in Clients :
        SendOnly(c) \/ Step(c) \/ Stop(c) \/ Timeout(c) \/ HandleMessage(c) \/ SetConnected(c)
    BY <1>2 DEF PageStep
  <2> QED BY SendingTypes, HandleMessageTypes, ConnectionTypes
<1>3. CASE UNCHANGED vars
  BY <1>3 DEF vars, queueVars, bridgeVars, linkVars, histVars, pageVars, TypeOK, BridgeTypeOK,
      QueueTypeOK, QueueOrder, Ascending
<1> QED BY <1>1, <1>2, <1>3 DEF Next

\* For any pages, texts and mishaps each variable of the bridge and of its pages
\* keeps its type, and no ledger grows beyond its limit.
THEOREM LedgerTypeCorrect == Spec => [](TypeOK /\ QueueOrder)
BY LedgerInitTypes, LedgerStepTypes, PTL DEF Spec

-----------------------------------------------------------------------------
(* How far the messages of a stream fill the ledger.                        *)

\* A message may turn a ledger of x entries into one of no more than y: an echo
\* adds an entry, an ok takes one, and anything else may end them all.
Bears(what, x, y) ==
    /\ what \in {"tx", "button"} => x + 1 <= y
    /\ what = "ok" => x <= y + 1

\* A ledger of n entries has no more than m when the stream s has been handled:
\* b is a bound on its length after each message.
Covers(s, n, m) ==
    \E b \in [0..Len(s) -> Nat] :
       /\ n <= b[0] /\ b[Len(s)] <= m
       /\ \A i \in 1..Len(s) : Bears(s[i].what, b[i - 1], b[i])

LEMMA BearsMore ==
    ASSUME NEW what, NEW x \in Nat, NEW y \in Nat
    PROVE  /\ Bears(what, x, x + 1)
           /\ what \notin {"tx", "button"} => Bears(what, 0, y)
           /\ Bears(what, x, y) => Bears(what, x + 1, y + 1)
           /\ \A x2, y2 \in Nat : Bears(what, x, y) /\ x2 <= x /\ y <= y2 => Bears(what, x2, y2)
BY DEF Bears

LEMMA CoversEmpty ==
    ASSUME NEW n \in Nat, NEW m \in Nat
    PROVE  Covers(<<>>, n, m) <=> n <= m
<1>1. Len(<<>>) = 0
  OBVIOUS
<1>2. ASSUME Covers(<<>>, n, m) PROVE n <= m
  BY <1>1, <1>2 DEF Covers
<1>3. ASSUME n <= m PROVE Covers(<<>>, n, m)
  <2> DEFINE b == [i \in 0..Len(<<>>) |-> n]
  <2>1. b \in [0..Len(<<>>) -> Nat] /\ b[0] = n /\ b[Len(<<>>)] = n
    BY <1>1
  <2>2. \A i \in 1..Len(<<>>) : FALSE
    BY <1>1
  <2> HIDE DEF b
  <2> QED BY <1>3, <2>1, <2>2 DEF Covers
<1> QED BY <1>2, <1>3

LEMMA CoversWeaken ==
    ASSUME NEW S, NEW s \in Seq(S), NEW n \in Nat, NEW m \in Nat, Covers(s, n, m),
           NEW n2 \in Nat, NEW m2 \in Nat, n2 <= n, m <= m2
    PROVE  Covers(s, n2, m2)
<1> PICK b \in [0..Len(s) -> Nat] :
       /\ n <= b[0] /\ b[Len(s)] <= m
       /\ \A i \in 1..Len(s) : Bears(s[i].what, b[i - 1], b[i])
  BY DEF Covers
<1>1. b[0] \in Nat /\ b[Len(s)] \in Nat
  OBVIOUS
<1>2. n2 <= b[0] /\ b[Len(s)] <= m2
  BY <1>1
<1> QED BY <1>2 DEF Covers

\* One entry more at first is one more in the end.
LEMMA CoversMore ==
    ASSUME NEW S, NEW s \in Seq(S), NEW n \in Nat, NEW m \in Nat, Covers(s, n, m)
    PROVE  Covers(s, n + 1, m + 1)
<1> PICK b \in [0..Len(s) -> Nat] :
       /\ n <= b[0] /\ b[Len(s)] <= m
       /\ \A i \in 1..Len(s) : Bears(s[i].what, b[i - 1], b[i])
  BY DEF Covers
<1> DEFINE d == [i \in 0..Len(s) |-> b[i] + 1]
<1>1. Len(s) \in Nat /\ \A i \in 0..Len(s) : b[i] \in Nat /\ d[i] = b[i] + 1
  OBVIOUS
<1>2. d \in [0..Len(s) -> Nat]
  OBVIOUS
<1>3. n + 1 <= d[0] /\ d[Len(s)] <= m + 1
  BY <1>1
<1>4. \A i \in 1..Len(s) : i \in 0..Len(s) /\ i - 1 \in 0..Len(s)
  BY <1>1
<1> HIDE DEF d
<1>5. ASSUME NEW i \in 1..Len(s) PROVE Bears(s[i].what, d[i - 1], d[i])
  <2>1. /\ b[i] \in Nat /\ b[i - 1] \in Nat /\ d[i] = b[i] + 1 /\ d[i - 1] = b[i - 1] + 1
        /\ Bears(s[i].what, b[i - 1], b[i])
    BY <1>1, <1>4
  <2>2. Bears(s[i].what, b[i - 1] + 1, b[i] + 1)
    BY <2>1, BearsMore
  <2> QED BY <2>1, <2>2
<1> QED BY <1>2, <1>3, <1>5 DEF Covers

LEMMA CoversAppend ==
    ASSUME NEW S, NEW s \in Seq(S), NEW n \in Nat, NEW k \in Nat, Covers(s, n, k),
           NEW x \in S, NEW m \in Nat, Bears(x.what, k, m)
    PROVE  Covers(Append(s, x), n, m)
<1> PICK b \in [0..Len(s) -> Nat] :
       /\ n <= b[0] /\ b[Len(s)] <= k
       /\ \A i \in 1..Len(s) : Bears(s[i].what, b[i - 1], b[i])
  BY DEF Covers
<1> DEFINE t == Append(s, x)
           d == [i \in 0..Len(t) |-> IF i <= Len(s) THEN b[i] ELSE m]
<1>1. /\ Len(s) \in Nat /\ Len(t) = Len(s) + 1
      /\ \A i \in 1..Len(s) : t[i] = s[i]
      /\ t[Len(s) + 1] = x
  BY AppendProperties
<1>2. \A i \in 0..Len(s) : b[i] \in Nat /\ d[i] = b[i]
  BY <1>1
<1>3. d \in [0..Len(t) -> Nat] /\ d[Len(t)] = m
  BY <1>1
<1> HIDE DEF t, d
<1>4. ASSUME NEW i \in 1..Len(t) PROVE Bears(t[i].what, d[i - 1], d[i])
  <2>1. CASE i <= Len(s)
    <3>1. i \in 1..Len(s) /\ i - 1 \in 0..Len(s) /\ i \in 0..Len(s)
      BY <1>1, <2>1
    <3> QED BY <1>1, <1>2, <3>1
  <2>2. CASE i = Len(s) + 1
    <3>1. t[i] = x /\ d[i] = m /\ d[i - 1] = b[Len(s)] /\ b[Len(s)] \in Nat
      BY <1>1, <1>2, <1>3, <2>2
    <3> QED BY <3>1 DEF Bears
  <2>3. i <= Len(s) \/ i = Len(s) + 1
    BY <1>1
  <2> QED BY <2>1, <2>2, <2>3
<1>5. n <= d[0] /\ d[Len(t)] <= m
  BY <1>1, <1>2, <1>3
<1>6. Covers(t, n, m)
  BY <1>3, <1>4, <1>5 DEF Covers
<1> QED BY <1>6 DEF t

LEMMA CoversTail ==
    ASSUME NEW S, NEW s \in Seq(S), s # <<>>, NEW n \in Nat, NEW m \in Nat, Covers(s, n, m)
    PROVE  \E k \in Nat : Bears(s[1].what, n, k) /\ Covers(Tail(s), k, m)
<1> PICK b \in [0..Len(s) -> Nat] :
       /\ n <= b[0] /\ b[Len(s)] <= m
       /\ \A i \in 1..Len(s) : Bears(s[i].what, b[i - 1], b[i])
  BY DEF Covers
<1> DEFINE t == Tail(s)
           d == [i \in 0..Len(t) |-> b[i + 1]]
<1>1. /\ Len(s) \in Nat \ {0} /\ Len(t) = Len(s) - 1
      /\ \A i \in 1..Len(t) : t[i] = s[i + 1]
  BY HeadTailProperties
<1>2. \A i \in 0..Len(t) : i + 1 \in 0..Len(s) /\ b[i + 1] \in Nat /\ d[i] = b[i + 1]
  BY <1>1
<1>3. d \in [0..Len(t) -> Nat] /\ d[0] = b[1] /\ d[Len(t)] = b[Len(s)]
  BY <1>1, <1>2
<1> HIDE DEF t, d
<1>4. ASSUME NEW i \in 1..Len(t) PROVE Bears(t[i].what, d[i - 1], d[i])
  <2>1. /\ t[i] = s[i + 1] /\ i + 1 \in 1..Len(s) /\ (i + 1) - 1 = i
        /\ i - 1 \in 0..Len(t) /\ i \in 0..Len(t) /\ (i - 1) + 1 = i
    BY <1>1
  <2>2. d[i - 1] = b[i] /\ d[i] = b[i + 1]
    BY <1>2, <2>1
  <2>3. Bears(s[i + 1].what, b[i], b[i + 1])
    BY <2>1
  <2> QED BY <2>1, <2>2, <2>3
<1>5. Covers(t, b[1], m)
  <2>1. b[1] <= d[0] /\ d[Len(t)] <= m /\ b[1] \in Nat
    BY <1>1, <1>2, <1>3
  <2> QED BY <1>3, <1>4, <2>1 DEF Covers
<1>6. b[1] \in Nat /\ b[0] \in Nat /\ Bears(s[1].what, b[0], b[1])
  BY <1>1
<1>7. Bears(s[1].what, n, b[1])
  BY <1>6 DEF Bears
<1> QED BY <1>5, <1>6, <1>7 DEF t

\* Some bound there always is.
LEMMA CoversSome ==
    ASSUME NEW S, NEW s \in Seq(S), NEW n \in Nat
    PROVE  \E k \in Nat : Covers(s, n, k)
<1> DEFINE d == [i \in 0..Len(s) |-> n + i]
<1>1. Len(s) \in Nat /\ n + Len(s) \in Nat
  OBVIOUS
<1>2. d \in [0..Len(s) -> Nat] /\ \A i \in 0..Len(s) : d[i] = n + i
  BY <1>1
<1>3. \A i \in 1..Len(s) : i \in 0..Len(s) /\ i - 1 \in 0..Len(s)
  BY <1>1
<1> HIDE DEF d
<1>4. ASSUME NEW i \in 1..Len(s) PROVE Bears(s[i].what, d[i - 1], d[i])
  <2>1. n + (i - 1) \in Nat /\ d[i - 1] = n + (i - 1) /\ d[i] = (n + (i - 1)) + 1
    BY <1>2, <1>3
  <2> QED BY <2>1, BearsMore
<1>5. n <= d[0] /\ d[Len(s)] <= n + Len(s)
  BY <1>1, <1>2
<1>6. Covers(s, n, n + Len(s))
  BY <1>2, <1>4, <1>5 DEF Covers
<1> QED BY <1>1, <1>6

\* What the Mega prints adds no entry.
LEMMA CoversPrinted ==
    ASSUME NEW s \in Seq(Printed), NEW m \in Nat
    PROVE  Covers(s, 0, m)
<1> DEFINE d == [i \in 0..Len(s) |-> 0]
<1>1. Len(s) \in Nat
  OBVIOUS
<1>2. d \in [0..Len(s) -> Nat] /\ \A i \in 0..Len(s) : d[i] = 0
  BY <1>1
<1> HIDE DEF d
<1>4. ASSUME NEW i \in 1..Len(s) PROVE Bears(s[i].what, d[i - 1], d[i])
  <2>1. d[i] = 0 /\ d[i - 1] = 0
    BY <1>1, <1>2
  <2>2. s[i] \in Printed
    BY ElementOfSeq
  <2>3. s[i].what \notin {"tx", "button"}
    BY <2>2 DEF Printed
  <2>4. Bears(s[i].what, 0, 0)
    BY <2>3, BearsMore
  <2> QED BY <2>1, <2>4
<1>5. 0 <= d[0] /\ d[Len(s)] <= m
  BY <1>1, <1>2
<1> QED BY <1>2, <1>4, <1>5 DEF Covers

-----------------------------------------------------------------------------
(* The inductive invariant behind NobodyForgotten.                           *)

\* The lines that the Mega has still to answer.
Answers == Len(ring) + Len(rx) + (IF writing = NoWrite THEN 0 ELSE 1)

\* A message that ends every ledger is still to come, or a line was dropped.
Excused == mega # "up" \/ port # "open" \/ failing # 0 \/ dropped

\* However far what is on its way to the page fills its ledger, the answers that
\* the Mega owes will empty it.
Drains(c) == \E k \in Nat : Covers(inbox[c], Len(ledger[c]), k) /\ Covers(wire, k, Answers)
DrainInv == \A c \in Clients : conn[c] /\ ~Excused => Drains(c)

\* A page without a connection has forgotten everything.
ConnInv ==
    \A c \in Clients : ~conn[c] =>
        ledger[c] = <<>> /\ pending[c] = <<>> /\ waiter[c] = 0 /\ inbox[c] = <<>>

\* The text of the p-th echo or command that is on its way from or to the page.
Text(c, p) ==
    IF p <= Len(inbox[c]) THEN IF inbox[c][p].what = "tx" THEN inbox[c][p].text ELSE "none"
    ELSE outbox[c][p - Len(inbox[c])].text

\* The commands p have their echoes among the n texts t, in their order: f says
\* for each command where.
Finds(f, p, n, t) ==
    /\ f \in [1..Len(p) -> 1..n]
    /\ \A i, j \in 1..Len(p) : i < j => f[i] < f[j]
    /\ \A i \in 1..Len(p) : p[i].text = t[f[i]]
Embeds(p, n, t) == \E f : Finds(f, p, n, t)

\* Each pending command is still to be echoed, in their order.
Coming(c) == Len(inbox[c]) + Len(outbox[c])
Texts(c) == [p \in 1..Coming(c) |-> Text(c, p)]
PendingInv == \A c \in Clients : Embeds(pending[c], Coming(c), Texts(c))

\* The step that is waited for is pending or in the ledger.
WaiterInv ==
    \A c \in Clients : waiter[c] # 0 =>
        \/ \E i \in 1..Len(ledger[c]) : ledger[c][i] = waiter[c]
        \/ \E i \in 1..Len(pending[c]) : pending[c][i].step = waiter[c]

LedgerInv == ConnInv /\ DrainInv /\ PendingInv /\ WaiterInv

-----------------------------------------------------------------------------
(* The ledger drains. *)

LEMMA DrainTypes ==
    ASSUME TypeOK
    PROVE  /\ Len(ring) \in Nat /\ Len(rx) \in Nat /\ Answers \in Nat
           /\ wire \in Seq(Printed)
           /\ \A c \in Clients : inbox[c] \in Seq(Messages) /\ Len(ledger[c]) \in Nat
           /\ \A c \in Clients : ledger[c] \in Seq(Nat) /\ pending[c] \in Seq(Sends)
<1>1. /\ ring \in Seq(Lines) /\ rx \in Seq(Lines) /\ wire \in Seq(Printed)
      /\ inbox \in [Clients -> Seq(Messages)]
  BY DEF TypeOK, BridgeTypeOK, QueueTypeOK, Printed
<1>2. ledger \in [Clients -> Seq(Nat)] /\ pending \in [Clients -> Seq(Sends)]
  BY DEF TypeOK, Sends
<1>3. Len(ring) \in Nat /\ Len(rx) \in Nat
  BY <1>1
<1> QED BY <1>1, <1>2, <1>3 DEF Answers

LEMMA AnswersNat ==
    ASSUME TypeOK'
    PROVE  Answers' \in Nat
<1>1. ring' \in Seq(Lines) /\ rx' \in Seq(Lines)
  BY DEF TypeOK, BridgeTypeOK, QueueTypeOK
<1>2. Len(ring') \in Nat /\ Len(rx') \in Nat
  BY <1>1
<1> QED BY <1>2 DEF Answers

LEMMA DrainFrame ==
    ASSUME NEW c \in Clients, Drains(c), inbox'[c] = inbox[c], ledger'[c] = ledger[c],
           wire' = wire, Answers' = Answers
    PROVE  Drains(c)'
BY DEF Drains

LEMMA AnswersKept ==
    ASSUME UNCHANGED <<rx, ring, writing>>
    PROVE  Answers' = Answers
BY DEF Answers

\* A message that fails what is outstanding ends the ledger.
LEMMA InboxCleared ==
    ASSUME TypeOK, TypeOK', NEW c \in Clients, NEW msg \in Messages,
           msg.what \notin {"tx", "button", "ok"},
           inbox'[c] = Append(inbox[c], msg), ledger'[c] = ledger[c], wire' = wire
    PROVE  Drains(c)'
<1>1. inbox[c] \in Seq(Messages) /\ Len(ledger[c]) \in Nat /\ wire \in Seq(Printed)
  BY DrainTypes
<1>2. Answers' \in Nat
  BY AnswersNat
<1> PICK k \in Nat : Covers(inbox[c], Len(ledger[c]), k)
  BY <1>1, CoversSome
<1>3. Bears(msg.what, k, 0)
  BY DEF Bears
<1>4. Covers(Append(inbox[c], msg), Len(ledger[c]), 0)
  BY <1>1, <1>3, CoversAppend
<1>5. Covers(wire, 0, Answers')
  BY <1>1, <1>2, CoversPrinted
<1> QED BY <1>4, <1>5 DEF Drains

\* What the Mega prints fills no ledger, and its answer is one less to come.
LEMMA WirePrinted ==
    ASSUME TypeOK, TypeOK', NEW c \in Clients, Drains(c),
           inbox'[c] = inbox[c], ledger'[c] = ledger[c],
           NEW msg \in Printed, wire' = Append(wire, msg),
           msg.what = "ok" => Answers <= Answers' + 1
    PROVE  Drains(c)'
<1>1. /\ inbox[c] \in Seq(Messages) /\ Len(ledger[c]) \in Nat /\ wire \in Seq(Printed)
      /\ Answers \in Nat /\ Answers' \in Nat
  BY DrainTypes, AnswersNat
<1> PICK k \in Nat : Covers(inbox[c], Len(ledger[c]), k) /\ Covers(wire, k, Answers)
  BY DEF Drains
<1>2. Bears(msg.what, Answers, Answers')
  BY <1>1 DEF Bears, Printed
<1>3. Covers(Append(wire, msg), k, Answers')
  BY <1>1, <1>2, CoversAppend
<1> QED BY <1>3 DEF Drains

\* A start or a loss ends the ledger of whoever has not lost the port.
LEMMA WireCleared ==
    ASSUME TypeOK, TypeOK', NEW c \in Clients,
           inbox'[c] = inbox[c], ledger'[c] = ledger[c],
           NEW msg \in Printed, wire' = Append(wire, msg), msg.what # "ok"
    PROVE  Drains(c)'
<1>1. /\ inbox[c] \in Seq(Messages) /\ Len(ledger[c]) \in Nat /\ wire \in Seq(Printed)
      /\ Answers' \in Nat
  BY DrainTypes, AnswersNat
<1> PICK k \in Nat : Covers(inbox[c], Len(ledger[c]), k)
  BY <1>1, CoversSome
<1> PICK m \in Nat : Covers(wire, k, m)
  BY <1>1, CoversSome
<1>2. Bears(msg.what, m, Answers')
  BY DEF Bears, Printed
<1>3. Covers(Append(wire, msg), k, Answers')
  BY <1>1, <1>2, CoversAppend
<1> QED BY <1>3 DEF Drains

LEMMA ToldOne ==
    ASSUME TypeOK, NEW c \in Clients, NEW msg \in Messages, inbox' = Told(<<msg>>)
    PROVE  inbox'[c] = IF conn[c] THEN Append(inbox[c], msg) ELSE inbox[c]
<1>1. inbox[c] \in Seq(Messages)
  BY DrainTypes
<1>2. inbox[c] \o <<msg>> = Append(inbox[c], msg)
  BY <1>1, AppendIsConcat
<1> QED BY <1>2 DEF Told

LEMMA MegaDrains ==
    ASSUME TypeOK, TypeOK', NEW c \in Clients, conn[c], ~Excused',
           ~Excused => Drains(c), UNCHANGED pageVars,
           MegaFetches \/ MegaCarriesOut \/ PowerLoss \/ Kill \/ Reset \/ Boots
    PROVE  Drains(c)'
<1>1. /\ UNCHANGED <<bridgeVars, linkVars, dropped>> /\ MegaStep
      /\ inbox'[c] = inbox[c] /\ ledger'[c] = ledger[c]
      /\ port = "open" /\ failing = 0 /\ ~dropped /\ mega' = "up"
  BY DEF MegaFetches, MegaCarriesOut, PowerLoss, Kill, Reset, Boots, MegaStep, linkVars, bridgeVars,
      pageVars, Excused
<1>2. wire \in Seq(Printed) /\ wire \o <<>> = wire
  BY DrainTypes
<1>3. CASE MegaFetches
  <2>1. wire' = wire /\ ~Excused
    BY <1>1, <1>3 DEF MegaFetches, Excused
  <2>2. Answers' = Answers
    <3>1. /\ ring \in Seq(Lines) /\ rx \in Seq(Lines) /\ rx # <<>>
          /\ ring' = Append(ring, Head(rx)) /\ rx' = Tail(rx) /\ writing' = writing
      BY <1>1, <1>3 DEF MegaFetches, Fetch, TypeOK, BridgeTypeOK, QueueTypeOK, bridgeVars
    <3>2. Head(rx) \in Lines /\ Len(Tail(rx)) = Len(rx) - 1
      BY <3>1, HeadTailProperties
    <3>3. Len(Append(ring, Head(rx))) = Len(ring) + 1 /\ Len(ring) \in Nat /\ Len(rx) \in Nat
      BY <3>1, <3>2, AppendProperties
    <3> QED BY <3>1, <3>2, <3>3 DEF Answers
  <2> QED BY <1>1, <2>1, <2>2, DrainFrame
<1>4. CASE MegaCarriesOut
  <2>1. ~Excused /\ UNCHANGED <<rx, writing>> /\ wire' = wire \o printed'
    BY <1>1, <1>4 DEF MegaCarriesOut, Excused, Transmit, bridgeVars
  <2>2. CASE ring' = ring /\ printed' = <<>>
    <3>1. Answers' = Answers /\ wire' = wire
      BY <1>2, <2>1, <2>2 DEF Answers
    <3> QED BY <1>1, <2>1, <3>1, DrainFrame
  <2>3. CASE \E line : line.id \in Nat /\ Return(line, <<>>)
    <3> PICK line : line.id \in Nat /\ Return(line, <<>>)
      BY <2>3
    <3>1. printed' = Append(<<>>, Ok(line)) /\ ring' = IF ring = <<>> THEN ring ELSE Tail(ring)
      BY DEF Return, AdvanceR
    <3>2. Ok(line) \in Printed /\ printed' = <<Ok(line)>>
      BY <3>1 DEF Ok, Printed
    <3>3. wire' = Append(wire, Ok(line))
      BY <1>2, <2>1, <3>2, AppendIsConcat
    <3>4. Len(ring) <= Len(ring') + 1 /\ Len(ring) \in Nat /\ Len(ring') \in Nat /\ Len(rx) \in Nat
      <4>1. ring \in Seq(Lines) /\ rx \in Seq(Lines)
        BY DEF TypeOK, BridgeTypeOK, QueueTypeOK
      <4>2. CASE ring = <<>>
        BY <3>1, <4>1, <4>2
      <4>3. CASE ring # <<>>
        <5>1. Len(Tail(ring)) = Len(ring) - 1 /\ Len(ring) \in Nat \ {0}
          BY <4>1, <4>3, HeadTailProperties, EmptySeq
        <5> QED BY <3>1, <4>1, <4>3, <5>1
      <4> QED BY <4>2, <4>3
    <3>5. Answers <= Answers' + 1
      BY <2>1, <3>4 DEF Answers
    <3> QED BY <1>1, <2>1, <3>2, <3>3, <3>5, WirePrinted
  <2>4. \A line \in {ring[i] : i \in 1..Len(ring)} : line.id \in Nat
    BY LineTypes DEF TypeOK, BridgeTypeOK
  <2>5. running.id \in Nat
    BY LineTypes DEF TypeOK, BridgeTypeOK
  <2> QED BY <1>4, <2>2, <2>3, <2>4, <2>5 DEF MegaCarriesOut, Wait, Quiet
<1>5. CASE PowerLoss \/ Boots
  <2>1. \E what \in {"lost", "start"} : wire' = wire \o Report(what)
    BY <1>1, <1>5 DEF PowerLoss, Boots, Transmit
  <2> PICK what \in {"lost", "start"} : wire' = wire \o Report(what)
    BY <2>1
  <2>2. [what |-> what, id |-> 0] \in Printed
    BY DEF Printed
  <2>3. wire' = Append(wire, [what |-> what, id |-> 0])
    BY <1>2, <2>2, AppendIsConcat DEF Report
  <2> QED BY <1>1, <2>2, <2>3, WireCleared
<1>6. CASE Kill \/ Reset
  BY <1>1, <1>6 DEF Kill, Reset, Restarted
<1> QED BY <1>3, <1>4, <1>5, <1>6

LEMMA WriteBeginsDrains ==
    ASSUME TypeOK, TypeOK', NEW c \in Clients, conn[c], ~Excused',
           ~Excused => Drains(c), UNCHANGED pageVars, WriteBegins
    PROVE  Drains(c)'
<1>1. /\ UNCHANGED <<rx, ring, mega, wire, port, failing, dropped>>
      /\ writing = NoWrite /\ ledger'[c] = ledger[c]
  BY DEF WriteBegins, pageVars, queueVars
<1>2. ~Excused
  BY <1>1 DEF Excused
<1>3. /\ inbox[c] \in Seq(Messages) /\ Len(ledger[c]) \in Nat /\ wire \in Seq(Printed)
      /\ Answers \in Nat /\ Answers' \in Nat /\ Len(ring) \in Nat /\ Len(rx) \in Nat
  BY DrainTypes, AnswersNat
<1>4. Answers + 1 >= Answers'
  BY <1>1, <1>3 DEF Answers
<1>5. writing' # NoWrite
  <2>1. \A d \in Clients : outbox[d] # <<>> => Head(outbox[d]).text \in Kinds
    <3> SUFFICES ASSUME NEW d \in Clients, outbox[d] # <<>> PROVE Head(outbox[d]).text \in Kinds
      OBVIOUS
    <3>1. outbox[d] \in Seq(Sends)
      BY DEF TypeOK, BridgeTypeOK, Sends
    <3>2. Head(outbox[d]) \in Sends
      BY <3>1, HeadTailProperties
    <3> QED BY <3>2 DEF Sends
  <2>2. writing'.text # "none"
    BY <2>1, BridgeAssumption DEF WriteBegins
  <2> QED BY <2>2 DEF NoWrite
<1>6. Answers' = Answers + 1
  BY <1>1, <1>3, <1>5 DEF Answers
<1>7. \E msg \in Messages : msg.what \in {"tx", "button"} /\ inbox' = Told(<<msg>>)
  <2>1. \E what \in {"tx", "button"} : inbox' = Told(<<Echo(what, writing'.text)>>)
    BY DEF WriteBegins
  <2>2. writing'.text \in Kinds
    <3>1. writing' \in Writes \cup {NoWrite}
      BY DEF TypeOK, BridgeTypeOK
    <3> QED BY <1>5, <3>1 DEF Writes
  <2>3. \A what \in {"tx", "button"} : Echo(what, writing'.text) \in Messages
    BY <2>2 DEF Echo, Messages
  <2> QED BY <2>1, <2>3 DEF Echo
<1> PICK msg \in Messages : msg.what \in {"tx", "button"} /\ inbox' = Told(<<msg>>)
  BY <1>7
<1>8. inbox'[c] = Append(inbox[c], msg)
  BY ToldOne
<1> PICK k \in Nat : Covers(inbox[c], Len(ledger[c]), k) /\ Covers(wire, k, Answers)
  BY <1>2 DEF Drains
<1>9. Bears(msg.what, k, k + 1)
  BY BearsMore
<1>10. Covers(Append(inbox[c], msg), Len(ledger[c]), k + 1)
  BY <1>3, <1>9, CoversAppend
<1>11. Covers(wire, k + 1, Answers')
  BY <1>3, <1>6, CoversMore
<1>13. Covers(inbox'[c], Len(ledger'[c]), k + 1)
  BY <1>1, <1>8, <1>10, Zenon
<1>14. Covers(wire', k + 1, Answers')
  BY <1>1, <1>11
<1>12. k + 1 \in Nat /\ Covers(inbox'[c], Len(ledger'[c]), k + 1) /\ Covers(wire', k + 1, Answers')
  BY <1>13, <1>14
<1> QED BY <1>12 DEF Drains

LEMMA WriteEndsDrains ==
    ASSUME TypeOK, TypeOK', NEW c \in Clients, conn[c], ~Excused',
           ~Excused => Drains(c), UNCHANGED pageVars, WriteEnds
    PROVE  Drains(c)'
<1>1. /\ UNCHANGED <<ring, mega, wire, port>> /\ ledger'[c] = ledger[c]
      /\ writing # NoWrite /\ writing' = NoWrite
      /\ port = "open" /\ mega = "up" /\ failing' = 0 /\ ~dropped'
  BY DEF WriteEnds, pageVars, Excused
<1>2. WriteSucceeds
  BY <1>1 DEF WriteEnds, WriteFails
<1>3. /\ SendLine(writing.text) /\ ~dropped /\ Len(rx) # RxLines
      /\ inbox' = inbox /\ failing = 0
  BY <1>1, <1>2 DEF WriteSucceeds
<1>4. rx \in Seq(Lines) /\ Len(rx) \in Nat /\ Len(rx) < RxLines /\ Len(ring) \in Nat
  <2>1. rx \in Seq(Lines) /\ Len(rx) <= RxLines
    BY DEF TypeOK, BridgeTypeOK, QueueTypeOK
  <2> QED BY <1>3, <2>1, DrainTypes, RxAssumption
<1>5. Len(rx') = Len(rx) + 1
  <2>1. \E line : rx' = Append(rx, line)
    BY <1>3, <1>4 DEF SendLine, Arrive
  <2> QED BY <1>4, <2>1
<1>6. Answers' = Answers
  BY <1>1, <1>4, <1>5 DEF Answers
<1>7. ~Excused
  BY <1>1, <1>3 DEF Excused
<1> QED BY <1>1, <1>3, <1>6, <1>7, DrainFrame

LEMMA ReaderDrains ==
    ASSUME TypeOK, TypeOK', NEW c \in Clients, conn[c], ~Excused',
           ~Excused => Drains(c), UNCHANGED pageVars,
           ReportsDropped \/ ReadsLine \/ LosesPort \/ ClosesPort \/ OpensPort \/ TellsStatus
    PROVE  Drains(c)'
<1>1. ledger'[c] = ledger[c]
  BY DEF pageVars
<1>2. CASE LosesPort \/ ClosesPort \/ OpensPort
  BY <1>2 DEF LosesPort, ClosesPort, OpensPort, Excused
<1>3. CASE ReportsDropped \/ TellsStatus
  <2>1. /\ wire' = wire
        /\ \E what \in {"open", "closed", "error"} : inbox' = Told(<<Message(what)>>)
    BY <1>3 DEF ReportsDropped, TellsStatus
  <2> PICK what \in {"open", "closed", "error"} : inbox' = Told(<<Message(what)>>)
    BY <2>1
  <2>2. Message(what) \in Messages /\ Message(what).what \notin {"tx", "button", "ok"}
    BY DEF Message, Messages
  <2>3. inbox'[c] = Append(inbox[c], Message(what))
    BY <2>2, ToldOne
  <2> QED BY <1>1, <2>1, <2>2, <2>3, InboxCleared
<1>4. CASE ReadsLine
  <2>1. /\ wire # <<>> /\ wire' = Tail(wire) /\ ~Excused
        /\ inbox' = Told(<<[what |-> Head(wire).what, id |-> Head(wire).id, text |-> "none"]>>)
        /\ UNCHANGED <<rx, ring, writing>>
    BY <1>4 DEF ReadsLine, ReaderStep, Excused, queueVars
  <2>2. /\ inbox[c] \in Seq(Messages) /\ Len(ledger[c]) \in Nat /\ wire \in Seq(Printed)
        /\ Answers \in Nat
    BY DrainTypes
  <2> DEFINE msg == [what |-> Head(wire).what, id |-> Head(wire).id, text |-> "none"]
  <2>3. Head(wire) \in Printed /\ Head(wire) = wire[1]
    BY <2>1, <2>2, HeadTailProperties
  <2>4. msg \in Messages /\ msg.what = wire[1].what
    BY <2>3 DEF Printed, Messages
  <2>5. inbox'[c] = Append(inbox[c], msg)
    BY <2>1, <2>4, ToldOne
  <2> HIDE DEF msg
  <2> PICK k \in Nat : Covers(inbox[c], Len(ledger[c]), k) /\ Covers(wire, k, Answers)
    BY <2>1 DEF Drains
  <2> PICK m \in Nat : Bears(wire[1].what, k, m) /\ Covers(Tail(wire), m, Answers)
    BY <2>1, <2>2, CoversTail
  <2>6. Covers(Append(inbox[c], msg), Len(ledger[c]), m)
    BY <2>2, <2>4, CoversAppend
  <2>7. Answers' = Answers
    BY <2>1, AnswersKept
  <2> QED BY <1>1, <2>1, <2>5, <2>6, <2>7 DEF Drains
<1> QED BY <1>2, <1>3, <1>4

\* The page handles its next message.
LEMMA HandleMessageDrains ==
    ASSUME TypeOK, TypeOK', NEW d \in Clients, HandleMessage(d),
           NEW c \in Clients, ~Excused', ~Excused => Drains(c)
    PROVE  Drains(c)'
<1>1. /\ UNCHANGED <<rx, ring, writing, mega, port, failing, dropped, wire>>
      /\ inbox' = [inbox EXCEPT ![d] = Tail(@)] /\ inbox[d] # <<>>
  BY DEF HandleMessage, queueVars, bridgeVars, histVars
<1>2. /\ inbox \in [Clients -> Seq(Messages)] /\ wire \in Seq(Printed)
      /\ Len(ledger[c]) \in Nat /\ Answers \in Nat /\ LedgerTypes
  BY DrainTypes DEF TypeOK, BridgeTypeOK, LedgerTypes, Sends
<1>3. Answers' = Answers /\ ~Excused
  BY <1>1, AnswersKept DEF Excused
<1>4. Head(inbox[d]) \in Messages /\ Head(inbox[d]) = inbox[d][1]
  BY <1>1, <1>2, HeadTailProperties
<1>5. CASE c # d
  <2>1. inbox'[c] = inbox[c]
    BY <1>1, <1>2, <1>5
  <2>2. ledger'[c] = ledger[c]
    <3>1. c \in Clients \ {d}
      BY <1>5
    <3> QED BY <1>2, <1>4, <3>1, EchoTypes, OkTypes, LostTypes DEF HandleMessage, Unanswered
  <2> QED BY <1>1, <1>3, <2>1, <2>2, DrainFrame
<1>6. CASE c = d
  <2>1. inbox'[c] = Tail(inbox[c]) /\ inbox[c] \in Seq(Messages) /\ inbox[c] # <<>>
    BY <1>1, <1>2, <1>6
  <2> PICK k \in Nat : Covers(inbox[c], Len(ledger[c]), k) /\ Covers(wire, k, Answers)
    BY <1>3 DEF Drains
  <2> PICK m \in Nat : Bears(inbox[c][1].what, Len(ledger[c]), m) /\ Covers(Tail(inbox[c]), m, k)
    BY <1>2, <2>1, CoversTail
  <2>2. Len(ledger'[c]) <= m /\ Len(ledger'[c]) \in Nat
    <3>1. CASE OkLedgerEcho(c, inbox[c][1])
      <4>1. inbox[c][1].what \in {"tx", "button"}
        BY <3>1 DEF OkLedgerEcho
      <4>2. (\E step \in Nat : ledger'[c] = Append(ledger[c], step)) \/ ledger'[c] = <<>>
        <5>1. LedgerTypes /\ inbox[c][1] \in Messages
          BY <1>2, <1>4, <1>6
        <5> QED BY <3>1, <5>1, EchoTypes
      <4>3. Len(ledger[c]) + 1 <= m
        BY <4>1 DEF Bears
      <4>4. ledger[c] \in Seq(Nat) /\ Len(<<>>) = 0
        BY DrainTypes
      <4>5. CASE ledger'[c] = <<>>
        BY <1>2, <4>3, <4>4, <4>5
      <4>6. CASE \E step \in Nat : ledger'[c] = Append(ledger[c], step)
        <5> PICK step \in Nat : ledger'[c] = Append(ledger[c], step)
          BY <4>6
        <5>1. Len(ledger'[c]) = Len(ledger[c]) + 1
          BY <4>4, AppendProperties
        <5> QED BY <1>2, <4>3, <5>1
      <4> QED BY <4>2, <4>5, <4>6
    <3>2. CASE OkLedgerOk(c, inbox[c][1])
      <4>1. inbox[c][1].what = "ok"
        BY <3>2 DEF OkLedgerOk
      <4>2. \/ ledger'[c] = <<>>
            \/ ledger[c] # <<>> /\ ledger'[c] = Tail(ledger[c])
        <5>1. LedgerTypes /\ inbox[c][1] \in Messages
          BY <1>2, <1>4, <1>6
        <5> QED BY <3>2, <5>1, OkTypes
      <4>3. Len(ledger[c]) <= m + 1
        BY <4>1 DEF Bears
      <4>4. ledger[c] \in Seq(Nat)
        BY DrainTypes
      <4>5. ledger[c] # <<>> => Len(Tail(ledger[c])) = Len(ledger[c]) - 1 /\ Len(ledger[c]) \in Nat \ {0}
        BY <4>4, HeadTailProperties, EmptySeq
      <4>6. CASE ledger'[c] = <<>>
        <5>1. Len(ledger'[c]) = 0
          BY <4>6
        <5> QED BY <5>1
      <4>7. CASE ledger[c] # <<>> /\ ledger'[c] = Tail(ledger[c])
        <5>1. Len(ledger'[c]) = Len(ledger[c]) - 1 /\ Len(ledger[c]) \in Nat \ {0}
          BY <4>5, <4>7
        <5> QED BY <4>3, <5>1
      <4> QED BY <4>2, <4>6, <4>7
    <3>3. CASE Unanswered(c, inbox[c][1])
      <4>1. ledger'[c] = <<>>
        BY <1>2, <3>3, LostTypes DEF Unanswered
      <4> QED BY <4>1
    <3> QED BY <1>4, <1>6, <3>1, <3>2, <3>3 DEF HandleMessage
  <2>3. Covers(Tail(inbox[c]), Len(ledger'[c]), k)
    <3>1. Tail(inbox[c]) \in Seq(Messages)
      BY <2>1, HeadTailProperties
    <3> DEFINE n == Len(ledger'[c])
               s == Tail(inbox[c])
    <3>2. n \in Nat /\ n <= m /\ k <= k /\ s \in Seq(Messages) /\ Covers(s, m, k)
      BY <2>2, <3>1
    <3> HIDE DEF n, s
    <3>3. Covers(s, n, k)
      BY <3>2, CoversWeaken
    <3> QED BY <3>3 DEF n, s
  <2> QED BY <1>1, <1>3, <2>1, <2>3 DEF Drains
<1> QED BY <1>5, <1>6

\* The ledgers drain after any step.
LEMMA DrainStep ==
    ASSUME TypeOK, QueueOrder, TypeOK', DrainInv, [Next]_vars
    PROVE  DrainInv'
<1> SUFFICES ASSUME NEW c \in Clients, conn'[c], ~Excused' PROVE Drains(c)'
  BY DEF DrainInv
<1>1. CASE BridgeStep /\ UNCHANGED pageVars
  <2>1. conn[c]
    BY <1>1 DEF BridgeStep, MegaFetches, MegaCarriesOut, PowerLoss, Kill, Reset, Boots, MegaStep,
       WriteBegins, WriteEnds, ReportsDropped, ReadsLine, LosesPort, ClosesPort, OpensPort, TellsStatus,
       ReaderStep, linkVars
  <2>2. ~Excused => Drains(c)
    BY <2>1 DEF DrainInv
  <2> QED BY <1>1, <2>1, <2>2, MegaDrains, WriteBeginsDrains, WriteEndsDrains, ReaderDrains DEF BridgeStep
<1>2. CASE PageStep
  <2> PICK d \in Clients :
        SendOnly(d) \/ Step(d) \/ Stop(d) \/ Timeout(d) \/ HandleMessage(d) \/ SetConnected(d)
    BY <1>2 DEF PageStep
  <2>1. CASE SendOnly(d) \/ Step(d) \/ Stop(d) \/ Timeout(d)
    <3>1. UNCHANGED <<rx, ring, writing, mega, port, failing, dropped, wire, conn, inbox, ledger>>
      BY <2>1 DEF SendOnly, Step, Stop, Timeout, SendCmd, queueVars, bridgeVars, linkVars, histVars
    <3>2. Answers' = Answers /\ ~Excused /\ conn[c]
      BY <3>1, AnswersKept DEF Excused
    <3> QED BY <3>1, <3>2, DrainFrame DEF DrainInv
  <2>2. CASE HandleMessage(d)
    <3>1. conn[c]
      BY <2>2 DEF HandleMessage
    <3> QED BY <2>2, <3>1, HandleMessageDrains DEF DrainInv
  <2>3. CASE SetConnected(d)
    <3>1. /\ UNCHANGED <<rx, ring, writing, mega, port, failing, dropped, wire>>
          /\ conn \in [Clients -> BOOLEAN] /\ inbox \in [Clients -> Seq(Messages)]
          /\ LedgerTypes /\ wire \in Seq(Printed) /\ Answers \in Nat
      <4>1. UNCHANGED <<rx, ring, writing, mega, port, failing, dropped, wire>>
        BY <2>3 DEF SetConnected, Accepts, Loses, queueVars, bridgeVars, histVars
      <4>2. conn \in [Clients -> BOOLEAN] /\ inbox \in [Clients -> Seq(Messages)]
        BY DEF TypeOK, BridgeTypeOK
      <4> QED BY <4>1, <4>2, DrainTypes, TypeParts
    <3>2. Answers' = Answers /\ ~Excused
      BY <3>1, AnswersKept DEF Excused
    <3>3. CASE c # d
      <4>1. conn[c] /\ inbox'[c] = inbox[c]
        BY <2>3, <3>1, <3>3 DEF SetConnected, Accepts, Loses
      <4>2. ledger'[c] = ledger[c]
        BY <2>3, <3>1, <3>3, LostTypes DEF SetConnected
      <4> QED BY <3>1, <3>2, <4>1, <4>2, DrainFrame DEF DrainInv
    <3>4. CASE c = d
      <4>1. ledger'[c] = <<>> /\ Len(ledger'[c]) = 0
        BY <2>3, <3>1, <3>4, LostTypes DEF SetConnected
      <4>2. \E what \in {"open", "closed"} : inbox'[c] = <<Message(what)>>
        BY <2>3, <3>1, <3>4 DEF SetConnected, Accepts, Loses
      <4> PICK what \in {"open", "closed"} : inbox'[c] = <<Message(what)>>
        BY <4>2
      <4>3. Message(what) \in Messages /\ Message(what).what = what
        BY DEF Message, Messages
      <4>4. Covers(<<>>, 0, 0) /\ <<>> \in Seq(Messages)
        <5>1. Covers(<<>>, 0, 0)
          BY CoversEmpty
        <5> QED BY <5>1
      <4>5. Bears(Message(what).what, 0, 0)
        BY <4>3 DEF Bears
      <4>6. Covers(Append(<<>>, Message(what)), 0, 0)
        BY <4>3, <4>4, <4>5, CoversAppend
      <4>7. Append(<<>>, Message(what)) = <<Message(what)>>
        OBVIOUS
      <4>8. Covers(wire, 0, Answers)
        BY <3>1, CoversPrinted
      <4>9. Covers(inbox'[c], Len(ledger'[c]), 0)
        BY <4>1, <4>6, <4>7, Zenon
      <4>10. Covers(wire', 0, Answers')
        BY <3>1, <3>2, <4>8, Zenon
      <4> QED BY <4>9, <4>10 DEF Drains
    <3> QED BY <3>3, <3>4
  <2> QED BY <2>1, <2>2, <2>3
<1>3. CASE UNCHANGED vars
  <2>1. UNCHANGED <<rx, ring, writing, mega, port, failing, dropped, wire, conn, inbox, ledger>>
    BY <1>3 DEF vars, queueVars, bridgeVars, linkVars, histVars, pageVars
  <2>2. Answers' = Answers /\ ~Excused /\ conn[c]
    BY <2>1, AnswersKept DEF Excused
  <2> QED BY <2>1, <2>2, DrainFrame DEF DrainInv
<1> QED BY <1>1, <1>2, <1>3 DEF Next

-----------------------------------------------------------------------------
(* Where the echoes of the pending commands are.                            *)

LEMMA LengthsAdd ==
    ASSUME NEW s, NEW t
    PROVE  /\ Len(s) \in Nat /\ Len(t) \in Nat => Len(s) + Len(t) \in Nat
           /\ s = <<>> /\ t = <<>> => Len(s) + Len(t) = 0
OBVIOUS

LEMMA EmbedsEmpty ==
    ASSUME NEW n \in Nat, NEW t
    PROVE  Embeds(<<>>, n, t)
<1> DEFINE f == [i \in 1..0 |-> 1]
<1>1. Len(<<>>) = 0 /\ f \in [1..0 -> 1..n] /\ \A i \in 1..0 : FALSE
  OBVIOUS
<1> HIDE DEF f
<1>2. Finds(f, <<>>, n, t)
  BY <1>1 DEF Finds
<1> QED BY <1>2 DEF Embeds

\* A command is sent.
LEMMA EmbedsSent ==
    ASSUME NEW p \in Seq(Sends), NEW n \in Nat, NEW t, Embeds(p, n, t),
           NEW x \in Sends, NEW u, \A i \in 1..n : u[i] = t[i], u[n + 1] = x.text
    PROVE  Embeds(Append(p, x), n + 1, u)
<1> PICK f : Finds(f, p, n, t)
  BY DEF Embeds
<1> DEFINE q == Append(p, x)
           g == [i \in 1..Len(q) |-> IF i <= Len(p) THEN f[i] ELSE n + 1]
<1>1. /\ Len(p) \in Nat /\ Len(q) = Len(p) + 1 /\ q[Len(p) + 1] = x
      /\ \A i \in 1..Len(p) : q[i] = p[i]
  BY AppendProperties
<1>2. /\ f \in [1..Len(p) -> 1..n]
      /\ \A i, j \in 1..Len(p) : i < j => f[i] < f[j]
      /\ \A i \in 1..Len(p) : p[i].text = t[f[i]]
  BY DEF Finds
<1>3. /\ \A i \in 1..Len(p) : g[i] = f[i] /\ f[i] \in 1..n
      /\ g[Len(p) + 1] = n + 1
      /\ g \in [1..Len(q) -> 1..(n + 1)]
  <2>1. \A i \in 1..Len(q) : i \in 1..Len(p) \/ i = Len(p) + 1
    BY <1>1
  <2>2. \A i \in 1..Len(p) : i \in 1..Len(q) /\ i <= Len(p)
    BY <1>1
  <2>3. Len(p) + 1 \in 1..Len(q) /\ ~(Len(p) + 1 <= Len(p))
    BY <1>1
  <2>4. \A i \in 1..Len(p) : f[i] \in 1..n /\ f[i] \in 1..(n + 1)
    BY <1>2
  <2>5. n + 1 \in 1..(n + 1)
    OBVIOUS
  <2> QED BY <2>1, <2>2, <2>3, <2>4, <2>5
<1> HIDE DEF g, q
<1>4. ASSUME NEW i \in 1..Len(q), NEW j \in 1..Len(q), i < j PROVE g[i] < g[j]
  <2>1. i \in 1..Len(p) /\ (j \in 1..Len(p) \/ j = Len(p) + 1)
    BY <1>1, <1>4
  <2>2. g[i] = f[i] /\ f[i] \in 1..n
    BY <1>3, <2>1
  <2>3. CASE j \in 1..Len(p)
    BY <1>2, <1>3, <1>4, <2>1, <2>3
  <2>4. CASE j = Len(p) + 1
    BY <1>3, <2>2, <2>4
  <2> QED BY <2>1, <2>3, <2>4
<1>5. ASSUME NEW i \in 1..Len(q) PROVE q[i].text = u[g[i]]
  <2>1. CASE i \in 1..Len(p)
    BY <1>1, <1>2, <1>3, <2>1
  <2>2. CASE i = Len(p) + 1
    BY <1>1, <1>3, <2>2
  <2> QED BY <1>1, <2>1, <2>2
<1>6. Finds(g, q, n + 1, u)
  BY <1>3, <1>4, <1>5 DEF Finds
<1> QED BY <1>6 DEF Embeds, q

\* A message comes in between.
LEMMA EmbedsBetween ==
    ASSUME NEW p \in Seq(Sends), NEW n \in Nat, NEW t, Embeds(p, n, t),
           NEW k \in Nat, k <= n,
           NEW u, \A i \in 1..n : IF i <= k THEN u[i] = t[i] ELSE u[i + 1] = t[i]
    PROVE  Embeds(p, n + 1, u)
<1> PICK f : Finds(f, p, n, t)
  BY DEF Embeds
<1>1. /\ Len(p) \in Nat /\ f \in [1..Len(p) -> 1..n]
      /\ \A i, j \in 1..Len(p) : i < j => f[i] < f[j]
      /\ \A i \in 1..Len(p) : p[i].text = t[f[i]]
  BY DEF Finds
<1> DEFINE g == [i \in 1..Len(p) |-> IF f[i] <= k THEN f[i] ELSE f[i] + 1]
<1>2. \A i \in 1..Len(p) : f[i] \in 1..n /\ g[i] = IF f[i] <= k THEN f[i] ELSE f[i] + 1
  BY <1>1
<1>3. g \in [1..Len(p) -> 1..(n + 1)]
  <2>1. \A i \in 1..Len(p) : g[i] \in 1..(n + 1)
    BY <1>2
  <2> QED BY <2>1
<1> HIDE DEF g
<1>4. ASSUME NEW i \in 1..Len(p), NEW j \in 1..Len(p), i < j PROVE g[i] < g[j]
  <2>1. f[i] < f[j] /\ f[i] \in 1..n /\ f[j] \in 1..n
    BY <1>1, <1>2, <1>4
  <2> QED BY <1>2, <2>1
<1>5. ASSUME NEW i \in 1..Len(p) PROVE p[i].text = u[g[i]]
  BY <1>1, <1>2
<1>6. Finds(g, p, n + 1, u)
  BY <1>3, <1>4, <1>5 DEF Finds
<1> QED BY <1>6 DEF Embeds

\* The first message is handled: it is the echo of the first command, or not.
LEMMA EmbedsTail ==
    ASSUME NEW p \in Seq(Sends), NEW n \in Nat, NEW t, Embeds(p, n + 1, t),
           NEW u, \A i \in 1..n : u[i] = t[i + 1]
    PROVE  /\ p # <<>> => Embeds(Tail(p), n, u)
           /\ p = <<>> \/ p[1].text # t[1] => Embeds(p, n, u)
<1> PICK f : Finds(f, p, n + 1, t)
  BY DEF Embeds
<1>1. /\ Len(p) \in Nat /\ f \in [1..Len(p) -> 1..(n + 1)]
      /\ \A i, j \in 1..Len(p) : i < j => f[i] < f[j]
      /\ \A i \in 1..Len(p) : p[i].text = t[f[i]]
  BY DEF Finds
<1>2. ASSUME p # <<>> PROVE Embeds(Tail(p), n, u)
  <2> DEFINE q == Tail(p)
             g == [i \in 1..Len(q) |-> f[i + 1] - 1]
  <2>1. /\ Len(q) = Len(p) - 1 /\ Len(p) \in Nat \ {0} /\ \A i \in 1..Len(q) : q[i] = p[i + 1]
    BY <1>2, HeadTailProperties, EmptySeq
  <2> HIDE DEF q
  <2>2. \A i \in 1..Len(q) : i + 1 \in 1..Len(p) /\ 1 \in 1..Len(p) /\ 1 < i + 1
    BY <2>1
  <2>3. \A i \in 1..Len(q) : f[i + 1] \in 1..(n + 1) /\ f[1] \in 1..(n + 1) /\ f[1] < f[i + 1]
    BY <1>1, <2>2
  <2>4. \A i \in 1..Len(q) : g[i] = f[i + 1] - 1 /\ g[i] \in 1..n
    BY <2>3
  <2>5. g \in [1..Len(q) -> 1..n]
    BY <2>4
  <2> HIDE DEF g
  <2>6. ASSUME NEW i \in 1..Len(q), NEW j \in 1..Len(q), i < j PROVE g[i] < g[j]
    <3>1. i + 1 < j + 1
      BY <2>1, <2>6
    <3>2. f[i + 1] < f[j + 1]
      BY <1>1, <2>2, <3>1
    <3> QED BY <2>3, <2>4, <3>2
  <2>7. ASSUME NEW i \in 1..Len(q) PROVE q[i].text = u[g[i]]
    <3>1. g[i] \in 1..n /\ g[i] + 1 = f[i + 1]
      BY <2>3, <2>4
    <3>2. q[i].text = t[f[i + 1]]
      BY <1>1, <2>1, <2>2
    <3> QED BY <3>1, <3>2
  <2>8. Finds(g, q, n, u)
    BY <2>5, <2>6, <2>7 DEF Finds
  <2> QED BY <2>8 DEF Embeds, q
<1>3. ASSUME p = <<>> \/ p[1].text # t[1] PROVE Embeds(p, n, u)
  <2> DEFINE g == [i \in 1..Len(p) |-> f[i] - 1]
  <2>1. \A i \in 1..Len(p) : f[i] \in 2..(n + 1)
    <3> SUFFICES ASSUME NEW i \in 1..Len(p) PROVE f[i] \in 2..(n + 1)
      OBVIOUS
    <3>1. p # <<>> /\ 1 \in 1..Len(p) /\ (i = 1 \/ 1 < i)
      BY <1>1
    <3>2. f[1] # 1
      BY <1>1, <1>3, <3>1
    <3>3. f[1] \in 1..(n + 1) /\ f[i] \in 1..(n + 1) /\ (i = 1 \/ f[1] < f[i])
      BY <1>1, <3>1
    <3> QED BY <3>2, <3>3
  <2>2. \A i \in 1..Len(p) : g[i] = f[i] - 1 /\ g[i] \in 1..n
    BY <2>1
  <2>3. g \in [1..Len(p) -> 1..n]
    BY <2>2
  <2> HIDE DEF g
  <2>4. ASSUME NEW i \in 1..Len(p), NEW j \in 1..Len(p), i < j PROVE g[i] < g[j]
    <3>1. f[i] < f[j]
      BY <1>1, <2>4
    <3> QED BY <2>1, <2>2, <3>1
  <2>5. ASSUME NEW i \in 1..Len(p) PROVE p[i].text = u[g[i]]
    <3>2. f[i] \in 2..(n + 1) /\ g[i] = f[i] - 1 /\ g[i] \in 1..n
      BY <2>1, <2>2
    <3>1. g[i] \in 1..n /\ g[i] + 1 = f[i]
      BY <3>2
    <3> QED BY <1>1, <3>1
  <2>6. Finds(g, p, n, u)
    BY <2>3, <2>4, <2>5 DEF Finds
  <2> QED BY <2>6 DEF Embeds
<1> QED BY <1>2, <1>3

\* What a step of the bridge tells the pages, and whose command it takes.
LEMMA BridgeTells ==
    ASSUME TypeOK, BridgeStep
    PROVE  /\ conn' = conn
           /\ \/ UNCHANGED <<outbox, inbox>>
              \/ outbox' = outbox /\ \E msg \in Messages : inbox' = Told(<<msg>>)
              \/ \E d \in Clients :
                    /\ outbox[d] # <<>> /\ outbox' = [outbox EXCEPT ![d] = Tail(@)]
                    /\ inbox' = Told(<<Echo("tx", Head(outbox[d]).text)>>)
<1>1. CASE MegaFetches \/ MegaCarriesOut \/ PowerLoss \/ Kill \/ Reset \/ Boots
  BY <1>1 DEF MegaFetches, MegaCarriesOut, PowerLoss, Kill, Reset, Boots, MegaStep, linkVars
<1>2. CASE LosesPort \/ ClosesPort \/ OpensPort
  BY <1>2 DEF LosesPort, ClosesPort, OpensPort, ReaderStep
<1>3. CASE WriteBegins
  <2>1. conn' = conn
    BY <1>3 DEF WriteBegins
  <2>2. Echo("button", ButtonText) \in Messages
    BY BridgeAssumption DEF Echo, Messages
  <2> QED BY <1>3, <2>1, <2>2 DEF WriteBegins
<1>4. \A what \in {"open", "closed", "error"} : Message(what) \in Messages
  BY DEF Message, Messages
<1>5. CASE WriteEnds
  BY <1>4, <1>5 DEF WriteEnds, WriteSucceeds, WriteFails
<1>6. CASE ReportsDropped
  BY <1>4, <1>6 DEF ReportsDropped
<1>7. CASE TellsStatus
  BY <1>4, <1>7 DEF TellsStatus, ReaderStep
<1>8. CASE ReadsLine
  <2>1. wire \in Seq(Printed) /\ wire # <<>>
    BY <1>8, DrainTypes DEF ReadsLine
  <2>2. Head(wire) \in Printed
    BY <2>1, HeadTailProperties
  <2>3. [what |-> Head(wire).what, id |-> Head(wire).id, text |-> "none"] \in Messages
    BY <2>2 DEF Printed, Messages
  <2> QED BY <1>8, <2>3 DEF ReadsLine, ReaderStep
<1> QED BY <1>1, <1>2, <1>3, <1>5, <1>6, <1>7, <1>8 DEF BridgeStep

\* A page that is not connected knows nothing.
LEMMA ConnStep ==
    ASSUME TypeOK, ConnInv, [Next]_vars
    PROVE  ConnInv'
<1> SUFFICES ASSUME NEW c \in Clients, ~conn'[c]
             PROVE  ledger'[c] = <<>> /\ pending'[c] = <<>> /\ waiter'[c] = 0 /\ inbox'[c] = <<>>
  BY DEF ConnInv
<1>0. /\ conn \in [Clients -> BOOLEAN] /\ inbox \in [Clients -> Seq(Messages)] /\ LedgerTypes
  BY DEF TypeOK, BridgeTypeOK, LedgerTypes, Sends
<1>1. CASE BridgeStep /\ UNCHANGED pageVars
  <2>1. ~conn[c]
    BY <1>1, BridgeTells
  <2>2. ledger[c] = <<>> /\ pending[c] = <<>> /\ waiter[c] = 0 /\ inbox[c] = <<>>
    BY <2>1 DEF ConnInv
  <2>3. \A messages : Told(messages)[c] = inbox[c]
    BY <2>1 DEF Told
  <2>4. inbox'[c] = inbox[c]
    BY <1>1, <2>3, BridgeTells
  <2> QED BY <1>1, <2>2, <2>4 DEF pageVars
<1>2. CASE PageStep
  <2> PICK d \in Clients :
        SendOnly(d) \/ Step(d) \/ Stop(d) \/ Timeout(d) \/ HandleMessage(d) \/ SetConnected(d)
    BY <1>2 DEF PageStep
  <2>1. CASE SendOnly(d) \/ Step(d) \/ Stop(d)
    <3>1. conn[d] /\ UNCHANGED <<conn, inbox, ledger>> /\ \E x : pending' = [pending EXCEPT ![d] = x]
      BY <2>1 DEF SendOnly, Step, Stop, SendCmd
    <3>2. c # d /\ ~conn[c]
      BY <3>1
    <3>3. \E x : waiter' = [waiter EXCEPT ![d] = x]
      <4>1. waiter = [waiter EXCEPT ![d] = waiter[d]]
        BY <1>0 DEF LedgerTypes
      <4> QED BY <2>1, <4>1 DEF SendOnly, Step, Stop, GivesUp
    <3>4. pending'[c] = pending[c] /\ waiter'[c] = waiter[c]
      BY <1>0, <3>1, <3>2, <3>3 DEF LedgerTypes
    <3> QED BY <3>1, <3>2, <3>4 DEF ConnInv
  <2>2. CASE Timeout(d)
    <3>1. UNCHANGED <<conn, inbox, ledger, pending>> /\ waiter' = [waiter EXCEPT ![d] = 0]
      BY <2>2 DEF Timeout, GivesUp, linkVars
    <3>2. waiter'[c] = waiter[c] \/ waiter'[c] = 0
      BY <1>0, <3>1 DEF LedgerTypes
    <3> QED BY <3>1, <3>2 DEF ConnInv
  <2>3. CASE HandleMessage(d)
    <3>1. conn' = conn /\ inbox[d] # <<>> /\ inbox' = [inbox EXCEPT ![d] = Tail(@)]
      BY <2>3 DEF HandleMessage
    <3>2. ~conn[c] /\ c # d
      BY <3>1 DEF ConnInv
    <3>3. Head(inbox[d]) \in Messages
      BY <1>0, <3>1, HeadTailProperties
    <3>4. ledger'[c] = ledger[c] /\ waiter'[c] = waiter[c] /\ pending'[c] = pending[c]
      <4>1. c \in Clients \ {d}
        BY <3>2
      <4>2. CASE OkLedgerEcho(d, Head(inbox[d]))
        BY <1>0, <3>3, <4>1, <4>2, EchoTypes
      <4>3. CASE OkLedgerOk(d, Head(inbox[d]))
        BY <1>0, <3>3, <4>1, <4>3, OkTypes
      <4>4. CASE Unanswered(d, Head(inbox[d]))
        BY <1>0, <4>1, <4>4, LostTypes DEF Unanswered
      <4> QED BY <2>3, <4>2, <4>3, <4>4 DEF HandleMessage
    <3>5. inbox'[c] = inbox[c]
      BY <1>0, <3>1, <3>2
    <3> QED BY <3>2, <3>4, <3>5 DEF ConnInv
  <2>4. CASE SetConnected(d)
    <3>1. OkLedgerLost(d) /\ pending' = [pending EXCEPT ![d] = <<>>]
      BY <2>4 DEF SetConnected
    <3>2. CASE c = d
      <4>1. inbox'[c] = <<>>
        BY <1>0, <2>4, <3>2 DEF SetConnected, Accepts, Loses
      <4>2. ledger'[c] = <<>> /\ waiter'[c] = 0
        BY <1>0, <3>1, <3>2, LostTypes
      <4>3. pending'[c] = <<>>
        BY <1>0, <3>1, <3>2 DEF LedgerTypes
      <4> QED BY <4>1, <4>2, <4>3
    <3>3. CASE c # d
      <4>1. inbox'[c] = inbox[c] /\ ~conn[c]
        BY <1>0, <2>4, <3>3 DEF SetConnected, Accepts, Loses
      <4>2. ledger'[c] = ledger[c] /\ waiter'[c] = waiter[c]
        <5>1. c \in Clients \ {d}
          BY <3>3
        <5> QED BY <1>0, <3>1, <5>1, LostTypes
      <4>3. pending'[c] = pending[c]
        BY <1>0, <3>1, <3>3 DEF LedgerTypes
      <4> QED BY <4>1, <4>2, <4>3 DEF ConnInv
    <3> QED BY <3>2, <3>3
  <2> QED BY <2>1, <2>2, <2>3, <2>4
<1>3. CASE UNCHANGED vars
  BY <1>3 DEF vars, linkVars, pageVars, ConnInv
<1> QED BY <1>1, <1>2, <1>3 DEF Next

\* The step that is waited for is pending or in the ledger.
Noted(c) ==
    \/ \E i \in 1..Len(ledger[c]) : ledger[c][i] = waiter[c]
    \/ \E i \in 1..Len(pending[c]) : pending[c][i].step = waiter[c]

LEMMA WaiterSends ==
    ASSUME TypeOK, WaiterInv, NEW c \in Clients, waiter'[c] # 0,
           NEW d \in Clients, SendOnly(d) \/ Step(d) \/ Stop(d)
    PROVE  Noted(c)'
<1>1. /\ ledger' = ledger /\ LedgerTypes
      /\ \E text \in Kinds, step \in Nat :
            pending' = [pending EXCEPT ![d] = Append(@, [text |-> text, step |-> step])]
  <2>1. ledger' = ledger /\ LedgerTypes
    BY TypeParts DEF SendOnly, Step, Stop, SendCmd
  <2>2. CASE SendOnly(d)
    <3> PICK text \in TextsOf[d] : SendCmd(d, text, 0)
      BY <2>2 DEF SendOnly
    <3>1. text \in Kinds /\ 0 \in Nat
      BY LedgerAssumption
    <3> QED BY <2>1, <3>1 DEF SendCmd
  <2>3. CASE Step(d)
    <3>1. steps'[d] \in Nat
      BY <2>1, <2>3 DEF Step, LedgerTypes
    <3> QED BY <2>1, <2>3, <3>1, LedgerAssumption DEF Step, SendCmd
  <2>4. CASE Stop(d)
    BY <2>1, <2>4, LedgerAssumption DEF Stop, SendCmd
  <2> QED BY <2>1, <2>2, <2>3, <2>4
<1> PICK text \in Kinds, step \in Nat :
        pending' = [pending EXCEPT ![d] = Append(@, [text |-> text, step |-> step])]
  BY <1>1
<1>2. pending[d] \in Seq(Sends) /\ [text |-> text, step |-> step] \in Sends
  BY <1>1 DEF LedgerTypes, Sends
<1>3. CASE waiter'[c] = waiter[c]
  <2>1. /\ Len(pending[c]) \in Nat /\ Len(pending[c]) <= Len(pending'[c]) /\ Len(pending'[c]) \in Nat
        /\ \A i \in 1..Len(pending[c]) : pending'[c][i] = pending[c][i]
    <3>1. CASE c = d
      <4>1. pending'[c] = Append(pending[c], [text |-> text, step |-> step])
        BY <1>1, <3>1 DEF LedgerTypes
      <4> QED BY <1>2, <3>1, <4>1, AppendProperties
    <3>2. CASE c # d
      <4>1. pending'[c] = pending[c] /\ pending[c] \in Seq(Sends)
        BY <1>1, <3>2 DEF LedgerTypes
      <4> QED BY <4>1
    <3> QED BY <3>1, <3>2
  <2>2. Noted(c)
    BY <1>3 DEF WaiterInv, Noted
  <2> QED BY <1>1, <1>3, <2>1, <2>2 DEF Noted
<1>4. CASE waiter'[c] # waiter[c]
  <2>1. c = d /\ Step(d)
    <3>1. SendOnly(d) => waiter' = waiter
      BY DEF SendOnly
    <3>2. Stop(d) => waiter' = [waiter EXCEPT ![d] = 0]
      BY DEF Stop, GivesUp
    <3>3. Step(d) => waiter' = [waiter EXCEPT ![d] = steps'[d]]
      BY DEF Step
    <3> QED BY <1>1, <1>4, <3>1, <3>2, <3>3 DEF LedgerTypes
  <2>2. waiter'[c] = steps'[d]
    BY <1>1, <2>1 DEF Step, LedgerTypes
  <2>3. \E t \in TextsOf[d] :
            pending'[d] = Append(pending[d], [text |-> t, step |-> steps'[d]])
    BY <1>1, <2>1 DEF Step, SendCmd, LedgerTypes
  <2> PICK t \in TextsOf[d] :
            pending'[d] = Append(pending[d], [text |-> t, step |-> steps'[d]])
    BY <2>3
  <2>4. /\ Len(pending[d]) + 1 \in 1..Len(pending'[d])
        /\ pending'[d][Len(pending[d]) + 1].step = steps'[d]
    BY <1>2
  <2> QED BY <2>1, <2>2, <2>4 DEF Noted
<1> QED BY <1>3, <1>4

LEMMA WaiterHandles ==
    ASSUME TypeOK, WaiterInv, NEW c \in Clients, waiter'[c] # 0, HandleMessage(c)
    PROVE  Noted(c)'
<1>0. LedgerTypes
  BY TypeParts
<1>1. Head(inbox[c]) \in Messages
  <2>1. inbox[c] \in Seq(Messages) /\ inbox[c] # <<>>
    BY DrainTypes DEF HandleMessage
  <2> QED BY <2>1, HeadTailProperties
<1> DEFINE msg == Head(inbox[c])
<1>2. OkLedgerEcho(c, msg) \/ OkLedgerOk(c, msg) \/ Unanswered(c, msg)
  BY DEF HandleMessage
<1>3. msg \in Messages
  BY <1>1
<1> HIDE DEF msg
<1>4. ledger[c] \in Seq(Nat) /\ pending[c] \in Seq(Sends)
  BY <1>0 DEF LedgerTypes
<1>5. CASE OkLedgerEcho(c, msg)
  <2>1. PICK step \in Nat :
                 /\ \/ ledger'[c] = Append(ledger[c], step) /\ waiter'[c] = waiter[c]
                    \/ ledger'[c] = <<>> /\ waiter'[c] = 0
                 /\ \/ Own(c, msg) /\ pending'[c] = Tail(pending[c]) /\ step = pending[c][1].step
                    \/ ~Own(c, msg) /\ pending'[c] = pending[c] /\ step = 0
    BY <1>0, <1>3, <1>5, EchoTypes
  <2>2. ledger'[c] = Append(ledger[c], step) /\ waiter'[c] = waiter[c] /\ Noted(c)
    BY <2>1 DEF WaiterInv, Noted
  <2>3. /\ Len(ledger'[c]) = Len(ledger[c]) + 1 /\ Len(ledger[c]) \in Nat
        /\ ledger'[c][Len(ledger[c]) + 1] = step
        /\ \A i \in 1..Len(ledger[c]) : ledger'[c][i] = ledger[c][i]
    BY <1>4, <2>2, AppendProperties
  <2>4. CASE \E i \in 1..Len(ledger[c]) : ledger[c][i] = waiter[c]
    <3> PICK i \in 1..Len(ledger[c]) : ledger[c][i] = waiter[c]
      BY <2>4
    <3>1. i \in 1..Len(ledger'[c]) /\ ledger'[c][i] = waiter'[c]
      BY <2>2, <2>3
    <3> QED BY <3>1 DEF Noted
  <2>5. CASE \E i \in 1..Len(pending[c]) : pending[c][i].step = waiter[c]
    <3> PICK i \in 1..Len(pending[c]) : pending[c][i].step = waiter[c]
      BY <2>5
    <3>1. CASE ~Own(c, msg)
      BY <2>1, <2>2, <3>1 DEF Noted
    <3>2. CASE Own(c, msg) /\ i = 1
      <4>1. Len(ledger[c]) + 1 \in 1..Len(ledger'[c]) /\ ledger'[c][Len(ledger[c]) + 1] = waiter'[c]
        BY <2>1, <2>2, <2>3, <3>2
      <4> QED BY <4>1 DEF Noted
    <3>3. CASE Own(c, msg) /\ i # 1
      <4>1. pending'[c] = Tail(pending[c]) /\ pending[c] # <<>> /\ Len(pending[c]) \in Nat
        BY <1>4, <2>1, <3>3 DEF Own
      <4>2. Len(pending'[c]) = Len(pending[c]) - 1 /\ \A j \in 1..Len(pending'[c]) : pending'[c][j] = pending[c][j + 1]
        BY <1>4, <4>1, HeadTailProperties
      <4>3. i - 1 \in 1..Len(pending'[c]) /\ pending'[c][i - 1] = pending[c][i]
        BY <3>3, <4>1, <4>2
      <4> QED BY <2>2, <4>3 DEF Noted
    <3> QED BY <3>1, <3>2, <3>3
  <2> QED BY <2>2, <2>4, <2>5 DEF Noted
<1>6. CASE OkLedgerOk(c, msg)
  <2>1. /\ pending' = pending
        /\ \/ ledger[c] = <<>> /\ ledger'[c] = <<>> /\ waiter'[c] = waiter[c]
           \/ /\ ledger[c] # <<>> /\ ledger'[c] = Tail(ledger[c])
              /\ waiter'[c] = IF ledger[c][1] # 0 /\ ledger[c][1] = waiter[c] THEN 0 ELSE waiter[c]
    BY <1>0, <1>3, <1>6, OkTypes
  <2>2. waiter'[c] = waiter[c] /\ Noted(c)
    BY <2>1 DEF WaiterInv, Noted
  <2>3. CASE ledger'[c] = ledger[c]
    BY <2>1, <2>2, <2>3 DEF Noted
  <2>4. CASE ledger[c] # <<>> /\ ledger'[c] = Tail(ledger[c])
    <3>1. /\ Len(ledger'[c]) = Len(ledger[c]) - 1 /\ Len(ledger[c]) \in Nat
          /\ \A j \in 1..Len(ledger'[c]) : ledger'[c][j] = ledger[c][j + 1]
      BY <1>4, <2>4, HeadTailProperties
    <3>2. CASE \E i \in 1..Len(ledger[c]) : ledger[c][i] = waiter[c]
      <4> PICK i \in 1..Len(ledger[c]) : ledger[c][i] = waiter[c]
        BY <3>2
      <4>1. i # 1
        BY <2>1, <2>2, <2>4
      <4>2. i - 1 \in 1..Len(ledger'[c]) /\ ledger'[c][i - 1] = ledger[c][i]
        BY <3>1, <4>1
      <4> QED BY <2>2, <4>2 DEF Noted
    <3> QED BY <2>1, <2>2, <3>2 DEF Noted
  <2> QED BY <2>1, <2>3, <2>4
<1>7. CASE Unanswered(c, msg)
  BY <1>0, <1>7, LostTypes DEF Unanswered
<1> QED BY <1>2, <1>5, <1>6, <1>7

LEMMA WaiterStep ==
    ASSUME TypeOK, WaiterInv, [Next]_vars
    PROVE  WaiterInv'
<1> SUFFICES ASSUME NEW c \in Clients, waiter'[c] # 0 PROVE Noted(c)'
  BY DEF WaiterInv, Noted
<1>0. inbox \in [Clients -> Seq(Messages)] /\ LedgerTypes
  BY DrainTypes, TypeParts DEF TypeOK, BridgeTypeOK
<1>4. ASSUME ledger'[c] = ledger[c], pending'[c] = pending[c], waiter'[c] = waiter[c]
      PROVE  Noted(c)'
  BY <1>4 DEF WaiterInv, Noted
<1>1. CASE BridgeStep /\ UNCHANGED pageVars
  BY <1>1, <1>4 DEF pageVars
<1>2. CASE PageStep
  <2> PICK d \in Clients :
        SendOnly(d) \/ Step(d) \/ Stop(d) \/ Timeout(d) \/ HandleMessage(d) \/ SetConnected(d)
    BY <1>2 DEF PageStep
  <2>1. CASE SendOnly(d) \/ Step(d) \/ Stop(d)
    BY <2>1, WaiterSends
  <2>2. CASE Timeout(d)
    <3>1. UNCHANGED <<ledger, pending>> /\ waiter' = [waiter EXCEPT ![d] = 0]
      BY <2>2 DEF Timeout, GivesUp
    <3>2. waiter'[c] = waiter[c]
      BY <1>0, <3>1 DEF LedgerTypes
    <3> QED BY <1>4, <3>1, <3>2
  <2>3. CASE HandleMessage(d)
    <3>1. CASE c = d
      BY <2>3, <3>1, WaiterHandles
    <3>2. CASE c # d
      <4>1. c \in Clients \ {d}
        BY <3>2
      <4>2. Head(inbox[d]) \in Messages
        BY <1>0, <2>3, HeadTailProperties DEF HandleMessage
      <4>3. ledger'[c] = ledger[c] /\ waiter'[c] = waiter[c] /\ pending'[c] = pending[c]
        <5>2. CASE OkLedgerEcho(d, Head(inbox[d]))
          BY <1>0, <4>1, <4>2, <5>2, EchoTypes
        <5>3. CASE OkLedgerOk(d, Head(inbox[d]))
          BY <1>0, <4>1, <4>2, <5>3, OkTypes
        <5>4. CASE Unanswered(d, Head(inbox[d]))
          BY <1>0, <4>1, <5>4, LostTypes DEF Unanswered
        <5> QED BY <2>3, <5>2, <5>3, <5>4 DEF HandleMessage
      <4> QED BY <1>4, <4>3
    <3> QED BY <3>1, <3>2
  <2>4. CASE SetConnected(d)
    <3>1. OkLedgerLost(d) /\ pending' = [pending EXCEPT ![d] = <<>>]
      BY <2>4 DEF SetConnected
    <3>2. c # d
      BY <1>0, <3>1, LostTypes
    <3>3. c \in Clients \ {d}
      BY <3>2
    <3>4. ledger'[c] = ledger[c] /\ waiter'[c] = waiter[c]
      BY <1>0, <3>1, <3>3, LostTypes
    <3>5. pending'[c] = pending[c]
      BY <1>0, <3>1, <3>2 DEF LedgerTypes
    <3> QED BY <1>4, <3>4, <3>5
  <2> QED BY <2>1, <2>2, <2>3, <2>4
<1>3. CASE UNCHANGED vars
  BY <1>3, <1>4 DEF vars, pageVars
<1> QED BY <1>1, <1>2, <1>3 DEF Next

\* A page is told one message more, or one of its commands is taken and echoed.
LEMMA PendingBridge ==
    ASSUME TypeOK, ConnInv, PendingInv, BridgeStep, UNCHANGED pageVars, NEW c \in Clients
    PROVE  Embeds(pending[c], Coming(c), Texts(c))'
<1>0. /\ inbox[c] \in Seq(Messages) /\ outbox[c] \in Seq(Sends) /\ pending[c] \in Seq(Sends)
      /\ Len(inbox[c]) \in Nat /\ Len(outbox[c]) \in Nat /\ pending'[c] = pending[c]
      /\ outbox \in [Clients -> Seq(Sends)]
  <2>1. /\ inbox[c] \in Seq(Messages) /\ outbox \in [Clients -> Seq(Sends)]
        /\ pending[c] \in Seq(Sends) /\ pending'[c] = pending[c]
    BY DrainTypes DEF TypeOK, BridgeTypeOK, Sends, pageVars
  <2> QED BY <2>1
<1> DEFINE n == Len(inbox[c]) + Len(outbox[c])
<1>00. n \in Nat /\ Coming(c) = n /\ Embeds(pending[c], n, Texts(c))
  BY <1>0 DEF PendingInv, Coming
<1>1. CASE outbox'[c] = outbox[c] /\ inbox'[c] = inbox[c]
  <2>1. Coming(c)' = Coming(c) /\ Texts(c)' = Texts(c)
    BY <1>1 DEF Coming, Texts, Text
  <2> QED BY <1>0, <2>1 DEF PendingInv
<1>2. ASSUME NEW msg \in Messages, outbox'[c] = outbox[c], inbox'[c] = Append(inbox[c], msg)
      PROVE  Embeds(pending[c], Coming(c), Texts(c))'
  <2>1. /\ Len(inbox'[c]) = Len(inbox[c]) + 1
        /\ \A i \in 1..Len(inbox[c]) : inbox'[c][i] = inbox[c][i]
    BY <1>0, <1>2, AppendProperties
  <2>2. Coming(c)' = n + 1
    BY <1>0, <1>2, <2>1 DEF Coming
  <2>3. ASSUME NEW i \in 1..n
        PROVE  IF i <= Len(inbox[c]) THEN Texts(c)'[i] = Texts(c)[i]
                                     ELSE Texts(c)'[i + 1] = Texts(c)[i]
    <3>1. Texts(c)[i] = Text(c, i) /\ Texts(c)'[i] = Text(c, i)' /\ Texts(c)'[i + 1] = Text(c, i + 1)'
      <4>1. i \in 1..Coming(c) /\ i \in 1..Coming(c)' /\ i + 1 \in 1..Coming(c)'
        BY <1>0, <1>00, <2>2
      <4> QED BY <4>1 DEF Texts
    <3>2. CASE i <= Len(inbox[c])
      <4>1. inbox'[c][i] = inbox[c][i] /\ i <= Len(inbox'[c])
        BY <1>0, <2>1, <3>2
      <4> QED BY <3>1, <3>2, <4>1 DEF Text
    <3>3. CASE ~(i <= Len(inbox[c]))
      <4>1. ~(i + 1 <= Len(inbox'[c])) /\ (i + 1) - Len(inbox'[c]) = i - Len(inbox[c])
        BY <1>0, <2>1, <3>3
      <4> QED BY <1>2, <3>1, <3>3, <4>1 DEF Text
    <3> QED BY <3>2, <3>3
  <2> DEFINE t == Texts(c)
             u == Texts(c)'
             k == Len(inbox[c])
  <2>4. /\ k \in Nat /\ k <= n /\ Embeds(pending[c], n, t)
        /\ \A i \in 1..n : IF i <= k THEN u[i] = t[i] ELSE u[i + 1] = t[i]
    BY <1>0, <1>00, <2>3
  <2> HIDE DEF t, u, k, n
  <2>5. Embeds(pending[c], n + 1, u)
    BY <1>0, <1>00, <2>4, EmbedsBetween
  <2> QED BY <1>0, <2>2, <2>5 DEF u
<1>3. ASSUME NEW text, outbox[c] # <<>>, outbox'[c] = Tail(outbox[c]), text = Head(outbox[c]).text,
             inbox'[c] = Append(inbox[c], Echo("tx", text))
      PROVE  Embeds(pending[c], Coming(c), Texts(c))'
  <2>1. /\ Len(inbox'[c]) = Len(inbox[c]) + 1
        /\ \A i \in 1..Len(inbox[c]) : inbox'[c][i] = inbox[c][i]
        /\ inbox'[c][Len(inbox[c]) + 1] = Echo("tx", text)
    <3>1. text \in Kinds
      <4>1. Head(outbox[c]) \in Sends
        BY <1>0, <1>3, HeadTailProperties
      <4> QED BY <1>3, <4>1 DEF Sends
    <3>2. Echo("tx", text) \in Messages
      BY <3>1 DEF Echo, Messages
    <3> QED BY <1>0, <1>3, <3>2, AppendProperties
  <2>2. /\ Len(outbox'[c]) = Len(outbox[c]) - 1 /\ Len(outbox[c]) \in Nat \ {0}
        /\ \A i \in 1..Len(outbox'[c]) : outbox'[c][i] = outbox[c][i + 1]
        /\ Head(outbox[c]) = outbox[c][1]
    BY <1>0, <1>3, HeadTailProperties, EmptySeq
  <2>3. Coming(c)' = n
    BY <1>0, <2>1, <2>2 DEF Coming
  <2>4. ASSUME NEW i \in 1..n PROVE Text(c, i)' = Text(c, i)
    <3>1. CASE i <= Len(inbox[c])
      <4>1. inbox'[c][i] = inbox[c][i] /\ i <= Len(inbox'[c])
        BY <1>0, <2>1, <3>1
      <4> QED BY <3>1, <4>1 DEF Text
    <3>2. CASE i = Len(inbox[c]) + 1
      <4>1. ~(i <= Len(inbox[c])) /\ i - Len(inbox[c]) = 1 /\ i <= Len(inbox'[c])
        BY <1>0, <2>1, <3>2
      <4>2. Text(c, i) = outbox[c][1].text
        BY <4>1 DEF Text
      <4>3. Text(c, i)' = text
        BY <2>1, <3>2, <4>1 DEF Text, Echo
      <4> QED BY <1>3, <2>2, <4>2, <4>3
    <3>3. CASE i > Len(inbox[c]) + 1
      <4> DEFINE j == i - (Len(inbox[c]) + 1)
      <4>1. /\ ~(i <= Len(inbox[c])) /\ ~(i <= Len(inbox'[c]))
            /\ i - Len(inbox[c]) = j + 1 /\ i - Len(inbox'[c]) = j /\ j \in 1..Len(outbox'[c])
        BY <1>0, <2>1, <2>2, <3>3
      <4>2. outbox'[c][j] = outbox[c][j + 1]
        BY <2>2, <4>1
      <4> HIDE DEF j
      <4> QED BY <4>1, <4>2 DEF Text
    <3> QED BY <1>0, <3>1, <3>2, <3>3
  <2>5. Texts(c)' = Texts(c)
    BY <1>00, <2>3, <2>4 DEF Texts
  <2> QED BY <1>0, <1>00, <2>3, <2>5
<1>4. CASE UNCHANGED <<outbox, inbox>>
  BY <1>1, <1>4
<1>5. CASE outbox' = outbox /\ \E msg \in Messages : inbox' = Told(<<msg>>)
  <2> PICK msg \in Messages : inbox' = Told(<<msg>>)
    BY <1>5
  <2>1. inbox'[c] = Append(inbox[c], msg) \/ inbox'[c] = inbox[c]
    BY ToldOne
  <2> QED BY <1>1, <1>2, <1>5, <2>1
<1>6. ASSUME NEW d \in Clients,
             outbox[d] # <<>>, outbox' = [outbox EXCEPT ![d] = Tail(@)],
             inbox' = Told(<<Echo("tx", Head(outbox[d]).text)>>)
      PROVE  Embeds(pending[c], Coming(c), Texts(c))'
  <2> DEFINE text == Head(outbox[d]).text
             msg == Echo("tx", text)
  <2>1. msg \in Messages
    <3>1. outbox[d] \in Seq(Sends)
      BY <1>0
    <3>2. Head(outbox[d]) \in Sends
      BY <1>6, <3>1, HeadTailProperties
    <3>3. text \in Kinds
      BY <3>2 DEF Sends
    <3> QED BY <3>3 DEF Echo, Messages
  <2>2. inbox' = Told(<<msg>>)
    BY <1>6
  <2> HIDE DEF msg
  <2>3. inbox'[c] = IF conn[c] THEN Append(inbox[c], msg) ELSE inbox[c]
    BY <2>1, <2>2, ToldOne
  <2>4. CASE ~conn[c]
    <3>1. pending'[c] = <<>>
      BY <1>0, <2>4 DEF ConnInv
    <3>2. Coming(c)' \in Nat
      <4>1. outbox'[c] = outbox[c] \/ (outbox'[c] = Tail(outbox[c]) /\ outbox[c] # <<>>)
        BY <1>0, <1>6
      <4>2. Len(outbox'[c]) \in Nat
        <5>1. outbox[c] # <<>> => Tail(outbox[c]) \in Seq(Sends)
          BY <1>0, HeadTailProperties
        <5>2. outbox'[c] \in Seq(Sends)
          BY <1>0, <4>1, <5>1
        <5> QED BY <5>2
      <4>3. inbox'[c] = inbox[c] /\ Len(inbox'[c]) \in Nat
        BY <1>0, <2>3, <2>4
      <4> QED BY <4>2, <4>3, LengthsAdd DEF Coming
    <3> QED BY <3>1, <3>2, EmbedsEmpty
  <2>5. CASE conn[c] /\ c # d
    <3>1. outbox'[c] = outbox[c]
      BY <1>0, <1>6, <2>5
    <3> QED BY <1>2, <2>1, <2>3, <2>5, <3>1
  <2>6. CASE conn[c] /\ c = d
    <3>1. outbox'[c] = Tail(outbox[c])
      BY <1>0, <1>6, <2>6
    <3> QED BY <1>3, <1>6, <2>3, <2>6, <3>1 DEF msg
  <2> QED BY <2>4, <2>5, <2>6
<1> QED BY <1>4, <1>5, <1>6, BridgeTells

\* A page sends a command.
LEMMA PendingSends ==
    ASSUME TypeOK, PendingInv, NEW d \in Clients, SendOnly(d) \/ Step(d) \/ Stop(d),
           NEW c \in Clients
    PROVE  Embeds(pending[c], Coming(c), Texts(c))'
<1>1. \E text \in Kinds, step \in Nat : SendCmd(d, text, step)
  <2>1. \A x \in Clients : steps'[x] \in Nat \/ ~Step(x)
    BY TypeParts DEF Step, LedgerTypes
  <2> QED BY <2>1, LedgerAssumption DEF SendOnly, Step, Stop
<1> PICK text \in Kinds, step \in Nat : SendCmd(d, text, step)
  BY <1>1
<1> DEFINE x == [text |-> text, step |-> step]
<1>2. /\ outbox' = [outbox EXCEPT ![d] = Append(@, x)] /\ inbox' = inbox
      /\ pending' = [pending EXCEPT ![d] = Append(@, x)]
  BY DEF SendCmd
<1>3. x \in Sends /\ x.text = text
  BY DEF Sends
<1>4. /\ inbox[c] \in Seq(Messages) /\ outbox \in [Clients -> Seq(Sends)]
      /\ pending \in [Clients -> Seq(Sends)]
      /\ outbox[c] \in Seq(Sends) /\ pending[c] \in Seq(Sends)
  BY DrainTypes DEF TypeOK, BridgeTypeOK, Sends
<1> HIDE DEF x
<1>5. CASE c # d
  <2>1. outbox'[c] = outbox[c] /\ inbox'[c] = inbox[c] /\ pending'[c] = pending[c]
    BY <1>2, <1>4, <1>5
  <2>2. Coming(c)' = Coming(c) /\ Texts(c)' = Texts(c)
    BY <2>1 DEF Coming, Texts, Text
  <2> QED BY <2>1, <2>2 DEF PendingInv
<1>6. CASE c = d
  <2>1. outbox'[c] = Append(outbox[c], x) /\ inbox'[c] = inbox[c] /\ pending'[c] = Append(pending[c], x)
    BY <1>2, <1>4, <1>6
  <2> DEFINE l == Len(inbox[c])
             m == Len(outbox[c])
             t == Texts(c)
             u == Texts(c)'
  <2>2. /\ l \in Nat /\ m \in Nat /\ Len(outbox'[c]) = m + 1 /\ Len(inbox'[c]) = l
        /\ \A i \in 1..m : outbox'[c][i] = outbox[c][i]
        /\ outbox'[c][m + 1] = x
    BY <1>3, <1>4, <2>1, AppendProperties
  <2>3. /\ Coming(c) = l + m /\ Coming(c)' = l + (m + 1) /\ Embeds(pending[c], l + m, t)
    <3>1. Coming(c) = l + m /\ Coming(c)' = Len(inbox'[c]) + Len(outbox'[c])
      BY DEF Coming
    <3>2. Embeds(pending[c], l + m, t)
      BY <3>1 DEF PendingInv
    <3> HIDE DEF t, l, m
    <3> QED BY <2>2, <3>1, <3>2
  <2>7. /\ \A i \in 1..(l + m) : t[i] = Text(c, i)
        /\ \A i \in 1..(l + (m + 1)) : u[i] = Text(c, i)'
    BY <2>3 DEF Texts
  <2>8. \A i : /\ i <= l => Text(c, i)' = Text(c, i)
               /\ ~(i <= l) => Text(c, i) = outbox[c][i - l].text /\ Text(c, i)' = outbox'[c][i - l].text
    BY <2>1, <2>2 DEF Text
  <2> HIDE DEF l, m, t, u
  <2>4. ASSUME NEW i \in 1..(l + m) PROVE u[i] = t[i]
    <3>1. i \in 1..(l + (m + 1)) /\ (i <= l \/ (~(i <= l) /\ i - l \in 1..m))
      BY <2>2
    <3>2. u[i] = Text(c, i)' /\ t[i] = Text(c, i)
      BY <2>7, <3>1
    <3> QED BY <2>2, <2>8, <3>1, <3>2
  <2>5. u[(l + m) + 1] = x.text
    <3> SUFFICES ASSUME NEW i, i = (l + m) + 1 PROVE u[i] = x.text
      OBVIOUS
    <3>4. l \in Nat /\ m \in Nat
      BY <2>2
    <3>5. i \in 1..(l + (m + 1)) /\ ~(i <= l)
      BY <3>4
    <3>6. i - l = m + 1
      BY <3>4
    <3>1. i \in 1..(l + (m + 1)) /\ ~(i <= l) /\ i - l = m + 1
      BY <3>5, <3>6
    <3>2. u[i] = Text(c, i)'
      BY <2>7, <3>1
    <3> QED BY <2>2, <2>8, <3>1, <3>2
  <2>9. l + m \in Nat /\ l + (m + 1) = (l + m) + 1
    BY <2>2
  <2>6. Embeds(Append(pending[c], x), (l + m) + 1, u)
    BY <1>3, <1>4, <2>3, <2>4, <2>5, <2>9, EmbedsSent
  <2> QED BY <2>1, <2>3, <2>6, <2>9 DEF u
<1> QED BY <1>5, <1>6

\* A page handles its next message.
LEMMA PendingHandles ==
    ASSUME TypeOK, PendingInv, NEW c \in Clients, HandleMessage(c)
    PROVE  Embeds(pending[c], Coming(c), Texts(c))'
<1>1. /\ inbox[c] # <<>> /\ outbox'[c] = outbox[c] /\ LedgerTypes
      /\ inbox[c] \in Seq(Messages) /\ outbox[c] \in Seq(Sends) /\ pending[c] \in Seq(Sends)
      /\ inbox'[c] = Tail(inbox[c])
  <2>1. inbox[c] # <<>> /\ outbox' = outbox /\ inbox' = [inbox EXCEPT ![c] = Tail(@)]
    BY DEF HandleMessage
  <2>2. inbox \in [Clients -> Seq(Messages)] /\ outbox[c] \in Seq(Sends)
    BY DEF TypeOK, BridgeTypeOK, Sends
  <2>3. LedgerTypes /\ pending[c] \in Seq(Sends)
    BY TypeParts DEF LedgerTypes
  <2> QED BY <2>1, <2>2, <2>3
<1>2. /\ Len(inbox[c]) \in Nat \ {0} /\ Len(inbox'[c]) = Len(inbox[c]) - 1
      /\ \A i \in 1..Len(inbox'[c]) : inbox'[c][i] = inbox[c][i + 1]
      /\ Head(inbox[c]) = inbox[c][1] /\ Head(inbox[c]) \in Messages
      /\ Len(outbox[c]) \in Nat
  BY <1>1, HeadTailProperties, EmptySeq
<1> DEFINE l == Len(inbox'[c])
           m == Len(outbox[c])
           n == l + m
           t == Texts(c)
           u == Texts(c)'
<1>3. /\ l \in Nat /\ n \in Nat /\ Coming(c) = n + 1 /\ Coming(c)' = n
      /\ Embeds(pending[c], n + 1, t)
  <2>1. Coming(c) = Len(inbox[c]) + m /\ Coming(c)' = n
    BY <1>1 DEF Coming
  <2>2. Embeds(pending[c], Coming(c), t)
    BY DEF PendingInv
  <2>4. l \in Nat /\ m \in Nat /\ Len(inbox[c]) = l + 1
    BY <1>2
  <2> HIDE DEF l, m, t, u
  <2>3. n \in Nat /\ Coming(c) = n + 1
    BY <2>1, <2>4
  <2> QED BY <2>1, <2>2, <2>3, <2>4
<1>7. /\ \A i \in 1..(n + 1) : t[i] = Text(c, i)
      /\ \A i \in 1..n : u[i] = Text(c, i)'
  BY <1>3 DEF Texts
<1>4. ASSUME NEW i \in 1..n PROVE u[i] = t[i + 1]
  <2>1. u[i] = Text(c, i)' /\ t[i + 1] = Text(c, i + 1)
    <3> HIDE DEF n
    <3>1. i + 1 \in 1..(n + 1)
      BY <1>3
    <3> HIDE DEF t, u
    <3> QED BY <1>7, <3>1
  <2>2. CASE i <= Len(inbox'[c])
    <3>1. i + 1 <= Len(inbox[c]) /\ inbox'[c][i] = inbox[c][i + 1]
      BY <1>2, <2>2
    <3> QED BY <2>1, <2>2, <3>1 DEF Text
  <2>3. CASE ~(i <= Len(inbox'[c]))
    <3>1. ~(i + 1 <= Len(inbox[c])) /\ (i + 1) - Len(inbox[c]) = i - Len(inbox'[c])
      BY <1>2, <2>3
    <3> QED BY <1>1, <2>1, <2>3, <3>1 DEF Text
  <2> QED BY <2>2, <2>3
<1>5. \/ pending[c] # <<>> /\ pending'[c] = Tail(pending[c])
      \/ pending'[c] = pending[c] /\ (pending[c] = <<>> \/ pending[c][1].text # t[1])
  <2> DEFINE msg == Head(inbox[c])
  <2>1. pending[c] # <<>> => Head(pending[c]) = pending[c][1] /\ pending[c][1].text # "none"
    <3>1. ASSUME pending[c] # <<>> PROVE Head(pending[c]) = pending[c][1] /\ pending[c][1].text # "none"
      <4>1. Head(pending[c]) = pending[c][1] /\ Head(pending[c]) \in Sends
        BY <1>1, <3>1, HeadTailProperties
      <4>2. Head(pending[c]).text \in Kinds
        BY <4>1 DEF Sends
      <4> QED BY <4>1, <4>2, BridgeAssumption
    <3> QED BY <3>1
  <2>2. t[1] = IF msg.what = "tx" THEN msg.text ELSE "none"
    <3>1. t[1] = Text(c, 1)
      <4> HIDE DEF n
      <4>1. 1 \in 1..(n + 1)
        BY <1>3
      <4> HIDE DEF t
      <4> QED BY <1>7, <4>1
    <3>2. 1 <= Len(inbox[c])
      BY <1>2
    <3> HIDE DEF t
    <3> QED BY <1>2, <3>1, <3>2 DEF Text
  <2>3. Own(c, msg) \/ pending[c] = <<>> \/ pending[c][1].text # t[1]
    BY <2>1, <2>2 DEF Own
  <2>4. Own(c, msg) => pending[c] # <<>> /\ msg.what = "tx"
    BY DEF Own
  <2>5. msg \in Messages
    BY <1>2
  <2>6. OkLedgerEcho(c, msg) \/ OkLedgerOk(c, msg) \/ Unanswered(c, msg)
    BY DEF HandleMessage
  <2> HIDE DEF msg, t
  <2>7. CASE OkLedgerEcho(c, msg)
    <3>1. \/ Own(c, msg) /\ pending'[c] = Tail(pending[c])
          \/ ~Own(c, msg) /\ pending'[c] = pending[c]
      BY <1>1, <2>5, <2>7, EchoTypes
    <3> QED BY <2>3, <2>4, <3>1
  <2>8. CASE OkLedgerOk(c, msg) \/ Unanswered(c, msg)
    <3>1. pending' = pending /\ msg.what # "tx"
      BY <2>8 DEF OkLedgerOk, Unanswered
    <3> QED BY <2>3, <2>4, <3>1
  <2> QED BY <2>6, <2>7, <2>8
<1> HIDE DEF n, t, u
<1>6. CASE pending[c] # <<>> /\ pending'[c] = Tail(pending[c])
  <2>1. Embeds(Tail(pending[c]), n, u)
    BY <1>1, <1>3, <1>4, <1>6, EmbedsTail
  <2> QED BY <1>3, <1>6, <2>1 DEF u
<1>8. CASE pending'[c] = pending[c] /\ (pending[c] = <<>> \/ pending[c][1].text # t[1])
  <2>1. Embeds(pending[c], n, u)
    BY <1>1, <1>3, <1>4, <1>8, EmbedsTail
  <2> QED BY <1>3, <1>8, <2>1 DEF u
<1> QED BY <1>5, <1>6, <1>8

\* Each pending command is still to be echoed after any step.
LEMMA PendingStep ==
    ASSUME TypeOK, TypeOK', ConnInv, PendingInv, [Next]_vars
    PROVE  PendingInv'
<1> SUFFICES ASSUME NEW c \in Clients PROVE Embeds(pending[c], Coming(c), Texts(c))'
  BY DEF PendingInv
<1>0. inbox \in [Clients -> Seq(Messages)] /\ LedgerTypes
  BY DrainTypes, TypeParts DEF TypeOK, BridgeTypeOK
<1>4. ASSUME pending'[c] = pending[c], inbox'[c] = inbox[c], outbox'[c] = outbox[c]
      PROVE  Embeds(pending[c], Coming(c), Texts(c))'
  <2>1. Coming(c)' = Coming(c) /\ Texts(c)' = Texts(c)
    BY <1>4 DEF Coming, Texts, Text
  <2> QED BY <1>4, <2>1 DEF PendingInv
<1>1. CASE BridgeStep /\ UNCHANGED pageVars
  BY <1>1, PendingBridge
<1>2. CASE PageStep
  <2> PICK d \in Clients :
        SendOnly(d) \/ Step(d) \/ Stop(d) \/ Timeout(d) \/ HandleMessage(d) \/ SetConnected(d)
    BY <1>2 DEF PageStep
  <2>1. CASE SendOnly(d) \/ Step(d) \/ Stop(d)
    BY <2>1, PendingSends
  <2>2. CASE Timeout(d)
    BY <1>4, <2>2 DEF Timeout, linkVars
  <2>3. CASE HandleMessage(d)
    <3>1. CASE c = d
      BY <2>3, <3>1, PendingHandles
    <3>2. CASE c # d
      <4>1. c \in Clients \ {d} /\ outbox' = outbox /\ inbox'[c] = inbox[c]
        BY <1>0, <2>3, <3>2 DEF HandleMessage
      <4>2. Head(inbox[d]) \in Messages
        BY <1>0, <2>3, HeadTailProperties DEF HandleMessage
      <4>3. pending'[c] = pending[c]
        <5>2. CASE OkLedgerEcho(d, Head(inbox[d]))
          BY <1>0, <4>1, <4>2, <5>2, EchoTypes
        <5>3. CASE OkLedgerOk(d, Head(inbox[d]))
          BY <1>0, <4>1, <4>2, <5>3, OkTypes
        <5>4. CASE Unanswered(d, Head(inbox[d]))
          BY <5>4 DEF Unanswered
        <5> QED BY <2>3, <5>2, <5>3, <5>4 DEF HandleMessage
      <4> QED BY <1>4, <4>1, <4>3
    <3> QED BY <3>1, <3>2
  <2>4. CASE SetConnected(d)
    <3>1. pending' = [pending EXCEPT ![d] = <<>>]
      BY <2>4 DEF SetConnected
    <3>2. CASE c = d
      <4>1. pending'[c] = <<>>
        BY <1>0, <3>1, <3>2 DEF LedgerTypes
      <4>2. Coming(c)' \in Nat
        <5>1. inbox'[c] \in Seq(Messages) /\ outbox'[c] \in Seq(Sends)
          BY DEF TypeOK, BridgeTypeOK, Sends
        <5>2. Len(inbox'[c]) \in Nat /\ Len(outbox'[c]) \in Nat
          BY <5>1
        <5> QED BY <5>2, LengthsAdd DEF Coming
      <4> QED BY <4>1, <4>2, EmbedsEmpty
    <3>3. CASE c # d
      <4>1. pending'[c] = pending[c]
        BY <1>0, <3>1, <3>3 DEF LedgerTypes
      <4>2. inbox'[c] = inbox[c] /\ outbox'[c] = outbox[c]
        <5>1. outbox \in [Clients -> Seq(Sends)]
          BY DEF TypeOK, BridgeTypeOK, Sends
        <5>2. inbox'[c] = inbox[c]
          BY <1>0, <2>4, <3>3 DEF SetConnected, Accepts, Loses
        <5>3. outbox' = outbox \/ outbox' = [outbox EXCEPT ![d] = <<>>]
          BY <2>4 DEF SetConnected, Accepts, Loses
        <5> QED BY <3>3, <5>1, <5>2, <5>3
      <4> QED BY <1>4, <4>1, <4>2
    <3> QED BY <3>2, <3>3
  <2> QED BY <2>1, <2>2, <2>3, <2>4
<1>3. CASE UNCHANGED vars
  BY <1>3, <1>4 DEF vars, linkVars, pageVars
<1> QED BY <1>1, <1>2, <1>3 DEF Next

\* Once everything is answered nobody is left waiting, for any number of pages,
\* any texts, any buffers and any mishaps but a full receive buffer.
THEOREM LedgerNobodyForgotten == Spec => []NobodyForgotten
<1> DEFINE IInv == TypeOK /\ QueueOrder /\ LedgerInv
<1>1. Init => IInv
  <2> SUFFICES ASSUME Init PROVE LedgerInv
    BY LedgerInitTypes
  <2>0. TypeOK
    BY LedgerInitTypes
  <2>1. /\ wire = <<>> /\ \A c \in Clients : conn[c]
        /\ \A c \in Clients : inbox[c] = <<>> /\ outbox[c] = <<>> /\ ledger[c] = <<>>
        /\ \A c \in Clients : pending[c] = <<>> /\ waiter[c] = 0
        /\ Len(<<>>) = 0
    BY DEF Init, BridgeInit
  <2>2. ConnInv /\ WaiterInv
    BY <2>1 DEF ConnInv, WaiterInv
  <2>3. ASSUME NEW c \in Clients PROVE Drains(c)
    <3>1. Covers(<<>>, 0, 0) /\ Covers(<<>>, 0, Answers)
      <4>1. Answers \in Nat
        BY <2>0, DrainTypes
      <4> QED BY <4>1, CoversEmpty
    <3>2. inbox[c] = <<>> /\ Len(ledger[c]) = 0 /\ wire = <<>>
      BY <2>1
    <3>3. Covers(inbox[c], Len(ledger[c]), 0) /\ Covers(wire, 0, Answers)
      BY <3>1, <3>2, Zenon
    <3> QED BY <3>3 DEF Drains
  <2>4. ASSUME NEW c \in Clients PROVE Embeds(pending[c], Coming(c), Texts(c))
    <3>1. pending[c] = <<>> /\ Coming(c) \in Nat
      <4>1. Coming(c) = Len(inbox[c]) + Len(outbox[c])
        BY DEF Coming
      <4>2. Coming(c) = 0
        BY <2>1, <4>1, LengthsAdd, Zenon
      <4> QED BY <2>1, <4>2
    <3> QED BY <3>1, EmbedsEmpty
  <2> QED BY <2>2, <2>3, <2>4 DEF LedgerInv, DrainInv, PendingInv
<1>2. IInv /\ [Next]_vars => IInv'
  <2> SUFFICES ASSUME IInv, [Next]_vars PROVE IInv'
    OBVIOUS
  <2>1. TypeOK' /\ QueueOrder'
    BY LedgerStepTypes
  <2> QED BY <2>1, ConnStep, DrainStep, PendingStep, WaiterStep DEF LedgerInv
<1>3. IInv => NobodyForgotten
  <2> SUFFICES ASSUME IInv, Settled, ~dropped, NEW c \in Clients
               PROVE  ledger[c] = <<>> /\ pending[c] = <<>> /\ waiter[c] = 0
    BY DEF NobodyForgotten
  <2>0. ledger[c] \in Seq(Nat) /\ pending[c] \in Seq(Sends) /\ Answers \in Nat
    BY DrainTypes
  <2>1. /\ Answers = 0 /\ ~Excused /\ wire = <<>> /\ inbox[c] = <<>> /\ outbox[c] = <<>>
    BY DEF Settled, Answers, Excused
  <2>2. ledger[c] = <<>>
    <3>1. CASE ~conn[c]
      BY <3>1 DEF LedgerInv, ConnInv
    <3>2. CASE conn[c]
      <4>1. Drains(c)
        BY <2>1, <3>2 DEF LedgerInv, DrainInv
      <4> PICK k \in Nat : Covers(inbox[c], Len(ledger[c]), k) /\ Covers(wire, k, Answers)
        BY <4>1 DEF Drains
      <4>2. Covers(<<>>, Len(ledger[c]), k) /\ Covers(<<>>, k, 0)
        BY <2>1, Zenon
      <4>3. Len(ledger[c]) <= k /\ k <= 0
        <5>1. Len(ledger[c]) \in Nat
          BY <2>0
        <5> QED BY <4>2, <5>1, CoversEmpty
      <4>4. Len(ledger[c]) = 0
        BY <2>0, <4>3
      <4> QED BY <2>0, <4>4, EmptySeq
    <3> QED BY <3>1, <3>2
  <2>3. pending[c] = <<>>
    <3>1. Coming(c) = 0
      <4>1. Coming(c) = Len(inbox[c]) + Len(outbox[c])
        BY DEF Coming
      <4> QED BY <2>1, <4>1, LengthsAdd, Zenon
    <3> PICK f : f \in [1..Len(pending[c]) -> 1..Coming(c)]
      BY DEF LedgerInv, PendingInv, Embeds, Finds
    <3>2. Len(pending[c]) = 0
      <4>1. ASSUME Len(pending[c]) # 0 PROVE FALSE
        <5>1. 1 \in 1..Len(pending[c])
          BY <2>0, <4>1
        <5> QED BY <3>1, <5>1
      <4> QED BY <4>1
    <3> QED BY <2>0, <3>2, EmptySeq
  <2>4. waiter[c] = 0
    <3>1. Len(ledger[c]) = 0 /\ Len(pending[c]) = 0
      BY <2>2, <2>3
    <3> QED BY <3>1 DEF LedgerInv, WaiterInv
  <2> QED BY <2>2, <2>3, <2>4
<1> QED BY <1>1, <1>2, <1>3, PTL DEF Spec

-----------------------------------------------------------------------------
(* No step is answered early.  The lines are numbered in the order in which  *)
(* the bridge takes them.  A page has taken d answers: its ledger has an     *)
(* entry for each line after the first d whose echo it has handled, and its  *)
(* pending commands are found, in their order, among the echoes that are     *)
(* still to come and the commands still to be taken.                         *)

\* A line of the bridge's: its echo is told to every page when it is taken.
Echoing(msg) == msg.what \in {"tx", "button"}

\* The lines that were echoed so far, and who sent the n-th of them for which step.
Echoed == sent + (IF writing = NoWrite THEN 0 ELSE 1)
Author(n) == IF n <= sent THEN origin[n] ELSE <<writing.by, writing.step>>

\* g numbers the echoes of the messages s, from a on up to b.
Numbers(g, s, a, b) ==
    /\ g \in [0..Len(s) -> Nat] /\ g[0] = a /\ g[Len(s)] = b
    /\ \A q \in 1..Len(s) : g[q] = g[q - 1] + (IF Echoing(s[q]) THEN 1 ELSE 0)
    /\ \A q, r \in 0..Len(s) : q <= r => g[q] <= g[r]

LEMMA NumbersAppend ==
    ASSUME NEW s \in Seq(Messages), NEW a \in Nat, NEW b \in Nat, NEW g, Numbers(g, s, a, b),
           NEW msg \in Messages
    PROVE  \E h : /\ Numbers(h, Append(s, msg), a, b + (IF Echoing(msg) THEN 1 ELSE 0))
                  /\ \A q \in 0..Len(s) : h[q] = g[q]
<1> DEFINE n == Len(s)
           t == Append(s, msg)
           e == b + (IF Echoing(msg) THEN 1 ELSE 0)
           h == [q \in 0..(n + 1) |-> IF q <= n THEN g[q] ELSE e]
<1>1. n \in Nat /\ Len(t) = n + 1 /\ t[n + 1] = msg /\ \A q \in 1..n : t[q] = s[q]
  BY AppendProperties
<1>2. e \in Nat /\ b <= e
  OBVIOUS
<1>3. /\ g \in [0..n -> Nat] /\ g[0] = a /\ g[n] = b
      /\ \A q \in 1..n : g[q] = g[q - 1] + (IF Echoing(s[q]) THEN 1 ELSE 0)
      /\ \A q, r \in 0..n : q <= r => g[q] <= g[r]
      /\ \A q \in 0..n : g[q] \in Nat
  BY <1>1 DEF Numbers
<1>4. /\ h \in [0..(n + 1) -> Nat] /\ h[n + 1] = e /\ \A q \in 0..n : h[q] = g[q]
  BY <1>1, <1>2, <1>3
<1>5. e = b + (IF Echoing(msg) THEN 1 ELSE 0)
  OBVIOUS
<1> HIDE DEF n, t, e, h
<1>6. ASSUME NEW q \in 1..(n + 1)
      PROVE  h[q] = h[q - 1] + (IF Echoing(t[q]) THEN 1 ELSE 0)
  <2>1. CASE q = n + 1
    <3>1. q - 1 = n /\ n \in 0..n /\ h[q - 1] = b
      BY <1>1, <1>3, <1>4, <2>1
    <3> QED BY <1>1, <1>4, <1>5, <2>1, <3>1
  <2>2. CASE q \in 1..n
    <3>1. q \in 0..n /\ q - 1 \in 0..n
      BY <1>1, <2>2
    <3> QED BY <1>1, <1>3, <1>4, <2>2, <3>1
  <2> QED BY <1>1, <2>1, <2>2
<1>7. ASSUME NEW q \in 0..(n + 1), NEW r \in 0..(n + 1), q <= r PROVE h[q] <= h[r]
  <2>1. CASE r = n + 1 /\ q = n + 1
    BY <1>2, <1>4, <2>1
  <2>2. CASE r = n + 1 /\ q \in 0..n
    <3>1. n \in 0..n /\ q <= n
      BY <1>1, <2>2
    <3>2. g[q] <= g[n] /\ g[q] \in Nat
      BY <1>3, <2>2, <3>1
    <3> QED BY <1>2, <1>3, <1>4, <2>2, <3>2
  <2>3. CASE r \in 0..n
    <3>1. q \in 0..n
      BY <1>1, <1>7, <2>3
    <3> QED BY <1>3, <1>4, <1>7, <2>3, <3>1
  <2> QED BY <1>1, <1>7, <2>1, <2>2, <2>3
<1>8. h[0] = a
  BY <1>1, <1>3, <1>4
<1>9. Numbers(h, t, a, e)
  BY <1>1, <1>4, <1>6, <1>7, <1>8 DEF Numbers
<1> QED BY <1>4, <1>9 DEF t, e, n

LEMMA NumbersTail ==
    ASSUME NEW s \in Seq(Messages), s # <<>>, NEW a \in Nat, NEW b \in Nat, NEW g,
           Numbers(g, s, a, b)
    PROVE  /\ \E h : /\ Numbers(h, Tail(s), g[1], b)
                     /\ \A q \in 0..(Len(s) - 1) : h[q] = g[q + 1]
           /\ g[1] = a + (IF Echoing(s[1]) THEN 1 ELSE 0) /\ g[1] \in Nat /\ g[1] <= b
<1> DEFINE n == Len(s)
           t == Tail(s)
           h == [q \in 0..(n - 1) |-> g[q + 1]]
<1>1. n \in Nat \ {0} /\ Len(t) = n - 1 /\ \A q \in 1..(n - 1) : t[q] = s[q + 1]
  BY HeadTailProperties, EmptySeq
<1>3. /\ g \in [0..n -> Nat] /\ g[0] = a /\ g[n] = b
      /\ \A q \in 1..n : g[q] = g[q - 1] + (IF Echoing(s[q]) THEN 1 ELSE 0)
      /\ \A q, r \in 0..n : q <= r => g[q] <= g[r]
      /\ \A q \in 0..n : g[q] \in Nat
  BY <1>1 DEF Numbers
<1>2. g[1] = a + (IF Echoing(s[1]) THEN 1 ELSE 0) /\ g[1] \in Nat /\ g[1] <= b
  <2>1. 1 \in 1..n /\ 1 \in 0..n /\ 1 - 1 = 0
    BY <1>1
  <2>2. n \in 0..n /\ 1 <= n
    BY <1>1
  <2> QED BY <1>3, <2>1, <2>2
<1>4. h \in [0..(n - 1) -> Nat] /\ \A q \in 0..(n - 1) : h[q] = g[q + 1]
  <2>1. \A q \in 0..(n - 1) : q + 1 \in 0..n
    BY <1>1
  <2> QED BY <1>3, <2>1
<1> HIDE DEF n, t, h
<1>5. ASSUME NEW q \in 1..(n - 1)
      PROVE  h[q] = h[q - 1] + (IF Echoing(t[q]) THEN 1 ELSE 0)
  <2>1. q \in 0..(n - 1) /\ q - 1 \in 0..(n - 1) /\ q + 1 \in 1..n /\ (q + 1) - 1 = (q - 1) + 1
    BY <1>1
  <2>2. g[q + 1] = g[(q + 1) - 1] + (IF Echoing(s[q + 1]) THEN 1 ELSE 0)
    BY <1>3, <2>1
  <2> QED BY <1>1, <1>4, <2>1, <2>2
<1>6. ASSUME NEW q \in 0..(n - 1), NEW r \in 0..(n - 1), q <= r PROVE h[q] <= h[r]
  <2>1. q + 1 \in 0..n /\ r + 1 \in 0..n /\ q + 1 <= r + 1
    BY <1>1, <1>6
  <2> QED BY <1>3, <1>4, <2>1
<1>7. h[0] = g[1] /\ h[n - 1] = b
  <2>1. 0 \in 0..(n - 1) /\ n - 1 \in 0..(n - 1) /\ 0 + 1 = 1 /\ (n - 1) + 1 = n
    BY <1>1
  <2> QED BY <1>3, <1>4, <2>1
<1>8. Numbers(h, t, g[1], b)
  BY <1>1, <1>4, <1>5, <1>6, <1>7 DEF Numbers
<1> QED BY <1>2, <1>4, <1>8 DEF t, n

-----------------------------------------------------------------------------
(* The commands of a page on their way. *)

\* What is not a command of the page.
Foreign == [text |-> "none", step |-> 0]

\* f finds the pending commands p, in order, among the n that come, s, where no
\* command but an M410 is left out.
Matches(f, p, n, s) ==
    /\ f \in [1..Len(p) -> 1..n]
    /\ \A i, j \in 1..Len(p) : i < j => f[i] < f[j]
    /\ \A i \in 1..Len(p) : p[i] = s[f[i]]
    /\ \A k \in 1..n : s[k].text \notin {"none", "M410"} => \E i \in 1..Len(p) : f[i] = k
Matched(p, n, s) == \E f : Matches(f, p, n, s)

LEMMA MatchedEmpty == \A s : Matched(<<>>, 0, s)
<1> TAKE s
<1> DEFINE f == [i \in 1..0 |-> 1]
<1>1. Len(<<>>) = 0 /\ f \in [1..0 -> 1..0]
  OBVIOUS
<1> HIDE DEF f
<1>2. Matches(f, <<>>, 0, s)
  BY <1>1 DEF Matches
<1> QED BY <1>2 DEF Matched

\* A command is sent.
LEMMA MatchedSent ==
    ASSUME NEW p \in Seq(Sends), NEW n \in Nat, NEW s, Matched(p, n, s),
           NEW x \in Sends, NEW u, \A i \in 1..n : u[i] = s[i], u[n + 1] = x
    PROVE  Matched(Append(p, x), n + 1, u)
<1> PICK f : Matches(f, p, n, s)
  BY DEF Matched
<1> DEFINE q == Append(p, x)
           g == [i \in 1..(Len(p) + 1) |-> IF i <= Len(p) THEN f[i] ELSE n + 1]
<1>1. /\ Len(p) \in Nat /\ Len(q) = Len(p) + 1 /\ q[Len(p) + 1] = x
      /\ \A i \in 1..Len(p) : q[i] = p[i]
  BY AppendProperties
<1>2. /\ f \in [1..Len(p) -> 1..n]
      /\ \A i, j \in 1..Len(p) : i < j => f[i] < f[j]
      /\ \A i \in 1..Len(p) : p[i] = s[f[i]]
      /\ \A k \in 1..n : s[k].text \notin {"none", "M410"} => \E i \in 1..Len(p) : f[i] = k
  BY DEF Matches
<1>3. /\ \A i \in 1..Len(p) : g[i] = f[i] /\ f[i] \in 1..n
      /\ g[Len(p) + 1] = n + 1
      /\ g \in [1..(Len(p) + 1) -> 1..(n + 1)]
  <2>1. \A i \in 1..(Len(p) + 1) : i \in 1..Len(p) \/ i = Len(p) + 1
    BY <1>1
  <2>2. \A i \in 1..Len(p) : i \in 1..(Len(p) + 1) /\ i <= Len(p)
    BY <1>1
  <2>3. Len(p) + 1 \in 1..(Len(p) + 1) /\ ~(Len(p) + 1 <= Len(p))
    BY <1>1
  <2>4. \A i \in 1..Len(p) : f[i] \in 1..n /\ f[i] \in 1..(n + 1)
    BY <1>2
  <2>5. n + 1 \in 1..(n + 1)
    OBVIOUS
  <2> QED BY <2>1, <2>2, <2>3, <2>4, <2>5
<1> HIDE DEF g, q
<1>4. ASSUME NEW i \in 1..Len(q), NEW j \in 1..Len(q), i < j PROVE g[i] < g[j]
  <2>1. i \in 1..Len(p) /\ (j \in 1..Len(p) \/ j = Len(p) + 1)
    BY <1>1, <1>4
  <2>2. g[i] = f[i] /\ f[i] \in 1..n
    BY <1>3, <2>1
  <2>3. CASE j \in 1..Len(p)
    BY <1>2, <1>3, <1>4, <2>1, <2>3
  <2>4. CASE j = Len(p) + 1
    BY <1>3, <2>2, <2>4
  <2> QED BY <2>1, <2>3, <2>4
<1>5. ASSUME NEW i \in 1..Len(q) PROVE q[i] = u[g[i]]
  <2>1. CASE i \in 1..Len(p)
    BY <1>1, <1>2, <1>3, <2>1
  <2>2. CASE i = Len(p) + 1
    BY <1>1, <1>3, <2>2
  <2> QED BY <1>1, <2>1, <2>2
<1>6. ASSUME NEW k \in 1..(n + 1), u[k].text \notin {"none", "M410"}
      PROVE  \E i \in 1..Len(q) : g[i] = k
  <2>1. CASE k = n + 1
    <3>1. Len(p) + 1 \in 1..Len(q)
      BY <1>1
    <3> QED BY <1>3, <2>1, <3>1
  <2>2. CASE k \in 1..n
    <3>1. PICK i \in 1..Len(p) : f[i] = k
      BY <1>2, <1>6, <2>2
    <3>2. i \in 1..Len(q)
      BY <1>1
    <3> QED BY <1>3, <3>1, <3>2
  <2> QED BY <2>1, <2>2
<1>7. Matches(g, q, n + 1, u)
  BY <1>1, <1>3, <1>4, <1>5, <1>6 DEF Matches
<1> QED BY <1>7 DEF Matched, q

\* Something that is not a command of the page comes in between.
LEMMA MatchedBetween ==
    ASSUME NEW p \in Seq(Sends), NEW n \in Nat, NEW s, Matched(p, n, s),
           NEW k \in Nat, k <= n,
           NEW u, \A i \in 1..n : IF i <= k THEN u[i] = s[i] ELSE u[i + 1] = s[i],
           u[k + 1].text = "none"
    PROVE  Matched(p, n + 1, u)
<1> PICK f : Matches(f, p, n, s)
  BY DEF Matched
<1>1. /\ Len(p) \in Nat /\ f \in [1..Len(p) -> 1..n]
      /\ \A i, j \in 1..Len(p) : i < j => f[i] < f[j]
      /\ \A i \in 1..Len(p) : p[i] = s[f[i]]
      /\ \A m \in 1..n : s[m].text \notin {"none", "M410"} => \E i \in 1..Len(p) : f[i] = m
  BY DEF Matches
<1> DEFINE g == [i \in 1..Len(p) |-> IF f[i] <= k THEN f[i] ELSE f[i] + 1]
<1>2. \A i \in 1..Len(p) : f[i] \in 1..n /\ g[i] = IF f[i] <= k THEN f[i] ELSE f[i] + 1
  BY <1>1
<1>3. g \in [1..Len(p) -> 1..(n + 1)]
  <2>1. \A i \in 1..Len(p) : g[i] \in 1..(n + 1)
    BY <1>2
  <2> QED BY <2>1
<1> HIDE DEF g
<1>4. ASSUME NEW i \in 1..Len(p), NEW j \in 1..Len(p), i < j PROVE g[i] < g[j]
  <2>1. f[i] < f[j] /\ f[i] \in 1..n /\ f[j] \in 1..n
    BY <1>1, <1>2, <1>4
  <2> QED BY <1>2, <2>1
<1>5. ASSUME NEW i \in 1..Len(p) PROVE p[i] = u[g[i]]
  BY <1>1, <1>2
<1>6. ASSUME NEW m \in 1..(n + 1), u[m].text \notin {"none", "M410"}
      PROVE  \E i \in 1..Len(p) : g[i] = m
  <2>1. m # k + 1
    BY <1>6
  <2>2. CASE m <= k
    <3>1. m \in 1..n /\ u[m] = s[m]
      BY <2>2
    <3>2. PICK i \in 1..Len(p) : f[i] = m
      BY <1>1, <1>6, <3>1
    <3> QED BY <1>2, <2>2, <3>2
  <2>3. CASE m > k + 1
    <3>1. m - 1 \in 1..n /\ ~(m - 1 <= k) /\ (m - 1) + 1 = m
      BY <2>3
    <3>2. u[m] = s[m - 1]
      BY <3>1
    <3>3. PICK i \in 1..Len(p) : f[i] = m - 1
      BY <1>1, <1>6, <3>1, <3>2
    <3> QED BY <1>2, <3>1, <3>3
  <2> QED BY <2>1, <2>2, <2>3
<1>7. Matches(g, p, n + 1, u)
  BY <1>3, <1>4, <1>5, <1>6 DEF Matches
<1> QED BY <1>7 DEF Matched

\* The oldest command of the page that is no M410 is the oldest pending one, when
\* it is the first to come.
LEMMA MatchedHead ==
    ASSUME NEW p \in Seq(Sends), NEW n \in Nat, NEW s, Matched(p, n + 1, s),
           s[1].text \notin {"none", "M410"}
    PROVE  p # <<>> /\ p[1] = s[1]
<1> PICK f : Matches(f, p, n + 1, s)
  BY DEF Matched
<1>1. /\ Len(p) \in Nat /\ f \in [1..Len(p) -> 1..(n + 1)]
      /\ \A i, j \in 1..Len(p) : i < j => f[i] < f[j]
      /\ \A i \in 1..Len(p) : p[i] = s[f[i]]
      /\ \A k \in 1..(n + 1) : s[k].text \notin {"none", "M410"} => \E i \in 1..Len(p) : f[i] = k
  BY DEF Matches
<1>2. PICK i \in 1..Len(p) : f[i] = 1
  BY <1>1
<1>3. 1 \in 1..Len(p) /\ (i = 1 \/ 1 < i) /\ f[1] \in 1..(n + 1)
  BY <1>1
<1>4. f[1] = 1
  BY <1>1, <1>2, <1>3
<1>5. p # <<>>
  BY <1>3
<1> QED BY <1>1, <1>3, <1>4, <1>5

\* The first to come is handled and takes the oldest pending command with it: it
\* is its echo, or the command is an M410.
LEMMA MatchedPopped ==
    ASSUME NEW p \in Seq(Sends), NEW n \in Nat, NEW s, Matched(p, n + 1, s),
           p # <<>>, p[1] = s[1] \/ (p[1].text = "M410" /\ s[1].text \in {"none", "M410"}),
           p[1].text # "none",
           NEW u, \A i \in 1..n : u[i] = s[i + 1]
    PROVE  Matched(Tail(p), n, u)
<1> PICK f : Matches(f, p, n + 1, s)
  BY DEF Matched
<1> DEFINE q == Tail(p)
           g == [i \in 1..Len(q) |-> f[i + 1] - 1]
<1>1. /\ Len(p) \in Nat /\ f \in [1..Len(p) -> 1..(n + 1)]
      /\ \A i, j \in 1..Len(p) : i < j => f[i] < f[j]
      /\ \A i \in 1..Len(p) : p[i] = s[f[i]]
      /\ \A k \in 1..(n + 1) : s[k].text \notin {"none", "M410"} => \E i \in 1..Len(p) : f[i] = k
  BY DEF Matches
<1>2. /\ Len(q) = Len(p) - 1 /\ Len(p) \in Nat \ {0} /\ \A i \in 1..Len(q) : q[i] = p[i + 1]
  BY HeadTailProperties, EmptySeq
<1> HIDE DEF q
<1>3. \A i \in 1..Len(q) : i + 1 \in 1..Len(p) /\ 1 \in 1..Len(p) /\ 1 < i + 1
  BY <1>2
<1>4. \A i \in 1..Len(q) : f[i + 1] \in 1..(n + 1) /\ f[1] \in 1..(n + 1) /\ f[1] < f[i + 1]
  BY <1>1, <1>3
<1>5. \A i \in 1..Len(q) : g[i] = f[i + 1] - 1 /\ g[i] \in 1..n
  BY <1>4
<1>6. g \in [1..Len(q) -> 1..n]
  BY <1>5
<1> HIDE DEF g
<1>7. ASSUME NEW i \in 1..Len(q), NEW j \in 1..Len(q), i < j PROVE g[i] < g[j]
  <2>1. i + 1 < j + 1
    BY <1>2, <1>7
  <2>2. f[i + 1] < f[j + 1]
    BY <1>1, <1>3, <2>1
  <2> QED BY <1>4, <1>5, <2>2
<1>8. ASSUME NEW i \in 1..Len(q) PROVE q[i] = u[g[i]]
  <2>1. g[i] \in 1..n /\ g[i] + 1 = f[i + 1]
    BY <1>4, <1>5
  <2>2. q[i] = s[f[i + 1]]
    BY <1>1, <1>2, <1>3
  <2> QED BY <2>1, <2>2
<1>9. ASSUME NEW k \in 1..n, u[k].text \notin {"none", "M410"}
      PROVE  \E i \in 1..Len(q) : g[i] = k
  <2>1. k + 1 \in 1..(n + 1) /\ u[k] = s[k + 1]
    OBVIOUS
  <2>2. PICK i \in 1..Len(p) : f[i] = k + 1
    BY <1>1, <1>9, <2>1
  <2>3. i # 1
    <3> SUFFICES ASSUME i = 1 PROVE FALSE
      OBVIOUS
    <3>1. p[1] = s[k + 1] /\ f[1] = k + 1
      BY <1>1, <2>2
    <3>2. p[1].text \notin {"none", "M410"}
      BY <1>9, <2>1, <3>1
    <3>3. p[1] = s[1]
      BY <3>2
    <3>4. 1 \in 1..(n + 1) /\ s[1].text \notin {"none", "M410"}
      BY <3>2, <3>3
    <3>5. PICK j \in 1..Len(p) : f[j] = 1
      BY <1>1, <3>4
    <3>6. j = 1 \/ 1 < j
      OBVIOUS
    <3> QED BY <1>1, <3>1, <3>5, <3>6
  <2>4. i - 1 \in 1..Len(q) /\ (i - 1) + 1 = i
    BY <1>2, <2>3
  <2> QED BY <1>5, <2>2, <2>4
<1>10. Matches(g, q, n, u)
  BY <1>6, <1>7, <1>8, <1>9 DEF Matches
<1> QED BY <1>10 DEF Matched, q

\* The first to come is handled and leaves the pending commands as they are.
LEMMA MatchedPassed ==
    ASSUME NEW p \in Seq(Sends), NEW n \in Nat, NEW s, Matched(p, n + 1, s),
           p = <<>> \/ p[1] # s[1],
           s[1].text \in {"none", "M410"},
           NEW u, \A i \in 1..n : u[i] = s[i + 1]
    PROVE  Matched(p, n, u)
<1> PICK f : Matches(f, p, n + 1, s)
  BY DEF Matched
<1>1. /\ Len(p) \in Nat /\ f \in [1..Len(p) -> 1..(n + 1)]
      /\ \A i, j \in 1..Len(p) : i < j => f[i] < f[j]
      /\ \A i \in 1..Len(p) : p[i] = s[f[i]]
      /\ \A k \in 1..(n + 1) : s[k].text \notin {"none", "M410"} => \E i \in 1..Len(p) : f[i] = k
  BY DEF Matches
<1> DEFINE g == [i \in 1..Len(p) |-> f[i] - 1]
<1>2. \A i \in 1..Len(p) : f[i] \in 2..(n + 1)
  <2> SUFFICES ASSUME NEW i \in 1..Len(p) PROVE f[i] \in 2..(n + 1)
    OBVIOUS
  <2>1. p # <<>> /\ 1 \in 1..Len(p) /\ (i = 1 \/ 1 < i)
    BY <1>1
  <2>2. f[1] # 1
    BY <1>1, <2>1
  <2>3. f[1] \in 1..(n + 1) /\ f[i] \in 1..(n + 1) /\ (i = 1 \/ f[1] < f[i])
    BY <1>1, <2>1
  <2> QED BY <2>2, <2>3
<1>3. \A i \in 1..Len(p) : g[i] = f[i] - 1 /\ g[i] \in 1..n
  BY <1>2
<1>4. g \in [1..Len(p) -> 1..n]
  BY <1>3
<1> HIDE DEF g
<1>5. ASSUME NEW i \in 1..Len(p), NEW j \in 1..Len(p), i < j PROVE g[i] < g[j]
  <2>1. f[i] < f[j]
    BY <1>1, <1>5
  <2> QED BY <1>2, <1>3, <2>1
<1>6. ASSUME NEW i \in 1..Len(p) PROVE p[i] = u[g[i]]
  <2>1. f[i] \in 2..(n + 1) /\ g[i] = f[i] - 1 /\ g[i] \in 1..n
    BY <1>2, <1>3
  <2>2. g[i] \in 1..n /\ g[i] + 1 = f[i]
    BY <2>1
  <2> QED BY <1>1, <2>2
<1>7. ASSUME NEW k \in 1..n, u[k].text \notin {"none", "M410"}
      PROVE  \E i \in 1..Len(p) : g[i] = k
  <2>1. k + 1 \in 1..(n + 1) /\ u[k] = s[k + 1]
    OBVIOUS
  <2>2. PICK i \in 1..Len(p) : f[i] = k + 1
    BY <1>1, <1>7, <2>1
  <2> QED BY <1>3, <2>2
<1>8. Matches(g, p, n, u)
  BY <1>4, <1>5, <1>6, <1>7 DEF Matches
<1> QED BY <1>8 DEF Matched

-----------------------------------------------------------------------------
(* A calm bridge: nothing has gone wrong. *)

\* No handler has line n or an earlier one any more.
Handled(n) == n <= lastStarted /\ (running # NoLine => n < lastStarted)

\* Only answers come from the Mega, in the order of their lines.
AnswersInOrder ==
    /\ \A q \in 1..Len(wire) : wire[q].what = "ok" /\ Handled(wire[q].id)
    /\ \A q, r \in 1..Len(wire) : q < r => wire[q].id < wire[r].id

Calm ==
    /\ mega = "up" /\ port = "open" /\ failing = 0 /\ Len(origin) = sent
    /\ AnswersInOrder
    /\ \A c \in Clients :
          conn[c] /\ \A q \in 1..Len(inbox[c]) : inbox[c][q].what \in {"tx", "button", "ok"}

\* What a page sends: its own commands, and the M410 of a stop.
Commands(c) == {s \in Sends : s.text \in TextsOf[c] \/ (s.text = "M410" /\ s.step = 0)}
SendsTyped ==
    \A c \in Clients : pending[c] \in Seq(Commands(c)) /\ outbox[c] \in Seq(Commands(c))

\* Without a mishap these steps remain.
CalmSteps ==
    \/ MegaFetches /\ UNCHANGED pageVars
    \/ MegaCarriesOut /\ UNCHANGED pageVars
    \/ WriteBegins /\ UNCHANGED pageVars
    \/ WriteEnds /\ WriteSucceeds /\ UNCHANGED pageVars
    \/ ReadsLine /\ UNCHANGED pageVars
    \/ \E c \in Clients : SendOnly(c) \/ Step(c) \/ Stop(c) \/ Timeout(c) \/ HandleMessage(c)
    \/ UNCHANGED vars

LEMMA OnlyCalmSteps ==
    ASSUME TypeOK, Calm, mishaps = 0, mishaps' = 0, [Next]_vars
    PROVE  CalmSteps
<1>1. \A event : ~Mishap(event)
  BY DEF Mishap
<1>2. mega = "up" /\ port = "open" /\ failing = 0 /\ \A c \in Clients : conn[c]
  BY DEF Calm
<1>3. CASE BridgeStep /\ UNCHANGED pageVars
  <2>1. ~PowerLoss /\ ~Kill /\ ~Reset /\ ~LosesPort
    BY <1>1 DEF PowerLoss, Kill, Reset, LosesPort
  <2>2. ~Boots /\ ~ReportsDropped /\ ~ClosesPort /\ ~OpensPort /\ ~TellsStatus
    BY <1>2 DEF Boots, ReportsDropped, ClosesPort, OpensPort, TellsStatus
  <2>3. WriteEnds => WriteSucceeds
    BY <1>2 DEF WriteEnds, WriteFails
  <2> QED BY <1>3, <2>1, <2>2, <2>3, Zenon DEF BridgeStep, CalmSteps
<1>4. CASE PageStep
  <2>1. \A c \in Clients : ~SetConnected(c)
    BY <1>1, <1>2 DEF SetConnected, Accepts, Loses
  <2> QED BY <1>4, <2>1 DEF PageStep, CalmSteps
<1>5. CASE UNCHANGED vars
  BY <1>5 DEF CalmSteps
<1> QED BY <1>3, <1>4, <1>5 DEF Next

\* The Mega carries a line out: it may answer it, after all lines before it.
LEMMA CarriedOut ==
    ASSUME TypeOK, QueueOrder, Calm, MegaCarriesOut
    PROVE  /\ \A n \in Nat : Handled(n) => Handled(n)'
           /\ \/ wire' = wire
              \/ \E ok \in Printed :
                    /\ wire' = Append(wire, ok) /\ ok.what = "ok" /\ Handled(ok.id)'
                    /\ \A n \in Nat : Handled(n) => n < ok.id
           /\ UNCHANGED <<sent, mega, port, failing, origin, conn, inbox, outbox, writing>>
<1>1. /\ QueueTypeOK /\ wire \in Seq(Printed) /\ lastStarted \in Nat /\ running \in Lines \cup {NoLine}
      /\ <<>> \in Seq(Printed)
  BY DEF TypeOK, BridgeTypeOK, QueueTypeOK, Printed
<1>2. /\ UNCHANGED <<sent, mega, port, failing, origin, conn, inbox, outbox, writing>>
      /\ wire' = wire \o printed'
  BY DEF MegaCarriesOut, MegaStep, bridgeVars, linkVars, Transmit, Calm
<1>3. ASSUME NEW line \in Lines, printed' = Append(<<>>, Ok(line)), lastStarted' = line.id,
             running' = NoLine, \A n \in Nat : Handled(n) => n < line.id
      PROVE  /\ \A n \in Nat : Handled(n) => Handled(n)'
             /\ \E ok \in Printed :
                    /\ wire' = Append(wire, ok) /\ ok.what = "ok" /\ Handled(ok.id)'
                    /\ \A n \in Nat : Handled(n) => n < ok.id
  <2>1. line.id \in Nat
    BY <1>3 DEF Lines
  <2>2. Ok(line) \in Printed /\ Ok(line).what = "ok" /\ Ok(line).id = line.id
    BY <2>1 DEF Ok, Printed
  <2>3. wire' = Append(wire, Ok(line))
    BY <1>1, <1>2, <1>3, <2>2
  <2>4. \A n \in Nat : n <= line.id => Handled(n)'
    BY <1>3 DEF Handled
  <2> QED BY <1>3, <2>1, <2>2, <2>3, <2>4
<1>4. CASE \E line \in {ring[i] : i \in 1..Len(ring)} : Dispatch(line) /\ (Return(line, <<>>) \/ Wait(line))
  <2> PICK line \in {ring[i] : i \in 1..Len(ring)} : Dispatch(line) /\ (Return(line, <<>>) \/ Wait(line))
    BY <1>4
  <2>1. line \in Lines /\ lastStarted < line.id /\ lastStarted' = line.id /\ line.id \in Nat
    BY <1>1, DispatchedLine DEF Lines
  <2>2. \A n \in Nat : Handled(n) => n < line.id
    BY <1>1, <2>1 DEF Handled
  <2>3. CASE Return(line, <<>>)
    <3>1. printed' = Append(<<>>, Ok(line)) /\ running' = NoLine
      BY <2>3 DEF Return
    <3> QED BY <1>2, <1>3, <2>1, <2>2, <3>1
  <2>4. CASE Wait(line)
    <3>1. printed' = <<>>
      BY <2>4 DEF Wait, Quiet
    <3>2. wire' = wire
      BY <1>1, <1>2, <3>1
    <3>3. \A n \in Nat : Handled(n) => Handled(n)'
      BY <2>1, <2>2 DEF Handled
    <3> QED BY <1>2, <3>2, <3>3
  <2> QED BY <2>3, <2>4
<1>5. CASE running # NoLine /\ Return(running, <<>>) /\ UNCHANGED lastStarted
  <2>1. running \in Lines /\ printed' = Append(<<>>, Ok(running)) /\ running' = NoLine
    BY <1>1, <1>5 DEF Return
  <2>2. running.id = lastStarted
    BY <1>1, <2>1 DEF Lines, QueueOrder
  <2>3. \A n \in Nat : Handled(n) => n < running.id
    BY <1>5, <2>2 DEF Handled
  <2>4. lastStarted' = running.id
    BY <1>5, <2>2
  <2> QED BY <1>2, <1>3, <2>1, <2>3, <2>4
<1> QED BY <1>4, <1>5 DEF MegaCarriesOut

LEMMA WhatsAppend ==
    ASSUME NEW S, NEW s \in Seq(S), NEW msg \in S, NEW W,
           \A q \in 1..Len(s) : s[q].what \in W, msg.what \in W
    PROVE  \A q \in 1..Len(Append(s, msg)) : Append(s, msg)[q].what \in W
<1>1. /\ Len(s) \in Nat /\ Len(Append(s, msg)) = Len(s) + 1
      /\ Append(s, msg)[Len(s) + 1] = msg /\ \A q \in 1..Len(s) : Append(s, msg)[q] = s[q]
  BY AppendProperties
<1>2. \A q \in 1..(Len(s) + 1) : q \in 1..Len(s) \/ q = Len(s) + 1
  BY <1>1
<1> QED BY <1>1, <1>2

\* In a calm step every page is told the same one echo or answer, or one page
\* handles its oldest message.
LEMMA CalmTells ==
    ASSUME TypeOK, Calm, CalmSteps
    PROVE  \/ inbox' = inbox
           \/ \E msg \in Messages :
                 /\ msg.what \in {"tx", "button", "ok"}
                 /\ \A c \in Clients : inbox'[c] = Append(inbox[c], msg)
           \/ \E c \in Clients :
                 /\ inbox[c] # <<>> /\ inbox'[c] = Tail(inbox[c])
                 /\ \A d \in Clients \ {c} : inbox'[d] = inbox[d]
<1>1. /\ outbox \in [Clients -> Seq(Sends)] /\ inbox \in [Clients -> Seq(Messages)]
      /\ wire \in Seq(Printed) /\ \A c \in Clients : conn[c]
  BY DEF TypeOK, BridgeTypeOK, Sends, Printed, Calm
<1>2. ASSUME NEW msg \in Messages, msg.what \in {"tx", "button", "ok"}, inbox' = Told(<<msg>>)
      PROVE  /\ msg.what \in {"tx", "button", "ok"}
             /\ \A c \in Clients : inbox'[c] = Append(inbox[c], msg)
  BY <1>1, <1>2, ToldOne
<1>3. CASE WriteBegins
  <2>1. ASSUME NEW text \in Kinds, NEW what \in {"tx", "button"}
        PROVE  Echo(what, text) \in Messages /\ Echo(what, text).what \in {"tx", "button", "ok"}
    BY DEF Echo, Messages
  <2>2. CASE \E c \in Clients :
               /\ outbox[c] # <<>>
               /\ writing' = [text |-> Head(outbox[c]).text, by |-> c, step |-> Head(outbox[c]).step]
               /\ outbox' = [outbox EXCEPT ![c] = Tail(@)]
               /\ inbox' = Told(<<Echo("tx", writing'.text)>>)
    <3> PICK c \in Clients :
               /\ outbox[c] # <<>>
               /\ writing' = [text |-> Head(outbox[c]).text, by |-> c, step |-> Head(outbox[c]).step]
               /\ inbox' = Told(<<Echo("tx", writing'.text)>>)
      BY <2>2
    <3>1. Head(outbox[c]) \in Sends /\ writing'.text = Head(outbox[c]).text
      BY <1>1, HeadTailProperties
    <3>2. writing'.text \in Kinds
      BY <3>1 DEF Sends
    <3>3. Echo("tx", writing'.text) \in Messages /\ Echo("tx", writing'.text).what \in {"tx", "button", "ok"}
      BY <2>1, <3>2
    <3> QED BY <1>2, <3>3
  <2>3. CASE inbox' = Told(<<Echo("button", ButtonText)>>)
    <3>1. Echo("button", ButtonText) \in Messages /\ Echo("button", ButtonText).what \in {"tx", "button", "ok"}
      BY <2>1, BridgeAssumption
    <3> QED BY <1>2, <2>3, <3>1
  <2> QED BY <1>3, <2>2, <2>3 DEF WriteBegins
<1>4. CASE ReadsLine
  <2> DEFINE msg == [what |-> Head(wire).what, id |-> Head(wire).id, text |-> "none"]
  <2>1. wire # <<>> /\ inbox' = Told(<<msg>>)
    BY <1>4 DEF ReadsLine
  <2>2. Head(wire) = wire[1] /\ Head(wire) \in Printed /\ 1 \in 1..Len(wire)
    BY <1>1, <2>1, HeadTailProperties, EmptySeq
  <2>3. Head(wire).what = "ok"
    BY <2>2 DEF Calm, AnswersInOrder
  <2>4. msg \in Messages /\ msg.what = "ok"
    BY <2>2, <2>3 DEF Printed, Messages
  <2> HIDE DEF msg
  <2> QED BY <1>2, <2>1, <2>4
<1>5. CASE \E c \in Clients : HandleMessage(c)
  <2> PICK c \in Clients : HandleMessage(c)
    BY <1>5
  <2>1. inbox[c] # <<>> /\ inbox' = [inbox EXCEPT ![c] = Tail(@)]
    BY DEF HandleMessage
  <2> QED BY <1>1, <2>1
<1>6. CASE MegaFetches \/ MegaCarriesOut \/ (WriteEnds /\ WriteSucceeds)
  BY <1>6 DEF MegaFetches, MegaCarriesOut, MegaStep, linkVars, WriteSucceeds
<1>7. CASE \E c \in Clients : SendOnly(c) \/ Step(c) \/ Stop(c) \/ Timeout(c)
  BY <1>7 DEF SendOnly, Step, Stop, SendCmd, Timeout, linkVars
<1>8. CASE UNCHANGED vars
  BY <1>8 DEF vars, linkVars
<1> QED BY <1>3, <1>4, <1>5, <1>6, <1>7, <1>8 DEF CalmSteps

\* What the step leaves alone.
LEMMA CalmKeeps ==
    ASSUME Calm, CalmSteps
    PROVE  /\ UNCHANGED <<mega, port, failing, conn>>
           /\ MegaCarriesOut \/ UNCHANGED <<running, lastStarted>>
           /\ MegaCarriesOut \/ UNCHANGED wire \/ (wire # <<>> /\ wire' = Tail(wire))
           /\ UNCHANGED <<sent, origin>>
                 \/ (sent' = sent + 1 /\ origin' = Append(origin, <<writing.by, writing.step>>))
<1>1. mega = "up" /\ port = "open"
  BY DEF Calm
<1>2. CASE MegaFetches \/ MegaCarriesOut
  BY <1>2 DEF MegaFetches, MegaCarriesOut, MegaStep, bridgeVars, linkVars
<1>3. CASE WriteBegins
  BY <1>3 DEF WriteBegins, queueVars
<1>4. CASE WriteEnds /\ WriteSucceeds
  BY <1>1, <1>4 DEF WriteEnds, WriteSucceeds, SendLine
<1>5. CASE ReadsLine
  BY <1>5 DEF ReadsLine, ReaderStep, queueVars
<1>6. CASE \E c \in Clients : SendOnly(c) \/ Step(c) \/ Stop(c) \/ Timeout(c) \/ HandleMessage(c)
  BY <1>6 DEF SendOnly, Step, Stop, SendCmd, Timeout, HandleMessage, bridgeVars, linkVars, queueVars, histVars
<1>7. CASE UNCHANGED vars
  BY <1>7 DEF vars, bridgeVars, linkVars, queueVars, histVars
<1> QED BY <1>2, <1>3, <1>4, <1>5, <1>6, <1>7 DEF CalmSteps

LEMMA CalmInit == Init => Calm
<1> SUFFICES ASSUME Init PROVE Calm
  OBVIOUS
<1>1. /\ mega = "up" /\ port = "open" /\ failing = 0 /\ origin = <<>> /\ sent = 0 /\ wire = <<>>
      /\ \A c \in Clients : conn[c] /\ inbox[c] = <<>>
      /\ Len(<<>>) = 0 /\ 1..0 = {}
  BY DEF Init, BridgeInit, QueueInit
<1>2. Len(origin) = sent
  BY <1>1
<1>3. 1..Len(wire) = {} /\ \A c \in Clients : 1..Len(inbox[c]) = {}
  BY <1>1, Zenon
<1> QED BY <1>1, <1>2, <1>3, Zenon DEF Calm, AnswersInOrder

LEMMA CalmStep ==
    ASSUME TypeOK, TypeOK', QueueOrder, Calm, CalmSteps
    PROVE  Calm'
<1>1. /\ wire \in Seq(Printed) /\ origin \in Seq(Sources \X Nat) /\ sent \in Nat
      /\ \A c \in Clients : inbox[c] \in Seq(Messages)
      /\ \A q \in 1..Len(wire) : wire[q] \in Printed /\ wire[q].id \in Nat
  <2>1. /\ wire \in Seq(Printed) /\ origin \in Seq(Sources \X Nat) /\ sent \in Nat
        /\ inbox \in [Clients -> Seq(Messages)]
    BY DEF TypeOK, BridgeTypeOK, Printed, QueueTypeOK
  <2>2. \A q \in 1..Len(wire) : wire[q] \in Printed
    BY <2>1
  <2>3. \A ok \in Printed : ok.id \in Nat
    BY DEF Printed
  <2> QED BY <2>1, <2>2, <2>3
<1>2. /\ mega' = "up" /\ port' = "open" /\ failing' = 0 /\ \A c \in Clients : conn'[c]
  BY CalmKeeps DEF Calm
<1>3. Len(origin') = sent'
  <2>1. CASE UNCHANGED <<sent, origin>>
    BY <2>1 DEF Calm
  <2>2. CASE sent' = sent + 1 /\ origin' = Append(origin, <<writing.by, writing.step>>)
    <3>1. Len(origin') = Len(origin) + 1
      BY <1>1, <2>2
    <3> QED BY <2>2, <3>1 DEF Calm
  <2> QED BY <2>1, <2>2, CalmKeeps
<1>4. ASSUME NEW c \in Clients
      PROVE  \A q \in 1..Len(inbox'[c]) : inbox'[c][q].what \in {"tx", "button", "ok"}
  <2>1. \A q \in 1..Len(inbox[c]) : inbox[c][q].what \in {"tx", "button", "ok"}
    BY DEF Calm
  <2>2. ASSUME NEW d \in Clients, inbox[d] # <<>>, inbox'[d] = Tail(inbox[d]),
               \A e \in Clients \ {d} : inbox'[e] = inbox[e]
        PROVE  \A q \in 1..Len(inbox'[c]) : inbox'[c][q].what \in {"tx", "button", "ok"}
    <3>1. CASE c = d
      <4>1. /\ Len(inbox'[c]) = Len(inbox[c]) - 1 /\ Len(inbox[c]) \in Nat
            /\ \A q \in 1..Len(inbox'[c]) : inbox'[c][q] = inbox[c][q + 1]
        <5>1. inbox[c] \in Seq(Messages) /\ inbox[c] # <<>> /\ inbox'[c] = Tail(inbox[c])
          BY <1>1, <2>2, <3>1
        <5> QED BY <5>1, HeadTailProperties
      <4>2. \A q \in 1..Len(inbox'[c]) : q + 1 \in 1..Len(inbox[c])
        BY <4>1
      <4> QED BY <2>1, <4>1, <4>2
    <3>2. CASE c # d
      BY <2>1, <2>2, <3>2
    <3> QED BY <3>1, <3>2
  <2>3. ASSUME NEW msg \in Messages, msg.what \in {"tx", "button", "ok"},
               \A e \in Clients : inbox'[e] = Append(inbox[e], msg)
        PROVE  \A q \in 1..Len(inbox'[c]) : inbox'[c][q].what \in {"tx", "button", "ok"}
    <3>1. \A q \in 1..Len(Append(inbox[c], msg)) : Append(inbox[c], msg)[q].what \in {"tx", "button", "ok"}
      BY <1>1, <2>1, <2>3, WhatsAppend
    <3> QED BY <2>3, <3>1
  <2> QED BY <2>1, <2>2, <2>3, CalmTells
<1>5. AnswersInOrder'
  <2>0. /\ \A q \in 1..Len(wire) : wire[q].what = "ok" /\ Handled(wire[q].id)
        /\ \A q, r \in 1..Len(wire) : q < r => wire[q].id < wire[r].id
        /\ Len(wire) \in Nat
    BY <1>1 DEF Calm, AnswersInOrder
  <2>1. ASSUME \A n \in Nat : Handled(n) => Handled(n)', wire' = wire
        PROVE  AnswersInOrder'
    <3>1. \A q \in 1..Len(wire) : Handled(wire[q].id)'
      BY <1>1, <2>0, <2>1
    <3>2. \A q \in 1..Len(wire') : Handled(wire[q].id)'
      BY <2>1, <3>1
    <3> QED BY <2>0, <2>1, <3>1 DEF AnswersInOrder
  <2>2. ASSUME \A n \in Nat : Handled(n) => Handled(n)', NEW ok \in Printed,
               wire' = Append(wire, ok), ok.what = "ok", Handled(ok.id)',
               \A n \in Nat : Handled(n) => n < ok.id
        PROVE  AnswersInOrder'
    <3>1. /\ Len(wire') = Len(wire) + 1 /\ wire'[Len(wire) + 1] = ok
          /\ \A q \in 1..Len(wire) : wire'[q] = wire[q]
      BY <1>1, <2>2, AppendProperties
    <3>2. \A q \in 1..Len(wire') : q \in 1..Len(wire) \/ q = Len(wire) + 1
      BY <2>0, <3>1
    <3>3. \A q \in 1..Len(wire') : (wire[q].what = "ok" /\ Handled(wire[q].id))'
      <4> SUFFICES ASSUME NEW q \in 1..Len(wire') PROVE (wire[q].what = "ok" /\ Handled(wire[q].id))'
        OBVIOUS
      <4>1. CASE q \in 1..Len(wire)
        <5>1. wire'[q] = wire[q] /\ wire[q].what = "ok" /\ Handled(wire[q].id) /\ wire[q].id \in Nat
          BY <1>1, <2>0, <3>1, <4>1
        <5> QED BY <2>2, <5>1 DEF Handled
      <4>2. CASE q = Len(wire) + 1
        <5>1. wire'[q] = ok
          BY <3>1, <4>2
        <5> QED BY <2>2, <5>1 DEF Handled
      <4> QED BY <3>2, <4>1, <4>2
    <3>4. ASSUME NEW q \in 1..Len(wire'), NEW r \in 1..Len(wire'), q < r
          PROVE  wire'[q].id < wire'[r].id
      <4>1. q \in 1..Len(wire)
        BY <2>0, <3>1, <3>4
      <4>2. wire'[q] = wire[q] /\ Handled(wire[q].id) /\ wire[q].id \in Nat
        BY <1>1, <2>0, <3>1, <4>1
      <4>3. CASE r \in 1..Len(wire)
        BY <2>0, <3>1, <3>4, <4>1, <4>3
      <4>4. CASE r = Len(wire) + 1
        BY <2>2, <3>1, <4>2, <4>4
      <4> QED BY <3>2, <4>3, <4>4
    <3> QED BY <3>3, <3>4 DEF AnswersInOrder
  <2>3. ASSUME UNCHANGED <<running, lastStarted>>, wire # <<>>, wire' = Tail(wire)
        PROVE  AnswersInOrder'
    <3>1. /\ Len(wire') = Len(wire) - 1
          /\ \A q \in 1..Len(wire') : wire'[q] = wire[q + 1] /\ q + 1 \in 1..Len(wire)
      <4>1. /\ Len(wire') = Len(wire) - 1 /\ \A q \in 1..Len(wire') : wire'[q] = wire[q + 1]
        BY <1>1, <2>3, HeadTailProperties
      <4> QED BY <2>0, <4>1
    <3>2. \A q, r \in 1..Len(wire') : q < r => q + 1 < r + 1
      BY <2>0, <3>1
    <3>3. \A q \in 1..Len(wire') : (wire[q].what = "ok" /\ Handled(wire[q].id))'
      BY <2>0, <2>3, <3>1 DEF Handled
    <3>4. \A q, r \in 1..Len(wire') : q < r => wire'[q].id < wire'[r].id
      BY <2>0, <3>1, <3>2
    <3> QED BY <3>3, <3>4 DEF AnswersInOrder
  <2>4. CASE MegaCarriesOut
    BY <2>1, <2>2, <2>4, CarriedOut
  <2>5. CASE ~MegaCarriesOut
    <3>1. UNCHANGED <<running, lastStarted>>
      BY <2>5, CalmKeeps
    <3>2. \A n \in Nat : Handled(n) => Handled(n)'
      BY <3>1 DEF Handled
    <3> QED BY <2>1, <2>3, <2>5, <3>1, <3>2, CalmKeeps
  <2> QED BY <2>4, <2>5
<1> QED BY <1>2, <1>3, <1>4, <1>5 DEF Calm

-----------------------------------------------------------------------------
(* What the pages send. *)

LEMMA CommandTypes ==
    ASSUME NEW c \in Clients
    PROVE  /\ Commands(c) \subseteq Sends
           /\ \A text \in TextsOf[c], step \in Nat : [text |-> text, step |-> step] \in Commands(c)
           /\ [text |-> "M410", step |-> 0] \in Commands(c)
BY LedgerAssumption DEF Commands, Sends

\* sendCmd() of one page: its command is on its way and waits for its echo.
LEMMA PageSends ==
    ASSUME TypeOK, NEW c \in Clients, SendOnly(c) \/ Step(c) \/ Stop(c)
    PROVE  \E x \in Commands(c) :
              /\ outbox' = [outbox EXCEPT ![c] = Append(@, x)]
              /\ pending' = [pending EXCEPT ![c] = Append(@, x)]
              /\ UNCHANGED <<sent, origin, writing, running, lastStarted, wire, inbox, ledger>>
<1>1. ASSUME NEW text, NEW step, SendCmd(c, text, step), [text |-> text, step |-> step] \in Commands(c)
      PROVE  \E x \in Commands(c) :
              /\ outbox' = [outbox EXCEPT ![c] = Append(@, x)]
              /\ pending' = [pending EXCEPT ![c] = Append(@, x)]
              /\ UNCHANGED <<sent, origin, writing, running, lastStarted, wire, inbox, ledger>>
  BY <1>1 DEF SendCmd, queueVars, bridgeVars
<1>2. CASE SendOnly(c)
  <2> PICK text \in TextsOf[c] : SendCmd(c, text, 0)
    BY <1>2 DEF SendOnly
  <2> QED BY <1>1, CommandTypes
<1>3. CASE Step(c)
  <2>1. steps'[c] \in Nat
    BY <1>3 DEF Step, TypeOK
  <2> PICK text \in TextsOf[c] : SendCmd(c, text, steps'[c])
    BY <1>3 DEF Step
  <2> DEFINE step == steps'[c]
  <2>2. step \in Nat /\ SendCmd(c, text, step)
    BY <2>1
  <2> HIDE DEF step
  <2>3. [text |-> text, step |-> step] \in Commands(c)
    BY <2>2, CommandTypes
  <2> QED BY <2>2, <2>3 DEF SendCmd, queueVars, bridgeVars
<1>4. CASE Stop(c)
  <2>1. SendCmd(c, "M410", 0)
    BY <1>4 DEF Stop
  <2> QED BY <1>1, <2>1, CommandTypes
<1> QED BY <1>2, <1>3, <1>4

\* handleWSMessage() of one page touches its own pending commands only.
LEMMA PageHandles ==
    ASSUME TypeOK, NEW c \in Clients, HandleMessage(c)
    PROVE  /\ \A d \in Clients \ {c} :
                 pending'[d] = pending[d] /\ ledger'[d] = ledger[d] /\ inbox'[d] = inbox[d]
           /\ pending'[c] = pending[c] \/ (pending[c] # <<>> /\ pending'[c] = Tail(pending[c]))
           /\ inbox[c] # <<>> /\ inbox'[c] = Tail(inbox[c]) /\ Head(inbox[c]) \in Messages
           /\ UNCHANGED <<outbox, sent, origin, writing, running, lastStarted, wire>>
<1>1. LedgerTypes /\ inbox \in [Clients -> Seq(Messages)]
  BY TypeParts DEF TypeOK, BridgeTypeOK
<1>2. /\ inbox[c] # <<>> /\ inbox' = [inbox EXCEPT ![c] = Tail(@)]
      /\ UNCHANGED <<outbox, sent, origin, writing, running, lastStarted, wire>>
  BY DEF HandleMessage, queueVars, bridgeVars, histVars
<1>3. Head(inbox[c]) \in Messages /\ inbox'[c] = Tail(inbox[c])
      /\ \A d \in Clients \ {c} : inbox'[d] = inbox[d]
  <2>1. inbox[c] \in Seq(Messages)
    BY <1>1
  <2> QED BY <1>1, <1>2, <2>1, HeadTailProperties
<1>4. CASE OkLedgerEcho(c, Head(inbox[c]))
  <2>1. /\ \A d \in Clients \ {c} : pending'[d] = pending[d] /\ ledger'[d] = ledger[d]
        /\ pending'[c] = pending[c] \/ (pending[c] # <<>> /\ pending'[c] = Tail(pending[c]))
    <3>1. \A d \in Clients \ {c} : pending'[d] = pending[d] /\ ledger'[d] = ledger[d]
      BY <1>1, <1>3, <1>4, EchoTypes
    <3>2. pending'[c] = pending[c] \/ (pending[c] # <<>> /\ pending'[c] = Tail(pending[c]))
      BY <1>1, <1>4 DEF OkLedgerEcho, Own, LedgerTypes
    <3> QED BY <3>1, <3>2
  <2> QED BY <1>2, <1>3, <2>1
<1>5. CASE OkLedgerOk(c, Head(inbox[c]))
  BY <1>1, <1>2, <1>3, <1>5, OkTypes
<1>6. CASE Unanswered(c, Head(inbox[c]))
  <2>1. pending' = pending /\ \A d \in Clients \ {c} : ledger'[d] = ledger[d]
    BY <1>1, <1>6, LostTypes DEF Unanswered
  <2> QED BY <1>2, <1>3, <2>1
<1> QED BY <1>4, <1>5, <1>6 DEF HandleMessage

LEMMA SendsTypedInit == Init => SendsTyped
BY DEF Init, BridgeInit, SendsTyped

LEMMA SendsTypedStep ==
    ASSUME TypeOK, SendsTyped, CalmSteps
    PROVE  SendsTyped'
<1> SUFFICES ASSUME NEW c \in Clients
             PROVE  pending'[c] \in Seq(Commands(c)) /\ outbox'[c] \in Seq(Commands(c))
  BY DEF SendsTyped, Commands
<1>1. /\ pending[c] \in Seq(Commands(c)) /\ outbox[c] \in Seq(Commands(c))
      /\ pending \in [Clients -> Seq(Sends)] /\ outbox \in [Clients -> Seq(Sends)]
  BY DEF SendsTyped, TypeOK, BridgeTypeOK, Sends
<1> DEFINE C == Commands(c)
<1>2. \A s \in Seq(C) : (s # <<>> => Tail(s) \in Seq(C)) /\ \A x \in C : Append(s, x) \in Seq(C)
  BY HeadTailProperties, AppendProperties
<1> HIDE DEF C
<1>3. CASE UNCHANGED <<pending, outbox>>
  BY <1>1, <1>3
<1>4. CASE WriteBegins /\ UNCHANGED pageVars
  <2>1. pending' = pending
    BY <1>4 DEF pageVars
  <2>2. outbox' = outbox \/ \E d \in Clients : outbox[d] # <<>> /\ outbox' = [outbox EXCEPT ![d] = Tail(@)]
    BY <1>4 DEF WriteBegins
  <2>3. outbox'[c] = outbox[c] \/ (outbox[c] # <<>> /\ outbox'[c] = Tail(outbox[c]))
    BY <1>1, <2>2
  <2> QED BY <1>1, <1>2, <2>1, <2>3 DEF C
<1>5. CASE \E d \in Clients : SendOnly(d) \/ Step(d) \/ Stop(d)
  <2> PICK d \in Clients : SendOnly(d) \/ Step(d) \/ Stop(d)
    BY <1>5
  <2> PICK x \in Commands(d) :
              /\ outbox' = [outbox EXCEPT ![d] = Append(@, x)]
              /\ pending' = [pending EXCEPT ![d] = Append(@, x)]
    BY PageSends
  <2>1. CASE c = d
    <3>1. outbox'[c] = Append(outbox[c], x) /\ pending'[c] = Append(pending[c], x) /\ x \in C
      BY <1>1, <2>1 DEF C
    <3> QED BY <1>1, <1>2, <3>1 DEF C
  <2>2. CASE c # d
    BY <1>1, <2>2
  <2> QED BY <2>1, <2>2
<1>6. CASE \E d \in Clients : HandleMessage(d)
  <2> PICK d \in Clients : HandleMessage(d)
    BY <1>6
  <2>1. outbox' = outbox /\ (pending'[c] = pending[c] \/ (pending[c] # <<>> /\ pending'[c] = Tail(pending[c])))
    <3>1. CASE c = d
      BY <3>1, PageHandles
    <3>2. CASE c # d
      BY <3>2, PageHandles
    <3> QED BY <3>1, <3>2
  <2> QED BY <1>1, <1>2, <2>1 DEF C
<1>7. CASE MegaFetches /\ UNCHANGED pageVars
  BY <1>3, <1>7 DEF MegaFetches, MegaStep, linkVars, pageVars
<1>8. CASE MegaCarriesOut /\ UNCHANGED pageVars
  BY <1>3, <1>8 DEF MegaCarriesOut, MegaStep, linkVars, pageVars
<1>9. CASE WriteEnds /\ UNCHANGED pageVars
  BY <1>3, <1>9 DEF WriteEnds, pageVars
<1>10. CASE ReadsLine /\ UNCHANGED pageVars
  BY <1>3, <1>10 DEF ReadsLine, ReaderStep, pageVars
<1>11. CASE \E d \in Clients : Timeout(d)
  BY <1>3, <1>11 DEF Timeout, linkVars
<1>12. CASE UNCHANGED vars
  BY <1>3, <1>12 DEF vars, pageVars, linkVars
<1> QED BY <1>4, <1>5, <1>6, <1>7, <1>8, <1>9, <1>10, <1>11, <1>12 DEF CalmSteps

-----------------------------------------------------------------------------
(* The lines and who sent them. *)

LEMMA AuthorTypes ==
    ASSUME TypeOK, Calm
    PROVE  Echoed \in Nat /\ sent \in Nat /\ \A n \in 1..Echoed : Author(n) \in Sources \X Nat
<1>1. /\ sent \in Nat /\ origin \in Seq(Sources \X Nat) /\ Len(origin) = sent
      /\ writing \in Writes \cup {NoWrite}
  BY DEF TypeOK, BridgeTypeOK, QueueTypeOK, Calm
<1>2. ASSUME NEW n \in 1..Echoed PROVE Author(n) \in Sources \X Nat
  <2>1. CASE n <= sent
    <3>1. n \in 1..Len(origin)
      BY <1>1, <2>1
    <3> QED BY <1>1, <2>1, <3>1 DEF Author
  <2>2. CASE ~(n <= sent)
    <3>1. writing # NoWrite
      BY <1>1, <1>2, <2>2 DEF Echoed
    <3>2. writing.by \in Sources /\ writing.step \in Nat
      BY <1>1, <3>1 DEF Writes
    <3> QED BY <2>2, <3>2 DEF Author
  <2> QED BY <2>1, <2>2
<1> QED BY <1>1, <1>2 DEF Echoed

\* A line that is taken gets the next number.
LEMMA LineTaken ==
    ASSUME TypeOK, WriteBegins
    PROVE  /\ writing = NoWrite /\ writing' # NoWrite
           /\ Echoed = sent /\ Echoed' = sent + 1 /\ sent' = sent /\ origin' = origin
<1>1. writing = NoWrite /\ sent' = sent /\ origin' = origin /\ sent \in Nat
  BY DEF WriteBegins, queueVars, TypeOK, BridgeTypeOK, QueueTypeOK
<1>2. \A s \in Sends : s.text # "none"
  BY BridgeAssumption DEF Sends
<1>3. writing'.text # "none"
  <2>1. CASE \E c \in Clients :
               /\ outbox[c] # <<>>
               /\ writing' = [text |-> Head(outbox[c]).text, by |-> c, step |-> Head(outbox[c]).step]
    <3> PICK c \in Clients :
               /\ outbox[c] # <<>>
               /\ writing' = [text |-> Head(outbox[c]).text, by |-> c, step |-> Head(outbox[c]).step]
      BY <2>1
    <3>1. outbox[c] \in Seq(Sends)
      BY DEF TypeOK, BridgeTypeOK, Sends
    <3>2. Head(outbox[c]) \in Sends
      BY <3>1, HeadTailProperties
    <3> QED BY <1>2, <3>2
  <2>2. CASE writing' = [text |-> ButtonText, by |-> "button", step |-> 0]
    BY <2>2, BridgeAssumption
  <2> QED BY <2>1, <2>2 DEF WriteBegins
<1>4. writing' # NoWrite
  BY <1>3 DEF NoWrite
<1> QED BY <1>1, <1>4 DEF Echoed

\* Nobody else becomes the author of a line.
LEMMA AuthorKept ==
    ASSUME TypeOK, Calm, CalmSteps
    PROVE  /\ \A n \in 1..Echoed : Author(n)' = Author(n)
           /\ ~WriteBegins => Echoed' = Echoed
<1>1. /\ sent \in Nat /\ origin \in Seq(Sources \X Nat) /\ Len(origin) = sent
  BY DEF TypeOK, BridgeTypeOK, QueueTypeOK, Calm
<1>2. CASE UNCHANGED <<sent, origin, writing>>
  BY <1>2 DEF Author, Echoed
<1>3. CASE WriteBegins
  <2>1. Echoed = sent /\ sent' = sent /\ origin' = origin
    BY <1>3, LineTaken
  <2> QED BY <1>1, <1>3, <2>1 DEF Author
<1>4. CASE WriteEnds /\ WriteSucceeds
  <2>1. /\ writing # NoWrite /\ writing' = NoWrite /\ sent' = sent + 1
        /\ origin' = Append(origin, <<writing.by, writing.step>>)
    BY <1>4 DEF WriteEnds, WriteSucceeds, SendLine
  <2>2. Echoed = sent + 1 /\ Echoed' = sent + 1
    BY <1>1, <2>1 DEF Echoed
  <2>3. /\ \A n \in 1..sent : origin'[n] = origin[n]
        /\ origin'[sent + 1] = <<writing.by, writing.step>>
    BY <1>1, <2>1, AppendProperties
  <2>4. ASSUME NEW n \in 1..Echoed PROVE Author(n)' = Author(n)
    <3>1. n \in 1..sent \/ n = sent + 1
      BY <1>1, <2>2, <2>4
    <3>2. n <= sent'
      BY <1>1, <2>1, <3>1
    <3>3. Author(n)' = origin'[n]
      BY <3>2 DEF Author
    <3>4. CASE n \in 1..sent
      BY <2>3, <3>3, <3>4 DEF Author
    <3>5. CASE n = sent + 1
      <4>1. ~(n <= sent)
        BY <1>1, <3>5
      <4> QED BY <2>3, <3>3, <3>5, <4>1 DEF Author
    <3> QED BY <3>1, <3>4, <3>5
  <2> QED BY <2>2, <2>4
<1>5. CASE MegaFetches \/ MegaCarriesOut
  BY <1>2, <1>5 DEF MegaFetches, MegaCarriesOut, MegaStep, bridgeVars
<1>6. CASE ReadsLine
  BY <1>2, <1>6 DEF ReadsLine, ReaderStep, queueVars
<1>7. CASE \E c \in Clients : SendOnly(c) \/ Step(c) \/ Stop(c) \/ HandleMessage(c)
  BY <1>2, <1>7, PageSends, PageHandles
<1>8. CASE \E c \in Clients : Timeout(c)
  BY <1>2, <1>8 DEF Timeout, queueVars, bridgeVars, histVars
<1>9. CASE UNCHANGED vars
  BY <1>2, <1>9 DEF vars, queueVars, bridgeVars, histVars
<1> QED BY <1>3, <1>4, <1>5, <1>6, <1>7, <1>8, <1>9 DEF CalmSteps

-----------------------------------------------------------------------------
(* The ledger attributes the answers to the right lines. *)

TextsSent(c) == TextsOf[c] \cup {"M410"}

\* The k-th command of c that is on its way: told to c by its echo, or not yet
\* received.
SentAt(c, g, k) ==
    IF k <= Len(inbox[c])
    THEN IF inbox[c][k].what = "tx" /\ Author(g[k])[1] = c
         THEN [text |-> inbox[c][k].text, step |-> Author(g[k])[2]]
         ELSE Foreign
    ELSE outbox[c][k - Len(inbox[c])]
SentBy(c, g) == [k \in 1..Coming(c) |-> SentAt(c, g, k)]

\* The ledger stands for the lines after the first d, and an entry that is a
\* step for a line that c has sent for this step.
Attributed(c, d) ==
    \A p \in 1..Len(ledger[c]) : ledger[c][p] # 0 => Author(d + p) = <<c, ledger[c][p]>>

\* An echo tells a text of the page that has sent its line.
EchoesTold(c, g) ==
    \A q \in 1..Len(inbox[c]) : inbox[c][q].what = "tx" =>
        \E a \in Clients : Author(g[q])[1] = a /\ inbox[c][q].text \in TextsSent(a)

\* The echoes that c has not handled follow the lines of its ledger, up to the
\* last line, and its pending commands are found among them in order.
Accounts(c, d, g) ==
    /\ Numbers(g, inbox[c], d + Len(ledger[c]), Echoed)
    /\ Attributed(c, d) /\ EchoesTold(c, g)
    /\ Matched(pending[c], Coming(c), SentBy(c, g))

\* No answer that is on its way is for one of the first d lines.
Answered(c, d) ==
    /\ Handled(d)
    /\ \A q \in 1..Len(inbox[c]) : inbox[c][q].what = "ok" =>
          /\ d < inbox[c][q].id /\ Handled(inbox[c][q].id)
          /\ \A r \in 1..Len(inbox[c]) :
                q < r /\ inbox[c][r].what = "ok" => inbox[c][q].id < inbox[c][r].id
          /\ \A r \in 1..Len(wire) : inbox[c][q].id < wire[r].id
    /\ \A r \in 1..Len(wire) : d < wire[r].id

LedgerRight(c) == \E d \in Nat : \E g : Accounts(c, d, g) /\ Answered(c, d)

\* The lines keep their authors.
AuthorsKept == \A n \in 1..Echoed : Author(n)' = Author(n)

\* The lines that were echoed once msg is told.
Counted(msg, e) ==
    /\ e = Echoed + (IF Echoing(msg) THEN 1 ELSE 0)
    /\ Echoed' = e

LEMMA NumbersRange ==
    ASSUME NEW s \in Seq(Messages), NEW a \in Nat, NEW b \in Nat, NEW g, Numbers(g, s, a, b)
    PROVE  /\ a <= b /\ \A q \in 0..Len(s) : g[q] \in Nat /\ a <= g[q] /\ g[q] <= b
           /\ \A q \in 1..Len(s) : Echoing(s[q]) => g[q] \in 1..b
<1>1. /\ g \in [0..Len(s) -> Nat] /\ g[0] = a /\ g[Len(s)] = b /\ Len(s) \in Nat
      /\ \A q \in 1..Len(s) : g[q] = g[q - 1] + (IF Echoing(s[q]) THEN 1 ELSE 0)
      /\ \A q, r \in 0..Len(s) : q <= r => g[q] <= g[r]
  BY DEF Numbers
<1>2. 0 \in 0..Len(s) /\ Len(s) \in 0..Len(s) /\ \A q \in 0..Len(s) : 0 <= q /\ q <= Len(s)
  BY <1>1
<1>3. a <= b /\ \A q \in 0..Len(s) : g[q] \in Nat /\ a <= g[q] /\ g[q] <= b
  BY <1>1, <1>2
<1>4. ASSUME NEW q \in 1..Len(s), Echoing(s[q]) PROVE g[q] \in 1..b
  <2>1. q \in 0..Len(s) /\ q - 1 \in 0..Len(s)
    BY <1>1
  <2>2. g[q] = g[q - 1] + 1
    BY <1>1, <1>4
  <2> QED BY <1>3, <2>1, <2>2
<1> QED BY <1>3, <1>4

LEMMA AccountTypes ==
    ASSUME TypeOK, Calm, NEW c \in Clients
    PROVE  /\ inbox[c] \in Seq(Messages) /\ outbox[c] \in Seq(Sends)
           /\ pending[c] \in Seq(Sends) /\ ledger[c] \in Seq(Nat)
           /\ Len(inbox[c]) \in Nat /\ Len(outbox[c]) \in Nat /\ Len(ledger[c]) \in Nat
           /\ Len(pending[c]) \in Nat /\ Echoed \in Nat
           /\ Coming(c) \in Nat /\ Coming(c) = Len(inbox[c]) + Len(outbox[c])
<1>1. /\ inbox[c] \in Seq(Messages) /\ outbox[c] \in Seq(Sends)
      /\ pending[c] \in Seq(Sends) /\ ledger[c] \in Seq(Nat)
  BY DrainTypes DEF TypeOK, BridgeTypeOK, Sends
<1>2. /\ Len(inbox[c]) \in Nat /\ Len(outbox[c]) \in Nat /\ Len(ledger[c]) \in Nat
      /\ Len(pending[c]) \in Nat
  BY <1>1
<1> QED BY <1>1, <1>2, AuthorTypes, LengthsAdd DEF Coming

LEMMA MatchedSame ==
    ASSUME NEW p, NEW n \in Nat, NEW s, Matched(p, n, s), NEW u, \A i \in 1..n : u[i] = s[i]
    PROVE  Matched(p, n, u)
<1> PICK f : Matches(f, p, n, s)
  BY DEF Matched
<1>1. /\ f \in [1..Len(p) -> 1..n]
      /\ \A i, j \in 1..Len(p) : i < j => f[i] < f[j]
      /\ \A i \in 1..Len(p) : p[i] = s[f[i]]
      /\ \A k \in 1..n : s[k].text \notin {"none", "M410"} => \E i \in 1..Len(p) : f[i] = k
  BY DEF Matches
<1>2. \A i \in 1..Len(p) : p[i] = u[f[i]]
  BY <1>1
<1>3. \A k \in 1..n : u[k].text \notin {"none", "M410"} => \E i \in 1..Len(p) : f[i] = k
  BY <1>1
<1> QED BY <1>1, <1>2, <1>3 DEF Matches, Matched

\* What is in the ledger stays right as long as the lines keep their authors.
LEMMA AttributedKept ==
    ASSUME TypeOK, Calm, NEW c \in Clients, NEW d \in Nat, NEW g, Accounts(c, d, g),
           ledger'[c] = ledger[c], AuthorsKept
    PROVE  Attributed(c, d)'
<1>1. /\ inbox[c] \in Seq(Messages) /\ Len(ledger[c]) \in Nat /\ Echoed \in Nat
      /\ Numbers(g, inbox[c], d + Len(ledger[c]), Echoed) /\ Attributed(c, d)
  BY AccountTypes DEF Accounts
<1>2. d + Len(ledger[c]) <= Echoed
  <2> DEFINE a == d + Len(ledger[c])
  <2>1. a \in Nat /\ Numbers(g, inbox[c], a, Echoed)
    BY <1>1
  <2> HIDE DEF a
  <2>2. a <= Echoed
    BY <1>1, <2>1, NumbersRange
  <2> QED BY <2>2 DEF a
<1> SUFFICES ASSUME NEW p \in 1..Len(ledger'[c]), ledger'[c][p] # 0
             PROVE  Author(d + p)' = <<c, ledger'[c][p]>>
  BY DEF Attributed
<1>3. p \in 1..Len(ledger[c]) /\ ledger[c][p] # 0
  OBVIOUS
<1>4. Author(d + p) = <<c, ledger[c][p]>>
  BY <1>1, <1>3 DEF Attributed
<1> DEFINE n == d + p
<1>5. n \in 1..Echoed
  BY <1>1, <1>2, <1>3
<1> HIDE DEF n
<1>6. Author(n)' = Author(n)
  BY <1>5 DEF AuthorsKept
<1>7. Author(d + p)' = Author(d + p)
  BY <1>6 DEF n
<1> QED BY <1>4, <1>7

\* Where the authors stay, so does what the echoes stand for: the r-th message
\* is now the q-th.
LEMMA SentMoved ==
    ASSUME TypeOK, Calm, NEW c \in Clients, NEW d \in Nat, NEW g, Accounts(c, d, g),
           AuthorsKept, NEW r \in 1..Len(inbox[c]), NEW q \in 1..Len(inbox'[c]),
           NEW h, h[q] = g[r], inbox'[c][q] = inbox[c][r]
    PROVE  /\ SentAt(c, h, q)' = SentAt(c, g, r)
           /\ inbox[c][r].what = "tx" =>
                 /\ Author(h[q])' = Author(g[r])
                 /\ \E a \in Clients : Author(h[q])'[1] = a /\ inbox[c][r].text \in TextsSent(a)
<1>1. /\ inbox[c] \in Seq(Messages) /\ Len(ledger[c]) \in Nat /\ Echoed \in Nat
      /\ Numbers(g, inbox[c], d + Len(ledger[c]), Echoed) /\ EchoesTold(c, g)
      /\ r <= Len(inbox[c]) /\ q <= Len(inbox'[c])
  <2>1. r <= Len(inbox[c]) /\ q <= Len(inbox'[c])
    OBVIOUS
  <2> QED BY <2>1, AccountTypes, Zenon DEF Accounts
<1>2. ASSUME inbox[c][r].what = "tx" PROVE g[r] \in 1..Echoed
  <2> DEFINE a == d + Len(ledger[c])
  <2>1. a \in Nat /\ Numbers(g, inbox[c], a, Echoed) /\ Echoing(inbox[c][r])
    BY <1>1, <1>2 DEF Echoing
  <2> HIDE DEF a
  <2> QED BY <1>1, <2>1, NumbersRange
<1>3. ASSUME inbox[c][r].what = "tx" PROVE Author(h[q])' = Author(g[r])
  <2> DEFINE n == g[r]
  <2>1. n \in 1..Echoed /\ h[q] = n
    BY <1>2, <1>3
  <2> HIDE DEF n
  <2>2. Author(n)' = Author(n)
    BY <2>1 DEF AuthorsKept
  <2>3. Author(h[q])' = Author(n)
    BY <2>1, <2>2
  <2> QED BY <2>3 DEF n
<1>4. ASSUME inbox[c][r].what = "tx"
      PROVE  \E a \in Clients : Author(h[q])'[1] = a /\ inbox[c][r].text \in TextsSent(a)
  BY <1>1, <1>3, <1>4 DEF EchoesTold
<1>5. SentAt(c, h, q)' = SentAt(c, g, r)
  BY <1>1, <1>3 DEF SentAt
<1> QED BY <1>3, <1>4, <1>5

LEMMA SentKept ==
    ASSUME TypeOK, Calm, NEW c \in Clients, NEW d \in Nat, NEW g, Accounts(c, d, g),
           AuthorsKept, NEW h, NEW q \in 1..Len(inbox[c]), h[q] = g[q],
           inbox'[c][q] = inbox[c][q], q \in 1..Len(inbox'[c])
    PROVE  /\ SentAt(c, h, q)' = SentAt(c, g, q)
           /\ inbox[c][q].what = "tx" =>
                 \E a \in Clients : Author(h[q])'[1] = a /\ inbox[c][q].text \in TextsSent(a)
BY SentMoved

\* Nothing of the page's has changed.
LEMMA AccountsSame ==
    ASSUME TypeOK, Calm, NEW c \in Clients, NEW d \in Nat, NEW g, Accounts(c, d, g),
           AuthorsKept, Echoed' = Echoed,
           inbox'[c] = inbox[c], outbox'[c] = outbox[c], ledger'[c] = ledger[c],
           pending'[c] = pending[c]
    PROVE  Accounts(c, d, g)'
<1>1. /\ Coming(c) \in Nat /\ Coming(c)' = Coming(c) /\ Len(inbox[c]) \in Nat
      /\ Numbers(g, inbox[c], d + Len(ledger[c]), Echoed) /\ EchoesTold(c, g)
      /\ Matched(pending[c], Coming(c), SentBy(c, g))
  <2>1. Coming(c)' = Coming(c)
    BY DEF Coming
  <2> QED BY <2>1, AccountTypes, Zenon DEF Accounts
<1>2. Numbers(g, inbox'[c], d + Len(ledger'[c]), Echoed')
  BY <1>1
<1>3. Attributed(c, d)'
  BY AttributedKept
<1>4. \A q \in 1..Len(inbox[c]) :
         /\ SentAt(c, g, q)' = SentAt(c, g, q)
         /\ inbox[c][q].what = "tx" =>
               \E a \in Clients : Author(g[q])'[1] = a /\ inbox[c][q].text \in TextsSent(a)
  BY SentKept
<1>5. EchoesTold(c, g)'
  BY <1>4 DEF EchoesTold
<1>6. \A k \in 1..Coming(c) : SentAt(c, g, k)' = SentAt(c, g, k)
  <2> SUFFICES ASSUME NEW k \in 1..Coming(c) PROVE SentAt(c, g, k)' = SentAt(c, g, k)
    OBVIOUS
  <2>1. CASE k <= Len(inbox[c])
    <3>1. k \in 1..Len(inbox[c])
      BY <1>1, <2>1
    <3> QED BY <1>4, <3>1
  <2>2. CASE ~(k <= Len(inbox[c]))
    BY <2>2 DEF SentAt
  <2> QED BY <2>1, <2>2
<1>7. \A k \in 1..Coming(c) : SentBy(c, g)'[k] = SentBy(c, g)[k]
  BY <1>1, <1>6 DEF SentBy
<1>8. Matched(pending[c], Coming(c), SentBy(c, g)')
  <2> DEFINE u == SentBy(c, g)'
             t == SentBy(c, g)
  <2>1. \A k \in 1..Coming(c) : u[k] = t[k]
    BY <1>7
  <2>2. Matched(pending[c], Coming(c), t)
    BY <1>1
  <2> HIDE DEF u, t
  <2>3. Matched(pending[c], Coming(c), u)
    BY <1>1, <2>1, <2>2, MatchedSame
  <2> QED BY <2>3 DEF u
<1>9. Matched(pending'[c], Coming(c)', SentBy(c, g)')
  BY <1>1, <1>8, Zenon
<1> QED BY <1>2, <1>3, <1>5, <1>9, Zenon DEF Accounts

\* h numbers the echoes of c's messages once it is told one more, with e echoes.
ToldRight(c, d, g, h, e) ==
    /\ Numbers(h, inbox'[c], d + Len(ledger'[c]), Echoed')
    /\ Attributed(c, d)' /\ EchoesTold(c, h)'
    /\ \A k \in 1..Len(inbox[c]) : SentAt(c, h, k)' = SentAt(c, g, k)
    /\ h[Len(inbox[c]) + 1] = e

\* The page is told one more message.
LEMMA AccountsTold ==
    ASSUME TypeOK, Calm, NEW c \in Clients, NEW d \in Nat, NEW g, Accounts(c, d, g),
           AuthorsKept,
           ledger'[c] = ledger[c],
           NEW msg \in Messages, inbox'[c] = Append(inbox[c], msg),
           NEW e, Counted(msg, e),
           msg.what = "tx" =>
               \E a \in Clients : Author(e)'[1] = a /\ msg.text \in TextsSent(a)
    PROVE  \E h : ToldRight(c, d, g, h, e)
<1> DEFINE a == d + Len(ledger[c])
           l == Len(inbox[c])
<1>1. /\ inbox[c] \in Seq(Messages) /\ l \in Nat /\ Len(ledger[c]) \in Nat /\ Echoed \in Nat
      /\ Numbers(g, inbox[c], a, Echoed) /\ EchoesTold(c, g)
  BY AccountTypes, Zenon DEF Accounts
<1>2. a \in Nat
  BY <1>1
<1>3. /\ Len(inbox'[c]) = l + 1 /\ inbox'[c][l + 1] = msg
      /\ \A q \in 1..l : inbox'[c][q] = inbox[c][q] /\ q \in 1..(l + 1) /\ q \in 0..l
  BY <1>1, AppendProperties
<1>6. a = d + Len(ledger'[c]) /\ Echoed' = e /\ e = Echoed + (IF Echoing(msg) THEN 1 ELSE 0)
  BY DEF Counted
<1>7. l = Len(inbox[c])
  OBVIOUS
<1> HIDE DEF a, l
<1> PICK h : /\ Numbers(h, Append(inbox[c], msg), a, e)
             /\ \A q \in 0..l : h[q] = g[q]
  BY <1>1, <1>2, <1>6, <1>7, NumbersAppend
<1>4. Numbers(h, inbox'[c], a, e) /\ h[l + 1] = e
  <2>1. Numbers(h, inbox'[c], a, e)
    OBVIOUS
  <2> QED BY <1>3, <2>1 DEF Numbers
<1>5. \A q \in 1..l :
         /\ SentAt(c, h, q)' = SentAt(c, g, q)
         /\ inbox[c][q].what = "tx" =>
               \E b \in Clients : Author(h[q])'[1] = b /\ inbox[c][q].text \in TextsSent(b)
  <2> SUFFICES ASSUME NEW q \in 1..l
               PROVE  /\ SentAt(c, h, q)' = SentAt(c, g, q)
                      /\ inbox[c][q].what = "tx" =>
                            \E b \in Clients : Author(h[q])'[1] = b /\ inbox[c][q].text \in TextsSent(b)
    OBVIOUS
  <2>1. q \in 1..Len(inbox[c]) /\ h[q] = g[q] /\ inbox'[c][q] = inbox[c][q] /\ q \in 1..Len(inbox'[c])
    BY <1>3, <1>7
  <2> QED BY <2>1, SentKept
<1>8. EchoesTold(c, h)'
  <2> SUFFICES ASSUME NEW q \in 1..(l + 1), inbox'[c][q].what = "tx"
               PROVE  \E b \in Clients : Author(h[q])'[1] = b /\ inbox'[c][q].text \in TextsSent(b)
    BY <1>3 DEF EchoesTold
  <2>1. CASE q \in 1..l
    BY <1>3, <1>5, <2>1
  <2>2. CASE q = l + 1
    <3>1. inbox'[c][q] = msg /\ h[q] = e
      BY <1>3, <1>4, <2>2
    <3> QED BY <3>1
  <2>3. l \in Nat
    BY <1>1
  <2>4. q \in 1..l \/ q = l + 1
    BY <2>3
  <2> QED BY <2>1, <2>2, <2>4
<1>9. Attributed(c, d)'
  BY AttributedKept
<1>10. Numbers(h, inbox'[c], d + Len(ledger'[c]), Echoed')
  BY <1>4, <1>6
<1> QED BY <1>4, <1>5, <1>7, <1>8, <1>9, <1>10 DEF ToldRight

\* The commands of c on their way as a sequence s.
SentRight(c, g, s) ==
    /\ Matched(pending[c], Coming(c), s)
    /\ \A k \in 1..Len(inbox[c]) : s[k] = SentAt(c, g, k)
    /\ \A i \in 1..Len(outbox[c]) : s[Len(inbox[c]) + i] = outbox[c][i] /\ outbox[c][i] \in Sends

LEMMA SentParts ==
    ASSUME TypeOK, Calm, NEW c \in Clients, NEW d, NEW g, Accounts(c, d, g)
    PROVE  \E s : SentRight(c, g, s)
<1> DEFINE s == SentBy(c, g)
           l == Len(inbox[c])
           m == Len(outbox[c])
<1>1. Matched(pending[c], Coming(c), s) /\ \A k \in 1..Coming(c) : s[k] = SentAt(c, g, k)
  BY DEF Accounts, SentBy
<1>2. l \in Nat /\ m \in Nat /\ Coming(c) = l + m /\ outbox[c] \in Seq(Sends)
  BY AccountTypes
<1> HIDE DEF s
<1>3. ASSUME NEW i \in 1..m PROVE s[l + i] = outbox[c][i] /\ outbox[c][i] \in Sends
  <2>0. \A k : k <= l <=> k <= Len(inbox[c])
    OBVIOUS
  <2>5. \A k : outbox[c][k - l] = outbox[c][k - Len(inbox[c])]
    OBVIOUS
  <2> HIDE DEF l, m
  <2>1. l + i \in 1..Coming(c) /\ ~(l + i <= l) /\ (l + i) - l = i
    BY <1>2, <1>3
  <2>2. s[l + i] = SentAt(c, g, l + i)
    BY <1>1, <2>1
  <2>3. SentAt(c, g, l + i) = outbox[c][(l + i) - l]
    BY <2>0, <2>1, <2>5 DEF SentAt
  <2>4. outbox[c][i] \in Sends
    BY <1>2, <1>3 DEF m
  <2> QED BY <2>1, <2>2, <2>3, <2>4
<1>4. \A k \in 1..l : s[k] = SentAt(c, g, k)
  <2> HIDE DEF l, m
  <2>1. \A k \in 1..l : k \in 1..Coming(c)
    BY <1>2
  <2> QED BY <1>1, <2>1
<1> QED BY <1>1, <1>3, <1>4 DEF SentRight

\* The parts of the next state's account.
LEMMA AccountsNext ==
    ASSUME NEW c \in Clients, NEW d \in Nat, NEW h,
           Numbers(h, inbox'[c], d + Len(ledger'[c]), Echoed'),
           Attributed(c, d)', EchoesTold(c, h)',
           NEW n \in Nat, Coming(c)' = n,
           \A u : (\A k \in 1..n : u[k] = SentAt(c, h, k)') => Matched(pending'[c], n, u)
    PROVE  Accounts(c, d, h)'
<1> DEFINE t == SentBy(c, h)'
<1>1. \A k \in 1..n : t[k] = SentAt(c, h, k)'
  BY DEF SentBy
<1> HIDE DEF t
<1>2. Matched(pending'[c], n, t)
  BY <1>1
<1>3. Matched(pending'[c], Coming(c)', SentBy(c, h)')
  BY <1>2 DEF t
<1> QED BY <1>3, Zenon DEF Accounts

Lengths(c, l, m) ==
    /\ l = Len(inbox[c]) /\ m = Len(outbox[c]) /\ Coming(c) = l + m
    /\ inbox[c] \in Seq(Messages) /\ outbox[c] \in Seq(Sends) /\ pending[c] \in Seq(Sends)

LEMMA SomeLengths ==
    ASSUME TypeOK, Calm, NEW c \in Clients
    PROVE  \E l, m \in Nat : Lengths(c, l, m)
BY AccountTypes DEF Lengths

\* Page c is told of a line that it has not sent, or of an answer.
ForeignTold(c, msg, e) ==
    /\ ledger'[c] = ledger[c] /\ pending'[c] = pending[c] /\ outbox'[c] = outbox[c]
    /\ inbox'[c] = Append(inbox[c], msg) /\ Counted(msg, e)
    /\ msg.what = "tx" =>
           \E a \in Clients \ {c} : Author(e)'[1] = a /\ msg.text \in TextsSent(a)

LEMMA AccountsForeign ==
    ASSUME TypeOK, Calm, NEW c \in Clients, NEW d \in Nat, NEW g, Accounts(c, d, g),
           AuthorsKept, NEW msg \in Messages, NEW e, ForeignTold(c, msg, e)
    PROVE  \E h : Accounts(c, d, h)'
<1> PICK l \in Nat, m \in Nat : Lengths(c, l, m)
  BY SomeLengths
<1>1. l + m \in Nat /\ (l + m) + 1 \in Nat /\ l + 1 \in Nat /\ l <= l + m /\ (l + 1) + m = (l + m) + 1
  OBVIOUS
<1>2. Len(inbox'[c]) = l + 1 /\ inbox'[c][l + 1] = msg
  BY AppendProperties DEF Lengths, ForeignTold
<1>3. Coming(c)' = (l + m) + 1
  <2>1. Coming(c)' = (l + 1) + m
    BY <1>2 DEF Coming, Lengths, ForeignTold
  <2> QED BY <1>1, <2>1
<1>4. msg.what = "tx" => Author(e)'[1] # c
  BY DEF ForeignTold
<1> PICK h : ToldRight(c, d, g, h, e)
  <2>1. msg.what = "tx" =>
               \E a \in Clients : Author(e)'[1] = a /\ msg.text \in TextsSent(a)
    BY DEF ForeignTold
  <2> QED BY <2>1, AccountsTold DEF ForeignTold
<1> PICK s : SentRight(c, g, s)
  BY SentParts
<1>5. ASSUME NEW k, k = l + 1 PROVE SentAt(c, h, k)' = Foreign
  <2>1. k <= Len(inbox'[c]) /\ inbox'[c][k] = msg /\ h[k] = e
    BY <1>1, <1>2, <1>5 DEF ToldRight, Lengths
  <2>3. msg.what = "tx" => Author(h[k])'[1] # c
    BY <1>4, <2>1
  <2> QED BY <2>1, <2>3 DEF SentAt
<1>6. ASSUME NEW k \in 1..l PROVE SentAt(c, h, k)' = s[k]
  BY <1>6 DEF ToldRight, SentRight, Lengths
<1>7. ASSUME NEW i \in 1..m, NEW k, k = (l + i) + 1 PROVE SentAt(c, h, k)' = s[l + i]
  <2>2. outbox'[c][i] = outbox[c][i] /\ Len(inbox[c]) = l /\ Len(outbox[c]) = m
    BY DEF Lengths, ForeignTold
  <2>3. ~(k <= l + 1) /\ k - (l + 1) = i /\ i \in 1..m
    BY <1>7
  <2>4. SentAt(c, h, k)' = outbox'[c][i]
    BY <1>2, <2>3 DEF SentAt
  <2>5. s[l + i] = outbox[c][i]
    BY <2>2, <2>3 DEF SentRight
  <2> QED BY <2>2, <2>4, <2>5
<1>8. ASSUME NEW u, \A k \in 1..((l + m) + 1) : u[k] = SentAt(c, h, k)'
      PROVE  Matched(pending'[c], (l + m) + 1, u)
  <2>1. ASSUME NEW i \in 1..(l + m) PROVE IF i <= l THEN u[i] = s[i] ELSE u[i + 1] = s[i]
    <3>1. CASE i <= l
      <4>1. i \in 1..l /\ i \in 1..((l + m) + 1)
        BY <2>1, <3>1
      <4>2. u[i] = s[i]
        BY <1>6, <1>8, <4>1
      <4> QED BY <3>1, <4>2
    <3>2. CASE ~(i <= l)
      <4>1. i - l \in 1..m /\ l + (i - l) = i /\ i + 1 \in 1..((l + m) + 1)
        BY <2>1, <3>2
      <4> DEFINE j == i - l
      <4>2. j \in 1..m /\ l + j = i
        BY <4>1
      <4> HIDE DEF j
      <4>3. i + 1 = (l + j) + 1
        BY <4>2
      <4>4. \A k : k = (l + j) + 1 => SentAt(c, h, k)' = s[l + j]
        BY <1>7, <4>2
      <4>5. \A k : k = i + 1 => SentAt(c, h, k)' = s[i]
        BY <4>2, <4>3, <4>4
      <4>6. u[i + 1] = s[i]
        BY <1>8, <4>1, <4>5
      <4> QED BY <3>2, <4>6
    <3> QED BY <3>1, <3>2
  <2>2. u[l + 1].text = "none"
    <3>1. l + 1 \in 1..((l + m) + 1)
      OBVIOUS
    <3>2. u[l + 1] = Foreign
      BY <1>5, <1>8, <3>1
    <3> QED BY <3>2 DEF Foreign
  <2>3. Matched(pending[c], l + m, s) /\ pending[c] \in Seq(Sends) /\ pending'[c] = pending[c]
    BY DEF SentRight, Lengths, ForeignTold
  <2>4. Matched(pending[c], (l + m) + 1, u)
    BY <1>1, <2>1, <2>2, <2>3, MatchedBetween
  <2> QED BY <2>3, <2>4
<1>9. Accounts(c, d, h)'
  BY <1>1, <1>3, <1>8, AccountsNext, Zenon DEF ToldRight
<1> QED BY <1>9

\* Page c is told of its own line, which the bridge has just taken.
OwnTold(c, msg, e) ==
    /\ ledger'[c] = ledger[c] /\ pending'[c] = pending[c]
    /\ outbox[c] # <<>> /\ outbox'[c] = Tail(outbox[c])
    /\ inbox'[c] = Append(inbox[c], msg) /\ Counted(msg, e)
    /\ msg.what = "tx" /\ msg.text = Head(outbox[c]).text /\ msg.text \in TextsSent(c)
    /\ Author(e)' = <<c, Head(outbox[c]).step>>

LEMMA AccountsTaken ==
    ASSUME TypeOK, Calm, NEW c \in Clients, NEW d \in Nat, NEW g, Accounts(c, d, g),
           AuthorsKept, NEW msg \in Messages, NEW e, OwnTold(c, msg, e)
    PROVE  \E h : Accounts(c, d, h)'
<1> PICK l \in Nat, m \in Nat : Lengths(c, l, m)
  BY SomeLengths
<1>1. l + m \in Nat /\ l + 1 \in Nat
  OBVIOUS
<1>2. Len(inbox'[c]) = l + 1 /\ inbox'[c][l + 1] = msg
  BY AppendProperties DEF Lengths, OwnTold
<1>3. /\ m > 0 /\ Len(outbox'[c]) = m - 1 /\ Head(outbox[c]) = outbox[c][1]
      /\ \A i \in 1..(m - 1) : outbox'[c][i] = outbox[c][i + 1]
  <2>1. outbox[c] \in Seq(Sends) /\ outbox[c] # <<>> /\ outbox'[c] = Tail(outbox[c]) /\ m = Len(outbox[c])
    BY DEF Lengths, OwnTold
  <2> QED BY <2>1, HeadTailProperties, EmptySeq
<1>4. Coming(c)' = l + m
  <2>1. Coming(c)' = (l + 1) + (m - 1)
    BY <1>2, <1>3 DEF Coming
  <2>2. (l + 1) + (m - 1) = l + m
    OBVIOUS
  <2> QED BY <2>1, <2>2
<1> PICK h : ToldRight(c, d, g, h, e)
  <2>1. msg.what = "tx" =>
               \E a \in Clients : Author(e)'[1] = a /\ msg.text \in TextsSent(a)
    BY DEF OwnTold
  <2> QED BY <2>1, AccountsTold DEF OwnTold
<1> PICK s : SentRight(c, g, s)
  BY SentParts
<1>5. ASSUME NEW k, k = l + 1 PROVE SentAt(c, h, k)' = s[k]
  <2>1. k <= Len(inbox'[c]) /\ inbox'[c][k] = msg /\ h[k] = e
    BY <1>1, <1>2, <1>5 DEF ToldRight, Lengths
  <2>2. Author(h[k])' = <<c, outbox[c][1].step>> /\ msg.text = outbox[c][1].text /\ msg.what = "tx"
    BY <1>3, <2>1 DEF OwnTold
  <2>3. SentAt(c, h, k)' = [text |-> outbox[c][1].text, step |-> outbox[c][1].step]
    BY <2>1, <2>2 DEF SentAt
  <2>4. s[l + 1] = outbox[c][1] /\ outbox[c][1] \in Sends
    <3>1. Len(inbox[c]) = l /\ 1 \in 1..Len(outbox[c])
      BY <1>3 DEF Lengths
    <3> QED BY <3>1 DEF SentRight
  <2>5. \A x \in Sends : x = [text |-> x.text, step |-> x.step]
    BY DEF Sends
  <2> QED BY <1>5, <2>3, <2>4, <2>5
<1>6. ASSUME NEW k \in 1..l PROVE SentAt(c, h, k)' = s[k]
  BY <1>6 DEF ToldRight, SentRight, Lengths
<1>7. ASSUME NEW k \in 1..(l + m), k > l + 1 PROVE SentAt(c, h, k)' = s[k]
  <2> DEFINE i == k - (l + 1)
  <2>1. i \in 1..(m - 1) /\ ~(k <= l + 1) /\ k - (l + 1) = i /\ i + 1 \in 1..m /\ l + (i + 1) = k
    BY <1>7
  <2> HIDE DEF i
  <2>2. SentAt(c, h, k)' = outbox'[c][i]
    BY <1>2, <2>1 DEF SentAt
  <2>3. outbox'[c][i] = outbox[c][i + 1]
    BY <1>3, <2>1
  <2>4. s[l + (i + 1)] = outbox[c][i + 1]
    <3>1. Len(inbox[c]) = l /\ i + 1 \in 1..Len(outbox[c])
      BY <2>1 DEF Lengths
    <3> QED BY <3>1 DEF SentRight
  <2> QED BY <2>1, <2>2, <2>3, <2>4
<1>8. ASSUME NEW u, \A k \in 1..(l + m) : u[k] = SentAt(c, h, k)'
      PROVE  Matched(pending'[c], l + m, u)
  <2>1. ASSUME NEW k \in 1..(l + m) PROVE u[k] = s[k]
    <3>1. k \in 1..l \/ k = l + 1 \/ k > l + 1
      BY <2>1
    <3> QED BY <1>5, <1>6, <1>7, <1>8, <2>1, <3>1
  <2>2. Matched(pending[c], l + m, s) /\ pending'[c] = pending[c]
    BY DEF SentRight, Lengths, OwnTold
  <2>3. Matched(pending[c], l + m, u)
    BY <1>1, <2>1, <2>2, MatchedSame
  <2> QED BY <2>2, <2>3
<1>9. Accounts(c, d, h)'
  BY <1>1, <1>4, <1>8, AccountsNext, Zenon DEF ToldRight
<1> QED BY <1>9

\* Page c sends a command.
CommandSent(c, x) ==
    /\ inbox'[c] = inbox[c] /\ ledger'[c] = ledger[c] /\ Echoed' = Echoed
    /\ outbox'[c] = Append(outbox[c], x) /\ pending'[c] = Append(pending[c], x)

LEMMA AccountsSent ==
    ASSUME TypeOK, Calm, NEW c \in Clients, NEW d \in Nat, NEW g, Accounts(c, d, g),
           AuthorsKept, NEW x \in Sends, CommandSent(c, x)
    PROVE  Accounts(c, d, g)'
<1> PICK l \in Nat, m \in Nat : Lengths(c, l, m)
  BY SomeLengths
<1>1. l + m \in Nat /\ (l + m) + 1 \in Nat /\ l + (m + 1) = (l + m) + 1
  OBVIOUS
<1>2. /\ Len(outbox'[c]) = m + 1 /\ outbox'[c][m + 1] = x
      /\ \A i \in 1..m : outbox'[c][i] = outbox[c][i]
  BY AppendProperties DEF Lengths, CommandSent
<1>3. Coming(c)' = (l + m) + 1
  <2>1. Coming(c)' = l + (m + 1)
    BY <1>2 DEF Coming, Lengths, CommandSent
  <2> QED BY <1>1, <2>1
<1> PICK s : SentRight(c, g, s)
  BY SentParts
<1>4. Numbers(g, inbox'[c], d + Len(ledger'[c]), Echoed') /\ Attributed(c, d)'
  BY AttributedKept DEF Accounts, CommandSent
<1>5. inbox'[c] = inbox[c] /\ l = Len(inbox[c]) /\ m = Len(outbox[c])
  BY DEF CommandSent, Lengths
<1>6. \A q \in 1..l :
         /\ SentAt(c, g, q)' = SentAt(c, g, q)
         /\ inbox[c][q].what = "tx" =>
               \E a \in Clients : Author(g[q])'[1] = a /\ inbox[c][q].text \in TextsSent(a)
  <2> SUFFICES ASSUME NEW q \in 1..l
               PROVE  /\ SentAt(c, g, q)' = SentAt(c, g, q)
                      /\ inbox[c][q].what = "tx" =>
                            \E a \in Clients : Author(g[q])'[1] = a /\ inbox[c][q].text \in TextsSent(a)
    OBVIOUS
  <2>1. q \in 1..Len(inbox[c]) /\ inbox'[c][q] = inbox[c][q] /\ q \in 1..Len(inbox'[c])
    BY <1>5
  <2> QED BY <2>1, SentKept
<1>7. EchoesTold(c, g)'
  BY <1>5, <1>6 DEF EchoesTold
<1>8. ASSUME NEW k \in 1..l PROVE SentAt(c, g, k)' = s[k]
  BY <1>6, <1>8 DEF SentRight, Lengths
<1>9. ASSUME NEW i \in 1..(m + 1), NEW k, k = l + i PROVE SentAt(c, g, k)' = outbox'[c][i]
  <2>1. ~(k <= l) /\ k - l = i /\ Len(inbox'[c]) = l
    BY <1>5, <1>9
  <2> QED BY <2>1 DEF SentAt
<1>10. ASSUME NEW u, \A k \in 1..((l + m) + 1) : u[k] = SentAt(c, g, k)'
       PROVE  Matched(pending'[c], (l + m) + 1, u)
  <2>1. ASSUME NEW k \in 1..(l + m) PROVE u[k] = s[k]
    <3>0. k \in 1..((l + m) + 1)
      BY <2>1
    <3>1. CASE k <= l
      <4>1. k \in 1..l
        BY <2>1, <3>1
      <4> QED BY <1>8, <1>10, <3>0, <4>1
    <3>2. CASE ~(k <= l)
      <4> DEFINE i == k - l
      <4>1. i \in 1..m /\ l + i = k /\ i \in 1..(m + 1)
        BY <2>1, <3>2
      <4> HIDE DEF i
      <4>2. u[k] = outbox'[c][i]
        BY <1>9, <1>10, <3>0, <4>1
      <4>3. s[k] = outbox[c][i]
        BY <1>5, <4>1 DEF SentRight
      <4> QED BY <1>2, <4>1, <4>2, <4>3
    <3> QED BY <3>1, <3>2
  <2>2. u[(l + m) + 1] = x
    <3>1. (l + m) + 1 \in 1..((l + m) + 1) /\ m + 1 \in 1..(m + 1) /\ (l + m) + 1 = l + (m + 1)
      OBVIOUS
    <3> QED BY <1>2, <1>9, <1>10, <3>1
  <2>3. /\ Matched(pending[c], l + m, s) /\ pending[c] \in Seq(Sends)
        /\ pending'[c] = Append(pending[c], x)
    BY DEF SentRight, Lengths, CommandSent
  <2>4. Matched(Append(pending[c], x), (l + m) + 1, u)
    BY <1>1, <2>1, <2>2, <2>3, MatchedSent
  <2> QED BY <2>3, <2>4
<1> QED BY <1>1, <1>3, <1>4, <1>7, <1>10, AccountsNext, Zenon

-----------------------------------------------------------------------------
(* The answers on their way. *)

LEMMA AnsweredFrame ==
    ASSUME NEW c \in Clients, NEW d \in Nat, Answered(c, d), inbox'[c] = inbox[c],
           UNCHANGED <<wire, running, lastStarted>>
    PROVE  Answered(c, d)'
BY DEF Answered, Handled

LEMMA AnswerTypes ==
    ASSUME TypeOK, NEW c \in Clients
    PROVE  /\ inbox[c] \in Seq(Messages) /\ wire \in Seq(Printed)
           /\ Len(inbox[c]) \in Nat /\ Len(wire) \in Nat
           /\ \A q \in 1..Len(inbox[c]) : inbox[c][q].id \in Nat
           /\ \A q \in 1..Len(wire) : wire[q].id \in Nat
<1>1. inbox[c] \in Seq(Messages) /\ wire \in Seq(Printed)
  BY DEF TypeOK, BridgeTypeOK, Printed
<1>2. /\ \A msg \in Messages : msg.id \in Nat
      /\ \A ok \in Printed : ok.id \in Nat
  BY DEF Messages, Printed
<1> QED BY <1>1, <1>2

\* A line is carried out.
LEMMA AnsweredCarried ==
    ASSUME TypeOK, QueueOrder, Calm, NEW c \in Clients, NEW d \in Nat, Answered(c, d),
           MegaCarriesOut
    PROVE  Answered(c, d)'
<1>1. /\ \A n \in Nat : Handled(n) => Handled(n)'
      /\ inbox' = inbox
      /\ \/ wire' = wire
         \/ \E ok \in Printed :
               /\ wire' = Append(wire, ok)
               /\ \A n \in Nat : Handled(n) => n < ok.id
  BY CarriedOut
<1>2. /\ inbox[c] \in Seq(Messages) /\ wire \in Seq(Printed)
      /\ Len(inbox[c]) \in Nat /\ Len(wire) \in Nat
      /\ \A q \in 1..Len(inbox[c]) : inbox[c][q].id \in Nat
  BY AnswerTypes
<1>3. /\ Handled(d) /\ \A r \in 1..Len(wire) : d < wire[r].id
      /\ \A q \in 1..Len(inbox[c]) : inbox[c][q].what = "ok" =>
            /\ d < inbox[c][q].id /\ Handled(inbox[c][q].id)
            /\ \A r \in 1..Len(inbox[c]) :
                  q < r /\ inbox[c][r].what = "ok" => inbox[c][q].id < inbox[c][r].id
            /\ \A r \in 1..Len(wire) : inbox[c][q].id < wire[r].id
  BY DEF Answered
<1>4. ASSUME NEW n \in Nat, Handled(n), \A r \in 1..Len(wire) : n < wire[r].id
      PROVE  \A r \in 1..Len(wire') : n < wire'[r].id
  <2>1. CASE wire' = wire
    BY <1>4, <2>1
  <2>2. ASSUME NEW ok \in Printed, wire' = Append(wire, ok), \A k \in Nat : Handled(k) => k < ok.id
        PROVE  \A r \in 1..Len(wire') : n < wire'[r].id
    <3>1. /\ Len(wire') = Len(wire) + 1 /\ wire'[Len(wire) + 1] = ok
          /\ \A r \in 1..Len(wire) : wire'[r] = wire[r]
      BY <1>2, <2>2, AppendProperties
    <3>2. \A r \in 1..Len(wire') : r \in 1..Len(wire) \/ r = Len(wire) + 1
      BY <1>2, <3>1
    <3>3. n < ok.id
      BY <1>4, <2>2
    <3> QED BY <1>4, <3>1, <3>2, <3>3
  <2> QED BY <1>1, <2>1, <2>2
<1>5. Handled(d)' /\ \A r \in 1..Len(wire') : d < wire'[r].id
  BY <1>1, <1>3, <1>4
<1>6. ASSUME NEW q \in 1..Len(inbox[c]), inbox[c][q].what = "ok"
      PROVE  /\ \E n \in Nat : n = inbox[c][q].id /\ Handled(n)'
             /\ \A r \in 1..Len(wire') : inbox[c][q].id < wire'[r].id
  BY <1>1, <1>2, <1>3, <1>4, <1>6
<1>7. \A q \in 1..Len(inbox'[c]) : inbox'[c][q].what = "ok" => Handled(inbox[c][q].id)'
  BY <1>1, <1>6 DEF Handled
<1> QED BY <1>1, <1>3, <1>5, <1>6, <1>7 DEF Answered

\* An echo is told.
LEMMA AnsweredTold ==
    ASSUME TypeOK, NEW c \in Clients, NEW d \in Nat, Answered(c, d),
           NEW msg \in Messages, msg.what # "ok", inbox'[c] = Append(inbox[c], msg),
           UNCHANGED <<wire, running, lastStarted>>
    PROVE  Answered(c, d)'
<1>1. inbox[c] \in Seq(Messages) /\ Len(inbox[c]) \in Nat
  BY AnswerTypes
<1>2. /\ Len(inbox'[c]) = Len(inbox[c]) + 1 /\ inbox'[c][Len(inbox[c]) + 1] = msg
      /\ \A q \in 1..Len(inbox[c]) : inbox'[c][q] = inbox[c][q]
  BY <1>1, AppendProperties
<1>3. \A q \in 1..Len(inbox'[c]) : inbox'[c][q].what = "ok" => q \in 1..Len(inbox[c])
  <2>1. \A q \in 1..Len(inbox'[c]) : q \in 1..Len(inbox[c]) \/ q = Len(inbox[c]) + 1
    BY <1>1, <1>2
  <2> QED BY <1>2, <2>1
<1>4. \A q \in 1..Len(inbox'[c]) : inbox'[c][q].what = "ok" =>
          q \in 1..Len(inbox[c]) /\ inbox'[c][q] = inbox[c][q]
  BY <1>2, <1>3
<1> QED BY <1>4 DEF Answered, Handled

\* An answer is read and told.
LEMMA AnsweredRead ==
    ASSUME TypeOK, Calm, NEW c \in Clients, NEW d \in Nat, Answered(c, d),
           wire # <<>>, wire' = Tail(wire), NEW msg \in Messages, msg.id = wire[1].id,
           inbox'[c] = Append(inbox[c], msg), UNCHANGED <<running, lastStarted>>
    PROVE  Answered(c, d)'
<1>1. /\ inbox[c] \in Seq(Messages) /\ wire \in Seq(Printed)
      /\ Len(inbox[c]) \in Nat /\ Len(wire) \in Nat
      /\ \A q \in 1..Len(wire) : wire[q].id \in Nat
  BY AnswerTypes
<1>2. /\ Len(inbox'[c]) = Len(inbox[c]) + 1 /\ inbox'[c][Len(inbox[c]) + 1] = msg
      /\ \A q \in 1..Len(inbox[c]) : inbox'[c][q] = inbox[c][q]
  BY <1>1, AppendProperties
<1>3. /\ 1 \in 1..Len(wire)
      /\ \A q \in 1..Len(wire') : wire'[q] = wire[q + 1] /\ q + 1 \in 1..Len(wire) /\ 1 < q + 1
  <2>1. Len(wire') = Len(wire) - 1 /\ Len(wire) # 0 /\ \A q \in 1..Len(wire') : wire'[q] = wire[q + 1]
    BY <1>1, HeadTailProperties, EmptySeq
  <2> QED BY <1>1, <2>1
<1>4. /\ Handled(d) /\ \A r \in 1..Len(wire) : d < wire[r].id
      /\ \A q \in 1..Len(inbox[c]) : inbox[c][q].what = "ok" =>
            /\ d < inbox[c][q].id /\ Handled(inbox[c][q].id)
            /\ \A r \in 1..Len(inbox[c]) :
                  q < r /\ inbox[c][r].what = "ok" => inbox[c][q].id < inbox[c][r].id
            /\ \A r \in 1..Len(wire) : inbox[c][q].id < wire[r].id
  BY DEF Answered
<1>5. /\ \A q \in 1..Len(wire) : Handled(wire[q].id)
      /\ \A q, r \in 1..Len(wire) : q < r => wire[q].id < wire[r].id
  BY DEF Calm, AnswersInOrder
<1>6. \A q \in 1..Len(inbox'[c]) : q \in 1..Len(inbox[c]) \/ (q = Len(inbox[c]) + 1 /\ inbox'[c][q] = msg)
  BY <1>1, <1>2
<1>7. \A r \in 1..Len(wire') : d < wire'[r].id /\ msg.id < wire'[r].id
  BY <1>3, <1>4, <1>5
<1>8. Handled(msg.id) /\ d < msg.id
  BY <1>3, <1>4, <1>5
<1>9. ASSUME NEW q \in 1..Len(inbox'[c]), inbox'[c][q].what = "ok"
      PROVE  /\ d < inbox'[c][q].id /\ Handled(inbox'[c][q].id)
             /\ \A r \in 1..Len(wire') : inbox'[c][q].id < wire'[r].id
  <2>1. CASE q \in 1..Len(inbox[c])
    <3>1. inbox'[c][q] = inbox[c][q]
      BY <1>2, <2>1
    <3> QED BY <1>3, <1>4, <1>9, <2>1, <3>1
  <2>2. CASE inbox'[c][q] = msg
    BY <1>7, <1>8, <2>2
  <2> QED BY <1>6, <2>1, <2>2
<1>10. ASSUME NEW q \in 1..Len(inbox'[c]), inbox'[c][q].what = "ok",
              NEW r \in 1..Len(inbox'[c]), inbox'[c][r].what = "ok", q < r
       PROVE  inbox'[c][q].id < inbox'[c][r].id
  <2>0. q \in 1..Len(inbox[c])
    BY <1>1, <1>2, <1>10
  <2>1. inbox'[c][q] = inbox[c][q]
    BY <1>2, <2>0
  <2>2. CASE r \in 1..Len(inbox[c])
    <3>1. inbox'[c][r] = inbox[c][r]
      BY <1>2, <2>2
    <3> QED BY <1>4, <1>10, <2>0, <2>1, <2>2, <3>1
  <2>3. CASE inbox'[c][r] = msg
    BY <1>3, <1>4, <1>10, <2>0, <2>1, <2>3
  <2> QED BY <1>6, <2>2, <2>3
<1>11. \A q \in 1..Len(inbox'[c]) : inbox'[c][q].what = "ok" => Handled(inbox[c][q].id)'
  BY <1>9 DEF Handled
<1>12. Handled(d)'
  BY <1>4 DEF Handled
<1> QED BY <1>7, <1>9, <1>10, <1>11, <1>12 DEF Answered

\* A message is handled, and with an answer an entry of the ledger.
LEMMA AnsweredHandled ==
    ASSUME TypeOK, NEW c \in Clients, NEW d \in Nat, Answered(c, d),
           inbox[c] # <<>>, inbox'[c] = Tail(inbox[c]), UNCHANGED <<wire, running, lastStarted>>,
           NEW e \in Nat, e = d \/ (e = d + 1 /\ inbox[c][1].what = "ok")
    PROVE  Answered(c, e)'
<1>1. /\ inbox[c] \in Seq(Messages) /\ wire \in Seq(Printed) /\ lastStarted \in Nat
      /\ Len(inbox[c]) \in Nat /\ Len(wire) \in Nat
      /\ \A q \in 1..Len(wire) : wire[q].id \in Nat
      /\ \A q \in 1..Len(inbox[c]) : inbox[c][q].id \in Nat
  BY AnswerTypes DEF TypeOK, BridgeTypeOK, QueueTypeOK
<1>2. /\ 1 \in 1..Len(inbox[c])
      /\ \A q \in 1..Len(inbox'[c]) :
            inbox'[c][q] = inbox[c][q + 1] /\ q + 1 \in 1..Len(inbox[c]) /\ 1 < q + 1
  <2>1. /\ Len(inbox'[c]) = Len(inbox[c]) - 1 /\ Len(inbox[c]) # 0
        /\ \A q \in 1..Len(inbox'[c]) : inbox'[c][q] = inbox[c][q + 1]
    BY <1>1, HeadTailProperties, EmptySeq
  <2> QED BY <1>1, <2>1
<1>4. /\ Handled(d) /\ \A r \in 1..Len(wire) : d < wire[r].id
      /\ \A q \in 1..Len(inbox[c]) : inbox[c][q].what = "ok" =>
            /\ d < inbox[c][q].id /\ Handled(inbox[c][q].id)
            /\ \A r \in 1..Len(inbox[c]) :
                  q < r /\ inbox[c][r].what = "ok" => inbox[c][q].id < inbox[c][r].id
            /\ \A r \in 1..Len(wire) : inbox[c][q].id < wire[r].id
  BY DEF Answered
<1>5. Handled(e) /\ \A r \in 1..Len(wire) : e < wire[r].id
  <2>1. CASE e = d
    BY <1>4, <2>1
  <2>2. CASE e = d + 1 /\ inbox[c][1].what = "ok"
    <3>1. /\ d < inbox[c][1].id /\ Handled(inbox[c][1].id) /\ inbox[c][1].id \in Nat
          /\ \A r \in 1..Len(wire) : inbox[c][1].id < wire[r].id
      BY <1>1, <1>2, <1>4, <2>2
    <3>2. e <= inbox[c][1].id
      BY <2>2, <3>1
    <3>3. Handled(e)
      BY <1>1, <3>1, <3>2 DEF Handled
    <3> QED BY <1>1, <3>1, <3>2, <3>3
  <2> QED BY <2>1, <2>2
<1>6. ASSUME NEW q \in 1..Len(inbox'[c]), inbox'[c][q].what = "ok"
      PROVE  /\ e < inbox'[c][q].id /\ Handled(inbox'[c][q].id)
             /\ \A r \in 1..Len(wire) : inbox'[c][q].id < wire[r].id
  <2>1. inbox'[c][q] = inbox[c][q + 1] /\ q + 1 \in 1..Len(inbox[c]) /\ 1 < q + 1
    BY <1>2
  <2>2. e < inbox[c][q + 1].id
    <3>1. CASE e = d
      BY <1>4, <1>6, <2>1, <3>1
    <3>2. CASE e = d + 1 /\ inbox[c][1].what = "ok"
      <4>1. d < inbox[c][1].id /\ inbox[c][1].id < inbox[c][q + 1].id
        BY <1>2, <1>4, <1>6, <2>1, <3>2
      <4> QED BY <1>1, <1>2, <2>1, <3>2, <4>1
    <3> QED BY <3>1, <3>2
  <2> QED BY <1>4, <1>6, <2>1, <2>2
<1>7. ASSUME NEW q \in 1..Len(inbox'[c]), inbox'[c][q].what = "ok",
             NEW r \in 1..Len(inbox'[c]), inbox'[c][r].what = "ok", q < r
      PROVE  inbox'[c][q].id < inbox'[c][r].id
  <2>1. /\ inbox'[c][q] = inbox[c][q + 1] /\ q + 1 \in 1..Len(inbox[c])
        /\ inbox'[c][r] = inbox[c][r + 1] /\ r + 1 \in 1..Len(inbox[c])
        /\ q + 1 < r + 1
    BY <1>2, <1>7
  <2> QED BY <1>4, <1>7, <2>1
<1>8. \A q \in 1..Len(inbox'[c]) : inbox'[c][q].what = "ok" => Handled(inbox[c][q].id)'
  BY <1>6 DEF Handled
<1>9. Handled(e)'
  BY <1>5 DEF Handled
<1> QED BY <1>5, <1>6, <1>7, <1>8, <1>9 DEF Answered

-----------------------------------------------------------------------------
(* A page handles a message. *)

\* No page sends a text of another's, and M410 is sent by a stop only.
DistinctTexts ==
    \A c \in Clients :
        "M410" \notin TextsOf[c] /\ \A d \in Clients \ {c} : TextsOf[c] \cap TextsOf[d] = {}

OwnEcho(c) ==
    /\ inbox[c][1].what = "tx" /\ pending[c] # <<>> /\ pending[c][1].text = inbox[c][1].text
    /\ pending'[c] = Tail(pending[c])
    /\ ledger'[c] = Append(ledger[c], pending[c][1].step)

ForeignEcho(c) ==
    /\ Echoing(inbox[c][1])
    /\ inbox[c][1].what = "tx" /\ pending[c] # <<>> => pending[c][1].text # inbox[c][1].text
    /\ pending'[c] = pending[c] /\ ledger'[c] = Append(ledger[c], 0)

Answer(c) ==
    /\ inbox[c][1].what = "ok" /\ pending'[c] = pending[c]
    /\ IF ledger[c] = <<>> THEN ledger'[c] = ledger[c] ELSE ledger'[c] = Tail(ledger[c])

LEMMA Handlings ==
    ASSUME TypeOK, Calm, NEW c \in Clients, HandleMessage(c), Len(ledger[c]) < LedgerMax
    PROVE  OwnEcho(c) \/ ForeignEcho(c) \/ Answer(c)
<1>1. /\ LedgerTypes /\ inbox[c] \in Seq(Messages) /\ pending[c] \in Seq(Sends)
      /\ inbox[c] # <<>>
  BY TypeParts, DrainTypes DEF HandleMessage
<1>2. Head(inbox[c]) = inbox[c][1] /\ 1 \in 1..Len(inbox[c])
  BY <1>1, HeadTailProperties, EmptySeq
<1>3. pending[c] # <<>> => Head(pending[c]) = pending[c][1]
  BY <1>1
<1>4. inbox[c][1].what \in {"tx", "button", "ok"}
  BY <1>2 DEF Calm
<1> DEFINE msg == inbox[c][1]
<1>5. CASE OkLedgerEcho(c, msg)
  <2>1. msg.what \in {"tx", "button"}
    BY <1>5 DEF OkLedgerEcho
  <2>2. \A step : OkLedgerAdd(c, step) => ledger'[c] = Append(ledger[c], step)
    BY <1>1 DEF OkLedgerAdd, LedgerTypes
  <2>3. CASE Own(c, msg)
    <3>1. OkLedgerAdd(c, Head(pending[c]).step) /\ pending' = [pending EXCEPT ![c] = Tail(@)]
      BY <1>5, <2>3 DEF OkLedgerEcho
    <3>2. ledger'[c] = Append(ledger[c], pending[c][1].step) /\ pending'[c] = Tail(pending[c])
      BY <1>1, <1>3, <2>2, <2>3, <3>1 DEF Own, LedgerTypes
    <3> QED BY <1>3, <2>3, <3>2 DEF OwnEcho, Own
  <2>4. CASE ~Own(c, msg)
    <3>1. ledger'[c] = Append(ledger[c], 0) /\ pending' = pending
      BY <1>5, <2>2, <2>4 DEF OkLedgerEcho
    <3>2. msg.what = "tx" /\ pending[c] # <<>> => pending[c][1].text # msg.text
      BY <1>3, <2>4 DEF Own
    <3> QED BY <2>1, <3>1, <3>2 DEF ForeignEcho, Echoing
  <2> QED BY <2>3, <2>4
<1>6. CASE OkLedgerOk(c, msg)
  <2>1. msg.what = "ok" /\ pending' = pending
    BY <1>6 DEF OkLedgerOk
  <2>2. IF ledger[c] = <<>> THEN ledger'[c] = ledger[c] ELSE ledger'[c] = Tail(ledger[c])
    BY <1>1, <1>6 DEF OkLedgerOk, LedgerTypes
  <2> QED BY <2>1, <2>2 DEF Answer
<1>7. ~Unanswered(c, msg)
  BY <1>4 DEF Unanswered
<1> QED BY <1>2, <1>5, <1>6, <1>7 DEF HandleMessage

\* Who sent the line of the oldest echo.
LEMMA HeadEcho ==
    ASSUME TypeOK, Calm, NEW c \in Clients, NEW d \in Nat, NEW g, Accounts(c, d, g),
           inbox[c] # <<>>
    PROVE  /\ Echoing(inbox[c][1]) => g[1] \in 1..Echoed /\ Author(g[1]) \in Sources \X Nat
           /\ inbox[c][1].what = "tx" =>
                 \E a \in Clients : Author(g[1])[1] = a /\ inbox[c][1].text \in TextsSent(a)
           /\ SentAt(c, g, 1) = IF inbox[c][1].what = "tx" /\ Author(g[1])[1] = c
                                THEN [text |-> inbox[c][1].text, step |-> Author(g[1])[2]]
                                ELSE Foreign
<1>1. /\ inbox[c] \in Seq(Messages) /\ Len(inbox[c]) \in Nat /\ Len(ledger[c]) \in Nat /\ Echoed \in Nat
      /\ Numbers(g, inbox[c], d + Len(ledger[c]), Echoed) /\ EchoesTold(c, g)
  BY AccountTypes, Zenon DEF Accounts
<1>2. 1 \in 1..Len(inbox[c]) /\ 1 <= Len(inbox[c])
  BY <1>1, EmptySeq
<1>3. Echoing(inbox[c][1]) => g[1] \in 1..Echoed
  <2> DEFINE a == d + Len(ledger[c])
  <2>1. a \in Nat /\ Numbers(g, inbox[c], a, Echoed)
    BY <1>1
  <2> HIDE DEF a
  <2> QED BY <1>1, <1>2, <2>1, NumbersRange
<1>4. inbox[c][1].what = "tx" =>
          \E a \in Clients : Author(g[1])[1] = a /\ inbox[c][1].text \in TextsSent(a)
  BY <1>2 DEF Accounts, EchoesTold
<1> QED BY <1>2, <1>3, <1>4, AuthorTypes DEF SentAt

LEMMA PendingHead ==
    ASSUME TypeOK, SendsTyped, NEW c \in Clients, pending[c] # <<>>
    PROVE  /\ pending[c][1] \in Commands(c) /\ pending[c][1] \in Sends
           /\ pending[c][1].text # "none" /\ pending[c][1].text \in TextsSent(c)
           /\ pending[c][1].step \in Nat
<1>1. pending[c] \in Seq(Commands(c))
  BY DEF SendsTyped
<1>2. pending[c][1] \in Commands(c)
  <2> DEFINE C == Commands(c)
  <2>1. pending[c] \in Seq(C)
    BY <1>1
  <2> HIDE DEF C
  <2>2. Head(pending[c]) = pending[c][1] /\ Head(pending[c]) \in C
    BY <2>1, HeadTailProperties
  <2> QED BY <2>2 DEF C
<1>3. pending[c][1] \in Sends /\ pending[c][1].text \in Kinds /\ pending[c][1].step \in Nat
  BY <1>2 DEF Commands, Sends
<1> QED BY <1>2, <1>3, BridgeAssumption DEF Commands, TextsSent

\* The oldest pending command is the first on its way, if that is no M410.
LEMMA HeadPending ==
    ASSUME TypeOK, Calm, NEW c \in Clients, NEW d \in Nat, NEW g, Accounts(c, d, g),
           inbox[c] # <<>>, SentAt(c, g, 1).text \notin {"none", "M410"}
    PROVE  pending[c] # <<>> /\ pending[c][1] = SentAt(c, g, 1)
<1> PICK l \in Nat, m \in Nat : Lengths(c, l, m)
  BY SomeLengths
<1>1. pending[c] \in Seq(Sends) /\ Coming(c) = l + m
  BY DEF Lengths
<1>2. l # 0
  BY EmptySeq DEF Lengths
<1> DEFINE n == (l + m) - 1
           s == SentBy(c, g)
<1>3. n \in Nat /\ n + 1 = Coming(c) /\ 1 \in 1..Coming(c)
  <2>1. n \in Nat /\ n + 1 = l + m /\ 1 \in 1..(l + m)
    BY <1>2
  <2> QED BY <1>1, <2>1
<1>4. Matched(pending[c], n + 1, s)
  <2>1. Matched(pending[c], Coming(c), s)
    BY DEF Accounts
  <2> HIDE DEF n
  <2> QED BY <1>3, <2>1
<1>5. s[1] = SentAt(c, g, 1)
  <2> HIDE DEF n
  <2> QED BY <1>3 DEF SentBy
<1> HIDE DEF n, s
<1> QED BY <1>1, <1>3, <1>4, <1>5, MatchedHead

\* An echo that is taken for the oldest pending command's is that command's own,
\* or both are an M410, for which nobody waits.
LEMMA HeadOwn ==
    ASSUME TypeOK, Calm, SendsTyped, DistinctTexts,
           NEW c \in Clients, NEW d \in Nat, NEW g, Accounts(c, d, g),
           inbox[c] # <<>>, OwnEcho(c)
    PROVE  /\ \/ pending[c][1] = SentAt(c, g, 1)
              \/ pending[c][1].text = "M410" /\ SentAt(c, g, 1).text \in {"none", "M410"}
           /\ pending[c][1].step # 0 => Author(g[1]) = <<c, pending[c][1].step>>
<1>1. /\ inbox[c][1].what = "tx" /\ pending[c] # <<>> /\ pending[c][1].text = inbox[c][1].text
      /\ Echoing(inbox[c][1])
  BY DEF OwnEcho, Echoing
<1>2. Author(g[1]) \in Sources \X Nat
  BY <1>1, HeadEcho
<1>3. PICK a \in Clients : Author(g[1])[1] = a /\ inbox[c][1].text \in TextsSent(a)
  BY <1>1, HeadEcho
<1>4. SentAt(c, g, 1) = IF a = c THEN [text |-> inbox[c][1].text, step |-> Author(g[1])[2]] ELSE Foreign
  BY <1>1, <1>3, HeadEcho
<1>5. /\ pending[c][1] \in Commands(c) /\ pending[c][1].text \in TextsSent(c)
      /\ pending[c][1].text # "none"
  BY <1>1, PendingHead
<1>6. CASE inbox[c][1].text = "M410"
  <2>1. pending[c][1].step = 0
    BY <1>1, <1>5, <1>6 DEF Commands, DistinctTexts
  <2>2. SentAt(c, g, 1).text \in {"none", "M410"}
    BY <1>4, <1>6 DEF Foreign
  <2> QED BY <1>1, <1>6, <2>1, <2>2
<1>7. CASE inbox[c][1].text # "M410"
  <2>1. a = c
    BY <1>1, <1>3, <1>5, <1>7 DEF TextsSent, DistinctTexts
  <2>2. SentAt(c, g, 1) = [text |-> inbox[c][1].text, step |-> Author(g[1])[2]]
    BY <1>4, <2>1
  <2>3. SentAt(c, g, 1).text \notin {"none", "M410"}
    BY <1>1, <1>5, <1>7, <2>2
  <2>4. pending[c][1] = SentAt(c, g, 1)
    BY <2>3, HeadPending
  <2>5. Author(g[1]) = <<Author(g[1])[1], Author(g[1])[2]>>
    BY <1>2
  <2>6. Author(g[1]) = <<c, pending[c][1].step>>
    BY <1>3, <2>1, <2>2, <2>4, <2>5
  <2> QED BY <2>4, <2>6
<1> QED BY <1>6, <1>7

\* What is not taken for the oldest pending command's is not, and an M410's at most.
LEMMA HeadForeign ==
    ASSUME TypeOK, Calm, SendsTyped, DistinctTexts,
           NEW c \in Clients, NEW d \in Nat, NEW g, Accounts(c, d, g),
           inbox[c] # <<>>, ForeignEcho(c) \/ Answer(c)
    PROVE  /\ SentAt(c, g, 1).text \in {"none", "M410"}
           /\ pending[c] = <<>> \/ pending[c][1] # SentAt(c, g, 1)
<1>1. pending[c] # <<>> => pending[c][1].text # "none"
  BY PendingHead
<1>2. CASE inbox[c][1].what # "tx"
  <2>1. SentAt(c, g, 1) = Foreign
    BY <1>2, HeadEcho
  <2> QED BY <1>1, <2>1 DEF Foreign
<1>3. CASE inbox[c][1].what = "tx"
  <2>1. pending[c] # <<>> => pending[c][1].text # inbox[c][1].text
    BY <1>3 DEF ForeignEcho, Answer
  <2>2. PICK a \in Clients : Author(g[1])[1] = a /\ inbox[c][1].text \in TextsSent(a)
    BY <1>3, HeadEcho
  <2>3. SentAt(c, g, 1) = IF a = c THEN [text |-> inbox[c][1].text, step |-> Author(g[1])[2]] ELSE Foreign
    BY <1>3, <2>2, HeadEcho
  <2>4. SentAt(c, g, 1).text = "none" \/ SentAt(c, g, 1).text = inbox[c][1].text
    BY <2>3 DEF Foreign
  <2>5. pending[c] = <<>> \/ pending[c][1] # SentAt(c, g, 1)
    BY <1>1, <2>1, <2>4
  <2>6. SentAt(c, g, 1).text \in {"none", "M410"}
    BY <2>5, HeadPending
  <2> QED BY <2>5, <2>6
<1> QED BY <1>2, <1>3

\* Page c has handled its oldest message.
Takes(c) ==
    /\ inbox[c] # <<>> /\ inbox'[c] = Tail(inbox[c]) /\ outbox'[c] = outbox[c]
    /\ Echoed' = Echoed
    /\ OwnEcho(c) \/ ForeignEcho(c) \/ Answer(c)

LEMMA LedgerAdds ==
    ASSUME TypeOK, Calm, NEW c \in Clients, NEW d \in Nat, NEW g, Accounts(c, d, g),
           AuthorsKept, NEW step \in Nat, ledger'[c] = Append(ledger[c], step),
           NEW n \in 1..Echoed, n = (d + Len(ledger[c])) + 1,
           step # 0 => Author(n) = <<c, step>>
    PROVE  d + Len(ledger'[c]) = n /\ Attributed(c, d)'
<1> PICK x \in Nat : x = Len(ledger[c]) /\ ledger[c] \in Seq(Nat)
  BY AccountTypes
<1>1. Len(ledger'[c]) = x + 1 /\ ledger'[c][x + 1] = step /\ \A p \in 1..x : ledger'[c][p] = ledger[c][p]
  BY AppendProperties
<1>2. Echoed \in Nat
  BY AccountTypes
<1>3. n = (d + x) + 1 /\ n <= Echoed /\ d + (x + 1) = n
  BY <1>2
<1>4. \A k \in 1..Echoed : Author(k)' = Author(k)
  BY DEF AuthorsKept
<1>5. \A p \in 1..x : ledger[c][p] # 0 => Author(d + p) = <<c, ledger[c][p]>>
  BY DEF Accounts, Attributed
<1>6. ASSUME NEW p \in 1..(x + 1), ledger'[c][p] # 0
      PROVE  Author(d + p)' = <<c, ledger'[c][p]>>
  <2> SUFFICES ASSUME NEW k, k = d + p PROVE Author(k)' = <<c, ledger'[c][p]>>
    OBVIOUS
  <2>1. k \in 1..Echoed
    BY <1>2, <1>3
  <2>2. Author(k)' = Author(k)
    BY <1>4, <2>1
  <2>3. CASE p \in 1..x
    BY <1>1, <1>5, <1>6, <2>2, <2>3
  <2>4. CASE p = x + 1
    <3>1. k = n /\ ledger'[c][p] = step
      BY <1>1, <1>3, <2>4
    <3> QED BY <1>6, <2>2, <3>1
  <2>5. p \in 1..x \/ p = x + 1
    OBVIOUS
  <2> QED BY <2>3, <2>4, <2>5
<1> QED BY <1>1, <1>3, <1>6 DEF Attributed

LEMMA OneFurther == \A d, x \in Nat : (d + 1) + (x - 1) = d + x
OBVIOUS

LEMMA LedgerTakes ==
    ASSUME TypeOK, Calm, NEW c \in Clients, NEW d \in Nat, NEW g, Accounts(c, d, g),
           AuthorsKept, ledger[c] # <<>>, ledger'[c] = Tail(ledger[c])
    PROVE  /\ (d + 1) + Len(ledger'[c]) = d + Len(ledger[c])
           /\ \A e : e = d + 1 => Attributed(c, e)'
<1> PICK x \in Nat : x = Len(ledger[c]) /\ ledger[c] \in Seq(Nat)
  BY AccountTypes
<1>1. x # 0 /\ Len(ledger'[c]) = x - 1 /\ \A p \in 1..(x - 1) : ledger'[c][p] = ledger[c][p + 1]
  BY HeadTailProperties, EmptySeq
<1>2. Echoed \in Nat /\ d + x <= Echoed
  <2>1. /\ inbox[c] \in Seq(Messages) /\ Echoed \in Nat /\ d + x \in Nat
        /\ Numbers(g, inbox[c], d + x, Echoed)
    <3>1. inbox[c] \in Seq(Messages) /\ Echoed \in Nat
      BY AccountTypes
    <3>2. Numbers(g, inbox[c], d + Len(ledger[c]), Echoed)
      BY DEF Accounts
    <3> QED BY <3>1, <3>2
  <2> DEFINE a == d + x
  <2>2. a \in Nat /\ Numbers(g, inbox[c], a, Echoed)
    BY <2>1
  <2> HIDE DEF a
  <2>3. a <= Echoed
    BY <2>1, <2>2, NumbersRange
  <2> QED BY <2>1, <2>3 DEF a
<1>3. \A k \in 1..Echoed : Author(k)' = Author(k)
  BY DEF AuthorsKept
<1>4. \A p \in 1..x : ledger[c][p] # 0 => Author(d + p) = <<c, ledger[c][p]>>
  BY DEF Accounts, Attributed
<1>5. ASSUME NEW e, e = d + 1, NEW p \in 1..(x - 1), ledger'[c][p] # 0
      PROVE  Author(e + p)' = <<c, ledger'[c][p]>>
  <2> SUFFICES ASSUME NEW k, k = e + p PROVE Author(k)' = <<c, ledger'[c][p]>>
    OBVIOUS
  <2>1. k \in 1..Echoed /\ p + 1 \in 1..x /\ k = d + (p + 1)
    BY <1>1, <1>2, <1>5
  <2>2. Author(k)' = Author(k) /\ ledger'[c][p] = ledger[c][p + 1]
    BY <1>1, <1>3, <2>1
  <2>3. Author(d + (p + 1)) = <<c, ledger[c][p + 1]>>
    BY <1>4, <1>5, <2>1, <2>2
  <2> QED BY <2>1, <2>2, <2>3
<1>6. \A e : e = d + 1 => Attributed(c, e)'
  BY <1>1, <1>5 DEF Attributed
<1>7. (d + 1) + (x - 1) = d + x
  BY OneFurther, Zenon
<1>8. (d + 1) + Len(ledger'[c]) = d + Len(ledger[c])
  BY <1>1, <1>7
<1> QED BY <1>6, <1>8

\* The ledger after a message: what it stands for goes on with the next echo.
LEMMA LedgerHandled ==
    ASSUME TypeOK, Calm, SendsTyped, DistinctTexts,
           NEW c \in Clients, NEW d \in Nat, NEW g, Accounts(c, d, g), AuthorsKept, Takes(c)
    PROVE  \E e \in Nat :
              /\ e = d \/ (e = d + 1 /\ inbox[c][1].what = "ok")
              /\ e + Len(ledger'[c]) = g[1] /\ Attributed(c, e)'
<1> PICK x \in Nat : x = Len(ledger[c]) /\ ledger[c] \in Seq(Nat)
  BY AccountTypes
<1> DEFINE a == d + x
<1>1. inbox[c] \in Seq(Messages) /\ inbox[c] # <<>> /\ Echoed \in Nat /\ a \in Nat
  <2>1. a \in Nat
    OBVIOUS
  <2> HIDE DEF a
  <2> QED BY <2>1, AccountTypes DEF Takes
<1>2. Numbers(g, inbox[c], a, Echoed)
  BY DEF Accounts
<1>3. a = d + x
  OBVIOUS
<1> HIDE DEF a
<1>4. g[1] = a + (IF Echoing(inbox[c][1]) THEN 1 ELSE 0) /\ g[1] \in Nat
  BY <1>1, <1>2, NumbersTail
<1>5. ASSUME NEW step \in Nat, Echoing(inbox[c][1]), ledger'[c] = Append(ledger[c], step),
             step # 0 => Author(g[1]) = <<c, step>>
      PROVE  d + Len(ledger'[c]) = g[1] /\ Attributed(c, d)'
  <2> DEFINE n == g[1]
  <2>1. n \in 1..Echoed
    BY <1>1, <1>5, HeadEcho
  <2>2. n = (d + Len(ledger[c])) + 1
    BY <1>3, <1>4, <1>5
  <2>3. step # 0 => Author(n) = <<c, step>>
    BY <1>5
  <2> HIDE DEF n
  <2>4. d + Len(ledger'[c]) = n /\ Attributed(c, d)'
    BY <1>5, <2>1, <2>2, <2>3, LedgerAdds
  <2> QED BY <2>4 DEF n
<1>6. CASE OwnEcho(c)
  <2>1. pending[c][1].step \in Nat /\ Echoing(inbox[c][1])
    BY <1>6, PendingHead DEF OwnEcho, Echoing
  <2>2. pending[c][1].step # 0 => Author(g[1]) = <<c, pending[c][1].step>>
    BY <1>1, <1>6, HeadOwn
  <2>3. ledger'[c] = Append(ledger[c], pending[c][1].step)
    BY <1>6 DEF OwnEcho
  <2>4. d + Len(ledger'[c]) = g[1] /\ Attributed(c, d)'
    BY <1>5, <2>1, <2>2, <2>3
  <2> QED BY <2>4
<1>7. CASE ForeignEcho(c)
  <2>1. d + Len(ledger'[c]) = g[1] /\ Attributed(c, d)'
    BY <1>5, <1>7 DEF ForeignEcho
  <2> QED BY <2>1
<1>8. CASE Answer(c)
  <2>1. g[1] = a /\ inbox[c][1].what = "ok"
    BY <1>1, <1>3, <1>4, <1>8 DEF Answer, Echoing
  <2>2. CASE ledger[c] = <<>>
    <3>1. ledger'[c] = ledger[c]
      BY <1>8, <2>2 DEF Answer
    <3>2. Attributed(c, d)'
      BY <3>1, AttributedKept
    <3>3. d + Len(ledger'[c]) = g[1]
      BY <1>3, <2>1, <3>1
    <3> QED BY <3>2, <3>3
  <2>3. CASE ledger[c] # <<>>
    <3>1. ledger'[c] = Tail(ledger[c])
      BY <1>8, <2>3 DEF Answer
    <3>2. /\ (d + 1) + Len(ledger'[c]) = d + Len(ledger[c])
          /\ \A e : e = d + 1 => Attributed(c, e)'
      BY <2>3, <3>1, LedgerTakes
    <3>3. d + 1 \in Nat
      OBVIOUS
    <3>4. d + Len(ledger[c]) = g[1]
      BY <1>3, <2>1
    <3>5. (d + 1) + Len(ledger'[c]) = g[1]
      BY <3>2, <3>4, Zenon
    <3> QED BY <2>1, <3>2, <3>3, <3>5
  <2> QED BY <2>2, <2>3
<1> QED BY <1>6, <1>7, <1>8 DEF Takes

\* The account after a message.
LEMMA AccountsHandled ==
    ASSUME TypeOK, Calm, SendsTyped, DistinctTexts,
           NEW c \in Clients, NEW d \in Nat, NEW g, Accounts(c, d, g), AuthorsKept, Takes(c)
    PROVE  \E e \in Nat :
              /\ e = d \/ (e = d + 1 /\ inbox[c][1].what = "ok")
              /\ \E h : Accounts(c, e, h)'
<1> PICK l \in Nat, m \in Nat : Lengths(c, l, m)
  BY SomeLengths
<1> PICK e \in Nat :
              /\ e = d \/ (e = d + 1 /\ inbox[c][1].what = "ok")
              /\ e + Len(ledger'[c]) = g[1] /\ Attributed(c, e)'
  BY LedgerHandled
<1> DEFINE y == l - 1
<1>1. /\ inbox[c] \in Seq(Messages) /\ inbox[c] # <<>> /\ inbox'[c] = Tail(inbox[c])
      /\ l = Len(inbox[c]) /\ m = Len(outbox[c]) /\ pending[c] \in Seq(Sends)
      /\ outbox'[c] = outbox[c] /\ Coming(c) = l + m
  BY DEF Lengths, Takes
<1>2. l # 0 /\ Len(inbox'[c]) = l - 1 /\ \A q \in 1..(l - 1) : inbox'[c][q] = inbox[c][q + 1]
  BY <1>1, HeadTailProperties, EmptySeq
<1>3. /\ y \in Nat /\ l = y + 1 /\ l + m = (y + m) + 1 /\ y + m \in Nat
      /\ Len(inbox'[c]) = y /\ \A q \in 1..y : inbox'[c][q] = inbox[c][q + 1]
  BY <1>2
<1> HIDE DEF y
<1>4. Coming(c)' = y + m /\ Coming(c) = (y + m) + 1
  BY <1>1, <1>3 DEF Coming
<1> PICK h : /\ Numbers(h, Tail(inbox[c]), g[1], Echoed)
             /\ \A q \in 0..y : h[q] = g[q + 1]
  <2> DEFINE a == d + Len(ledger[c])
  <2>0. Len(ledger[c]) \in Nat /\ Echoed \in Nat
    BY AccountTypes
  <2>1. a \in Nat /\ Echoed \in Nat
    BY <2>0
  <2>2. Numbers(g, inbox[c], a, Echoed)
    BY DEF Accounts
  <2> HIDE DEF a
  <2>3. Len(inbox[c]) - 1 = y
    BY <1>1, <1>3
  <2>4. \E h : /\ Numbers(h, Tail(inbox[c]), g[1], Echoed)
               /\ \A q \in 0..(Len(inbox[c]) - 1) : h[q] = g[q + 1]
    <3>1. inbox[c] \in Seq(Messages) /\ inbox[c] # <<>>
      BY <1>1
    <3> QED BY <2>1, <2>2, <3>1, NumbersTail
  <2> QED BY <2>3, <2>4, Zenon
<1>5. Numbers(h, inbox'[c], e + Len(ledger'[c]), Echoed')
  BY <1>1 DEF Takes
<1>6. ASSUME NEW q \in 1..y
      PROVE  /\ SentAt(c, h, q)' = SentAt(c, g, q + 1)
             /\ inbox'[c][q].what = "tx" =>
                   \E a \in Clients : Author(h[q])'[1] = a /\ inbox'[c][q].text \in TextsSent(a)
  <2> DEFINE r == q + 1
  <2>1. /\ r \in 1..Len(inbox[c]) /\ q \in 1..Len(inbox'[c]) /\ h[q] = g[r]
        /\ inbox'[c][q] = inbox[c][r]
    BY <1>1, <1>3
  <2> HIDE DEF r
  <2>2. /\ SentAt(c, h, q)' = SentAt(c, g, r)
        /\ inbox[c][r].what = "tx" =>
                 \E a \in Clients : Author(h[q])'[1] = a /\ inbox[c][r].text \in TextsSent(a)
    BY <2>1, SentMoved
  <2> QED BY <2>1, <2>2 DEF r
<1>7. EchoesTold(c, h)'
  BY <1>3, <1>6 DEF EchoesTold
<1> PICK s : SentRight(c, g, s)
  BY SentParts
<1>8. ASSUME NEW k \in 1..(y + m) PROVE SentAt(c, h, k)' = s[k + 1]
  <2>1. CASE k <= y
    <3>1. k \in 1..y /\ k + 1 \in 1..Len(inbox[c])
      BY <1>1, <1>3, <1>8, <2>1
    <3>2. s[k + 1] = SentAt(c, g, k + 1)
      BY <3>1 DEF SentRight
    <3> QED BY <1>6, <3>1, <3>2
  <2>2. CASE ~(k <= y)
    <3> DEFINE i == k - y
    <3>1. i \in 1..m /\ k - y = i /\ l + i = k + 1
      BY <1>3, <1>8, <2>2
    <3> HIDE DEF i
    <3>2. SentAt(c, h, k)' = outbox'[c][i]
      BY <1>3, <2>2, <3>1 DEF SentAt
    <3>3. s[l + i] = outbox[c][i]
      BY <1>1, <3>1 DEF SentRight
    <3> QED BY <1>1, <3>1, <3>2, <3>3
  <2> QED BY <2>1, <2>2
<1>9. s[1] = SentAt(c, g, 1) /\ Matched(pending[c], (y + m) + 1, s)
  <2>1. 1 \in 1..Len(inbox[c])
    BY <1>1, <1>3
  <2> QED BY <1>4, <2>1 DEF SentRight
<1>10. ASSUME NEW u, \A k \in 1..(y + m) : u[k] = SentAt(c, h, k)'
       PROVE  Matched(pending'[c], y + m, u)
  <2>1. \A k \in 1..(y + m) : u[k] = s[k + 1]
    BY <1>8, <1>10
  <2>2. CASE OwnEcho(c)
    <3>1. pending[c] # <<>> /\ pending'[c] = Tail(pending[c])
      BY <2>2 DEF OwnEcho
    <3>2. pending[c][1].text # "none"
      BY <3>1, PendingHead
    <3>3. \/ pending[c][1] = s[1]
          \/ pending[c][1].text = "M410" /\ s[1].text \in {"none", "M410"}
      BY <1>1, <1>9, <2>2, HeadOwn
    <3>4. Matched(Tail(pending[c]), y + m, u)
      BY <1>1, <1>3, <1>9, <2>1, <3>1, <3>2, <3>3, MatchedPopped
    <3> QED BY <3>1, <3>4
  <2>3. CASE ForeignEcho(c) \/ Answer(c)
    <3>1. pending'[c] = pending[c]
      BY <2>3 DEF ForeignEcho, Answer
    <3>2. s[1].text \in {"none", "M410"} /\ (pending[c] = <<>> \/ pending[c][1] # s[1])
      BY <1>1, <1>9, <2>3, HeadForeign
    <3>3. Matched(pending[c], y + m, u)
      BY <1>1, <1>3, <1>9, <2>1, <3>2, MatchedPassed
    <3> QED BY <3>1, <3>3
  <2> QED BY <2>2, <2>3 DEF Takes
<1>11. Accounts(c, e, h)'
  BY <1>3, <1>4, <1>5, <1>7, <1>10, AccountsNext, Zenon
<1> QED BY <1>11

-----------------------------------------------------------------------------
(* Every page, after any step. *)

LEMMA RightParts ==
    ASSUME NEW c \in Clients, NEW d \in Nat, NEW g, Accounts(c, d, g)', Answered(c, d)'
    PROVE  LedgerRight(c)'
BY DEF LedgerRight

\* A step that concerns c at most by the answers the Mega prints.
LEMMA RightElsewhere ==
    ASSUME TypeOK, QueueOrder, Calm, NEW c \in Clients, LedgerRight(c), AuthorsKept,
           Echoed' = Echoed, inbox'[c] = inbox[c], outbox'[c] = outbox[c],
           ledger'[c] = ledger[c], pending'[c] = pending[c],
           MegaCarriesOut \/ UNCHANGED <<wire, running, lastStarted>>
    PROVE  LedgerRight(c)'
<1> PICK d \in Nat : \E g : Accounts(c, d, g) /\ Answered(c, d)
  BY DEF LedgerRight
<1> PICK g : Accounts(c, d, g) /\ Answered(c, d)
  OBVIOUS
<1>1. Accounts(c, d, g)'
  BY AccountsSame
<1>2. Answered(c, d)'
  BY AnsweredFrame, AnsweredCarried
<1> QED BY <1>1, <1>2, RightParts

\* Somebody's line is taken.
LEMMA RightTaken ==
    ASSUME TypeOK, Calm, SendsTyped, NEW c \in Clients, LedgerRight(c), AuthorsKept,
           WriteBegins, UNCHANGED pageVars
    PROVE  LedgerRight(c)'
<1> PICK d \in Nat : \E g : Accounts(c, d, g) /\ Answered(c, d)
  BY DEF LedgerRight
<1> PICK g : Accounts(c, d, g) /\ Answered(c, d)
  OBVIOUS
<1>1. /\ outbox \in [Clients -> Seq(Sends)] /\ ledger' = ledger /\ pending' = pending
      /\ UNCHANGED <<wire, running, lastStarted>>
  BY DEF TypeOK, BridgeTypeOK, Sends, pageVars, WriteBegins, queueVars
<1>2. Echoed = sent /\ Echoed' = sent + 1 /\ sent' = sent /\ sent \in Nat
  BY LineTaken, AuthorTypes
<1>3. ASSUME NEW e, e = sent + 1 PROVE Author(e)' = <<writing'.by, writing'.step>>
  <2>1. ~(e <= sent')
    BY <1>2, <1>3
  <2> QED BY <2>1 DEF Author
<1>4. ASSUME NEW msg \in Messages, Echoing(msg), inbox' = Told(<<msg>>)
      PROVE  /\ inbox'[c] = Append(inbox[c], msg) /\ Answered(c, d)'
             /\ \A e : e = sent + 1 => Counted(msg, e)
  <2>1. inbox'[c] = Append(inbox[c], msg)
    BY <1>4, ToldOne DEF Calm
  <2>2. msg.what # "ok"
    BY <1>4 DEF Echoing
  <2>3. Answered(c, d)'
    BY <1>1, <2>1, <2>2, AnsweredTold
  <2> QED BY <1>2, <1>4, <2>1, <2>3 DEF Counted
<1>5. ASSUME NEW a \in Clients, outbox[a] # <<>>,
             writing' = [text |-> Head(outbox[a]).text, by |-> a, step |-> Head(outbox[a]).step],
             outbox' = [outbox EXCEPT ![a] = Tail(@)],
             inbox' = Told(<<Echo("tx", writing'.text)>>)
      PROVE  LedgerRight(c)'
  <2> SUFFICES ASSUME NEW msg, msg = Echo("tx", Head(outbox[a]).text), NEW e, e = sent + 1
               PROVE  LedgerRight(c)'
    OBVIOUS
  <2>1. Head(outbox[a]) \in Sends /\ Head(outbox[a]).text \in TextsSent(a)
    <3> DEFINE C == Commands(a)
    <3>1. outbox[a] \in Seq(C)
      BY DEF SendsTyped
    <3> HIDE DEF C
    <3>2. Head(outbox[a]) \in C
      BY <1>5, <3>1, HeadTailProperties
    <3> QED BY <3>2 DEF C, Commands, TextsSent
  <2>2. /\ msg \in Messages /\ Echoing(msg) /\ msg.what = "tx" /\ msg.text = Head(outbox[a]).text
        /\ inbox' = Told(<<msg>>)
    BY <1>5, <2>1 DEF Sends, Messages, Echo, Echoing
  <2>3. inbox'[c] = Append(inbox[c], msg) /\ Answered(c, d)' /\ Counted(msg, e)
    BY <1>4, <2>2
  <2>4. Author(e)' = <<a, Head(outbox[a]).step>>
    BY <1>3, <1>5
  <2>5. CASE a = c
    <3>1. outbox'[c] = Tail(outbox[c])
      BY <1>1, <1>5, <2>5
    <3>2. OwnTold(c, msg, e)
      BY <1>1, <1>5, <2>1, <2>2, <2>3, <2>4, <2>5, <3>1 DEF OwnTold
    <3> PICK h : Accounts(c, d, h)'
      BY <2>2, <3>2, AccountsTaken
    <3> QED BY <2>3, RightParts
  <2>6. CASE a # c
    <3>1. outbox'[c] = outbox[c]
      BY <1>1, <1>5, <2>6
    <3>2. Author(e)'[1] = a /\ a \in Clients \ {c} /\ msg.text \in TextsSent(a)
      BY <2>1, <2>2, <2>4, <2>6
    <3>3. ForeignTold(c, msg, e)
      BY <1>1, <2>3, <3>1, <3>2, Zenon DEF ForeignTold
    <3> PICK h : Accounts(c, d, h)'
      BY <2>2, <3>3, AccountsForeign
    <3> QED BY <2>3, RightParts
  <2> QED BY <2>5, <2>6
<1>6. CASE inbox' = Told(<<Echo("button", ButtonText)>>) /\ outbox' = outbox
  <2> SUFFICES ASSUME NEW msg, msg = Echo("button", ButtonText), NEW e, e = sent + 1
               PROVE  LedgerRight(c)'
    OBVIOUS
  <2>1. msg \in Messages /\ Echoing(msg) /\ msg.what # "tx" /\ inbox' = Told(<<msg>>)
    BY <1>6, BridgeAssumption DEF Messages, Echo, Echoing
  <2>2. inbox'[c] = Append(inbox[c], msg) /\ Answered(c, d)' /\ Counted(msg, e)
    BY <1>4, <2>1
  <2>3. ForeignTold(c, msg, e)
    BY <1>1, <1>6, <2>1, <2>2, Zenon DEF ForeignTold
  <2> PICK h : Accounts(c, d, h)'
    BY <2>1, <2>3, AccountsForeign
  <2> QED BY <2>2, RightParts
<1> QED BY <1>5, <1>6 DEF WriteBegins

\* An answer is read.
LEMMA RightRead ==
    ASSUME TypeOK, Calm, NEW c \in Clients, LedgerRight(c), AuthorsKept,
           ReadsLine, UNCHANGED pageVars
    PROVE  LedgerRight(c)'
<1> PICK d \in Nat : \E g : Accounts(c, d, g) /\ Answered(c, d)
  BY DEF LedgerRight
<1> PICK g : Accounts(c, d, g) /\ Answered(c, d)
  OBVIOUS
<1> DEFINE msg == [what |-> Head(wire).what, id |-> Head(wire).id, text |-> "none"]
<1>1. /\ wire \in Seq(Printed) /\ wire # <<>> /\ wire' = Tail(wire) /\ inbox' = Told(<<msg>>)
      /\ UNCHANGED <<running, lastStarted, outbox, ledger, pending, sent, writing>>
  BY AnswerTypes DEF ReadsLine, ReaderStep, queueVars, pageVars
<1>2. Head(wire) = wire[1] /\ Head(wire) \in Printed /\ 1 \in 1..Len(wire)
  BY <1>1, HeadTailProperties, EmptySeq
<1>3. wire[1].what = "ok"
  BY <1>2 DEF Calm, AnswersInOrder
<1>4. msg \in Messages /\ msg.what = "ok" /\ msg.id = wire[1].id
  BY <1>2, <1>3 DEF Messages, Printed
<1> HIDE DEF msg
<1>5. inbox'[c] = Append(inbox[c], msg)
  BY <1>1, <1>4, ToldOne DEF Calm
<1>6. Answered(c, d)'
  BY <1>1, <1>4, <1>5, AnsweredRead
<1> SUFFICES ASSUME NEW x, x = msg, NEW e, e = Echoed PROVE LedgerRight(c)'
  OBVIOUS
<1>7. Counted(x, e)
  <2>1. ~Echoing(x) /\ Echoed' = Echoed /\ Echoed \in Nat
    BY <1>1, <1>4, AuthorTypes DEF Echoing, Echoed
  <2> QED BY <2>1 DEF Counted
<1>8. ForeignTold(c, x, e)
  BY <1>1, <1>4, <1>5, <1>7 DEF ForeignTold
<1> PICK h : Accounts(c, d, h)'
  BY <1>4, <1>8, AccountsForeign
<1> QED BY <1>6, RightParts

\* The page handles a message.
LEMMA RightHandled ==
    ASSUME TypeOK, Calm, SendsTyped, DistinctTexts, NEW c \in Clients, LedgerRight(c), AuthorsKept,
           HandleMessage(c), Len(ledger[c]) < LedgerMax
    PROVE  LedgerRight(c)'
<1> PICK d \in Nat : \E g : Accounts(c, d, g) /\ Answered(c, d)
  BY DEF LedgerRight
<1> PICK g : Accounts(c, d, g) /\ Answered(c, d)
  OBVIOUS
<1>1. /\ inbox[c] # <<>> /\ inbox'[c] = Tail(inbox[c])
      /\ UNCHANGED <<outbox, sent, writing, running, lastStarted, wire>>
  BY PageHandles
<1>2. Takes(c)
  BY <1>1, Handlings DEF Takes, Echoed
<1> PICK e \in Nat : /\ e = d \/ (e = d + 1 /\ inbox[c][1].what = "ok")
                     /\ \E h : Accounts(c, e, h)'
  BY <1>2, AccountsHandled
<1>3. Answered(c, e)'
  BY <1>1, AnsweredHandled
<1> PICK h : Accounts(c, e, h)'
  OBVIOUS
<1> QED BY <1>3, RightParts

\* The page sends.
LEMMA RightSent ==
    ASSUME TypeOK, Calm, NEW c \in Clients, LedgerRight(c), AuthorsKept,
           SendOnly(c) \/ Step(c) \/ Stop(c)
    PROVE  LedgerRight(c)'
<1> PICK d \in Nat : \E g : Accounts(c, d, g) /\ Answered(c, d)
  BY DEF LedgerRight
<1> PICK g : Accounts(c, d, g) /\ Answered(c, d)
  OBVIOUS
<1> PICK x \in Commands(c) :
           /\ outbox' = [outbox EXCEPT ![c] = Append(@, x)]
           /\ pending' = [pending EXCEPT ![c] = Append(@, x)]
           /\ UNCHANGED <<sent, origin, writing, running, lastStarted, wire, inbox, ledger>>
  BY PageSends
<1>1. outbox \in [Clients -> Seq(Sends)] /\ pending \in [Clients -> Seq(Sends)]
  BY DEF TypeOK, BridgeTypeOK, Sends
<1>2. CommandSent(c, x)
  BY <1>1 DEF CommandSent, Echoed
<1>3. x \in Sends
  BY CommandTypes
<1>4. Accounts(c, d, g)'
  BY <1>2, <1>3, AccountsSent
<1>5. Answered(c, d)'
  BY AnsweredFrame
<1> QED BY <1>4, <1>5, RightParts

\* What another page does, or a page that only gives up, changes nothing here.
LEMMA OtherPage ==
    ASSUME TypeOK, NEW c \in Clients, NEW a \in Clients,
           \/ a # c /\ (SendOnly(a) \/ Step(a) \/ Stop(a) \/ HandleMessage(a))
           \/ Timeout(a)
    PROVE  /\ inbox'[c] = inbox[c] /\ outbox'[c] = outbox[c]
           /\ ledger'[c] = ledger[c] /\ pending'[c] = pending[c]
           /\ UNCHANGED <<wire, running, lastStarted>>
<1>1. outbox \in [Clients -> Seq(Sends)] /\ pending \in [Clients -> Seq(Sends)]
  BY DEF TypeOK, BridgeTypeOK, Sends
<1>2. CASE a # c /\ (SendOnly(a) \/ Step(a) \/ Stop(a))
  <2> PICK x \in Commands(a) :
           /\ outbox' = [outbox EXCEPT ![a] = Append(@, x)]
           /\ pending' = [pending EXCEPT ![a] = Append(@, x)]
           /\ UNCHANGED <<sent, origin, writing, running, lastStarted, wire, inbox, ledger>>
    BY <1>2, PageSends
  <2> QED BY <1>1, <1>2
<1>3. CASE a # c /\ HandleMessage(a)
  BY <1>3, PageHandles
<1>4. CASE Timeout(a)
  BY <1>4 DEF Timeout, queueVars, linkVars
<1> QED BY <1>2, <1>3, <1>4

LEMMA LedgerRightStep ==
    ASSUME TypeOK, QueueOrder, Calm, SendsTyped, DistinctTexts, CalmSteps,
           NEW c \in Clients, LedgerRight(c), Len(ledger[c]) < LedgerMax
    PROVE  LedgerRight(c)'
<1>1. AuthorsKept /\ (~WriteBegins => Echoed' = Echoed)
  BY AuthorKept, Zenon DEF AuthorsKept
<1>2. CASE WriteBegins /\ UNCHANGED pageVars
  BY <1>1, <1>2, RightTaken
<1>3. CASE ReadsLine /\ UNCHANGED pageVars
  BY <1>1, <1>3, RightRead
<1>4. ASSUME ~WriteBegins, inbox'[c] = inbox[c], outbox'[c] = outbox[c],
             ledger'[c] = ledger[c], pending'[c] = pending[c],
             MegaCarriesOut \/ UNCHANGED <<wire, running, lastStarted>>
      PROVE  LedgerRight(c)'
  BY <1>1, <1>4, RightElsewhere
<1>5. WriteBegins => writing' # writing
  BY LineTaken
<1>6. CASE (MegaFetches \/ MegaCarriesOut) /\ UNCHANGED pageVars
  <2>1. UNCHANGED <<writing, inbox, outbox, ledger, pending>>
    BY <1>6 DEF MegaFetches, MegaCarriesOut, MegaStep, bridgeVars, linkVars, pageVars
  <2>2. MegaCarriesOut \/ UNCHANGED <<wire, running, lastStarted>>
    BY <1>6 DEF MegaFetches
  <2> QED BY <1>4, <1>5, <2>1, <2>2
<1>7. CASE WriteEnds /\ WriteSucceeds /\ UNCHANGED pageVars
  <2>1. /\ writing # NoWrite /\ inbox' = inbox
        /\ UNCHANGED <<wire, running, lastStarted, outbox, ledger, pending>>
    BY <1>7 DEF WriteEnds, WriteSucceeds, pageVars
  <2>2. ~WriteBegins
    BY <2>1 DEF WriteBegins
  <2> QED BY <1>4, <2>1, <2>2
<1>8. CASE \E a \in Clients : SendOnly(a) \/ Step(a) \/ Stop(a) \/ Timeout(a) \/ HandleMessage(a)
  <2> PICK a \in Clients : SendOnly(a) \/ Step(a) \/ Stop(a) \/ Timeout(a) \/ HandleMessage(a)
    BY <1>8
  <2>1. CASE a = c /\ (SendOnly(a) \/ Step(a) \/ Stop(a))
    BY <1>1, <2>1, RightSent
  <2>2. CASE a = c /\ HandleMessage(a)
    BY <1>1, <2>2, RightHandled
  <2>3. CASE \/ a # c /\ (SendOnly(a) \/ Step(a) \/ Stop(a) \/ HandleMessage(a))
             \/ Timeout(a)
    <3>1. writing' = writing
      BY <2>3, PageSends, PageHandles DEF Timeout, bridgeVars
    <3> QED BY <1>4, <1>5, <2>3, <3>1, OtherPage
  <2> QED BY <2>1, <2>2, <2>3
<1>9. CASE UNCHANGED vars
  BY <1>4, <1>5, <1>9 DEF vars, queueVars, bridgeVars, linkVars, pageVars
<1> QED BY <1>2, <1>3, <1>6, <1>7, <1>8, <1>9 DEF CalmSteps

LEMMA LedgerRightInit == Init => \A c \in Clients : LedgerRight(c)
<1> SUFFICES ASSUME Init, NEW c \in Clients PROVE LedgerRight(c)
  OBVIOUS
<1> DEFINE g == [q \in 0..0 |-> 0]
<1>1. /\ inbox[c] = <<>> /\ outbox[c] = <<>> /\ ledger[c] = <<>> /\ pending[c] = <<>>
      /\ wire = <<>> /\ sent = 0 /\ writing = NoWrite /\ lastStarted = 0 /\ running = NoLine
  BY DEF Init, BridgeInit, QueueInit
<1>2. Len(<<>>) = 0 /\ 1..0 = {} /\ 0 + 0 = 0 /\ 0..0 = {0} /\ 0 \in Nat /\ 0 <= 0
  OBVIOUS
<1>3. Echoed = 0 /\ Coming(c) = 0
  BY <1>1, <1>2 DEF Echoed, Coming
<1>4. Numbers(g, inbox[c], 0 + Len(ledger[c]), Echoed)
  <2>1. Len(inbox[c]) = 0 /\ 0 + Len(ledger[c]) = 0
    BY <1>1
  <2>2. g \in [0..0 -> Nat] /\ g[0] = 0
    OBVIOUS
  <2> HIDE DEF g
  <2> QED BY <1>2, <1>3, <2>1, <2>2 DEF Numbers
<1>5. Attributed(c, 0) /\ EchoesTold(c, g) /\ Answered(c, 0)
  <2>1. 1..Len(inbox[c]) = {} /\ 1..Len(ledger[c]) = {} /\ 1..Len(wire) = {}
    BY <1>1
  <2>2. Handled(0)
    BY <1>1 DEF Handled
  <2> QED BY <2>1, <2>2, Zenon DEF Attributed, EchoesTold, Answered
<1> HIDE DEF g
<1>6. Matched(pending[c], Coming(c), SentBy(c, g))
  BY <1>1, <1>3, MatchedEmpty, Zenon
<1>7. Accounts(c, 0, g)
  BY <1>4, <1>5, <1>6, Zenon DEF Accounts
<1> QED BY <1>2, <1>5, <1>7, Zenon DEF LedgerRight
-----------------------------------------------------------------------------
(* The answer that ends a step. *)

\* Only the page itself can take a message from its inbox.
LEMMA CompletesHandles ==
    ASSUME TypeOK, Calm, CalmSteps, NEW c \in Clients, Completes(c)
    PROVE  HandleMessage(c)
<1>1. /\ inbox \in [Clients -> Seq(Messages)] /\ inbox[c] # <<>> /\ inbox'[c] = Tail(inbox[c])
      /\ waiter[c] # 0 /\ waiter'[c] = 0
  BY DEF Completes, TypeOK, BridgeTypeOK
<1>2. inbox'[c] # inbox[c] /\ waiter' # waiter
  <2>1. inbox[c] \in Seq(Messages)
    BY <1>1
  <2>2. Len(Tail(inbox[c])) # Len(inbox[c])
    BY <1>1, <2>1
  <2> QED BY <1>1, <2>2
<1>3. ~UNCHANGED pageVars /\ ~UNCHANGED vars
  BY <1>2 DEF pageVars, vars
<1>4. \E a \in Clients : SendOnly(a) \/ Step(a) \/ Stop(a) \/ Timeout(a) \/ HandleMessage(a)
  BY <1>3, Zenon DEF CalmSteps
<1> PICK a \in Clients : SendOnly(a) \/ Step(a) \/ Stop(a) \/ Timeout(a) \/ HandleMessage(a)
  BY <1>4
<1>5. ~(SendOnly(a) \/ Step(a) \/ Stop(a) \/ Timeout(a))
  BY <1>2, PageSends DEF Timeout, linkVars
<1>6. a = c
  BY <1>2, <1>5, PageHandles
<1> QED BY <1>5, <1>6

\* The ledger's oldest entry is the step that ends.
LEMMA CompletesHead ==
    ASSUME TypeOK, Calm, NEW c \in Clients, Completes(c), HandleMessage(c)
    PROVE  ledger[c] # <<>> /\ Head(ledger[c]) = waiter[c]
<1>1. /\ LedgerTypes /\ Head(inbox[c]).what = "ok"
      /\ waiter[c] # 0 /\ waiter'[c] = 0
  BY TypeParts DEF Completes
<1>2. OkLedgerOk(c, Head(inbox[c]))
  BY <1>1 DEF HandleMessage, OkLedgerEcho, Unanswered
<1>3. ledger[c] # <<>>
  BY <1>1, <1>2 DEF OkLedgerOk
<1>4. waiter' = [waiter EXCEPT ![c] = IF Resolves(c, Head(ledger[c])) THEN 0 ELSE @]
  BY <1>2, <1>3 DEF OkLedgerOk
<1>5. Resolves(c, Head(ledger[c]))
  BY <1>1, <1>4 DEF LedgerTypes
<1> QED BY <1>3, <1>5 DEF Resolves

LEMMA CompletesRight ==
    ASSUME TypeOK, QueueOrder, Calm, CalmSteps, NEW c \in Clients, LedgerRight(c), Completes(c)
    PROVE  \E j \in 1..Head(inbox[c]).id : origin[j] = <<c, waiter[c]>>
<1> PICK d \in Nat : \E g : Accounts(c, d, g) /\ Answered(c, d)
  BY DEF LedgerRight
<1> PICK g : Accounts(c, d, g) /\ Answered(c, d)
  OBVIOUS
<1>1. ledger[c] # <<>> /\ Head(ledger[c]) = waiter[c] /\ waiter[c] # 0
  BY CompletesHandles, CompletesHead DEF Completes
<1>2. /\ ledger[c] \in Seq(Nat) /\ inbox[c] \in Seq(Messages) /\ inbox[c] # <<>>
      /\ Head(inbox[c]).what = "ok"
  BY AccountTypes DEF Completes
<1>3. /\ 1 \in 1..Len(ledger[c]) /\ ledger[c][1] = waiter[c]
      /\ 1 \in 1..Len(inbox[c]) /\ Head(inbox[c]) = inbox[c][1]
  BY <1>1, <1>2, EmptySeq
<1>4. Author(d + 1) = <<c, waiter[c]>>
  BY <1>1, <1>3 DEF Accounts, Attributed
<1>5. d < inbox[c][1].id /\ inbox[c][1].id <= lastStarted
  BY <1>2, <1>3 DEF Answered, Handled
<1>6. inbox[c][1].id \in Nat /\ lastStarted \in Nat /\ sent \in Nat /\ lastStarted <= sent
  BY <1>3, AnswerTypes DEF QueueOrder, TypeOK, BridgeTypeOK, QueueTypeOK
<1>7. d + 1 \in 1..inbox[c][1].id /\ d + 1 <= sent
  BY <1>5, <1>6
<1>8. origin[d + 1] = <<c, waiter[c]>>
  BY <1>4, <1>7 DEF Author
<1> QED BY <1>3, <1>7, <1>8

\* No step is answered early as long as nothing goes wrong, no ledger is full
\* and no two pages send the same text.
THEOREM LedgerStepNotEarly ==
    ASSUME DistinctTexts
    PROVE  Spec /\ [](mishaps = 0 /\ \A c \in Clients : Len(ledger[c]) < LedgerMax) => StepNotEarly
<1> DEFINE Undisturbed == mishaps = 0 /\ \A c \in Clients : Len(ledger[c]) < LedgerMax
           IInv == TypeOK /\ QueueOrder /\ Calm /\ SendsTyped /\ \A c \in Clients : LedgerRight(c)
           Early == \A c \in Clients : Completes(c) =>
                        \E j \in 1..Head(inbox[c]).id : origin[j] = <<c, waiter[c]>>
<1>1. Init => IInv
  BY LedgerInitTypes, CalmInit, SendsTypedInit, LedgerRightInit, Zenon
<1>2. IInv /\ Undisturbed /\ Undisturbed' /\ [Next]_vars => IInv'
  <2> SUFFICES ASSUME IInv, Undisturbed, Undisturbed', [Next]_vars PROVE IInv'
    OBVIOUS
  <2>1. TypeOK' /\ QueueOrder'
    BY LedgerStepTypes
  <2>2. CalmSteps
    BY OnlyCalmSteps
  <2>3. Calm' /\ SendsTyped'
    BY <2>1, <2>2, CalmStep, SendsTypedStep
  <2>4. \A c \in Clients : LedgerRight(c)'
    BY <2>2, LedgerRightStep
  <2> QED BY <2>1, <2>3, <2>4
<1>3. IInv /\ Undisturbed /\ Undisturbed' /\ [Next]_vars => [Early]_vars
  <2> SUFFICES ASSUME IInv, Undisturbed, Undisturbed', [Next]_vars PROVE Early
    OBVIOUS
  <2>1. CalmSteps
    BY OnlyCalmSteps
  <2> QED BY <2>1, CompletesRight
<1>4. StepNotEarly <=> [][Early]_vars
  BY DEF StepNotEarly
<1> HIDE DEF Undisturbed, IInv, Early
<1>5. Spec /\ []Undisturbed => [][Early]_vars
  BY <1>1, <1>2, <1>3, PTL DEF Spec
<1> QED BY <1>4, <1>5 DEF Undisturbed
=============================================================================
