---------------------------- MODULE SequencerProofs ----------------------------
(* Process Sequencer: the homing lock of the page and the refusal of the      *)
(* firmware keep moves off axes that are not known, and no relay stays on.    *)
EXTENDS SequencerProperties, WorkcellProofs

StepKinds == Kinds \cup Checks

\* Every step of a block is a command or a check, and the blocks that are not
\* gated rely on no home but their own.
LEMMA BlockSteps ==
    ASSUME NEW block \in Blocks
    PROVE  /\ Steps(block) \in Seq(StepKinds)
           /\ block \notin Gated =>
                 \A i \in 1..Len(Steps(block)) : Steps(block)[i] \in Reliant =>
                    \E j \in 1..Len(Steps(block)) : j < i /\ Steps(block)[j] = "G28"
<1>1. Steps(block) \in Seq(StepKinds)
  <2>1. /\ "lid" \in StepKinds /\ "sleep" \in StepKinds /\ "bracket" \in StepKinds
        /\ \A kind \in Kinds : kind \in StepKinds
    BY DEF StepKinds, Checks
  <2>2. /\ <<"G28", "M118">> \in Seq(StepKinds)
        /\ <<"G28", "M118", "M752">> \in Seq(StepKinds)
        /\ <<"G90", "G1_X", "G91", "G1_A", "G90", "G1_Z", "sleep", "G90", "G1_Z">> \in Seq(StepKinds)
        /\ <<"M280_S115", On("lamp"), "sleep", Off("lamp"), "M752", "M280_S30">> \in Seq(StepKinds)
        /\ <<"G28_Z">> \in Seq(StepKinds)
        /\ <<"lid", "G90", "G1_X", "G1_B", "bracket", "G91", "G1_C", "sleep", "G90", "G1_B0">>
              \in Seq(StepKinds)
        /\ <<"M280_S115", "M750", "M280_S30">> \in Seq(StepKinds)
        /\ <<"M280_S115", On("lamp"), "sleep", Off("lamp"), "M280_S30">> \in Seq(StepKinds)
        /\ <<"M280_S115", On("valve"), "sleep", On("lamp"), "sleep", Off("lamp"), "sleep",
             Off("valve"), "M280_S30">> \in Seq(StepKinds)
        /\ <<"M280_S115", On("lamp"), On("valve"), "sleep", Off("valve"), Off("lamp"),
             "M280_S30">> \in Seq(StepKinds)
    BY <2>1, KindsKnown
  <2> QED BY <2>2 DEF Steps, SpinSteps, StampSteps, CureSteps, Blocks
<1>2. ASSUME block \notin Gated
      PROVE  \A i \in 1..Len(Steps(block)) : Steps(block)[i] \in Reliant =>
                    \E j \in 1..Len(Steps(block)) : j < i /\ Steps(block)[j] = "G28"
  <2>1. \/ Steps(block) = <<"G28", "M118">>
        \/ Steps(block) = <<"G28", "M118", "M752">>
        \/ Steps(block) = <<"G28_Z">>
        \/ Steps(block) = <<"M280_S115", "M750", "M280_S30">>
    BY <1>2 DEF Steps, SpinSteps, Blocks, Gated, HomesAll
  <2>2. /\ "G28" \notin Reliant /\ "G28_Z" \notin Reliant /\ "M280_S115" \notin Reliant
        /\ "M280_S30" \notin Reliant /\ "M750" \notin Reliant /\ "M752" \notin Reliant
    BY DEF Reliant, Moves, Distances
  <2> QED BY <2>1, <2>2
<1> QED BY <1>1, <1>2

LEMMA FirstBlock ==
    ASSUME NEW program \in Programs
    PROVE  /\ program \in Seq(Blocks) /\ program # <<>>
           /\ program[1] = Head(program) /\ Head(program) \in Blocks
           /\ Tail(program) \in Seq(Blocks) /\ 1 \in 1..Len(program)
BY SequencerAssumption

LEMMA StepTail ==
    ASSUME NEW S, NEW s \in Seq(S), s # <<>>
    PROVE  /\ Tail(s) \in Seq(S) /\ Len(Tail(s)) = Len(s) - 1 /\ Len(s) \in Nat \ {0}
           /\ \A i \in 1..Len(Tail(s)) : i + 1 \in 1..Len(s) /\ Tail(s)[i] = s[i + 1]
           /\ s[1] \in S /\ Head(s) = s[1]
BY HeadTailProperties, LenProperties, ElementOfSeq

LEMMA OneLine ==
    ASSUME NEW S, NEW x \in S, NEW y \in S
    PROVE  <<>> \in Seq(S) /\ <<x>> \in Seq(S) /\ <<x, y>> \in Seq(S)
OBVIOUS

\* The recoveries are commands, and none of them relies on a home.
LEMMA RecoveryKinds == Recoveries \subseteq Kinds /\ Recoveries \cap (Reliant \cup {"G28"}) = {}
BY KindsKnown DEF Recoveries, Reliant, Moves, Distances, Off

\* What the finally clauses send.
OwedLines == Owed(Off("lamp")) \o Owed(Off("valve")) \o Owed("G90")

LEMMA OwedTypes == ASSUME NEW S, Recoveries \subseteq S PROVE OwedLines \in Seq(S)
<1>1. \A kind \in Recoveries : Owed(kind) \in Seq(S)
  <2> TAKE kind \in Recoveries
  <2>1. <<kind>> \in Seq(S) /\ <<>> \in Seq(S)
    BY OneLine
  <2> QED BY <2>1 DEF Owed
<1>2. Owed(Off("lamp")) \in Seq(S) /\ Owed(Off("valve")) \in Seq(S) /\ Owed("G90") \in Seq(S)
  BY <1>1 DEF Recoveries
<1>3. Owed(Off("lamp")) \o Owed(Off("valve")) \in Seq(S)
  BY <1>2, ConcatProperties
<1> QED BY <1>2, <1>3, ConcatProperties DEF OwedLines

-----------------------------------------------------------------------------
(* Types                                                                     *)

PageStep == Run \/ Operator \/ Timeout \/ HandleLine

\* Lines are sent and nobody of the run waits for them.
Pressed == HomeAll \/ MoveButton \/ StartSpin \/ LidClosed

\* What a button sends.
MoveLines == {<<"G90", "G1_B">>, <<"G90", "G1_B0">>, <<"G91", "G1_A", "G90">>}
OtherLines == {<<"G28", "M118">>, <<"M280_S115">>, <<"M750">>}
ButtonLines == MoveLines \cup OtherLines

LEMMA ButtonTypes == ButtonLines \subseteq Seq(Kinds)
<1>1. <<"G91", "G1_A", "G90">> \in Seq(Kinds)
  BY KindsKnown
<1> QED BY <1>1, KindsKnown, OneLine DEF ButtonLines, MoveLines, OtherLines

LEMMA PressedSends ==
    ASSUME Pressed
    PROVE  /\ \E kinds \in ButtonLines :
                 /\ Write(kinds)
                 /\ SendAll(kinds) \/ ledger' = Append(ledger, -1)
                 /\ kinds \in OtherLines \/ MoveButton
           /\ UNCHANGED <<connected, link, homed, seq, plan, todo, waiter, fault, owed, verdict, spun,
                          fed, misheard>>
           /\ UNCHANGED mishaps \/ Mishap("StartSpin")
           /\ UNCHANGED runs \/ (runs < MaxRuns /\ runs' = runs + 1)
           /\ UNCHANGED lidLast \/ lidLast' = LidAfter("G28") \/ lidLast' = LidAfter("M280_S115")
<1>1. CASE HomeAll
  BY <1>1 DEF HomeAll, ButtonKept, Free, SendAll, ButtonLines, OtherLines, MoveLines
<1>2. CASE MoveButton
  BY <1>2 DEF MoveButton, ButtonKept, Free, SendAll, ButtonLines, OtherLines, MoveLines
<1>3. CASE StartSpin
  BY <1>3 DEF StartSpin, ButtonKept, SendAwaited, ButtonLines, OtherLines, MoveLines
<1>4. CASE LidClosed
  BY <1>4 DEF LidClosed, SendAll, ButtonLines, OtherLines, MoveLines
<1> QED BY <1>1, <1>2, <1>3, <1>4 DEF Pressed

LEMMA PageEffect ==
    ASSUME TypeOK, PageStep
    PROVE  /\ PageWrites \/ PageQuiet \/ Restarts
           /\ connected' \in BOOLEAN /\ mishaps' \in 0..MaxMishaps /\ link' \in Seq(Reports)
<1> USE DEF TypeOK, CellTypeOK
<1>1. CASE Advance
  <2>1. CASE Command
    <3>1. <<todo[1]>> \in Seq(Kinds) /\ Write(<<todo[1]>>)
      BY <2>1, OneLine DEF Command, SendStep, SendAwaited
    <3>2. UNCHANGED <<connected, link, mishaps>>
      BY <1>1, <2>1 DEF Advance, Command, SendStep, SendAwaited
    <3> QED BY <3>1, <3>2 DEF PageWrites
  <2>2. CASE NextBlock \/ Check \/ EndRun
    BY <1>1, <2>2 DEF Advance, NextBlock, Check, EndRun, NothingSent, PageQuiet
  <2> QED BY <1>1, <2>1, <2>2 DEF Advance
<1>2. CASE StepDone \/ SleepEnds \/ StartRun
  BY <1>2 DEF StepDone, SleepEnds, StartRun, NothingSent, PageQuiet
<1>3. CASE Unwind
  <2>1. OwedLines \in Seq(Kinds)
    BY OwedTypes, RecoveryKinds
  <2> QED BY <1>3, <2>1 DEF Unwind, SendOwed, OwedLines, SendAll, PageWrites
<1>4. CASE Stop
  <2>1. <<"M410">> \in Seq(Kinds)
    BY KindsKnown, OneLine
  <2>2. mishaps' \in 0..MaxMishaps
    BY <1>4, MishapTypes DEF Stop
  <2> QED BY <1>4, <2>1, <2>2 DEF Stop, SendAll, PageWrites
<1>5. CASE Pressed
  <2>1. PICK kinds \in Seq(Kinds) : Write(kinds)
    BY <1>5, PressedSends, ButtonTypes
  <2>2. UNCHANGED <<connected, link>> /\ mishaps' \in 0..MaxMishaps
    BY <1>5, PressedSends, MishapTypes
  <2> QED BY <2>1, <2>2 DEF PageWrites
<1>6. CASE EmergencyStop
  <2>1. <<"M112">> \in Seq(Kinds)
    BY KindsKnown, OneLine
  <2>2. mishaps' \in 0..MaxMishaps
    BY <1>6, MishapTypes DEF EmergencyStop
  <2> QED BY <1>6, <2>1, <2>2 DEF EmergencyStop, PageWrites
<1>7. CASE Timeout
  <2>1. mishaps' \in 0..MaxMishaps
    BY <1>7, MishapTypes DEF Timeout
  <2> QED BY <1>7, <2>1 DEF Timeout, NothingSent, PageQuiet
<1>8. CASE Disconnect
  <2>1. mishaps' \in 0..MaxMishaps
    BY <1>8, MishapTypes DEF Disconnect
  <2>2. PageQuiet /\ connected' = FALSE /\ link' = <<>>
    BY <1>8 DEF Disconnect, PageQuiet
  <2> QED BY <2>1, <2>2, ReportTypes
<1>9. CASE Connect
  BY <1>9 DEF Connect
<1>10. CASE HandleLine
  BY <1>10, HeadTailProperties DEF HandleLine, PageQuiet
<1> QED BY <1>1, <1>2, <1>3, <1>4, <1>5, <1>6, <1>7, <1>8, <1>9, <1>10 DEF PageStep, Run, Operator,
   Buttons, Pressed

RunFlags ==
    /\ homed \in BOOLEAN /\ fault \in BOOLEAN /\ due \in BOOLEAN /\ spun \in BOOLEAN
    /\ fed \in BOOLEAN /\ blind \in BOOLEAN /\ misheard \in BOOLEAN
RunPlan ==
    /\ plan \in Seq(Blocks) /\ todo \in Seq(StepKinds)
    /\ owed \subseteq Recoveries /\ runs \in 0..MaxRuns
RunWait ==
    /\ ledger \in Seq(Int) /\ waiter \in Nat
    /\ lidLast \in {"unknown", "open", "closed"}
    /\ seq \in {"idle", "next", "waiting", "answered", "sleeping", "failed"}
    /\ verdict \in {"none", "", "complete"}

LEMMA TypeParts == TypeOK <=> CellTypeOK /\ RunFlags /\ RunPlan /\ RunWait
BY DEF TypeOK, RunFlags, RunPlan, RunWait, StepKinds

LEMMA Empty == \A S : <<>> \in Seq(S)
OBVIOUS

LEMMA SendAllLedger ==
    ASSUME RunWait, NEW kinds \in Seq(Kinds), SendAll(kinds)
    PROVE  ledger' \in Seq(Int)
<1> DEFINE zeros == [i \in 1..Len(kinds) |-> 0]
<1>1. zeros \in Seq(Int)
  BY IsASeq
<1>2. ledger' = ledger \o zeros
  BY DEF SendAll
<1> QED BY <1>1, <1>2, ConcatProperties DEF RunWait

LEMMA OwesTypes == \A step : OwesAfter(step) \subseteq Recoveries
BY DEF OwesAfter, Recoveries, Relays

LEMMA RunsTypes == \A n \in 0..MaxRuns : n < MaxRuns => n + 1 \in 0..MaxRuns
<1>1. MaxRuns \in Nat
  BY SequencerAssumption
<1> QED BY <1>1

LEMMA PagePlan == ASSUME RunPlan, RunInv, PageStep PROVE RunPlan'
<1>1. CASE Advance
  <2>0. UNCHANGED runs
    BY <1>1 DEF Advance
  <2>1. CASE NextBlock
    <3>1. /\ plan' = Tail(plan) /\ plan # <<>> /\ UNCHANGED owed
          /\ todo' = todo \/ todo' = <<"sleep">> \o Steps(plan[1])
      BY <2>1 DEF NextBlock
    <3>2. plan' \in Seq(Blocks) /\ plan[1] \in Blocks
      BY <3>1, StepTail DEF RunPlan
    <3>3. <<"sleep">> \in Seq(StepKinds)
      BY OneLine DEF StepKinds, Checks
    <3>4. <<"sleep">> \o Steps(plan[1]) \in Seq(StepKinds)
      BY <3>2, <3>3, BlockSteps, ConcatProperties
    <3> QED BY <2>0, <3>1, <3>2, <3>4 DEF RunPlan
  <2>2. CASE Check
    <3>1. todo' \in Seq(StepKinds)
      BY <2>2, StepTail DEF Check, RunPlan
    <3>2. owed' \subseteq Recoveries /\ UNCHANGED plan
      BY <2>2, OwesTypes DEF Check, RunPlan
    <3> QED BY <2>0, <3>1, <3>2 DEF RunPlan
  <2>3. CASE Command
    <3>1. owed' \subseteq Recoveries /\ UNCHANGED <<plan, todo>>
      BY <2>3, OwesTypes DEF Command, RunPlan
    <3> QED BY <2>0, <3>1 DEF RunPlan
  <2>4. CASE EndRun
    BY <2>0, <2>4 DEF EndRun, RunPlan
  <2> QED BY <1>1, <2>1, <2>2, <2>3, <2>4 DEF Advance
<1>2. CASE StepDone
  <2>1. /\ UNCHANGED <<plan, runs>>
        /\ \/ UNCHANGED <<todo, owed>>
           \/ todo' = Tail(todo) /\ owed' = owed \ {todo[1]}
    BY <1>2 DEF StepDone
  <2>2. todo # <<>>
    BY <1>2 DEF StepDone, RunInv
  <2>3. Tail(todo) \in Seq(StepKinds)
    BY <2>2, StepTail DEF RunPlan
  <2> QED BY <2>1, <2>3 DEF RunPlan
<1>3. CASE Unwind
  <2>1. plan' = <<>> /\ todo' = <<>> /\ owed' = {} /\ UNCHANGED runs
    BY <1>3 DEF Unwind
  <2> QED BY <2>1, Empty DEF RunPlan
<1>4. CASE StartRun
  <2>1. PICK program \in Programs : todo' = Steps(Head(program)) /\ plan' = Tail(program)
    BY <1>4 DEF StartRun
  <2>2. todo' \in Seq(StepKinds) /\ plan' \in Seq(Blocks)
    BY <2>1, FirstBlock, BlockSteps
  <2>3. runs' \in 0..MaxRuns /\ UNCHANGED owed
    BY <1>4, RunsTypes DEF StartRun, Free, RunPlan
  <2> QED BY <2>2, <2>3 DEF RunPlan
<1>5. CASE Pressed
  <2>1. runs' \in 0..MaxRuns /\ UNCHANGED <<plan, todo, owed>>
    BY <1>5, PressedSends, RunsTypes DEF RunPlan
  <2> QED BY <2>1 DEF RunPlan
<1>6. CASE SleepEnds \/ Stop \/ EmergencyStop \/ Disconnect \/ Connect \/ Timeout \/ HandleLine
  <2>1. UNCHANGED <<plan, todo, owed, runs>>
    BY <1>6 DEF SleepEnds, Stop, EmergencyStop, Disconnect, Connect, Timeout, HandleLine, RunKept,
       runVars
  <2> QED BY <2>1 DEF RunPlan
<1> QED BY <1>1, <1>2, <1>3, <1>4, <1>5, <1>6 DEF PageStep, Run, Operator, Buttons, Pressed

LEMMA LidTypes == ASSUME RunWait, NEW kind PROVE LidAfter(kind) \in {"unknown", "open", "closed"}
BY DEF RunWait, LidAfter

\* A step leaves what the page waits for as it is, or rejects the wait.
LEMMA Rejected ==
    ASSUME RunWait, Reject, ledger' \in Seq(Int), lidLast' \in {"unknown", "open", "closed"},
           verdict' = verdict
    PROVE  RunWait'
<1>1. waiter' = 0 /\ (seq' = "failed" \/ seq' = seq)
  BY DEF Reject
<1>2. seq' \in {"idle", "next", "waiting", "answered", "sleeping", "failed"}
  BY <1>1 DEF RunWait
<1> QED BY <1>1, <1>2 DEF RunWait

LEMMA PageWait == ASSUME QueueTypeOK, RunWait, PageStep PROVE RunWait'
<1>1. CASE Advance
  <2>1. CASE Command
    <3>1. /\ ledger' = Append(ledger, sent') /\ waiter' = sent'
          /\ seq' = "waiting" /\ lidLast' = LidAfter(todo[1])
          /\ verdict' \in {"", verdict}
      BY <2>1 DEF Command, SendStep, SendAwaited
    <3>2. sent' \in Nat
      <4>1. sent' = sent + 1
        BY <2>1 DEF Command, SendStep, SendAwaited, Write
      <4> QED BY <4>1 DEF QueueTypeOK
    <3>3. ledger' \in Seq(Int)
      <4>1. sent' \in Int
        BY <3>2
      <4>2. ledger \in Seq(Int)
        BY Zenon DEF RunWait
      <4> QED BY <3>1, <4>1, <4>2, AppendProperties
    <3> QED BY <3>1, <3>2, <3>3, LidTypes DEF RunWait
  <2>2. CASE NextBlock \/ Check \/ EndRun
    <3>1. UNCHANGED <<ledger, lidLast, waiter, verdict>>
      BY <2>2 DEF NextBlock, Check, EndRun, trackVars
    <3>2. seq' \in {"idle", "next", "sleeping", "failed"}
      BY <1>1, <2>2 DEF Advance, NextBlock, Check, EndRun
    <3> QED BY <3>1, <3>2 DEF RunWait
  <2> QED BY <1>1, <2>1, <2>2 DEF Advance
<1>2. CASE StepDone \/ SleepEnds
  <2>1. UNCHANGED <<ledger, lidLast, waiter>> /\ seq' \in {"next", "failed"}
    BY <1>2 DEF StepDone, SleepEnds, trackVars
  <2>2. verdict' \in {"none", verdict}
    BY <1>2 DEF StepDone, SleepEnds
  <2> QED BY <2>1, <2>2 DEF RunWait
<1>3. CASE Unwind
  <2>1. OwedLines \in Seq(Kinds) /\ SendAll(OwedLines)
    BY <1>3, OwedTypes, RecoveryKinds DEF Unwind, SendOwed, OwedLines
  <2>2. ledger' \in Seq(Int)
    BY <2>1, SendAllLedger
  <2>3. seq' = "idle" /\ verdict' = "none" /\ UNCHANGED <<lidLast, waiter>>
    BY <1>3 DEF Unwind
  <2> QED BY <2>2, <2>3 DEF RunWait
<1>4. CASE StartRun
  <2>1. UNCHANGED <<ledger, lidLast, waiter, verdict>> /\ seq' = "next"
    BY <1>4 DEF StartRun, trackVars
  <2> QED BY <2>1 DEF RunWait
<1>5. CASE Pressed
  <2>1. PICK kinds \in Seq(Kinds) : SendAll(kinds) \/ ledger' = Append(ledger, -1)
    BY <1>5, PressedSends, ButtonTypes
  <2>2. ledger' \in Seq(Int)
    <3>1. -1 \in Int
      OBVIOUS
    <3>2. ledger \in Seq(Int)
      BY Zenon DEF RunWait
    <3>3. Append(ledger, -1) \in Seq(Int)
      BY <3>1, <3>2, AppendProperties
    <3> QED BY <2>1, <3>3, SendAllLedger
  <2>3. /\ UNCHANGED <<seq, waiter, verdict>>
        /\ UNCHANGED lidLast \/ lidLast' = LidAfter("G28") \/ lidLast' = LidAfter("M280_S115")
    BY <1>5, PressedSends
  <2> QED BY <2>2, <2>3, LidTypes DEF RunWait
<1>6. CASE Stop
  <2>1. <<"M410">> \in Seq(Kinds) /\ SendAll(<<"M410">>)
    BY <1>6, KindsKnown, OneLine DEF Stop
  <2>2. ledger' \in Seq(Int)
    BY <2>1, SendAllLedger
  <2>3. Reject /\ UNCHANGED <<lidLast, verdict>>
    BY <1>6 DEF Stop, SeqFault, RunKept
  <2> QED BY <2>2, <2>3, Rejected DEF RunWait
<1>7. CASE EmergencyStop \/ Disconnect \/ Timeout
  <2>1. Reject /\ UNCHANGED verdict
    BY <1>7 DEF EmergencyStop, Disconnect, Timeout, SeqFault, RunKept
  <2>2. lidLast' \in {"unknown", "open", "closed"}
    BY <1>7 DEF EmergencyStop, Disconnect, Timeout, trackVars, RunWait
  <2>3. ledger' = <<>> \/ ledger' = ledger
    BY <1>7 DEF EmergencyStop, Disconnect, Timeout, trackVars
  <2>4. ledger' \in Seq(Int)
    BY <2>3, Empty DEF RunWait
  <2> QED BY <2>1, <2>2, <2>4, Rejected
<1>8. CASE Connect
  <2>1. ledger' = <<>> /\ lidLast' = "unknown" /\ UNCHANGED <<seq, waiter, verdict>>
    BY <1>8 DEF Connect, runVars
  <2> QED BY <2>1, Empty DEF RunWait
<1>9. CASE HandleLine
  <2> DEFINE what == Head(link).what
  <2>1. CASE FaultLine(what)
    <3>1. Reject /\ UNCHANGED verdict /\ lidLast' \in {"unknown", lidLast}
      BY <2>1 DEF FaultLine, SeqFault
    <3>2. ledger' = <<>> \/ ledger' = ledger
      BY <2>1 DEF FaultLine
    <3>3. ledger' \in Seq(Int) /\ lidLast' \in {"unknown", "open", "closed"}
      BY <3>1, <3>2, Empty DEF RunWait
    <3> QED BY <3>1, <3>3, Rejected
  <2>2. CASE MarkerLine(what) \/ SpinLine(what)
    <3>1. UNCHANGED <<ledger, lidLast, seq, waiter>>
      BY <2>2 DEF MarkerLine, SpinLine, trackVars
    <3>2. verdict' \in {"none", "", "complete"}
      BY <2>2 DEF MarkerLine, SpinLine, IndexRx, LidRx, RunWait
    <3> QED BY <3>1, <3>2 DEF RunWait
  <2>3. CASE OkLine(what)
    <3>1. ledger' \in Seq(Int)
      BY <2>3, HeadTailProperties DEF OkLine, RunWait
    <3>2. UNCHANGED <<lidLast, verdict>>
      BY <2>3 DEF OkLine
    <3>3. CASE UNCHANGED <<waiter, seq>>
      BY <3>1, <3>2, <3>3 DEF RunWait
    <3>4. CASE waiter' = 0 /\ seq' = "answered"
      BY <3>1, <3>2, <3>4 DEF RunWait
    <3> QED BY <2>3, <3>3, <3>4 DEF OkLine
  <2> QED BY <1>9, <2>1, <2>2, <2>3 DEF HandleLine
<1> QED BY <1>1, <1>2, <1>3, <1>4, <1>5, <1>6, <1>7, <1>8, <1>9
   DEF PageStep, Run, Operator, Buttons, Pressed

LEMMA SeqFaultFlag == ASSUME fault \in BOOLEAN, SeqFault PROVE fault' \in BOOLEAN
BY Zenon DEF SeqFault

LEMMA PageFlags == ASSUME RunFlags, PageStep PROVE RunFlags'
<1>1. CASE Advance
  <2>1. UNCHANGED <<homed, fault, due, blind, misheard>>
    BY <1>1, Zenon DEF Advance, NextBlock, Check, Command, EndRun, SendStep, SendAwaited, trackVars
  <2>2. UNCHANGED spun \/ spun' = (spun \/ todo[1] \in Spins)
    BY <1>1, Zenon DEF Advance, NextBlock, Check, Command, EndRun
  <2>3. UNCHANGED fed \/ fed' = (todo[1] # "G90" /\ (fed \/ (todo[1] = "G91" /\ "G90" \notin owed)))
    BY <1>1, Zenon DEF Advance, NextBlock, Check, Command, EndRun
  <2>4. spun' \in BOOLEAN /\ fed' \in BOOLEAN
    BY <2>2, <2>3, Zenon DEF RunFlags
  <2> QED BY <2>1, <2>4, Zenon DEF RunFlags
<1>2. CASE StepDone
  <2>1. UNCHANGED <<fault, due, spun, fed, blind, misheard>>
    BY <1>2 DEF StepDone
  <2>2. UNCHANGED homed \/ homed' = (homed \/ todo[1] = "G28")
    BY <1>2 DEF StepDone
  <2>3. homed' \in BOOLEAN
    BY <2>2, Zenon DEF RunFlags
  <2> QED BY <2>1, <2>3, Zenon DEF RunFlags
<1>3. CASE SleepEnds \/ Unwind \/ Timeout
  BY <1>3, Zenon DEF SleepEnds, Unwind, Timeout, RunKept, trackVars, RunFlags
<1>8. CASE Pressed
  <2>1. UNCHANGED <<homed, fault, spun, fed, misheard>>
    BY <1>8, PressedSends
  <2>2. /\ UNCHANGED due \/ due' = FALSE
        /\ UNCHANGED blind \/ blind' = (blind \/ lidLast # "closed")
    BY <1>8, Zenon DEF Pressed, HomeAll, MoveButton, StartSpin, LidClosed, ButtonKept
  <2>3. due' \in BOOLEAN /\ blind' \in BOOLEAN
    BY <2>2, Zenon DEF RunFlags
  <2> QED BY <2>1, <2>3, Zenon DEF RunFlags
<1>4. CASE StartRun
  <2>1. UNCHANGED <<homed, due, fed, blind>> /\ fault' = FALSE /\ spun' = FALSE /\ misheard' = FALSE
    BY <1>4, Zenon DEF StartRun, trackVars
  <2> QED BY <2>1, Zenon DEF RunFlags
<1>5. CASE Stop \/ EmergencyStop \/ Disconnect
  <2>1. fault' \in BOOLEAN
    BY <1>5, SeqFaultFlag DEF Stop, EmergencyStop, Disconnect, RunFlags
  <2>2. UNCHANGED <<due, spun, fed, blind, misheard>> /\ (homed' = homed \/ homed' = FALSE)
    BY <1>5, Zenon DEF Stop, EmergencyStop, Disconnect, RunKept
  <2> QED BY <2>1, <2>2, Zenon DEF RunFlags
<1>6. CASE Connect
  <2>1. homed' = FALSE /\ UNCHANGED <<fault, due, spun, fed, blind, misheard>>
    BY <1>6, Zenon DEF Connect, runVars
  <2> QED BY <2>1, Zenon DEF RunFlags
<1>7. CASE HandleLine
  <2> DEFINE what == Head(link).what
  <2>1. UNCHANGED <<spun, fed, blind>>
    BY <1>7 DEF HandleLine
  <2>2. CASE FaultLine(what)
    <3>1. fault' \in BOOLEAN /\ UNCHANGED <<due, misheard>>
      BY <2>2, SeqFaultFlag DEF FaultLine, RunFlags
    <3>2. homed' = (homed /\ what = "halted")
      BY <2>2 DEF FaultLine, HomedAfter
    <3>3. homed' \in BOOLEAN
      BY <3>2, Zenon
    <3> QED BY <2>1, <3>1, <3>3, Zenon DEF RunFlags
  <2>3. CASE MarkerLine(what)
    <3>1. homed' = TRUE /\ UNCHANGED <<fault, due, misheard>>
      BY <2>3 DEF MarkerLine
    <3> QED BY <2>1, <3>1, Zenon DEF RunFlags
  <2>4. CASE SpinLine(what)
    BY <2>1, <2>4, Zenon DEF SpinLine, trackVars, RunFlags
  <2>5. CASE OkLine(what)
    <3>1. UNCHANGED <<homed, fault>>
      BY <2>5 DEF OkLine
    <3>2. UNCHANGED misheard \/ misheard' = (misheard \/ Head(link).id # waiter)
      BY <2>5 DEF OkLine
    <3>3. misheard' \in BOOLEAN
      BY <3>2, Zenon DEF RunFlags
    <3>4. UNCHANGED due \/ due' = (due \/ Head(ledger) = -1)
      BY <2>5 DEF OkLine
    <3>5. due' \in BOOLEAN
      BY <3>4, Zenon DEF RunFlags
    <3> QED BY <2>1, <3>1, <3>3, <3>5, Zenon DEF RunFlags
  <2> QED BY <1>7, <2>2, <2>3, <2>4, <2>5 DEF HandleLine
<1> QED BY <1>1, <1>2, <1>3, <1>4, <1>5, <1>6, <1>7, <1>8
   DEF PageStep, Run, Operator, Buttons, Pressed

LEMMA PageRunInv == ASSUME RunInv, RunFlags, PageStep PROVE RunInv'
<1>1. CASE Advance
  <2>1. /\ ~fault /\ UNCHANGED fault /\ seq = "next" /\ waiter = 0
    BY <1>1 DEF Advance, RunInv
  <2>2. CASE NextBlock \/ Check \/ EndRun
    <3>1. UNCHANGED <<waiter, connected>> /\ seq' \in {"idle", "next", "sleeping", "failed"}
      BY <2>1, <2>2 DEF NextBlock, Check, EndRun, NothingSent, trackVars
    <3> QED BY <2>1, <3>1 DEF RunInv
  <2>3. CASE Command
    <3>1. todo' # <<>> /\ seq' = "waiting" /\ UNCHANGED connected
      BY <2>3 DEF Command, SendStep, SendAwaited
    <3> QED BY <2>1, <3>1 DEF RunInv
  <2> QED BY <1>1, <2>2, <2>3 DEF Advance
<1>2. CASE StepDone \/ SleepEnds
  <2>1. /\ UNCHANGED <<fault, waiter, connected>> /\ seq \in {"answered", "sleeping"}
        /\ seq' \in {"next", "failed"} /\ (seq' = "next" => ~fault)
    BY <1>2 DEF StepDone, SleepEnds, NothingSent
  <2> QED BY <2>1 DEF RunInv
<1>3. CASE Unwind
  <2>1. seq = "failed" /\ seq' = "idle" /\ UNCHANGED <<fault, waiter>> /\ UNCHANGED connected
    BY <1>3 DEF Unwind, SendOwed, SendAll
  <2> QED BY <2>1 DEF RunInv
<1>4. CASE StartRun
  <2>1. seq = "idle" /\ seq' = "next" /\ fault' = FALSE /\ connected /\ UNCHANGED <<waiter, connected>>
    BY <1>4 DEF StartRun, Free, NothingSent
  <2> QED BY <2>1 DEF RunInv
<1>5. CASE Pressed
  <2>1. UNCHANGED <<seq, todo, waiter, fault, connected>>
    BY <1>5, PressedSends
  <2> QED BY <2>1 DEF RunInv
<1>6. CASE Stop \/ EmergencyStop \/ Disconnect
  <2>1. ~Busy /\ SeqFault /\ UNCHANGED todo /\ (connected' = connected \/ connected' = FALSE)
    BY <1>6 DEF Stop, EmergencyStop, Disconnect, SendAll, RunKept
  <2>2. seq # "idle" => fault'
    BY <2>1 DEF SeqFault
  <2>3. waiter' = 0 /\ seq' = IF seq = "waiting" THEN "failed" ELSE seq
    BY <2>1 DEF SeqFault, Reject
  <2>4. seq' # "next" /\ seq' # "waiting" /\ seq' # "answered"
    BY <2>1, <2>3 DEF Busy
  <2>5. seq' # "idle" => fault'
    BY <2>2, <2>3
  <2> QED BY <2>3, <2>4, <2>5 DEF RunInv
<1>7. CASE Connect
  <2>1. connected' = TRUE /\ UNCHANGED <<seq, todo, waiter, fault>>
    BY <1>7 DEF Connect, runVars
  <2> QED BY <2>1 DEF RunInv
<1>8. CASE Timeout
  <2>1. seq = "waiting" /\ seq' = "failed" /\ waiter' = 0 /\ UNCHANGED <<fault, connected>>
    BY <1>8 DEF Timeout, Reject, NothingSent
  <2> QED BY <2>1 DEF RunInv
<1>9. CASE HandleLine
  <2> DEFINE what == Head(link).what
  <2>1. connected /\ seq # "next" /\ UNCHANGED <<connected, todo>>
    BY <1>9 DEF HandleLine
  <2>2. CASE FaultLine(what)
    <3>1. waiter' = 0 /\ seq' = IF seq = "waiting" THEN "failed" ELSE seq
      BY <2>2 DEF FaultLine, SeqFault, Reject
    <3> QED BY <2>1, <3>1 DEF RunInv
  <2>3. CASE MarkerLine(what) \/ SpinLine(what)
    <3>1. UNCHANGED <<seq, waiter, fault>>
      BY <2>3 DEF MarkerLine, SpinLine
    <3> QED BY <2>1, <3>1 DEF RunInv
  <2>4. CASE OkLine(what)
    <3>1. UNCHANGED <<seq, waiter>> \/ (waiter # 0 /\ waiter' = 0 /\ seq' = "answered")
      BY <2>4 DEF OkLine
    <3> QED BY <2>1, <3>1 DEF RunInv
  <2> QED BY <1>9, <2>2, <2>3, <2>4 DEF HandleLine
<1> QED BY <1>1, <1>2, <1>3, <1>4, <1>5, <1>6, <1>7, <1>8, <1>9
   DEF PageStep, Run, Operator, Buttons, Pressed

\* Types, the order of the lines and the state of the run, step by step.
Sound == TypeOK /\ QueueOrder /\ RunInv

LEMMA SoundStep == ASSUME Sound, [Next]_vars PROVE Sound'
<1> USE DEF Sound
<1>0. CellTypeOK /\ RunFlags /\ RunPlan /\ RunWait
  BY TypeParts
<1>1. CASE PageStep
  <2>1. CellTypeOK' /\ QueueOrder'
    BY <1>0, <1>1, PageEffect, PageTypes
  <2>2. RunFlags' /\ RunPlan' /\ RunWait'
    BY <1>0, <1>1, PageFlags, PagePlan, PageWait DEF CellTypeOK
  <2>3. RunInv'
    BY <1>0, <1>1, PageRunInv
  <2>4. TypeOK'
    BY <2>1, <2>2 DEF TypeOK, RunFlags, RunPlan, RunWait, StepKinds
  <2> QED BY <2>1, <2>3, <2>4
<1>2. CASE Machine \/ Accidents
  <2>1. CellTypeOK' /\ QueueOrder'
    BY <1>0, <1>2, FirmwareTypes, AccidentTypes DEF Machine, Accidents
  <2>2. UNCHANGED <<trackVars, runVars, connected>>
    BY <1>2 DEF Machine, Accidents, Firmware, Accident
  <2>3. RunFlags'
    BY <1>0, <2>2, Zenon DEF RunFlags, trackVars, runVars
  <2>4. RunPlan' /\ RunWait'
    BY <1>0, <2>2 DEF RunPlan, RunWait, trackVars, runVars
  <2>5. RunInv'
    BY <2>2, Zenon DEF RunInv, trackVars, runVars
  <2>6. TypeOK'
    BY <2>1, <2>3, <2>4 DEF TypeOK, RunFlags, RunPlan, RunWait, StepKinds
  <2> QED BY <2>1, <2>5, <2>6
<1>3. CASE UNCHANGED vars
  <2>1. UNCHANGED <<queueVars, printed, mega, link, cellVars, thrown, connected, mishaps,
                    trackVars, runVars>>
    BY <1>3 DEF vars, machine
  <2>2. QueueTypeOK' /\ QueueOrder'
    BY <1>0, <2>1 DEF CellTypeOK, QueueTypeOK, QueueOrder, Ascending, queueVars
  <2>3. Flags' /\ RunFlags'
    BY <1>0, <2>1, Zenon DEF CellTypeOK, Flags, RunFlags, cellVars, posVars, trackVars, runVars
  <2>4. Parts' /\ link' \in Seq(Reports) /\ connected' \in BOOLEAN /\ mishaps' \in 0..MaxMishaps
    BY <1>0, <2>1 DEF CellTypeOK, Parts, cellVars
  <2>5. RunPlan' /\ RunWait'
    BY <1>0, <2>1 DEF RunPlan, RunWait, trackVars, runVars
  <2>6. RunInv'
    BY <2>1, Zenon DEF RunInv, trackVars, runVars
  <2>7. TypeOK'
    BY <2>2, <2>3, <2>4, <2>5
       DEF TypeOK, CellTypeOK, Flags, Parts, RunFlags, RunPlan, RunWait, StepKinds
  <2> QED BY <2>2, <2>6, <2>7
<1> QED BY <1>1, <1>2, <1>3 DEF Next, PageStep

LEMMA SoundInit == Init => Sound
<1> SUFFICES ASSUME Init PROVE Sound
  OBVIOUS
<1> USE DEF Init, CellInit, QueueInit
<1>1. QueueTypeOK
  BY BufSizeAssumption, RxAssumption, Empty DEF QueueTypeOK
<1>2. Flags /\ RunFlags /\ connected \in BOOLEAN
  BY Zenon DEF Flags, RunFlags
<1>3. Parts /\ mishaps \in 0..MaxMishaps /\ link \in Seq(Reports)
  BY WorkcellAssumption, Empty DEF Parts
<1>4. runs \in 0..MaxRuns
  BY SequencerAssumption
<1>5. RunPlan /\ RunWait
  BY <1>4, Empty DEF RunPlan, RunWait
<1>6. TypeOK
  BY <1>1, <1>2, <1>3, <1>5 DEF TypeOK, CellTypeOK, Flags, Parts, RunFlags, RunPlan, RunWait, StepKinds
<1>7. QueueOrder
  BY DEF QueueOrder, Ascending, NoLine
<1>8. RunInv
  BY DEF RunInv
<1> QED BY <1>6, <1>7, <1>8 DEF Sound

\* Every variable of the machine and of the page keeps its type, and the lines
\* stay in the order in which the page wrote them.
THEOREM SequencerTypes == Spec => [](TypeOK /\ QueueOrder)
<1>1. Sound /\ [Next]_vars => Sound'
  BY SoundStep
<1>2. Sound => TypeOK /\ QueueOrder
  BY DEF Sound
<1> QED BY <1>1, <1>2, SoundInit, PTL DEF Spec

-----------------------------------------------------------------------------
(* A waiting handler has its slot, and a G28 its motors, unless moves are     *)
(* refused.                                                                  *)

LEMMA NoHandlerKind == NoLine.kind \notin Homes
BY DEF NoLine, Homes

LEMMA CellKept ==
    ASSUME CellInv, UNCHANGED <<rx, ring, running, rehome, spoilt>>,
           mega' = mega \/ mega' # "booting"
    PROVE  CellInv'
BY Zenon DEF CellInv

LEMMA FirmwareCell == ASSUME QueueTypeOK, QueueOrder, CellInv, Firmware PROVE CellInv'
<1>1. CASE FetchLine
  <2>1. /\ rx # <<>> /\ ring' = Append(ring, Head(rx)) /\ mega = "up" /\ mega' = "up"
        /\ UNCHANGED <<running, rehome, spoilt>>
    BY <1>1 DEF FetchLine, Fetch, cellVars, posVars
  <2>2. ring # <<>> => ring' # <<>> /\ ring'[1] = ring[1]
    BY <2>1 DEF QueueTypeOK
  <2> QED BY <2>1, <2>2 DEF CellInv
<1>2. CASE Ending
  <2>1. running' = NoLine /\ mega' = "up"
    BY <1>2, EndingQueue DEF Return, Ending
  <2> QED BY <2>1, NoHandlerKind DEF CellInv
<1>3. CASE RotorStops \/ Die
  <2>1. UNCHANGED <<rx, ring, running, rehome, spoilt>> /\ (mega' = mega \/ mega' = "halted")
    BY <1>3 DEF RotorStops, Die, queueVars, posVars
  <2> QED BY <2>1, CellKept
<1>4. CASE Boots
  <2>1. mega = "booting" /\ mega' = "up" /\ UNCHANGED running
    BY <1>4 DEF Boots, queueVars
  <2>2. running' = NoLine
    BY <2>1 DEF CellInv
  <2> QED BY <2>1, <2>2, NoHandlerKind DEF CellInv
<1>5. ASSUME NEW line, Immediate(line) PROVE CellInv'
  <2>1. running' = NoLine /\ mega' = "up"
    BY <1>5, ImmediateQueue DEF Return, Immediate
  <2> QED BY <2>1, NoHandlerKind DEF CellInv
<1>6. ASSUME NEW line, Beginning(line) PROVE CellInv'
  <2>1. /\ running' = line /\ UNCHANGED ring /\ mega' = "up"
        /\ spoilt' = (spoilt /\ line.kind \notin Homes)
    BY <1>6 DEF Beginning, Begin
  <2>2. line = ring[1] /\ ring # <<>>
    BY <1>6, DispatchedLine DEF Beginning, Begin
  <2>3. ~(spoilt' /\ running'.kind \in Homes)
    BY <2>1
  <2> QED BY <2>1, <2>2, <2>3 DEF CellInv
<1> QED BY <1>1, <1>2, <1>3, <1>4, <1>5, <1>6, FirmwareSteps

LEMMA RestartsCell == ASSUME Restarts PROVE CellInv'
<1>1. rx' = <<>> /\ ring' = <<>> /\ running' = NoLine
  BY DEF Restarts
<1> QED BY <1>1, NoHandlerKind DEF CellInv

LEMMA AccidentCell == ASSUME CellInv, Accident PROVE CellInv'
<1>1. CASE PowerLoss
  <2>1. mega' = "up" /\ rehome' = TRUE
    BY <1>1 DEF PowerLoss
  <2> QED BY <2>1 DEF CellInv
<1>2. CASE Die
  <2>1. UNCHANGED <<rx, ring, running, rehome, spoilt>> /\ mega' = "halted"
    BY <1>2 DEF Die, queueVars, posVars
  <2> QED BY <2>1, CellKept
<1> QED BY <1>1, <1>2, RestartsCell DEF Accident

LEMMA PageCell == ASSUME CellInv, PageWrites \/ PageQuiet \/ Restarts PROVE CellInv'
<1>1. CASE PageWrites
  <2>1. UNCHANGED <<ring, running, mega, rehome, spoilt>> /\ (mega = "booting" => rx' = rx)
    BY <1>1 DEF PageWrites, Write, cellVars, posVars
  <2> QED BY <2>1, Zenon DEF CellInv
<1>2. CASE PageQuiet
  <2>1. UNCHANGED <<rx, ring, running, rehome, spoilt, mega>>
    BY <1>2 DEF PageQuiet, queueVars, cellVars, posVars
  <2> QED BY <2>1, CellKept
<1> QED BY <1>1, <1>2, RestartsCell

LEMMA CellStep == ASSUME Sound, CellInv, [Next]_vars PROVE CellInv'
<1>1. CASE Machine
  BY <1>1, FirmwareCell DEF Machine, Sound, TypeOK, CellTypeOK
<1>2. CASE Accidents
  BY <1>2, AccidentCell DEF Accidents
<1>3. CASE PageStep
  BY <1>3, PageEffect, PageCell DEF Sound
<1>4. CASE UNCHANGED vars
  <2>1. UNCHANGED <<rx, ring, running, rehome, spoilt, mega>>
    BY <1>4 DEF vars, machine, queueVars, cellVars, posVars
  <2> QED BY <2>1, CellKept
<1> QED BY <1>1, <1>2, <1>3, <1>4 DEF Next, PageStep

-----------------------------------------------------------------------------
(* While the firmware would carry out a move on axes that are not known, the  *)
(* lines on their way change in two ways only: lines that are no G28 leave,   *)
(* and the page adds lines with higher numbers.                              *)

\* Lines leave, and no G28 does.
Thinned ==
    /\ Pending' \subseteq Pending
    /\ \A line \in Pending : line.kind = "G28" => line \in Pending'

LEMMA ThinnedOrder ==
    ASSUME Thinned
    PROVE  (HomedFirst => HomedFirst') /\ (HomePending => HomePending')
<1>1. HomePending => HomePending'
  BY DEF Thinned, HomePending
<1>2. ASSUME HomedFirst PROVE HomedFirst'
  <2> SUFFICES ASSUME NEW line \in Pending', line.kind \in Reliant
               PROVE  \E home \in Pending' : home.kind = "G28" /\ home.id < line.id
    BY DEF HomedFirst
  <2>1. PICK home \in Pending : home.kind = "G28" /\ home.id < line.id
    BY <1>2 DEF Thinned, HomedFirst
  <2> QED BY <2>1 DEF Thinned
<1> QED BY <1>1, <1>2

\* Of a queue in order, the first line relies on nothing.
LEMMA FirstUnreliant ==
    ASSUME QueueTypeOK, QueueOrder, HomedFirst, ring # <<>>
    PROVE  ring[1].kind \notin Reliant
<1> SUFFICES ASSUME ring[1].kind \in Reliant PROVE FALSE
  OBVIOUS
<1>1. 1 \in 1..Len(ring) /\ ring[1] \in Pending
  BY DEF QueueTypeOK, Pending
<1>2. PICK home \in Pending : home.kind = "G28" /\ home.id < ring[1].id
  BY <1>1 DEF HomedFirst
<1>3. ring[1].id \in Nat
  BY <1>1, LineTypes
<1>4. CASE \E i \in 1..Len(ring) : home = ring[i]
  <2> PICK i \in 1..Len(ring) : home = ring[i]
    BY <1>4
  <2>1. i = 1 \/ 1 < i
    BY DEF QueueTypeOK
  <2>2. ring[i].id \in Nat
    BY LineTypes
  <2>3. 1 < i => ring[1].id < ring[i].id
    BY <1>1 DEF QueueOrder, Ascending
  <2> QED BY <1>2, <1>3, <2>1, <2>2, <2>3
<1>5. CASE \E j \in 1..Len(rx) : home = rx[j]
  <2> PICK j \in 1..Len(rx) : home = rx[j]
    BY <1>5
  <2>1. ring[1].id < rx[j].id /\ rx[j].id \in Nat
    BY <1>1, LineTypes DEF QueueOrder
  <2> QED BY <1>2, <1>3, <2>1
<1> QED BY <1>4, <1>5 DEF Pending

LEMMA AdvanceThins ==
    ASSUME QueueTypeOK, AdvanceR, UNCHANGED rx, ring # <<>>, ring[1].kind # "G28"
    PROVE  Thinned
<1>1. /\ ring' = Tail(ring) /\ Len(ring') = Len(ring) - 1
      /\ \A i \in 1..Len(ring') : i + 1 \in 1..Len(ring) /\ ring'[i] = ring[i + 1]
  BY StepTail DEF AdvanceR, QueueTypeOK
<1>2. \A i \in 1..Len(ring) : i = 1 \/ (i - 1 \in 1..Len(ring') /\ ring'[i - 1] = ring[i])
  BY <1>1 DEF QueueTypeOK
<1>3. Pending' \subseteq Pending
  BY <1>1 DEF Pending
<1>4. \A line \in Pending : line.kind = "G28" => line \in Pending'
  <2> TAKE line \in Pending
  <2> HAVE line.kind = "G28"
  <2>1. CASE \E i \in 1..Len(ring) : line = ring[i]
    <3> PICK i \in 1..Len(ring) : line = ring[i]
      BY <2>1
    <3> QED BY <1>2 DEF Pending
  <2>2. CASE \E j \in 1..Len(rx) : line = rx[j]
    BY <2>2 DEF Pending
  <2> QED BY <2>1, <2>2 DEF Pending
<1> QED BY <1>3, <1>4 DEF Thinned

LEMMA FetchPending == ASSUME QueueTypeOK, Fetch PROVE Pending' = Pending
<1>1. /\ rx # <<>> /\ ring' = Append(ring, rx[1]) /\ rx' = Tail(rx) /\ 1 \in 1..Len(rx)
      /\ Len(rx) \in Nat
  BY DEF Fetch, QueueTypeOK
<1>2. /\ Len(ring') = Len(ring) + 1 /\ ring'[Len(ring) + 1] = rx[1] /\ Len(ring) \in Nat
      /\ \A i \in 1..Len(ring) : ring'[i] = ring[i]
  BY <1>1 DEF QueueTypeOK
<1>3. /\ Len(rx') = Len(rx) - 1
      /\ \A j \in 1..Len(rx') : j + 1 \in 1..Len(rx) /\ rx'[j] = rx[j + 1]
  BY <1>1, StepTail DEF QueueTypeOK
<1>4. \A line \in Pending' : line \in Pending
  <2> TAKE line \in Pending'
  <2>1. CASE \E i \in 1..Len(ring') : line = ring'[i]
    <3> PICK i \in 1..Len(ring') : line = ring'[i]
      BY <2>1
    <3>1. i \in 1..Len(ring) \/ i = Len(ring) + 1
      BY <1>2
    <3> QED BY <1>1, <1>2, <3>1 DEF Pending
  <2>2. CASE \E j \in 1..Len(rx') : line = rx'[j]
    BY <1>3, <2>2 DEF Pending
  <2> QED BY <2>1, <2>2 DEF Pending
<1>5. \A line \in Pending : line \in Pending'
  <2> TAKE line \in Pending
  <2>1. CASE \E i \in 1..Len(ring) : line = ring[i]
    <3> PICK i \in 1..Len(ring) : line = ring[i]
      BY <2>1
    <3>1. i \in 1..Len(ring') /\ ring'[i] = line
      BY <1>2
    <3> QED BY <3>1 DEF Pending
  <2>2. CASE \E j \in 1..Len(rx) : line = rx[j]
    <3> PICK j \in 1..Len(rx) : line = rx[j]
      BY <2>2
    <3>1. CASE j = 1
      <4>1. Len(ring) + 1 \in 1..Len(ring') /\ ring'[Len(ring) + 1] = line
        BY <1>2, <3>1
      <4> QED BY <4>1 DEF Pending
    <3>2. CASE j # 1
      <4>1. j - 1 \in 1..Len(rx') /\ rx'[j - 1] = line
        BY <1>1, <1>3, <3>2
      <4> QED BY <4>1 DEF Pending
    <3> QED BY <3>1, <3>2
  <2> QED BY <2>1, <2>2 DEF Pending
<1> QED BY <1>4, <1>5

LEMMA FetchThins == ASSUME QueueTypeOK, Fetch PROVE Thinned
BY FetchPending DEF Thinned

\* It has neither restarted nor passed a marker.
Tame == \A i \in 1..Len(printed') : printed'[i].what \notin {"start", "marker"}

\* What handlers print besides.
Calm == [what : {"refused", "spin", "complete", "homing", "indexed"}, id : {0}]

LEMMA CalmReports ==
    /\ <<>> \in Seq(Calm)
    /\ \A what \in {"refused", "spin", "complete", "homing", "indexed"} : Report(what) \in Seq(Calm)
    /\ Search \o Report("complete") \in Seq(Calm)
<1>1. \A what \in {"refused", "spin", "complete", "homing", "indexed"} : Report(what) \in Seq(Calm)
  <2> TAKE what \in {"refused", "spin", "complete", "homing", "indexed"}
  <2>1. [what |-> what, id |-> 0] \in Calm
    BY DEF Calm
  <2> QED BY <2>1, OneLine DEF Report
<1>2. Search \in Seq(Calm)
  BY <1>1, ConcatProperties DEF Search
<1>3. Search \o Report("complete") \in Seq(Calm)
  BY <1>1, <1>2, ConcatProperties
<1> QED BY <1>1, <1>3, Empty

LEMMA TameReports ==
    ASSUME NEW reports \in Seq(Calm),
           \/ printed' = reports
           \/ \E line : printed' = Append(reports, Ok(line))
    PROVE  Tame
<1>1. \A i \in 1..Len(reports) : reports[i].what \notin {"start", "marker"}
  <2> TAKE i \in 1..Len(reports)
  <2>1. reports[i] \in Calm
    BY ElementOfSeq
  <2> QED BY <2>1 DEF Calm
<1>2. CASE printed' = reports
  BY <1>1, <1>2 DEF Tame
<1>3. CASE \E line : printed' = Append(reports, Ok(line))
  <2> PICK line : printed' = Append(reports, Ok(line))
    BY <1>3
  <2> DEFINE last == Ok(line)
  <2>0. last.what = "ok"
    BY DEF Ok
  <2> HIDE DEF last
  <2>1. reports \in Seq({reports[i] : i \in 1..Len(reports)} \cup {last})
    BY LenProperties, IsASeq
  <2>2. /\ Len(printed') = Len(reports) + 1 /\ Len(reports) \in Nat
        /\ \A i \in 1..Len(reports) : printed'[i] = reports[i]
        /\ printed'[Len(reports) + 1] = last
    BY <2>1, AppendProperties DEF last
  <2>3. \A i \in 1..Len(printed') : i \in 1..Len(reports) \/ i = Len(reports) + 1
    BY <2>2
  <2> QED BY <1>1, <2>0, <2>2, <2>3 DEF Tame
<1> QED BY <1>2, <1>3

LEMMA SameThins == ASSUME UNCHANGED <<rx, ring>> PROVE Thinned
BY DEF Thinned, Pending

LEMMA EndingRisky ==
    ASSUME QueueTypeOK, CellInv, Ending, Unguarded'
    PROVE  Unguarded /\ Thinned /\ Tame
<1>0. mega = "up" /\ running # NoLine /\ UNCHANGED rx
  BY EndingQueue DEF Ending
<1>1. CASE MoveEnds
  <2>1. UNCHANGED posVars /\ running.kind # "G28" /\ Ended(<<>>)
    BY <1>1 DEF MoveEnds, cellVars, Moves, Distances
  <2>2. Unguarded
    BY <1>0, <2>1 DEF Unguarded, posVars
  <2>3. ring # <<>> /\ ring[1] = running
    BY <1>0, <2>2 DEF Unguarded, CellInv
  <2>4. Thinned
    BY <1>0, <2>1, <2>3, AdvanceThins DEF Ended, Return
  <2>5. Tame
    BY <2>1, CalmReports, TameReports DEF Ended, Return
  <2> QED BY <2>2, <2>4, <2>5
<1>2. CASE SpinEnds
  <2>1. UNCHANGED posVars /\ running.kind # "G28"
    BY <1>2 DEF SpinEnds, Spins
  <2>0. PICK reports \in Seq(Calm) : Ended(reports)
    BY <1>2, CalmReports DEF SpinEnds
  <2>2. Unguarded
    BY <1>0, <2>1 DEF Unguarded, posVars
  <2>3. ring # <<>> /\ ring[1] = running
    BY <1>0, <2>2 DEF Unguarded, CellInv
  <2>4. Thinned
    BY <1>0, <2>0, <2>1, <2>3, AdvanceThins DEF Ended, Return
  <2>5. Tame
    BY <2>0, CalmReports, TameReports DEF Ended, Return
  <2> QED BY <2>2, <2>4, <2>5
<1>3. CASE HomingEnds
  <2>1. /\ running.kind \in Homes /\ Ended(<<>>)
        /\ known' = IF running.kind = "G28" THEN ~spoilt ELSE known
        /\ lifted' = (~known' /\ (lifted \/ rehome))
    BY <1>3 DEF HomingEnds
  <2>2. ~known' /\ ~lifted'
    BY DEF Unguarded
  <2>3. ~lifted /\ ~rehome
    BY <2>1, <2>2
  <2>4. running.kind # "G28"
    BY <2>1, <2>2, <2>3 DEF CellInv
  <2>5. Unguarded
    BY <1>0, <2>1, <2>2, <2>3, <2>4 DEF Unguarded
  <2>6. ring # <<>> /\ ring[1] = running
    BY <1>0, <2>3 DEF CellInv
  <2>7. Thinned
    BY <1>0, <2>1, <2>4, <2>6, AdvanceThins DEF Ended, Return
  <2>8. Tame
    BY <2>1, CalmReports, TameReports DEF Ended, Return
  <2> QED BY <2>5, <2>7, <2>8
<1> QED BY <1>1, <1>2, <1>3 DEF Ending

LEMMA ImmediateRisky ==
    ASSUME QueueTypeOK, QueueOrder, Unguarded => HomedFirst, NEW line, Immediate(line), Unguarded'
    PROVE  Unguarded /\ Thinned /\ Tame
<1>1. mega = "up" /\ UNCHANGED posVars
  BY DEF Immediate, Refuse, SwitchRelay, SetMode, MoveLid, Remark, cellVars
<1>2. Unguarded
  BY <1>1 DEF Unguarded, posVars
<1>3. line = ring[1] /\ ring # <<>>
  BY ImmediateQueue, DispatchedLine
<1>4. line.kind # "M118" /\ line.kind # "G28"
  BY <1>2, <1>3, FirstUnreliant, ImmediateQueue DEF Reliant, Homes
<1>5. Thinned
  BY <1>3, <1>4, ImmediateQueue, AdvanceThins DEF Return
<1>6. \E reports \in Seq(Calm) : Done(line, reports)
  BY <1>4, CalmReports DEF Immediate, Refuse, SwitchRelay, SetMode, MoveLid, Remark
<1>7. Tame
  BY <1>6, CalmReports, TameReports DEF Done, Return
<1> QED BY <1>2, <1>5, <1>7

LEMMA FirmwareRisky ==
    ASSUME QueueTypeOK, QueueOrder, CellInv, Unguarded => HomedFirst, Firmware, Unguarded'
    PROVE  Boots \/ (Unguarded /\ Thinned /\ Tame)
<1>1. CASE FetchLine
  <2>1. UNCHANGED <<posVars, mega>> /\ printed' = <<>>
    BY <1>1 DEF FetchLine, Fetch, Quiet, cellVars
  <2>2. Thinned
    BY <1>1, FetchThins DEF FetchLine
  <2> QED BY <2>1, <2>2, CalmReports, TameReports DEF Unguarded, posVars
<1>2. CASE RotorStops
  <2>1. UNCHANGED <<posVars, mega, rx, ring>> /\ printed' = <<>>
    BY <1>2 DEF RotorStops, Quiet, queueVars
  <2> QED BY <2>1, SameThins, CalmReports, TameReports DEF Unguarded, posVars
<1>3. CASE Die
  BY <1>3 DEF Die, Unguarded
<1>4. ASSUME NEW line, Beginning(line) PROVE Unguarded /\ Thinned /\ Tame
  <2>1. UNCHANGED <<known, rehome, lifted, mega, rx, ring>>
    BY <1>4 DEF Beginning, Begin
  <2>2. printed' \in Seq(Calm)
    BY <1>4, CalmReports DEF Beginning, Begin
  <2> QED BY <2>1, <2>2, SameThins, CalmReports, TameReports DEF Unguarded
<1> QED BY <1>1, <1>2, <1>3, <1>4, EndingRisky, ImmediateRisky, FirmwareSteps

\* What KnownInv says of a firmware that is unguarded.
Warned == HomedFirst /\ (connected => StartComes \/ PageKnows)

LEMMA TameLink ==
    ASSUME link \in Seq(Reports), printed' \in Seq(Reports), Tame, connected, Transmit
    PROVE  /\ Len(link') \in Nat /\ Len(link) <= Len(link') /\ Len(link) \in Nat
           /\ \A i \in 1..Len(link) : link'[i] = link[i]
           /\ \A i \in 1..Len(link') : i > Len(link) => link'[i].what \notin {"start", "marker"}
<1>1. link' = link \o printed'
  BY DEF Transmit
<1>2. /\ Len(link') = Len(link) + Len(printed') /\ Len(link) \in Nat /\ Len(printed') \in Nat
      /\ \A i \in 1..Len(link') : link'[i] = IF i <= Len(link) THEN link[i] ELSE printed'[i - Len(link)]
  BY <1>1, ConcatProperties
<1>3. \A i \in 1..Len(link) : i \in 1..Len(link') /\ i <= Len(link)
  BY <1>2
<1>4. \A i \in 1..Len(link') : i > Len(link) =>
         i - Len(link) \in 1..Len(printed') /\ link'[i] = printed'[i - Len(link)]
  BY <1>2
<1>5. \A i \in 1..Len(link') : i > Len(link) => link'[i].what \notin {"start", "marker"}
  BY <1>4 DEF Tame
<1> QED BY <1>2, <1>3, <1>5

LEMMA MachineWarned ==
    ASSUME Sound, KnownInv, Machine, Unguarded'
    PROVE  Warned'
<1>0. /\ QueueTypeOK /\ QueueOrder /\ CellInv /\ link \in Seq(Reports) /\ (Unguarded => Warned)
      /\ Firmware /\ UNCHANGED <<trackVars, runVars, connected>>
  BY DEF Sound, TypeOK, CellTypeOK, KnownInv, Machine, Firmware, Warned
<1>1. CASE Boots
  <2>1. /\ rx = <<>> /\ ring = <<>> /\ UNCHANGED <<rx, ring>> /\ link = <<>>
        /\ mega = "booting" /\ printed' = Report("start")
    BY <1>0, <1>1 DEF Boots, CellInv, TimePasses, queueVars
  <2>2. HomedFirst'
    <3>1. rx' = <<>> /\ ring' = <<>>
      BY <2>1
    <3>2. Len(rx') = 0 /\ Len(ring') = 0
      BY <3>1
    <3> QED BY <3>2 DEF HomedFirst, Pending
  <2>3. ASSUME connected' PROVE StartComes'
    <3>1. link' = <<>> \o <<[what |-> "start", id |-> 0]>>
      BY <1>0, <2>1, <2>3 DEF Firmware, Transmit, Report
    <3>2. link' # <<>> /\ Len(link') = 1 /\ link'[1] = [what |-> "start", id |-> 0]
      BY <3>1
    <3>3. ~Busy'
      BY <1>0, <2>1 DEF Machine, Busy, runVars
    <3> QED BY <3>2, <3>3 DEF StartComes, Plain
  <2> QED BY <2>2, <2>3 DEF Warned
<1>2. CASE Unguarded /\ Thinned /\ Tame
  <2>1. HomedFirst' /\ (HomePending => HomePending')
    BY <1>0, <1>2, ThinnedOrder DEF Warned
  <2>2. ASSUME connected' PROVE StartComes' \/ PageKnows'
    <3>0. connected /\ printed' \in Seq(Reports)
      BY <1>0, <2>2, FirmwareQueue DEF QueueTypeOK
    <3>1. /\ Len(link') \in Nat /\ Len(link) <= Len(link') /\ Len(link) \in Nat
          /\ \A i \in 1..Len(link) : link'[i] = link[i]
          /\ \A i \in 1..Len(link') : i > Len(link) => link'[i].what \notin {"start", "marker"}
      BY <1>0, <1>2, <3>0, TameLink DEF Firmware
    <3>2. ASSUME NEW first \in 1..2, Plain(first) PROVE Plain(first)'
      <4> SUFFICES ASSUME NEW i \in first..Len(link') PROVE link'[i].what \notin {"start", "marker"}
        BY DEF Plain
      <4>1. CASE i <= Len(link)
        <5>1. i \in first..Len(link) /\ link'[i] = link[i]
          BY <3>1, <4>1
        <5> QED BY <3>2, <5>1 DEF Plain
      <4>2. CASE i > Len(link)
        BY <3>1, <4>2
      <4> QED BY <3>1, <4>1, <4>2
    <3>3. CASE StartComes
      <4>1. link # <<>> /\ 1 \in 1..Len(link)
        BY <1>0, <3>3 DEF StartComes
      <4>2. link'[1] = link[1] /\ link' # <<>>
        BY <3>1, <4>1
      <4>3. ~Busy'
        BY <1>0, <3>3 DEF StartComes, Busy, runVars
      <4> QED BY <3>2, <3>3, <4>2, <4>3 DEF StartComes
    <3>4. CASE PageKnows
      <4>1. Plain(1)'
        BY <3>2, <3>4 DEF PageKnows
      <4>2. UNCHANGED <<homed, todo, seq, fault>>
        BY <1>0 DEF trackVars, runVars
      <4> QED BY <2>1, <3>4, <4>1, <4>2 DEF PageKnows, Active
    <3> QED BY <1>0, <1>2, <3>0, <3>3, <3>4 DEF Warned
  <2> QED BY <2>1, <2>2 DEF Warned
<1> QED BY <1>0, <1>1, <1>2, FirmwareRisky DEF Warned

\* The lines on their way after a write: those before it and, after them, its own.
LEMMA WritePending ==
    ASSUME QueueTypeOK, QueueOrder, NEW kinds \in Seq(Kinds), Write(kinds), mega = "up"
    PROVE  /\ \A line \in Pending : line \in Pending' /\ line.id \in Nat /\ line.id <= sent
           /\ \A i \in 1..Len(kinds) :
                 /\ rx'[Len(rx) + i] \in Pending'
                 /\ rx'[Len(rx) + i].id = sent + i /\ rx'[Len(rx) + i].kind = kinds[i]
           /\ \A line \in Pending' :
                 line \in Pending \/ \E i \in 1..Len(kinds) : line = rx'[Len(rx) + i]
<1>1. /\ Len(rx') = Len(rx) + Len(kinds) /\ Len(rx) \in Nat /\ Len(kinds) \in Nat /\ UNCHANGED ring
      /\ \A j \in 1..Len(rx) : rx'[j] = rx[j]
      /\ \A i \in 1..Len(kinds) :
            /\ rx'[Len(rx) + i].id = sent + i /\ rx'[Len(rx) + i].kind = kinds[i]
  BY WriteAdds DEF QueueTypeOK, Write
<1>2. \A line \in Pending : line \in Pending' /\ line.id \in Nat /\ line.id <= sent
  <2> TAKE line \in Pending
  <2>1. CASE \E i \in 1..Len(ring) : line = ring[i]
    BY <1>1, <2>1, LineTypes DEF Pending, QueueOrder
  <2>2. CASE \E j \in 1..Len(rx) : line = rx[j]
    <3> PICK j \in 1..Len(rx) : line = rx[j]
      BY <2>2
    <3>1. j \in 1..Len(rx') /\ rx'[j] = line
      BY <1>1
    <3> QED BY <3>1, LineTypes DEF Pending, QueueOrder
  <2> QED BY <2>1, <2>2 DEF Pending
<1>3. \A i \in 1..Len(kinds) : rx'[Len(rx) + i] \in Pending'
  <2> TAKE i \in 1..Len(kinds)
  <2>1. Len(rx) + i \in 1..Len(rx')
    BY <1>1
  <2> QED BY <2>1 DEF Pending
<1>4. \A line \in Pending' : line \in Pending \/ \E i \in 1..Len(kinds) : line = rx'[Len(rx) + i]
  <2> TAKE line \in Pending'
  <2>1. CASE \E i \in 1..Len(ring') : line = ring'[i]
    BY <1>1, <2>1 DEF Pending
  <2>2. CASE \E j \in 1..Len(rx') : line = rx'[j]
    <3> PICK j \in 1..Len(rx') : line = rx'[j]
      BY <2>2
    <3>1. CASE j <= Len(rx)
      <4>1. j \in 1..Len(rx) /\ line = rx[j]
        BY <1>1, <3>1
      <4> QED BY <4>1 DEF Pending
    <3>2. CASE j > Len(rx)
      <4>1. j - Len(rx) \in 1..Len(kinds) /\ Len(rx) + (j - Len(rx)) = j
        BY <1>1, <3>2
      <4> QED BY <4>1
    <3> QED BY <1>1, <3>1, <3>2
  <2> QED BY <2>1, <2>2 DEF Pending
<1> QED BY <1>1, <1>2, <1>3, <1>4

\* The page writes lines: each that relies on a home has one before it.
LEMMA WriteWarned ==
    ASSUME QueueTypeOK, QueueOrder, HomedFirst, NEW kinds \in Seq(Kinds), Write(kinds), mega = "up",
           \A i \in 1..Len(kinds) : kinds[i] \in Reliant =>
              HomePending \/ \E j \in 1..Len(kinds) : j < i /\ kinds[j] = "G28"
    PROVE  /\ HomedFirst' /\ (HomePending => HomePending')
           /\ (\E i \in 1..Len(kinds) : kinds[i] = "G28") => HomePending'
<1>1. /\ \A line \in Pending : line \in Pending' /\ line.id \in Nat /\ line.id <= sent
      /\ \A i \in 1..Len(kinds) :
            /\ rx'[Len(rx) + i] \in Pending'
            /\ rx'[Len(rx) + i].id = sent + i /\ rx'[Len(rx) + i].kind = kinds[i]
      /\ \A line \in Pending' :
            line \in Pending \/ \E i \in 1..Len(kinds) : line = rx'[Len(rx) + i]
  BY WritePending
<1>2. HomePending => HomePending'
  BY <1>1 DEF HomePending
<1>3. (\E i \in 1..Len(kinds) : kinds[i] = "G28") => HomePending'
  BY <1>1 DEF HomePending
<1>4. HomedFirst'
  <2> SUFFICES ASSUME NEW line \in Pending', line.kind \in Reliant
               PROVE  \E home \in Pending' : home.kind = "G28" /\ home.id < line.id
    BY DEF HomedFirst
  <2>1. CASE line \in Pending
    BY <1>1, <2>1 DEF HomedFirst
  <2>2. CASE \E i \in 1..Len(kinds) : line = rx'[Len(rx) + i]
    <3> PICK i \in 1..Len(kinds) : line = rx'[Len(rx) + i]
      BY <2>2
    <3>1. line.id = sent + i /\ kinds[i] \in Reliant /\ sent \in Nat
      BY <1>1 DEF QueueTypeOK
    <3>2. CASE HomePending
      <4>1. PICK home \in Pending : home.kind = "G28"
        BY <3>2 DEF HomePending
      <4>2. home.id < line.id
        BY <1>1, <3>1
      <4> QED BY <1>1, <4>1, <4>2
    <3>3. CASE \E j \in 1..Len(kinds) : j < i /\ kinds[j] = "G28"
      <4>1. PICK j \in 1..Len(kinds) : j < i /\ kinds[j] = "G28"
        BY <3>3
      <4>2. rx'[Len(rx) + j] \in Pending' /\ rx'[Len(rx) + j].kind = "G28"
        BY <1>1, <4>1
      <4>3. rx'[Len(rx) + j].id = sent + j /\ sent + j < sent + i
        BY <1>1, <3>1, <4>1
      <4> QED BY <3>1, <4>2, <4>3
    <3> QED BY <3>1, <3>2, <3>3
  <2> QED BY <1>1, <2>1, <2>2
<1> QED BY <1>2, <1>3, <1>4

\* A run that stands as the page left it has its homes.
HomesFirst(steps) ==
    \A i \in 1..Len(steps) :
       steps[i] \in Reliant => HomePending \/ \E j \in 1..Len(steps) : j < i /\ steps[j] = "G28"

LEMMA BlockHomes ==
    ASSUME NEW block \in Blocks, block \in Gated => HomePending
    PROVE  HomesFirst(Steps(block)) /\ HomesFirst(<<"sleep">> \o Steps(block))
<1> DEFINE s == Steps(block)  t == <<"sleep">> \o Steps(block)
<1>1. s \in Seq(StepKinds) /\ <<"sleep">> \in Seq(StepKinds)
  BY BlockSteps, OneLine DEF StepKinds, Checks
<1>2. HomesFirst(s)
  BY BlockSteps DEF HomesFirst
<1>3. /\ Len(t) = Len(s) + 1 /\ Len(s) \in Nat
      /\ t[1] = "sleep" /\ \A i \in 1..Len(s) : t[i + 1] = s[i]
  BY <1>1
<1>4. "sleep" \notin Reliant
  BY DEF Reliant, Moves, Distances
<1> HIDE DEF s, t
<1>5. HomesFirst(t)
  <2> SUFFICES ASSUME NEW i \in 1..Len(t), t[i] \in Reliant, ~HomePending
               PROVE  \E j \in 1..Len(t) : j < i /\ t[j] = "G28"
    BY DEF HomesFirst
  <2>1. i - 1 \in 1..Len(s) /\ t[i] = s[i - 1]
    <3>1. i # 1
      BY <1>3, <1>4
    <3>2. i - 1 \in 1..Len(s) /\ (i - 1) + 1 = i
      BY <1>3, <3>1
    <3> QED BY <1>3, <3>2
  <2>2. PICK j \in 1..Len(s) : j < i - 1 /\ s[j] = "G28"
    BY <1>2, <2>1 DEF HomesFirst
  <2>3. j + 1 \in 1..Len(t) /\ j + 1 < i /\ t[j + 1] = "G28"
    BY <1>3, <2>2
  <2> QED BY <2>3
<1> QED BY <1>2, <1>5 DEF s, t

LEMMA TailHomes ==
    ASSUME todo \in Seq(StepKinds), todo # <<>>, HomesFirst(todo), todo[1] = "G28" => HomePending
    PROVE  HomesFirst(Tail(todo))
<1> DEFINE t == Tail(todo)
<1>1. /\ Len(t) = Len(todo) - 1 /\ Len(todo) \in Nat \ {0}
      /\ \A i \in 1..Len(t) : i + 1 \in 1..Len(todo) /\ t[i] = todo[i + 1]
  BY StepTail
<1> HIDE DEF t
<1>2. HomesFirst(t)
  <2> SUFFICES ASSUME NEW i \in 1..Len(t), t[i] \in Reliant, ~HomePending
               PROVE  \E j \in 1..Len(t) : j < i /\ t[j] = "G28"
    BY DEF HomesFirst
  <2>1. PICK j \in 1..Len(todo) : j < i + 1 /\ todo[j] = "G28"
    BY <1>1 DEF HomesFirst
  <2>2. j # 1
    BY <2>1
  <2>3. j - 1 \in 1..Len(t) /\ (j - 1) + 1 = j /\ j - 1 < i
    BY <1>1, <2>1, <2>2
  <2>4. t[j - 1] = "G28"
    BY <1>1, <2>1, <2>3
  <2> QED BY <2>3, <2>4
<1> QED BY <1>2 DEF t

\* What a page that knows relies on, in these words.
LEMMA Knows ==
    PageKnows <=>
        /\ Plain(1)
        /\ homed => HomePending
        /\ Active => HomesFirst(todo)
        /\ Active /\ seq \in {"waiting", "answered"} /\ todo[1] = "G28" => HomePending
BY DEF PageKnows, HomesFirst

LEMMA KnowsNext ==
    ASSUME Plain(1)', homed' => HomePending', Active' => HomesFirst(todo)',
           Active' /\ seq' \in {"waiting", "answered"} /\ todo'[1] = "G28" => HomePending'
    PROVE  PageKnows'
BY DEF PageKnows, HomesFirst

LEMMA HomesKept ==
    ASSUME NEW steps, HomePending => HomePending', HomesFirst(steps)
    PROVE  \A i \in 1..Len(steps) : steps[i] \in Reliant =>
              HomePending' \/ \E j \in 1..Len(steps) : j < i /\ steps[j] = "G28"
BY DEF HomesFirst

LEMMA PageUnguarded ==
    ASSUME PageWrites \/ PageQuiet \/ Restarts, Unguarded'
    PROVE  Unguarded /\ (PageWrites \/ PageQuiet)
<1>1. CASE Restarts
  BY <1>1 DEF Restarts, Unguarded
<1>2. CASE PageWrites \/ PageQuiet
  <2>1. UNCHANGED <<mega, known, rehome, lifted>>
    BY <1>2 DEF PageWrites, PageQuiet, Write, cellVars, posVars
  <2> QED BY <1>2, <2>1 DEF Unguarded
<1> QED BY <1>1, <1>2

\* Code of the page that runs has handled a start line that had come.
LEMMA PageAware ==
    ASSUME Warned, connected,
           \/ Advance \/ StepDone \/ SleepEnds \/ Unwind \/ LidClosed
           \/ Buttons \/ Stop \/ EmergencyStop \/ Timeout
    PROVE  PageKnows /\ UNCHANGED <<link, connected>>
<1>1. CASE Advance \/ StepDone \/ SleepEnds \/ Unwind \/ LidClosed
  <2>1. Busy \/ Attentive
    BY <1>1 DEF LidClosed, Advance, StepDone, SleepEnds, Unwind, Busy
  <2>2. UNCHANGED <<link, connected>>
    BY <1>1 DEF LidClosed, Advance, NextBlock, Check, EndRun, Command, SendStep, SendAwaited,
       StepDone, SleepEnds, Unwind, SendOwed, SendAll, NothingSent
  <2> QED BY <1>1, <2>1, <2>2 DEF Warned, StartComes, Attentive
<1>2. CASE Buttons
  BY <1>2 DEF Buttons, StartRun, HomeAll, MoveButton, StartSpin, Free, TimePasses, SendAll,
     SendAwaited, NothingSent, Warned, StartComes
<1>3. CASE Stop \/ EmergencyStop \/ Timeout
  <2>1. Attentive
    BY <1>3 DEF Stop, EmergencyStop, Timeout
  <2>2. UNCHANGED <<link, connected>>
    BY <1>3 DEF Stop, EmergencyStop, Timeout, SendAll, NothingSent
  <2> QED BY <2>1, <2>2 DEF Warned, StartComes, Attentive
<1> QED BY <1>1, <1>2, <1>3

\* Steps of a run that send nothing.
LEMMA QuietRunKnows ==
    ASSUME TypeOK, RunInv, PageKnows, connected, Pending' = Pending, UNCHANGED link,
           \/ Advance /\ ~Command
           \/ StepDone \/ SleepEnds \/ StartRun \/ Timeout
    PROVE  PageKnows'
<1>0. /\ Plain(1)' /\ (HomePending' <=> HomePending)
      /\ todo \in Seq(StepKinds) /\ plan \in Seq(Blocks)
  BY DEF PageKnows, Plain, HomePending, TypeOK, StepKinds
<1>1. ASSUME NEW steps, HomesFirst(steps), todo' = steps PROVE HomesFirst(todo)'
  BY <1>0, <1>1 DEF HomesFirst
<1>2. CASE Advance /\ ~Command
  <2>1. seq = "next" /\ Active /\ UNCHANGED <<homed, fault>> /\ HomesFirst(todo)
    BY <1>2, Knows DEF Advance, NextBlock, Check, EndRun, trackVars, RunInv, Active
  <2>2. CASE NextBlock
    <3>1. CASE Locked
      <4>1. seq' = "failed"
        BY <2>2, <3>1 DEF NextBlock
      <4> QED BY <1>0, <2>1, <4>1, KnowsNext, Knows DEF Active
    <3>2. CASE ~Locked
      <4>1. todo' = <<"sleep">> \o Steps(plan[1]) /\ plan # <<>> /\ seq' = "next"
        BY <2>1, <2>2, <3>2 DEF NextBlock
      <4>2. plan[1] \in Blocks
        BY <1>0, <4>1, StepTail
      <4>3. plan[1] \in Gated => HomePending
        BY <3>2, Knows DEF Locked
      <4>4. HomesFirst(todo)'
        BY <1>1, <4>1, <4>2, <4>3, BlockHomes
      <4> QED BY <1>0, <2>1, <4>1, <4>4, KnowsNext, Knows
    <3> QED BY <3>1, <3>2
  <2>3. CASE Check
    <3>1. todo # <<>> /\ todo[1] # "G28" /\ todo' = Tail(todo) /\ seq' \in {"sleeping", "failed", "next"}
      BY <2>3 DEF Check, Checks
    <3>2. HomesFirst(todo)'
      BY <1>0, <1>1, <2>1, <3>1, TailHomes
    <3> QED BY <1>0, <2>1, <3>1, <3>2, KnowsNext, Knows
  <2>4. CASE EndRun
    <3>1. seq' = "idle"
      BY <2>4 DEF EndRun
    <3> QED BY <1>0, <2>1, <3>1, KnowsNext, Knows DEF Active
  <2> QED BY <1>2, <2>2, <2>3, <2>4 DEF Advance
<1>3. CASE StepDone
  <2>1. CASE fault \/ ~Passed
    <3>1. seq' = "failed" /\ UNCHANGED homed
      BY <1>3, <2>1 DEF StepDone
    <3> QED BY <1>0, <3>1, KnowsNext, Knows DEF Active
  <2>2. CASE ~fault /\ Passed
    <3>1. /\ seq = "answered" /\ seq' = "next" /\ todo' = Tail(todo) /\ UNCHANGED fault
          /\ homed' = (homed \/ todo[1] = "G28")
      BY <1>3, <2>2 DEF StepDone
    <3>2. Active /\ todo # <<>>
      BY <2>2, <3>1 DEF Active, RunInv
    <3>3. HomesFirst(todo) /\ (todo[1] = "G28" => HomePending)
      BY <3>1, <3>2, Knows
    <3>4. HomesFirst(todo)'
      BY <1>0, <1>1, <3>1, <3>2, <3>3, TailHomes
    <3>5. homed' => HomePending'
      BY <1>0, <3>1, <3>3, Knows
    <3> QED BY <1>0, <3>1, <3>4, <3>5, KnowsNext
  <2> QED BY <2>1, <2>2
<1>4. CASE SleepEnds \/ Timeout
  <2>1. /\ UNCHANGED <<homed, todo, fault>> /\ seq' \in {"next", "failed"}
        /\ seq \in {"sleeping", "waiting"}
    BY <1>4 DEF SleepEnds, Timeout, Reject, trackVars, RunKept
  <2>2. Active' => Active
    BY <2>1 DEF Active
  <2>3. Active' => HomesFirst(todo)'
    BY <1>1, <2>1, <2>2, Knows
  <2> QED BY <1>0, <2>1, <2>3, KnowsNext, Knows
<1>5. CASE StartRun
  <2>1. PICK program \in Programs : MayStart(program) /\ todo' = Steps(Head(program))
    BY <1>5 DEF StartRun
  <2>2. seq' = "next" /\ UNCHANGED homed
    BY <1>5 DEF StartRun, trackVars
  <2>3. program[1] = Head(program) /\ Head(program) \in Blocks /\ 1 \in 1..Len(program)
    BY FirstBlock
  <2>4. Head(program) \in Gated => HomePending
    BY <2>1, <2>3, Knows DEF MayStart, Gated
  <2>5. HomesFirst(todo)'
    BY <1>1, <2>1, <2>3, <2>4, BlockHomes
  <2> QED BY <1>0, <2>2, <2>5, KnowsNext, Knows
<1> QED BY <1>2, <1>3, <1>4, <1>5

\* The next command of a run has its home before it.
LEMMA CommandWarned ==
    ASSUME TypeOK, QueueOrder, RunInv, HomedFirst, mega = "up", PageKnows, UNCHANGED link,
           Advance, Command
    PROVE  Warned'
<1>1. /\ seq = "next" /\ Active /\ todo # <<>> /\ todo[1] \in Kinds
      /\ Write(<<todo[1]>>) /\ seq' = "waiting" /\ UNCHANGED <<todo, homed, fault>>
  BY DEF Advance, Command, SendStep, SendAwaited, RunInv, Active
<1> DEFINE kinds == <<todo[1]>>
<1>2. kinds \in Seq(Kinds) /\ Len(kinds) = 1 /\ kinds[1] = todo[1]
  BY <1>1, OneLine
<1>3. HomesFirst(todo)
  BY <1>1, Knows
<1>4. todo[1] \in Reliant => HomePending
  <2>1. todo \in Seq(StepKinds)
    BY DEF TypeOK, StepKinds
  <2>2. 1 \in 1..Len(todo)
    BY <1>1, <2>1
  <2>3. ~\E j \in 1..Len(todo) : j < 1
    OBVIOUS
  <2> QED BY <1>3, <2>2, <2>3 DEF HomesFirst
<1> HIDE DEF kinds
<1>5. Write(kinds) /\ \A i \in 1..Len(kinds) : i = 1
  BY <1>1, <1>2 DEF kinds
<1>6. HomedFirst' /\ (HomePending => HomePending') /\ (todo[1] = "G28" => HomePending')
  <2>1. \A i \in 1..Len(kinds) : kinds[i] \in Reliant => HomePending
    BY <1>2, <1>4, <1>5
  <2>2. todo[1] = "G28" => \E i \in 1..Len(kinds) : kinds[i] = "G28"
    BY <1>2
  <2>3. QueueTypeOK
    BY DEF TypeOK, CellTypeOK
  <2>4. /\ HomedFirst' /\ (HomePending => HomePending')
        /\ (\E i \in 1..Len(kinds) : kinds[i] = "G28") => HomePending'
    BY <1>2, <1>5, <2>1, <2>3, WriteWarned
  <2> QED BY <2>2, <2>4
<1>7. HomesFirst(todo)'
  BY <1>1, <1>3, <1>6, HomesKept DEF HomesFirst
<1>8. Plain(1)' /\ (homed' => HomePending')
  BY <1>1, <1>6, Knows DEF Plain
<1> QED BY <1>1, <1>6, <1>7, <1>8, KnowsNext DEF Warned

\* Lines that no run waits for, each with its home before it.
LEMMA SendWarned ==
    ASSUME QueueTypeOK, QueueOrder, HomedFirst, mega = "up", connected => PageKnows,
           NEW kinds \in Seq(Kinds), Write(kinds),
           \A i \in 1..Len(kinds) : kinds[i] \in Reliant =>
              HomePending \/ \E j \in 1..Len(kinds) : j < i /\ kinds[j] = "G28",
           UNCHANGED <<link, connected>>, homed' => homed,
           ~Active' \/ UNCHANGED <<seq, fault, todo>>
    PROVE  Warned'
<1>1. HomedFirst' /\ (HomePending => HomePending')
  BY WriteWarned
<1>2. ASSUME connected' PROVE PageKnows'
  <2>1. PageKnows
    BY <1>2
  <2>2. Plain(1)' /\ (homed' => HomePending')
    BY <1>1, <2>1 DEF PageKnows, Plain
  <2>3. CASE ~Active'
    BY <2>2, <2>3, KnowsNext
  <2>4. CASE UNCHANGED <<seq, fault, todo>>
    <3>1. Active' => Active
      BY <2>4 DEF Active
    <3>2. Active' => HomesFirst(todo)'
      BY <1>1, <2>1, <2>4, <3>1, Knows DEF HomesFirst
    <3>3. Active' /\ seq' \in {"waiting", "answered"} /\ todo'[1] = "G28" => HomePending'
      BY <1>1, <2>1, <2>4, <3>1, Knows
    <3> QED BY <2>2, <3>2, <3>3, KnowsNext
  <2> QED BY <2>3, <2>4
<1> QED BY <1>1, <1>2 DEF Warned

LEMMA FaultEnds == ASSUME SeqFault PROVE ~Active'
<1>1. fault' = (fault \/ seq # "idle") /\ (seq = "idle" => seq' = "idle")
  BY DEF SeqFault, Reject
<1> QED BY <1>1 DEF Active

LEMMA ClickWarned ==
    ASSUME TypeOK, QueueOrder, Warned, mega = "up", Unwind \/ Stop \/ EmergencyStop \/ Pressed
    PROVE  Warned'
<1>0. QueueTypeOK /\ HomedFirst /\ (connected => PageKnows)
  BY PageAware DEF TypeOK, CellTypeOK, Warned, Pressed, Buttons
<1>1. CASE Unwind
  <2>1. OwedLines \in Seq(Kinds) /\ OwedLines \in Seq(Recoveries)
    BY OwedTypes, RecoveryKinds
  <2>2. \A i \in 1..Len(OwedLines) : OwedLines[i] \notin Reliant
    BY <2>1, ElementOfSeq, RecoveryKinds
  <2>3. Write(OwedLines) /\ UNCHANGED <<link, connected, homed>> /\ seq' = "idle"
    BY <1>1 DEF Unwind, SendOwed, SendAll, OwedLines
  <2> QED BY <1>0, <2>1, <2>2, <2>3, SendWarned DEF Active
<1>2. CASE Stop
  <2> DEFINE kinds == <<"M410">>
  <2>1. kinds \in Seq(Kinds) /\ \A i \in 1..Len(kinds) : kinds[i] \notin Reliant
    BY KindsKnown, OneLine DEF Reliant, Moves, Distances
  <2>2. Write(kinds) /\ UNCHANGED <<link, connected, homed>> /\ SeqFault
    BY <1>2 DEF Stop, SendAll
  <2> QED BY <1>0, <2>1, <2>2, SendWarned, FaultEnds
<1>3. CASE EmergencyStop
  <2> DEFINE kinds == <<"M112">>
  <2>1. kinds \in Seq(Kinds) /\ \A i \in 1..Len(kinds) : kinds[i] \notin Reliant
    BY KindsKnown, OneLine DEF Reliant, Moves, Distances
  <2>2. Write(kinds) /\ UNCHANGED <<link, connected>> /\ homed' = FALSE /\ SeqFault
    BY <1>3 DEF EmergencyStop
  <2> QED BY <1>0, <2>1, <2>2, SendWarned, FaultEnds
<1>4. CASE Pressed
  <2>1. PICK kinds \in ButtonLines : Write(kinds) /\ (kinds \in OtherLines \/ MoveButton)
    BY <1>4, PressedSends
  <2>2. kinds \in Seq(Kinds)
    BY ButtonTypes
  <2>3. \/ \A i \in 1..Len(kinds) : kinds[i] \notin Reliant
        \/ kinds = <<"G28", "M118">>
        \/ HomePending
    <3>1. CASE kinds \in OtherLines
      BY <3>1 DEF OtherLines, Reliant, Moves, Distances
    <3>2. CASE MoveButton
      BY <1>0, <3>2, Knows DEF MoveButton, Free
    <3> QED BY <2>1, <3>1, <3>2
  <2>4. \A i \in 1..Len(kinds) : kinds[i] \in Reliant =>
              HomePending \/ \E j \in 1..Len(kinds) : j < i /\ kinds[j] = "G28"
    <3>1. CASE kinds = <<"G28", "M118">>
      <4>1. "G28" \notin Reliant /\ Len(kinds) = 2 /\ kinds[1] = "G28"
        BY <3>1 DEF Reliant, Moves, Distances
      <4> SUFFICES ASSUME NEW i \in 1..Len(kinds), kinds[i] \in Reliant
                   PROVE  1 \in 1..Len(kinds) /\ 1 < i
        BY <4>1
      <4>2. i # 1
        BY <4>1
      <4> QED BY <4>1, <4>2
    <3> QED BY <2>3, <3>1
  <2>5. UNCHANGED <<link, connected, homed, seq, fault, todo>>
    BY <1>4, PressedSends
  <2> QED BY <1>0, <2>1, <2>2, <2>4, <2>5, SendWarned
<1> QED BY <1>1, <1>2, <1>3, <1>4

\* What the page reads: a start stops the run and locks; nothing else but a
\* marker would take the lock away.
LEMMA ReadWarned ==
    ASSUME TypeOK, RunInv, Warned, HandleLine
    PROVE  Warned'
<1> DEFINE what == Head(link).what
<1>0. /\ connected /\ link # <<>> /\ link' = Tail(link) /\ UNCHANGED <<rx, ring, todo, connected>>
      /\ link \in Seq(Reports) /\ (StartComes \/ PageKnows)
  BY DEF HandleLine, queueVars, Warned, TypeOK, CellTypeOK
<1>1. HomedFirst' /\ (HomePending' <=> HomePending)
  BY <1>0, SameThins, ThinnedOrder DEF Warned, HomePending, Pending
<1>2. /\ what = link[1].what /\ 1 \in 1..Len(link)
      /\ \A i \in 1..Len(link') : i + 1 \in 2..Len(link) /\ link'[i] = link[i + 1]
  <2>1. /\ Len(link') = Len(link) - 1 /\ Len(link) \in Nat \ {0} /\ Head(link) = link[1]
        /\ \A i \in 1..Len(link') : i + 1 \in 1..Len(link) /\ link'[i] = link[i + 1]
    BY <1>0, StepTail
  <2> QED BY <2>1
<1>3. Plain(2)
  BY <1>0, <1>2 DEF StartComes, PageKnows, Plain
<1>4. Plain(1)'
  BY <1>2, <1>3 DEF Plain
<1>5. CASE FaultLine(what)
  <2>1. ~Active' /\ homed' = (homed /\ what = "halted")
    BY <1>5, FaultEnds DEF FaultLine, HomedAfter
  <2>2. homed' => PageKnows
    BY <1>0, <1>2, <2>1 DEF StartComes
  <2> QED BY <1>1, <1>4, <2>1, <2>2, KnowsNext, Knows DEF Warned
<1>6. CASE ~FaultLine(what)
  <2>1. MarkerLine(what) \/ SpinLine(what) \/ OkLine(what)
    BY <1>6 DEF HandleLine
  <2>2. what # "start"
    BY <2>1 DEF MarkerLine, SpinLine, OkLine
  <2>3. PageKnows /\ what # "marker"
    BY <1>0, <1>2, <2>2 DEF StartComes, PageKnows, Plain
  <2>4. UNCHANGED <<homed, fault>> /\ (UNCHANGED seq \/ (waiter # 0 /\ seq' = "answered"))
    BY <2>1, <2>3 DEF MarkerLine, SpinLine, OkLine, trackVars
  <2>5. UNCHANGED seq \/ (seq = "waiting" /\ seq' = "answered")
    BY <2>4 DEF RunInv
  <2>6. Active' => Active
    BY <2>4, <2>5 DEF Active
  <2>7. Active' => HomesFirst(todo)'
    BY <1>0, <1>1, <2>3, <2>6, Knows DEF HomesFirst
  <2>8. Active' /\ seq' \in {"waiting", "answered"} /\ todo'[1] = "G28" => HomePending'
    BY <1>0, <1>1, <2>3, <2>5, <2>6, Knows
  <2>9. homed' => HomePending'
    BY <1>1, <2>3, <2>4, Knows
  <2>10. PageKnows'
    BY <1>4, <2>7, <2>8, <2>9, KnowsNext
  <2> QED BY <1>1, <2>10 DEF Warned
<1> QED BY <1>5, <1>6

LEMMA PageWarned ==
    ASSUME Sound, KnownInv, PageStep, Unguarded'
    PROVE  Warned'
<1>1. TypeOK /\ QueueOrder /\ RunInv /\ QueueTypeOK
  BY DEF Sound, TypeOK, CellTypeOK
<1>2. Unguarded /\ Warned /\ mega = "up" /\ ~Restarts
  <2>1. Unguarded /\ ~Restarts
    BY <1>1, PageEffect, PageUnguarded DEF Restarts, Unguarded
  <2> QED BY <2>1 DEF KnownInv, Warned, Unguarded
<1>3. CASE Advance /\ Command
  <2>1. seq = "next" /\ UNCHANGED <<link, connected>>
    BY <1>3 DEF Advance, Command, SendStep, SendAwaited
  <2>2. connected
    BY <1>1, <2>1 DEF RunInv
  <2>3. PageKnows
    BY <1>2, <1>3, <2>1, <2>2, PageAware
  <2> QED BY <1>1, <1>2, <1>3, <2>1, <2>3, CommandWarned DEF Warned
<1>4. CASE \/ Advance /\ ~Command
           \/ StepDone \/ SleepEnds \/ StartRun \/ Timeout
  <2>1. UNCHANGED <<rx, ring, link, connected>>
    BY <1>4 DEF Advance, NextBlock, Check, EndRun, StepDone, SleepEnds, StartRun, Timeout,
       NothingSent, queueVars
  <2>2. HomedFirst' /\ Pending' = Pending
    BY <1>2, <2>1, SameThins, ThinnedOrder DEF Warned, Pending
  <2>3. connected => PageKnows'
    BY <1>1, <1>2, <1>4, <2>1, <2>2, PageAware, QuietRunKnows DEF Buttons
  <2> QED BY <2>1, <2>2, <2>3 DEF Warned
<1>5. CASE Unwind \/ Stop \/ EmergencyStop \/ Pressed
  BY <1>1, <1>2, <1>5, ClickWarned
<1>6. CASE HandleLine
  BY <1>1, <1>2, <1>6, ReadWarned
<1>7. CASE Disconnect
  <2>1. connected' = FALSE /\ UNCHANGED <<rx, ring>>
    BY <1>7 DEF Disconnect, queueVars
  <2> QED BY <1>2, <2>1, SameThins, ThinnedOrder DEF Warned
<1>8. CASE Connect
  BY <1>2, <1>8 DEF Connect
<1> QED BY <1>3, <1>4, <1>5, <1>6, <1>7, <1>8 DEF PageStep, Run, Operator, Buttons, Pressed

LEMMA AccidentGuards == ASSUME Accident PROVE ~Unguarded'
BY DEF Accident, PowerLoss, Die, Restarts, Unguarded

LEMMA KnownStep == ASSUME Sound, KnownInv, [Next]_vars PROVE KnownInv'
<1>1. CellInv' /\ RunInv'
  BY CellStep, SoundStep DEF KnownInv, Sound
<1>2. ASSUME Unguarded' PROVE Warned'
  <2>1. CASE Machine
    BY <1>2, <2>1, MachineWarned
  <2>2. CASE Accidents
    BY <1>2, <2>2, AccidentGuards DEF Accidents
  <2>3. CASE PageStep
    BY <1>2, <2>3, PageWarned
  <2>4. CASE UNCHANGED vars
    <3>1. /\ UNCHANGED <<mega, known, rehome, lifted, rx, ring, connected, link>>
          /\ UNCHANGED <<seq, homed, fault, todo, due>>
      BY <2>4 DEF vars, machine, queueVars, cellVars, posVars, trackVars, runVars
    <3>2. HomedFirst' <=> HomedFirst
      BY <3>1 DEF HomedFirst, Pending
    <3>3. StartComes' <=> StartComes
      BY <3>1, Zenon DEF StartComes, Plain, Busy
    <3>4. PageKnows' <=> PageKnows
      BY <3>1 DEF PageKnows, Plain, Active, HomePending, Pending
    <3>5. Unguarded /\ (Unguarded => Warned)
      BY <1>2, <3>1 DEF Unguarded, KnownInv, Warned
    <3> QED BY <3>1, <3>2, <3>3, <3>4, <3>5 DEF Warned
  <2> QED BY <2>1, <2>2, <2>3, <2>4 DEF Next, PageStep
<1> QED BY <1>1, <1>2 DEF KnownInv, Warned

LEMMA KnownInit == Init => KnownInv
<1> SUFFICES ASSUME Init PROVE KnownInv
  OBVIOUS
<1>1. /\ rx = <<>> /\ ring = <<>> /\ running = NoLine /\ mega = "booting" /\ seq = "idle"
      /\ waiter = 0 /\ connected
  BY DEF Init, CellInit, QueueInit
<1> QED BY <1>1, NoHandlerKind DEF KnownInv, CellInv, RunInv, Unguarded

\* Whenever the firmware would carry out a move on axes that are not known, no
\* line that relies on a home is on its way before a G28, and the page will send
\* none: the start that locks it is on its way, or it is locked.
THEOREM KnownHolds == Spec => []KnownInv
<1>1. Init => Sound /\ KnownInv
  BY SoundInit, KnownInit
<1>2. Sound /\ KnownInv /\ [Next]_vars => Sound' /\ KnownInv'
  BY SoundStep, KnownStep
<1> QED BY <1>1, <1>2, PTL DEF Spec

\* A handler that waits begins with the first line in the queue, and a move is not
\* refused.
LEMMA LineStarts ==
    ASSUME [Next]_vars, TypeOK, QueueOrder, running' # running, running' # NoLine
    PROVE  mega = "up" /\ ring # <<>> /\ running' = ring[1] /\ Waits(ring[1])
<1>1. ASSUME NEW line, Beginning(line)
      PROVE  mega = "up" /\ ring # <<>> /\ running' = ring[1] /\ Waits(ring[1])
  <2>1. mega = "up" /\ Dispatch(line) /\ Waits(line) /\ running' = line
    BY <1>1 DEF Beginning, Begin
  <2>2. line = ring[1] /\ ring # <<>>
    BY <2>1, DispatchedLine DEF TypeOK, CellTypeOK
  <2> QED BY <2>1, <2>2
<1>2. CASE Machine
  <2>1. CASE FetchLine \/ RotorStops \/ Die \/ Boots
    BY <2>1 DEF FetchLine, RotorStops, Die, Boots, queueVars
  <2>2. CASE Ending
    BY <2>2, EndingQueue DEF Return
  <2>3. ASSUME NEW line, Immediate(line) PROVE FALSE
    BY <2>3, ImmediateQueue DEF Return
  <2> QED BY <1>1, <1>2, <2>1, <2>2, <2>3, FirmwareSteps DEF Machine
<1>3. CASE Accidents
  BY <1>3 DEF Accidents, Accident, PowerLoss, Die, Restarts, queueVars
<1>4. CASE PageStep
  BY <1>4, PageEffect DEF PageWrites, PageQuiet, Write, Restarts, queueVars
<1>5. CASE UNCHANGED vars
  BY <1>5 DEF vars, machine, queueVars
<1> QED BY <1>2, <1>3, <1>4, <1>5 DEF Next, PageStep

LEMMA MoveStarts ==
    ASSUME [Next]_vars, TypeOK, QueueOrder, running' # running, running'.kind \in Moves
    PROVE  mega = "up" /\ ~rehome /\ ring # <<>> /\ running' = ring[1]
<1>1. running' # NoLine /\ running'.kind \notin Homes \cup Spins
  BY DEF NoLine, Homes, Spins, Moves, Distances
<1> QED BY <1>1, LineStarts DEF Waits

\* No move of a gated block is carried out on axes whose position nobody knows,
\* unless a G28 that the E-stop interrupted came to its end.
THEOREM KnownMoves == Spec => MovesOnKnownAxes
<1> DEFINE Kept == CarriesOut(Moves) => known \/ lifted
<1>1. ASSUME Sound, KnownInv, [Next]_vars, CarriesOut(Moves) PROVE known \/ lifted
  <2>1. mega = "up" /\ ~rehome /\ ring # <<>> /\ ring[1].kind \in Moves
    BY <1>1, MoveStarts DEF Sound, CarriesOut
  <2>2. ring[1].kind \in Reliant
    BY <2>1 DEF Reliant
  <2>3. ~HomedFirst
    BY <1>1, <2>1, <2>2, FirstUnreliant DEF Sound, TypeOK, CellTypeOK
  <2> QED BY <1>1, <2>1, <2>3 DEF KnownInv, Unguarded
<1>2. Init => Sound /\ KnownInv
  BY SoundInit, KnownInit
<1>3. Sound /\ KnownInv /\ [Next]_vars => Sound' /\ KnownInv' /\ [Kept]_vars
  BY <1>1, SoundStep, KnownStep
<1> QED BY <1>2, <1>3, PTL DEF Spec, MovesOnKnownAxes

-----------------------------------------------------------------------------
(* However a run ends, no relay stays on: each that would is still to be      *)
(* switched off by a step of the run or by a finally (#186).                  *)

LEMMA RelayKinds ==
    \A r \in Relays :
       /\ On(r) # Off(r) /\ On(r) \notin Checks /\ Off(r) \notin Checks
       /\ Off(r) \in Recoveries /\ On(r) \notin Recoveries
       /\ On(r) \notin {"G28", "M118", "M410", "M112"}
       /\ Off(r) # "G90" /\ Off(r) # NoLine.kind
       /\ Off(r) \notin Homes \cup Moves \cup Spins
       /\ \A q \in Relays : q # r => Off(q) # Off(r) /\ On(q) # On(r) /\ On(q) # Off(r)
BY DEF Relays, On, Off, Checks, Recoveries, NoLine, Homes, Moves, Distances, Spins

-----------------------------------------------------------------------------
(* A relay comes to stay on only by a line that switches it on.               *)

LEMMA SameStays ==
    ASSUME NEW r, Pending' = Pending, UNCHANGED relays
    PROVE  StaysOn(r)' <=> StaysOn(r)
BY DEF StaysOn

\* Lines leave from the front, carried out or not.
LEMMA LinesLeave ==
    ASSUME NEW r \in Relays, Pending' \subseteq Pending,
           \A line \in Pending : line \in Pending' \/ \A later \in Pending' : line.id < later.id,
           r \in relays' =>
              \/ r \in relays /\ \A line \in Pending : line \in Pending' \/ line.kind # Off(r)
              \/ \E on \in Pending :
                    on.kind = On(r) /\ \A line \in Pending : line \in Pending' \/ line.kind # Off(r),
           StaysOn(r)'
    PROVE  StaysOn(r)
<1>1. CASE \E on \in Pending' :
              on.kind = On(r) /\ \A off \in Pending' : off.kind = Off(r) => off.id < on.id
  <2> PICK on \in Pending' :
              on.kind = On(r) /\ \A off \in Pending' : off.kind = Off(r) => off.id < on.id
    BY <1>1
  <2>1. on \in Pending /\ \A off \in Pending : off.kind = Off(r) => off.id < on.id
    OBVIOUS
  <2> QED BY <2>1 DEF StaysOn
<1>2. CASE r \in relays' /\ \A off \in Pending' : off.kind # Off(r)
  BY <1>2 DEF StaysOn
<1> QED BY <1>1, <1>2 DEF StaysOn

\* What a slot that is freed does to the lines on their way.
LEMMA FirstLeaves ==
    ASSUME QueueTypeOK, QueueOrder, AdvanceR, UNCHANGED rx, ring # <<>>
    PROVE  /\ ring[1] \in Pending /\ Pending' \subseteq Pending
           /\ \A line \in Pending : line \in Pending' \/ line = ring[1]
           /\ \A later \in Pending' : ring[1].id < later.id
<1>1. /\ ring' = Tail(ring) /\ Len(ring') = Len(ring) - 1 /\ Len(ring) \in Nat /\ 1 \in 1..Len(ring)
      /\ \A i \in 1..Len(ring') : i + 1 \in 1..Len(ring) /\ ring'[i] = ring[i + 1]
  BY StepTail DEF AdvanceR, QueueTypeOK
<1>2. \A i \in 1..Len(ring) : i = 1 \/ (i - 1 \in 1..Len(ring') /\ ring'[i - 1] = ring[i])
  BY <1>1
<1>3. ring[1] \in Pending /\ Pending' \subseteq Pending
  BY <1>1 DEF Pending
<1>4. \A line \in Pending : line \in Pending' \/ line = ring[1]
  <2> TAKE line \in Pending
  <2>1. CASE \E i \in 1..Len(ring) : line = ring[i]
    BY <1>2, <2>1 DEF Pending
  <2>2. CASE \E j \in 1..Len(rx) : line = rx[j]
    BY <2>2 DEF Pending
  <2> QED BY <2>1, <2>2 DEF Pending
<1>5. \A later \in Pending' : ring[1].id < later.id
  <2> TAKE later \in Pending'
  <2>1. CASE \E i \in 1..Len(ring') : later = ring'[i]
    <3> PICK i \in 1..Len(ring') : later = ring'[i]
      BY <2>1
    <3>1. i + 1 \in 1..Len(ring) /\ 1 < i + 1 /\ later = ring[i + 1]
      BY <1>1
    <3> QED BY <1>1, <3>1 DEF QueueOrder, Ascending
  <2>2. CASE \E j \in 1..Len(rx) : later = rx[j]
    BY <1>1, <2>2 DEF QueueOrder
  <2> QED BY <2>1, <2>2 DEF Pending
<1> QED BY <1>3, <1>4, <1>5

LEMMA EndingStays ==
    ASSUME QueueTypeOK, QueueOrder, SlotInv, Ending, NEW r \in Relays, StaysOn(r)'
    PROVE  StaysOn(r)
<1>1. /\ running # NoLine /\ AdvanceR /\ UNCHANGED <<rx, relays>>
      /\ running.kind \in Homes \cup Moves \cup Spins
  BY EndingQueue DEF Return, Ending, MoveEnds, HomingEnds, SpinEnds, cellVars
<1>2. CASE ring = <<>>
  <2>1. Pending' = Pending
    BY <1>1, <1>2 DEF AdvanceR, Pending
  <2> QED BY <1>1, <2>1, SameStays
<1>3. CASE ring # <<>>
  <2>1. /\ Pending' \subseteq Pending
        /\ \A line \in Pending : line \in Pending' \/ line = ring[1]
        /\ \A later \in Pending' : ring[1].id < later.id
    BY <1>1, <1>3, FirstLeaves
  <2>2. r \in relays' => r \in relays /\ ring[1].kind # Off(r)
    BY <1>1, <1>3, RelayKinds DEF SlotInv
  <2> QED BY <2>1, <2>2, LinesLeave
<1> QED BY <1>2, <1>3

LEMMA ImmediateStays ==
    ASSUME QueueTypeOK, QueueOrder, NEW line, Immediate(line), NEW r \in Relays, StaysOn(r)'
    PROVE  StaysOn(r)
<1>1. /\ Dispatch(line) /\ AdvanceR /\ UNCHANGED rx
      /\ line = ring[1] /\ ring # <<>>
  BY ImmediateQueue, DispatchedLine DEF Return
<1>2. /\ ring[1] \in Pending /\ Pending' \subseteq Pending
      /\ \A other \in Pending : other \in Pending' \/ other = ring[1]
      /\ \A later \in Pending' : ring[1].id < later.id
  BY <1>1, FirstLeaves
<1>3. r \in relays' => (r \in relays /\ line.kind # Off(r)) \/ line.kind = On(r)
  <2>1. CASE SwitchRelay(line)
    <3>1. PICK q \in Relays : \/ line.kind = On(q)  /\ relays' = relays \cup {q}
                              \/ line.kind = Off(q) /\ relays' = relays \ {q}
      BY <2>1 DEF SwitchRelay
    <3> QED BY <3>1, RelayKinds
  <2>2. CASE ~SwitchRelay(line)
    <3>1. UNCHANGED relays
      BY <2>2 DEF Immediate, Refuse, SetMode, MoveLid, Remark, cellVars
    <3>2. line.kind # Off(r)
      BY <2>2 DEF Immediate, Refuse, SetMode, MoveLid, Remark, Moves, Distances, Off, Relays
    <3> QED BY <3>1, <3>2
  <2> QED BY <2>1, <2>2
<1>4. On(r) # Off(r)
  BY RelayKinds
<1> QED BY <1>1, <1>2, <1>3, <1>4, LinesLeave

LEMMA NothingStays ==
    ASSUME NEW r, Pending = {}, relays = {}
    PROVE  ~StaysOn(r)
BY DEF StaysOn

LEMMA FirmwareStays ==
    ASSUME QueueTypeOK, QueueOrder, SlotInv, CellInv, Firmware, mega' = "up",
           NEW r \in Relays, StaysOn(r)'
    PROVE  mega = "up" /\ StaysOn(r)
<1>1. CASE FetchLine
  BY <1>1, FetchPending, SameStays DEF FetchLine, cellVars
<1>2. CASE Ending
  BY <1>2, EndingStays DEF Ending
<1>3. CASE RotorStops
  <2>1. Pending' = Pending /\ UNCHANGED <<relays, mega>>
    BY <1>3 DEF RotorStops, queueVars, Pending
  <2> QED BY <2>1, SameStays
<1>4. CASE Die
  BY <1>4 DEF Die
<1>5. CASE Boots
  <2>1. relays' = {} /\ rx' = <<>> /\ ring' = <<>>
    BY <1>5 DEF Boots, AllOff, CellInv, queueVars
  <2>2. Len(rx') = 0 /\ Len(ring') = 0
    BY <2>1
  <2>3. Pending' = {}
    BY <2>2 DEF Pending
  <2> QED BY <2>1, <2>3 DEF StaysOn
<1>6. ASSUME NEW line, Immediate(line) PROVE mega = "up" /\ StaysOn(r)
  BY <1>6, ImmediateStays DEF Immediate
<1>7. ASSUME NEW line, Beginning(line) PROVE mega = "up" /\ StaysOn(r)
  <2>1. Pending' = Pending /\ UNCHANGED relays /\ mega = "up"
    BY <1>7 DEF Beginning, Begin, Pending
  <2> QED BY <2>1, SameStays
<1> QED BY <1>1, <1>2, <1>3, <1>4, <1>5, <1>6, <1>7, FirmwareSteps

\* The E-stop takes the ring, and with it only lines that are first.
LEMMA LossStays ==
    ASSUME QueueTypeOK, QueueOrder, PowerLoss, NEW r \in Relays, StaysOn(r)'
    PROVE  mega = "up" /\ StaysOn(r)
<1>1. mega = "up" /\ relays' = {} /\ ring' = <<>> /\ UNCHANGED rx
  BY DEF PowerLoss, AllOff, ClearRing
<1>2. Pending' = {rx[j] : j \in 1..Len(rx)}
  <2>1. Len(ring') = 0
    BY <1>1
  <2>2. {ring'[i] : i \in 1..Len(ring')} = {}
    BY <2>1
  <2> QED BY <1>1, <2>2 DEF Pending
<1>3. \A line \in Pending : line \in Pending' \/ \A later \in Pending' : line.id < later.id
  BY <1>2 DEF Pending, QueueOrder
<1>4. Pending' \subseteq Pending
  BY <1>2 DEF Pending
<1> QED BY <1>1, <1>3, <1>4, LinesLeave

\* Lines of which none switches the relay on, and none off, leave it as it is.
LEMMA WriteStays ==
    ASSUME QueueTypeOK, QueueOrder, NEW kinds \in Seq(Kinds), Write(kinds), mega = "up",
           NEW r \in Relays, \A i \in 1..Len(kinds) : kinds[i] # On(r), StaysOn(r)'
    PROVE  StaysOn(r) /\ \A i \in 1..Len(kinds) : kinds[i] # Off(r)
<1>1. /\ \A line \in Pending : line \in Pending' /\ line.id \in Nat /\ line.id <= sent
      /\ \A i \in 1..Len(kinds) :
            /\ rx'[Len(rx) + i] \in Pending'
            /\ rx'[Len(rx) + i].id = sent + i /\ rx'[Len(rx) + i].kind = kinds[i]
      /\ \A line \in Pending' :
            line \in Pending \/ \E i \in 1..Len(kinds) : line = rx'[Len(rx) + i]
  BY WritePending
<1>2. UNCHANGED relays /\ sent \in Nat
  BY DEF Write, cellVars, QueueTypeOK
<1>3. CASE \E on \in Pending' :
              on.kind = On(r) /\ \A off \in Pending' : off.kind = Off(r) => off.id < on.id
  <2> PICK on \in Pending' :
              on.kind = On(r) /\ \A off \in Pending' : off.kind = Off(r) => off.id < on.id
    BY <1>3
  <2>1. on \in Pending
    BY <1>1
  <2>2. StaysOn(r)
    BY <1>1, <2>1 DEF StaysOn
  <2>3. ASSUME NEW i \in 1..Len(kinds), kinds[i] = Off(r) PROVE FALSE
    <3>1. sent + i < on.id
      BY <1>1, <2>3
    <3> QED BY <1>1, <1>2, <2>1, <3>1
  <2> QED BY <2>2, <2>3
<1>4. CASE r \in relays' /\ \A off \in Pending' : off.kind # Off(r)
  BY <1>1, <1>2, <1>4 DEF StaysOn
<1> QED BY <1>3, <1>4 DEF StaysOn

-----------------------------------------------------------------------------
(* A waiting handler has lost its slot only with its relays.                  *)

LEMMA SlotKept ==
    ASSUME SlotInv, UNCHANGED <<ring, running, relays>>
    PROVE  SlotInv'
BY DEF SlotInv

LEMMA FirmwareSlot == ASSUME QueueTypeOK, QueueOrder, SlotInv, Firmware PROVE SlotInv'
<1>1. CASE FetchLine
  <2>1. rx # <<>> /\ ring' = Append(ring, Head(rx)) /\ UNCHANGED <<running, relays>>
    BY <1>1 DEF FetchLine, Fetch, cellVars
  <2>2. ring # <<>> => ring' # <<>> /\ ring'[1] = ring[1]
    BY <2>1 DEF QueueTypeOK
  <2> QED BY <2>1, <2>2 DEF SlotInv
<1>2. CASE Ending
  <2>1. running' = NoLine
    BY <1>2, EndingQueue DEF Return
  <2> QED BY <2>1 DEF SlotInv
<1>3. CASE RotorStops
  BY <1>3, SlotKept DEF RotorStops, queueVars
<1>4. CASE Die \/ Boots
  <2>1. relays' = {}
    BY <1>4 DEF Die, Boots, AllOff
  <2> QED BY <2>1 DEF SlotInv
<1>5. ASSUME NEW line, Immediate(line) PROVE SlotInv'
  <2>1. running' = NoLine
    BY <1>5, ImmediateQueue DEF Return
  <2> QED BY <2>1 DEF SlotInv
<1>6. ASSUME NEW line, Beginning(line) PROVE SlotInv'
  <2>1. running' = line /\ UNCHANGED ring /\ line = ring[1] /\ ring # <<>>
    BY <1>6, DispatchedLine DEF Beginning, Begin
  <2> QED BY <2>1 DEF SlotInv
<1> QED BY <1>1, <1>2, <1>3, <1>4, <1>5, <1>6, FirmwareSteps

LEMMA SlotStep == ASSUME Sound, SlotInv, [Next]_vars PROVE SlotInv'
<1>1. CASE Machine
  BY <1>1, FirmwareSlot DEF Machine, Sound, TypeOK, CellTypeOK
<1>2. CASE Accidents
  <2>1. CASE PowerLoss \/ Die
    <3>1. relays' = {}
      BY <2>1 DEF PowerLoss, Die, AllOff
    <3> QED BY <3>1 DEF SlotInv
  <2>2. CASE Restarts
    <3>1. running' = NoLine
      BY <2>2 DEF Restarts
    <3> QED BY <3>1 DEF SlotInv
  <2> QED BY <1>2, <2>1, <2>2 DEF Accidents, Accident
<1>3. CASE PageStep
  <2>1. PageWrites \/ PageQuiet \/ Restarts
    BY <1>3, PageEffect DEF Sound
  <2>2. CASE Restarts
    <3>1. running' = NoLine
      BY <2>2 DEF Restarts
    <3> QED BY <3>1 DEF SlotInv
  <2>3. CASE PageWrites \/ PageQuiet
    <3>1. UNCHANGED <<ring, running, relays>>
      BY <2>3 DEF PageWrites, Write, PageQuiet, queueVars, cellVars
    <3> QED BY <3>1, SlotKept
  <2> QED BY <2>1, <2>2, <2>3
<1>4. CASE UNCHANGED vars
  BY <1>4, SlotKept DEF vars, machine, queueVars, cellVars
<1> QED BY <1>1, <1>2, <1>3, <1>4 DEF Next, PageStep

-----------------------------------------------------------------------------
(* The run has the switching-off of a relay before it.                        *)

\* Every line that switches a relay on has one behind it that switches it off.
Balanced(steps) ==
    \A r \in Relays, i \in 1..Len(steps) :
       steps[i] = On(r) => \E j \in 1..Len(steps) : i < j /\ steps[j] = Off(r)

LEMMA BlockBalanced ==
    ASSUME NEW block \in Blocks
    PROVE  Balanced(Steps(block)) /\ Balanced(<<"sleep">> \o Steps(block))
<1> DEFINE s == Steps(block)  t == <<"sleep">> \o Steps(block)
<1>1. s \in Seq(StepKinds) /\ <<"sleep">> \in Seq(StepKinds)
  BY BlockSteps, OneLine DEF StepKinds, Checks
<1>2. Balanced(s)
  BY DEF Balanced, Steps, SpinSteps, StampSteps, CureSteps, Blocks, Relays, On, Off
<1>3. /\ Len(t) = Len(s) + 1 /\ Len(s) \in Nat
      /\ t[1] = "sleep" /\ \A i \in 1..Len(s) : t[i + 1] = s[i]
  BY <1>1
<1>4. \A r \in Relays : On(r) # "sleep"
  BY DEF On
<1> HIDE DEF s, t
<1>5. Balanced(t)
  <2> SUFFICES ASSUME NEW r \in Relays, NEW i \in 1..Len(t), t[i] = On(r)
               PROVE  \E j \in 1..Len(t) : i < j /\ t[j] = Off(r)
    BY DEF Balanced
  <2>1. i - 1 \in 1..Len(s) /\ t[i] = s[i - 1]
    <3>1. i # 1
      BY <1>3, <1>4
    <3>2. i - 1 \in 1..Len(s) /\ (i - 1) + 1 = i
      BY <1>3, <3>1
    <3> QED BY <1>3, <3>2
  <2>2. PICK j \in 1..Len(s) : i - 1 < j /\ s[j] = Off(r)
    BY <1>2, <2>1 DEF Balanced
  <2>3. j + 1 \in 1..Len(t) /\ i < j + 1 /\ t[j + 1] = Off(r)
    BY <1>3, <2>2
  <2> QED BY <2>3
<1> QED BY <1>2, <1>5 DEF s, t

LEMMA TailBalanced ==
    ASSUME todo \in Seq(StepKinds), todo # <<>>, Balanced(todo)
    PROVE  /\ Balanced(Tail(todo))
           /\ \A r \in Relays :
                 /\ todo[1] = On(r) => \E j \in 1..Len(Tail(todo)) : Tail(todo)[j] = Off(r)
                 /\ todo[1] # Off(r) /\ (\E j \in 1..Len(todo) : todo[j] = Off(r))
                       => \E j \in 1..Len(Tail(todo)) : Tail(todo)[j] = Off(r)
<1> DEFINE t == Tail(todo)
<1>1. /\ Len(t) = Len(todo) - 1 /\ Len(todo) \in Nat \ {0} /\ 1 \in 1..Len(todo)
      /\ \A i \in 1..Len(t) : i + 1 \in 1..Len(todo) /\ t[i] = todo[i + 1]
  BY StepTail
<1> HIDE DEF t
<1>2. \A j \in 1..Len(todo) : j = 1 \/ (j - 1 \in 1..Len(t) /\ t[j - 1] = todo[j])
  <2> TAKE j \in 1..Len(todo)
  <2>1. j = 1 \/ (j - 1 \in 1..Len(t) /\ (j - 1) + 1 = j)
    BY <1>1
  <2> QED BY <1>1, <2>1
<1>3. Balanced(t)
  <2> SUFFICES ASSUME NEW r \in Relays, NEW i \in 1..Len(t), t[i] = On(r)
               PROVE  \E j \in 1..Len(t) : i < j /\ t[j] = Off(r)
    BY DEF Balanced
  <2>1. i + 1 \in 1..Len(todo) /\ todo[i + 1] = On(r)
    BY <1>1
  <2>2. PICK j \in 1..Len(todo) : i + 1 < j /\ todo[j] = Off(r)
    BY <2>1 DEF Balanced
  <2>3. j - 1 \in 1..Len(t) /\ t[j - 1] = Off(r) /\ i < j - 1
    BY <1>2, <2>2
  <2> QED BY <2>3
<1>4. \A r \in Relays :
         /\ todo[1] = On(r) => \E j \in 1..Len(t) : t[j] = Off(r)
         /\ todo[1] # Off(r) /\ (\E j \in 1..Len(todo) : todo[j] = Off(r))
               => \E j \in 1..Len(t) : t[j] = Off(r)
  BY <1>1, <1>2, RelayKinds DEF Balanced
<1> QED BY <1>3, <1>4 DEF t

LEMMA Plans ==
    PlanInv <=>
        /\ Balanced(todo)
        /\ \A r \in Relays :
              Off(r) \in owed =>
                 seq # "idle" /\ (seq = "failed" \/ \E i \in 1..Len(todo) : todo[i] = Off(r))
BY DEF PlanInv, Balanced

LEMMA PlansNext ==
    ASSUME Balanced(todo)',
           \A r \in Relays :
              Off(r) \in owed' =>
                 seq' # "idle" /\ (seq' = "failed" \/ \E i \in 1..Len(todo') : todo'[i] = Off(r))
    PROVE  PlanInv'
BY DEF PlanInv, Balanced

\* What a step adds to what is owed.
LEMMA OwesRelay ==
    ASSUME NEW step, NEW r \in Relays
    PROVE  Off(r) \in OwesAfter(step) <=> step = On(r)
BY RelayKinds DEF OwesAfter

LEMMA PagePlans == ASSUME TypeOK, RunInv, PlanInv, PageStep PROVE PlanInv'
<1>0. todo \in Seq(StepKinds) /\ plan \in Seq(Blocks) /\ Balanced(todo)
  BY Plans DEF TypeOK, StepKinds
<1>1. ASSUME NEW steps, Balanced(steps), todo' = steps PROVE Balanced(todo)'
  BY <1>1 DEF Balanced
<1>2. CASE Advance /\ NextBlock
  <2>1. todo = <<>> /\ plan # <<>> /\ UNCHANGED owed
    BY <1>2 DEF NextBlock
  <2>2. \A r \in Relays : Off(r) \notin owed
    <3>1. Len(todo) = 0 /\ seq = "next"
      BY <1>2, <2>1 DEF Advance
    <3> QED BY <3>1 DEF PlanInv
  <2>3. CASE todo' = todo
    BY <1>0, <1>1, <2>1, <2>2, <2>3, PlansNext
  <2>4. CASE todo' # todo
    <3>1. todo' = <<"sleep">> \o Steps(plan[1])
      BY <1>2, <2>4 DEF NextBlock
    <3>2. plan[1] \in Blocks
      BY <1>0, <2>1, StepTail
    <3>3. Balanced(todo)'
      BY <1>1, <3>1, <3>2, BlockBalanced
    <3> QED BY <2>1, <2>2, <3>3, PlansNext
  <2> QED BY <2>3, <2>4
<1>3. CASE Advance /\ Check
  <2>1. /\ todo # <<>> /\ todo[1] \in Checks /\ todo' = Tail(todo) /\ seq = "next"
        /\ seq' \in {"sleeping", "failed", "next"} /\ owed' = owed \cup OwesAfter(todo[1])
    BY <1>3 DEF Advance, Check
  <2>2. Balanced(todo)'
    BY <1>0, <1>1, <2>1, TailBalanced
  <2>3. \A r \in Relays : Off(r) \in owed' => Off(r) \in owed /\ todo[1] # Off(r)
    BY <2>1, OwesRelay, RelayKinds
  <2>4. \A r \in Relays : Off(r) \in owed' => \E i \in 1..Len(todo') : todo'[i] = Off(r)
    BY <1>0, <2>1, <2>3, TailBalanced, Plans
  <2> QED BY <2>1, <2>2, <2>4, PlansNext
<1>4. CASE Advance /\ Command
  <2>1. /\ UNCHANGED todo /\ todo # <<>> /\ seq = "next" /\ seq' = "waiting"
        /\ owed' = owed \cup OwesAfter(todo[1])
    BY <1>4 DEF Advance, Command
  <2>2. 1 \in 1..Len(todo)
    BY <1>0, <2>1
  <2>3. \A r \in Relays : Off(r) \in owed' => \E i \in 1..Len(todo) : todo[i] = Off(r)
    <3> TAKE r \in Relays
    <3>1. Off(r) \in owed' => Off(r) \in owed \/ todo[1] = On(r)
      BY <2>1, OwesRelay
    <3>2. todo[1] = On(r) => \E i \in 1..Len(todo) : todo[i] = Off(r)
      BY <1>0, <2>2 DEF Balanced
    <3>3. Off(r) \in owed => \E i \in 1..Len(todo) : todo[i] = Off(r)
      BY <2>1 DEF PlanInv
    <3> QED BY <3>1, <3>2, <3>3
  <2>4. Balanced(todo)'
    BY <1>0, <1>1, <2>1
  <2> QED BY <2>1, <2>3, <2>4, PlansNext
<1>5. CASE Advance /\ EndRun
  <2>1. todo = <<>> /\ UNCHANGED <<todo, owed>> /\ seq = "next"
    BY <1>5 DEF Advance, EndRun
  <2>2. Len(todo) = 0
    BY <2>1
  <2>3. \A r \in Relays : Off(r) \notin owed'
    BY <2>1, <2>2 DEF PlanInv
  <2>4. Balanced(todo)'
    BY <1>0, <1>1, <2>1
  <2> QED BY <2>3, <2>4, PlansNext
<1>6. CASE StepDone
  <2>1. CASE fault \/ ~Passed
    <3>1. UNCHANGED <<todo, owed>> /\ seq' = "failed"
      BY <1>6, <2>1 DEF StepDone
    <3>2. Balanced(todo)'
      BY <1>0, <1>1, <3>1
    <3> QED BY <3>1, <3>2, PlansNext
  <2>2. CASE ~fault /\ Passed
    <3>1. /\ seq = "answered" /\ seq' = "next" /\ todo' = Tail(todo) /\ owed' = owed \ {todo[1]}
          /\ todo # <<>>
      BY <1>6, <2>2 DEF StepDone, RunInv
    <3>2. Balanced(todo)'
      BY <1>0, <1>1, <3>1, TailBalanced
    <3>3. \A r \in Relays : Off(r) \in owed' =>
             todo[1] # Off(r) /\ \E i \in 1..Len(todo) : todo[i] = Off(r)
      BY <3>1 DEF PlanInv
    <3>4. \A r \in Relays : Off(r) \in owed' => \E i \in 1..Len(todo') : todo'[i] = Off(r)
      BY <1>0, <3>1, <3>3, TailBalanced
    <3> QED BY <3>1, <3>2, <3>4, PlansNext
  <2> QED BY <2>1, <2>2
<1>7. CASE Unwind
  <2>1. todo' = <<>> /\ owed' = {}
    BY <1>7 DEF Unwind
  <2>2. Len(todo') = 0
    BY <2>1
  <2> QED BY <2>1, <2>2 DEF PlanInv
<1>8. CASE StartRun
  <2>1. PICK program \in Programs : todo' = Steps(Head(program))
    BY <1>8 DEF StartRun
  <2>2. Head(program) \in Blocks
    BY FirstBlock
  <2>3. Balanced(todo)'
    BY <1>1, <2>1, <2>2, BlockBalanced
  <2>4. UNCHANGED owed /\ \A r \in Relays : Off(r) \notin owed
    BY <1>8 DEF StartRun, Free, PlanInv
  <2> QED BY <2>3, <2>4, PlansNext
<1>9. CASE SleepEnds \/ Pressed \/ Connect \/ Stop \/ EmergencyStop \/ Disconnect \/ Timeout \/ HandleLine
  <2>1. UNCHANGED <<todo, owed>>
    BY <1>9, PressedSends DEF SleepEnds, Connect, Stop, EmergencyStop, Disconnect, Timeout, HandleLine,
       RunKept, runVars
  <2>2. CASE SleepEnds \/ Pressed \/ Connect
    <3>1. (seq' = "idle" => seq = "idle") /\ (seq = "failed" => seq' = "failed")
      BY <2>2, PressedSends DEF SleepEnds, Connect, runVars
    <3> QED BY <2>1, <3>1 DEF PlanInv
  <2>3. CASE Stop \/ EmergencyStop \/ Disconnect \/ Timeout
    <3>1. Reject
      BY <2>3 DEF Stop, EmergencyStop, Disconnect, Timeout, SeqFault
    <3>2. seq' = seq \/ (seq = "waiting" /\ seq' = "failed")
      BY <3>1 DEF Reject
    <3> QED BY <2>1, <3>2 DEF PlanInv
  <2>4. CASE HandleLine
    <3>1. seq' = seq \/ seq' = "failed" \/ (waiter # 0 /\ seq' = "answered")
      BY <2>4 DEF HandleLine, FaultLine, SeqFault, Reject, MarkerLine, SpinLine, OkLine
    <3>2. seq' = seq \/ seq' = "failed" \/ (seq = "waiting" /\ seq' = "answered")
      BY <3>1 DEF RunInv
    <3> QED BY <2>1, <3>2 DEF PlanInv
  <2> QED BY <1>9, <2>2, <2>3, <2>4
<1> QED BY <1>2, <1>3, <1>4, <1>5, <1>6, <1>7, <1>8, <1>9 DEF PageStep, Run, Operator, Buttons,
   Pressed, Advance

-----------------------------------------------------------------------------
(* A relay that would stay on is owed a switching-off.                        *)

\* The Mega and what befalls it only take from what stays on.
LEMMA QuietOwed ==
    ASSUME OwedInv, UNCHANGED <<seq, todo, owed, connected>>,
           mega' = "up" => mega = "up" \/ \A r \in Relays : ~StaysOn(r)',
           \A r \in Relays : mega' = "up" /\ StaysOn(r)' => StaysOn(r)
    PROVE  OwedInv'
<1> SUFFICES ASSUME Reached', NEW r \in Relays, StaysOn(r)'
             PROVE  /\ Off(r) \in owed'
                    /\ ~(seq' \in {"waiting", "answered"} /\ todo'[1] = Off(r))
  BY DEF OwedInv
<1>1. Reached /\ StaysOn(r)
  BY DEF Reached
<1> QED BY <1>1 DEF OwedInv

LEMMA MachineOwed ==
    ASSUME Sound, CellInv, SlotInv, OwedInv, Machine \/ Accidents
    PROVE  OwedInv'
<1>0. QueueTypeOK /\ QueueOrder /\ UNCHANGED <<seq, todo, owed, connected>>
  BY DEF Sound, TypeOK, CellTypeOK, Machine, Accidents, Firmware, Accident, runVars
<1>1. CASE Machine
  <2>1. \A r \in Relays : mega' = "up" /\ StaysOn(r)' => mega = "up" /\ StaysOn(r)
    BY <1>0, <1>1, FirmwareStays DEF Machine
  <2> QED BY <1>0, <2>1, QuietOwed
<1>2. CASE Accidents /\ PowerLoss
  <2>1. \A r \in Relays : StaysOn(r)' => mega = "up" /\ StaysOn(r)
    BY <1>0, <1>2, LossStays
  <2> QED BY <1>0, <2>1, QuietOwed
<1>3. CASE Accidents /\ ~PowerLoss
  <2>1. mega' # "up"
    BY <1>3 DEF Accidents, Accident, Die, Restarts
  <2> QED BY <2>1 DEF OwedInv, Reached
<1> QED BY <1>1, <1>2, <1>3

\* The clauses that follow a failed run switch off what is owed.
LEMMA OwedSent ==
    ASSUME connected, NEW r \in Relays, Off(r) \in owed
    PROVE  \E i \in 1..Len(OwedLines) : OwedLines[i] = Off(r)
<1> DEFINE a == Owed(Off("lamp"))  b == Owed(Off("valve"))  c == Owed("G90")
<1>1. a \in Seq(Recoveries) /\ b \in Seq(Recoveries) /\ c \in Seq(Recoveries)
  <2>1. \A kind \in Recoveries : <<kind>> \in Seq(Recoveries) /\ <<>> \in Seq(Recoveries)
    BY OneLine
  <2> QED BY <2>1 DEF Owed, Recoveries
<1>2. r = "lamp" => Len(a) = 1 /\ a[1] = Off(r)
  BY DEF Owed
<1>3. r = "valve" => Len(b) = 1 /\ b[1] = Off(r)
  BY DEF Owed
<1>4. OwedLines = (a \o b) \o c
  BY DEF OwedLines
<1> HIDE DEF a, b, c
<1>5. /\ Len(OwedLines) = Len(a) + Len(b) + Len(c)
      /\ \A i \in 1..Len(a) : OwedLines[i] = a[i]
      /\ \A i \in 1..Len(b) : OwedLines[Len(a) + i] = b[i]
      /\ Len(a) \in Nat /\ Len(b) \in Nat /\ Len(c) \in Nat
  BY <1>1, <1>4
<1>6. CASE r = "lamp"
  <2>1. Len(a) = 1 /\ a[1] = Off(r)
    BY <1>2, <1>6
  <2>2. 1 \in 1..Len(a) /\ 1 \in 1..Len(OwedLines)
    BY <1>5, <2>1
  <2>3. OwedLines[1] = a[1]
    BY <1>5, <2>2
  <2> QED BY <2>1, <2>2, <2>3
<1>7. CASE r = "valve"
  <2>1. Len(b) = 1 /\ b[1] = Off(r)
    BY <1>3, <1>7
  <2>2. 1 \in 1..Len(b) /\ Len(a) + 1 \in 1..Len(OwedLines)
    BY <1>5, <2>1
  <2>3. OwedLines[Len(a) + 1] = b[1]
    BY <1>5, <2>2
  <2> QED BY <2>1, <2>2, <2>3
<1> QED BY <1>6, <1>7 DEF Relays

\* The one step that may leave a relay on owes its switching-off.
LEMMA CommandOwed ==
    ASSUME TypeOK, QueueOrder, OwedInv, Advance, Command
    PROVE  OwedInv'
<1>1. /\ todo[1] \in Kinds /\ Write(<<todo[1]>>) /\ UNCHANGED <<todo, connected>>
      /\ owed' = owed \cup OwesAfter(todo[1])
  BY DEF Command, SendStep, SendAwaited
<1> SUFFICES ASSUME Reached', NEW r \in Relays, StaysOn(r)'
             PROVE  Off(r) \in owed' /\ todo'[1] # Off(r)
  BY DEF OwedInv
<1>2. Reached /\ mega = "up"
  BY <1>1 DEF Reached, Write
<1>3. CASE todo[1] = On(r)
  BY <1>1, <1>3, OwesRelay, RelayKinds
<1>4. CASE todo[1] # On(r)
  <2> DEFINE kinds == <<todo[1]>>
  <2>1. kinds \in Seq(Kinds) /\ Write(kinds) /\ Len(kinds) = 1 /\ kinds[1] = todo[1]
    BY <1>1, OneLine
  <2> HIDE DEF kinds
  <2>2. \A i \in 1..Len(kinds) : kinds[i] # On(r)
    BY <1>4, <2>1
  <2>3. StaysOn(r) /\ \A i \in 1..Len(kinds) : kinds[i] # Off(r)
    BY <1>2, <2>1, <2>2, WriteStays DEF TypeOK, CellTypeOK
  <2> QED BY <1>1, <1>2, <2>1, <2>3 DEF OwedInv
<1> QED BY <1>3, <1>4

\* Lines that switch no relay on and follow no debt that they do not pay.
LEMMA SendOwedInv ==
    ASSUME TypeOK, QueueOrder, OwedInv, NEW kinds \in Seq(Kinds), Write(kinds), UNCHANGED connected,
           \A r \in Relays, i \in 1..Len(kinds) : kinds[i] # On(r),
           \A r \in Relays : connected /\ Off(r) \in owed =>
              Off(r) \in owed' \/ \E i \in 1..Len(kinds) : kinds[i] = Off(r),
           seq' \in {"waiting", "answered"} => UNCHANGED <<seq, todo>>
    PROVE  OwedInv'
<1> SUFFICES ASSUME Reached', NEW r \in Relays, StaysOn(r)'
             PROVE  /\ Off(r) \in owed'
                    /\ ~(seq' \in {"waiting", "answered"} /\ todo'[1] = Off(r))
  BY DEF OwedInv
<1>1. Reached /\ mega = "up" /\ connected
  BY DEF Reached, Write
<1>2. StaysOn(r) /\ \A i \in 1..Len(kinds) : kinds[i] # Off(r)
  BY <1>1, WriteStays DEF TypeOK, CellTypeOK
<1> QED BY <1>1, <1>2 DEF OwedInv

LEMMA ButtonsSwitchNothing ==
    \A kinds \in {<<"M410">>, <<"M112">>} \cup ButtonLines, r \in Relays :
       \A i \in 1..Len(kinds) : kinds[i] # On(r)
BY DEF ButtonLines, MoveLines, OtherLines, Relays, On

LEMMA PageOwed ==
    ASSUME TypeOK, QueueOrder, RunInv, PlanInv, OwedInv, PageStep
    PROVE  OwedInv'
<1>1. CASE Advance /\ Command
  BY <1>1, CommandOwed
<1>2. CASE Unwind
  <2>1. OwedLines \in Seq(Kinds) /\ OwedLines \in Seq(Recoveries)
    BY OwedTypes, RecoveryKinds
  <2>2. \A r \in Relays, i \in 1..Len(OwedLines) : OwedLines[i] # On(r)
    BY <2>1, ElementOfSeq, RelayKinds
  <2>3. Write(OwedLines) /\ UNCHANGED connected /\ seq' = "idle"
    BY <1>2 DEF Unwind, SendOwed, SendAll, OwedLines
  <2> QED BY <2>1, <2>2, <2>3, OwedSent, SendOwedInv
<1>3. CASE Stop \/ EmergencyStop \/ Pressed
  <2>1. PICK kinds \in {<<"M410">>, <<"M112">>} \cup ButtonLines : Write(kinds)
    BY <1>3, PressedSends DEF Stop, EmergencyStop, SendAll
  <2>2. kinds \in Seq(Kinds)
    BY <2>1, KindsKnown, OneLine, ButtonTypes
  <2>3. \A r \in Relays, i \in 1..Len(kinds) : kinds[i] # On(r)
    BY <2>1, ButtonsSwitchNothing
  <2>4. UNCHANGED <<owed, todo, connected>>
    BY <1>3, PressedSends DEF Stop, EmergencyStop, SendAll, RunKept
  <2>5. UNCHANGED seq \/ seq' = "failed"
    BY <1>3, PressedSends DEF Stop, EmergencyStop, SeqFault, Reject
  <2> QED BY <2>1, <2>2, <2>3, <2>4, <2>5, SendOwedInv
<1>4. CASE \/ Advance /\ ~Command
           \/ StepDone \/ SleepEnds \/ StartRun \/ Timeout \/ HandleLine
  <2>1. UNCHANGED <<rx, ring, relays, mega, connected>>
    BY <1>4 DEF Advance, NextBlock, Check, EndRun, StepDone, SleepEnds, StartRun, Timeout, HandleLine,
       NothingSent, queueVars, cellVars
  <2>2. \A r : StaysOn(r)' <=> StaysOn(r)
    BY <2>1, SameStays DEF Pending
  <2>3. Reached' => Reached
    BY <2>1 DEF Reached
  <2>4. CASE StepDone /\ ~fault /\ Passed
    <3>1. seq = "answered" /\ seq' = "next" /\ owed' = owed \ {todo[1]}
      BY <2>4 DEF StepDone
    <3> QED BY <2>2, <2>3, <3>1 DEF OwedInv
  <2>5. CASE ~(StepDone /\ ~fault /\ Passed)
    <3>1. owed \subseteq owed'
      BY <1>4, <2>5 DEF Advance, NextBlock, Check, EndRun, StepDone, SleepEnds, StartRun, Timeout,
         HandleLine, RunKept
    <3>2. seq' \in {"waiting", "answered"} => UNCHANGED todo /\ seq \in {"waiting", "answered"}
      <4>1. CASE HandleLine
        <5>1. UNCHANGED todo /\ (seq' \in {seq, "failed"} \/ (waiter # 0 /\ seq' = "answered"))
          BY <4>1 DEF HandleLine, FaultLine, SeqFault, Reject, MarkerLine, SpinLine, OkLine
        <5> QED BY <5>1 DEF RunInv
      <4>2. CASE Advance /\ ~Command
        BY <4>2 DEF Advance, NextBlock, Check, EndRun
      <4>3. CASE StepDone \/ SleepEnds \/ StartRun \/ Timeout
        BY <4>3 DEF StepDone, SleepEnds, StartRun, Timeout, Reject
      <4> QED BY <1>4, <4>1, <4>2, <4>3
    <3> QED BY <2>2, <2>3, <3>1, <3>2 DEF OwedInv
  <2> QED BY <2>4, <2>5
<1>5. CASE Disconnect
  BY <1>5 DEF Disconnect, OwedInv, Reached
<1>6. CASE Connect
  BY <1>6 DEF Connect, Restarts, OwedInv, Reached
<1> QED BY <1>1, <1>2, <1>3, <1>4, <1>5, <1>6 DEF PageStep, Run, Operator, Buttons, Pressed

-----------------------------------------------------------------------------

LEMMA RelayStep ==
    ASSUME Sound, CellInv, RelayInv, [Next]_vars
    PROVE  RelayInv'
<1>1. SlotInv'
  BY SlotStep DEF RelayInv
<1>2. CASE PageStep
  BY <1>1, <1>2, PagePlans, PageOwed DEF RelayInv, Sound
<1>3. CASE Machine \/ Accidents
  <2>1. UNCHANGED <<todo, owed, seq>>
    BY <1>3 DEF Machine, Accidents, runVars
  <2>2. PlanInv'
    BY <2>1 DEF PlanInv, RelayInv
  <2> QED BY <1>1, <1>3, <2>2, MachineOwed DEF RelayInv
<1>4. CASE UNCHANGED vars
  <2>1. UNCHANGED <<rx, ring, relays, mega, connected, seq, todo, owed>>
    BY <1>4 DEF vars, machine, queueVars, cellVars, runVars
  <2>2. PlanInv'
    BY <2>1 DEF PlanInv, RelayInv
  <2>3. \A r : StaysOn(r)' <=> StaysOn(r)
    BY <2>1, SameStays DEF Pending
  <2>4. OwedInv'
    BY <2>1, <2>3 DEF RelayInv, OwedInv, Reached
  <2> QED BY <1>1, <2>2, <2>4 DEF RelayInv
<1> QED BY <1>2, <1>3, <1>4 DEF Next, PageStep

LEMMA RelayInit == Init => RelayInv
<1> SUFFICES ASSUME Init PROVE RelayInv
  OBVIOUS
<1>1. /\ running = NoLine /\ owed = {} /\ mega = "booting" /\ todo = <<>>
  BY DEF Init, CellInit, QueueInit
<1>2. Len(todo) = 0
  BY <1>1
<1> QED BY <1>1, <1>2 DEF RelayInv, SlotInv, PlanInv, OwedInv, Reached

\* What is behind it: whenever the page is connected to a board that is up, each
\* relay that would stay on once all lines on their way are carried out is owed a
\* switching-off, and the run or its finally still sends it.
THEOREM RelaysOwed == Spec => []RelayInv
<1> DEFINE All == Sound /\ CellInv /\ RelayInv
<1>1. Init => All
  BY SoundInit, KnownInit, RelayInit DEF KnownInv
<1>2. All /\ [Next]_vars => All'
  BY SoundStep, CellStep, RelayStep
<1>3. All => RelayInv
  OBVIOUS
<1> QED BY <1>1, <1>2, <1>3, PTL DEF Spec

\* However a cure ended, no lamp stays lit and no valve open once nothing is on
\* its way any more.
THEOREM RelaysSwitchedOff == Spec => []RelaysOffAfterRun
<1>1. TypeOK /\ RelayInv => RelaysOffAfterRun
  <2> SUFFICES ASSUME TypeOK, RelayInv, Settled PROVE relays = {}
    BY DEF RelaysOffAfterRun
  <2>1. Reached /\ seq = "idle" /\ Len(rx) = 0 /\ Len(ring) = 0
    BY DEF Settled, Reached
  <2>2. Pending = {}
    BY <2>1 DEF Pending
  <2>3. \A r \in Relays : ~StaysOn(r)
    BY <2>1 DEF RelayInv, PlanInv, OwedInv
  <2>4. relays \subseteq Relays
    BY DEF TypeOK, CellTypeOK
  <2> QED BY <2>2, <2>3, <2>4 DEF StaysOn
<1> QED BY <1>1, RelaysOwed, SequencerTypes, PTL
=============================================================================
