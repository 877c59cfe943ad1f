----------------------------- MODULE ModeProofs -----------------------------
(* The mode and the lid as the lines on their way will meet them: a run     *)
(* leaves the firmware in absolute mode, no move meets the wrong mode, the  *)
(* page's guess of the lid is good enough, and a run that has spun the      *)
(* chuck opens the lid over one at rest.                                    *)
EXTENDS SequencerProofs

-----------------------------------------------------------------------------
(* What the lines on their way make of a flag that some kinds of lines set   *)
(* (up) and others clear (down).  It is asked for the line with number n,    *)
(* which meets the flag as the lines before it leave it.                     *)

SetBy(lines, n, up, down) ==
    \E u \in lines : /\ u.kind \in up /\ u.id < n
                     /\ \A d \in lines : d.kind \in down /\ d.id < n => d.id < u.id

EndsBy(lines, n, up, down, now) ==
    \/ SetBy(lines, n, up, down)
    \/ now /\ \A d \in lines : d.id < n => d.kind \notin down

\* A line on its way decides, whatever the flag is now.
Governed(lines, n, up, down) == \E g \in lines : g.kind \in up \cup down /\ g.id < n

LEMMA GovernedEnds ==
    ASSUME NEW lines, NEW n, NEW up, NEW down, NEW now, Governed(lines, n, up, down)
    PROVE  EndsBy(lines, n, up, down, now) <=> SetBy(lines, n, up, down)
<1>1. PICK g \in lines : g.kind \in up \cup down /\ g.id < n
  BY DEF Governed
<1>2. ASSUME \A d \in lines : d.id < n => d.kind \notin down PROVE SetBy(lines, n, up, down)
  <2>1. g.kind \in up
    BY <1>1, <1>2
  <2> QED BY <1>1, <1>2, <2>1 DEF SetBy
<1> QED BY <1>2, Zenon DEF EndsBy

LEMMA FreeEnds ==
    ASSUME NEW lines, NEW n, NEW up, NEW down, NEW now \in BOOLEAN, ~Governed(lines, n, up, down)
    PROVE  EndsBy(lines, n, up, down, now) <=> now
<1>1. \A d \in lines : d.id < n => d.kind \notin up /\ d.kind \notin down
  BY DEF Governed
<1>2. ~SetBy(lines, n, up, down)
  BY <1>1 DEF SetBy
<1> QED BY <1>1, <1>2, Zenon DEF EndsBy

\* Lines leave from the front: what is left decides as before, if it decides.
LEMMA LeftDecides ==
    ASSUME NEW lines, NEW left \in SUBSET lines, \A line \in lines : line.id \in Nat,
           \A line \in lines : line \in left \/ \A later \in left : line.id < later.id,
           NEW n \in Nat, NEW up, NEW down
    PROVE  /\ SetBy(left, n, up, down) => SetBy(lines, n, up, down)
           /\ Governed(left, n, up, down) =>
                 /\ Governed(lines, n, up, down)
                 /\ SetBy(left, n, up, down) <=> SetBy(lines, n, up, down)
<1>1. ASSUME SetBy(left, n, up, down) PROVE SetBy(lines, n, up, down)
  <2>1. PICK u \in left : /\ u.kind \in up /\ u.id < n
                          /\ \A d \in left : d.kind \in down /\ d.id < n => d.id < u.id
    BY <1>1 DEF SetBy
  <2>2. u \in lines /\ \A d \in lines : d.kind \in down /\ d.id < n => d.id < u.id
    BY <2>1
  <2> QED BY <2>1, <2>2 DEF SetBy
<1>2. ASSUME Governed(left, n, up, down), SetBy(lines, n, up, down)
      PROVE  SetBy(left, n, up, down)
  <2>1. PICK u \in lines : /\ u.kind \in up /\ u.id < n
                           /\ \A d \in lines : d.kind \in down /\ d.id < n => d.id < u.id
    BY <1>2 DEF SetBy
  <2>2. PICK g \in left : g.kind \in up \cup down /\ g.id < n
    BY <1>2 DEF Governed
  <2>3. CASE u \in left
    BY <2>1, <2>3 DEF SetBy
  <2>4. CASE u \notin left
    <3>1. u.id < g.id /\ g \in lines /\ u.id \in Nat /\ g.id \in Nat
      BY <2>4
    <3>2. g.kind \in up
      BY <2>1, <2>2, <3>1
    <3>3. \A d \in left : d.kind \in down /\ d.id < n => d.id < g.id
      BY <2>1, <3>1
    <3> QED BY <2>2, <3>2, <3>3 DEF SetBy
  <2> QED BY <2>3, <2>4
<1>3. Governed(left, n, up, down) => Governed(lines, n, up, down)
  BY DEF Governed
<1> QED BY <1>1, <1>2, <1>3

\* The first line is carried out: what the others meet does not change.
LEMMA FirstCarriedOut ==
    ASSUME NEW lines, NEW left \in SUBSET lines, \A line \in lines : line.id \in Nat,
           NEW first \in lines, \A line \in lines : line \in left \/ line = first,
           \A later \in left : first.id < later.id,
           NEW n \in Nat, first.id < n,
           NEW up, NEW down, up \cap down = {}, NEW now \in BOOLEAN, NEW then \in BOOLEAN,
           first.kind \in up => then, first.kind \in down => ~then,
           first.kind \notin up \cup down => (then <=> now)
    PROVE  EndsBy(left, n, up, down, then) <=> EndsBy(lines, n, up, down, now)
<1>1. CASE Governed(left, n, up, down)
  <2>1. /\ Governed(lines, n, up, down)
        /\ SetBy(left, n, up, down) <=> SetBy(lines, n, up, down)
    BY <1>1, LeftDecides
  <2> QED BY <1>1, <2>1, GovernedEnds
<1>2. CASE ~Governed(left, n, up, down)
  <2>1. EndsBy(left, n, up, down, then) <=> then
    BY <1>2, FreeEnds
  <2>2. CASE first.kind \in up \cup down
    <3>1. Governed(lines, n, up, down)
      BY <2>2 DEF Governed
    <3>2. \A line \in lines : line.kind \in up \cup down /\ line.id < n => line = first
      BY <1>2 DEF Governed
    <3>3. SetBy(lines, n, up, down) <=> first.kind \in up
      <4>1. ASSUME first.kind \in up PROVE SetBy(lines, n, up, down)
        <5>1. \A d \in lines : d.kind \in down /\ d.id < n => d = first
          BY <3>2
        <5>2. first.kind \notin down
          BY <4>1
        <5> QED BY <4>1, <5>1, <5>2 DEF SetBy
      <4>2. ASSUME SetBy(lines, n, up, down) PROVE first.kind \in up
        BY <3>2, <4>2 DEF SetBy
      <4> QED BY <4>1, <4>2
    <3>4. then <=> first.kind \in up
      BY <2>2
    <3> QED BY <2>1, <3>1, <3>3, <3>4, GovernedEnds
  <2>3. CASE first.kind \notin up \cup down
    <3>1. ~Governed(lines, n, up, down)
      BY <1>2, <2>3 DEF Governed
    <3>2. EndsBy(lines, n, up, down, now) <=> now
      BY <3>1, FreeEnds
    <3> QED BY <2>1, <2>3, <3>2
  <2> QED BY <2>2, <2>3
<1> QED BY <1>1, <1>2

-----------------------------------------------------------------------------
(* The mode and the lid as the line with number n meets them.                *)

Openers == Homes \cup {"M280_S30"}

RelativeBy(n) == EndsBy(Pending, n, {"G91"}, {"G90"}, relative)
ClosedBy(n) == EndsBy(Pending, n, {"M280_S115"}, Openers, lid = "closed")

\* The number of the next line: it meets what all lines on their way leave.
All == sent + 1

LEMMA PendingLines ==
    ASSUME QueueTypeOK, QueueOrder
    PROVE  /\ \A line \in Pending : line.id \in Nat /\ line.id < All /\ line.kind \in Kinds
           /\ All \in Nat
           /\ ring # <<>> =>
                 ring[1] \in Pending /\ \A line \in Pending : line = ring[1] \/ ring[1].id < line.id
<1>1. /\ \A i \in 1..Len(ring) : ring[i] \in Lines /\ ring[i].id \in Nat /\ ring[i].id <= sent
      /\ \A j \in 1..Len(rx) : rx[j] \in Lines /\ rx[j].id \in Nat /\ rx[j].id <= sent
      /\ sent \in Nat
  BY LineTypes DEF QueueOrder, QueueTypeOK
<1>2. \A line \in Lines : line.kind \in Kinds
  BY DEF Lines
<1>3. \A line \in Pending : line.id \in Nat /\ line.id < All /\ line.kind \in Kinds
  BY <1>1, <1>2 DEF Pending, All
<1>4. ASSUME ring # <<>>
      PROVE  ring[1] \in Pending /\ \A line \in Pending : line = ring[1] \/ ring[1].id < line.id
  <2>1. 1 \in 1..Len(ring) /\ Len(ring) \in Nat
    BY <1>4 DEF QueueTypeOK
  <2>2. \A i \in 1..Len(ring) : i = 1 \/ ring[1].id < ring[i].id
    BY <2>1 DEF QueueOrder, Ascending
  <2>3. \A j \in 1..Len(rx) : ring[1].id < rx[j].id
    BY <2>1 DEF QueueOrder
  <2> QED BY <2>1, <2>2, <2>3 DEF Pending
<1> QED BY <1>1, <1>3, <1>4 DEF All

LEMMA LidKinds ==
    /\ {"M280_S115"} \cap Openers = {} /\ {"G91"} \cap {"G90"} = {}
    /\ Homes \subseteq Openers /\ "M280_S30" \in Openers
    /\ \A kind \in Openers \cup {"M280_S115", "G90", "G91"} : kind \notin Moves \cup Spins
    /\ Openers \cap {"G90", "G91", "M118", "M410", "M112"} = {}
    /\ \A kind \in Homes : kind \notin {"G90", "G91", "M280_S115", "M280_S30", "none"} \cup Moves \cup Spins
BY DEF Openers, Homes, Moves, Distances, Spins

\* A handler that returns at once leaves it to the flag.
LEMMA ImmediateEnds ==
    ASSUME QueueTypeOK, QueueOrder, relative \in BOOLEAN, NEW line, Immediate(line),
           NEW n \in Nat, ring[1].id < n
    PROVE  (RelativeBy(n)' <=> RelativeBy(n)) /\ (ClosedBy(n)' <=> ClosedBy(n))
<1>1. /\ Dispatch(line) /\ AdvanceR /\ UNCHANGED rx
      /\ line = ring[1] /\ ring # <<>>
  BY ImmediateQueue, DispatchedLine DEF Return
<1>2. /\ ring[1] \in Pending /\ Pending' \in SUBSET Pending
      /\ \A other \in Pending : other \in Pending' \/ other = ring[1]
      /\ \A later \in Pending' : ring[1].id < later.id
      /\ \A other \in Pending : other.id \in Nat
  BY <1>1, FirstLeaves, PendingLines
<1>3. /\ relative' \in BOOLEAN
      /\ ring[1].kind \in {"G91"} => relative'
      /\ ring[1].kind \in {"G90"} => ~relative'
      /\ ring[1].kind \notin {"G91"} \cup {"G90"} => (relative' <=> relative)
  <2>1. CASE SetMode(line)
    <3>1. relative' = (ring[1].kind = "G91") /\ ring[1].kind \in {"G90", "G91"}
      BY <1>1, <2>1 DEF SetMode
    <3> QED BY <3>1
  <2>2. CASE ~SetMode(line)
    <3>1. relative' = relative
      BY <2>2, Zenon DEF Immediate, Refuse, SwitchRelay, MoveLid, Remark, cellVars
    <3>2. line.kind \notin {"G90", "G91"}
      BY <2>2 DEF Immediate, Refuse, SwitchRelay, MoveLid, Remark, Moves, Distances, On, Off, Relays
    <3> QED BY <1>1, <3>1, <3>2
  <2> QED BY <2>1, <2>2
<1>4. /\ ring[1].kind \in {"M280_S115"} => lid' = "closed"
      /\ ring[1].kind \in Openers => ~(lid' = "closed")
      /\ ring[1].kind \notin {"M280_S115"} \cup Openers => ((lid' = "closed") <=> (lid = "closed"))
  <2>1. CASE MoveLid(line)
    BY <1>1, <2>1, LidKinds DEF MoveLid
  <2>2. CASE ~MoveLid(line)
    <3>1. lid' = lid
      BY <2>2 DEF Immediate, Refuse, SwitchRelay, SetMode, Remark, cellVars
    <3>2. line.kind \notin {"M280_S115"} \cup Openers
      BY <2>2 DEF Immediate, Refuse, SwitchRelay, SetMode, Remark, Moves, Distances, On, Off, Relays,
         Openers, Homes
    <3> QED BY <1>1, <3>1, <3>2
  <2> QED BY <2>1, <2>2
<1>5. RelativeBy(n)' <=> RelativeBy(n)
  BY <1>2, <1>3, LidKinds, FirstCarriedOut DEF RelativeBy
<1>6. ClosedBy(n)' <=> ClosedBy(n)
  <2> DEFINE now == (lid = "closed")  then == (lid' = "closed")
  <2>1. now \in BOOLEAN /\ then \in BOOLEAN
    OBVIOUS
  <2>2. /\ ring[1].kind \in {"M280_S115"} => then
        /\ ring[1].kind \in Openers => ~then
        /\ ring[1].kind \notin {"M280_S115"} \cup Openers => (then <=> now)
    BY <1>4
  <2> HIDE DEF now, then
  <2>3. EndsBy(Pending', n, {"M280_S115"}, Openers, then) <=> EndsBy(Pending, n, {"M280_S115"}, Openers, now)
    BY <1>2, <2>1, <2>2, LidKinds, FirstCarriedOut
  <2> QED BY <2>3 DEF ClosedBy, now, then
<1> QED BY <1>5, <1>6

\* So does one that has waited and still has its slot.
LEMMA EndingEnds ==
    ASSUME QueueTypeOK, QueueOrder, relative \in BOOLEAN, Ending, ring # <<>>, ring[1] = running,
           running.kind \in Homes => lid = "open", NEW n \in Nat, ring[1].id < n
    PROVE  (RelativeBy(n)' <=> RelativeBy(n)) /\ (ClosedBy(n)' <=> ClosedBy(n))
<1>1. /\ AdvanceR /\ UNCHANGED <<rx, lid, relative>>
      /\ running.kind \in Homes \cup Moves \cup Spins
  BY EndingQueue DEF Return, Ending, MoveEnds, HomingEnds, SpinEnds, cellVars
<1>2. /\ ring[1] \in Pending /\ Pending' \in SUBSET Pending
      /\ \A other \in Pending : other \in Pending' \/ other = ring[1]
      /\ \A later \in Pending' : ring[1].id < later.id
      /\ \A other \in Pending : other.id \in Nat
  BY <1>1, FirstLeaves, PendingLines
<1>3. ring[1].kind \notin {"G91"} /\ ring[1].kind \notin {"G90"} /\ ring[1].kind \notin {"M280_S115"}
  BY <1>1 DEF Homes, Moves, Distances, Spins
<1>4. RelativeBy(n)' <=> RelativeBy(n)
  <2>1. relative' \in BOOLEAN /\ (relative' <=> relative)
    BY <1>1
  <2> QED BY <1>2, <1>3, <2>1, LidKinds, FirstCarriedOut DEF RelativeBy
<1>5. ClosedBy(n)' <=> ClosedBy(n)
  <2> DEFINE now == (lid = "closed")  then == (lid' = "closed")
  <2>1. now \in BOOLEAN /\ then \in BOOLEAN /\ (then <=> now)
    BY <1>1
  <2>2. ring[1].kind \in Openers => ~then
    <3>1. ring[1].kind \in Openers => ring[1].kind \in Homes
      BY <1>1 DEF Homes, Moves, Distances, Spins, Openers
    <3> QED BY <1>1, <3>1
  <2> HIDE DEF now, then
  <2>3. EndsBy(Pending', n, {"M280_S115"}, Openers, then) <=> EndsBy(Pending, n, {"M280_S115"}, Openers, now)
    BY <1>2, <1>3, <2>1, <2>2, LidKinds, FirstCarriedOut
  <2> QED BY <2>3 DEF ClosedBy, now, then
<1> QED BY <1>4, <1>5

-----------------------------------------------------------------------------
(* What a waiting handler may rely on.                                       *)

LostSlot == running # NoLine /\ (ring = <<>> \/ ring[1] # running)

\* Only homings, moves and spins wait.  One that has lost its slot has lost it
\* to a loss; a refusal tells of axes that are not known; a homing has opened
\* the lid.
WaitInv ==
    /\ running # NoLine => running.kind \in Homes \cup Moves \cup Spins
    /\ LostSlot => spoilt
    /\ rehome => ~known /\ ~lifted
    /\ running.kind \in Homes => lid = "open"

LEMMA WaitKept ==
    ASSUME WaitInv, UNCHANGED <<ring, running, spoilt, rehome, known, lifted, lid>>
    PROVE  WaitInv'
BY Zenon DEF WaitInv, LostSlot

LEMMA IdleWaits ==
    ASSUME running' = NoLine, rehome' => ~known' /\ ~lifted'
    PROVE  WaitInv'
<1>1. running'.kind \notin Homes
  BY NoHandlerKind
<1> QED BY <1>1, Zenon DEF WaitInv, LostSlot

LEMMA FirmwareWaits ==
    ASSUME QueueTypeOK, QueueOrder, WaitInv, CellInv, Firmware
    PROVE  WaitInv'
<1>1. CASE FetchLine
  <2>1. rx # <<>> /\ ring' = Append(ring, Head(rx))
        /\ UNCHANGED <<running, spoilt, rehome, known, lifted, lid>>
    BY <1>1 DEF FetchLine, Fetch, cellVars, posVars
  <2>2. ring # <<>> => ring' # <<>> /\ ring'[1] = ring[1]
    BY <2>1 DEF QueueTypeOK
  <2>3. LostSlot' => LostSlot
    BY <2>1, <2>2 DEF LostSlot
  <2> QED BY <2>1, <2>3, Zenon DEF WaitInv
<1>2. CASE Ending
  <2>1. running' = NoLine
    BY <1>2, EndingQueue DEF Return
  <2>2. rehome' => ~known' /\ ~lifted'
    <3>1. CASE HomingEnds
      <4>1. rehome' = FALSE
        BY <3>1 DEF HomingEnds
      <4> QED BY <4>1
    <3>2. CASE MoveEnds \/ SpinEnds
      <4>1. UNCHANGED <<rehome, known, lifted>>
        BY <3>2 DEF MoveEnds, SpinEnds, cellVars, posVars
      <4> QED BY <4>1, Zenon DEF WaitInv
    <3> QED BY <1>2, <3>1, <3>2 DEF Ending
  <2> QED BY <2>1, <2>2, IdleWaits
<1>3. CASE RotorStops \/ Die
  BY <1>3, WaitKept DEF RotorStops, Die, queueVars, posVars
<1>4. CASE Boots
  <2>1. running' = NoLine /\ rehome' = FALSE
    BY <1>4 DEF Boots, CellInv, queueVars
  <2> QED BY <2>1, IdleWaits
<1>5. ASSUME NEW line, Immediate(line) PROVE WaitInv'
  <2>1. running' = NoLine
    BY <1>5, ImmediateQueue DEF Return
  <2>2. UNCHANGED <<rehome, known, lifted>>
    BY <1>5, Zenon DEF Immediate, Refuse, SwitchRelay, SetMode, MoveLid, Remark, cellVars, posVars
  <2>3. rehome' => ~known' /\ ~lifted'
    BY <2>2, Zenon DEF WaitInv
  <2> QED BY <2>1, <2>3, IdleWaits
<1>6. ASSUME NEW line, Beginning(line) PROVE WaitInv'
  <2>1. /\ running' = line /\ UNCHANGED <<ring, known, rehome, lifted>> /\ line = ring[1] /\ ring # <<>>
        /\ Waits(line) /\ lid' = IF line.kind \in Homes THEN "open" ELSE lid
    BY <1>6, DispatchedLine DEF Beginning, Begin
  <2>2. ~LostSlot'
    BY <2>1 DEF LostSlot
  <2>3. running'.kind \in Homes \cup Moves \cup Spins /\ (running'.kind \in Homes => lid' = "open")
    BY <2>1 DEF Waits
  <2>4. rehome' => ~known' /\ ~lifted'
    BY <2>1, Zenon DEF WaitInv
  <2> QED BY <2>2, <2>3, <2>4, Zenon DEF WaitInv
<1> QED BY <1>1, <1>2, <1>3, <1>4, <1>5, <1>6, FirmwareSteps

LEMMA WaitStep == ASSUME Sound, CellInv, WaitInv, [Next]_vars PROVE WaitInv'
<1>1. CASE Machine
  BY <1>1, FirmwareWaits DEF Machine, Sound, TypeOK, CellTypeOK
<1>2. CASE Restarts
  <2>1. running' = NoLine /\ UNCHANGED <<rehome, known, lifted>>
    BY <1>2 DEF Restarts, cellVars, posVars
  <2>2. rehome' => ~known' /\ ~lifted'
    BY <2>1, Zenon DEF WaitInv
  <2> QED BY <2>1, <2>2, IdleWaits
<1>3. CASE Accidents
  <2>1. CASE PowerLoss
    <3>1. known' = FALSE /\ spoilt' = TRUE /\ lifted' = FALSE /\ UNCHANGED <<running, lid>>
      BY <2>1 DEF PowerLoss
    <3> QED BY <3>1, Zenon DEF WaitInv
  <2>2. CASE Die
    BY <2>2, WaitKept DEF Die, queueVars, posVars
  <2> QED BY <1>2, <1>3, <2>1, <2>2 DEF Accidents, Accident
<1>4. CASE PageStep
  <2>1. PageWrites \/ PageQuiet \/ Restarts
    BY <1>4, PageEffect DEF Sound
  <2>2. CASE PageWrites \/ PageQuiet
    <3>1. UNCHANGED <<ring, running, spoilt, rehome, known, lifted, lid>>
      BY <2>2 DEF PageWrites, Write, PageQuiet, queueVars, cellVars, posVars
    <3> QED BY <3>1, WaitKept
  <2> QED BY <1>2, <2>1, <2>2
<1>5. CASE UNCHANGED vars
  BY <1>5, WaitKept DEF vars, machine, queueVars, cellVars, posVars
<1> QED BY <1>1, <1>3, <1>4, <1>5 DEF Next, PageStep

LEMMA WaitInit == Init => WaitInv
<1> SUFFICES ASSUME Init PROVE WaitInv
  OBVIOUS
<1>1. running = NoLine /\ rehome = FALSE
  BY DEF Init, CellInit, QueueInit
<1>2. running.kind \notin Homes
  BY <1>1, NoHandlerKind
<1> QED BY <1>1, <1>2, Zenon DEF WaitInv, LostSlot

-----------------------------------------------------------------------------
(* Lines that leave without being carried out: the E-stop takes those of the *)
(* ring, and a handler that has lost its slot the first of them.             *)

Taken ==
    /\ mega = "up" /\ mega' = "up" /\ UNCHANGED <<sent, lid, relative>>
    /\ Pending' \in SUBSET Pending
    /\ \A line \in Pending : line \in Pending' \/ \A later \in Pending' : line.id < later.id
    /\ \A line \in Pending : line \in Pending' \/ line.kind \notin {"G90", "M280_S115"} \/ line.kind \in thrown'
    /\ thrown \subseteq thrown'

LEMMA LossTakes == ASSUME QueueTypeOK, QueueOrder, WaitInv, PowerLoss PROVE Taken
<1>1. /\ mega = "up" /\ ring' = <<>> /\ UNCHANGED <<sent, rx, mega, lid, relative>>
      /\ Throw(IF ring # <<>> /\ Head(ring) = running THEN Tail(ring) ELSE ring)
  BY DEF PowerLoss, ClearRing
<1>2. Pending' = {rx[j] : j \in 1..Len(rx)}
  <2>1. Len(ring') = 0
    BY <1>1
  <2>2. {ring'[i] : i \in 1..Len(ring')} = {}
    BY <2>1
  <2> QED BY <1>1, <2>2 DEF Pending
<1>3. \A line \in Pending : line \in Pending' \/ \A later \in Pending' : line.id < later.id
  BY <1>2 DEF Pending, QueueOrder
<1>4. Pending' \subseteq Pending
  BY <1>2 DEF Pending
<1>5. ASSUME NEW line \in Pending, line \notin Pending', line.kind \in {"G90", "M280_S115"}
      PROVE  line.kind \in thrown'
  <2>1. PICK i \in 1..Len(ring) : line = ring[i]
    BY <1>2, <1>5 DEF Pending
  <2>2. CASE ring # <<>> /\ Head(ring) = running
    <3>1. /\ Len(Tail(ring)) = Len(ring) - 1 /\ Head(ring) = ring[1]
          /\ \A k \in 1..Len(Tail(ring)) : Tail(ring)[k] = ring[k + 1]
          /\ Len(ring) \in Nat
      BY <2>2, StepTail DEF QueueTypeOK
    <3>2. i # 1
      <4>1. running.kind \notin {"G90", "M280_S115"}
        BY DEF WaitInv, NoLine, Homes, Moves, Distances, Spins
      <4> QED BY <1>5, <2>1, <2>2, <3>1, <4>1
    <3>3. i - 1 \in 1..Len(Tail(ring)) /\ Tail(ring)[i - 1] = line
      <4>1. i - 1 \in 1..Len(Tail(ring)) /\ (i - 1) + 1 = i
        BY <3>1, <3>2
      <4> QED BY <2>1, <3>1, <4>1
    <3>4. Throw(Tail(ring))
      BY <1>1, <2>2
    <3> QED BY <1>5, <3>3, <3>4 DEF Throw
  <2>3. CASE ~(ring # <<>> /\ Head(ring) = running)
    <3>1. Throw(ring)
      BY <1>1, <2>3
    <3> QED BY <1>5, <2>1, <3>1 DEF Throw
  <2> QED BY <2>2, <2>3
<1>6. thrown \subseteq thrown'
  BY <1>1 DEF Throw
<1> QED BY <1>1, <1>3, <1>4, <1>5, <1>6 DEF Taken

LEMMA LostSlotTakes ==
    ASSUME QueueTypeOK, QueueOrder, Ending, ring = <<>> \/ ring[1] # running
    PROVE  Taken
<1>1. /\ AdvanceR /\ UNCHANGED <<sent, rx, lid, relative, mega>> /\ mega = "up"
      /\ IF ring # <<>> /\ Head(ring) # running THEN Throw(<<Head(ring)>>) ELSE UNCHANGED thrown
  BY EndingQueue DEF Return, Ending, MoveEnds, HomingEnds, SpinEnds, cellVars
<1>2. CASE ring = <<>>
  <2>1. Pending' = Pending
    BY <1>1, <1>2 DEF AdvanceR, Pending
  <2>2. UNCHANGED thrown
    BY <1>1, <1>2
  <2> QED BY <1>1, <2>1, <2>2 DEF Taken
<1>3. CASE ring # <<>>
  <2>1. /\ Pending' \subseteq Pending
        /\ \A line \in Pending : line \in Pending' \/ line = ring[1]
        /\ \A later \in Pending' : ring[1].id < later.id
    BY <1>1, <1>3, FirstLeaves
  <2>2. Head(ring) = ring[1]
    BY <1>3 DEF QueueTypeOK
  <2>3. Throw(<<ring[1]>>)
    BY <1>1, <1>3, <2>2
  <2>4. /\ thrown \subseteq thrown'
        /\ ring[1].kind \in {"G90", "M280_S115"} => ring[1].kind \in thrown'
    <3> DEFINE one == <<ring[1]>>
    <3>1. Len(one) = 1 /\ one[1] = ring[1]
      OBVIOUS
    <3>2. Throw(one)
      BY <2>3
    <3> HIDE DEF one
    <3>3. 1 \in 1..Len(one)
      BY <3>1
    <3> QED BY <3>1, <3>2, <3>3 DEF Throw
  <2> QED BY <1>1, <2>1, <2>4 DEF Taken
<1> QED BY <1>2, <1>3

\* A line with number n meets a line that decides.
ModeBy(n) == Governed(Pending, n, {"G91"}, {"G90"})
LidBy(n) == Governed(Pending, n, {"M280_S115"}, Openers)

LEMMA TakenEnds ==
    ASSUME QueueTypeOK, QueueOrder, relative \in BOOLEAN, Taken, NEW n \in Nat
    PROVE  /\ ModeBy(n)' => (RelativeBy(n)' <=> RelativeBy(n))
           /\ ~ModeBy(n)' => (RelativeBy(n)' <=> relative)
           /\ LidBy(n)' => (ClosedBy(n)' <=> ClosedBy(n))
           /\ ~LidBy(n)' => (ClosedBy(n)' <=> lid = "closed")
<1>1. /\ Pending' \in SUBSET Pending /\ \A line \in Pending : line.id \in Nat
      /\ \A line \in Pending : line \in Pending' \/ \A later \in Pending' : line.id < later.id
      /\ relative' = relative /\ lid' = lid
  BY PendingLines DEF Taken
<1>2. ASSUME ModeBy(n)' PROVE RelativeBy(n)' <=> RelativeBy(n)
  <2>1. Governed(Pending', n, {"G91"}, {"G90"})
    BY <1>2 DEF ModeBy
  <2>2. /\ Governed(Pending, n, {"G91"}, {"G90"})
        /\ SetBy(Pending', n, {"G91"}, {"G90"}) <=> SetBy(Pending, n, {"G91"}, {"G90"})
    BY <1>1, <2>1, LeftDecides
  <2>3. RelativeBy(n)' <=> SetBy(Pending', n, {"G91"}, {"G90"})
    BY <2>1, GovernedEnds DEF RelativeBy
  <2>4. RelativeBy(n) <=> SetBy(Pending, n, {"G91"}, {"G90"})
    BY <2>2, GovernedEnds DEF RelativeBy
  <2> QED BY <2>2, <2>3, <2>4
<1>3. ASSUME ~ModeBy(n)' PROVE RelativeBy(n)' <=> relative
  BY <1>1, <1>3, FreeEnds DEF RelativeBy, ModeBy
<1>4. ASSUME LidBy(n)' PROVE ClosedBy(n)' <=> ClosedBy(n)
  <2>1. Governed(Pending', n, {"M280_S115"}, Openers)
    BY <1>4 DEF LidBy
  <2>2. /\ Governed(Pending, n, {"M280_S115"}, Openers)
        /\ SetBy(Pending', n, {"M280_S115"}, Openers) <=> SetBy(Pending, n, {"M280_S115"}, Openers)
    BY <1>1, <2>1, LeftDecides
  <2>3. ClosedBy(n)' <=> SetBy(Pending', n, {"M280_S115"}, Openers)
    BY <2>1, GovernedEnds DEF ClosedBy
  <2>4. ClosedBy(n) <=> SetBy(Pending, n, {"M280_S115"}, Openers)
    BY <2>2, GovernedEnds DEF ClosedBy
  <2> QED BY <2>2, <2>3, <2>4
<1>5. ASSUME ~LidBy(n)' PROVE ClosedBy(n)' <=> lid = "closed"
  <2> DEFINE now == (lid' = "closed")
  <2>1. now \in BOOLEAN
    OBVIOUS
  <2> HIDE DEF now
  <2>2. EndsBy(Pending', n, {"M280_S115"}, Openers, now) <=> now
    BY <1>5, <2>1, FreeEnds DEF LidBy
  <2> QED BY <1>1, <2>2 DEF now, ClosedBy
<1> QED BY <1>2, <1>3, <1>4, <1>5

-----------------------------------------------------------------------------
(* Lines that are written come last: those on their way meet what they met.  *)

LEMMA AddedEnds ==
    ASSUME NEW more, NEW lines \in SUBSET more, NEW n, NEW m, NEW up, NEW down, NEW now \in BOOLEAN,
           \A line \in lines : line.kind \in up \cup down => (line.id < n <=> line.id < m),
           \A line \in more : line \in lines \/ ~(line.id < n) \/ line.kind \notin up \cup down
    PROVE  EndsBy(more, n, up, down, now) <=> EndsBy(lines, m, up, down, now)
<1>1. \A line \in more : line.kind \in up \cup down /\ line.id < n => line \in lines /\ line.id < m
  OBVIOUS
<1>2. \A line \in lines : line.kind \in up \cup down /\ line.id < m => line \in more /\ line.id < n
  OBVIOUS
<1>3. SetBy(more, n, up, down) <=> SetBy(lines, m, up, down)
  BY <1>1, <1>2 DEF SetBy
<1>4. (\A d \in more : d.id < n => d.kind \notin down)
         <=> (\A d \in lines : d.id < m => d.kind \notin down)
  BY <1>1, <1>2
<1> QED BY <1>3, <1>4, Zenon DEF EndsBy

LEMMA LastDecides ==
    ASSUME NEW lines, NEW n, NEW up, NEW down, up \cap down = {}, NEW now \in BOOLEAN,
           \A line \in lines : line.id \in Nat,
           NEW g \in lines, g.kind \in up \cup down, g.id < n,
           \A line \in lines :
              line.kind \in up \cup down /\ line.id < n => line = g \/ line.id < g.id
    PROVE  EndsBy(lines, n, up, down, now) <=> g.kind \in up
<1>1. EndsBy(lines, n, up, down, now) <=> SetBy(lines, n, up, down)
  <2>1. Governed(lines, n, up, down)
    BY DEF Governed
  <2> QED BY <2>1, GovernedEnds
<1>2. ASSUME g.kind \in up PROVE SetBy(lines, n, up, down)
  <2>1. \A d \in lines : d.kind \in down /\ d.id < n => d.id < g.id
    BY <1>2
  <2> QED BY <1>2, <2>1 DEF SetBy
<1>3. ASSUME g.kind \in down PROVE ~SetBy(lines, n, up, down)
  <2> SUFFICES ASSUME NEW u \in lines, u.kind \in up, u.id < n, g.id < u.id PROVE FALSE
    BY <1>3 DEF SetBy
  <2>1. u.id < g.id /\ u.id \in Nat /\ g.id \in Nat
    BY <1>3
  <2> QED BY <2>1
<1> QED BY <1>1, <1>2, <1>3

LEMMA WriteOld ==
    ASSUME QueueTypeOK, QueueOrder, NEW kinds \in Seq(Kinds), Write(kinds), mega = "up",
           NEW up, NEW down, NEW now \in BOOLEAN, NEW n \in Nat, n <= All
    PROVE  EndsBy(Pending', n, up, down, now) <=> EndsBy(Pending, n, up, down, now)
<1> DEFINE added(k) == rx'[Len(rx) + k]
<1>1. /\ \A line \in Pending : line \in Pending' /\ line.id \in Nat /\ line.id <= sent
      /\ \A k \in 1..Len(kinds) :
            added(k) \in Pending' /\ added(k).id = sent + k /\ added(k).kind = kinds[k]
      /\ \A line \in Pending' : line \in Pending \/ \E k \in 1..Len(kinds) : line = added(k)
      /\ sent \in Nat /\ Len(kinds) \in Nat
  BY WritePending DEF QueueTypeOK
<1> HIDE DEF added
<1>2. \A line \in Pending' : line \in Pending \/ ~(line.id < n)
  BY <1>1 DEF All
<1>3. Pending \in SUBSET Pending'
  BY <1>1
<1> QED BY <1>2, <1>3, AddedEnds

\* What the i-th of the new lines meets, or the line after the last of them: what
\* all lines before the write leave, or else the last line that decides.
LEMMA WriteSame ==
    ASSUME QueueTypeOK, QueueOrder, NEW kinds \in Seq(Kinds), Write(kinds), mega = "up",
           NEW up, NEW down, NEW now \in BOOLEAN,
           NEW i \in 1..Len(kinds) + 1, NEW n, n = sent + i,
           \A j \in 1..Len(kinds) : j < i => kinds[j] \notin up \cup down
    PROVE  EndsBy(Pending', n, up, down, now) <=> EndsBy(Pending, All, up, down, now)
<1> DEFINE added(k) == rx'[Len(rx) + k]
<1>1. /\ \A line \in Pending : line \in Pending' /\ line.id \in Nat /\ line.id <= sent
      /\ \A k \in 1..Len(kinds) :
            added(k) \in Pending' /\ added(k).id = sent + k /\ added(k).kind = kinds[k]
      /\ \A line \in Pending' : line \in Pending \/ \E k \in 1..Len(kinds) : line = added(k)
      /\ sent \in Nat /\ Len(kinds) \in Nat
  BY WritePending DEF QueueTypeOK
<1> HIDE DEF added
<1>2. \A line \in Pending' :
         line \in Pending \/ ~(line.id < n) \/ line.kind \notin up \cup down
  <2> SUFFICES ASSUME NEW line \in Pending', line \notin Pending, line.id < n
               PROVE  line.kind \notin up \cup down
    OBVIOUS
  <2>1. PICK k \in 1..Len(kinds) : line = added(k)
    BY <1>1
  <2>2. line.id = sent + k /\ line.kind = kinds[k]
    BY <1>1, <2>1
  <2>3. k < i
    BY <1>1, <2>2
  <2> QED BY <2>2, <2>3
<1>3. \A line \in Pending : line.id < n <=> line.id < All
  BY <1>1 DEF All
<1>4. Pending \in SUBSET Pending'
  BY <1>1
<1> QED BY <1>2, <1>3, <1>4, AddedEnds

LEMMA WriteDecides ==
    ASSUME QueueTypeOK, QueueOrder, NEW kinds \in Seq(Kinds), Write(kinds), mega = "up",
           NEW up, NEW down, NEW now \in BOOLEAN, up \cap down = {},
           NEW i \in 1..Len(kinds) + 1, NEW n, n = sent + i,
           NEW j \in 1..Len(kinds), j < i, kinds[j] \in up \cup down,
           \A k \in 1..Len(kinds) : j < k /\ k < i => kinds[k] \notin up \cup down
    PROVE  EndsBy(Pending', n, up, down, now) <=> kinds[j] \in up
<1> DEFINE added(k) == rx'[Len(rx) + k]
<1>1. /\ \A line \in Pending : line \in Pending' /\ line.id \in Nat /\ line.id <= sent
      /\ \A k \in 1..Len(kinds) :
            added(k) \in Pending' /\ added(k).id = sent + k /\ added(k).kind = kinds[k]
      /\ \A line \in Pending' : line \in Pending \/ \E k \in 1..Len(kinds) : line = added(k)
      /\ sent \in Nat /\ Len(kinds) \in Nat
  BY WritePending DEF QueueTypeOK
<1> HIDE DEF added
<1>2. /\ added(j) \in Pending' /\ added(j).kind \in up \cup down /\ added(j).id < n
      /\ added(j).kind = kinds[j]
  BY <1>1
<1>3. \A line \in Pending' :
         line.kind \in up \cup down /\ line.id < n => line = added(j) \/ line.id < added(j).id
  <2> TAKE line \in Pending'
  <2>1. CASE line \in Pending
    BY <1>1, <2>1
  <2>2. CASE line \notin Pending
    <3> PICK k \in 1..Len(kinds) : line = added(k)
      BY <1>1, <2>2
    <3>1. line.id = sent + k /\ line.kind = kinds[k] /\ added(j).id = sent + j
      BY <1>1
    <3>2. k < j \/ k = j \/ (j < k /\ k < i) \/ ~(line.id < n)
      BY <1>1, <3>1
    <3> QED BY <1>1, <3>1, <3>2
  <2> QED BY <2>1, <2>2
<1>4. \A line \in Pending' : line.id \in Nat
  BY <1>1
<1> QED BY <1>2, <1>3, <1>4, LastDecides

-----------------------------------------------------------------------------
(* The steps that a run has before it.                                       *)

Modes == {"G90", "G91"}

\* A bracket is followed by the G90 that it owes; a move finds the mode that it
\* needs in the last mode line before it, and follows no homing; a block that
\* lowers the nozzle does not close the lid; nothing opens the lid before a spin.
WellPlanned(steps) ==
    \A i \in 1..Len(steps) :
       /\ steps[i] = "bracket" => \E j \in 1..Len(steps) : i < j /\ steps[j] = "G90"
       /\ \A j \in 1..Len(steps) :
             /\ /\ j < i /\ steps[i] \in Moves /\ steps[j] \in Modes
                /\ \A k \in 1..Len(steps) : j < k /\ k < i => steps[k] \notin Modes
               => (steps[i] \in Distances <=> steps[j] = "G91")
             /\ steps[i] = "G28" => steps[j] \notin Moves \cup Modes
             /\ steps[i] = "G1_B" => steps[j] # "M280_S115"
             /\ steps[i] = "M750" /\ j < i => steps[j] \notin Openers

\* A block that has not begun.
Fresh(steps) ==
    \A i \in 1..Len(steps) :
       /\ steps[i] \in Moves => \E j \in 1..Len(steps) : j < i /\ steps[j] \in Modes
       /\ steps[i] = "G1_B" => \E j \in 1..Len(steps) : j < i /\ steps[j] = "lid"
       /\ steps[i] = "M750" => \E j \in 1..Len(steps) : j < i /\ steps[j] = "M280_S115"

LEMMA IdleBlock ==
    ASSUME NEW steps, \A i \in 1..Len(steps) : steps[i] \notin Moves \cup Modes \cup {"bracket", "M750"}
    PROVE  Fresh(steps) /\ WellPlanned(steps)
<1>1. "G1_B" \in Moves
  BY DEF Moves
<1> QED BY <1>1 DEF Fresh, WellPlanned

LEMMA SyringeBlock ==
    ASSUME NEW s, s = <<"lid", "G90", "G1_X", "G1_B", "bracket", "G91", "G1_C", "sleep", "G90", "G1_B0">>
    PROVE  Fresh(s) /\ WellPlanned(s)
<1>1. /\ Len(s) = 10
      /\ s[1] = "lid" /\ s[2] = "G90" /\ s[3] = "G1_X" /\ s[4] = "G1_B" /\ s[5] = "bracket"
      /\ s[6] = "G91" /\ s[7] = "G1_C" /\ s[8] = "sleep" /\ s[9] = "G90" /\ s[10] = "G1_B0"
  OBVIOUS
<1>2. \A i \in 1..Len(s) : \/ i = 1 \/ i = 2 \/ i = 3 \/ i = 4 \/ i = 5 \/ i = 6 \/ i = 7
                          \/ i = 8 \/ i = 9 \/ i = 10
  BY <1>1
<1>3. 1 \in 1..Len(s) /\ 2 \in 1..Len(s) /\ 6 \in 1..Len(s) /\ 9 \in 1..Len(s)
  BY <1>1
<1>4. Fresh(s)
  BY <1>1, <1>2, <1>3 DEF Fresh, Moves, Distances, Modes
<1>5. ASSUME NEW i \in 1..Len(s), NEW j \in 1..Len(s), j < i, s[i] \in Moves, s[j] \in Modes,
             \A k \in 1..Len(s) : j < k /\ k < i => s[k] \notin Modes
      PROVE  s[i] \in Distances <=> s[j] = "G91"
  <2>1. i = 3 \/ i = 4 \/ i = 7 \/ i = 10
    BY <1>1, <1>2, <1>5 DEF Moves, Distances
  <2>2. j = 2 \/ j = 6 \/ j = 9
    BY <1>1, <1>2, <1>5 DEF Modes
  <2>3. s[2] \in Modes /\ s[6] \in Modes /\ s[9] \in Modes
    BY <1>1 DEF Modes
  <2>4. ~(j < 2 /\ 2 < i) /\ ~(j < 6 /\ 6 < i) /\ ~(j < 9 /\ 9 < i)
    BY <1>3, <1>5, <2>3
  <2>5. (j = 2 /\ (i = 3 \/ i = 4)) \/ (j = 6 /\ i = 7) \/ (j = 9 /\ i = 10)
    BY <1>5, <2>1, <2>2, <2>4
  <2> QED BY <1>1, <2>5 DEF Distances
<1>6. ASSUME NEW i \in 1..Len(s), NEW j \in 1..Len(s)
      PROVE  /\ s[i] = "bracket" => i < 9 /\ s[9] = "G90"
             /\ s[i] # "G28" /\ s[j] # "M280_S115" /\ s[i] # "M750"
  BY <1>1, <1>2
<1> QED BY <1>3, <1>4, <1>5, <1>6 DEF WellPlanned

LEMMA StampBlock ==
    ASSUME NEW s, s = <<"G90", "G1_X", "G91", "G1_A", "G90", "G1_Z", "sleep", "G90", "G1_Z">>
    PROVE  Fresh(s) /\ WellPlanned(s)
<1>1. /\ Len(s) = 9
      /\ s[1] = "G90" /\ s[2] = "G1_X" /\ s[3] = "G91" /\ s[4] = "G1_A" /\ s[5] = "G90"
      /\ s[6] = "G1_Z" /\ s[7] = "sleep" /\ s[8] = "G90" /\ s[9] = "G1_Z"
  OBVIOUS
<1>2. \A i \in 1..Len(s) : \/ i = 1 \/ i = 2 \/ i = 3 \/ i = 4 \/ i = 5 \/ i = 6 \/ i = 7
                          \/ i = 8 \/ i = 9
  BY <1>1
<1>3. 1 \in 1..Len(s) /\ 3 \in 1..Len(s) /\ 5 \in 1..Len(s) /\ 8 \in 1..Len(s)
  BY <1>1
<1>4. Fresh(s)
  BY <1>1, <1>2, <1>3 DEF Fresh, Moves, Distances, Modes
<1>5. ASSUME NEW i \in 1..Len(s), NEW j \in 1..Len(s), j < i, s[i] \in Moves, s[j] \in Modes,
             \A k \in 1..Len(s) : j < k /\ k < i => s[k] \notin Modes
      PROVE  s[i] \in Distances <=> s[j] = "G91"
  <2>1. i = 2 \/ i = 4 \/ i = 6 \/ i = 9
    BY <1>1, <1>2, <1>5 DEF Moves, Distances
  <2>2. j = 1 \/ j = 3 \/ j = 5 \/ j = 8
    BY <1>1, <1>2, <1>5 DEF Modes
  <2>3. s[1] \in Modes /\ s[3] \in Modes /\ s[5] \in Modes /\ s[8] \in Modes
    BY <1>1 DEF Modes
  <2>4. ~(j < 3 /\ 3 < i) /\ ~(j < 5 /\ 5 < i) /\ ~(j < 8 /\ 8 < i)
    BY <1>3, <1>5, <2>3
  <2>5. (j = 1 /\ i = 2) \/ (j = 3 /\ i = 4) \/ (j = 5 /\ i = 6) \/ (j = 8 /\ i = 9)
    BY <1>5, <2>1, <2>2, <2>4
  <2> QED BY <1>1, <2>5 DEF Distances
<1>6. ASSUME NEW i \in 1..Len(s)
      PROVE  s[i] # "bracket" /\ s[i] # "G28" /\ s[i] # "G1_B" /\ s[i] # "M750"
  BY <1>1, <1>2
<1> QED BY <1>4, <1>5, <1>6 DEF WellPlanned

LEMMA SpinBlock ==
    ASSUME NEW s, s = <<"M280_S115", "M750", "M280_S30">>
    PROVE  Fresh(s) /\ WellPlanned(s)
<1>1. Len(s) = 3 /\ s[1] = "M280_S115" /\ s[2] = "M750" /\ s[3] = "M280_S30"
  OBVIOUS
<1>2. \A i \in 1..Len(s) : i = 1 \/ i = 2 \/ i = 3
  BY <1>1
<1>3. 1 \in 1..Len(s)
  BY <1>1
<1>4. \A i \in 1..Len(s) : s[i] \notin Moves \cup Modes \cup {"bracket", "G28", "G1_B"}
  BY <1>1, <1>2 DEF Moves, Distances, Modes
<1>5. \A i, j \in 1..Len(s) : s[i] = "M750" /\ j < i => i = 2 /\ j = 1
  BY <1>1, <1>2
<1>6. s[1] \notin Openers
  BY <1>1, LidKinds
<1>7. \A i \in 1..Len(s) : s[i] = "M750" => i = 2 /\ 1 < i
  BY <1>1, <1>2
<1> QED BY <1>1, <1>3, <1>4, <1>5, <1>6, <1>7 DEF WellPlanned, Fresh

LEMMA BlockPlanned ==
    ASSUME NEW block \in Blocks
    PROVE  Fresh(Steps(block)) /\ WellPlanned(Steps(block))
<1>1. CASE block = "syringe"
  BY <1>1, SyringeBlock DEF Steps
<1>2. CASE block = "stamp"
  BY <1>2, StampBlock DEF Steps, StampSteps
<1>3. CASE block = "spin"
  BY <1>3, SpinBlock DEF Steps, SpinSteps
<1>4. CASE block \notin {"syringe", "stamp", "spin"}
  <2>1. \A i \in 1..Len(Steps(block)) :
           Steps(block)[i] \notin Moves \cup Modes \cup {"bracket", "M750"}
    BY <1>4 DEF Steps, CureSteps, Blocks, On, Off, Moves, Distances, Modes
  <2> QED BY <2>1, IdleBlock
<1> QED BY <1>1, <1>2, <1>3, <1>4

\* A hold of the Run Log before a block.
LEMMA HeldBlock ==
    ASSUME NEW s \in Seq(StepKinds), Fresh(s), WellPlanned(s)
    PROVE  Fresh(<<"sleep">> \o s) /\ WellPlanned(<<"sleep">> \o s)
<1> DEFINE t == <<"sleep">> \o s
<1>1. /\ Len(t) = Len(s) + 1 /\ Len(s) \in Nat
      /\ t[1] = "sleep" /\ \A i \in 1..Len(s) : t[i + 1] = s[i]
  <2>1. <<"sleep">> \in Seq(StepKinds)
    BY OneLine DEF StepKinds, Checks
  <2> QED BY <2>1
<1> HIDE DEF t
<1>2. \A i \in 1..Len(t) : i = 1 \/ (i - 1 \in 1..Len(s) /\ t[i] = s[i - 1])
  <2> TAKE i \in 1..Len(t)
  <2>1. i = 1 \/ (i - 1 \in 1..Len(s) /\ (i - 1) + 1 = i)
    BY <1>1
  <2> QED BY <1>1, <2>1
<1>3. \A j \in 1..Len(s) : j + 1 \in 1..Len(t) /\ t[j + 1] = s[j]
  BY <1>1
<1>4. "sleep" \notin Moves \cup Modes \cup Openers \cup {"G28", "G1_B", "M750", "M280_S115", "bracket"}
  BY DEF Moves, Distances, Modes, Openers, Homes
<1>6. Fresh(t)
  <2> SUFFICES ASSUME NEW i \in 1..Len(t)
               PROVE  /\ t[i] \in Moves => \E j \in 1..Len(t) : j < i /\ t[j] \in Modes
                      /\ t[i] = "G1_B" => \E j \in 1..Len(t) : j < i /\ t[j] = "lid"
                      /\ t[i] = "M750" => \E j \in 1..Len(t) : j < i /\ t[j] = "M280_S115"
    BY DEF Fresh
  <2>1. CASE i = 1
    BY <1>1, <1>4, <2>1
  <2>2. CASE i # 1
    <3>1. i - 1 \in 1..Len(s) /\ t[i] = s[i - 1]
      BY <1>2, <2>2
    <3>2. \A j \in 1..Len(s) : j < i - 1 => j + 1 < i
      BY <1>1
    <3>3. /\ s[i - 1] \in Moves => \E j \in 1..Len(s) : j < i - 1 /\ s[j] \in Modes
          /\ s[i - 1] = "G1_B" => \E j \in 1..Len(s) : j < i - 1 /\ s[j] = "lid"
          /\ s[i - 1] = "M750" => \E j \in 1..Len(s) : j < i - 1 /\ s[j] = "M280_S115"
      BY <3>1 DEF Fresh
    <3> QED BY <1>3, <3>1, <3>2, <3>3
  <2> QED BY <2>1, <2>2
<1>7. ASSUME NEW i \in 1..Len(t), t[i] = "bracket"
      PROVE  \E j \in 1..Len(t) : i < j /\ t[j] = "G90"
  <2>1. i - 1 \in 1..Len(s) /\ s[i - 1] = "bracket"
    BY <1>1, <1>2, <1>7
  <2>2. PICK j \in 1..Len(s) : i - 1 < j /\ s[j] = "G90"
    BY <2>1 DEF WellPlanned
  <2>3. j + 1 \in 1..Len(t) /\ t[j + 1] = "G90" /\ i < j + 1
    BY <1>3, <2>2
  <2> QED BY <2>3
<1>8. ASSUME NEW i \in 1..Len(t), NEW j \in 1..Len(t), j < i, t[i] \in Moves, t[j] \in Modes,
             \A k \in 1..Len(t) : j < k /\ k < i => t[k] \notin Modes
      PROVE  t[i] \in Distances <=> t[j] = "G91"
  <2>1. /\ i - 1 \in 1..Len(s) /\ s[i - 1] = t[i]
        /\ j - 1 \in 1..Len(s) /\ s[j - 1] = t[j] /\ j - 1 < i - 1
    BY <1>1, <1>2, <1>4, <1>8
  <2>2. \A k \in 1..Len(s) : j - 1 < k /\ k < i - 1 => s[k] \notin Modes
    <3> TAKE k \in 1..Len(s)
    <3>1. k + 1 \in 1..Len(t) /\ t[k + 1] = s[k] /\ (j - 1 < k => j < k + 1) /\ (k < i - 1 => k + 1 < i)
      BY <1>3
    <3> QED BY <1>8, <3>1
  <2>3. s[i - 1] \in Distances <=> s[j - 1] = "G91"
    BY <1>8, <2>1, <2>2 DEF WellPlanned
  <2> QED BY <2>1, <2>3
<1>9. ASSUME NEW i \in 1..Len(t), NEW j \in 1..Len(t)
      PROVE  /\ t[i] = "G28" => t[j] \notin Moves \cup Modes
             /\ t[i] = "G1_B" => t[j] # "M280_S115"
             /\ t[i] = "M750" /\ j < i => t[j] \notin Openers
  <2>1. i = 1 \/ (i - 1 \in 1..Len(s) /\ t[i] = s[i - 1])
    BY <1>2
  <2>2. j = 1 \/ (j - 1 \in 1..Len(s) /\ t[j] = s[j - 1] /\ (j < i => j - 1 < i - 1))
    BY <1>2
  <2>3. CASE i = 1 \/ j = 1
    BY <1>1, <1>4, <2>3
  <2>4. CASE i # 1 /\ j # 1
    BY <2>1, <2>2, <2>4 DEF WellPlanned
  <2> QED BY <2>3, <2>4
<1>10. WellPlanned(t)
  BY <1>7, <1>8, <1>9 DEF WellPlanned
<1> QED BY <1>6, <1>10 DEF t

LEMMA TailPlanned ==
    ASSUME NEW s \in Seq(StepKinds), s # <<>>, WellPlanned(s)
    PROVE  WellPlanned(Tail(s))
<1> DEFINE t == Tail(s)
<1>1. /\ Len(t) = Len(s) - 1 /\ Len(s) \in Nat \ {0}
      /\ \A i \in 1..Len(t) : i + 1 \in 1..Len(s) /\ t[i] = s[i + 1]
  BY StepTail
<1> HIDE DEF t
<1>2. \A j \in 1..Len(s) : j = 1 \/ (j - 1 \in 1..Len(t) /\ t[j - 1] = s[j])
  <2> TAKE j \in 1..Len(s)
  <2>1. j = 1 \/ (j - 1 \in 1..Len(t) /\ (j - 1) + 1 = j)
    BY <1>1
  <2> QED BY <1>1, <2>1
<1>3. ASSUME NEW i \in 1..Len(t), t[i] = "bracket"
      PROVE  \E j \in 1..Len(t) : i < j /\ t[j] = "G90"
  <2>1. i + 1 \in 1..Len(s) /\ s[i + 1] = "bracket"
    BY <1>1, <1>3
  <2>2. PICK j \in 1..Len(s) : i + 1 < j /\ s[j] = "G90"
    BY <2>1 DEF WellPlanned
  <2>3. j - 1 \in 1..Len(t) /\ t[j - 1] = "G90" /\ i < j - 1
    BY <1>2, <2>2
  <2> QED BY <2>3
<1>4. ASSUME NEW i \in 1..Len(t), NEW j \in 1..Len(t), j < i, t[i] \in Moves, t[j] \in Modes,
             \A k \in 1..Len(t) : j < k /\ k < i => t[k] \notin Modes
      PROVE  t[i] \in Distances <=> t[j] = "G91"
  <2>1. /\ i + 1 \in 1..Len(s) /\ s[i + 1] = t[i]
        /\ j + 1 \in 1..Len(s) /\ s[j + 1] = t[j] /\ j + 1 < i + 1
    BY <1>1, <1>4
  <2>2. \A k \in 1..Len(s) : j + 1 < k /\ k < i + 1 => s[k] \notin Modes
    <3> TAKE k \in 1..Len(s)
    <3>1. k = 1 \/ (k - 1 \in 1..Len(t) /\ t[k - 1] = s[k] /\ (j + 1 < k => j < k - 1) /\ (k < i + 1 => k - 1 < i))
      BY <1>2
    <3> QED BY <1>4, <3>1
  <2>3. s[i + 1] \in Distances <=> s[j + 1] = "G91"
    BY <1>4, <2>1, <2>2 DEF WellPlanned
  <2> QED BY <2>1, <2>3
<1>5. ASSUME NEW i \in 1..Len(t), NEW j \in 1..Len(t)
      PROVE  /\ t[i] = "G28" => t[j] \notin Moves \cup Modes
             /\ t[i] = "G1_B" => t[j] # "M280_S115"
             /\ t[i] = "M750" /\ j < i => t[j] \notin Openers
  <2>1. /\ i + 1 \in 1..Len(s) /\ t[i] = s[i + 1]
        /\ j + 1 \in 1..Len(s) /\ t[j] = s[j + 1] /\ (j < i => j + 1 < i + 1)
    BY <1>1
  <2> QED BY <2>1 DEF WellPlanned
<1>6. WellPlanned(t)
  BY <1>3, <1>4, <1>5 DEF WellPlanned
<1> QED BY <1>6 DEF t

\* What a step of the page does to the steps that the run has before it.
NewBlock == \E block \in Blocks : todo' = Steps(block) \/ todo' = <<"sleep">> \o Steps(block)

LEMMA TodoStep ==
    ASSUME TypeOK, RunInv, PageStep
    PROVE  \/ UNCHANGED todo
           \/ todo' = <<>> /\ seq' = "idle"
           \/ todo # <<>> /\ todo' = Tail(todo) /\ ((Advance /\ Check) \/ (StepDone /\ seq' = "next"))
           \/ NewBlock /\ seq' = "next"
<1>1. CASE Advance
  <2>1. CASE NextBlock
    <3>1. plan \in Seq(Blocks) /\ plan # <<>> /\ seq = "next"
      BY <1>1, <2>1 DEF TypeOK, NextBlock, Advance
    <3>2. plan[1] \in Blocks
      BY <3>1, StepTail
    <3> QED BY <2>1, <3>1, <3>2 DEF NextBlock, NewBlock
  <2>2. CASE Check
    BY <1>1, <2>2 DEF Check
  <2>3. CASE Command \/ EndRun
    BY <2>3 DEF Command, EndRun
  <2> QED BY <1>1, <2>1, <2>2, <2>3 DEF Advance
<1>2. CASE StepDone
  <2>1. todo # <<>>
    BY <1>2 DEF StepDone, RunInv
  <2> QED BY <1>2, <2>1 DEF StepDone
<1>3. CASE StartRun
  <2>1. PICK program \in Programs : todo' = Steps(Head(program)) /\ seq' = "next"
    BY <1>3 DEF StartRun
  <2> QED BY <2>1, FirstBlock DEF NewBlock
<1>4. CASE Unwind
  BY <1>4 DEF Unwind
<1>5. CASE SleepEnds \/ Pressed \/ Connect \/ Stop \/ EmergencyStop \/ Disconnect \/ Timeout \/ HandleLine
  BY <1>5, PressedSends DEF SleepEnds, Connect, Stop, EmergencyStop, Disconnect, Timeout, HandleLine,
     RunKept, runVars
<1> QED BY <1>1, <1>2, <1>3, <1>4, <1>5 DEF PageStep, Run, Operator, Buttons, Pressed

LEMMA NewBlockPlanned ==
    ASSUME NewBlock
    PROVE  Fresh(todo)' /\ WellPlanned(todo)'
<1>1. PICK block \in Blocks : todo' = Steps(block) \/ todo' = <<"sleep">> \o Steps(block)
  BY DEF NewBlock
<1>2. /\ Fresh(Steps(block)) /\ WellPlanned(Steps(block))
      /\ Fresh(<<"sleep">> \o Steps(block)) /\ WellPlanned(<<"sleep">> \o Steps(block))
  BY BlockPlanned, BlockSteps, HeldBlock
<1>3. ASSUME NEW steps, Fresh(steps), WellPlanned(steps), todo' = steps
      PROVE  Fresh(todo)' /\ WellPlanned(todo)'
  BY <1>3 DEF Fresh, WellPlanned
<1> QED BY <1>1, <1>2, <1>3

LEMMA PlannedStep ==
    ASSUME TypeOK, RunInv, WellPlanned(todo), PageStep
    PROVE  WellPlanned(todo)'
<1>1. ASSUME NEW steps, WellPlanned(steps), todo' = steps PROVE WellPlanned(todo)'
  BY <1>1 DEF WellPlanned
<1>2. todo \in Seq(StepKinds)
  BY DEF TypeOK, StepKinds
<1>3. WellPlanned(<<>>)
  <2>1. \A steps : Len(steps) = 0 => WellPlanned(steps)
    BY DEF WellPlanned
  <2> QED BY <2>1
<1>4. CASE todo # <<>> /\ todo' = Tail(todo)
  BY <1>1, <1>2, <1>4, TailPlanned
<1> QED BY <1>1, <1>3, <1>4, TodoStep, NewBlockPlanned

-----------------------------------------------------------------------------
(* However a dispense ends, a G90 is owed or on its way.                     *)

\* What the machine does to the lines on their way: they leave from the front.
LEMMA MachineLeaves ==
    ASSUME QueueTypeOK, QueueOrder, CellInv, WaitInv, Firmware \/ PowerLoss
    PROVE  /\ UNCHANGED sent /\ Pending' \in SUBSET Pending
           /\ \A line \in Pending : line \in Pending' \/ \A later \in Pending' : line.id < later.id
<1>1. CASE PowerLoss
  BY <1>1, LossTakes DEF Taken
<1>2. CASE FetchLine
  BY <1>2, FetchPending DEF FetchLine
<1>3. CASE Ending
  <2>1. AdvanceR /\ UNCHANGED <<sent, rx>>
    BY <1>3, EndingQueue DEF Return
  <2>2. CASE ring = <<>>
    <3>1. Pending' = Pending
      BY <2>1, <2>2 DEF AdvanceR, Pending
    <3> QED BY <2>1, <3>1
  <2>3. CASE ring # <<>>
    BY <2>1, <2>3, FirstLeaves
  <2> QED BY <2>2, <2>3
<1>4. CASE RotorStops \/ Die \/ Boots
  BY <1>4 DEF RotorStops, Die, Boots, queueVars, Pending
<1>5. ASSUME NEW line, Immediate(line)
      PROVE  /\ UNCHANGED sent /\ Pending' \in SUBSET Pending
             /\ \A other \in Pending : other \in Pending' \/ \A later \in Pending' : other.id < later.id
  <2>1. /\ Dispatch(line) /\ AdvanceR /\ UNCHANGED <<sent, rx>> /\ ring # <<>>
    BY <1>5, ImmediateQueue, DispatchedLine DEF Return
  <2> QED BY <2>1, FirstLeaves
<1>6. ASSUME NEW line, Beginning(line)
      PROVE  /\ UNCHANGED sent /\ Pending' \in SUBSET Pending
             /\ \A other \in Pending : other \in Pending' \/ \A later \in Pending' : other.id < later.id
  BY <1>6 DEF Beginning, Begin, Pending
<1> QED BY <1>1, <1>2, <1>3, <1>4, <1>5, <1>6, FirmwareSteps

\* A board that has just booted has nothing before it.
LEMMA BootsEmpty == ASSUME CellInv, Boots PROVE Pending' = {} /\ Pending = {} /\ running' = NoLine
<1>1. rx = <<>> /\ ring = <<>> /\ running = NoLine /\ UNCHANGED <<rx, ring, running>>
  BY DEF Boots, CellInv, queueVars
<1>2. Len(rx) = 0 /\ Len(ring) = 0
  BY <1>1
<1> QED BY <1>1, <1>2 DEF Pending

\* A line on its way makes the mode relative for good.
StaysRelative == SetBy(Pending, All, {"G91"}, {"G90"})

LEMMA MachineMode ==
    ASSUME QueueTypeOK, QueueOrder, relative \in BOOLEAN, CellInv, WaitInv,
           Firmware \/ PowerLoss, mega' = "up"
    PROVE  /\ StaysRelative' => StaysRelative /\ mega = "up"
           /\ RelativeBy(All)' =>
                 /\ mega = "up"
                 /\ StaysRelative \/ "G90" \in thrown' \/ (RelativeBy(All) /\ "G90" \notin thrown)
<1>0. /\ \A line \in Pending : line.id \in Nat /\ line.id < All
      /\ All \in Nat
      /\ ring # <<>> => ring[1] \in Pending
  BY PendingLines
<1>1. /\ UNCHANGED sent /\ Pending' \in SUBSET Pending
      /\ \A line \in Pending : line \in Pending' \/ \A later \in Pending' : line.id < later.id
  BY MachineLeaves
<1>2. SetBy(Pending', All, {"G91"}, {"G90"}) => StaysRelative
  BY <1>0, <1>1, LeftDecides DEF StaysRelative
<1>3. StaysRelative' => StaysRelative
  BY <1>1, <1>2 DEF StaysRelative, All
<1>4. CASE Boots
  <2>1. Pending' = {} /\ relative' = FALSE
    BY <1>4, BootsEmpty DEF Boots
  <2> QED BY <2>1, Zenon DEF StaysRelative, RelativeBy, EndsBy, SetBy
<1>5. ASSUME Pending' = Pending, UNCHANGED relative, "G90" \in thrown => "G90" \in thrown', RelativeBy(All)'
      PROVE  "G90" \in thrown' \/ (RelativeBy(All) /\ "G90" \notin thrown)
  BY <1>1, <1>5 DEF RelativeBy, All
<1>6. CASE FetchLine \/ RotorStops
  <2>1. Pending' = Pending
    BY <1>6, FetchPending DEF FetchLine, RotorStops, queueVars, Pending
  <2>2. UNCHANGED <<relative, thrown, mega>>
    BY <1>6 DEF FetchLine, RotorStops, cellVars
  <2> QED BY <1>3, <1>5, <2>1, <2>2
<1>7. ASSUME NEW line, Beginning(line)
      PROVE  mega = "up" /\ (RelativeBy(All)' => "G90" \in thrown' \/ (RelativeBy(All) /\ "G90" \notin thrown))
  <2>1. Pending' = Pending /\ UNCHANGED <<relative, thrown>> /\ mega = "up"
    BY <1>7 DEF Beginning, Begin, Pending
  <2> QED BY <1>5, <2>1
<1>8. ASSUME NEW line, Immediate(line)
      PROVE  /\ mega = "up"
             /\ RelativeBy(All)' =>
                  StaysRelative \/ "G90" \in thrown' \/ (RelativeBy(All) /\ "G90" \notin thrown)
  <2>1. line = ring[1] /\ ring # <<>> /\ thrown' = thrown \ {line.kind} /\ mega = "up"
    BY <1>8, ImmediateQueue, DispatchedLine DEF Immediate
  <2>2. ring[1].id < All /\ ring[1] \in Pending
    BY <1>0, <2>1
  <2>3. RelativeBy(All)' <=> RelativeBy(All)
    <3>1. ASSUME NEW n \in Nat, ring[1].id < n PROVE RelativeBy(n)' <=> RelativeBy(n)
      BY <1>8, <3>1, ImmediateEnds
    <3> QED BY <1>0, <1>1, <2>2, <3>1 DEF RelativeBy, All
  <2>4. line.kind = "G90" /\ RelativeBy(All) => StaysRelative
    <3>1. ASSUME line.kind = "G90" PROVE Governed(Pending, All, {"G91"}, {"G90"})
      BY <2>1, <2>2, <3>1 DEF Governed
    <3> QED BY <3>1, GovernedEnds DEF RelativeBy, StaysRelative
  <2> QED BY <2>1, <2>3, <2>4
<1>9. ASSUME Taken
      PROVE  RelativeBy(All)' => "G90" \in thrown' \/ (RelativeBy(All) /\ "G90" \notin thrown)
  <2>1. thrown \subseteq thrown' /\ \A line \in Pending : line \in Pending' \/ line.kind # "G90" \/ "G90" \in thrown'
    BY <1>9 DEF Taken
  <2>2. CASE Governed(Pending', All, {"G91"}, {"G90"})
    <3>1. ASSUME NEW n \in Nat, Governed(Pending', n, {"G91"}, {"G90"}) PROVE RelativeBy(n)' <=> RelativeBy(n)
      BY <1>9, <3>1, TakenEnds DEF ModeBy
    <3>2. RelativeBy(All)' <=> RelativeBy(All)
      BY <1>0, <1>1, <2>2, <3>1 DEF RelativeBy, All
    <3> QED BY <2>1, <3>2
  <2>3. CASE ~Governed(Pending', All, {"G91"}, {"G90"})
    <3>1. ASSUME NEW n \in Nat, ~Governed(Pending', n, {"G91"}, {"G90"}) PROVE RelativeBy(n)' <=> relative
      BY <1>9, <3>1, TakenEnds DEF ModeBy
    <3>2. RelativeBy(All)' <=> relative
      BY <1>0, <1>1, <2>3, <3>1 DEF RelativeBy, All
    <3>3. relative /\ (\A d \in Pending : d.id < All => d.kind \notin {"G90"}) => RelativeBy(All)
      BY Zenon DEF RelativeBy, EndsBy
    <3>4. \A d \in Pending' : d.id < All => d.kind \notin {"G90"}
      BY <2>3, Zenon DEF Governed
    <3>5. (\A d \in Pending : d.id < All => d.kind \notin {"G90"}) \/ "G90" \in thrown'
      BY <2>1, <3>4
    <3> QED BY <2>1, <3>2, <3>3, <3>5
  <2> QED BY <2>2, <2>3
<1>10. CASE Ending
  <2>1. CASE ring # <<>> /\ ring[1] = running
    <3>1. UNCHANGED thrown /\ Head(ring) = ring[1] /\ mega = "up"
      BY <1>10, <2>1, EndingQueue, StepTail DEF QueueTypeOK, Ending
    <3>2. RelativeBy(All)' <=> RelativeBy(All)
      <4>1. ring[1].id < All /\ (running.kind \in Homes => lid = "open")
        BY <1>0, <2>1 DEF WaitInv
      <4>2. ASSUME NEW n \in Nat, ring[1].id < n PROVE RelativeBy(n)' <=> RelativeBy(n)
        BY <1>10, <2>1, <4>1, <4>2, EndingEnds
      <4> QED BY <1>0, <1>1, <4>1, <4>2 DEF RelativeBy, All
    <3> QED BY <1>3, <3>1, <3>2
  <2>2. CASE ring = <<>> \/ ring[1] # running
    <3>1. Taken
      BY <1>10, <2>2, LostSlotTakes
    <3> QED BY <1>3, <1>9, <3>1 DEF Taken
  <2> QED BY <2>1, <2>2
<1>11. CASE PowerLoss
  <2>1. Taken
    BY <1>11, LossTakes
  <2> QED BY <1>3, <1>9, <2>1 DEF Taken
<1>12. CASE Die
  BY <1>12 DEF Die
<1> QED BY <1>3, <1>4, <1>6, <1>7, <1>8, <1>10, <1>11, <1>12, FirmwareSteps

\* A G90 that a finally owes is still before the run, or the run has failed.
DebtInv ==
    "G90" \in owed => seq # "idle" /\ (seq = "failed" \/ \E i \in 1..Len(todo) : todo[i] = "G90")

InFlight == seq \in {"waiting", "answered"}

\* What makes a relative mode harmless: a G90 is owed, or a feeder has left it so.
ModeOwed == ("G90" \in owed \/ fed) /\ ~(InFlight /\ todo[1] = "G90")

\* A mode that stays relative is owed a G90; so is one that is relative already,
\* unless the firmware threw its G90 away.
ModeInv ==
    Reached =>
       /\ StaysRelative => ModeOwed
       /\ RelativeBy(All) => "G90" \in thrown \/ ModeOwed

LEMMA OwesMode == \A step : "G90" \in OwesAfter(step) <=> step = "bracket"
BY RelayKinds DEF OwesAfter

\* A step that is not the G90 leaves it to the others.
LEMMA TailDebt ==
    ASSUME NEW s \in Seq(StepKinds), s # <<>>, NEW kind, s[1] # kind,
           \E i \in 1..Len(s) : s[i] = kind
    PROVE  \E i \in 1..Len(Tail(s)) : Tail(s)[i] = kind
<1> DEFINE t == Tail(s)
<1>1. /\ Len(t) = Len(s) - 1 /\ Len(s) \in Nat
      /\ \A i \in 1..Len(t) : t[i] = s[i + 1]
  BY StepTail
<1> HIDE DEF t
<1>2. PICK i \in 1..Len(s) : s[i] = kind
  OBVIOUS
<1>3. i - 1 \in 1..Len(t) /\ (i - 1) + 1 = i
  BY <1>1, <1>2
<1>4. t[i - 1] = kind
  BY <1>1, <1>2, <1>3
<1> QED BY <1>3, <1>4 DEF t

LEMMA PageDebt ==
    ASSUME TypeOK, RunInv, WellPlanned(todo), DebtInv, PageStep
    PROVE  DebtInv'
<1>0. todo \in Seq(StepKinds)
  BY DEF TypeOK, StepKinds
<1>1. CASE Advance /\ (NextBlock \/ EndRun)
  <2>1. todo = <<>> /\ UNCHANGED owed /\ seq = "next"
    BY <1>1 DEF Advance, NextBlock, EndRun
  <2>2. Len(todo) = 0
    BY <2>1
  <2> QED BY <2>1, <2>2 DEF DebtInv
<1>2. CASE Advance /\ Check
  <2>1. /\ todo # <<>> /\ todo[1] \in Checks /\ todo' = Tail(todo) /\ seq = "next"
        /\ seq' # "idle" /\ owed' = owed \cup OwesAfter(todo[1])
    BY <1>2 DEF Advance, Check
  <2>2. todo[1] # "G90" /\ 1 \in 1..Len(todo)
    BY <1>0, <2>1 DEF Checks
  <2>3. "G90" \in owed' => \E i \in 1..Len(todo) : todo[i] = "G90"
    <3>1. "G90" \in owed' => "G90" \in owed \/ todo[1] = "bracket"
      BY <2>1, OwesMode
    <3> QED BY <2>1, <2>2, <3>1 DEF DebtInv, WellPlanned
  <2>4. "G90" \in owed' => \E i \in 1..Len(Tail(todo)) : Tail(todo)[i] = "G90"
    BY <1>0, <2>1, <2>2, <2>3, TailDebt
  <2> QED BY <2>1, <2>4 DEF DebtInv
<1>3. CASE Advance /\ Command
  <2>1. /\ UNCHANGED todo /\ seq = "next" /\ seq' = "waiting" /\ todo[1] \in Kinds
        /\ owed' = owed \cup OwesAfter(todo[1])
    BY <1>3 DEF Advance, Command
  <2>2. todo[1] # "bracket"
    BY <2>1, WorkcellAssumption DEF AllKinds, Homes, Moves, Distances, Spins, On, Off
  <2>3. "G90" \in owed' => "G90" \in owed
    BY <2>1, <2>2, OwesMode
  <2> QED BY <2>1, <2>3 DEF DebtInv
<1>4. CASE StepDone
  <2>1. CASE fault \/ ~Passed
    BY <1>4, <2>1 DEF StepDone, DebtInv
  <2>2. CASE ~fault /\ Passed
    <3>1. /\ seq = "answered" /\ seq' = "next" /\ todo' = Tail(todo) /\ owed' = owed \ {todo[1]}
          /\ todo # <<>>
      BY <1>4, <2>2 DEF StepDone, RunInv
    <3>2. "G90" \in owed' => todo[1] # "G90" /\ \E i \in 1..Len(todo) : todo[i] = "G90"
      BY <3>1 DEF DebtInv
    <3>3. "G90" \in owed' => \E i \in 1..Len(Tail(todo)) : Tail(todo)[i] = "G90"
      BY <1>0, <3>1, <3>2, TailDebt
    <3> QED BY <3>1, <3>3 DEF DebtInv
  <2> QED BY <2>1, <2>2
<1>5. CASE Unwind
  BY <1>5 DEF Unwind, DebtInv
<1>6. CASE StartRun
  BY <1>6 DEF StartRun, Free, DebtInv
<1>7. CASE SleepEnds \/ Pressed \/ Connect \/ Stop \/ EmergencyStop \/ Disconnect \/ Timeout \/ HandleLine
  <2>1. UNCHANGED <<todo, owed>>
    BY <1>7, PressedSends DEF SleepEnds, Connect, Stop, EmergencyStop, Disconnect, Timeout, HandleLine,
       RunKept, runVars
  <2>2. CASE SleepEnds \/ Pressed \/ Connect
    <3>1. (seq' = "idle" => seq = "idle") /\ (seq = "failed" => seq' = "failed")
      BY <2>2, PressedSends DEF SleepEnds, Connect, runVars
    <3> QED BY <2>1, <3>1 DEF DebtInv
  <2>3. CASE Stop \/ EmergencyStop \/ Disconnect \/ Timeout
    <3>1. Reject
      BY <2>3 DEF Stop, EmergencyStop, Disconnect, Timeout, SeqFault
    <3>2. seq' = seq \/ (seq = "waiting" /\ seq' = "failed")
      BY <3>1 DEF Reject
    <3> QED BY <2>1, <3>2 DEF DebtInv
  <2>4. CASE HandleLine
    <3>1. seq' = seq \/ seq' = "failed" \/ (waiter # 0 /\ seq' = "answered")
      BY <2>4 DEF HandleLine, FaultLine, SeqFault, Reject, MarkerLine, SpinLine, OkLine
    <3>2. seq' = seq \/ seq' = "failed" \/ (seq = "waiting" /\ seq' = "answered")
      BY <3>1 DEF RunInv
    <3> QED BY <2>1, <3>2 DEF DebtInv
  <2> QED BY <1>7, <2>2, <2>3, <2>4
<1> QED BY <1>1, <1>2, <1>3, <1>4, <1>5, <1>6, <1>7 DEF PageStep, Run, Operator, Buttons,
   Pressed, Advance

\* A write that ends in absolute mode, or has no mode line.
LEMMA WriteMode ==
    ASSUME QueueTypeOK, QueueOrder, relative \in BOOLEAN, NEW kinds \in Seq(Kinds), Write(kinds), mega = "up"
    PROVE  /\ UNCHANGED <<relative, thrown>>
           /\ (\A j \in 1..Len(kinds) : kinds[j] \notin Modes) =>
                 (RelativeBy(All)' <=> RelativeBy(All)) /\ (StaysRelative' <=> StaysRelative)
           /\ \A j \in 1..Len(kinds) :
                 kinds[j] \in Modes /\ (\A k \in 1..Len(kinds) : j < k => kinds[k] \notin Modes) =>
                    (RelativeBy(All)' <=> kinds[j] = "G91") /\ (StaysRelative' <=> kinds[j] = "G91")
<1>1. sent' = sent + Len(kinds) /\ UNCHANGED <<relative, thrown>> /\ sent \in Nat /\ Len(kinds) \in Nat
  BY DEF Write, cellVars, QueueTypeOK
<1> PICK i \in 1..Len(kinds) + 1 : i = Len(kinds) + 1
  BY <1>1
<1>2. sent' + 1 = sent + i /\ \A j \in 1..Len(kinds) : j < i
  BY <1>1
<1> DEFINE up == {"G91"}  down == {"G90"}
<1>3. /\ up \cap down = {} /\ up \cup down = Modes /\ FALSE \in BOOLEAN
      /\ \A kind : kind \in up <=> kind = "G91"
  BY DEF Modes
<1>4. \A lines, n : SetBy(lines, n, up, down) <=> EndsBy(lines, n, up, down, FALSE)
  BY Zenon DEF EndsBy
<1>5. RelativeBy(All)' <=> EndsBy(Pending', sent' + 1, up, down, relative)
  BY <1>1 DEF RelativeBy, All
<1>6. RelativeBy(All) <=> EndsBy(Pending, All, up, down, relative)
  BY DEF RelativeBy
<1>7. StaysRelative' <=> EndsBy(Pending', sent' + 1, up, down, FALSE)
  BY <1>4 DEF StaysRelative, All
<1>8. StaysRelative <=> EndsBy(Pending, All, up, down, FALSE)
  BY <1>4 DEF StaysRelative
<1> HIDE DEF up, down
<1>9. ASSUME \A j \in 1..Len(kinds) : kinds[j] \notin Modes
      PROVE  (RelativeBy(All)' <=> RelativeBy(All)) /\ (StaysRelative' <=> StaysRelative)
  <2>1. ASSUME NEW now \in BOOLEAN
        PROVE  EndsBy(Pending', sent' + 1, up, down, now) <=> EndsBy(Pending, All, up, down, now)
    BY <1>2, <1>3, <1>9, WriteSame
  <2> QED BY <1>3, <1>5, <1>6, <1>7, <1>8, <2>1
<1>10. ASSUME NEW j \in 1..Len(kinds), kinds[j] \in Modes,
              \A k \in 1..Len(kinds) : j < k => kinds[k] \notin Modes
       PROVE  (RelativeBy(All)' <=> kinds[j] = "G91") /\ (StaysRelative' <=> kinds[j] = "G91")
  <2>1. ASSUME NEW now \in BOOLEAN
        PROVE  EndsBy(Pending', sent' + 1, up, down, now) <=> kinds[j] \in up
    BY <1>2, <1>3, <1>10, WriteDecides
  <2> QED BY <1>3, <1>5, <1>7, <2>1
<1> QED BY <1>1, <1>9, <1>10

LEMMA SameMode ==
    ASSUME UNCHANGED <<rx, ring, sent, relative>>
    PROVE  (RelativeBy(All)' <=> RelativeBy(All)) /\ (StaysRelative' <=> StaysRelative)
<1>1. Pending' = Pending /\ All' = All
  BY DEF Pending, All
<1> QED BY <1>1 DEF RelativeBy, StaysRelative

LEMMA ModeKept ==
    ASSUME ModeInv, UNCHANGED <<mega, connected, thrown>>,
           RelativeBy(All)' => RelativeBy(All), StaysRelative' => StaysRelative,
           ModeOwed => ModeOwed'
    PROVE  ModeInv'
BY DEF ModeInv, Reached

LEMMA MachineModeInv ==
    ASSUME Sound, CellInv, WaitInv, ModeInv, Machine \/ Accidents
    PROVE  ModeInv'
<1>0. QueueTypeOK /\ QueueOrder /\ relative \in BOOLEAN /\ UNCHANGED <<seq, todo, owed, fed, connected>>
  BY DEF Sound, TypeOK, CellTypeOK, Machine, Accidents, Firmware, Accident, runVars
<1>1. CASE mega' = "up"
  <2>1. Firmware \/ PowerLoss
    BY <1>1 DEF Machine, Accidents, Accident, Die, Restarts
  <2>2. /\ StaysRelative' => StaysRelative /\ mega = "up"
        /\ RelativeBy(All)' =>
              /\ mega = "up"
              /\ StaysRelative \/ "G90" \in thrown' \/ (RelativeBy(All) /\ "G90" \notin thrown)
    BY <1>0, <1>1, <2>1, MachineMode
  <2>3. ModeOwed' <=> ModeOwed
    BY <1>0 DEF ModeOwed, InFlight
  <2> QED BY <1>0, <2>2, <2>3 DEF ModeInv, Reached
<1>2. CASE mega' # "up"
  BY <1>2 DEF ModeInv, Reached
<1> QED BY <1>1, <1>2

\* What the buttons send has no mode line, or ends in absolute mode.
LEMMA ButtonModes ==
    ASSUME NEW kinds \in {<<"M410">>, <<"M112">>} \cup ButtonLines
    PROVE  \/ \A j \in 1..Len(kinds) : kinds[j] \notin Modes
           \/ \E j \in 1..Len(kinds) :
                 kinds[j] = "G90" /\ \A k \in 1..Len(kinds) : j < k => kinds[k] \notin Modes
<1>1. CASE kinds \in OtherLines \cup {<<"M410">>, <<"M112">>}
  BY <1>1 DEF OtherLines, Modes
<1>2. CASE kinds \in {<<"G90", "G1_B">>, <<"G90", "G1_B0">>}
  <2>1. /\ Len(kinds) = 2 /\ kinds[1] = "G90" /\ kinds[2] \notin Modes /\ 1 \in 1..Len(kinds)
        /\ \A k \in 1..Len(kinds) : 1 < k => k = 2
    BY <1>2 DEF Modes
  <2> QED BY <2>1
<1>3. CASE kinds = <<"G91", "G1_A", "G90">>
  <2>1. Len(kinds) = 3 /\ kinds[3] = "G90" /\ 3 \in 1..Len(kinds) /\ \A k \in 1..Len(kinds) : ~(3 < k)
    BY <1>3
  <2> QED BY <2>1
<1> QED BY <1>1, <1>2, <1>3 DEF ButtonLines, MoveLines

\* What the finally clauses send ends in the G90 that is owed.
LEMMA OwedModes ==
    ASSUME connected
    PROVE  /\ "G90" \in owed =>
                 \E j \in 1..Len(OwedLines) : OwedLines[j] = "G90" /\ j = Len(OwedLines)
           /\ "G90" \notin owed => \A j \in 1..Len(OwedLines) : OwedLines[j] \notin Modes
           /\ OwedLines \in Seq(Kinds)
<1> DEFINE a == Owed(Off("lamp"))  b == Owed(Off("valve"))  c == Owed("G90")
           S == {Off("lamp"), Off("valve")}
<1>1. a \in Seq(S) /\ b \in Seq(S)
  <2>1. \A kind \in S : <<kind>> \in Seq(S) /\ <<>> \in Seq(S)
    BY OneLine
  <2> QED BY <2>1 DEF Owed
<1>2. "G90" \in owed => c = <<"G90">>
  BY DEF Owed
<1>3. "G90" \notin owed => c = <<>>
  BY DEF Owed
<1>4. OwedLines = (a \o b) \o c
  BY DEF OwedLines
<1>5. S \cap Modes = {} /\ \A kind \in S : kind \in Recoveries
  BY DEF Off, Modes, Recoveries
<1>6. OwedLines \in Seq(Kinds)
  BY OwedTypes, RecoveryKinds
<1> HIDE DEF a, b, c, S
<1>7. a \o b \in Seq(S)
  BY <1>1
<1>8. CASE "G90" \in owed
  <2> DEFINE d == a \o b
  <2>1. d \in Seq(S) /\ c = <<"G90">> /\ OwedLines = d \o c
    BY <1>2, <1>4, <1>7, <1>8
  <2> HIDE DEF d
  <2>2. S \subseteq S \cup {"G90"} /\ d \in Seq(S \cup {"G90"}) /\ <<"G90">> \in Seq(S \cup {"G90"})
    BY <2>1
  <2>3. Len(d) \in Nat /\ Len(OwedLines) = Len(d) + 1 /\ OwedLines[Len(d) + 1] = "G90"
    BY <2>1, <2>2
  <2>4. Len(OwedLines) \in 1..Len(OwedLines)
    BY <2>3
  <2> QED BY <1>6, <1>8, <2>3, <2>4
<1>9. CASE "G90" \notin owed
  <2>1. OwedLines \in Seq(S)
    BY <1>3, <1>4, <1>7, <1>9
  <2>2. \A j \in 1..Len(OwedLines) : OwedLines[j] \in S
    BY <2>1, ElementOfSeq
  <2> QED BY <1>5, <1>6, <1>9, <2>2
<1> QED BY <1>8, <1>9

LEMMA CommandMode ==
    ASSUME TypeOK, QueueOrder, ModeInv, Advance, Command
    PROVE  ModeInv'
<1> DEFINE kinds == <<todo[1]>>
<1>1. /\ todo[1] \in Kinds /\ Write(kinds) /\ UNCHANGED <<todo, connected>> /\ seq' = "waiting"
      /\ owed' = owed \cup OwesAfter(todo[1]) /\ seq = "next"
      /\ fed' = (todo[1] # "G90" /\ (fed \/ (todo[1] = "G91" /\ "G90" \notin owed)))
  BY DEF Command, SendStep, SendAwaited, Advance
<1>2. kinds \in Seq(Kinds) /\ Len(kinds) = 1 /\ kinds[1] = todo[1]
  BY <1>1, OneLine
<1> SUFFICES ASSUME Reached' PROVE ModeInv'
  BY DEF ModeInv
<1>3. Reached /\ mega = "up" /\ UNCHANGED mega
  BY <1>1 DEF Reached, Write
<1>4. QueueTypeOK /\ relative \in BOOLEAN
  BY DEF TypeOK, CellTypeOK
<1>5. 1 \in 1..Len(kinds) /\ \A k \in 1..Len(kinds) : k = 1
  BY <1>2
<1> HIDE DEF kinds
<1>6. CASE todo[1] \in Modes
  <2>1. (RelativeBy(All)' <=> todo[1] = "G91") /\ (StaysRelative' <=> todo[1] = "G91")
    BY <1>1, <1>2, <1>3, <1>4, <1>5, <1>6, WriteMode
  <2>2. todo[1] = "G91" => ModeOwed'
    BY <1>1 DEF ModeOwed
  <2> QED BY <2>1, <2>2 DEF ModeInv
<1>7. CASE todo[1] \notin Modes
  <2>1. /\ (RelativeBy(All)' <=> RelativeBy(All)) /\ (StaysRelative' <=> StaysRelative)
        /\ UNCHANGED thrown
    BY <1>1, <1>2, <1>3, <1>4, <1>5, <1>7, WriteMode
  <2>2. ModeOwed => ModeOwed'
    BY <1>1, <1>7 DEF ModeOwed, Modes, InFlight
  <2> QED BY <1>1, <1>3, <2>1, <2>2, ModeKept
<1> QED BY <1>6, <1>7

LEMMA PageMode ==
    ASSUME TypeOK, QueueOrder, RunInv, ModeInv, PageStep
    PROVE  ModeInv'
<1>0. QueueTypeOK /\ relative \in BOOLEAN
  BY DEF TypeOK, CellTypeOK
<1>1. CASE Advance /\ Command
  BY <1>1, CommandMode
<1>2. CASE Unwind
  <2> SUFFICES ASSUME Reached' PROVE ModeInv'
    BY DEF ModeInv
  <2>1. Write(OwedLines) /\ UNCHANGED <<connected, fed>> /\ seq' = "idle" /\ owed' = {}
    BY <1>2 DEF Unwind, SendOwed, SendAll, OwedLines
  <2>2. mega = "up" /\ UNCHANGED mega /\ connected
    BY <2>1 DEF Reached, Write
  <2>3. ASSUME NEW kinds \in Seq(Kinds), kinds = OwedLines, "G90" \in owed PROVE ModeInv'
    <3>1. PICK j \in 1..Len(kinds) : kinds[j] = "G90" /\ j = Len(kinds)
      BY <2>2, <2>3, OwedModes
    <3>2. \A k \in 1..Len(kinds) : ~(j < k)
      BY <3>1
    <3>3. kinds[j] \in Modes /\ kinds[j] # "G91"
      BY <3>1 DEF Modes
    <3>4. ~RelativeBy(All)' /\ ~StaysRelative'
      BY <1>0, <2>1, <2>2, <2>3, <3>2, <3>3, WriteMode
    <3> QED BY <3>4 DEF ModeInv
  <2>4. ASSUME NEW kinds \in Seq(Kinds), kinds = OwedLines, "G90" \notin owed PROVE ModeInv'
    <3>1. \A j \in 1..Len(kinds) : kinds[j] \notin Modes
      BY <2>2, <2>4, OwedModes
    <3>2. /\ (RelativeBy(All)' <=> RelativeBy(All)) /\ (StaysRelative' <=> StaysRelative)
          /\ UNCHANGED thrown
      BY <1>0, <2>1, <2>2, <2>4, <3>1, WriteMode
    <3>3. ModeOwed => ModeOwed'
      BY <2>1, <2>4 DEF ModeOwed, InFlight
    <3> QED BY <2>1, <2>2, <3>2, <3>3, ModeKept
  <2> QED BY <2>2, <2>3, <2>4, OwedModes
<1>3. CASE Stop \/ EmergencyStop \/ Pressed
  <2> SUFFICES ASSUME Reached' PROVE ModeInv'
    BY DEF ModeInv
  <2>1. PICK kinds \in {<<"M410">>, <<"M112">>} \cup ButtonLines : Write(kinds)
    BY <1>3, PressedSends DEF Stop, EmergencyStop, SendAll
  <2>2. kinds \in Seq(Kinds)
    <3>1. <<"M410">> \in Seq(Kinds) /\ <<"M112">> \in Seq(Kinds)
      BY KindsKnown, OneLine
    <3> QED BY <3>1, ButtonTypes
  <2>3. UNCHANGED <<owed, todo, connected, fed>>
    BY <1>3, PressedSends DEF Stop, EmergencyStop, SendAll, RunKept
  <2>4. UNCHANGED seq \/ seq' = "failed"
    BY <1>3, PressedSends DEF Stop, EmergencyStop, SeqFault, Reject
  <2>5. mega = "up" /\ UNCHANGED mega
    BY <2>1 DEF Reached, Write
  <2>6. ModeOwed => ModeOwed'
    BY <2>3, <2>4 DEF ModeOwed, InFlight
  <2>7. CASE \A j \in 1..Len(kinds) : kinds[j] \notin Modes
    <3>1. /\ (RelativeBy(All)' <=> RelativeBy(All)) /\ (StaysRelative' <=> StaysRelative)
          /\ UNCHANGED thrown
      BY <1>0, <2>1, <2>2, <2>5, <2>7, WriteMode
    <3> QED BY <2>3, <2>5, <2>6, <3>1, ModeKept
  <2>8. ASSUME NEW j \in 1..Len(kinds), kinds[j] = "G90", \A k \in 1..Len(kinds) : j < k => kinds[k] \notin Modes
        PROVE  ModeInv'
    <3>1. kinds[j] \in Modes /\ kinds[j] # "G91"
      BY <2>8 DEF Modes
    <3>2. ~RelativeBy(All)' /\ ~StaysRelative'
      BY <1>0, <2>1, <2>2, <2>5, <2>8, <3>1, WriteMode
    <3> QED BY <3>2 DEF ModeInv
  <2> QED BY <2>7, <2>8, ButtonModes
<1>4. CASE \/ Advance /\ ~Command
           \/ StepDone \/ SleepEnds \/ StartRun \/ Timeout \/ HandleLine
  <2>1. UNCHANGED <<rx, ring, sent, relative, thrown, mega, connected, fed>>
    <3>1. CASE Advance /\ ~Command
      BY <3>1 DEF Advance, NextBlock, Check, EndRun, NothingSent, queueVars, cellVars
    <3>2. CASE StepDone \/ SleepEnds \/ StartRun
      BY <3>2 DEF StepDone, SleepEnds, StartRun, NothingSent, queueVars, cellVars
    <3>3. CASE Timeout
      BY <3>3 DEF Timeout, RunKept, NothingSent, queueVars, cellVars
    <3>4. CASE HandleLine
      BY <3>4 DEF HandleLine, queueVars, cellVars
    <3> QED BY <1>4, <3>1, <3>2, <3>3, <3>4
  <2>2. (RelativeBy(All)' <=> RelativeBy(All)) /\ (StaysRelative' <=> StaysRelative)
    BY <2>1, SameMode
  <2>3. ModeOwed => ModeOwed'
    <3>1. CASE StepDone /\ ~fault /\ Passed
      <4>1. seq = "answered" /\ seq' = "next" /\ owed' = owed \ {todo[1]}
        BY <3>1 DEF StepDone
      <4> QED BY <2>1, <4>1 DEF ModeOwed, InFlight
    <3>2. CASE ~(StepDone /\ ~fault /\ Passed)
      <4>1. owed \subseteq owed'
        BY <1>4, <3>2 DEF Advance, NextBlock, Check, EndRun, StepDone, SleepEnds, StartRun, Timeout,
           HandleLine, RunKept
      <4>2. seq' \in {"waiting", "answered"} => UNCHANGED todo /\ seq \in {"waiting", "answered"}
        <5>1. CASE HandleLine
          <6>1. UNCHANGED todo /\ (seq' \in {seq, "failed"} \/ (waiter # 0 /\ seq' = "answered"))
            BY <5>1 DEF HandleLine, FaultLine, SeqFault, Reject, MarkerLine, SpinLine, OkLine
          <6> QED BY <6>1 DEF RunInv
        <5>2. CASE Advance /\ ~Command
          BY <5>2 DEF Advance, NextBlock, Check, EndRun
        <5>3. CASE StepDone \/ SleepEnds \/ StartRun \/ Timeout
          BY <5>3 DEF StepDone, SleepEnds, StartRun, Timeout, Reject
        <5> QED BY <1>4, <5>1, <5>2, <5>3
      <4> QED BY <2>1, <4>1, <4>2 DEF ModeOwed, InFlight
    <3> QED BY <3>1, <3>2
  <2> QED BY <2>1, <2>2, <2>3, ModeKept
<1>5. CASE Disconnect
  BY <1>5 DEF Disconnect, ModeInv, Reached
<1>6. CASE Connect
  BY <1>6 DEF Connect, Restarts, ModeInv, Reached
<1> QED BY <1>1, <1>2, <1>3, <1>4, <1>5, <1>6 DEF PageStep, Run, Operator, Buttons, Pressed

LEMMA ModeInit == Init => WellPlanned(todo) /\ DebtInv /\ ModeInv
<1> SUFFICES ASSUME Init PROVE WellPlanned(todo) /\ DebtInv /\ ModeInv
  OBVIOUS
<1>1. mega = "booting" /\ owed = {} /\ todo = <<>>
  BY DEF Init, CellInit
<1>2. Len(todo) = 0
  BY <1>1
<1>3. WellPlanned(todo)
  BY <1>2 DEF WellPlanned
<1> QED BY <1>1, <1>3 DEF DebtInv, ModeInv, Reached

LEMMA ModeStep ==
    ASSUME Sound, CellInv, WaitInv, WellPlanned(todo), DebtInv, ModeInv, [Next]_vars
    PROVE  WellPlanned(todo)' /\ DebtInv' /\ ModeInv'
<1>1. TypeOK /\ QueueOrder /\ RunInv
  BY DEF Sound
<1>2. CASE PageStep
  BY <1>1, <1>2, PlannedStep, PageDebt, PageMode
<1>3. ASSUME UNCHANGED <<todo, owed, seq>> PROVE WellPlanned(todo)' /\ DebtInv'
  <2>1. \A steps : steps = todo => WellPlanned(steps)
    OBVIOUS
  <2> QED BY <1>3, <2>1 DEF DebtInv, WellPlanned
<1>4. CASE Machine \/ Accidents
  <2>1. UNCHANGED <<todo, owed, seq>>
    BY <1>4 DEF Machine, Accidents, runVars
  <2> QED BY <1>3, <1>4, <2>1, MachineModeInv
<1>5. CASE UNCHANGED vars
  <2>1. UNCHANGED <<rx, ring, sent, relative, mega, connected, thrown>> /\ UNCHANGED <<todo, owed, seq, fed>>
    BY <1>5 DEF vars, machine, queueVars, cellVars, runVars
  <2>2. ModeOwed' <=> ModeOwed
    BY <2>1 DEF ModeOwed, InFlight
  <2>3. ModeInv'
    BY <2>1, <2>2, SameMode, ModeKept
  <2> QED BY <1>3, <2>1, <2>3
<1> QED BY <1>2, <1>4, <1>5 DEF Next, PageStep

\* However a dispense ends, the G90 of its bracket is owed by a finally, before
\* the run or on its way, or the firmware threw it away.
THEOREM ModeOwedHolds == Spec => [](DebtInv /\ ModeInv)
<1> DEFINE I == Sound /\ CellInv /\ WaitInv /\ WellPlanned(todo) /\ DebtInv /\ ModeInv
<1>1. Init => I
  BY SoundInit, KnownInit, WaitInit, ModeInit DEF KnownInv
<1>2. I /\ [Next]_vars => I'
  BY SoundStep, CellStep, WaitStep, ModeStep
<1>3. I => DebtInv /\ ModeInv
  OBVIOUS
<1> QED BY <1>1, <1>2, <1>3, PTL DEF Spec

\* However a dispense ended, the firmware is in absolute mode once nothing is on
\* its way any more, unless it threw the recovering G90 away or a feeder's move,
\* which no finally follows, has left it relative.
THEOREM AbsoluteRestored == Spec => []AbsoluteAfterRun
<1>1. TypeOK /\ DebtInv /\ ModeInv => AbsoluteAfterRun
  <2> SUFFICES ASSUME TypeOK, DebtInv, ModeInv, Settled, relative PROVE "G90" \in thrown \/ fed
    BY DEF AbsoluteAfterRun
  <2>1. Reached /\ seq = "idle" /\ Len(rx) = 0 /\ Len(ring) = 0
    BY DEF Settled, Reached
  <2>2. Pending = {}
    BY <2>1 DEF Pending
  <2>3. RelativeBy(All)
    BY <2>2, Zenon DEF RelativeBy, EndsBy
  <2> QED BY <2>1, <2>3 DEF ModeInv, ModeOwed, DebtInv
<1> QED BY <1>1, ModeOwedHolds, SequencerTypes, PTL

-----------------------------------------------------------------------------
(* What a line on its way will meet when it is carried out.                  *)

\* A step of the machine that does not boot leaves what line n meets as it is, or
\* takes lines away unread after a loss.
LEMMA MachineEnds ==
    ASSUME QueueTypeOK, QueueOrder, relative \in BOOLEAN, CellInv, WaitInv,
           Firmware \/ PowerLoss, mega' = "up", NEW n \in Nat,
           \A line \in Pending : line \in Pending' \/ line.id < n,
           ring # <<>> /\ ring[1].kind \in Homes => ring[1].id < n
    PROVE  \/ Boots
           \/ mega = "up" /\ (RelativeBy(n)' <=> RelativeBy(n)) /\ (ClosedBy(n)' <=> ClosedBy(n))
                /\ (thrown' = thrown \/ (ring # <<>> /\ ring[1].id < n /\ thrown' = thrown \ {ring[1].kind}))
           \/ Taken /\ (PowerLoss \/ (Ending /\ LostSlot))
<1>1. CASE PowerLoss
  BY <1>1, LossTakes
<1>2. CASE Die \/ Boots
  BY <1>2 DEF Die
<1>3. ASSUME Pending' = Pending, UNCHANGED <<relative, lid>>
      PROVE  (RelativeBy(n)' <=> RelativeBy(n)) /\ (ClosedBy(n)' <=> ClosedBy(n))
  BY <1>3 DEF RelativeBy, ClosedBy
<1>4. CASE FetchLine \/ RotorStops
  <2>1. Pending' = Pending
    BY <1>4, FetchPending DEF FetchLine, RotorStops, queueVars, Pending
  <2>2. UNCHANGED <<relative, lid, thrown, mega>>
    BY <1>4 DEF FetchLine, RotorStops, cellVars
  <2> QED BY <1>3, <2>1, <2>2
<1>5. ASSUME NEW line, Beginning(line)
      PROVE  /\ mega = "up" /\ (RelativeBy(n)' <=> RelativeBy(n)) /\ (ClosedBy(n)' <=> ClosedBy(n))
             /\ UNCHANGED thrown
  <2>1. /\ Pending' = Pending /\ UNCHANGED <<relative, thrown>> /\ mega = "up"
        /\ lid' = (IF line.kind \in Homes THEN "open" ELSE lid)
    BY <1>5 DEF Beginning, Begin, Pending
  <2>2. line = ring[1] /\ ring # <<>> /\ ring[1] \in Pending
    BY <1>5, DispatchedLine, PendingLines DEF Beginning, Begin
  <2>3. CASE line.kind \in Homes
    <3> DEFINE up == {"M280_S115"}
    <3>1. Governed(Pending, n, up, Openers)
      BY <2>2, <2>3, LidKinds DEF Governed
    <3>2. ClosedBy(n) <=> SetBy(Pending, n, up, Openers)
      BY <3>1, GovernedEnds DEF ClosedBy
    <3>3. EndsBy(Pending, n, up, Openers, lid' = "closed") <=> SetBy(Pending, n, up, Openers)
      BY <3>1, GovernedEnds
    <3>4. ClosedBy(n)' <=> EndsBy(Pending, n, up, Openers, lid' = "closed")
      BY <2>1 DEF ClosedBy
    <3>5. RelativeBy(n)' <=> RelativeBy(n)
      BY <2>1 DEF RelativeBy
    <3> QED BY <2>1, <3>2, <3>3, <3>4, <3>5
  <2>4. CASE line.kind \notin Homes
    BY <1>3, <2>1, <2>4
  <2> QED BY <2>3, <2>4
<1>6. ASSUME AdvanceR, UNCHANGED rx, ring # <<>> PROVE ring[1].id < n
  <2>1. ring[1] \in Pending /\ ring[1].id \in Nat /\ \A later \in Pending' : ring[1].id < later.id
    BY <1>6, FirstLeaves, PendingLines
  <2>2. ring[1] \notin Pending'
    BY <2>1
  <2> QED BY <2>1, <2>2
<1>7. ASSUME NEW line, Immediate(line)
      PROVE  /\ mega = "up" /\ (RelativeBy(n)' <=> RelativeBy(n)) /\ (ClosedBy(n)' <=> ClosedBy(n))
             /\ ring # <<>> /\ ring[1].id < n /\ thrown' = thrown \ {ring[1].kind}
  <2>1. /\ line = ring[1] /\ ring # <<>> /\ thrown' = thrown \ {line.kind} /\ mega = "up"
        /\ AdvanceR /\ UNCHANGED rx
    BY <1>7, ImmediateQueue, DispatchedLine DEF Immediate, Return
  <2>2. ring[1].id < n
    BY <1>6, <2>1
  <2> QED BY <1>7, <2>1, <2>2, ImmediateEnds
<1>8. CASE Ending
  <2>1. running # NoLine /\ AdvanceR /\ UNCHANGED rx /\ mega = "up"
    BY <1>8, EndingQueue DEF Return, Ending
  <2>2. CASE ring # <<>> /\ ring[1] = running
    <3>1. ring[1].id < n /\ (running.kind \in Homes => lid = "open")
      BY <1>6, <2>1, <2>2 DEF WaitInv
    <3>2. UNCHANGED thrown
      BY <1>8, <2>2, EndingQueue, StepTail DEF QueueTypeOK
    <3> QED BY <1>8, <2>1, <2>2, <3>1, <3>2, EndingEnds
  <2>3. CASE ring = <<>> \/ ring[1] # running
    BY <1>8, <2>1, <2>3, LostSlotTakes DEF LostSlot
  <2> QED BY <2>2, <2>3
<1> QED BY <1>1, <1>2, <1>4, <1>5, <1>7, <1>8, FirmwareSteps

\* Axes that are not known and that no running homing will make known.
Unhomed == ~known /\ (running.kind = "G28" => spoilt)
\* Axes that are not known, and moves that are refused or would not be let through.
Stranded == ~known /\ ~lifted

\* A board that has just booted knows nothing.
LEMMA BootsKnown == ASSUME CellInv, Boots PROVE Stranded' /\ Unhomed' /\ running'.kind \notin Homes
<1>1. running' = NoLine /\ NoLine.kind \notin Homes /\ NoLine.kind # "G28"
  BY BootsEmpty DEF NoLine, Homes
<1> QED BY <1>1 DEF Boots, Stranded, Unhomed

\* It takes a homing that begins to end this.
LEMMA MachineKnown ==
    ASSUME QueueTypeOK, QueueOrder, CellInv, Firmware \/ PowerLoss
    PROVE  /\ Unhomed => Unhomed' \/ (ring # <<>> /\ ring[1].kind = "G28")
           /\ Stranded /\ running.kind \notin Homes =>
                 \/ Stranded' /\ running'.kind \notin Homes
                 \/ ring # <<>> /\ ring[1].kind \in Homes
<1>0. NoLine.kind \notin Homes /\ NoLine.kind # "G28" /\ "G28" \in Homes
  BY DEF NoLine, Homes
<1>1. CASE PowerLoss
  BY <1>1 DEF Unhomed, Stranded, PowerLoss
<1>2. CASE FetchLine \/ RotorStops \/ Die
  <2>1. UNCHANGED <<known, spoilt, lifted, running>>
    BY <1>2 DEF FetchLine, RotorStops, Die, cellVars, posVars, queueVars
  <2> QED BY <2>1 DEF Unhomed, Stranded
<1>3. CASE Boots
  BY <1>3, BootsKnown
<1>4. CASE Ending
  <2>1. running' = NoLine
    BY <1>4, EndingQueue DEF Return
  <2>2. CASE MoveEnds \/ SpinEnds
    <3>1. UNCHANGED <<known, lifted>>
      BY <2>2 DEF MoveEnds, SpinEnds, cellVars, posVars
    <3> QED BY <1>0, <2>1, <3>1 DEF Unhomed, Stranded
  <2>3. CASE HomingEnds
    <3>1. running.kind \in Homes /\ known' = IF running.kind = "G28" THEN ~spoilt ELSE known
      BY <2>3 DEF HomingEnds
    <3> QED BY <1>0, <2>1, <3>1 DEF Unhomed
  <2> QED BY <1>4, <2>2, <2>3 DEF Ending
<1>5. ASSUME NEW line, Immediate(line)
      PROVE  UNCHANGED <<known, lifted>> /\ running' = NoLine
  <2>1. running' = NoLine
    BY <1>5, ImmediateQueue DEF Return
  <2>2. UNCHANGED <<known, lifted>>
    BY <1>5 DEF Immediate, Refuse, SwitchRelay, SetMode, MoveLid, Remark, cellVars, posVars
  <2> QED BY <2>1, <2>2
<1>6. ASSUME NEW line, Beginning(line)
      PROVE  UNCHANGED <<known, lifted>> /\ running' = ring[1] /\ ring # <<>>
  BY <1>6, DispatchedLine DEF Beginning, Begin
<1>7. ASSUME UNCHANGED <<known, lifted>>, running' = NoLine \/ (running' = ring[1] /\ ring # <<>>)
      PROVE  /\ Unhomed => Unhomed' \/ (ring # <<>> /\ ring[1].kind = "G28")
             /\ Stranded /\ running.kind \notin Homes =>
                   \/ Stranded' /\ running'.kind \notin Homes
                   \/ ring # <<>> /\ ring[1].kind \in Homes
  BY <1>0, <1>7 DEF Unhomed, Stranded
<1> QED BY <1>1, <1>2, <1>3, <1>4, <1>5, <1>6, <1>7, FirmwareSteps

\* A loss brings it about.
LEMMA LostKnown ==
    ASSUME QueueTypeOK, CellInv, WaitInv, PowerLoss \/ (Ending /\ LostSlot)
    PROVE  Unhomed' /\ (running.kind \notin Homes => Stranded' /\ running'.kind \notin Homes)
<1>0. NoLine.kind \notin Homes /\ NoLine.kind # "G28" /\ "G28" \in Homes
  BY DEF NoLine, Homes
<1>1. CASE PowerLoss
  BY <1>1 DEF Unhomed, Stranded, PowerLoss
<1>2. CASE Ending /\ LostSlot
  <2>1. running' = NoLine /\ spoilt /\ ~known /\ ~lifted
    BY <1>2, EndingQueue DEF Return, WaitInv, CellInv, LostSlot
  <2>2. CASE MoveEnds \/ SpinEnds
    <3>1. UNCHANGED <<known, lifted>>
      BY <2>2 DEF MoveEnds, SpinEnds, cellVars, posVars
    <3> QED BY <1>0, <2>1, <3>1 DEF Unhomed, Stranded
  <2>3. CASE HomingEnds
    <3>1. running.kind \in Homes /\ known' = IF running.kind = "G28" THEN ~spoilt ELSE known
      BY <2>3 DEF HomingEnds
    <3> QED BY <1>0, <2>1, <3>1 DEF Unhomed
  <2> QED BY <1>2, <2>2, <2>3 DEF Ending
<1> QED BY <1>1, <1>2

-----------------------------------------------------------------------------
(* A move meets the mode that it needs, or is refused.                       *)

HomeBy(n) == \E home \in Pending : home.kind = "G28" /\ home.id < n
\* Between a homing and line n there is a line that sets the mode.
Followed(n) ==
    \A home \in Pending : home.kind = "G28" /\ home.id < n =>
       \E g \in Pending : g.kind \in Modes /\ home.id < g.id /\ g.id < n
\* Line n meets the mode, or axes that nobody will have homed.
Meets(n, mode) == Followed(n) /\ ((RelativeBy(n) <=> mode = "G91") \/ (Unhomed /\ ~HomeBy(n)))
\* The mode that a move needs.
Needs(kind) == IF kind \in Distances THEN "G91" ELSE "G90"

LEMMA MachineMeets ==
    ASSUME QueueTypeOK, QueueOrder, relative \in BOOLEAN, CellInv, WaitInv,
           Firmware \/ PowerLoss, mega' = "up", NEW n \in Nat,
           \A line \in Pending : line \in Pending' \/ line.id < n,
           ring # <<>> /\ ring[1].kind \in Homes => ring[1].id < n,
           NEW mode, mega = "up" => Meets(n, mode)
    PROVE  Meets(n, mode)'
<1>1. CASE Boots
  <2>1. Pending' = {} /\ Unhomed'
    BY <1>1, BootsEmpty, BootsKnown
  <2> QED BY <2>1 DEF Meets, Followed, HomeBy
<1>2. /\ Pending' \in SUBSET Pending /\ \A line \in Pending : line.id \in Nat
      /\ \A line \in Pending : line \in Pending' \/ \A later \in Pending' : line.id < later.id
      /\ ring # <<>> => ring[1] \in Pending
  BY MachineLeaves, PendingLines
<1>3. Followed(n) => Followed(n)'
  <2> SUFFICES ASSUME Followed(n), NEW home \in Pending', home.kind = "G28", home.id < n
               PROVE  \E g \in Pending' : g.kind \in Modes /\ home.id < g.id /\ g.id < n
    BY DEF Followed
  <2>1. PICK g \in Pending : g.kind \in Modes /\ home.id < g.id /\ g.id < n
    BY <1>2 DEF Followed
  <2>2. home \in Pending /\ home.id \in Nat /\ g.id \in Nat
    BY <1>2
  <2>3. g \in Pending'
    BY <1>2, <2>1, <2>2
  <2> QED BY <2>1, <2>3
<1>4. HomeBy(n)' => HomeBy(n)
  BY <1>2 DEF HomeBy
<1>5. ASSUME mega = "up", RelativeBy(n)' <=> RelativeBy(n) PROVE Meets(n, mode)'
  <2>1. Unhomed /\ ~HomeBy(n) => Unhomed'
    <3>1. ring # <<>> /\ ring[1].kind = "G28" => HomeBy(n)
      BY <1>2 DEF HomeBy, Homes
    <3> QED BY <3>1, MachineKnown
  <2> QED BY <1>3, <1>4, <1>5, <2>1 DEF Meets
<1>6. CASE Taken /\ (PowerLoss \/ (Ending /\ LostSlot))
  <2>1. Meets(n, mode) /\ Unhomed'
    BY <1>6, LostKnown DEF Taken
  <2>2. CASE HomeBy(n)'
    <3>1. ModeBy(n)'
      BY <1>3, <2>1, <2>2 DEF Meets, Followed, HomeBy, ModeBy, Governed, Modes
    <3>2. RelativeBy(n)' <=> RelativeBy(n)
      BY <1>6, <3>1, TakenEnds
    <3> QED BY <1>3, <1>4, <2>1, <2>2, <3>2 DEF Meets
  <2>3. CASE ~HomeBy(n)'
    BY <1>3, <2>1, <2>3 DEF Meets
  <2> QED BY <2>2, <2>3
<1> QED BY <1>1, <1>5, <1>6, MachineEnds

\* All that leaves is before a line that stays, and before the next line.
LEMMA StaysBehind ==
    ASSUME QueueTypeOK, QueueOrder, CellInv, WaitInv, Firmware \/ PowerLoss
    PROVE  /\ \A m \in Pending' : m.kind \notin Homes =>
                 /\ m \in Pending /\ m.id \in Nat
                 /\ \A line \in Pending : line \in Pending' \/ line.id < m.id
                 /\ ring # <<>> /\ ring[1].kind \in Homes => ring[1].id < m.id
           /\ All \in Nat /\ All' = All
           /\ \A line \in Pending : line \in Pending' \/ line.id < All
           /\ ring # <<>> /\ ring[1].kind \in Homes => ring[1].id < All
<1>1. /\ UNCHANGED sent /\ Pending' \in SUBSET Pending
      /\ \A line \in Pending : line \in Pending' \/ \A later \in Pending' : line.id < later.id
  BY MachineLeaves
<1>2. /\ \A line \in Pending : line.id \in Nat /\ line.id < All
      /\ All \in Nat
      /\ ring # <<>> => ring[1] \in Pending /\ \A line \in Pending : line = ring[1] \/ ring[1].id < line.id
  BY PendingLines
<1> QED BY <1>1, <1>2 DEF All

\* A move on its way meets the mode that it needs.
MoveInv ==
    mega = "up" => \A m \in Pending : m.kind \in Moves => Meets(m.id, Needs(m.kind))

\* A move that no mode line of the run precedes is to meet the mode as it is left,
\* and so is what follows the mode line in flight.
Exposed(i) == todo[i] \in Moves /\ \A j \in 1..Len(todo) : j < i => todo[j] \notin Modes
ExpectInv ==
    Reached /\ Active =>
       /\ \A i \in 1..Len(todo) : Exposed(i) => Meets(All, Needs(todo[i]))
       /\ InFlight /\ todo[1] \in Modes => Meets(All, todo[1])

LEMMA MachineMoves ==
    ASSUME Sound, CellInv, WaitInv, MoveInv, ExpectInv, Machine \/ Accidents
    PROVE  MoveInv' /\ ExpectInv'
<1>0. QueueTypeOK /\ QueueOrder /\ relative \in BOOLEAN
  BY DEF Sound, TypeOK, CellTypeOK
<1>1. UNCHANGED <<seq, todo, fault, connected>>
  BY DEF Machine, Accidents, Firmware, Accident, runVars
<1>2. CASE mega' # "up"
  BY <1>2 DEF MoveInv, ExpectInv, Reached
<1>3. CASE mega' = "up"
  <2>1. Firmware \/ PowerLoss
    BY <1>3 DEF Machine, Accidents, Accident, Die, Restarts
  <2>2. ASSUME NEW m \in Pending', m.kind \in Moves PROVE Meets(m.id, Needs(m.kind))'
    <3>1. /\ m \in Pending /\ m.id \in Nat
          /\ \A line \in Pending : line \in Pending' \/ line.id < m.id
          /\ ring # <<>> /\ ring[1].kind \in Homes => ring[1].id < m.id
      BY <1>0, <2>1, <2>2, LidKinds, StaysBehind
    <3>2. ASSUME NEW mode, NEW n \in Nat, n = m.id, mega = "up" => Meets(n, mode)
          PROVE  Meets(n, mode)'
      BY <1>0, <1>3, <2>1, <3>1, <3>2, MachineMeets
    <3>3. mega = "up" => Meets(m.id, Needs(m.kind))
      BY <2>2, <3>1 DEF MoveInv
    <3> QED BY <3>1, <3>2, <3>3
  <2>3. ASSUME NEW mode, mega = "up" => Meets(All, mode) PROVE Meets(All, mode)'
    <3>1. /\ All \in Nat /\ All' = All
          /\ \A line \in Pending : line \in Pending' \/ line.id < All
          /\ ring # <<>> /\ ring[1].kind \in Homes => ring[1].id < All
      BY <1>0, <2>1, StaysBehind
    <3>2. ASSUME NEW n \in Nat, n = All PROVE Meets(n, mode)'
      BY <1>0, <1>3, <2>1, <2>3, <3>1, <3>2, MachineMeets
    <3>3. PICK n \in Nat : n = All
      BY <3>1
    <3>4. Meets(n, mode)'
      BY <3>2, <3>3
    <3>5. All' = n
      BY <3>1, <3>3
    <3> QED BY <3>4, <3>5
  <2>4. ExpectInv'
    <3> SUFFICES ASSUME Active, connected
                 PROVE  /\ \A i \in 1..Len(todo) : Exposed(i) => Meets(All, Needs(todo[i]))'
                        /\ InFlight /\ todo[1] \in Modes => Meets(All, todo[1])'
      BY <1>1 DEF ExpectInv, Reached, Active, InFlight, Exposed
    <3>1. ASSUME NEW mode, Reached => Meets(All, mode) PROVE Meets(All, mode)'
      BY <2>3, <3>1 DEF Reached
    <3> QED BY <1>1, <3>1 DEF ExpectInv
  <2> QED BY <2>2, <2>4 DEF MoveInv
<1> QED BY <1>2, <1>3

\* A write adds lines behind those on their way, which meet what they met.
LEMMA WriteMeets ==
    ASSUME QueueTypeOK, QueueOrder, relative \in BOOLEAN, NEW kinds \in Seq(Kinds), Write(kinds),
           mega = "up", NEW mode, NEW n \in Nat, n <= All, Meets(n, mode)
    PROVE  Meets(n, mode)'
<1>1. /\ \A line \in Pending : line \in Pending' /\ line.id \in Nat /\ line.id <= sent
      /\ \A line \in Pending' : line \in Pending \/ ~(line.id < n)
  <2> DEFINE added(k) == rx'[Len(rx) + k]
  <2>1. /\ \A line \in Pending : line \in Pending' /\ line.id \in Nat /\ line.id <= sent
        /\ \A k \in 1..Len(kinds) : added(k).id = sent + k
        /\ \A line \in Pending' : line \in Pending \/ \E k \in 1..Len(kinds) : line = added(k)
        /\ sent \in Nat /\ Len(kinds) \in Nat
    BY WritePending DEF QueueTypeOK
  <2> HIDE DEF added
  <2>2. \A line \in Pending' : line \in Pending \/ ~(line.id < n)
    <3> SUFFICES ASSUME NEW line \in Pending', line \notin Pending
                 PROVE  ~(line.id < n)
      OBVIOUS
    <3>1. PICK k \in 1..Len(kinds) : line = added(k)
      BY <2>1
    <3> QED BY <2>1, <3>1 DEF All
  <2> QED BY <2>1, <2>2
<1>2. RelativeBy(n)' <=> RelativeBy(n)
  <2>1. RelativeBy(n)' <=> EndsBy(Pending', n, {"G91"}, {"G90"}, relative)
    BY DEF RelativeBy, Write, cellVars
  <2> QED BY <2>1, WriteOld DEF RelativeBy
<1>3. Unhomed' <=> Unhomed
  BY DEF Unhomed, Write, cellVars, posVars
<1>4. HomeBy(n)' => HomeBy(n)
  BY <1>1 DEF HomeBy
<1>5. Followed(n)'
  <2> SUFFICES ASSUME NEW home \in Pending', home.kind = "G28", home.id < n
               PROVE  \E g \in Pending' : g.kind \in Modes /\ home.id < g.id /\ g.id < n
    BY DEF Followed
  <2> QED BY <1>1 DEF Meets, Followed
<1> QED BY <1>2, <1>3, <1>4, <1>5 DEF Meets

\* So does the next line, if neither a mode line nor a homing is added.
LEMMA WriteMeetsNext ==
    ASSUME QueueTypeOK, QueueOrder, relative \in BOOLEAN, NEW kinds \in Seq(Kinds), Write(kinds),
           mega = "up", NEW mode, Meets(All, mode),
           \A j \in 1..Len(kinds) : kinds[j] \notin Modes \cup {"G28"}
    PROVE  Meets(All, mode)'
<1>1. /\ \A line \in Pending : line \in Pending' /\ line.id \in Nat /\ line.id <= sent
      /\ \A line \in Pending' : line \in Pending \/ line.kind \notin Modes \cup {"G28"}
  BY WritePending
<1>2. sent \in Nat /\ sent' \in Nat /\ sent <= sent'
  BY DEF QueueTypeOK, Write
<1>3. RelativeBy(All)' <=> RelativeBy(All)
  BY WriteMode
<1>4. Unhomed' <=> Unhomed
  BY DEF Unhomed, Write, cellVars, posVars
<1>5. \A line \in Pending : line.id < All /\ line.id < All'
  BY <1>1, <1>2 DEF All
<1>6. HomeBy(All)' => HomeBy(All)
  BY <1>1, <1>5 DEF HomeBy
<1>7. Followed(All)'
  <2> SUFFICES ASSUME NEW home \in Pending', home.kind = "G28"
               PROVE  \E g \in Pending' : g.kind \in Modes /\ home.id < g.id /\ g.id < All'
    BY DEF Followed
  <2>1. home \in Pending
    BY <1>1
  <2>2. PICK g \in Pending : g.kind \in Modes /\ home.id < g.id
    BY <1>5, <2>1 DEF Meets, Followed
  <2> QED BY <1>1, <1>5, <2>2
<1> QED BY <1>3, <1>4, <1>6, <1>7 DEF Meets

\* A mode line that is added decides what the lines behind it meet.
LEMMA WriteMeetsMode ==
    ASSUME QueueTypeOK, QueueOrder, relative \in BOOLEAN, NEW kinds \in Seq(Kinds), Write(kinds),
           mega = "up", \A k \in 1..Len(kinds) : kinds[k] # "G28",
           NEW i \in 1..Len(kinds) + 1, NEW n, n = sent + i,
           NEW j \in 1..Len(kinds), j < i, kinds[j] \in Modes,
           \A k \in 1..Len(kinds) : j < k /\ k < i => kinds[k] \notin Modes
    PROVE  Meets(n, kinds[j])'
<1>1. /\ \A line \in Pending : line \in Pending' /\ line.id \in Nat /\ line.id <= sent
      /\ \A line \in Pending' : line \in Pending \/ line.kind # "G28"
      /\ rx'[Len(rx) + j] \in Pending' /\ rx'[Len(rx) + j].id = sent + j
      /\ rx'[Len(rx) + j].kind = kinds[j]
  BY WritePending
<1>2. sent \in Nat /\ sent + j < n /\ n \in Nat
  BY DEF QueueTypeOK
<1>3. RelativeBy(n)' <=> kinds[j] = "G91"
  <2> DEFINE up == {"G91"}  down == {"G90"}
  <2>1. up \cap down = {} /\ up \cup down = Modes /\ (kinds[j] \in up <=> kinds[j] = "G91")
    BY DEF Modes
  <2>2. RelativeBy(n)' <=> EndsBy(Pending', n, up, down, relative)
    BY DEF RelativeBy, Write, cellVars
  <2> HIDE DEF up, down
  <2>3. EndsBy(Pending', n, up, down, relative) <=> kinds[j] \in up
    BY <2>1, WriteDecides
  <2> QED BY <2>1, <2>2, <2>3
<1>4. Followed(n)'
  <2> SUFFICES ASSUME NEW home \in Pending', home.kind = "G28"
               PROVE  \E g \in Pending' : g.kind \in Modes /\ home.id < g.id /\ g.id < n
    BY DEF Followed
  <2>1. home.id \in Nat /\ home.id <= sent
    BY <1>1
  <2>2. home.id < sent + j
    BY <1>2, <2>1
  <2> QED BY <1>1, <1>2, <2>2
<1> QED BY <1>3, <1>4 DEF Meets

LEMMA SameMeets ==
    ASSUME UNCHANGED <<rx, ring, sent, relative, known, spoilt, running>>
    PROVE  /\ MoveInv /\ UNCHANGED mega => MoveInv'
           /\ \A mode : Meets(All, mode) => Meets(All, mode)'
<1>1. Pending' = Pending /\ All' = All
  BY DEF Pending, All
<1>2. ASSUME NEW n, NEW mode, Meets(n, mode) PROVE Meets(n, mode)'
  BY <1>1, <1>2 DEF Meets, Followed, HomeBy, RelativeBy, Unhomed
<1>3. ASSUME NEW mode, Meets(All, mode) PROVE Meets(All, mode)'
  BY <1>1, <1>3 DEF Meets, Followed, HomeBy, RelativeBy, Unhomed
<1> QED BY <1>1, <1>2, <1>3 DEF MoveInv

\* The moves among the lines that are added meet what they need.
LEMMA WriteMoves ==
    ASSUME TypeOK, QueueOrder, MoveInv, NEW kinds \in Seq(Kinds), Write(kinds),
           \A i \in 1..Len(kinds), n \in Nat :
              mega = "up" /\ kinds[i] \in Moves /\ n = sent + i => Meets(n, Needs(kinds[i]))'
    PROVE  MoveInv'
<1> SUFFICES ASSUME mega = "up", NEW m \in Pending', m.kind \in Moves PROVE Meets(m.id, Needs(m.kind))'
  BY DEF MoveInv, Write
<1>0. QueueTypeOK /\ relative \in BOOLEAN
  BY DEF TypeOK, CellTypeOK
<1> DEFINE added(k) == rx'[Len(rx) + k]
<1>1. /\ \A k \in 1..Len(kinds) : added(k).id = sent + k /\ added(k).kind = kinds[k]
      /\ m \in Pending \/ \E k \in 1..Len(kinds) : m = added(k)
      /\ sent \in Nat /\ Len(kinds) \in Nat
  BY <1>0, WritePending DEF QueueTypeOK
<1> HIDE DEF added
<1>2. CASE m \in Pending
  <2>1. m.id \in Nat /\ m.id <= All /\ Meets(m.id, Needs(m.kind))
    BY <1>0, <1>2, PendingLines DEF MoveInv
  <2>2. ASSUME NEW n \in Nat, n <= All, NEW mode, Meets(n, mode) PROVE Meets(n, mode)'
    BY <1>0, <2>2, WriteMeets
  <2> QED BY <2>1, <2>2
<1>3. CASE m \notin Pending
  <2>1. PICK k \in 1..Len(kinds) : m = added(k)
    BY <1>1, <1>3
  <2>2. m.id = sent + k /\ m.kind = kinds[k] /\ m.id \in Nat
    BY <1>1, <2>1
  <2> QED BY <2>2
<1> QED BY <1>2, <1>3

\* The moves of the buttons follow a mode line of their own.
LEMMA ButtonMoves ==
    ASSUME TypeOK, QueueOrder, mega = "up",
           NEW kinds \in {<<"M410">>, <<"M112">>} \cup ButtonLines, kinds \in Seq(Kinds), Write(kinds),
           NEW i \in 1..Len(kinds), kinds[i] \in Moves, NEW n \in Nat, n = sent + i
    PROVE  Meets(n, Needs(kinds[i]))'
<1>1. kinds \in MoveLines
  <2>1. CASE kinds \in {<<"M410">>, <<"M112">>} \cup OtherLines
    BY <2>1 DEF OtherLines, Moves, Distances
  <2> QED BY <2>1 DEF ButtonLines
<1>2. /\ i = 2 /\ 1 \in 1..Len(kinds) /\ kinds[1] \in Modes /\ kinds[1] = Needs(kinds[2])
      /\ \A k \in 1..Len(kinds) : kinds[k] # "G28"
      /\ i \in 1..Len(kinds) + 1 /\ \A k \in 1..Len(kinds) : ~(1 < k /\ k < i)
  <2>1. CASE kinds \in {<<"G90", "G1_B">>, <<"G90", "G1_B0">>}
    BY <2>1 DEF Modes, Moves, Distances, Needs
  <2>2. CASE kinds = <<"G91", "G1_A", "G90">>
    BY <2>2 DEF Modes, Moves, Distances, Needs
  <2> QED BY <1>1, <2>1, <2>2 DEF MoveLines
<1>3. QueueTypeOK /\ relative \in BOOLEAN
  BY DEF TypeOK, CellTypeOK
<1>4. ASSUME NEW j \in 1..Len(kinds), j = 1 PROVE Meets(n, kinds[j])'
  <2>1. j < i /\ kinds[j] \in Modes /\ \A k \in 1..Len(kinds) : ~(j < k /\ k < i)
    BY <1>2, <1>4
  <2> QED BY <1>2, <1>3, <2>1, WriteMeetsMode
<1> QED BY <1>2, <1>4

\* The run commands a line.
LEMMA CommandMoves ==
    ASSUME TypeOK, QueueOrder, RunInv, WellPlanned(todo), MoveInv, ExpectInv, Advance, Command
    PROVE  MoveInv' /\ ExpectInv'
<1>0. /\ todo # <<>> /\ todo[1] \in Kinds /\ UNCHANGED <<todo, connected, fault>>
      /\ seq = "next" /\ seq' = "waiting" /\ ~fault /\ connected
  BY DEF Command, Advance, SendStep, SendAwaited, RunInv
<1> PICK kinds \in Seq(Kinds) : kinds = <<todo[1]>>
  BY <1>0, OneLine
<1>1. Write(kinds)
  BY DEF Command, SendStep, SendAwaited
<1>2. Len(kinds) = 1 /\ kinds[1] = todo[1] /\ 1 \in 1..Len(todo) /\ 1 \in 1..Len(kinds)
  <2>1. todo \in Seq(StepKinds)
    BY DEF TypeOK, StepKinds
  <2> QED BY <1>0, <2>1
<1>3. QueueTypeOK /\ relative \in BOOLEAN /\ sent \in Nat /\ All \in Nat
  <2>1. QueueTypeOK /\ relative \in BOOLEAN
    BY DEF TypeOK, CellTypeOK
  <2> QED BY <2>1 DEF QueueTypeOK, All
<1>4. sent' = sent + 1 /\ UNCHANGED mega
  BY <1>1, <1>2 DEF Write
<1>5. mega = "up" => ExpectInv /\ Reached /\ Active
  BY <1>0 DEF Reached, Active
<1>6. MoveInv'
  <2>1. ASSUME mega = "up", todo[1] \in Moves, NEW n \in Nat, n = All PROVE Meets(n, Needs(todo[1]))'
    <3>1. Exposed(1)
      BY <1>2, <2>1 DEF Exposed
    <3>2. Meets(n, Needs(todo[1]))
      BY <1>2, <1>5, <2>1, <3>1 DEF ExpectInv
    <3> PICK mode : mode = Needs(todo[1])
      OBVIOUS
    <3>3. Meets(n, mode)'
      <4>1. Meets(n, mode) /\ n <= All
        BY <1>3, <2>1, <3>2
      <4> QED BY <1>1, <1>3, <2>1, <4>1, WriteMeets
    <3> QED BY <1>0, <3>3
  <2>2. ASSUME NEW i \in 1..Len(kinds), NEW n \in Nat, mega = "up", kinds[i] \in Moves, n = sent + i
        PROVE  Meets(n, Needs(kinds[i]))'
    <3>1. i = 1 /\ kinds[i] = todo[1] /\ n = All
      BY <1>2, <2>2 DEF All
    <3>2. Meets(n, Needs(todo[1]))'
      BY <2>1, <2>2, <3>1
    <3>3. Needs(todo[1])' = Needs(kinds[i])
      BY <1>0, <3>1
    <3> QED BY <3>2, <3>3 DEF Meets
  <2> QED BY <1>1, <1>2, <2>2, WriteMoves
<1>7. ExpectInv'
  <2> SUFFICES ASSUME Reached'
               PROVE  /\ \A i \in 1..Len(todo) : Exposed(i) => Meets(All, Needs(todo[i]))'
                      /\ todo[1] \in Modes => Meets(All, todo[1])'
    BY <1>0 DEF ExpectInv, Exposed
  <2>1. mega = "up"
    BY <1>4 DEF Reached
  <2>2. CASE todo[1] \in Modes
    <3>1. \A i \in 1..Len(todo) : ~Exposed(i)
      <4>1. todo[1] \notin Moves
        BY <2>2 DEF Modes, Moves, Distances
      <4> QED BY <1>2, <2>2, <4>1 DEF Exposed
    <3>2. Meets(All, todo[1])'
      <4>1. ASSUME NEW i \in 1..Len(kinds) + 1, NEW n, n = sent + i, i = 2,
                   NEW j \in 1..Len(kinds), j = 1
            PROVE  Meets(n, kinds[j])'
        <5>1. /\ j < i /\ kinds[j] \in Modes /\ \A k \in 1..Len(kinds) : kinds[k] # "G28"
              /\ \A k \in 1..Len(kinds) : j < k /\ k < i => kinds[k] \notin Modes
          BY <1>2, <2>2, <4>1 DEF Modes
        <5>2. QueueTypeOK /\ QueueOrder /\ relative \in BOOLEAN
          BY <1>3
        <5> QED BY <1>1, <2>1, <4>1, <5>1, <5>2, WriteMeetsMode
      <4>2. All' = sent + 2 /\ 2 \in 1..Len(kinds) + 1
        BY <1>2, <1>3, <1>4 DEF All
      <4>3. PICK n : n = sent + 2
        OBVIOUS
      <4>4. Meets(n, kinds[1])'
        BY <1>2, <4>1, <4>2, <4>3
      <4>5. kinds[1] = todo[1]' /\ All' = n
        BY <1>0, <1>2, <4>2, <4>3
      <4> QED BY <4>4, <4>5 DEF Meets
    <3> QED BY <3>1, <3>2
  <2>3. CASE todo[1] = "G28"
    <3>1. \A i \in 1..Len(todo) : todo[i] \notin Moves \cup Modes
      BY <1>2, <2>3 DEF WellPlanned
    <3> QED BY <1>2, <3>1 DEF Exposed
  <2>4. CASE todo[1] \notin Modes \cup {"G28"}
    <3>1. \A j \in 1..Len(kinds) : kinds[j] \notin Modes \cup {"G28"}
      BY <1>2, <2>4
    <3>2. ASSUME NEW mode, Meets(All, mode) PROVE Meets(All, mode)'
      BY <1>1, <1>2, <1>3, <2>1, <3>1, <3>2, WriteMeetsNext
    <3>3. \A i \in 1..Len(todo) : Exposed(i) => Meets(All, Needs(todo[i]))
      BY <1>5, <2>1 DEF ExpectInv
    <3> QED BY <1>0, <2>4, <3>2, <3>3
  <2> QED BY <2>2, <2>3, <2>4
<1> QED BY <1>6, <1>7

\* What is before a run that has done with a step.
LEMMA TailExposed ==
    ASSUME todo \in Seq(StepKinds), todo # <<>>, WellPlanned(todo), todo' = Tail(todo),
           NEW i \in 1..Len(todo'), Exposed(i)'
    PROVE  /\ i + 1 \in 1..Len(todo) /\ todo'[i] = todo[i + 1]
           /\ todo[1] \notin Modes => Exposed(i + 1)
           /\ todo[1] \in Modes => Needs(todo'[i]) = todo[1]
<1>1. /\ Len(todo') = Len(todo) - 1 /\ Len(todo) \in Nat \ {0}
      /\ \A k \in 1..Len(todo') : k + 1 \in 1..Len(todo) /\ todo'[k] = todo[k + 1]
  BY StepTail
<1>2. /\ i + 1 \in 1..Len(todo) /\ todo'[i] = todo[i + 1] /\ 1 \in 1..Len(todo) /\ 1 < i + 1
      /\ todo[i + 1] \in Moves /\ \A j \in 1..Len(todo') : j < i => todo'[j] \notin Modes
  BY <1>1 DEF Exposed
<1>3. \A j \in 1..Len(todo) : 1 < j /\ j < i + 1 => todo[j] \notin Modes
  <2> SUFFICES ASSUME NEW j \in 1..Len(todo), 1 < j, j < i + 1 PROVE todo[j] \notin Modes
    OBVIOUS
  <2>1. j - 1 \in 1..Len(todo') /\ j - 1 < i /\ (j - 1) + 1 = j
    BY <1>1
  <2> QED BY <1>1, <1>2, <2>1
<1>4. todo[1] \notin Modes => Exposed(i + 1)
  <2> SUFFICES ASSUME todo[1] \notin Modes, NEW j \in 1..Len(todo), j < i + 1 PROVE todo[j] \notin Modes
    BY <1>2 DEF Exposed
  <2>1. j = 1 \/ 1 < j
    OBVIOUS
  <2> QED BY <1>3, <2>1
<1>5. todo[1] \in Modes => (todo[i + 1] \in Distances <=> todo[1] = "G91")
  BY <1>2, <1>3 DEF WellPlanned
<1> QED BY <1>2, <1>4, <1>5 DEF Needs, Modes

\* What a page step other than a command writes, if it writes at all.
LEMMA PageSends ==
    ASSUME TypeOK, PageStep, ~(Advance /\ Command)
    PROVE  \/ \E kinds \in Seq(Kinds) :
                 /\ Write(kinds)
                 /\ \/ Unwind /\ kinds = OwedLines
                    \/ Stop /\ kinds = <<"M410">>
                    \/ EmergencyStop /\ kinds = <<"M112">>
                    \/ Pressed /\ kinds \in ButtonLines
           \/ /\ \/ Advance \/ StepDone \/ SleepEnds \/ StartRun \/ Timeout \/ HandleLine \/ Disconnect
              /\ UNCHANGED <<queueVars, mega, cellVars, thrown>>
           \/ Connect
<1>1. CASE Unwind
  <2>1. Write(OwedLines) /\ OwedLines \in Seq(Kinds)
    BY <1>1, OwedTypes, RecoveryKinds DEF Unwind, SendOwed, SendAll, OwedLines
  <2>2. PICK kinds \in Seq(Kinds) : kinds = OwedLines
    BY <2>1
  <2>3. Write(kinds)
    BY <2>1, <2>2 DEF Write, Quiet
  <2> QED BY <1>1, <2>2, <2>3
<1>2. CASE Stop \/ EmergencyStop
  <2>1. <<"M410">> \in Seq(Kinds) /\ <<"M112">> \in Seq(Kinds)
    BY KindsKnown, OneLine
  <2>2. (Stop /\ Write(<<"M410">>)) \/ (EmergencyStop /\ Write(<<"M112">>))
    BY <1>2 DEF Stop, EmergencyStop, SendAll
  <2> QED BY <2>1, <2>2
<1>3. CASE Pressed
  <2>1. PICK kinds \in ButtonLines : Write(kinds)
    BY <1>3, PressedSends
  <2>2. kinds \in Seq(Kinds)
    BY ButtonTypes
  <2> QED BY <1>3, <2>1, <2>2
<1>4. CASE Connect
  BY <1>4
<1>5. CASE Advance /\ ~Command
  BY <1>5 DEF Advance, NextBlock, Check, EndRun, NothingSent
<1>6. CASE StepDone \/ SleepEnds \/ StartRun \/ Timeout
  BY <1>6 DEF StepDone, SleepEnds, StartRun, Timeout, NothingSent
<1>7. CASE HandleLine \/ Disconnect
  BY <1>7 DEF HandleLine, Disconnect
<1> QED BY <1>1, <1>2, <1>3, <1>4, <1>5, <1>6, <1>7 DEF PageStep, Run, Operator, Buttons, Pressed

LEMMA OwedKinds ==
    \A i \in 1..Len(OwedLines) : OwedLines[i] \in Recoveries
<1>1. OwedLines \in Seq(Recoveries)
  BY OwedTypes
<1> QED BY <1>1, ElementOfSeq

LEMMA PageMoveInv ==
    ASSUME TypeOK, QueueOrder, RunInv, MoveInv, PageStep, ~(Advance /\ Command)
    PROVE  MoveInv'
<1>1. CASE Connect
  BY <1>1 DEF Connect, Restarts, MoveInv
<1>2. CASE UNCHANGED <<queueVars, mega, cellVars, thrown>>
  BY <1>2, SameMeets DEF queueVars, cellVars, posVars
<1>3. ASSUME NEW kinds \in Seq(Kinds), Write(kinds),
             kinds = OwedLines \/ kinds \in {<<"M410">>, <<"M112">>} \cup ButtonLines
      PROVE  MoveInv'
  <2>1. ASSUME NEW i \in 1..Len(kinds), NEW n \in Nat, mega = "up", kinds[i] \in Moves, n = sent + i
        PROVE  Meets(n, Needs(kinds[i]))'
    <3>1. kinds # OwedLines
      BY <2>1, OwedKinds, RecoveryKinds DEF Reliant
    <3> QED BY <1>3, <2>1, <3>1, ButtonMoves
  <2> QED BY <1>3, <2>1, WriteMoves
<1> QED BY <1>1, <1>2, <1>3, PageSends

\* What a step of the page that commands nothing leaves of a run that goes on.
LEMMA RunGoesOn ==
    ASSUME TypeOK, RunInv, PageStep, ~(Advance /\ Command), Active'
    PROVE  \/ NewBlock /\ ~InFlight'
           \/ /\ Active /\ UNCHANGED <<mega, connected, lidLast>>
              /\ UNCHANGED todo /\ (InFlight' => InFlight)
              /\ UNCHANGED <<queueVars, mega, cellVars, thrown>> \/ LidClosed
           \/ /\ Active /\ UNCHANGED <<mega, connected, lidLast>>
              /\ todo # <<>> /\ todo' = Tail(todo) /\ ~InFlight'
              /\ UNCHANGED <<queueVars, mega, cellVars, thrown>>
              /\ \/ seq = "next" /\ todo[1] \in Checks /\ (todo[1] = "lid" => lidLast # "closed")
                 \/ InFlight
<1>1. ~Stop /\ ~EmergencyStop /\ ~Disconnect
  BY FaultEnds DEF Stop, EmergencyStop, Disconnect
<1>2. ~Unwind /\ ~Timeout /\ ~Connect
  BY DEF Unwind, Timeout, Reject, Active, Connect, runVars
<1>3. CASE Pressed
  <2>1. UNCHANGED <<todo, seq, fault, connected>>
    BY <1>3, PressedSends
  <2>2. LidClosed
    BY <1>3, <2>1 DEF Pressed, HomeAll, MoveButton, StartSpin, Free, Active
  <2>3. UNCHANGED <<mega, lidLast>>
    BY <1>3, <2>2, PressedSends DEF Write, LidClosed
  <2> QED BY <2>1, <2>2, <2>3 DEF Active, InFlight
<1>4. CASE Advance /\ ~Command
  <2>1. /\ seq = "next" /\ ~fault /\ Active
        /\ UNCHANGED <<queueVars, mega, cellVars, thrown, connected, lidLast>>
    BY <1>4 DEF Advance, RunInv, Active, NextBlock, Check, EndRun, NothingSent, trackVars
  <2>2. CASE Check
    <3>1. todo # <<>> /\ todo[1] \in Checks /\ todo' = Tail(todo)
      BY <2>2 DEF Check
    <3>2. todo[1] = "lid" => lidLast # "closed"
      BY <2>2 DEF Check, LidInTheWay, Active
    <3>3. ~InFlight'
      BY <2>2 DEF Check, InFlight
    <3> QED BY <2>1, <3>1, <3>2, <3>3
  <2>3. CASE NextBlock
    <3>1. plan # <<>> /\ todo' = <<"sleep">> \o Steps(plan[1]) /\ seq' = "next"
      BY <2>1, <2>3 DEF NextBlock, Active
    <3>2. plan[1] \in Blocks
      BY <3>1, StepTail DEF TypeOK
    <3> QED BY <3>1, <3>2 DEF NewBlock, InFlight
  <2>4. CASE EndRun
    BY <2>4 DEF EndRun, Active
  <2> QED BY <1>4, <2>2, <2>3, <2>4 DEF Advance
<1>5. CASE StepDone
  <2>1. /\ seq = "answered" /\ ~fault /\ seq' = "next" /\ todo' = Tail(todo)
        /\ UNCHANGED <<queueVars, mega, cellVars, thrown, connected, lidLast>>
    BY <1>5 DEF StepDone, NothingSent, Active
  <2> QED BY <2>1 DEF Active, InFlight, RunInv
<1>6. CASE SleepEnds
  <2>1. /\ seq = "sleeping" /\ seq' = "next" /\ UNCHANGED <<todo, fault, connected, lidLast>>
        /\ UNCHANGED <<queueVars, mega, cellVars, thrown>>
    BY <1>6 DEF SleepEnds, NothingSent, Active, trackVars
  <2> QED BY <2>1 DEF Active, InFlight
<1>7. CASE StartRun
  <2>1. PICK program \in Programs : todo' = Steps(Head(program))
    BY <1>7 DEF StartRun
  <2>2. seq' = "next"
    BY <1>7 DEF StartRun
  <2> QED BY <2>1, <2>2, FirstBlock DEF NewBlock, InFlight
<1>8. CASE HandleLine
  <2>1. UNCHANGED <<todo, connected>> /\ UNCHANGED <<queueVars, mega, cellVars, thrown>>
    BY <1>8 DEF HandleLine
  <2>2. ~(\E what : FaultLine(what))
    BY FaultEnds DEF FaultLine
  <2>3. UNCHANGED <<fault, lidLast>> /\ (seq' = seq \/ (waiter # 0 /\ seq' = "answered"))
    BY <1>8, <2>2 DEF HandleLine, MarkerLine, SpinLine, OkLine, trackVars
  <2> QED BY <2>1, <2>3 DEF Active, InFlight, RunInv
<1> QED BY <1>1, <1>2, <1>3, <1>4, <1>5, <1>6, <1>7, <1>8 DEF PageStep, Run, Operator, Buttons, Pressed

LEMMA PageExpect ==
    ASSUME TypeOK, QueueOrder, RunInv, WellPlanned(todo), ExpectInv, PageStep, ~(Advance /\ Command)
    PROVE  ExpectInv'
<1> SUFFICES ASSUME Reached', Active' PROVE ExpectInv'
  BY DEF ExpectInv
<1>0. todo \in Seq(StepKinds) /\ QueueTypeOK /\ relative \in BOOLEAN
  BY DEF TypeOK, CellTypeOK, StepKinds
<1>1. CASE NewBlock /\ ~InFlight'
  <2>1. Fresh(todo)'
    BY <1>1, NewBlockPlanned
  <2>2. ASSUME NEW i \in 1..Len(todo') PROVE ~Exposed(i)'
    BY <2>1, <2>2 DEF Fresh, Exposed
  <2> QED BY <1>1, <2>2 DEF ExpectInv
<1>2. CASE /\ UNCHANGED <<queueVars, mega, cellVars, thrown>> \/ LidClosed
           /\ ~(NewBlock /\ ~InFlight')
  <2>1. ASSUME NEW mode, Meets(All, mode), Reached PROVE Meets(All, mode)'
    <3>1. CASE UNCHANGED <<queueVars, mega, cellVars, thrown>>
      BY <2>1, <3>1, SameMeets DEF queueVars, cellVars, posVars
    <3>2. CASE LidClosed
      <4>1. PICK kinds \in Seq(Kinds) : kinds = <<"M750">>
        BY OneLine, KindsKnown
      <4>2. Write(kinds) /\ mega = "up" /\ \A j \in 1..Len(kinds) : kinds[j] \notin Modes \cup {"G28"}
        BY <2>1, <3>2, <4>1 DEF LidClosed, SendAll, Reached, Modes
      <4> QED BY <1>0, <2>1, <4>2, WriteMeetsNext
    <3> QED BY <1>2, <3>1, <3>2
  <2>2. CASE /\ Active /\ UNCHANGED <<mega, connected, lidLast>>
             /\ UNCHANGED todo /\ (InFlight' => InFlight)
    <3>0. Reached
      BY <2>2 DEF Reached
    <3>1. ASSUME NEW i \in 1..Len(todo), Exposed(i) PROVE Meets(All, Needs(todo[i]))'
      <4>1. Meets(All, Needs(todo[i]))
        BY <2>2, <3>0, <3>1 DEF ExpectInv
      <4> QED BY <2>1, <2>2, <3>0, <4>1
    <3>2. ASSUME InFlight, todo[1] \in Modes PROVE Meets(All, todo[1])'
      <4>1. Meets(All, todo[1])
        BY <2>2, <3>0, <3>2 DEF ExpectInv
      <4> QED BY <2>1, <2>2, <3>0, <4>1
    <3> QED BY <2>2, <3>1, <3>2 DEF ExpectInv, Exposed
  <2>3. CASE /\ Active /\ UNCHANGED <<mega, connected, lidLast>>
             /\ todo # <<>> /\ todo' = Tail(todo) /\ ~InFlight'
             /\ (seq = "next" /\ todo[1] \in Checks) \/ InFlight
    <3>0. Reached
      BY <2>3 DEF Reached
    <3>1. ASSUME NEW i \in 1..Len(todo'), Exposed(i)' PROVE Meets(All, Needs(todo'[i]))
      <4>1. /\ i + 1 \in 1..Len(todo) /\ todo'[i] = todo[i + 1]
            /\ todo[1] \notin Modes => Exposed(i + 1)
            /\ todo[1] \in Modes => Needs(todo'[i]) = todo[1]
        BY <1>0, <2>3, <3>1, TailExposed
      <4>2. CASE todo[1] \notin Modes
        BY <2>3, <3>0, <4>1, <4>2 DEF ExpectInv
      <4>3. CASE todo[1] \in Modes
        BY <2>3, <3>0, <4>1, <4>3 DEF ExpectInv, Modes, Checks
      <4> QED BY <4>2, <4>3
    <3>2. ASSUME NEW i \in 1..Len(todo'), Exposed(i)' PROVE Meets(All, Needs(todo[i]))'
      <4> PICK mode : mode = Needs(todo'[i])
        OBVIOUS
      <4>1. Meets(All, mode)'
        BY <2>1, <2>3, <3>0, <3>1, <3>2
      <4> QED BY <4>1
    <3> QED BY <2>3, <3>2 DEF ExpectInv
  <2> QED BY <1>2, <2>2, <2>3, RunGoesOn, Zenon
<1> QED BY <1>1, <1>2, RunGoesOn, Zenon

LEMMA MoveInit == Init => MoveInv /\ ExpectInv
BY DEF Init, CellInit, MoveInv, ExpectInv, Reached

LEMMA MoveStep ==
    ASSUME Sound, CellInv, WaitInv, WellPlanned(todo), MoveInv, ExpectInv, [Next]_vars
    PROVE  MoveInv' /\ ExpectInv'
<1>1. TypeOK /\ QueueOrder /\ RunInv
  BY DEF Sound
<1>2. CASE PageStep
  BY <1>1, <1>2, CommandMoves, PageMoveInv, PageExpect
<1>3. CASE Machine \/ Accidents
  BY <1>3, MachineMoves
<1>4. CASE UNCHANGED vars
  <2>1. /\ UNCHANGED <<rx, ring, sent, relative, known, spoilt, running>>
        /\ UNCHANGED <<mega, connected, todo, seq, fault>>
    BY <1>4 DEF vars, machine, queueVars, cellVars, posVars, runVars
  <2>2. MoveInv'
    BY <2>1, SameMeets
  <2>3. ASSUME NEW mode, Meets(All, mode) PROVE Meets(All, mode)'
    BY <2>1, <2>3, SameMeets
  <2>4. ExpectInv'
    <3> SUFFICES ASSUME Reached, Active
                 PROVE  /\ \A i \in 1..Len(todo) : Exposed(i) => Meets(All, Needs(todo[i]))'
                        /\ InFlight /\ todo[1] \in Modes => Meets(All, todo[1])'
      BY <2>1 DEF ExpectInv, Reached, Active, InFlight, Exposed
    <3> QED BY <2>1, <2>3 DEF ExpectInv
  <2> QED BY <2>2, <2>4
<1> QED BY <1>2, <1>3, <1>4 DEF Next, PageStep

\* Nothing is before the first line, which meets the flags as they are.
LEMMA FirstMeets ==
    ASSUME QueueTypeOK, QueueOrder, relative \in BOOLEAN, ring # <<>>
    PROVE  /\ ring[1] \in Pending /\ ring[1].id \in Nat
           /\ RelativeBy(ring[1].id) <=> relative
           /\ ClosedBy(ring[1].id) <=> lid = "closed"
<1> DEFINE n == ring[1].id
<1>1. /\ \A line \in Pending : line.id \in Nat /\ ~(line.id < n)
      /\ ring[1] \in Pending
  BY PendingLines
<1>2. ASSUME NEW up, NEW down PROVE ~Governed(Pending, n, up, down)
  BY <1>1, Zenon DEF Governed
<1> HIDE DEF n
<1>3. RelativeBy(n) <=> relative
  BY <1>2, FreeEnds DEF RelativeBy
<1>4. ClosedBy(n) <=> lid = "closed"
  BY <1>2, FreeEnds DEF ClosedBy
<1> QED BY <1>1, <1>3, <1>4 DEF n

\* In whichever mode the run before ended, the plunger and the feeder move by a
\* distance and the other axes to a place, unless an interrupted homing has
\* lifted the refusal.
THEOREM MovesMeetTheirMode == Spec => MovesInTheirMode
<1> DEFINE I == Sound /\ CellInv /\ WaitInv /\ WellPlanned(todo) /\ MoveInv /\ ExpectInv
           Kept == CarriesOut(Moves) => known \/ lifted
           Goal == CarriesOut(Moves) => (relative <=> running'.kind \in Distances) \/ lifted
<1>1. Init => I
  BY SoundInit, KnownInit, WaitInit, ModeInit, MoveInit DEF KnownInv
<1>2. I /\ [Next]_vars => I'
  <2> SUFFICES ASSUME I, [Next]_vars PROVE I'
    OBVIOUS
  <2>1. WellPlanned(todo)'
    <3>1. CASE PageStep
      BY <3>1, PlannedStep DEF Sound
    <3>2. CASE UNCHANGED todo
      <4>1. \A steps : steps = todo => WellPlanned(steps)
        OBVIOUS
      <4> QED BY <3>2, <4>1 DEF WellPlanned
    <3> QED BY <3>1, <3>2 DEF Next, PageStep, Machine, Accidents, vars, runVars
  <2> QED BY <2>1, SoundStep, CellStep, WaitStep, MoveStep
<1>3. ASSUME I, [Next]_vars, Kept, CarriesOut(Moves)
      PROVE  (relative <=> running'.kind \in Distances) \/ lifted
  <2>1. mega = "up" /\ ring # <<>> /\ running' = ring[1] /\ ring[1].kind \in Moves
    BY <1>3, MoveStarts DEF Sound, CarriesOut
  <2>2. QueueTypeOK /\ QueueOrder /\ relative \in BOOLEAN
    BY <1>3 DEF Sound, TypeOK, CellTypeOK
  <2>3. ring[1] \in Pending /\ (RelativeBy(ring[1].id) <=> relative)
    BY <2>1, <2>2, FirstMeets
  <2>4. Meets(ring[1].id, Needs(ring[1].kind))
    BY <1>3, <2>1, <2>3 DEF MoveInv
  <2>5. (relative <=> Needs(ring[1].kind) = "G91") \/ ~known
    BY <2>3, <2>4 DEF Meets, Unhomed
  <2> QED BY <1>3, <2>1, <2>5 DEF Needs
<1>4. I /\ [Next]_vars /\ [Kept]_vars => [Goal]_vars
  BY <1>3
<1> QED BY <1>1, <1>2, <1>4, KnownMoves, PTL DEF Spec, MovesOnKnownAxes, MovesInTheirMode

-----------------------------------------------------------------------------
(* The lid over the chuck.                                                   *)

\* No homing is before line n.
NoHome(n) ==
    running.kind \notin Homes /\ \A home \in Pending : home.kind \in Homes => ~(home.id < n)
\* Line n meets no closed lid, or axes that nobody will have homed.
Guarded(n) == ~ClosedBy(n) \/ (Stranded /\ NoHome(n))
\* Line n meets a closed lid, or the line that was to close it was thrown away.
NoCloser(n) == \A line \in Pending : line.id < n => line.kind # "M280_S115"
Shut(n) == ClosedBy(n) \/ ("M280_S115" \in thrown /\ NoCloser(n))

LidLines == Openers \cup {"M280_S115"}

LEMMA MachineGuarded ==
    ASSUME QueueTypeOK, QueueOrder, relative \in BOOLEAN, CellInv, WaitInv,
           Firmware \/ PowerLoss, mega' = "up", NEW n \in Nat,
           \A line \in Pending : line \in Pending' \/ line.id < n,
           ring # <<>> /\ ring[1].kind \in Homes => ring[1].id < n,
           mega = "up" => Guarded(n)
    PROVE  Guarded(n)'
<1>1. CASE Boots
  <2>1. Pending' = {} /\ Stranded' /\ running'.kind \notin Homes
    BY <1>1, BootsEmpty, BootsKnown
  <2> QED BY <2>1 DEF Guarded, NoHome
<1>2. Pending' \in SUBSET Pending /\ (ring # <<>> => ring[1] \in Pending)
  BY MachineLeaves, PendingLines
<1>3. NoHome(n) /\ running'.kind \notin Homes => NoHome(n)'
  BY <1>2 DEF NoHome
<1>4. ASSUME mega = "up", ClosedBy(n)' <=> ClosedBy(n) PROVE Guarded(n)'
  <2>1. Stranded /\ NoHome(n) => Stranded' /\ running'.kind \notin Homes
    <3>1. ring # <<>> /\ ring[1].kind \in Homes => ~NoHome(n)
      BY <1>2 DEF NoHome
    <3> QED BY <3>1, MachineKnown DEF NoHome
  <2> QED BY <1>3, <1>4, <2>1 DEF Guarded
<1>5. CASE Taken /\ (PowerLoss \/ (Ending /\ LostSlot))
  <2>1. Guarded(n) /\ (running.kind \notin Homes => Stranded' /\ running'.kind \notin Homes)
    BY <1>5, LostKnown DEF Taken
  <2>2. CASE LidBy(n)'
    <3>1. ClosedBy(n)' <=> ClosedBy(n)
      BY <1>5, <2>2, TakenEnds
    <3> QED BY <1>3, <2>1, <3>1 DEF Guarded, NoHome
  <2>3. CASE ~LidBy(n)'
    <3>1. ClosedBy(n)' <=> lid = "closed"
      BY <1>5, <2>3, TakenEnds
    <3>2. lid = "closed" => running.kind \notin Homes
      BY DEF WaitInv
    <3>3. \A home \in Pending' : home.kind \in Homes => ~(home.id < n)
      BY <2>3, LidKinds DEF LidBy, Governed
    <3> QED BY <2>1, <3>1, <3>2, <3>3 DEF Guarded, NoHome
  <2> QED BY <2>2, <2>3
<1> QED BY <1>1, <1>4, <1>5, MachineEnds

LEMMA MachineShut ==
    ASSUME QueueTypeOK, QueueOrder, relative \in BOOLEAN, CellInv, WaitInv,
           Firmware \/ PowerLoss, mega' = "up", ~Boots, NEW n \in Nat,
           \A line \in Pending : line \in Pending' \/ line.id < n,
           ring # <<>> /\ ring[1].kind \in Homes => ring[1].id < n,
           mega = "up" => Shut(n)
    PROVE  Shut(n)'
<1>1. Pending' \in SUBSET Pending /\ (ring # <<>> => ring[1] \in Pending)
  BY MachineLeaves, PendingLines
<1>2. NoCloser(n) => NoCloser(n)'
  BY <1>1 DEF NoCloser
<1>3. CASE /\ mega = "up" /\ (ClosedBy(n)' <=> ClosedBy(n))
           /\ thrown' = thrown \/ (ring # <<>> /\ ring[1].id < n /\ thrown' = thrown \ {ring[1].kind})
  <2>1. "M280_S115" \in thrown /\ NoCloser(n) => "M280_S115" \in thrown'
    BY <1>1, <1>3 DEF NoCloser
  <2> QED BY <1>2, <1>3, <2>1 DEF Shut
<1>4. CASE Taken
  <2>1. /\ Shut(n) /\ thrown \subseteq thrown'
        /\ \A line \in Pending : line \in Pending' \/ line.kind # "M280_S115" \/ "M280_S115" \in thrown'
    BY <1>4 DEF Taken
  <2>2. CASE LidBy(n)'
    <3>1. ClosedBy(n)' <=> ClosedBy(n)
      BY <1>4, <2>2, TakenEnds
    <3> QED BY <1>2, <2>1, <3>1 DEF Shut
  <2>3. CASE ~LidBy(n)'
    <3>1. ClosedBy(n)' <=> lid = "closed"
      BY <1>4, <2>3, TakenEnds
    <3>2. NoCloser(n)' /\ \A line \in Pending' : line.kind = "M280_S115" => ~(line.id < n)
      BY <2>3 DEF LidBy, Governed, NoCloser
    <3>3. ClosedBy(n) => lid = "closed" \/ \E line \in Pending : line.kind = "M280_S115" /\ line.id < n
      BY Zenon DEF ClosedBy, EndsBy, SetBy
    <3>4. ClosedBy(n) => lid = "closed" \/ "M280_S115" \in thrown'
      BY <2>1, <3>2, <3>3
    <3> QED BY <2>1, <3>1, <3>2, <3>4 DEF Shut
  <2> QED BY <2>2, <2>3
<1> QED BY <1>3, <1>4, MachineEnds

\* A write adds lines behind those on their way, which meet what they met.
LEMMA WriteLidOld ==
    ASSUME QueueTypeOK, QueueOrder, NEW kinds \in Seq(Kinds), Write(kinds), mega = "up",
           NEW n \in Nat, n <= All
    PROVE  (Guarded(n) => Guarded(n)') /\ (Shut(n) => Shut(n)')
<1> DEFINE added(k) == rx'[Len(rx) + k]
<1>1. /\ \A line \in Pending : line \in Pending' /\ line.id \in Nat /\ line.id <= sent
      /\ \A k \in 1..Len(kinds) : added(k).id = sent + k
      /\ \A line \in Pending' : line \in Pending \/ \E k \in 1..Len(kinds) : line = added(k)
      /\ sent \in Nat /\ Len(kinds) \in Nat
  BY WritePending DEF QueueTypeOK
<1> HIDE DEF added
<1>2. \A line \in Pending' : line \in Pending \/ ~(line.id < n)
  BY <1>1 DEF All
<1>3. ClosedBy(n)' <=> ClosedBy(n)
  <2> PICK now \in BOOLEAN : now = (lid = "closed")
    OBVIOUS
  <2>1. ClosedBy(n)' <=> EndsBy(Pending', n, {"M280_S115"}, Openers, now)
    BY DEF ClosedBy, Write, cellVars, EndsBy
  <2>2. ClosedBy(n) <=> EndsBy(Pending, n, {"M280_S115"}, Openers, now)
    BY DEF ClosedBy, EndsBy
  <2> QED BY <2>1, <2>2, WriteOld
<1>4. UNCHANGED <<known, lifted, running, thrown>>
  BY DEF Write, cellVars, posVars
<1> QED BY <1>2, <1>3, <1>4 DEF Guarded, Shut, NoHome, NoCloser, Stranded

\* So does a new line, and the line after the last, with no line of the lid before.
LEMMA WriteLidNext ==
    ASSUME QueueTypeOK, QueueOrder, NEW kinds \in Seq(Kinds), Write(kinds), mega = "up",
           NEW i \in 1..Len(kinds) + 1, NEW n, n = sent + i,
           \A j \in 1..Len(kinds) : j < i => kinds[j] \notin LidLines
    PROVE  (Guarded(All) => Guarded(n)') /\ (Shut(All) => Shut(n)')
<1> DEFINE added(k) == rx'[Len(rx) + k]
<1>1. /\ \A line \in Pending : line \in Pending' /\ line.id \in Nat /\ line.id <= sent
      /\ \A k \in 1..Len(kinds) : added(k).id = sent + k /\ added(k).kind = kinds[k]
      /\ \A line \in Pending' : line \in Pending \/ \E k \in 1..Len(kinds) : line = added(k)
      /\ sent \in Nat /\ Len(kinds) \in Nat
  BY WritePending DEF QueueTypeOK
<1> HIDE DEF added
<1>2. \A line \in Pending' : line.id < n => (line \in Pending /\ line.id < All) \/ line.kind \notin LidLines
  BY <1>1 DEF All
<1>3. ClosedBy(n)' <=> ClosedBy(All)
  <2> PICK now \in BOOLEAN : now = (lid = "closed")
    OBVIOUS
  <2> DEFINE up == {"M280_S115"}
  <2>1. ClosedBy(n)' <=> EndsBy(Pending', n, up, Openers, now)
    BY DEF ClosedBy, Write, cellVars, EndsBy
  <2>2. ClosedBy(All) <=> EndsBy(Pending, All, up, Openers, now)
    BY DEF ClosedBy, EndsBy
  <2>3. \A j \in 1..Len(kinds) : j < i => kinds[j] \notin up \cup Openers
    BY DEF LidLines
  <2> HIDE DEF up
  <2> QED BY <2>1, <2>2, <2>3, WriteSame
<1>4. UNCHANGED <<known, lifted, running, thrown>>
  BY DEF Write, cellVars, posVars
<1>5. Homes \subseteq LidLines /\ "M280_S115" \in LidLines
  BY DEF LidLines, Openers
<1> QED BY <1>2, <1>3, <1>4, <1>5 DEF Guarded, Shut, NoHome, NoCloser, Stranded

\* A line that decides and is added decides what the lines behind it meet.
LEMMA WriteLast ==
    ASSUME QueueTypeOK, QueueOrder, NEW kinds \in Seq(Kinds), Write(kinds), mega = "up",
           NEW up, NEW down, NEW now \in BOOLEAN, up \cap down = {},
           NEW j \in 1..Len(kinds), kinds[j] \in up \cup down,
           \A k \in 1..Len(kinds) : j < k => kinds[k] \notin up \cup down
    PROVE  EndsBy(Pending', sent' + 1, up, down, now) <=> kinds[j] \in up
<1>1. sent' = sent + Len(kinds) /\ sent \in Nat /\ Len(kinds) \in Nat
  BY DEF Write, QueueTypeOK
<1> PICK i \in 1..Len(kinds) + 1 : i = Len(kinds) + 1
  BY <1>1
<1>2. sent' + 1 = sent + i /\ j < i
  BY <1>1
<1> QED BY <1>2, WriteDecides

LEMMA WriteLidLine ==
    ASSUME QueueTypeOK, QueueOrder, NEW kinds \in Seq(Kinds), Write(kinds), mega = "up",
           NEW j \in 1..Len(kinds), kinds[j] \in LidLines,
           \A k \in 1..Len(kinds) : j < k => kinds[k] \notin LidLines
    PROVE  IF kinds[j] = "M280_S115" THEN Shut(All)' ELSE Guarded(All)'
<1> PICK now \in BOOLEAN : now = (lid = "closed")
  OBVIOUS
<1> PICK up, down : up = {"M280_S115"} /\ down = Openers
  OBVIOUS
<1>1. /\ up \cap down = {} /\ kinds[j] \in up \cup down /\ (kinds[j] \in up <=> kinds[j] = "M280_S115")
      /\ \A k \in 1..Len(kinds) : j < k => kinds[k] \notin up \cup down
  BY LidKinds DEF LidLines
<1>2. ClosedBy(All)' <=> EndsBy(Pending', sent' + 1, up, down, now)
  BY DEF ClosedBy, Write, cellVars, All, EndsBy
<1>3. EndsBy(Pending', sent' + 1, up, down, now) <=> kinds[j] \in up
  BY <1>1, WriteLast
<1> QED BY <1>1, <1>2, <1>3 DEF Shut, Guarded

\* What a board prints that does not boot.
Later ==
    [what : {"ok", "lost", "refused", "halted", "marker", "spin", "complete", "homing", "indexed"},
     id : Nat]

LEMMA LaterReports ==
    /\ <<>> \in Seq(Later)
    /\ \A what \in {"lost", "refused", "halted", "marker", "spin", "complete", "homing", "indexed"} :
          Report(what) \in Seq(Later)
    /\ Search \o Report("complete") \in Seq(Later)
<1>1. \A what \in {"lost", "refused", "halted", "marker", "spin", "complete", "homing", "indexed"} :
         Report(what) \in Seq(Later)
  <2> TAKE what \in {"lost", "refused", "halted", "marker", "spin", "complete", "homing", "indexed"}
  <2>1. [what |-> what, id |-> 0] \in Later
    BY DEF Later
  <2> QED BY <2>1, OneLine DEF Report
<1>2. Search \in Seq(Later)
  BY <1>1, ConcatProperties DEF Search
<1>3. Search \o Report("complete") \in Seq(Later)
  BY <1>1, <1>2, ConcatProperties
<1> QED BY <1>1, <1>3, Empty

LEMMA PrintsLater ==
    ASSUME QueueTypeOK, QueueOrder, Firmware \/ Accident, ~Boots
    PROVE  printed' \in Seq(Later)
<1>1. ASSUME NEW line \in Lines, NEW reports \in Seq(Later), printed' = Append(reports, Ok(line))
      PROVE  printed' \in Seq(Later)
  <2>1. Ok(line) \in Later
    BY DEF Ok, Later, Lines
  <2> QED BY <1>1, <2>1, AppendProperties
<1>2. CASE FetchLine \/ RotorStops \/ Restarts
  BY <1>2, LaterReports DEF FetchLine, Fetch, RotorStops, Restarts, Quiet
<1>3. CASE Die \/ PowerLoss
  BY <1>3, LaterReports DEF Die, PowerLoss
<1>4. CASE Ending
  <2>1. PICK reports \in Seq(Later) : Ended(reports)
    BY <1>4, LaterReports DEF Ending, MoveEnds, HomingEnds, SpinEnds
  <2>2. running \in Lines
    BY <1>4, EndingQueue DEF QueueTypeOK
  <2> QED BY <1>1, <2>1, <2>2 DEF Ended, Return
<1>5. ASSUME NEW line, Immediate(line) PROVE printed' \in Seq(Later)
  <2>1. PICK reports \in Seq(Later) : Done(line, reports)
    BY <1>5, LaterReports DEF Immediate, Refuse, SwitchRelay, SetMode, MoveLid, Remark
  <2>2. line \in Lines
    BY <1>5, ImmediateQueue, DispatchedLine
  <2> QED BY <1>1, <2>1, <2>2 DEF Done, Return
<1>6. ASSUME NEW line, Beginning(line) PROVE printed' \in Seq(Later)
  BY <1>6, LaterReports DEF Beginning, Begin
<1> QED BY <1>2, <1>3, <1>4, <1>5, <1>6, FirmwareSteps DEF Accident

\* The page has still to read that the board has restarted.
StartUnread == \E i \in 1..Len(link) : link[i].what = "start"

LEMMA LinkGrows ==
    ASSUME QueueTypeOK, QueueOrder, link \in Seq(Reports), Firmware \/ Accident, connected
    PROVE  /\ StartUnread => StartUnread'
           /\ ~Boots => \A i \in 1..Len(link') : link'[i].what = "start" => i \in 1..Len(link) /\ link'[i] = link[i]
           /\ Boots => link' = Report("start") /\ StartUnread'
<1>1. link' = link \o printed' /\ printed' \in Seq(Reports)
  BY FirmwareQueue, AccidentQueue DEF Firmware, Accident, Transmit, QueueTypeOK
<1>2. /\ Len(link') = Len(link) + Len(printed') /\ Len(link) \in Nat /\ Len(printed') \in Nat
      /\ \A i \in 1..Len(link') : link'[i] = IF i <= Len(link) THEN link[i] ELSE printed'[i - Len(link)]
  BY <1>1, ConcatProperties
<1>3. StartUnread => StartUnread'
  BY <1>2 DEF StartUnread
<1>4. ASSUME ~Boots, NEW i \in 1..Len(link'), link'[i].what = "start"
      PROVE  i \in 1..Len(link) /\ link'[i] = link[i]
  <2>1. ASSUME ~(i <= Len(link)) PROVE FALSE
    <3>1. i - Len(link) \in 1..Len(printed') /\ link'[i] = printed'[i - Len(link)]
      BY <1>2, <2>1
    <3>2. printed' \in Seq(Later)
      BY <1>4, PrintsLater
    <3>3. link'[i] \in Later
      BY <3>1, <3>2, ElementOfSeq
    <3> QED BY <1>4, <3>3 DEF Later
  <2> QED BY <1>2, <2>1
<1>5. ASSUME Boots PROVE link' = Report("start") /\ StartUnread'
  <2>1. link = <<>> /\ printed' = <<[what |-> "start", id |-> 0]>>
    BY <1>5 DEF Boots, TimePasses, Report
  <2>2. link' = <<[what |-> "start", id |-> 0]>>
    BY <1>1, <2>1
  <2> QED BY <2>2 DEF StartUnread, Report
<1> QED BY <1>3, <1>4, <1>5

\* An unread start is the first line, no code of the page runs before it is read,
\* and a board that is up has done nothing since.
StartInv ==
    \A i \in 1..Len(link) : link[i].what = "start" =>
       /\ i = 1 /\ ~Busy
       /\ mega = "up" => Pending = {} /\ running = NoLine /\ Stranded

LEMMA MachineStart ==
    ASSUME Sound, CellInv, WaitInv, StartInv, Machine \/ Accidents
    PROVE  StartInv'
<1>0. /\ QueueTypeOK /\ QueueOrder /\ link \in Seq(Reports) /\ (Firmware \/ Accident)
      /\ UNCHANGED <<seq, due, connected>> /\ (Boots => ~Busy \/ Accident)
  BY DEF Sound, TypeOK, CellTypeOK, Machine, Accidents, Firmware, Accident, runVars, Boots
<1>1. Busy' <=> Busy
  BY <1>0 DEF Busy
<1>2. CASE ~connected
  <2>1. link' = <<>>
    BY <1>0, <1>2 DEF Firmware, Accident, Transmit
  <2>2. Len(link') = 0
    BY <2>1
  <2> QED BY <2>2 DEF StartInv
<1>3. CASE connected /\ Boots
  <2>1. link' = <<[what |-> "start", id |-> 0]>>
    BY <1>0, <1>3, LinkGrows DEF Report
  <2>2. Len(link') = 1 /\ \A i \in 1..Len(link') : i = 1
    BY <2>1
  <2>3. Pending' = {} /\ running' = NoLine /\ Stranded'
    BY <1>3, BootsEmpty, BootsKnown
  <2>4. ~Busy
    BY <1>3 DEF Machine, Accidents, Accident, Mishap, Boots, PowerLoss, Die, Restarts
  <2> QED BY <1>1, <2>2, <2>3, <2>4 DEF StartInv
<1>4. CASE connected /\ ~Boots
  <2> SUFFICES ASSUME NEW i \in 1..Len(link'), link'[i].what = "start"
               PROVE  /\ i = 1 /\ ~Busy'
                      /\ mega' = "up" => Pending' = {} /\ running' = NoLine /\ Stranded'
    BY DEF StartInv
  <2>1. i \in 1..Len(link) /\ link[i].what = "start"
    BY <1>0, <1>4, LinkGrows
  <2>2. i = 1 /\ ~Busy'
    BY <1>1, <2>1 DEF StartInv
  <2>3. ASSUME mega' = "up" PROVE Pending' = {} /\ running' = NoLine /\ Stranded'
    <3>1. Firmware \/ PowerLoss
      BY <1>0, <2>3 DEF Accident, Die, Restarts
    <3>2. mega = "up"
      BY <1>4, <2>3, <3>1, FirmwareSteps DEF PowerLoss, FetchLine, Ending, RotorStops, Die, Immediate, Beginning
    <3>3. Pending = {} /\ running = NoLine /\ Stranded
      BY <2>1, <3>2 DEF StartInv
    <3>4. Pending' = {} /\ ring = <<>>
      BY <1>0, <3>1, <3>3, MachineLeaves, PendingLines
    <3>5. running' = NoLine
      <4>1. ASSUME NEW line, Beginning(line) PROVE FALSE
        BY <1>0, <3>4, <4>1, DispatchedLine DEF Beginning, Begin
      <4>2. ASSUME NEW line, Immediate(line) PROVE FALSE
        BY <1>0, <3>4, <4>2, ImmediateQueue, DispatchedLine
      <4> QED BY <1>4, <3>1, <3>3, <4>1, <4>2, FirmwareSteps, EndingQueue
            DEF PowerLoss, FetchLine, RotorStops, Die, queueVars, Return
    <3>6. Stranded'
      BY <1>0, <3>1, <3>3, <3>4, MachineKnown DEF NoLine, Homes
    <3> QED BY <3>4, <3>5, <3>6
  <2> QED BY <2>2, <2>3
<1> QED BY <1>2, <1>3, <1>4

\* Code of the page that runs, and a click, have handled a start that had come.
LEMMA StartRead ==
    ASSUME StartInv, PageStep, ~HandleLine, ~Disconnect, ~Connect
    PROVE  ~StartUnread
<1>1. Busy \/ Attentive
  <2>1. TimePasses => Attentive
    BY DEF TimePasses, Attentive
  <2> QED BY <2>1 DEF PageStep, Run, Operator, Buttons, LidClosed, Advance, StepDone, SleepEnds, Unwind,
        StartRun, HomeAll, MoveButton, StartSpin, Free, Stop, EmergencyStop, Timeout, Busy
<1> SUFFICES ASSUME NEW i \in 1..Len(link), link[i].what = "start" PROVE FALSE
  BY DEF StartUnread
<1>2. i = 1 /\ ~Busy
  BY DEF StartInv
<1>3. link # <<>> /\ Head(link) = link[1]
  BY <1>2
<1> QED BY <1>1, <1>2, <1>3 DEF Attentive

LEMMA PageStart ==
    ASSUME TypeOK, StartInv, PageStep
    PROVE  StartInv'
<1>1. CASE HandleLine
  <2>1. link # <<>> /\ link' = Tail(link) /\ link \in Seq(Reports)
    BY <1>1 DEF HandleLine, TypeOK, CellTypeOK
  <2>2. \A i \in 1..Len(link') : i + 1 \in 1..Len(link) /\ link'[i] = link[i + 1]
    BY <2>1, StepTail
  <2>3. \A i \in 1..Len(link') : link'[i].what # "start"
    <3> SUFFICES ASSUME NEW i \in 1..Len(link'), link'[i].what = "start" PROVE FALSE
      OBVIOUS
    <3>1. i + 1 = 1
      BY <2>2 DEF StartInv
    <3> QED BY <3>1
  <2> QED BY <2>3 DEF StartInv
<1>2. CASE Disconnect
  <2>1. link' = <<>>
    BY <1>2 DEF Disconnect
  <2>2. Len(link') = 0
    BY <2>1
  <2> QED BY <2>2 DEF StartInv
<1>3. CASE Connect
  <2>1. UNCHANGED <<link, seq, due>> /\ mega' = "booting"
    BY <1>3 DEF Connect, Restarts, runVars
  <2> QED BY <2>1 DEF StartInv, Busy
<1>4. CASE ~HandleLine /\ ~Disconnect /\ ~Connect
  <2>1. UNCHANGED link
    BY <1>4, PressedSends DEF PageStep, Run, Operator, Buttons, Pressed, Advance, NextBlock, Check,
       Command, EndRun, SendStep, SendAwaited, StepDone, SleepEnds, Unwind, SendOwed, SendAll, StartRun,
       Stop, EmergencyStop, Timeout, NothingSent
  <2>2. ~StartUnread
    BY <1>4, StartRead
  <2> QED BY <2>1, <2>2 DEF StartInv, StartUnread
<1> QED BY <1>1, <1>2, <1>3, <1>4

\* A lowering on its way meets no closed lid, and a spin a closed one, unless the
\* closing line was thrown away or Start Spin had seen the lid opened again.
LowerInv == mega = "up" => \A m \in Pending : m.kind = "G1_B" => Guarded(m.id)
SpinInv == mega = "up" => \A m \in Pending : m.kind = "M750" => Shut(m.id) \/ blind
\* What the page takes the lid for is what the next line will meet.
TrackInv ==
    Reached =>
       /\ lidLast # "closed" => Guarded(All)
       /\ lidLast = "closed" => Shut(All) \/ StartUnread

LidInv == LowerInv /\ SpinInv /\ TrackInv

LEMMA MachineLid ==
    ASSUME Sound, CellInv, WaitInv, LidInv, Machine \/ Accidents
    PROVE  LidInv'
<1>0. /\ QueueTypeOK /\ QueueOrder /\ relative \in BOOLEAN /\ link \in Seq(Reports)
      /\ (Firmware \/ Accident) /\ UNCHANGED <<lidLast, blind, connected>>
  BY DEF Sound, TypeOK, CellTypeOK, Machine, Accidents, Firmware, Accident, runVars, trackVars
<1>1. CASE mega' # "up"
  BY <1>1 DEF LidInv, LowerInv, SpinInv, TrackInv, Reached
<1>2. CASE mega' = "up"
  <2>1. Firmware \/ PowerLoss
    BY <1>0, <1>2 DEF Accident, Die, Restarts
  <2>2. ~Boots => mega = "up"
    BY <1>2, <2>1, FirmwareSteps DEF PowerLoss, FetchLine, Ending, RotorStops, Die, Immediate, Beginning
  <2>3. ASSUME NEW m \in Pending', m.kind \notin Homes
        PROVE  /\ m \in Pending /\ m.id \in Nat
               /\ \A line \in Pending : line \in Pending' \/ line.id < m.id
               /\ ring # <<>> /\ ring[1].kind \in Homes => ring[1].id < m.id
    BY <1>0, <2>1, <2>3, StaysBehind
  <2>4. /\ All \in Nat /\ All' = All
        /\ \A line \in Pending : line \in Pending' \/ line.id < All
        /\ ring # <<>> /\ ring[1].kind \in Homes => ring[1].id < All
    BY <1>0, <2>1, StaysBehind
  <2>5. "G1_B" \notin Homes /\ "M750" \notin Homes
    BY DEF Homes
  <2>6. LowerInv'
    <3> SUFFICES ASSUME NEW m \in Pending', m.kind = "G1_B" PROVE Guarded(m.id)'
      BY DEF LowerInv
    <3>1. mega = "up" => Guarded(m.id)
      BY <2>3, <2>5 DEF LidInv, LowerInv
    <3> QED BY <1>0, <1>2, <2>1, <2>3, <2>5, <3>1, MachineGuarded
  <2>7. SpinInv'
    <3> SUFFICES ASSUME NEW m \in Pending', m.kind = "M750", ~blind PROVE Shut(m.id)'
      BY <1>0 DEF SpinInv
    <3>1. mega = "up" => Shut(m.id)
      BY <2>3, <2>5 DEF LidInv, SpinInv
    <3>2. ~Boots
      BY BootsEmpty
    <3> QED BY <1>0, <1>2, <2>1, <2>3, <2>5, <3>1, <3>2, MachineShut
  <2>8. TrackInv'
    <3> SUFFICES ASSUME connected
                 PROVE  /\ lidLast # "closed" => Guarded(All)'
                        /\ lidLast = "closed" => Shut(All)' \/ StartUnread'
      BY <1>0 DEF TrackInv, Reached
    <3> PICK n \in Nat : n = All
      BY <2>4
    <3>1. ASSUME lidLast # "closed" PROVE Guarded(All)'
      <4>1. mega = "up" => Guarded(n)
        BY <3>1 DEF LidInv, TrackInv, Reached
      <4>2. Guarded(n)'
        BY <1>0, <1>2, <2>1, <2>4, <4>1, MachineGuarded
      <4>3. All' = n
        BY <2>4
      <4> QED BY <4>2, <4>3 DEF Guarded, ClosedBy, NoHome
    <3>2. ASSUME lidLast = "closed", ~StartUnread' PROVE Shut(All)'
      <4>1. ~Boots /\ ~StartUnread
        BY <1>0, <3>2, LinkGrows
      <4>2. Shut(n) /\ mega = "up"
        BY <2>2, <3>2, <4>1 DEF LidInv, TrackInv, Reached
      <4>3. Shut(n)'
        BY <1>0, <1>2, <2>1, <2>4, <4>1, <4>2, MachineShut
      <4>4. All' = n
        BY <2>4
      <4> QED BY <4>3, <4>4 DEF Shut, ClosedBy, NoCloser
    <3> QED BY <3>1, <3>2
  <2> QED BY <2>6, <2>7, <2>8 DEF LidInv
<1> QED BY <1>1, <1>2

\* A lowering comes after a look at the lid, and a spin after the line that closes
\* it; no check is in flight.
LidPlan ==
    Active =>
       /\ \A i \in 1..Len(todo) :
             /\ todo[i] = "G1_B" =>
                   lidLast # "closed" \/ \E j \in 1..Len(todo) : j < i /\ todo[j] = "lid"
             /\ todo[i] = "M750" =>
                   lidLast = "closed" \/ \E j \in 1..Len(todo) : j < i /\ todo[j] = "M280_S115"
       /\ InFlight => todo[1] \notin Checks /\ (todo[1] = "M280_S115" => lidLast = "closed")

LEMMA CommandLidPlan ==
    ASSUME TypeOK, RunInv, WellPlanned(todo), LidPlan, Advance, Command
    PROVE  LidPlan'
<1>0. /\ todo # <<>> /\ todo[1] \in Kinds /\ todo \in Seq(StepKinds)
      /\ UNCHANGED todo /\ lidLast' = LidAfter(todo[1]) /\ Active
  BY DEF Command, Advance, SendStep, SendAwaited, RunInv, Active, TypeOK, StepKinds
<1>1. 1 \in 1..Len(todo) /\ \A i \in 1..Len(todo) : i = 1 \/ 1 < i
  BY <1>0
<1>2. todo[1] \notin Checks
  BY <1>0, WorkcellAssumption DEF Checks, AllKinds, Homes, Moves, Distances, Spins, On, Off
<1>3. CASE todo[1] = "M280_S115"
  <2>1. lidLast' = "closed"
    BY <1>0, <1>3, LidKinds DEF LidAfter, Homes
  <2>2. \A i \in 1..Len(todo) : todo[i] # "G1_B"
    BY <1>1, <1>3 DEF WellPlanned
  <2> QED BY <1>0, <1>2, <2>1, <2>2 DEF LidPlan
<1>4. CASE todo[1] \in Openers
  <2>1. lidLast' = "open" /\ todo[1] # "M280_S115"
    BY <1>0, <1>4, LidKinds DEF LidAfter, Openers
  <2>2. \A i \in 1..Len(todo) : todo[i] # "M750"
    <3> SUFFICES ASSUME NEW i \in 1..Len(todo), todo[i] = "M750" PROVE FALSE
      OBVIOUS
    <3>1. i # 1
      BY <1>4 DEF Openers, Homes
    <3> QED BY <1>1, <1>4, <3>1 DEF WellPlanned
  <2> QED BY <1>0, <1>2, <2>1, <2>2 DEF LidPlan
<1>5. CASE todo[1] \notin LidLines
  <2>1. lidLast' = lidLast /\ todo[1] # "M280_S115"
    BY <1>0, <1>5 DEF LidAfter, LidLines, Openers
  <2> QED BY <1>0, <1>2, <2>1 DEF LidPlan
<1> QED BY <1>3, <1>4, <1>5 DEF LidLines

LEMMA PageLidPlan ==
    ASSUME TypeOK, RunInv, WellPlanned(todo), LidPlan, PageStep
    PROVE  LidPlan'
<1>1. CASE Advance /\ Command
  BY <1>1, CommandLidPlan
<1>2. CASE ~(Advance /\ Command)
  <2> SUFFICES ASSUME Active' PROVE LidPlan'
    BY DEF LidPlan
  <2>1. CASE NewBlock /\ ~InFlight'
    BY <2>1, NewBlockPlanned DEF LidPlan, Fresh
  <2>2. CASE /\ Active /\ UNCHANGED <<mega, connected, lidLast>>
             /\ UNCHANGED todo /\ (InFlight' => InFlight)
    BY <2>2 DEF LidPlan
  <2>3. CASE /\ Active /\ UNCHANGED <<mega, connected, lidLast>>
             /\ todo # <<>> /\ todo' = Tail(todo) /\ ~InFlight'
             /\ \/ seq = "next" /\ todo[1] \in Checks /\ (todo[1] = "lid" => lidLast # "closed")
                \/ InFlight
    <3>1. /\ \A i \in 1..Len(todo') : i + 1 \in 1..Len(todo) /\ todo'[i] = todo[i + 1]
          /\ \A j \in 1..Len(todo) : j = 1 \/ (j - 1 \in 1..Len(todo') /\ todo'[j - 1] = todo[j])
      <4>1. /\ Len(todo') = Len(todo) - 1 /\ Len(todo) \in Nat \ {0}
            /\ \A i \in 1..Len(todo') : i + 1 \in 1..Len(todo) /\ todo'[i] = todo[i + 1]
        BY <2>3, StepTail DEF TypeOK
      <4>2. \A j \in 1..Len(todo) : j = 1 \/ (j - 1 \in 1..Len(todo') /\ (j - 1) + 1 = j)
        BY <4>1
      <4> QED BY <4>1, <4>2
    <3>2. todo[1] = "lid" => lidLast # "closed"
      BY <2>3 DEF LidPlan, Checks
    <3>3. todo[1] = "M280_S115" => lidLast = "closed"
      BY <2>3 DEF LidPlan, Checks
    <3>4. ASSUME NEW i \in 1..Len(todo'), todo'[i] = "G1_B", lidLast = "closed"
          PROVE  \E j \in 1..Len(todo') : j < i /\ todo'[j] = "lid"
      <4>1. i + 1 \in 1..Len(todo) /\ todo[i + 1] = "G1_B"
        BY <3>1, <3>4
      <4>2. PICK j \in 1..Len(todo) : j < i + 1 /\ todo[j] = "lid"
        BY <2>3, <3>4, <4>1 DEF LidPlan
      <4>3. j - 1 \in 1..Len(todo') /\ todo'[j - 1] = "lid" /\ j - 1 < i
        BY <3>1, <3>2, <3>4, <4>2
      <4> QED BY <4>3
    <3>5. ASSUME NEW i \in 1..Len(todo'), todo'[i] = "M750", lidLast # "closed"
          PROVE  \E j \in 1..Len(todo') : j < i /\ todo'[j] = "M280_S115"
      <4>1. i + 1 \in 1..Len(todo) /\ todo[i + 1] = "M750"
        BY <3>1, <3>5
      <4>2. PICK j \in 1..Len(todo) : j < i + 1 /\ todo[j] = "M280_S115"
        BY <2>3, <3>5, <4>1 DEF LidPlan
      <4>3. j - 1 \in 1..Len(todo') /\ todo'[j - 1] = "M280_S115" /\ j - 1 < i
        BY <3>1, <3>3, <3>5, <4>2
      <4> QED BY <4>3
    <3> QED BY <2>3, <3>4, <3>5 DEF LidPlan
  <2> QED BY <1>2, <2>1, <2>2, <2>3, RunGoesOn, Zenon
<1> QED BY <1>1, <1>2

\* Start Spin sends its M750 only while the port is open.
DueInv == due => connected

LEMMA PageDue == ASSUME DueInv, PageStep PROVE DueInv'
<1>1. CASE HandleLine \/ Connect
  BY <1>1 DEF HandleLine, Connect, DueInv
<1>2. CASE Disconnect
  BY <1>2 DEF Disconnect, RunKept, Busy, DueInv
<1>3. CASE Pressed
  <2>1. UNCHANGED connected
    BY <1>3, PressedSends
  <2> QED BY <1>3, <2>1 DEF Pressed, HomeAll, MoveButton, StartSpin, LidClosed, ButtonKept, DueInv
<1>4. CASE StartRun \/ Stop \/ EmergencyStop \/ Timeout
  BY <1>4 DEF StartRun, Stop, EmergencyStop, Timeout, SendAll, NothingSent, RunKept, DueInv
<1>5. CASE Advance \/ StepDone \/ SleepEnds \/ Unwind
  BY <1>5 DEF Advance, NextBlock, Check, Command, EndRun, SendStep, SendAwaited, StepDone, SleepEnds,
     Unwind, SendOwed, SendAll, NothingSent, DueInv
<1> QED BY <1>1, <1>2, <1>3, <1>4, <1>5 DEF PageStep, Run, Operator, Buttons, Pressed

\* A lowering is written only to an open lid and a spin to a closed one, and the
\* page takes the lid for what the last line of the lid makes of it.
LEMMA WriteLid ==
    ASSUME TypeOK, QueueOrder, LidInv, ~StartUnread, NEW kinds \in Seq(Kinds), Write(kinds),
           UNCHANGED connected, blind => blind',
           \A i \in 1..Len(kinds) :
              /\ kinds[i] \in {"G1_B", "M750"} =>
                    connected /\ \A j \in 1..Len(kinds) : j < i => kinds[j] \notin LidLines
              /\ kinds[i] = "G1_B" => lidLast # "closed"
              /\ kinds[i] = "M750" => lidLast = "closed" \/ blind',
           \/ UNCHANGED lidLast /\ \A i \in 1..Len(kinds) : kinds[i] \notin LidLines
           \/ \E j \in 1..Len(kinds) :
                 /\ kinds[j] \in LidLines /\ \A k \in 1..Len(kinds) : j < k => kinds[k] \notin LidLines
                 /\ lidLast' = "closed" <=> kinds[j] = "M280_S115"
    PROVE  LidInv'
<1>0. QueueTypeOK /\ UNCHANGED mega /\ Len(kinds) \in Nat /\ sent \in Nat /\ sent' = sent + Len(kinds)
  <2>1. QueueTypeOK
    BY DEF TypeOK, CellTypeOK
  <2> QED BY <2>1 DEF Write, QueueTypeOK
<1>1. CASE mega # "up"
  BY <1>0, <1>1 DEF LidInv, LowerInv, SpinInv, TrackInv, Reached
<1>2. CASE mega = "up"
  <2> DEFINE added(k) == rx'[Len(rx) + k]
  <2>1. /\ \A k \in 1..Len(kinds) : added(k).id = sent + k /\ added(k).kind = kinds[k]
        /\ \A m \in Pending' : m \in Pending \/ \E k \in 1..Len(kinds) : m = added(k)
    BY <1>0, <1>2, WritePending
  <2> HIDE DEF added
  <2>2. ASSUME NEW n \in Nat, n <= All
        PROVE  (Guarded(n) => Guarded(n)') /\ (Shut(n) => Shut(n)')
    BY <1>0, <1>2, <2>2, WriteLidOld
  <2>3. ASSUME NEW i \in 1..Len(kinds) + 1, NEW n, n = sent + i,
               \A j \in 1..Len(kinds) : j < i => kinds[j] \notin LidLines
        PROVE  (Guarded(All) => Guarded(n)') /\ (Shut(All) => Shut(n)')
    BY <1>0, <1>2, <2>3, WriteLidNext
  <2>4. \A m \in Pending : m.id \in Nat /\ m.id <= All
    BY <1>0, PendingLines
  <2>5. connected => (lidLast # "closed" => Guarded(All)) /\ (lidLast = "closed" => Shut(All))
    BY <1>2 DEF LidInv, TrackInv, Reached
  <2>6. LowerInv'
    <3> SUFFICES ASSUME NEW m \in Pending', m.kind = "G1_B" PROVE Guarded(m.id)'
      BY DEF LowerInv
    <3>1. CASE m \in Pending
      BY <1>2, <2>2, <2>4, <3>1 DEF LidInv, LowerInv
    <3>2. CASE m \notin Pending
      <4>1. PICK k \in 1..Len(kinds) : m.id = sent + k /\ kinds[k] = "G1_B"
        BY <2>1, <3>2
      <4>2. k \in 1..Len(kinds) + 1 /\ Guarded(All) /\ \A j \in 1..Len(kinds) : j < k => kinds[j] \notin LidLines
        BY <1>0, <2>5, <4>1
      <4> PICK n : n = sent + k
        OBVIOUS
      <4>3. Guarded(n)'
        BY <2>3, <4>2
      <4> QED BY <4>1, <4>3
    <3> QED BY <3>1, <3>2
  <2>7. SpinInv'
    <3> SUFFICES ASSUME NEW m \in Pending', m.kind = "M750", ~blind' PROVE Shut(m.id)'
      BY DEF SpinInv
    <3>1. CASE m \in Pending
      BY <1>2, <2>2, <2>4, <3>1 DEF LidInv, SpinInv
    <3>2. CASE m \notin Pending
      <4>1. PICK k \in 1..Len(kinds) : m.id = sent + k /\ kinds[k] = "M750"
        BY <2>1, <3>2
      <4>2. k \in 1..Len(kinds) + 1 /\ Shut(All) /\ \A j \in 1..Len(kinds) : j < k => kinds[j] \notin LidLines
        BY <1>0, <2>5, <4>1
      <4> PICK n : n = sent + k
        OBVIOUS
      <4>3. Shut(n)'
        BY <2>3, <4>2
      <4> QED BY <4>1, <4>3
    <3> QED BY <3>1, <3>2
  <2>8. TrackInv'
    <3> SUFFICES ASSUME connected
                 PROVE  /\ lidLast' # "closed" => Guarded(All)'
                        /\ lidLast' = "closed" => Shut(All)'
      BY DEF TrackInv, Reached
    <3>1. CASE UNCHANGED lidLast /\ \A i \in 1..Len(kinds) : kinds[i] \notin LidLines
      <4> PICK i \in 1..Len(kinds) + 1 : i = Len(kinds) + 1
        BY <1>0
      <4> PICK n : n = sent + i
        OBVIOUS
      <4>1. (Guarded(All) => Guarded(n)') /\ (Shut(All) => Shut(n)')
        BY <2>3, <3>1
      <4>2. All' = n
        BY <1>0 DEF All
      <4>3. (Guarded(All)' <=> Guarded(n)') /\ (Shut(All)' <=> Shut(n)')
        BY <4>2 DEF Guarded, Shut, ClosedBy, NoHome, NoCloser
      <4> QED BY <2>5, <3>1, <4>1, <4>3
    <3>2. ASSUME NEW j \in 1..Len(kinds), kinds[j] \in LidLines,
                 \A k \in 1..Len(kinds) : j < k => kinds[k] \notin LidLines,
                 lidLast' = "closed" <=> kinds[j] = "M280_S115"
          PROVE  /\ lidLast' # "closed" => Guarded(All)'
                 /\ lidLast' = "closed" => Shut(All)'
      BY <1>0, <1>2, <3>2, WriteLidLine
    <3> QED BY <3>1, <3>2
  <2> QED BY <2>6, <2>7, <2>8 DEF LidInv
<1> QED BY <1>1, <1>2

LEMMA CommandLid ==
    ASSUME TypeOK, QueueOrder, RunInv, StartInv, LidPlan, LidInv, PageStep, Advance, Command
    PROVE  LidInv'
<1>0. /\ todo # <<>> /\ todo[1] \in Kinds /\ todo \in Seq(StepKinds) /\ Active /\ connected
      /\ UNCHANGED <<connected, blind>> /\ lidLast' = LidAfter(todo[1]) /\ Write(<<todo[1]>>)
  BY DEF Command, Advance, SendStep, SendAwaited, RunInv, Active, TypeOK, StepKinds
<1> PICK kinds \in Seq(Kinds) : kinds = <<todo[1]>>
  BY <1>0, OneLine
<1>1. Write(kinds) /\ \A i \in 1..Len(kinds) : i = 1 /\ kinds[i] = todo[1]
  BY <1>0
<1>2. 1 \in 1..Len(todo) /\ \A j \in 1..Len(todo) : ~(j < 1)
  BY <1>0
<1>3. ~StartUnread
  BY StartRead DEF Advance, HandleLine, Disconnect, Connect, Busy
<1>4. /\ todo[1] = "G1_B" => lidLast # "closed"
      /\ todo[1] = "M750" => lidLast = "closed"
  BY <1>0, <1>2 DEF LidPlan
<1>5. \A i, j \in 1..Len(kinds) : ~(j < i)
  BY <1>1
<1>6. CASE todo[1] \in LidLines
  <2>1. lidLast' = "closed" <=> todo[1] = "M280_S115"
    BY <1>0, <1>6, LidKinds DEF LidAfter, LidLines, Openers, Homes
  <2>2. 1 \in 1..Len(kinds)
    BY DEF LidLines
  <2> QED BY <1>0, <1>1, <1>3, <1>4, <1>5, <1>6, <2>1, <2>2, WriteLid
<1>7. CASE todo[1] \notin LidLines
  <2>1. UNCHANGED lidLast
    BY <1>0, <1>7 DEF LidAfter, LidLines, Openers
  <2> QED BY <1>0, <1>1, <1>3, <1>4, <1>5, <1>7, <2>1, WriteLid
<1> QED BY <1>6, <1>7

LEMMA PressedLid ==
    ASSUME TypeOK, QueueOrder, StartInv, DueInv, LidInv, PageStep, Pressed
    PROVE  LidInv'
<1>0. ~StartUnread /\ UNCHANGED connected
  <2>1. UNCHANGED <<connected, link>> /\ link \in Seq(Reports)
    BY PressedSends DEF TypeOK, CellTypeOK
  <2>2. link # <<>> => Tail(link) # link
    <3>1. link # <<>> => Len(Tail(link)) = Len(link) - 1 /\ Len(link) \in Nat
      BY <2>1, StepTail
    <3> QED BY <3>1
  <2>3. ~HandleLine /\ ~Disconnect /\ ~Connect
    BY <2>1, <2>2 DEF HandleLine, Disconnect, Connect
  <2> QED BY <2>1, <2>3, StartRead
<1>1. CASE HomeAll
  <2> PICK kinds \in Seq(Kinds) : kinds = <<"G28", "M118">>
    BY OneLine, KindsKnown
  <2>1. Write(kinds) /\ lidLast' = "open" /\ UNCHANGED blind
    BY <1>1 DEF HomeAll, SendAll, LidAfter, Homes, ButtonKept
  <2>2. /\ Len(kinds) = 2 /\ kinds[1] = "G28" /\ kinds[2] = "M118"
        /\ 1 \in 1..Len(kinds) /\ \A i \in 1..Len(kinds) : i = 1 \/ i = 2
    OBVIOUS
  <2>3. "G28" \in LidLines /\ "M118" \notin LidLines
    BY LidKinds DEF LidLines, Openers, Homes
  <2>4. \E j \in 1..Len(kinds) :
           /\ kinds[j] \in LidLines /\ \A k \in 1..Len(kinds) : j < k => kinds[k] \notin LidLines
           /\ lidLast' = "closed" <=> kinds[j] = "M280_S115"
    <3> WITNESS 1 \in 1..Len(kinds)
    <3> QED BY <2>1, <2>2, <2>3
  <2>5. \A i \in 1..Len(kinds) : kinds[i] \notin {"G1_B", "M750"}
    BY <2>2
  <2> QED BY <1>0, <2>1, <2>4, <2>5, WriteLid
<1>2. CASE StartSpin
  <2> PICK kinds \in Seq(Kinds) : kinds = <<"M280_S115">>
    BY OneLine, KindsKnown
  <2>1. Write(kinds) /\ lidLast' = "closed" /\ UNCHANGED blind
    BY <1>2, LidKinds DEF StartSpin, SendAwaited, LidAfter, Homes, ButtonKept
  <2>2. Len(kinds) = 1 /\ kinds[1] = "M280_S115" /\ 1 \in 1..Len(kinds) /\ \A i \in 1..Len(kinds) : i = 1
    OBVIOUS
  <2>3. \E j \in 1..Len(kinds) :
           /\ kinds[j] \in LidLines /\ \A k \in 1..Len(kinds) : j < k => kinds[k] \notin LidLines
           /\ lidLast' = "closed" <=> kinds[j] = "M280_S115"
    <3> WITNESS 1 \in 1..Len(kinds)
    <3> QED BY <2>1, <2>2 DEF LidLines
  <2>4. \A i \in 1..Len(kinds) : kinds[i] \notin {"G1_B", "M750"}
    BY <2>2
  <2> QED BY <1>0, <2>1, <2>3, <2>4, WriteLid
<1>3. CASE LidClosed
  <2> PICK kinds \in Seq(Kinds) : kinds = <<"M750">>
    BY OneLine, KindsKnown
  <2>1. Write(kinds) /\ UNCHANGED lidLast /\ blind' = (blind \/ lidLast # "closed") /\ connected
    BY <1>3 DEF LidClosed, SendAll, DueInv
  <2>2. Len(kinds) = 1 /\ kinds[1] = "M750" /\ \A i \in 1..Len(kinds) : i = 1
    OBVIOUS
  <2>3. "M750" \notin LidLines
    BY DEF LidLines, Openers, Homes
  <2> QED BY <1>0, <2>1, <2>2, <2>3, WriteLid
<1>4. ASSUME MoveButton, NEW kinds \in Seq(Kinds), Write(kinds),
             \A i \in 1..Len(kinds) : /\ kinds[i] \notin LidLines \cup {"M750"}
                                      /\ kinds[i] = "G1_B" => lidLast # "closed"
      PROVE  LidInv'
  <2>1. UNCHANGED <<lidLast, blind>> /\ connected
    BY <1>4 DEF MoveButton, ButtonKept, Free
  <2> QED BY <1>0, <1>4, <2>1, WriteLid
<1>5. CASE MoveButton
  <2>1. "G90" \notin LidLines /\ "G91" \notin LidLines /\ \A kind \in Moves : kind \notin LidLines \cup {"M750"}
    BY LidKinds DEF LidLines, Moves, Distances
  <2>2. "G1_B" \in Moves /\ "G1_B0" \in Moves /\ "G1_A" \in Moves
    BY DEF Moves, Distances
  <2>3. /\ <<"G90", "G1_B">> \in Seq(Kinds) /\ <<"G90", "G1_B0">> \in Seq(Kinds)
        /\ <<"G91", "G1_A", "G90">> \in Seq(Kinds)
    BY ButtonTypes DEF ButtonLines, MoveLines
  <2>4. CASE ~LidInTheWay /\ SendAll(<<"G90", "G1_B">>)
    <3>1. PICK kinds \in Seq(Kinds) : kinds = <<"G90", "G1_B">> /\ Write(kinds)
      BY <2>3, <2>4 DEF SendAll
    <3>2. lidLast # "closed" /\ \A i \in 1..Len(kinds) : kinds[i] = "G90" \/ kinds[i] = "G1_B"
      BY <2>4, <3>1 DEF LidInTheWay
    <3> QED BY <1>4, <1>5, <2>1, <2>2, <3>1, <3>2
  <2>5. CASE SendAll(<<"G90", "G1_B0">>)
    <3>1. PICK kinds \in Seq(Kinds) : kinds = <<"G90", "G1_B0">> /\ Write(kinds)
      BY <2>3, <2>5 DEF SendAll
    <3>2. \A i \in 1..Len(kinds) : kinds[i] = "G90" \/ kinds[i] = "G1_B0"
      BY <3>1
    <3> QED BY <1>4, <1>5, <2>1, <2>2, <3>1, <3>2
  <2>6. CASE SendAll(<<"G91", "G1_A", "G90">>)
    <3>1. PICK kinds \in Seq(Kinds) : kinds = <<"G91", "G1_A", "G90">> /\ Write(kinds)
      BY <2>3, <2>6 DEF SendAll
    <3>2. \A i \in 1..Len(kinds) : kinds[i] = "G90" \/ kinds[i] = "G91" \/ kinds[i] = "G1_A"
      BY <3>1
    <3> QED BY <1>4, <1>5, <2>1, <2>2, <3>1, <3>2
  <2> QED BY <1>5, <2>4, <2>5, <2>6 DEF MoveButton
<1> QED BY <1>1, <1>2, <1>3, <1>5 DEF Pressed

LEMMA SameLid ==
    ASSUME UNCHANGED <<rx, ring, running, sent, lid, known, lifted, thrown, mega>>
    PROVE  /\ LowerInv => LowerInv'
           /\ SpinInv /\ (blind => blind') => SpinInv'
           /\ (Guarded(All)' <=> Guarded(All)) /\ (Shut(All)' <=> Shut(All))
<1>1. Pending' = Pending /\ All' = All
  BY DEF Pending, All
<1>2. ASSUME NEW n PROVE (Guarded(n)' <=> Guarded(n)) /\ (Shut(n)' <=> Shut(n))
  <2>1. ClosedBy(n)' <=> ClosedBy(n)
    BY <1>1 DEF ClosedBy
  <2> QED BY <1>1, <2>1 DEF Guarded, Shut, NoHome, NoCloser, Stranded
<1>3. (Guarded(All)' <=> Guarded(All)) /\ (Shut(All)' <=> Shut(All))
  <2>1. ClosedBy(All)' <=> ClosedBy(All)
    BY <1>1 DEF ClosedBy
  <2> QED BY <1>1, <2>1 DEF Guarded, Shut, NoHome, NoCloser, Stranded
<1>4. LowerInv => LowerInv'
  BY <1>1, <1>2 DEF LowerInv
<1>5. SpinInv /\ (blind => blind') => SpinInv'
  BY <1>1, <1>2 DEF SpinInv
<1> QED BY <1>3, <1>4, <1>5

LEMMA HandleLid ==
    ASSUME TypeOK, StartInv, LidInv, HandleLine
    PROVE  LidInv'
<1>1. /\ link # <<>> /\ 1 \in 1..Len(link) /\ Head(link) = link[1]
      /\ UNCHANGED <<queueVars, mega, cellVars, thrown, connected, blind>>
  <2>1. link # <<>> /\ link \in Seq(Reports)
    BY DEF HandleLine, TypeOK, CellTypeOK
  <2>2. Len(link) \in Nat \ {0} /\ Head(link) = link[1]
    BY <2>1, StepTail
  <2> QED BY <2>1, <2>2 DEF HandleLine
<1>2. UNCHANGED <<rx, ring, running, sent, lid, known, lifted, thrown, mega>>
  BY <1>1 DEF queueVars, cellVars, posVars
<1>3. lidLast' = IF link[1].what = "start" THEN "unknown" ELSE lidLast
  BY <1>1 DEF HandleLine, FaultLine, MarkerLine, SpinLine, OkLine, trackVars
<1>4. TrackInv'
  <2> SUFFICES ASSUME Reached
               PROVE  /\ lidLast' # "closed" => Guarded(All)
                      /\ lidLast' = "closed" => Shut(All)
    BY <1>1, <1>2, SameLid DEF TrackInv, Reached
  <2>1. CASE link[1].what = "start"
    <3>1. Pending = {} /\ running = NoLine /\ Stranded
      BY <1>1, <2>1 DEF StartInv, Reached
    <3>2. Guarded(All)
      BY <3>1 DEF Guarded, NoHome, NoLine, Homes
    <3> QED BY <1>3, <2>1, <3>2
  <2>2. CASE link[1].what # "start"
    <3>1. ~StartUnread
      BY <2>2 DEF StartInv, StartUnread
    <3> QED BY <1>3, <2>2, <3>1 DEF LidInv, TrackInv
  <2> QED BY <2>1, <2>2
<1> QED BY <1>1, <1>2, <1>4, SameLid DEF LidInv

LEMMA PageLid ==
    ASSUME TypeOK, QueueOrder, RunInv, StartInv, DueInv, LidPlan, LidInv, PageStep
    PROVE  LidInv'
<1>1. CASE Advance /\ Command
  BY <1>1, CommandLid
<1>2. CASE Pressed
  BY <1>2, PressedLid
<1>3. CASE HandleLine
  BY <1>3, HandleLid
<1>4. CASE Connect
  BY <1>4 DEF Connect, Restarts, LidInv, LowerInv, SpinInv, TrackInv, Reached
<1>5. CASE /\ \/ (Advance /\ ~Command) \/ StepDone \/ SleepEnds \/ StartRun \/ Timeout \/ Disconnect
           /\ UNCHANGED <<queueVars, mega, cellVars, thrown>>
  <2>1. UNCHANGED <<rx, ring, running, sent, lid, known, lifted, thrown, mega>>
    BY <1>5 DEF queueVars, cellVars, posVars
  <2>2. UNCHANGED blind /\ (Disconnect \/ UNCHANGED <<lidLast, link, connected>>)
    BY <1>5 DEF Advance, NextBlock, Check, EndRun, StepDone, SleepEnds, StartRun, Timeout, Disconnect,
       NothingSent, RunKept, trackVars
  <2>3. TrackInv'
    BY <2>1, <2>2, SameLid DEF LidInv, TrackInv, Reached, StartUnread, Disconnect
  <2> QED BY <2>1, <2>2, <2>3, SameLid DEF LidInv
<1>6. ASSUME NEW kinds \in Seq(Kinds), Write(kinds),
             (Unwind /\ kinds = OwedLines) \/ (Stop /\ kinds = <<"M410">>) \/ (EmergencyStop /\ kinds = <<"M112">>)
      PROVE  LidInv'
  <2>1. \A i \in 1..Len(kinds) : kinds[i] \in Recoveries \cup {"M410", "M112"}
    BY <1>6, OwedKinds
  <2>2. \A kind \in Recoveries \cup {"M410", "M112"} : kind \notin LidLines \cup {"G1_B", "M750"}
    BY DEF Recoveries, Off, LidLines, Openers, Homes
  <2>3. UNCHANGED <<lidLast, connected, blind>>
    BY <1>6 DEF Unwind, SendOwed, SendAll, Stop, EmergencyStop, RunKept
  <2>4. ~StartUnread
    <3>1. ~HandleLine
      BY <1>6 DEF Unwind, Stop, EmergencyStop, SendOwed, SendAll, HandleLine
    <3>2. ~Disconnect /\ ~Connect
      BY <2>3 DEF Disconnect, Connect
    <3> QED BY <3>1, <3>2, StartRead
  <2> QED BY <1>6, <2>1, <2>2, <2>3, <2>4, WriteLid
<1> QED BY <1>1, <1>2, <1>3, <1>4, <1>5, <1>6, PageSends

LidPromise == WellPlanned(todo) /\ StartInv /\ DueInv /\ LidPlan /\ LidInv

LEMMA LidInit == Init => LidPromise
<1> SUFFICES ASSUME Init PROVE LidPromise
  OBVIOUS
<1>1. Len(link) = 0 /\ Len(todo) = 0 /\ ~due /\ mega = "booting" /\ seq = "idle"
  BY DEF Init, CellInit
<1>2. WellPlanned(todo)
  BY ModeInit
<1> QED BY <1>1, <1>2 DEF LidPromise, StartInv, DueInv, LidPlan, Active, LidInv, LowerInv, SpinInv,
     TrackInv, Reached

LEMMA LidStep ==
    ASSUME Sound, CellInv, WaitInv, LidPromise, [Next]_vars
    PROVE  LidPromise'
<1>1. /\ TypeOK /\ QueueOrder /\ RunInv
      /\ WellPlanned(todo) /\ StartInv /\ DueInv /\ LidPlan /\ LidInv
  BY DEF Sound, LidPromise
<1>2. CASE PageStep
  BY <1>1, <1>2, PlannedStep, PageStart, PageDue, PageLidPlan, PageLid DEF LidPromise
<1>3. ASSUME UNCHANGED <<todo, due, connected, seq, fault, lidLast>>
      PROVE  WellPlanned(todo)' /\ DueInv' /\ LidPlan'
  <2>1. \A steps : steps = todo => WellPlanned(steps)
    BY <1>1
  <2>2. LidPlan'
    BY <1>1, <1>3 DEF LidPlan, Active, InFlight
  <2> QED BY <1>1, <1>3, <2>1, <2>2 DEF DueInv, WellPlanned
<1>4. CASE Machine \/ Accidents
  <2>1. UNCHANGED <<todo, due, connected, seq, fault, lidLast>>
    BY <1>4 DEF Machine, Accidents, Firmware, Accident, trackVars, runVars
  <2> QED BY <1>1, <1>3, <1>4, <2>1, MachineStart, MachineLid DEF LidPromise
<1>5. CASE UNCHANGED vars
  <2>1. /\ UNCHANGED <<rx, ring, running, sent, lid, known, lifted, thrown, mega>>
        /\ UNCHANGED <<todo, due, connected, seq, fault, lidLast>> /\ UNCHANGED <<link, blind>>
    BY <1>5 DEF vars, machine, queueVars, cellVars, posVars, trackVars, runVars
  <2>2. LidInv'
    BY <1>1, <2>1, SameLid DEF LidInv, TrackInv, Reached, StartUnread
  <2>3. StartInv'
    BY <1>1, <2>1 DEF StartInv, Busy, Pending, Stranded
  <2> QED BY <1>3, <2>1, <2>2, <2>3 DEF LidPromise
<1> QED BY <1>2, <1>4, <1>5 DEF Next, PageStep

LEMMA SoundHolds == Spec => []Sound
<1>1. Init => Sound
  BY SoundInit
<1>2. Sound /\ [Next]_vars => Sound'
  BY SoundStep
<1> QED BY <1>1, <1>2, PTL DEF Spec

\* What the page takes the lid for is what the next line finds, and the lowerings
\* and spins on their way will find the lid as they need it.
THEOREM LidTracked == Spec => [](StartInv /\ LidPlan /\ LidInv)
<1> DEFINE I == Sound /\ CellInv /\ WaitInv /\ LidPromise
<1>1. Init => I
  BY SoundInit, KnownInit, WaitInit, LidInit DEF KnownInv
<1>2. I /\ [Next]_vars => I'
  BY SoundStep, CellStep, WaitStep, LidStep
<1>3. I => StartInv /\ LidPlan /\ LidInv
  BY DEF LidPromise
<1> QED BY <1>1, <1>2, <1>3, PTL DEF Spec

\* The nozzle is never lowered into a closed lid: what the page takes the lid for
\* is good enough, whichever way a run before left it (#191).
THEOREM LowersHeld == Spec => LowersUnderOpenLid
<1> DEFINE I == Sound /\ LidInv
           Kept == CarriesOut(Moves) => known \/ lifted
           Goal == CarriesOut({"G1_B"}) => lid = "open"
<1>1. ASSUME I, [Next]_vars, Kept, CarriesOut({"G1_B"}) PROVE lid = "open"
  <2>1. running' # running /\ running'.kind = "G1_B" /\ "G1_B" \in Moves
    BY <1>1 DEF CarriesOut, Moves
  <2>2. mega = "up" /\ ring # <<>> /\ running' = ring[1]
    BY <1>1, <2>1, MoveStarts DEF Sound
  <2>3. QueueTypeOK /\ QueueOrder /\ relative \in BOOLEAN /\ lid \in {"open", "closed"}
    BY <1>1 DEF Sound, TypeOK, CellTypeOK
  <2>4. ring[1] \in Pending /\ (ClosedBy(ring[1].id) <=> lid = "closed")
    BY <2>2, <2>3, FirstMeets
  <2>5. Guarded(ring[1].id) /\ (known \/ lifted)
    BY <1>1, <2>1, <2>2, <2>4 DEF LidInv, LowerInv, CarriesOut
  <2> QED BY <2>3, <2>4, <2>5 DEF Guarded, Stranded
<1>2. I /\ [Next]_vars /\ [Kept]_vars => [Goal]_vars
  BY <1>1
<1> QED BY <1>2, SoundHolds, LidTracked, KnownMoves, PTL DEF Spec, MovesOnKnownAxes, LowersUnderOpenLid

\* The chuck never starts with the lid open, unless the firmware threw the closing
\* line away unread, or Start Spin heard the ok of its lid after a homing was sent.
THEOREM SpinsHeld == Spec => SpinsUnderClosedLid
<1> DEFINE I == Sound /\ LidInv
           Goal == CarriesOut({"M750"}) => lid = "closed" \/ "M280_S115" \in thrown \/ blind
<1>1. ASSUME I, [Next]_vars, CarriesOut({"M750"})
      PROVE  lid = "closed" \/ "M280_S115" \in thrown \/ blind
  <2>1. running' # running /\ running'.kind = "M750" /\ running' # NoLine
    BY <1>1 DEF CarriesOut, NoLine
  <2>2. mega = "up" /\ ring # <<>> /\ running' = ring[1]
    BY <1>1, <2>1, LineStarts DEF Sound
  <2>3. QueueTypeOK /\ QueueOrder /\ relative \in BOOLEAN
    BY <1>1 DEF Sound, TypeOK, CellTypeOK
  <2>4. ring[1] \in Pending /\ (ClosedBy(ring[1].id) <=> lid = "closed")
    BY <2>2, <2>3, FirstMeets
  <2>5. Shut(ring[1].id) \/ blind
    BY <1>1, <2>1, <2>2, <2>4 DEF LidInv, SpinInv
  <2> QED BY <2>4, <2>5 DEF Shut
<1>2. I /\ [Next]_vars => [Goal]_vars
  BY <1>1
<1> QED BY <1>2, SoundHolds, LidTracked, PTL DEF Spec, SpinsUnderClosedLid

-----------------------------------------------------------------------------
(* The chuck under the lid.                                                  *)

Markers == {"spin", "homing", "indexed", "complete"}
\* The marker from which the page takes a cycle for ended, and those that take it back.
Concludes(kind) == IF kind = "M752" THEN "indexed" ELSE "complete"
Revokes(kind) == IF kind = "M752" THEN {"homing"} ELSE {"spin", "homing", "indexed"}

\* Once it has read the link, the page will take the chuck to have stopped.
Tells(kind) ==
    \/ \E i \in 1..Len(link) :
          /\ link[i].what = Concludes(kind)
          /\ \A j \in 1..Len(link) : i < j => link[j].what \notin Revokes(kind)
    \/ verdict = "complete" /\ \A j \in 1..Len(link) : link[j].what \notin Revokes(kind)

\* No spin is with its handler or on its way, and none is to come of a Start Spin.
NoSpin == running.kind \notin Spins /\ \A line \in Pending : line.kind \notin Spins
Unspun == \A k \in 1..Len(ledger) : ledger[k] # -1
Clean == ~due /\ Unspun

Silent(s) == \A i \in 1..Len(s) : s[i].what \notin Markers
Mute(s) == \A i \in 1..Len(s) : s[i].what \notin Markers \cup {"ok"}

\* An ok on the link is that of a line that has ended.
LinkIds ==
    \A i \in 1..Len(link) : link[i].what = "ok" =>
       link[i].id < lastStarted \/ (link[i].id = lastStarted /\ running = NoLine)

\* The line that is waited for is the step in flight, and a Start Spin that is
\* still to be heard was sent before it.
EntryInv ==
    /\ \A k \in 1..Len(ledger) : ledger[k] <= sent
    /\ waiter # 0 => waiter <= sent /\ ~fault
    /\ seq = "waiting" => waiter # 0
    /\ waiter # 0 => \A line \in Pending : line.id = waiter => line.kind = todo[1]
    /\ waiter # 0 =>
          \A k, m \in 1..Len(ledger) : ledger[k] = -1 /\ ledger[m] = waiter => k < m
    /\ seq = "answered" /\ ~fault => Unspun

\* A spin has a command before it in its block.
Soft(steps) ==
    \A i \in 1..Len(steps) : steps[i] \in Spins =>
       \E j \in 1..Len(steps) : j < i /\ steps[j] \in Kinds \ Spins

\* A run spins only when no Start Spin is outstanding: the ok of an earlier command
\* of its block comes after that of the Start Spin.
CleanInv ==
    Active =>
       /\ Clean \/ Soft(todo)
       /\ spun => Clean
       /\ InFlight /\ todo[1] \in Spins => spun
       /\ seq = "waiting" /\ todo[1] \in Spins => sent = waiter

Awake == mega = "up" /\ ~StartUnread
Spinning == InFlight /\ todo[1] \in Spins

\* While the line that turns the chuck is waited for, a chuck that may still turn
\* does not look stopped, and behind the ok of that line there is no marker.
TurnInv(kind) ==
    /\ rotor = "turning" => ~Tells(kind)
    /\ \A i, j \in 1..Len(link) :
          link[i].what = "ok" /\ link[i].id = sent /\ i < j => link[j].what \notin Markers

\* Between its spins the chuck of a run that spun is at rest, and after one what
\* the page takes it for cannot change any more.
ChuckInv ==
    Active /\ ~misheard /\ spun /\ Awake =>
       /\ ~Spinning => rotor = "rest" /\ NoSpin
       /\ Spinning /\ seq = "answered" =>
             NoSpin /\ Silent(link) /\ (verdict = "complete" => rotor = "rest")
       /\ Spinning /\ seq = "waiting" /\ lastStarted = sent => TurnInv(todo[1])

\* What the firmware does with its lines and the chuck, and what it prints of it.
LEMMA FirmwareTells ==
    ASSUME QueueTypeOK, QueueOrder, Firmware \/ PowerLoss \/ Die, ~Boots
    PROVE  \/ /\ UNCHANGED <<running, lastStarted>> /\ Mute(printed')
              /\ UNCHANGED rotor \/ rotor' = "rest"
           \/ \E line : /\ Dispatch(line) /\ line.kind \notin Spins
                        /\ running' = NoLine /\ UNCHANGED rotor
                        /\ \E reports \in Seq(Reports) :
                              Mute(reports) /\ printed' = Append(reports, Ok(line))
           \/ \E line : Beginning(line)
           \/ /\ link = <<>> /\ running # NoLine /\ running' = NoLine /\ UNCHANGED lastStarted
              /\ \E reports \in Seq(Reports) :
                    /\ \A i \in 1..Len(reports) : reports[i].what # "ok"
                    /\ printed' = Append(reports, Ok(running))
                    /\ \/ reports = <<>> /\ UNCHANGED rotor
                       \/ running.kind \in Spins /\ rotor' = "rest"
<1>0. Mute(<<>>) /\ \A what \in {"lost", "halted", "refused", "marker"} : Mute(Report(what))
  <2>1. Len(<<>>) = 0
    OBVIOUS
  <2>2. ASSUME NEW what \in {"lost", "halted", "refused", "marker"} PROVE Mute(Report(what))
    <3>1. Len(Report(what)) = 1 /\ Report(what)[1].what = what
      BY DEF Report
    <3>2. \A i \in 1..Len(Report(what)) : i = 1
      BY <3>1
    <3> QED BY <2>2, <3>1, <3>2 DEF Mute, Markers
  <2> QED BY <2>1, <2>2 DEF Mute
<1>1. CASE FetchLine \/ RotorStops
  BY <1>0, <1>1 DEF FetchLine, Fetch, RotorStops, Quiet, queueVars, cellVars
<1>2. CASE Die \/ PowerLoss
  BY <1>0, <1>2 DEF Die, PowerLoss, queueVars
<1>3. ASSUME NEW line, Immediate(line)
      PROVE  /\ Dispatch(line) /\ line.kind \notin Spins
             /\ running' = NoLine /\ UNCHANGED rotor
             /\ \E reports \in Seq(Reports) :
                   Mute(reports) /\ printed' = Append(reports, Ok(line))
  <2>1. Report("refused") \in Seq(Reports) /\ Report("marker") \in Seq(Reports) /\ <<>> \in Seq(Reports)
    BY ReportTypes
  <2>2. \E reports \in Seq(Reports) : Mute(reports) /\ Done(line, reports)
    BY <1>0, <1>3, <2>1 DEF Immediate, Refuse, SwitchRelay, SetMode, MoveLid, Remark
  <2>3. line.kind \notin Spins
    BY <1>3 DEF Immediate, Refuse, SwitchRelay, SetMode, MoveLid, Remark, Spins, Moves, Distances,
       Relays, On, Off
  <2>4. UNCHANGED rotor
    BY <1>3 DEF Immediate, Refuse, SwitchRelay, SetMode, MoveLid, Remark, cellVars
  <2> QED BY <2>2, <2>3, <2>4 DEF Done, Return
<1>4. CASE Ending
  <2>1. /\ <<>> \in Seq(Reports) /\ Report("indexed") \in Seq(Reports)
        /\ Report("complete") \in Seq(Reports) /\ Search \o Report("complete") \in Seq(Reports)
    BY ReportTypes
  <2>2. /\ \A i \in 1..Len(Report("indexed")) : Report("indexed")[i].what # "ok"
        /\ \A i \in 1..Len(Report("complete")) : Report("complete")[i].what # "ok"
        /\ \A i \in 1..Len(<<>>) : <<>>[i].what # "ok"
    <3>1. /\ Len(Report("indexed")) = 1 /\ Report("indexed")[1].what = "indexed"
          /\ Len(Report("complete")) = 1 /\ Report("complete")[1].what = "complete"
          /\ Len(<<>>) = 0
      BY DEF Report
    <3> QED BY <3>1
  <2>3. \A i \in 1..Len(Search \o Report("complete")) : (Search \o Report("complete"))[i].what # "ok"
    <3>1. Search \o Report("complete") \in Seq(Calm)
      BY CalmReports
    <3>2. \A i \in 1..Len(Search \o Report("complete")) : (Search \o Report("complete"))[i] \in Calm
      BY <3>1, ElementOfSeq
    <3> QED BY <3>2 DEF Calm
  <2>4. running # NoLine /\ UNCHANGED lastStarted
    BY <1>4, EndingQueue
  <2>5. CASE MoveEnds \/ HomingEnds
    BY <2>1, <2>2, <2>4, <2>5 DEF MoveEnds, HomingEnds, Ended, Return, TimePasses, cellVars
  <2>6. CASE SpinEnds
    <3>1. \E reports \in Seq(Reports) :
             /\ \A i \in 1..Len(reports) : reports[i].what # "ok"
             /\ Ended(reports)
             /\ \/ reports = <<>> /\ UNCHANGED rotor
                \/ running.kind \in Spins /\ rotor' = "rest"
      BY <2>1, <2>2, <2>3, <2>6 DEF SpinEnds
    <3> QED BY <2>4, <3>1 DEF Ended, Return, TimePasses
  <2> QED BY <1>4, <2>5, <2>6 DEF Ending
<1> QED BY <1>1, <1>2, <1>3, <1>4, FirmwareSteps

\* What is printed is read behind what is on the link already.
LEMMA LinkAppends ==
    ASSUME link \in Seq(Reports), NEW s \in Seq(Reports), link' = link \o s
    PROVE  /\ Len(link') = Len(link) + Len(s) /\ Len(link) \in Nat /\ Len(s) \in Nat
           /\ \A i \in 1..Len(link) : i \in 1..Len(link') /\ link'[i] = link[i]
           /\ \A i \in 1..Len(link') : i > Len(link) =>
                 i - Len(link) \in 1..Len(s) /\ link'[i] = s[i - Len(link)]
<1>1. /\ Len(link') = Len(link) + Len(s) /\ Len(link) \in Nat /\ Len(s) \in Nat
      /\ \A i \in 1..Len(link') : link'[i] = IF i <= Len(link) THEN link[i] ELSE s[i - Len(link)]
  BY ConcatProperties
<1> QED BY <1>1

LEMMA SilentTells ==
    ASSUME link \in Seq(Reports), NEW s \in Seq(Reports), link' = link \o s, Silent(s),
           UNCHANGED verdict, NEW kind, Tells(kind)'
    PROVE  Tells(kind)
<1>1. /\ Len(link') = Len(link) + Len(s) /\ Len(link) \in Nat /\ Len(s) \in Nat
      /\ \A i \in 1..Len(link) : i \in 1..Len(link') /\ link'[i] = link[i]
      /\ \A i \in 1..Len(link') : i > Len(link) =>
            i - Len(link) \in 1..Len(s) /\ link'[i] = s[i - Len(link)]
  BY LinkAppends
<1>2. Concludes(kind) \in Markers
  BY DEF Concludes, Markers
<1>3. CASE \E i \in 1..Len(link') :
              /\ link'[i].what = Concludes(kind)
              /\ \A j \in 1..Len(link') : i < j => link'[j].what \notin Revokes(kind)
  <2>1. PICK i \in 1..Len(link') :
              /\ link'[i].what = Concludes(kind)
              /\ \A j \in 1..Len(link') : i < j => link'[j].what \notin Revokes(kind)
    BY <1>3
  <2>2. ~(i > Len(link))
    BY <1>1, <1>2, <2>1 DEF Silent
  <2>3. i \in 1..Len(link) /\ link[i].what = Concludes(kind)
    BY <1>1, <2>1, <2>2
  <2>4. \A j \in 1..Len(link) : i < j => link[j].what \notin Revokes(kind)
    BY <1>1, <2>1
  <2> QED BY <2>3, <2>4 DEF Tells
<1>4. CASE verdict' = "complete" /\ \A j \in 1..Len(link') : link'[j].what \notin Revokes(kind)
  <2>1. \A j \in 1..Len(link) : link[j].what \notin Revokes(kind)
    BY <1>1, <1>4
  <2> QED BY <1>4, <2>1 DEF Tells
<1> QED BY <1>3, <1>4 DEF Tells

\* The marker with which a cycle begins takes back all that was printed before.
LEMMA RevokedTells ==
    ASSUME link \in Seq(Reports), NEW kind, NEW what \in Revokes(kind), what # Concludes(kind),
           Report(what) \in Seq(Reports), link' = link \o Report(what)
    PROVE  ~Tells(kind)'
<1>1. /\ Len(link') = Len(link) + Len(Report(what)) /\ Len(link) \in Nat
      /\ \A i \in 1..Len(link') : i > Len(link) =>
            i - Len(link) \in 1..Len(Report(what)) /\ link'[i] = Report(what)[i - Len(link)]
  BY LinkAppends
<1>2. Len(Report(what)) = 1 /\ Report(what)[1].what = what
  BY DEF Report
<1> DEFINE n == Len(link')
<1>3. n = Len(link) + 1 /\ n \in 1..n /\ n - Len(link) = 1
  BY <1>1, <1>2
<1>4. link'[n].what = what
  BY <1>1, <1>2, <1>3
<1>5. \A i \in 1..n : i = n \/ i < n
  BY <1>3
<1> QED BY <1>3, <1>4, <1>5 DEF Tells

\* What the page will conclude does not depend on how far it has read.
LEMMA ReadTells ==
    ASSUME link \in Seq(Reports), link # <<>>, link' = Tail(link), NEW kind,
           \/ /\ Head(link).what \notin Markers
              /\ UNCHANGED verdict
           \/ verdict' = CASE verdict = "none" -> "none"
                           [] kind = "M752" -> IndexRx(Head(link).what)
                           [] OTHER -> LidRx(Head(link).what),
           Tells(kind)'
    PROVE  Tells(kind)
<1>1. /\ Len(link') = Len(link) - 1 /\ Len(link) \in Nat \ {0} /\ Head(link) = link[1]
      /\ \A i \in 1..Len(link') : i + 1 \in 1..Len(link) /\ link'[i] = link[i + 1]
  BY StepTail
<1>2. \A j \in 1..Len(link) : j = 1 \/ (j - 1 \in 1..Len(link') /\ link'[j - 1] = link[j])
  <2> TAKE j \in 1..Len(link)
  <2>1. j = 1 \/ (j - 1 \in 1..Len(link') /\ (j - 1) + 1 = j)
    BY <1>1
  <2> QED BY <1>1, <2>1
<1>3. CASE \E i \in 1..Len(link') :
              /\ link'[i].what = Concludes(kind)
              /\ \A j \in 1..Len(link') : i < j => link'[j].what \notin Revokes(kind)
  <2>1. PICK i \in 1..Len(link') :
              /\ link'[i].what = Concludes(kind)
              /\ \A j \in 1..Len(link') : i < j => link'[j].what \notin Revokes(kind)
    BY <1>3
  <2>2. i + 1 \in 1..Len(link) /\ link[i + 1].what = Concludes(kind)
    BY <1>1, <2>1
  <2>3. ASSUME NEW j \in 1..Len(link), i + 1 < j PROVE link[j].what \notin Revokes(kind)
    <3>1. j - 1 \in 1..Len(link') /\ link'[j - 1] = link[j] /\ i < j - 1
      BY <1>2, <2>3
    <3> QED BY <2>1, <3>1
  <2> QED BY <2>2, <2>3 DEF Tells
<1>4. CASE verdict' = "complete" /\ \A j \in 1..Len(link') : link'[j].what \notin Revokes(kind)
  <2>1. \A j \in 1..Len(link) : 1 < j => link[j].what \notin Revokes(kind)
    BY <1>2, <1>4
  <2>2. 1 \in 1..Len(link)
    BY <1>1
  <2>3. \/ link[1].what = Concludes(kind)
        \/ verdict = "complete" /\ link[1].what \notin Revokes(kind)
    BY <1>1, <1>4 DEF Concludes, Revokes, Markers, IndexRx, LidRx
  <2>4. \A j \in 1..Len(link) : j = 1 \/ 1 < j
    BY <1>1
  <2> QED BY <2>1, <2>2, <2>3, <2>4 DEF Tells
<1> QED BY <1>3, <1>4 DEF Tells

LEMMA MachineLinkIds ==
    ASSUME Sound, CellInv, LinkIds, Machine \/ Accidents
    PROVE  LinkIds'
<1>0. QueueTypeOK /\ QueueOrder /\ link \in Seq(Reports) /\ (Firmware \/ Accident)
  BY DEF Sound, TypeOK, CellTypeOK, Machine, Accidents
<1>1. CASE ~connected
  <2>1. link' = <<>>
    BY <1>0, <1>1 DEF Firmware, Accident, Transmit
  <2>2. Len(link') = 0
    BY <2>1
  <2> QED BY <2>2 DEF LinkIds
<1>2. CASE connected /\ Boots
  <2>1. link' = <<[what |-> "start", id |-> 0]>>
    BY <1>0, <1>2, LinkGrows DEF Report
  <2>2. \A i \in 1..Len(link') : link'[i].what = "start"
    BY <2>1
  <2> QED BY <2>2 DEF LinkIds
<1>3. CASE connected /\ ~Boots
  <2>1. link' = link \o printed' /\ printed' \in Seq(Reports)
    BY <1>0, <1>3, FirmwareQueue, AccidentQueue DEF Firmware, Accident, Transmit, QueueTypeOK
  <2>2. /\ \A i \in 1..Len(link) : i \in 1..Len(link') /\ link'[i] = link[i]
        /\ \A i \in 1..Len(link') : i > Len(link) =>
              i - Len(link) \in 1..Len(printed') /\ link'[i] = printed'[i - Len(link)]
        /\ \A i \in 1..Len(link') : i > Len(link) \/ i \in 1..Len(link)
    BY <2>1, LinkAppends
  <2>3. /\ \A i \in 1..Len(link) : link[i].id \in Nat
        /\ lastStarted \in Nat /\ lastStarted' \in Nat /\ running.id \in Nat
    <3>1. \A i \in 1..Len(link) : link[i] \in Reports
      BY <1>0, ElementOfSeq
    <3> QED BY <1>0, <3>1, FirmwareQueue, AccidentQueue, LineTypes DEF Reports, QueueTypeOK
  <2>4. SUFFICES ASSUME \/ lastStarted' > lastStarted
                        \/ lastStarted' = lastStarted /\ (running = NoLine => running' = NoLine),
                        \A i \in 1..Len(printed') : printed'[i].what = "ok" =>
                           printed'[i].id = lastStarted' /\ running' = NoLine
                 PROVE  LinkIds'
    <3>1. CASE Restarts
      <4>1. /\ lastStarted' = lastStarted /\ running' = NoLine /\ printed' = <<>>
        BY <3>1 DEF Restarts, Quiet
      <4>2. Len(printed') = 0
        BY <4>1
      <4> QED BY <2>4, <4>1, <4>2
    <3>2. CASE ~Restarts
      <4>1. Firmware \/ PowerLoss \/ Die
        BY <1>0, <3>2 DEF Accident
      <4>2. CASE UNCHANGED <<running, lastStarted>> /\ Mute(printed')
        BY <2>4, <4>2 DEF Mute
      <4>3. ASSUME NEW line, Dispatch(line), running' = NoLine,
                   NEW reports \in Seq(Reports), \A i \in 1..Len(reports) : reports[i].what # "ok",
                   printed' = Append(reports, Ok(line))
            PROVE  LinkIds'
        <5>1. lastStarted' = line.id /\ lastStarted < line.id
          BY <1>0, <4>3, DispatchedLine
        <5>2. \A i \in 1..Len(printed') : printed'[i] = Ok(line) \/ printed'[i].what # "ok"
          BY <4>3
        <5> QED BY <2>3, <2>4, <4>3, <5>1, <5>2 DEF Ok
      <4>4. ASSUME NEW line, Beginning(line) PROVE LinkIds'
        <5>1. lastStarted' = line.id /\ lastStarted < line.id
          BY <1>0, <4>4, DispatchedLine DEF Beginning, Begin
        <5>2. \A i \in 1..Len(printed') : printed'[i].what # "ok"
          <6>1. printed' = <<>> \/ \E what \in {"spin", "homing"} : printed' = Report(what)
            BY <4>4 DEF Beginning, Begin
          <6>2. Len(<<>>) = 0
            OBVIOUS
          <6>3. ASSUME NEW what \in {"spin", "homing"}, printed' = Report(what)
                PROVE  \A i \in 1..Len(printed') : printed'[i].what # "ok"
            BY <6>3 DEF Report
          <6> QED BY <6>1, <6>2, <6>3
        <5> QED BY <2>3, <2>4, <5>1, <5>2
      <4>5. ASSUME running # NoLine, running' = NoLine, UNCHANGED lastStarted,
                   NEW reports \in Seq(Reports), \A i \in 1..Len(reports) : reports[i].what # "ok",
                   printed' = Append(reports, Ok(running))
            PROVE  LinkIds'
        <5>1. running.id = lastStarted
          BY <1>0, <4>5, LineTypes DEF QueueOrder, QueueTypeOK
        <5>2. \A i \in 1..Len(printed') : printed'[i] = Ok(running) \/ printed'[i].what # "ok"
          BY <4>5
        <5> QED BY <2>4, <4>5, <5>1, <5>2 DEF Ok
      <4> QED BY <1>0, <1>3, <4>1, <4>2, <4>3, <4>4, <4>5, FirmwareTells DEF Mute
    <3> QED BY <3>1, <3>2
  <2> SUFFICES ASSUME NEW i \in 1..Len(link'), link'[i].what = "ok"
               PROVE  link'[i].id < lastStarted' \/ (link'[i].id = lastStarted' /\ running' = NoLine)
    BY DEF LinkIds
  <2>5. CASE i > Len(link)
    BY <2>2, <2>4, <2>5
  <2>6. CASE i \in 1..Len(link)
    <3>1. link[i].what = "ok" /\ link'[i] = link[i]
      BY <2>2, <2>6
    <3>2. link[i].id < lastStarted \/ (link[i].id = lastStarted /\ running = NoLine)
      BY <2>6, <3>1 DEF LinkIds
    <3> QED BY <2>3, <2>4, <2>6, <3>1, <3>2
  <2> QED BY <2>2, <2>5, <2>6
<1> QED BY <1>1, <1>2, <1>3

LEMMA PageLinkIds ==
    ASSUME TypeOK, LinkIds, PageStep
    PROVE  LinkIds'
<1>1. UNCHANGED <<lastStarted, running>> \/ (UNCHANGED lastStarted /\ running' = NoLine)
  BY PageEffect DEF PageWrites, Write, PageQuiet, queueVars, Restarts
<1>2. UNCHANGED link \/ link' = <<>> \/ (link # <<>> /\ link' = Tail(link))
  <2>1. CASE HandleLine
    BY <2>1 DEF HandleLine
  <2>2. CASE Disconnect \/ Connect
    BY <2>2 DEF Disconnect, Connect
  <2>3. CASE Advance \/ StepDone \/ SleepEnds \/ Unwind \/ StartRun \/ Stop \/ EmergencyStop \/ Timeout
    BY <2>3 DEF Advance, NextBlock, Check, Command, EndRun, StepDone, SleepEnds, Unwind, SendOwed,
       SendAll, SendStep, SendAwaited, StartRun, Stop, EmergencyStop, Timeout, NothingSent
  <2>4. CASE Pressed
    BY <2>4, PressedSends
  <2> QED BY <2>1, <2>2, <2>3, <2>4 DEF PageStep, Run, Operator, Buttons, Pressed
<1>3. \A i \in 1..Len(link') : \E j \in 1..Len(link) : link'[i] = link[j]
  <2>1. CASE UNCHANGED link
    BY <2>1
  <2>2. CASE link' = <<>>
    <3>1. Len(link') = 0
      BY <2>2
    <3> QED BY <3>1
  <2>3. CASE link # <<>> /\ link' = Tail(link)
    <3>1. link \in Seq(Reports)
      BY DEF TypeOK, CellTypeOK
    <3>2. \A i \in 1..Len(link') : i + 1 \in 1..Len(link) /\ link'[i] = link[i + 1]
      BY <2>3, <3>1, StepTail
    <3> QED BY <3>2
  <2> QED BY <1>2, <2>1, <2>2, <2>3
<1> SUFFICES ASSUME NEW i \in 1..Len(link'), link'[i].what = "ok"
             PROVE  link'[i].id < lastStarted' \/ (link'[i].id = lastStarted' /\ running' = NoLine)
  BY DEF LinkIds
<1>4. PICK j \in 1..Len(link) : link'[i] = link[j]
  BY <1>3
<1>5. link[j].id < lastStarted \/ (link[j].id = lastStarted /\ running = NoLine)
  BY <1>4 DEF LinkIds
<1> QED BY <1>1, <1>4, <1>5

\* The lines on their way only become fewer by what the machine does.
LEMMA MachineShrinks ==
    ASSUME Sound, CellInv, WaitInv, Machine \/ Accidents
    PROVE  UNCHANGED sent /\ Pending' \in SUBSET Pending
<1>0. QueueTypeOK /\ QueueOrder
  BY DEF Sound, TypeOK, CellTypeOK
<1>1. CASE Firmware \/ PowerLoss
  BY <1>0, <1>1, MachineLeaves
<1>2. CASE Restarts
  <2>1. rx' = <<>> /\ ring' = <<>> /\ UNCHANGED sent /\ Len(<<>>) = 0
    BY <1>2 DEF Restarts
  <2>2. Pending' = {}
    BY <2>1 DEF Pending
  <2> QED BY <2>1, <2>2
<1>3. CASE Die
  BY <1>3 DEF Die, queueVars, Pending
<1> QED BY <1>1, <1>2, <1>3 DEF Machine, Accidents, Accident

LEMMA ZerosAdd ==
    ASSUME ledger \in Seq(Int), NEW kinds \in Seq(Kinds), SendAll(kinds)
    PROVE  /\ \A k \in 1..Len(ledger') :
                 \/ k \in 1..Len(ledger) /\ ledger'[k] = ledger[k]
                 \/ ledger'[k] = 0
<1> DEFINE zeros == [i \in 1..Len(kinds) |-> 0]
<1>1. zeros \in Seq(Int) /\ \A i \in 1..Len(zeros) : zeros[i] = 0
  BY Z3
<1>2. ledger' = ledger \o zeros
  BY DEF SendAll
<1> HIDE DEF zeros
<1>3. PICK s \in Seq(Int) : ledger' = ledger \o s /\ \A i \in 1..Len(s) : s[i] = 0
  BY <1>1, <1>2
<1>4. /\ Len(ledger') = Len(ledger) + Len(s) /\ Len(ledger) \in Nat /\ Len(s) \in Nat
      /\ \A k \in 1..Len(ledger') : ledger'[k] = IF k <= Len(ledger) THEN ledger[k] ELSE s[k - Len(ledger)]
  BY <1>3, ConcatProperties
<1> SUFFICES ASSUME NEW k \in 1..Len(ledger')
             PROVE  (k \in 1..Len(ledger) /\ ledger'[k] = ledger[k]) \/ ledger'[k] = 0
  OBVIOUS
<1>5. CASE k <= Len(ledger)
  BY <1>4, <1>5
<1>6. CASE ~(k <= Len(ledger))
  <2>1. k - Len(ledger) \in 1..Len(s)
    BY <1>4, <1>6
  <2> QED BY <1>3, <1>4, <1>6, <2>1
<1> QED BY <1>5, <1>6

\* What the page sends and hears leaves it waiting for the step in flight, for
\* nothing, or for a new step.
LEMMA WaitEnds ==
    ASSUME RunInv, PageStep, ~(Advance /\ Command), ~LidClosed,
           HandleLine => \E what : FaultLine(what)
    PROVE  waiter' = 0 /\ seq' # "waiting" /\ (seq' = "answered" => fault')
<1>1. CASE Advance /\ ~Command
  <2>1. seq = "next" /\ waiter = 0 /\ UNCHANGED waiter
    BY <1>1 DEF Advance, RunInv, NextBlock, Check, EndRun
  <2>2. seq' \in {"next", "sleeping", "failed", "idle"}
    BY <1>1, <2>1 DEF Advance, NextBlock, Check, EndRun
  <2> QED BY <2>1, <2>2
<1>2. CASE StepDone \/ SleepEnds \/ Unwind
  <2>1. seq # "waiting" /\ waiter = 0 /\ UNCHANGED waiter /\ seq' \in {"next", "failed", "idle"}
    BY <1>2 DEF StepDone, SleepEnds, Unwind, RunInv
  <2> QED BY <2>1
<1>3. CASE StartRun \/ Connect
  BY <1>3 DEF StartRun, Free, Connect, runVars, RunInv
<1>4. CASE Timeout
  BY <1>4 DEF Timeout, Reject
<1>5. CASE Stop \/ EmergencyStop \/ Disconnect
  <2>1. SeqFault /\ seq # "answered"
    BY <1>5 DEF Stop, EmergencyStop, Disconnect, Busy
  <2> QED BY <2>1 DEF SeqFault, Reject
<1>6. CASE HomeAll \/ MoveButton \/ StartSpin
  BY <1>6 DEF HomeAll, MoveButton, StartSpin, Free, ButtonKept, RunInv
<1>7. CASE HandleLine
  BY <1>7 DEF FaultLine, SeqFault, Reject
<1> QED BY <1>1, <1>2, <1>3, <1>4, <1>5, <1>6, <1>7 DEF PageStep, Run, Operator, Buttons

\* An entry of the ledger is no line that is still to be sent.
LEMMA PageEntries ==
    ASSUME TypeOK, QueueOrder, RunInv, PageStep, \A k \in 1..Len(ledger) : ledger[k] <= sent
    PROVE  sent <= sent' /\ \A k \in 1..Len(ledger') : ledger'[k] <= sent'
<1>0. ledger \in Seq(Int) /\ sent \in Nat /\ \A k \in 1..Len(ledger) : ledger[k] \in Int
  <2>1. ledger \in Seq(Int) /\ sent \in Nat
    BY DEF TypeOK, CellTypeOK, QueueTypeOK
  <2> QED BY <2>1, ElementOfSeq
<1>1. sent' \in Nat /\ sent <= sent'
  <2>1. ASSUME NEW kinds \in Seq(Kinds), Write(kinds) PROVE sent' \in Nat /\ sent <= sent'
    BY <1>0, <2>1 DEF Write
  <2> QED BY <1>0, <2>1, PageEffect DEF PageWrites, PageQuiet, queueVars, Restarts
<1> SUFFICES ASSUME NEW k \in 1..Len(ledger') PROVE ledger'[k] <= sent'
  BY <1>1
<1>2. ASSUME ledger'[k] = 0 \/ (k \in 1..Len(ledger) /\ ledger'[k] = ledger[k]) PROVE ledger'[k] <= sent'
  BY <1>0, <1>1, <1>2
<1>3. ASSUME NEW kinds \in Seq(Kinds), SendAll(kinds) PROVE ledger'[k] <= sent'
  BY <1>0, <1>2, <1>3, ZerosAdd
<1>4. CASE Advance /\ Command
  <2>1. ledger' = Append(ledger, sent')
    BY <1>4 DEF Command, SendStep, SendAwaited
  <2>2. ledger'[k] = sent' \/ (k \in 1..Len(ledger) /\ ledger'[k] = ledger[k])
    BY <1>0, <1>1, <2>1
  <2> QED BY <1>0, <1>1, <1>2, <2>2
<1>5. CASE Pressed
  <2>1. PICK kinds \in ButtonLines : SendAll(kinds) \/ ledger' = Append(ledger, -1)
    BY <1>5, PressedSends
  <2>2. CASE ledger' = Append(ledger, -1)
    <3>1. ledger'[k] = -1 \/ (k \in 1..Len(ledger) /\ ledger'[k] = ledger[k])
      BY <1>0, <2>2
    <3> QED BY <1>1, <1>2, <3>1
  <2> QED BY <1>3, <2>1, <2>2, ButtonTypes
<1>6. CASE Unwind
  BY <1>3, <1>6, OwedTypes, RecoveryKinds DEF Unwind, SendOwed, OwedLines
<1>7. CASE Stop
  BY <1>3, <1>7, OneLine, KindsKnown DEF Stop
<1>8. CASE UNCHANGED ledger \/ ledger' = <<>> \/ (ledger # <<>> /\ ledger' = Tail(ledger))
  <2>1. CASE UNCHANGED ledger
    BY <1>2, <2>1
  <2>2. CASE ledger' = <<>>
    <3>1. Len(ledger') = 0
      BY <2>2
    <3> QED BY <3>1
  <2>3. CASE ledger # <<>> /\ ledger' = Tail(ledger)
    <3>1. k + 1 \in 1..Len(ledger) /\ ledger'[k] = ledger[k + 1]
      BY <1>0, <2>3, StepTail
    <3> QED BY <1>0, <1>1, <3>1
  <2> QED BY <1>8, <2>1, <2>2, <2>3
<1>9. CASE HandleLine
  <2>1. UNCHANGED ledger \/ ledger' = <<>> \/ (ledger # <<>> /\ ledger' = Tail(ledger))
    BY <1>9 DEF HandleLine, FaultLine, MarkerLine, SpinLine, OkLine, trackVars
  <2> QED BY <1>8, <2>1
<1>10. CASE (Advance /\ ~Command) \/ StepDone \/ SleepEnds \/ StartRun \/ EmergencyStop \/ Timeout
               \/ Disconnect \/ Connect
  <2>1. UNCHANGED ledger \/ ledger' = <<>>
    BY <1>10 DEF Advance, NextBlock, Check, EndRun, StepDone, SleepEnds, StartRun, EmergencyStop,
       Timeout, Disconnect, Connect, trackVars
  <2> QED BY <1>8, <2>1
<1> QED BY <1>4, <1>5, <1>6, <1>7, <1>9, <1>10 DEF PageStep, Run, Operator, Buttons, Pressed

LEMMA EntriesKept ==
    ASSUME EntryInv, UNCHANGED <<ledger, waiter, seq, fault, todo>>,
           sent \in Nat, sent' \in Nat, sent <= sent', \A k \in 1..Len(ledger) : ledger[k] \in Int,
           waiter \in Nat,
           \A line \in Pending' : line \in Pending \/ ~(line.id <= sent)
    PROVE  EntryInv'
<1>1. /\ \A k \in 1..Len(ledger') : ledger'[k] <= sent'
      /\ waiter' # 0 => waiter' <= sent' /\ ~fault'
  BY DEF EntryInv
<1>2. waiter' # 0 => \A line \in Pending' : line.id = waiter' => line.kind = todo'[1]
  BY DEF EntryInv
<1>3. /\ seq' = "waiting" => waiter' # 0
      /\ waiter' # 0 =>
          \A k, m \in 1..Len(ledger') : ledger'[k] = -1 /\ ledger'[m] = waiter' => k < m
      /\ seq' = "answered" /\ ~fault' => Unspun'
  BY DEF EntryInv, Unspun
<1> QED BY <1>1, <1>2, <1>3 DEF EntryInv

LEMMA MachineEntries ==
    ASSUME Sound, CellInv, WaitInv, EntryInv, Machine \/ Accidents
    PROVE  EntryInv'
<1>1. UNCHANGED <<ledger, waiter, seq, fault, todo>>
  BY DEF Machine, Accidents, trackVars, runVars
<1>2. UNCHANGED sent /\ Pending' \in SUBSET Pending
  BY MachineShrinks
<1>3. sent \in Nat /\ waiter \in Nat /\ ledger \in Seq(Int)
  BY DEF Sound, TypeOK, CellTypeOK, QueueTypeOK
<1>4. \A k \in 1..Len(ledger) : ledger[k] \in Int
  BY <1>3, ElementOfSeq
<1>5. sent' \in Nat /\ sent <= sent'
  BY <1>2, <1>3
<1>6. \A line \in Pending' : line \in Pending \/ ~(line.id <= sent)
  BY <1>2
<1> QED BY <1>1, <1>3, <1>4, <1>5, <1>6, EntriesKept

\* The line of a new step is the last one sent.
LEMMA CommandEntries ==
    ASSUME TypeOK, QueueOrder, RunInv, EntryInv, Advance, Command
    PROVE  EntryInv'
<1>0. /\ ledger \in Seq(Int) /\ sent \in Nat /\ QueueTypeOK
      /\ \A k \in 1..Len(ledger) : ledger[k] \in Int /\ ledger[k] <= sent
  <2>1. ledger \in Seq(Int) /\ sent \in Nat /\ QueueTypeOK
    BY DEF TypeOK, CellTypeOK, QueueTypeOK
  <2> QED BY <2>1, ElementOfSeq DEF EntryInv
<1>1. /\ todo # <<>> /\ todo[1] \in Kinds /\ UNCHANGED <<todo, fault>>
      /\ Write(<<todo[1]>>) /\ ledger' = Append(ledger, sent') /\ waiter' = sent'
      /\ seq' = "waiting" /\ ~fault
  BY DEF Command, Advance, SendStep, SendAwaited, RunInv
<1>2. <<todo[1]>> \in Seq(Kinds) /\ Len(<<todo[1]>>) = 1
  BY <1>1, OneLine
<1>3. sent' = sent + 1
  BY <1>1, <1>2 DEF Write
<1>4. ASSUME NEW line \in Pending', line.id = sent' PROVE line.kind = todo'[1]
  <2>1. CASE mega = "up"
    <3> PICK kinds \in Seq(Kinds) : kinds = <<todo[1]>>
      BY <1>2
    <3>1. Write(kinds)
      BY <1>1 DEF Write, Quiet
    <3>2. /\ \A old \in Pending : old.id \in Nat /\ old.id <= sent
          /\ \A i \in 1..Len(kinds) : rx'[Len(rx) + i].kind = kinds[i]
          /\ line \in Pending \/ \E i \in 1..Len(kinds) : line = rx'[Len(rx) + i]
      BY <1>0, <2>1, <3>1, WritePending
    <3>3. line \notin Pending
      BY <1>0, <1>3, <1>4, <3>2
    <3> QED BY <1>1, <1>2, <3>2, <3>3
  <2>2. CASE mega # "up"
    <3>1. CASE mega = "booting"
      <4>1. UNCHANGED <<rx, ring>>
        BY <1>1, <3>1 DEF Write
      <4>2. line \in Pending
        BY <4>1 DEF Pending
      <4>3. line.id <= sent
        BY <1>0, <4>2, PendingLines DEF All
      <4> QED BY <1>0, <1>3, <1>4, <4>3
    <3>2. CASE mega # "booting"
      <4>1. /\ ring' = ring /\ rx' \in Seq(Lines) /\ Len(rx') = Len(rx) + 1 /\ Len(rx) \in Nat
            /\ \A j \in 1..Len(rx) : rx'[j] = rx[j]
            /\ rx'[Len(rx) + 1].kind = todo[1]
        <5> PICK kinds \in Seq(Kinds) : kinds = <<todo[1]>>
          BY <1>2
        <5>1. Write(kinds)
          BY <1>1 DEF Write, Quiet
        <5>2. /\ rx' \in Seq(Lines) /\ Len(rx') = Len(rx) + Len(kinds)
              /\ \A j \in 1..Len(rx) : rx'[j] = rx[j]
              /\ \A i \in 1..Len(kinds) : rx'[Len(rx) + i].kind = kinds[i]
          BY <1>0, <3>2, <5>1, WriteAdds
        <5>3. Len(kinds) = 1 /\ kinds[1] = todo[1] /\ Len(rx) \in Nat
          BY <1>0 DEF QueueTypeOK
        <5> QED BY <5>1, <5>2, <5>3 DEF Write
      <4>2. line \in Pending \/ line = rx'[Len(rx) + 1]
        <5>1. CASE \E i \in 1..Len(ring') : line = ring'[i]
          BY <4>1, <5>1 DEF Pending
        <5>2. CASE \E j \in 1..Len(rx') : line = rx'[j]
          <6>1. PICK j \in 1..Len(rx') : line = rx'[j]
            BY <5>2
          <6>2. j \in 1..Len(rx) \/ j = Len(rx) + 1
            BY <4>1
          <6> QED BY <4>1, <6>1, <6>2 DEF Pending
        <5> QED BY <5>1, <5>2 DEF Pending
      <4>3. CASE line \in Pending
        <5>1. line.id <= sent /\ line.id \in Nat
          BY <1>0, <4>3, PendingLines DEF All
        <5> QED BY <1>0, <1>3, <1>4, <5>1
      <4> QED BY <1>1, <4>1, <4>2, <4>3
    <3> QED BY <3>1, <3>2
  <2> QED BY <2>1, <2>2
<1>5. \A k \in 1..Len(ledger') :
         \/ k \in 1..Len(ledger) /\ ledger'[k] = ledger[k]
         \/ k = Len(ledger) + 1 /\ ledger'[k] = sent'
  BY <1>0, <1>1
<1>6. Len(ledger) \in Nat
  BY <1>0
<1>7. \A k \in 1..Len(ledger') : ledger'[k] <= sent' /\ (ledger'[k] = sent' => k = Len(ledger) + 1)
  BY <1>0, <1>3, <1>5
<1>8. ASSUME NEW k \in 1..Len(ledger'), ledger'[k] = -1 PROVE k \in 1..Len(ledger)
  BY <1>0, <1>3, <1>5, <1>8
<1>9. sent' # 0
  BY <1>0, <1>3
<1>10. \A k, m \in 1..Len(ledger') : ledger'[k] = -1 /\ ledger'[m] = sent' => k < m
  BY <1>6, <1>7, <1>8
<1> QED BY <1>1, <1>4, <1>7, <1>9, <1>10 DEF EntryInv

\* An ok takes the oldest entry; if that is the one waited for, no Start Spin is
\* left in the ledger.
LEMMA OkEntries ==
    ASSUME TypeOK, EntryInv, RunInv, HandleLine, OkLine("ok"),
           \A k \in 1..Len(ledger') : ledger'[k] <= sent'
    PROVE  EntryInv'
<1>0. UNCHANGED <<queueVars, todo, fault>> /\ UNCHANGED Pending
  BY DEF HandleLine, OkLine, queueVars, Pending
<1>1. CASE ledger = <<>>
  <2>1. UNCHANGED <<ledger, seq, waiter>>
    BY <1>1 DEF OkLine
  <2> QED BY <1>0, <2>1 DEF EntryInv, Unspun, queueVars
<1>2. CASE ledger # <<>>
  <2>1. /\ Len(ledger') = Len(ledger) - 1 /\ Len(ledger) \in Nat \ {0} /\ Head(ledger) = ledger[1]
        /\ \A i \in 1..Len(ledger') : i + 1 \in 1..Len(ledger) /\ ledger'[i] = ledger[i + 1]
    <3>1. ledger \in Seq(Int) /\ ledger' = Tail(ledger)
      BY <1>2 DEF TypeOK, OkLine
    <3> QED BY <1>2, <3>1, StepTail
  <2>2. CASE waiter # 0 /\ Head(ledger) = waiter
    <3>1. waiter' = 0 /\ seq' = "answered"
      BY <1>2, <2>2 DEF OkLine
    <3>2. ASSUME NEW k \in 1..Len(ledger'), ledger'[k] = -1 PROVE FALSE
      <4>1. k + 1 \in 1..Len(ledger) /\ ledger[k + 1] = -1 /\ 1 \in 1..Len(ledger) /\ ledger[1] = waiter
        BY <2>1, <2>2, <3>2
      <4>2. k + 1 < 1
        BY <2>2, <4>1 DEF EntryInv
      <4> QED BY <4>2
    <3> QED BY <3>1, <3>2 DEF EntryInv, Unspun
  <2>3. CASE ~(waiter # 0 /\ Head(ledger) = waiter)
    <3>1. UNCHANGED <<seq, waiter>>
      BY <1>2, <2>3 DEF OkLine
    <3>2. ASSUME waiter # 0, NEW k \in 1..Len(ledger'), NEW m \in 1..Len(ledger'),
                 ledger'[k] = -1, ledger'[m] = waiter
          PROVE  k < m
      <4>1. /\ k + 1 \in 1..Len(ledger) /\ ledger[k + 1] = -1
            /\ m + 1 \in 1..Len(ledger) /\ ledger[m + 1] = waiter
        BY <2>1, <3>2
      <4>2. k + 1 < m + 1
        BY <3>2, <4>1 DEF EntryInv
      <4> QED BY <4>2
    <3>3. seq = "answered" /\ ~fault => Unspun'
      BY <2>1 DEF EntryInv, Unspun
    <3>4. \A line \in Pending : waiter # 0 /\ line.id = waiter => line.kind = todo[1]
      BY DEF EntryInv
    <3>5. /\ waiter # 0 => waiter <= sent /\ ~fault
          /\ seq = "waiting" => waiter # 0
      BY DEF EntryInv
    <3> QED BY <1>0, <3>1, <3>2, <3>3, <3>4, <3>5 DEF EntryInv, queueVars
  <2> QED BY <2>2, <2>3
<1> QED BY <1>1, <1>2

\* Start Spin's second line comes while a step may wait, or just after.
LEMMA SpinEntries ==
    ASSUME TypeOK, QueueOrder, EntryInv, RunInv, LidClosed,
           sent <= sent', \A k \in 1..Len(ledger') : ledger'[k] <= sent'
    PROVE  EntryInv'
<1>0. QueueTypeOK /\ ledger \in Seq(Int) /\ sent \in Nat /\ waiter \in Nat
  BY DEF TypeOK, CellTypeOK, QueueTypeOK
<1>1. UNCHANGED <<waiter, seq, fault, todo>> /\ SendAll(<<"M750">>) /\ Write(<<"M750">>)
  BY DEF LidClosed, SendAll
<1>2. <<"M750">> \in Seq(Kinds)
  BY OneLine, KindsKnown
<1>3. \A k \in 1..Len(ledger') : (k \in 1..Len(ledger) /\ ledger'[k] = ledger[k]) \/ ledger'[k] = 0
  BY <1>0, <1>1, <1>2, ZerosAdd
<1>4. ASSUME NEW line \in Pending', line.id <= sent PROVE line \in Pending
  <2>1. CASE mega = "booting"
    BY <1>1, <2>1 DEF Write, Pending
  <2>2. CASE mega # "booting"
    <3> PICK kinds \in Seq(Kinds) : kinds = <<"M750">>
      BY <1>2
    <3>1. Write(kinds)
      BY <1>1 DEF Write, Quiet
    <3>2. /\ Len(rx') = Len(rx) + Len(kinds)
          /\ \A j \in 1..Len(rx) : rx'[j] = rx[j]
          /\ \A i \in 1..Len(kinds) : rx'[Len(rx) + i].id = sent + i
          /\ ring' = ring
      BY <1>0, <2>2, <3>1, WriteAdds DEF Write
    <3>3. Len(rx) \in Nat /\ Len(kinds) = 1
      BY <1>0 DEF QueueTypeOK
    <3>4. CASE \E j \in 1..Len(rx') : line = rx'[j]
      <4>1. PICK j \in 1..Len(rx') : line = rx'[j]
        BY <3>4
      <4>2. j \in 1..Len(rx) \/ j = Len(rx) + 1
        BY <3>2, <3>3
      <4>3. j # Len(rx) + 1
        BY <1>0, <1>4, <3>2, <3>3, <4>1
      <4> QED BY <3>2, <4>1, <4>2, <4>3 DEF Pending
    <3> QED BY <3>2, <3>4 DEF Pending
  <2> QED BY <2>1, <2>2
<1>5. waiter # 0 => waiter <= sent /\ ~fault
  BY DEF EntryInv
<1>6. ASSUME waiter # 0, NEW line \in Pending', line.id = waiter PROVE line.kind = todo[1]
  BY <1>4, <1>5, <1>6 DEF EntryInv
<1>7. ASSUME waiter # 0, NEW k \in 1..Len(ledger'), NEW m \in 1..Len(ledger'),
             ledger'[k] = -1, ledger'[m] = waiter
      PROVE  k < m
  <2>1. k \in 1..Len(ledger) /\ ledger[k] = -1 /\ m \in 1..Len(ledger) /\ ledger[m] = waiter
    BY <1>3, <1>7
  <2> QED BY <1>7, <2>1 DEF EntryInv
<1>8. seq = "answered" /\ ~fault => Unspun'
  BY <1>3 DEF EntryInv, Unspun
<1>9. waiter # 0 => waiter <= sent'
  <2>1. sent' \in Nat
    BY <1>0, <1>1 DEF Write
  <2> QED BY <1>0, <1>5, <2>1
<1>10. seq = "waiting" => waiter # 0
  BY DEF EntryInv
<1> QED BY <1>1, <1>5, <1>6, <1>7, <1>8, <1>9, <1>10 DEF EntryInv

LEMMA EntryStep ==
    ASSUME Sound, CellInv, WaitInv, EntryInv, [Next]_vars
    PROVE  EntryInv'
<1>0. TypeOK /\ QueueOrder /\ RunInv
  BY DEF Sound
<1>1. CASE Machine \/ Accidents
  BY <1>1, MachineEntries
<1>2. CASE PageStep
  <2>1. sent <= sent' /\ \A k \in 1..Len(ledger') : ledger'[k] <= sent'
    BY <1>0, <1>2, PageEntries DEF EntryInv
  <2>2. CASE Advance /\ Command
    BY <1>0, <2>2, CommandEntries
  <2>3. CASE LidClosed
    BY <1>0, <2>1, <2>3, SpinEntries
  <2>4. CASE HandleLine /\ ~\E what : FaultLine(what)
    <3>1. CASE OkLine(Head(link).what)
      <4>1. OkLine("ok")
        BY <3>1 DEF OkLine
      <4> QED BY <1>0, <2>1, <2>4, <4>1, OkEntries
    <3>2. CASE MarkerLine(Head(link).what) \/ SpinLine(Head(link).what)
      <4>1. /\ UNCHANGED <<ledger, waiter, seq, fault, todo>> /\ UNCHANGED sent
            /\ Pending' = Pending
        BY <2>4, <3>2 DEF HandleLine, MarkerLine, SpinLine, trackVars, queueVars, Pending
      <4>2. sent \in Nat /\ waiter \in Nat /\ ledger \in Seq(Int)
        BY <1>0 DEF TypeOK, CellTypeOK, QueueTypeOK
      <4>3. \A k \in 1..Len(ledger) : ledger[k] \in Int
        BY <4>2, ElementOfSeq
      <4> QED BY <4>1, <4>2, <4>3, EntriesKept
    <3> QED BY <2>4, <3>1, <3>2 DEF HandleLine
  <2>5. CASE /\ ~(Advance /\ Command) /\ ~LidClosed
             /\ HandleLine => \E what : FaultLine(what)
    <3>1. waiter' = 0 /\ seq' # "waiting" /\ (seq' = "answered" => fault')
      BY <1>0, <1>2, <2>5, WaitEnds
    <3> QED BY <2>1, <3>1 DEF EntryInv
  <2> QED BY <1>2, <2>2, <2>3, <2>4, <2>5
<1>3. CASE UNCHANGED vars
  <2>1. /\ UNCHANGED <<ledger, waiter, seq, fault, todo>> /\ UNCHANGED sent
        /\ Pending' = Pending
    BY <1>3 DEF vars, machine, queueVars, trackVars, runVars, Pending
  <2>2. sent \in Nat /\ waiter \in Nat /\ ledger \in Seq(Int)
    BY <1>0 DEF TypeOK, CellTypeOK, QueueTypeOK
  <2>3. \A k \in 1..Len(ledger) : ledger[k] \in Int
    BY <2>2, ElementOfSeq
  <2> QED BY <2>1, <2>2, <2>3, EntriesKept
<1> QED BY <1>1, <1>2, <1>3 DEF Next, PageStep

LEMMA BlockSoft == ASSUME NEW block \in Blocks PROVE Soft(Steps(block))
<1>0. {"G28", "M280_S115"} \subseteq Kinds \ Spins
  BY KindsKnown DEF Spins
<1>1. CASE block \in {"homing_index", "spin", "cure_index"}
  <2>1. ASSUME NEW steps, Len(steps) \in Nat, 1 <= Len(steps),
               steps[1] \in {"G28", "M280_S115"}
        PROVE  Soft(steps)
    <3>1. 1 \in 1..Len(steps) /\ \A i \in 1..Len(steps) : i = 1 \/ 1 < i
      BY <2>1
    <3>2. steps[1] \notin Spins /\ steps[1] \in Kinds \ Spins
      BY <1>0, <2>1
    <3> QED BY <3>1, <3>2 DEF Soft
  <2>2. CASE block = "homing_index"
    <3>1. Steps(block) = <<"G28", "M118", "M752">>
      BY <2>2 DEF Steps
    <3>2. Len(Steps(block)) = 3 /\ Steps(block)[1] = "G28"
      BY <3>1
    <3> QED BY <2>1, <3>2
  <2>3. CASE block = "spin"
    <3>1. Steps(block) = <<"M280_S115", "M750", "M280_S30">>
      BY <2>3 DEF Steps, SpinSteps
    <3>2. Len(Steps(block)) = 3 /\ Steps(block)[1] = "M280_S115"
      BY <3>1
    <3> QED BY <2>1, <3>2
  <2>4. CASE block = "cure_index"
    <3>1. Steps(block) = <<"M280_S115", On("lamp"), "sleep", Off("lamp"), "M752", "M280_S30">>
      BY <2>4 DEF Steps, CureSteps
    <3>2. Len(Steps(block)) = 6 /\ Steps(block)[1] = "M280_S115"
      BY <3>1
    <3> QED BY <2>1, <3>2
  <2> QED BY <1>1, <2>2, <2>3, <2>4
<1>2. CASE block \notin {"homing_index", "spin", "cure_index"}
  <2>1. \A i \in 1..Len(Steps(block)) : Steps(block)[i] \notin Spins
    BY <1>2 DEF Steps, CureSteps, StampSteps, Blocks, On, Off, Spins
  <2> QED BY <2>1 DEF Soft
<1> QED BY <1>1, <1>2

LEMMA HeldSoft ==
    ASSUME NEW s \in Seq(StepKinds), Soft(s)
    PROVE  Soft(<<"sleep">> \o s)
<1> DEFINE t == <<"sleep">> \o s
<1>1. /\ Len(t) = Len(s) + 1 /\ Len(s) \in Nat
      /\ t[1] = "sleep" /\ \A i \in 1..Len(s) : t[i + 1] = s[i]
  <2>1. <<"sleep">> \in Seq(StepKinds)
    BY OneLine DEF StepKinds, Checks
  <2> QED BY <2>1
<1> HIDE DEF t
<1>2. ASSUME NEW i \in 1..Len(t), t[i] \in Spins
      PROVE  \E j \in 1..Len(t) : j < i /\ t[j] \in Kinds \ Spins
  <2>1. i # 1
    BY <1>1, <1>2 DEF Spins
  <2>2. i - 1 \in 1..Len(s) /\ (i - 1) + 1 = i
    BY <1>1, <2>1
  <2>3. s[i - 1] \in Spins
    BY <1>1, <1>2, <2>2
  <2>4. PICK j \in 1..Len(s) : j < i - 1 /\ s[j] \in Kinds \ Spins
    BY <2>2, <2>3 DEF Soft
  <2>5. j + 1 \in 1..Len(t) /\ j + 1 < i /\ t[j + 1] \in Kinds \ Spins
    BY <1>1, <2>4
  <2> QED BY <2>5
<1>3. Soft(t)
  BY <1>2 DEF Soft
<1> QED BY <1>3 DEF t

LEMMA NewBlockSoft == ASSUME NewBlock PROVE Soft(todo)'
<1>1. PICK block \in Blocks : todo' = Steps(block) \/ todo' = <<"sleep">> \o Steps(block)
  BY DEF NewBlock
<1>2. Soft(Steps(block)) /\ Soft(<<"sleep">> \o Steps(block))
  BY BlockSoft, BlockSteps, HeldSoft
<1>3. ASSUME NEW steps, Soft(steps), todo' = steps PROVE Soft(todo)'
  BY <1>3 DEF Soft
<1> QED BY <1>1, <1>2, <1>3

\* By what steps of the page a run may go on.
LEMMA RunStays ==
    ASSUME RunInv, PageStep, Active'
    PROVE  \/ Advance /\ ~EndRun
           \/ StartRun
           \/ Active /\ ~due /\ seq = "answered" /\ StepDone /\ seq' = "next" /\ UNCHANGED fault
           \/ Active /\ (SleepEnds \/ LidClosed)
           \/ /\ Active /\ HandleLine /\ seq' # "idle"
              /\ LET what == Head(link).what IN
                    MarkerLine(what) \/ SpinLine(what) \/ OkLine(what)
<1>1. ~Stop /\ ~EmergencyStop /\ ~Disconnect
  BY FaultEnds DEF Stop, EmergencyStop, Disconnect
<1>2. ~Unwind /\ ~Timeout /\ ~Connect
  BY DEF Unwind, Timeout, Reject, Active, Connect, runVars
<1>3. CASE Pressed
  <2>1. UNCHANGED <<seq, fault>>
    BY <1>3, PressedSends
  <2>2. LidClosed
    BY <1>3, <2>1 DEF Pressed, HomeAll, MoveButton, StartSpin, Free, Active
  <2> QED BY <2>1, <2>2 DEF Active
<1>4. CASE Advance
  BY <1>4 DEF Advance, EndRun, Active
<1>5. CASE ~due /\ StepDone
  <2>1. seq = "answered" /\ ~fault /\ seq' = "next" /\ UNCHANGED fault
    BY <1>5 DEF StepDone, Active
  <2> QED BY <1>5, <2>1 DEF Active
<1>6. CASE SleepEnds
  BY <1>6 DEF SleepEnds, Active
<1>7. CASE StartRun
  BY <1>7
<1>8. CASE HandleLine
  <2>1. ~FaultLine(Head(link).what)
    BY FaultEnds DEF FaultLine
  <2>2. LET what == Head(link).what IN MarkerLine(what) \/ SpinLine(what) \/ OkLine(what)
    BY <1>8, <2>1 DEF HandleLine
  <2>3. UNCHANGED fault /\ (seq' = seq \/ (waiter # 0 /\ seq' = "answered"))
    BY <2>2 DEF MarkerLine, SpinLine, OkLine
  <2> QED BY <1>8, <2>2, <2>3 DEF Active, RunInv
<1> QED BY <1>1, <1>2, <1>3, <1>4, <1>5, <1>6, <1>7, <1>8 DEF PageStep, Run, Operator, Buttons, Pressed

\* While a run goes on, no Start Spin comes to be outstanding.
LEMMA CleanStays ==
    ASSUME TypeOK, PageStep, Clean,
           \/ Advance \/ StepDone \/ SleepEnds \/ LidClosed \/ StartRun
           \/ HandleLine /\ OkLine("ok")
           \/ HandleLine /\ UNCHANGED <<ledger, due>>
    PROVE  Clean'
<1>0. ledger \in Seq(Int) /\ sent \in Nat
  BY DEF TypeOK, CellTypeOK, QueueTypeOK
<1>1. CASE UNCHANGED <<ledger, due>>
  BY <1>1 DEF Clean, Unspun
<1>2. CASE Advance /\ Command
  <2>1. UNCHANGED due /\ ledger' = Append(ledger, sent') /\ sent' = sent + Len(<<todo[1]>>)
    BY <1>2 DEF Advance, Command, SendStep, SendAwaited, Write
  <2>2. sent' \in Nat
    BY <1>0, <2>1
  <2>3. \A k \in 1..Len(ledger') : (k \in 1..Len(ledger) /\ ledger'[k] = ledger[k]) \/ ledger'[k] = sent'
    BY <1>0, <2>1, <2>2
  <2> QED BY <2>1, <2>2, <2>3 DEF Clean, Unspun
<1>3. CASE (Advance /\ ~Command) \/ StepDone \/ SleepEnds \/ StartRun
  BY <1>1, <1>3 DEF Advance, NextBlock, Check, EndRun, StepDone, SleepEnds, StartRun, trackVars
<1>4. CASE LidClosed
  BY <1>4 DEF LidClosed, Clean
<1>5. CASE OkLine("ok")
  <2>1. CASE ledger = <<>>
    BY <1>1, <1>5, <2>1 DEF OkLine
  <2>2. CASE ledger # <<>>
    <3>1. ledger' = Tail(ledger) /\ due' = (due \/ Head(ledger) = -1)
      BY <1>5, <2>2 DEF OkLine
    <3>2. /\ Len(ledger) \in Nat \ {0} /\ Head(ledger) = ledger[1]
          /\ \A i \in 1..Len(ledger') : i + 1 \in 1..Len(ledger) /\ ledger'[i] = ledger[i + 1]
      BY <1>0, <2>2, <3>1, StepTail
    <3>3. 1 \in 1..Len(ledger)
      BY <3>2
    <3> QED BY <3>1, <3>2, <3>3 DEF Clean, Unspun
  <2> QED BY <2>1, <2>2
<1> QED BY <1>1, <1>2, <1>3, <1>4, <1>5

LEMMA NoChecks == Checks \cap Kinds = {}
BY WorkcellAssumption DEF Checks, AllKinds, Homes, Moves, Distances, Spins, Relays, On, Off

LEMMA TailSoft ==
    ASSUME todo \in Seq(StepKinds), todo # <<>>, todo[1] \in Checks, todo' = Tail(todo), Soft(todo)
    PROVE  Soft(todo)'
<1>1. /\ Len(todo') = Len(todo) - 1 /\ Len(todo) \in Nat
      /\ \A i \in 1..Len(todo') : i + 1 \in 1..Len(todo) /\ todo'[i] = todo[i + 1]
  BY StepTail
<1> SUFFICES ASSUME NEW i \in 1..Len(todo'), todo'[i] \in Spins
             PROVE  \E j \in 1..Len(todo') : j < i /\ todo'[j] \in Kinds \ Spins
  BY DEF Soft
<1>2. PICK k \in 1..Len(todo) : k < i + 1 /\ todo[k] \in Kinds \ Spins
  BY <1>1 DEF Soft
<1>3. k # 1
  BY <1>2, NoChecks
<1>4. k - 1 \in 1..Len(todo') /\ (k - 1) + 1 = k /\ k - 1 < i
  BY <1>1, <1>2, <1>3
<1>5. todo'[k - 1] = todo[k]
  BY <1>1, <1>4
<1> QED BY <1>2, <1>4, <1>5

LEMMA PageClean ==
    ASSUME TypeOK, RunInv, EntryInv, CleanInv, PageStep
    PROVE  CleanInv'
<1> SUFFICES ASSUME Active'
             PROVE  /\ Clean' \/ Soft(todo)'
                    /\ spun' => Clean'
                    /\ Spinning' => spun'
                    /\ seq' = "waiting" /\ todo'[1] \in Spins => sent' = waiter'
  BY DEF CleanInv, Spinning
<1>0. /\ todo \in Seq(StepKinds)
      /\ Active => /\ Clean \/ Soft(todo)
                   /\ spun => Clean
                   /\ Spinning => spun
                   /\ seq = "waiting" /\ todo[1] \in Spins => sent = waiter
  BY DEF CleanInv, Spinning, TypeOK, StepKinds
<1>1. CASE Advance /\ Command
  <2>1. /\ Active /\ UNCHANGED todo /\ todo # <<>>
        /\ spun' = (spun \/ todo[1] \in Spins) /\ waiter' = sent'
    BY <1>1 DEF Advance, Command, SendStep, Active, RunInv
  <2>2. Clean => Clean'
    BY <1>1, CleanStays
  <2>3. todo[1] \in Spins => ~Soft(todo)
    <3>1. 1 \in 1..Len(todo) /\ \A j \in 1..Len(todo) : ~(j < 1)
      BY <1>0, <2>1
    <3> QED BY <3>1 DEF Soft
  <2>4. Soft(todo)' <=> Soft(todo)
    BY <2>1 DEF Soft
  <2> QED BY <1>0, <2>1, <2>2, <2>3, <2>4 DEF Spinning
<1>2. CASE Advance /\ NextBlock
  <2>1. Active /\ UNCHANGED spun /\ seq' = "next" /\ NewBlock
    <3>1. plan # <<>> /\ plan \in Seq(Blocks)
      BY <1>2 DEF NextBlock, TypeOK
    <3>2. plan[1] \in Blocks
      BY <3>1, StepTail
    <3> QED BY <1>2, <3>2 DEF Advance, NextBlock, Active, RunInv, NewBlock
  <2>2. (Clean => Clean') /\ Soft(todo)'
    BY <1>2, <2>1, CleanStays, NewBlockSoft
  <2> QED BY <1>0, <2>1, <2>2 DEF Spinning, InFlight
<1>3. CASE Advance /\ Check
  <2>1. /\ Active /\ UNCHANGED spun /\ seq' \notin {"waiting", "answered"}
        /\ todo # <<>> /\ todo[1] \in Checks /\ todo' = Tail(todo)
    BY <1>3 DEF Advance, Check, Active, RunInv
  <2>2. (Clean => Clean') /\ (Soft(todo) => Soft(todo)')
    BY <1>0, <1>3, <2>1, CleanStays, TailSoft
  <2> QED BY <1>0, <2>1, <2>2 DEF Spinning, InFlight
<1>4. CASE StartRun
  <2>1. seq' = "next" /\ spun' = FALSE
    BY <1>4 DEF StartRun
  <2>2. NewBlock
    <3>1. PICK program \in Programs : todo' = Steps(Head(program))
      BY <1>4 DEF StartRun
    <3> QED BY <3>1, FirstBlock DEF NewBlock
  <2> QED BY <2>1, <2>2, NewBlockSoft DEF Spinning, InFlight
<1>5. CASE Active /\ ~due /\ seq = "answered" /\ StepDone /\ seq' = "next" /\ UNCHANGED fault
  <2>1. Clean /\ UNCHANGED spun
    BY <1>5 DEF Clean, EntryInv, Active, StepDone
  <2> QED BY <1>5, <2>1, CleanStays DEF Spinning, InFlight
<1>6. CASE Active /\ SleepEnds
  <2>1. UNCHANGED <<todo, spun>> /\ seq' \notin {"waiting", "answered"}
    BY <1>6 DEF SleepEnds
  <2>2. (Clean => Clean') /\ (Soft(todo)' <=> Soft(todo))
    BY <1>6, <2>1, CleanStays DEF Soft
  <2> QED BY <1>0, <1>6, <2>1, <2>2 DEF Spinning, InFlight
<1>7. CASE Active /\ LidClosed
  <2>1. UNCHANGED <<todo, spun, seq>> /\ ~Clean
    BY <1>7 DEF LidClosed, Clean
  <2>2. Soft(todo)' <=> Soft(todo)
    BY <2>1 DEF Soft
  <2> QED BY <1>0, <1>7, <2>1, <2>2 DEF Spinning, InFlight
<1>8. CASE /\ Active /\ HandleLine
           /\ LET what == Head(link).what IN
                 MarkerLine(what) \/ SpinLine(what) \/ OkLine(what)
  <2>1. UNCHANGED <<todo, spun, sent>>
    BY <1>8 DEF HandleLine, queueVars
  <2>2. /\ seq' = "waiting" => seq = "waiting" /\ UNCHANGED waiter
        /\ InFlight' => InFlight
        /\ UNCHANGED <<ledger, due>> \/ OkLine("ok")
    BY <1>8 DEF MarkerLine, SpinLine, OkLine, trackVars, InFlight, RunInv
  <2>3. (Clean => Clean') /\ (Soft(todo)' <=> Soft(todo))
    BY <1>8, <2>1, <2>2, CleanStays DEF Soft
  <2> QED BY <1>0, <1>8, <2>1, <2>2, <2>3 DEF Spinning
<1> QED BY <1>1, <1>2, <1>3, <1>4, <1>5, <1>6, <1>7, <1>8, RunStays DEF Advance

LEMMA CleanStep ==
    ASSUME Sound, CellInv, WaitInv, EntryInv, CleanInv, [Next]_vars
    PROVE  CleanInv'
<1>1. CASE PageStep
  BY <1>1, PageClean DEF Sound
<1>2. ASSUME UNCHANGED <<trackVars, runVars>>, UNCHANGED sent PROVE CleanInv'
  BY <1>2 DEF trackVars, runVars, CleanInv, Active, Clean, Unspun, Soft, InFlight
<1>3. CASE Machine \/ Accidents
  BY <1>2, <1>3, MachineShrinks DEF Machine, Accidents
<1>4. CASE UNCHANGED vars
  BY <1>2, <1>4 DEF vars, machine, queueVars
<1> QED BY <1>1, <1>3, <1>4 DEF Next, PageStep

\* A chuck that nobody is to turn only comes to rest, and nothing is printed of it.
LEMMA MachineNoSpin ==
    ASSUME QueueTypeOK, QueueOrder, Firmware \/ PowerLoss \/ Die, ~Boots,
           Pending' \in SUBSET Pending, NoSpin
    PROVE  NoSpin' /\ (UNCHANGED rotor \/ rotor' = "rest") /\ Silent(printed')
<1>0. /\ \A line \in Pending' : line.kind \notin Spins
      /\ NoLine.kind \notin Spins /\ running.kind \notin Spins
  BY DEF NoSpin, NoLine, Spins
<1>1. CASE /\ UNCHANGED <<running, lastStarted>> /\ Mute(printed')
           /\ UNCHANGED rotor \/ rotor' = "rest"
  BY <1>0, <1>1 DEF NoSpin, Mute, Silent
<1>2. ASSUME NEW line, NEW reports \in Seq(Reports), Silent(reports),
             printed' = Append(reports, Ok(line))
      PROVE  Silent(printed')
  <2>1. Ok(line).what \notin Markers
    BY DEF Ok, Markers
  <2>2. \A i \in 1..Len(printed') : printed'[i] = Ok(line) \/ (i \in 1..Len(reports) /\ printed'[i] = reports[i])
    BY <1>2
  <2> QED BY <1>2, <2>1, <2>2 DEF Silent
<1>3. ASSUME NEW line, running' = NoLine, UNCHANGED rotor,
             NEW reports \in Seq(Reports), Mute(reports), printed' = Append(reports, Ok(line))
      PROVE  NoSpin' /\ UNCHANGED rotor /\ Silent(printed')
  <2>1. Silent(reports)
    BY <1>3 DEF Mute, Silent
  <2> QED BY <1>0, <1>2, <1>3, <2>1 DEF NoSpin
<1>4. ASSUME NEW line, Beginning(line)
      PROVE  NoSpin' /\ UNCHANGED rotor /\ Silent(printed')
  <2>1. line = ring[1] /\ ring # <<>>
    BY <1>4, DispatchedLine DEF Beginning, Begin
  <2>2. line.kind \notin Spins
    BY <2>1, PendingLines DEF NoSpin
  <2>3. running' = line /\ UNCHANGED rotor /\ printed' = <<>>
    BY <1>4, <2>2 DEF Beginning, Begin, Spins
  <2>4. Len(printed') = 0
    BY <2>3
  <2> QED BY <1>0, <2>2, <2>3, <2>4 DEF NoSpin, Silent
<1>5. ASSUME running' = NoLine, NEW reports \in Seq(Reports), reports = <<>>,
             printed' = Append(reports, Ok(running)), UNCHANGED rotor
      PROVE  NoSpin' /\ UNCHANGED rotor /\ Silent(printed')
  <2>1. Len(<<>>) = 0
    OBVIOUS
  <2>2. Silent(reports)
    BY <1>5, <2>1 DEF Silent
  <2> QED BY <1>0, <1>2, <1>5, <2>2 DEF NoSpin
<1> QED BY <1>0, <1>1, <1>3, <1>4, <1>5, FirmwareTells

LEMMA SilentLink ==
    ASSUME link \in Seq(Reports), NEW s \in Seq(Reports), link' = link \o s, Silent(link), Silent(s)
    PROVE  Silent(link)'
<1>1. /\ Len(link) \in Nat
      /\ \A i \in 1..Len(link) : link'[i] = link[i]
      /\ \A i \in 1..Len(link') : i > Len(link) =>
            i - Len(link) \in 1..Len(s) /\ link'[i] = s[i - Len(link)]
  BY LinkAppends
<1>2. \A i \in 1..Len(link') : i > Len(link) \/ i \in 1..Len(link)
  BY <1>1
<1> QED BY <1>1, <1>2 DEF Silent

\* The Mega has been up all the time that the page takes it to be.
LEMMA MachineAwake ==
    ASSUME Sound, Machine \/ Accidents, connected, Awake'
    PROVE  /\ Awake /\ ~Boots /\ (Firmware \/ PowerLoss \/ Die)
           /\ link' = link \o printed' /\ printed' \in Seq(Reports)
<1>0. QueueTypeOK /\ QueueOrder /\ link \in Seq(Reports) /\ (Firmware \/ Accident)
  BY DEF Sound, TypeOK, CellTypeOK, Machine, Accidents
<1>1. ~Boots /\ ~StartUnread
  BY <1>0, LinkGrows DEF Awake
<1>2. ~Restarts
  BY DEF Restarts, Awake
<1>3. Firmware \/ PowerLoss \/ Die
  BY <1>0, <1>2 DEF Accident
<1>4. mega = "up"
  <2>1. CASE Firmware
    BY <1>1, <2>1, FirmwareSteps DEF FetchLine, Ending, RotorStops, Die, Immediate, Beginning, Awake
  <2>2. CASE PowerLoss \/ Die
    BY <2>2 DEF PowerLoss, Die
  <2> QED BY <1>3, <2>1, <2>2
<1>5. link' = link \o printed' /\ printed' \in Seq(Reports)
  BY <1>0, FirmwareQueue, AccidentQueue DEF Firmware, Accident, Transmit, QueueTypeOK
<1> QED BY <1>1, <1>3, <1>4, <1>5 DEF Awake

LEMMA MachineTurns ==
    ASSUME QueueTypeOK, QueueOrder, LinkIds, link \in Seq(Reports), printed' \in Seq(Reports),
           Firmware \/ PowerLoss \/ Die, ~Boots, UNCHANGED <<sent, verdict>>,
           link' = link \o printed', lastStarted' = sent,
           NEW kind \in Spins, lastStarted = sent => TurnInv(kind),
           \A line \in Pending : line.id = sent => line.kind = kind
    PROVE  TurnInv(kind)'
<1>0. /\ Len(link') = Len(link) + Len(printed') /\ Len(link) \in Nat /\ Len(printed') \in Nat
      /\ \A i \in 1..Len(link) : i \in 1..Len(link') /\ link'[i] = link[i]
      /\ \A i \in 1..Len(link') : i > Len(link) =>
            i - Len(link) \in 1..Len(printed') /\ link'[i] = printed'[i - Len(link)]
  BY LinkAppends
<1>1. \A i \in 1..Len(link') : i > Len(link) \/ i \in 1..Len(link)
  BY <1>0
<1>2. ASSUME NEW line, Dispatch(line)
      PROVE  line.kind = kind /\ line.id = sent /\ lastStarted < sent /\ sent \in Nat /\ lastStarted \in Nat
  <2>1. line = ring[1] /\ ring # <<>> /\ lastStarted < line.id /\ lastStarted' = line.id
    BY <1>2, DispatchedLine
  <2> QED BY <2>1, PendingLines DEF QueueTypeOK
<1>3. CASE /\ UNCHANGED <<running, lastStarted>> /\ Mute(printed')
           /\ UNCHANGED rotor \/ rotor' = "rest"
  <2>1. TurnInv(kind) /\ Silent(printed')
    BY <1>3 DEF Mute, Silent
  <2>2. rotor' = "turning" => ~Tells(kind)'
    BY <1>3, <2>1, SilentTells DEF TurnInv
  <2>3. ASSUME NEW i \in 1..Len(link'), NEW j \in 1..Len(link'), link'[i].what = "ok",
               link'[i].id = sent, i < j
        PROVE  link'[j].what \notin Markers
    <3>1. i \in 1..Len(link) /\ link'[i] = link[i]
      BY <1>0, <1>1, <1>3, <2>3 DEF Mute
    <3>2. CASE j \in 1..Len(link)
      BY <1>0, <2>1, <2>3, <3>1, <3>2 DEF TurnInv
    <3>3. CASE j > Len(link)
      BY <1>0, <1>3, <3>3 DEF Mute
    <3> QED BY <1>1, <3>2, <3>3
  <2> QED BY <2>2, <2>3 DEF TurnInv
<1>4. ASSUME NEW line, Beginning(line) PROVE TurnInv(kind)'
  <2>1. line.kind = kind /\ line.id = sent /\ lastStarted < sent /\ sent \in Nat /\ lastStarted \in Nat
    BY <1>2, <1>4 DEF Beginning, Begin
  <2>2. PICK what \in {"spin", "homing"} :
           printed' = Report(what) /\ what \in Revokes(kind) /\ what # Concludes(kind)
    BY <1>4, <2>1 DEF Beginning, Begin, Spins, Revokes, Concludes
  <2>3. ~Tells(kind)'
    BY <2>2, RevokedTells
  <2>4. ASSUME NEW i \in 1..Len(link'), link'[i].what = "ok", link'[i].id = sent PROVE FALSE
    <3>1. \A m \in 1..Len(printed') : printed'[m].what # "ok"
      BY <2>2 DEF Report
    <3>2. i \in 1..Len(link) /\ link'[i] = link[i]
      BY <1>0, <1>1, <2>4, <3>1
    <3> QED BY <2>1, <2>4, <3>2 DEF LinkIds
  <2> QED BY <2>3, <2>4 DEF TurnInv
<1>5. ASSUME link = <<>>, UNCHANGED lastStarted,
             NEW reports \in Seq(Reports), \A i \in 1..Len(reports) : reports[i].what # "ok",
             printed' = Append(reports, Ok(running)),
             (reports = <<>> /\ UNCHANGED rotor) \/ rotor' = "rest"
      PROVE  TurnInv(kind)'
  <2>1. TurnInv(kind) /\ link' = printed'
    BY <1>5
  <2>2. \A i \in 1..Len(link') :
           link'[i].what = "ok" => i = Len(link')
    BY <1>5, <2>1
  <2>3. ASSUME rotor' = "turning" PROVE ~Tells(kind)'
    <3>1. UNCHANGED rotor /\ Len(printed') = 1 /\ printed'[1] = Ok(running)
      BY <1>5, <2>3
    <3>2. Silent(printed')
      BY <3>1 DEF Silent, Ok, Markers
    <3> QED BY <2>1, <2>3, <3>1, <3>2, SilentTells DEF TurnInv
  <2>4. Len(link') \in Nat
    BY <1>0
  <2> QED BY <2>2, <2>3, <2>4 DEF TurnInv
<1>6. ASSUME NEW line, Dispatch(line), line.kind \notin Spins PROVE FALSE
  BY <1>2, <1>6
<1> QED BY <1>3, <1>4, <1>5, <1>6, FirmwareTells

LEMMA MachineChuck ==
    ASSUME Sound, CellInv, WaitInv, LinkIds, EntryInv, CleanInv, ChuckInv, Machine \/ Accidents
    PROVE  ChuckInv'
<1> SUFFICES ASSUME Active', ~misheard', spun', Awake'
             PROVE  /\ ~Spinning' => rotor' = "rest" /\ NoSpin'
                    /\ Spinning' /\ seq' = "answered" =>
                          NoSpin' /\ Silent(link)' /\ (verdict' = "complete" => rotor' = "rest")
                    /\ Spinning' /\ seq' = "waiting" /\ lastStarted' = sent' => TurnInv(todo[1])'
  BY DEF ChuckInv
<1>0. QueueTypeOK /\ QueueOrder /\ link \in Seq(Reports) /\ RunInv /\ rotor \in {"rest", "turning"}
  BY DEF Sound, TypeOK, CellTypeOK
<1>1. /\ UNCHANGED <<seq, todo, waiter, fault, verdict, misheard, spun>>
      /\ UNCHANGED sent /\ Pending' \in SUBSET Pending
  BY MachineShrinks DEF Machine, Accidents, trackVars, runVars
<1>2. Active /\ ~misheard /\ spun /\ (Spinning' <=> Spinning) /\ connected
  BY <1>0, <1>1 DEF Active, Spinning, InFlight, RunInv
<1>3. /\ Awake /\ ~Boots /\ (Firmware \/ PowerLoss \/ Die)
      /\ link' = link \o printed' /\ printed' \in Seq(Reports)
  BY <1>2, MachineAwake
<1>4. NoSpin => NoSpin' /\ (UNCHANGED rotor \/ rotor' = "rest") /\ Silent(printed')
  BY <1>0, <1>1, <1>3, MachineNoSpin
<1>5. /\ ~Spinning => rotor = "rest" /\ NoSpin
      /\ Spinning /\ seq = "answered" =>
            NoSpin /\ Silent(link) /\ (verdict = "complete" => rotor = "rest")
      /\ Spinning /\ seq = "waiting" /\ lastStarted = sent => TurnInv(todo[1])
  BY <1>2, <1>3 DEF ChuckInv
<1>6. CASE ~Spinning
  BY <1>2, <1>4, <1>5, <1>6
<1>7. CASE Spinning /\ seq = "answered"
  <2>1. Silent(link)'
    BY <1>0, <1>3, <1>4, <1>5, <1>7, SilentLink
  <2> QED BY <1>1, <1>2, <1>4, <1>5, <1>7, <2>1
<1>8. CASE Spinning /\ seq = "waiting"
  <2>1. todo[1] \in Spins /\ waiter = sent /\ waiter # 0
    BY <1>2, <1>8 DEF CleanInv, Spinning, EntryInv
  <2>2. \A line \in Pending : line.id = sent => line.kind = todo[1]
    BY <2>1 DEF EntryInv
  <2>3. ASSUME lastStarted' = sent PROVE TurnInv(todo[1])'
    <3>1. PICK k \in Spins : k = todo[1]
      BY <2>1
    <3>2. TurnInv(k)'
      BY <1>0, <1>1, <1>3, <1>5, <1>8, <2>2, <2>3, <3>1, MachineTurns
    <3>3. todo'[1] = k
      BY <1>1, <3>1
    <3> QED BY <3>2, <3>3 DEF TurnInv, Tells
  <2> QED BY <1>1, <1>2, <1>8, <2>3
<1>9. Spinning => seq \in {"waiting", "answered"}
  BY DEF Spinning, InFlight
<1> QED BY <1>6, <1>7, <1>8, <1>9

\* Once the last line sent has ended, none is on its way.
LEMMA AllEnded ==
    ASSUME QueueTypeOK, QueueOrder, sent <= lastStarted, running = NoLine
    PROVE  Pending = {} /\ lastStarted = sent /\ NoSpin
<1>1. /\ sent \in Nat /\ lastStarted \in Nat
      /\ \A i \in 1..Len(ring) : ring[i] \in Lines /\ ring[i].id \in Nat
      /\ \A j \in 1..Len(rx) : rx[j] \in Lines /\ rx[j].id \in Nat
      /\ NoLine \notin Lines
  BY LineTypes DEF QueueTypeOK
<1>2. \A i \in 1..Len(ring) : FALSE
  BY <1>1 DEF QueueOrder
<1>3. \A j \in 1..Len(rx) : FALSE
  BY <1>1 DEF QueueOrder
<1>4. Pending = {}
  BY <1>2, <1>3 DEF Pending
<1>5. lastStarted = sent
  BY <1>1 DEF QueueOrder
<1> QED BY <1>4, <1>5 DEF NoSpin, NoLine, Spins

LEMMA ReadTurns ==
    ASSUME link \in Seq(Reports), link # <<>>, link' = Tail(link), UNCHANGED <<rotor, sent>>,
           NEW kind, TurnInv(kind),
           \/ Head(link).what \notin Markers /\ UNCHANGED verdict
           \/ verdict' = CASE verdict = "none" -> "none"
                           [] kind = "M752" -> IndexRx(Head(link).what)
                           [] OTHER -> LidRx(Head(link).what)
    PROVE  TurnInv(kind)'
<1>1. Tells(kind)' => Tells(kind)
  BY ReadTells
<1>2. \A i \in 1..Len(link') : i + 1 \in 1..Len(link) /\ link'[i] = link[i + 1]
  BY StepTail
<1>3. ASSUME NEW i \in 1..Len(link'), NEW j \in 1..Len(link'), link'[i].what = "ok",
             link'[i].id = sent, i < j
      PROVE  link'[j].what \notin Markers
  <2>1. /\ i + 1 \in 1..Len(link) /\ link'[i] = link[i + 1]
        /\ j + 1 \in 1..Len(link) /\ link'[j] = link[j + 1]
    BY <1>2
  <2>2. i + 1 < j + 1
    BY <1>3
  <2> QED BY <1>3, <2>1, <2>2 DEF TurnInv
<1> QED BY <1>1, <1>3 DEF TurnInv

\* The ok of the line that turns the chuck: what the page takes the chuck for is true.
LEMMA ReadEnd ==
    ASSUME link \in Seq(Reports), link # <<>>, link' = Tail(link), NEW kind, TurnInv(kind),
           Head(link).what = "ok", Head(link).id = sent, UNCHANGED <<rotor, verdict>>,
           rotor \in {"rest", "turning"}
    PROVE  Silent(link)' /\ (verdict' = "complete" => rotor' = "rest")
<1>1. /\ Len(link) \in Nat \ {0} /\ Head(link) = link[1]
      /\ \A i \in 1..Len(link') : i + 1 \in 1..Len(link) /\ link'[i] = link[i + 1]
  BY StepTail
<1>2. /\ 1 \in 1..Len(link) /\ \A j \in 1..Len(link) : j = 1 \/ 1 < j
      /\ \A i \in 1..Len(link') : 1 < i + 1
  BY <1>1
<1>3. \A j \in 1..Len(link) : link[j].what \notin Markers
  <2>1. "ok" \notin Markers
    BY DEF Markers
  <2> QED BY <1>1, <1>2, <2>1 DEF TurnInv
<1>4. Silent(link)'
  BY <1>1, <1>3 DEF Silent
<1>5. Revokes(kind) \subseteq Markers
  BY DEF Revokes, Markers
<1>6. verdict = "complete" => Tells(kind)
  BY <1>3, <1>5 DEF Tells
<1> QED BY <1>4, <1>6 DEF TurnInv

LEMMA PageChuck ==
    ASSUME TypeOK, QueueOrder, RunInv, StartInv, LinkIds, EntryInv, CleanInv, ChuckInv, PageStep
    PROVE  ChuckInv'
<1> SUFFICES ASSUME Active', ~misheard', spun', Awake'
             PROVE  /\ ~Spinning' => rotor' = "rest" /\ NoSpin'
                    /\ Spinning' /\ seq' = "answered" =>
                          NoSpin' /\ Silent(link)' /\ (verdict' = "complete" => rotor' = "rest")
                    /\ Spinning' /\ seq' = "waiting" /\ lastStarted' = sent' => TurnInv(todo[1])'
  BY DEF ChuckInv
<1>0. /\ QueueTypeOK /\ link \in Seq(Reports) /\ rotor \in {"rest", "turning"}
      /\ sent \in Nat /\ lastStarted \in Nat /\ lastStarted <= sent
  BY DEF TypeOK, CellTypeOK, QueueTypeOK, QueueOrder
<1>1. UNCHANGED <<link, mega>> => Awake
  BY DEF Awake, StartUnread
<1>2. ASSUME NothingSent PROVE UNCHANGED <<link, mega, rotor>> /\ (NoSpin => NoSpin')
  BY <1>2 DEF NothingSent, queueVars, cellVars, NoSpin, Pending
<1>3. CASE Advance /\ Command
  <2>1. /\ Active /\ ~misheard /\ seq = "next" /\ ~Spinning
        /\ todo # <<>> /\ todo[1] \in Kinds /\ Write(<<todo[1]>>) /\ UNCHANGED <<todo, link>>
        /\ seq' = "waiting" /\ spun' = (spun \/ todo[1] \in Spins)
    BY <1>3 DEF Advance, Command, SendStep, SendAwaited, Active, RunInv, Spinning, InFlight
  <2>2. <<todo[1]>> \in Seq(Kinds) /\ Len(<<todo[1]>>) = 1
    BY <2>1, OneLine
  <2>3. UNCHANGED <<mega, rotor, running, lastStarted>> /\ sent' = sent + 1
    BY <2>1, <2>2 DEF Write, cellVars
  <2>4. CASE todo[1] \in Spins
    <3>1. ~(lastStarted' = sent')
      BY <1>0, <2>3
    <3>2. Spinning'
      BY <2>1, <2>4 DEF Spinning, InFlight
    <3> QED BY <2>1, <3>1, <3>2
  <2>5. CASE todo[1] \notin Spins
    <3>1. ~Spinning'
      BY <2>1, <2>5 DEF Spinning
    <3>2. rotor = "rest" /\ NoSpin /\ mega = "up"
      BY <1>1, <2>1, <2>3, <2>5 DEF ChuckInv, Awake
    <3> PICK kinds \in Seq(Kinds) : kinds = <<todo[1]>>
      BY <2>2
    <3>3. Write(kinds) /\ \A i \in 1..Len(kinds) : kinds[i] \notin Spins
      <4>1. Write(kinds)
        BY <2>1 DEF Write, Quiet
      <4>2. \A i \in 1..Len(kinds) : kinds[i] = todo[1]
        BY <2>2
      <4> QED BY <2>5, <4>1, <4>2
    <3>4. \A line \in Pending' : line.kind \notin Spins
      <4> TAKE line \in Pending'
      <4>1. line \in Pending \/ \E i \in 1..Len(kinds) : line = rx'[Len(rx) + i]
        BY <1>0, <3>2, <3>3, WritePending
      <4>2. \A i \in 1..Len(kinds) : rx'[Len(rx) + i].kind = kinds[i]
        BY <1>0, <3>2, <3>3, WritePending
      <4> QED BY <3>2, <3>3, <4>1, <4>2 DEF NoSpin
    <3> QED BY <2>3, <3>1, <3>2, <3>4 DEF NoSpin
  <2> QED BY <2>4, <2>5
<1>4. CASE Advance /\ (NextBlock \/ Check)
  <2>1. /\ Active /\ ~misheard /\ spun /\ NothingSent /\ ~Spinning /\ ~Spinning'
    BY <1>4 DEF Advance, NextBlock, Check, Active, RunInv, Spinning, InFlight
  <2> QED BY <1>1, <1>2, <2>1 DEF ChuckInv
<1>5. CASE StartRun
  BY <1>5 DEF StartRun
<1>6. CASE Active /\ ~due /\ seq = "answered" /\ StepDone /\ seq' = "next" /\ UNCHANGED fault
  <2>1. ~misheard /\ spun /\ NothingSent /\ ~Spinning' /\ (Spinning => verdict = "complete")
    BY <1>6 DEF StepDone, Spinning, InFlight, Passed
  <2> QED BY <1>1, <1>2, <1>6, <2>1 DEF ChuckInv
<1>7. CASE Active /\ SleepEnds
  <2>1. ~misheard /\ spun /\ NothingSent /\ ~Spinning /\ ~Spinning'
    BY <1>7 DEF SleepEnds, Spinning, InFlight
  <2> QED BY <1>1, <1>2, <1>7, <2>1 DEF ChuckInv
<1>8. CASE Active /\ LidClosed
  BY <1>8 DEF LidClosed, CleanInv, Clean
<1>9. CASE /\ Active /\ HandleLine
           /\ LET what == Head(link).what IN
                 MarkerLine(what) \/ SpinLine(what) \/ OkLine(what)
  <2>1. /\ UNCHANGED <<sent, rx, ring, running, lastStarted, mega, rotor, todo, spun>>
        /\ link # <<>> /\ link' = Tail(link)
    BY <1>9 DEF HandleLine, queueVars, cellVars
  <2>2. Head(link) = link[1] /\ 1 \in 1..Len(link) /\ \A i \in 1..Len(link') : link'[i] = link[i + 1]
    <3>1. Len(link) \in Nat \ {0}
      BY <1>0, <2>1, StepTail
    <3> QED BY <1>0, <2>1, <3>1, StepTail
  <2>3. Head(link).what # "start"
    BY <1>9 DEF MarkerLine, SpinLine, OkLine
  <2>4. Awake
    BY <2>1, <2>2, <2>3 DEF Awake, StartUnread, StartInv
  <2>5. ~misheard /\ (seq' = seq \/ (seq = "waiting" /\ seq' = "answered")) /\ (Spinning' <=> Spinning)
    BY <1>9, <2>1 DEF MarkerLine, SpinLine, OkLine, RunInv, Spinning, InFlight
  <2>6. /\ ~Spinning => rotor = "rest" /\ NoSpin
        /\ Spinning /\ seq = "answered" =>
              NoSpin /\ Silent(link) /\ (verdict = "complete" => rotor = "rest")
        /\ Spinning /\ seq = "waiting" /\ lastStarted = sent => TurnInv(todo[1])
    BY <1>9, <2>1, <2>4, <2>5 DEF ChuckInv
  <2>7. NoSpin' <=> NoSpin
    BY <2>1 DEF NoSpin, Pending
  <2>8. CASE ~Spinning
    BY <2>1, <2>5, <2>6, <2>7, <2>8
  <2>9. CASE Spinning /\ seq = "answered"
    <3>1. Silent(link) /\ Head(link).what \notin Markers
      BY <2>2, <2>6, <2>9 DEF Silent
    <3>2. UNCHANGED verdict
      BY <1>9, <3>1 DEF MarkerLine, SpinLine, OkLine, Markers
    <3>3. \A i \in 1..Len(link') : i + 1 \in 1..Len(link)
      BY <1>0, <2>1, StepTail
    <3>4. Silent(link)'
      BY <2>2, <3>1, <3>3 DEF Silent
    <3> QED BY <2>1, <2>5, <2>6, <2>7, <2>9, <3>2, <3>4
  <2>10. CASE Spinning /\ seq = "waiting" /\ seq' = "answered"
    <3>1. /\ Head(link).what = "ok" /\ Head(link).id = waiter /\ UNCHANGED verdict
      BY <1>9, <2>10 DEF MarkerLine, SpinLine, OkLine, Spinning, InFlight
    <3>2. waiter = sent
      BY <1>9, <2>10 DEF CleanInv, Spinning
    <3>3. running = NoLine /\ sent <= lastStarted
      BY <1>0, <2>2, <3>1, <3>2 DEF LinkIds
    <3>4. NoSpin /\ lastStarted = sent
      BY <1>0, <3>3, AllEnded
    <3>5. TurnInv(todo[1])
      BY <2>6, <2>10, <3>4
    <3>6. Silent(link)' /\ (verdict' = "complete" => rotor' = "rest")
      BY <1>0, <2>1, <3>1, <3>2, <3>5, ReadEnd
    <3> QED BY <2>5, <2>7, <2>10, <3>4, <3>6
  <2>11. CASE Spinning /\ seq = "waiting" /\ seq' = "waiting"
    <3>1. ASSUME lastStarted = sent PROVE TurnInv(todo[1])'
      <4>1. \/ Head(link).what \notin Markers /\ UNCHANGED verdict
            \/ verdict' = CASE verdict = "none" -> "none"
                            [] todo[1] = "M752" -> IndexRx(Head(link).what)
                            [] OTHER -> LidRx(Head(link).what)
        BY <1>9 DEF MarkerLine, SpinLine, OkLine, Markers
      <4>2. PICK k : k = todo[1]
        OBVIOUS
      <4>3. TurnInv(k)'
        BY <1>0, <2>1, <2>6, <2>11, <3>1, <4>1, <4>2, ReadTurns
      <4>4. todo'[1] = k
        BY <2>1, <4>2
      <4> QED BY <4>3, <4>4 DEF TurnInv, Tells
    <3> QED BY <2>1, <2>5, <2>11, <3>1
  <2>12. Spinning => seq \in {"waiting", "answered"}
    BY DEF Spinning, InFlight
  <2> QED BY <2>5, <2>8, <2>9, <2>10, <2>11, <2>12
<1> QED BY <1>3, <1>4, <1>5, <1>6, <1>7, <1>8, <1>9, RunStays DEF Advance

ChuckPromise == LinkIds /\ EntryInv /\ CleanInv /\ ChuckInv

LEMMA ChuckInit == Init => ChuckPromise
<1> SUFFICES ASSUME Init PROVE ChuckPromise
  OBVIOUS
<1>1. /\ link = <<>> /\ ledger = <<>> /\ waiter = 0 /\ seq = "idle" /\ ~fault
      /\ Len(<<>>) = 0
  BY DEF Init, CellInit
<1>2. LinkIds /\ EntryInv
  BY <1>1 DEF LinkIds, EntryInv
<1>3. ~Active
  BY <1>1 DEF Active
<1> QED BY <1>2, <1>3 DEF ChuckPromise, CleanInv, ChuckInv

LEMMA ChuckStep ==
    ASSUME Sound, CellInv, WaitInv, StartInv, ChuckPromise, [Next]_vars
    PROVE  ChuckPromise'
<1>0. TypeOK /\ QueueOrder /\ RunInv /\ LinkIds /\ EntryInv /\ CleanInv /\ ChuckInv
  BY DEF Sound, ChuckPromise
<1>1. EntryInv' /\ CleanInv'
  BY <1>0, EntryStep, CleanStep
<1>2. CASE Machine \/ Accidents
  BY <1>0, <1>1, <1>2, MachineLinkIds, MachineChuck DEF ChuckPromise
<1>3. CASE PageStep
  BY <1>0, <1>1, <1>3, PageLinkIds, PageChuck DEF ChuckPromise
<1>4. CASE UNCHANGED vars
  <2>1. LinkIds'
    BY <1>0, <1>4 DEF vars, machine, queueVars, LinkIds
  <2>2. ChuckInv'
    BY <1>0, <1>4 DEF vars, machine, queueVars, cellVars, runVars, ChuckInv, Active, Awake, StartUnread,
       Spinning, InFlight, NoSpin, Pending, Silent, TurnInv, Tells
  <2> QED BY <1>1, <2>1, <2>2 DEF ChuckPromise
<1> QED BY <1>2, <1>3, <1>4 DEF Next, PageStep

\* Between its spins the chuck of a run is at rest with no spin on its way, and what
\* the page takes it for after one holds good; the ledger has the line waited for
\* behind every Start Spin, and a run that spins has none outstanding.
THEOREM ChuckKnown == Spec => [](EntryInv /\ CleanInv /\ ChuckInv)
<1> DEFINE I == Sound /\ CellInv /\ WaitInv /\ LidPromise /\ ChuckPromise
<1>1. Init => I
  BY SoundInit, KnownInit, WaitInit, LidInit, ChuckInit DEF KnownInv
<1>2. I /\ [Next]_vars => I'
  <2>1. LidPromise => StartInv
    BY DEF LidPromise
  <2> QED BY <2>1, SoundStep, CellStep, WaitStep, LidStep, ChuckStep
<1>3. I => EntryInv /\ CleanInv /\ ChuckInv
  BY DEF ChuckPromise
<1> QED BY <1>1, <1>2, <1>3, PTL DEF Spec

\* By which lines the lid is opened.
LEMMA LidOpens ==
    ASSUME [Next]_vars, TypeOK, QueueOrder, lid = "closed", lid' = "open"
    PROVE  /\ mega = "up" /\ ring # <<>> /\ lastStarted' = ring[1].id /\ running = NoLine
           /\ ring[1].kind \in Openers
<1>0. QueueTypeOK
  BY DEF TypeOK, CellTypeOK
<1>1. ~PageStep
  BY PageEffect DEF PageWrites, Write, PageQuiet, Restarts, cellVars
<1>2. Firmware
  <2>1. ~Accident /\ ~UNCHANGED vars
    BY DEF Accident, PowerLoss, Die, Restarts, vars, machine, cellVars
  <2> QED BY <1>1, <2>1 DEF Next, PageStep, Machine, Accidents
<1>3. \E line : Immediate(line) \/ Beginning(line)
  BY <1>2, FirmwareSteps DEF FetchLine, Ending, MoveEnds, HomingEnds, SpinEnds, RotorStops, Die, Boots,
     cellVars
<1>4. PICK line : Immediate(line) \/ Beginning(line)
  BY <1>3
<1>5. mega = "up" /\ Dispatch(line)
  BY <1>4, ImmediateQueue DEF Immediate, Beginning, Begin
<1>6. line = ring[1] /\ ring # <<>> /\ lastStarted' = line.id /\ running = NoLine
  BY <1>0, <1>5, DispatchedLine DEF Dispatch
<1>7. line.kind \in Openers
  BY <1>4 DEF Immediate, Beginning, Begin, Refuse, SwitchRelay, SetMode, MoveLid, Remark, Openers, cellVars
<1> QED BY <1>5, <1>6, <1>7

\* The lid that a run opens is over a chuck at rest, if the run has spun and heard
\* its own oks only (ADR 0017).
THEOREM OpensHeld == Spec => OpensOverStoppedChuck
<1> DEFINE I == Sound /\ StartInv /\ EntryInv /\ ChuckInv
           Goal == lid = "closed" /\ lid' = "open" /\ spun /\ lastStarted' = waiter
                      => rotor = "rest" \/ misheard
<1>1. ASSUME I, [Next]_vars, lid = "closed", lid' = "open", spun, lastStarted' = waiter, ~misheard
      PROVE  rotor = "rest"
  <2>0. TypeOK /\ QueueTypeOK /\ QueueOrder /\ RunInv /\ StartInv /\ EntryInv /\ ChuckInv
    BY <1>1 DEF Sound, TypeOK, CellTypeOK
  <2>1. /\ mega = "up" /\ ring # <<>> /\ ring[1].id = waiter /\ ring[1].kind \in Openers
        /\ ring[1] \in Pending
    BY <1>1, <2>0, LidOpens, PendingLines
  <2>2. waiter # 0
    BY <2>0, <2>1, LineTypes, StepTail DEF QueueTypeOK
  <2>3. Active /\ ring[1].kind = todo[1]
    BY <2>0, <2>1, <2>2 DEF RunInv, EntryInv, Active
  <2>4. ~Spinning
    BY <2>1, <2>3, LidKinds DEF Spinning, Openers
  <2>5. Awake
    BY <2>0, <2>1 DEF Awake, StartUnread, StartInv
  <2> QED BY <1>1, <2>0, <2>3, <2>4, <2>5 DEF ChuckInv
<1>2. I /\ [Next]_vars => [Goal]_vars
  BY <1>1
<1> QED BY <1>2, SoundHolds, LidTracked, ChuckKnown, PTL DEF Spec, OpensOverStoppedChuck
=============================================================================
