-------------------------- MODULE MotorPowerProofs --------------------------
(* What is proved of the command queue with the motor-power sense: types,    *)
(* the order of the lines as an implementation of LineOrder, and what a loss *)
(* of the motor power leaves behind.                                         *)
EXTENDS MotorPowerProperties, GcodeQueueProofs

LEMMA InitOK == Init => TypeOK /\ QueueOrder /\ LinesAfterLoss /\ RefusalInv
<1> SUFFICES ASSUME Init PROVE TypeOK /\ QueueOrder /\ LinesAfterLoss /\ RefusalInv
  OBVIOUS
<1> USE DEF Init, QueueInit
<1>1. QueueTypeOK
  BY BufSizeAssumption, RxAssumption DEF QueueTypeOK
<1>2. TypeOK
  <2>1. moves \in 0..MaxMoves /\ relay \in Nat /\ cleared \in Nat
    BY MovesAssumption
  <2> QED BY <1>1, <2>1 DEF TypeOK
<1>3. QueueOrder
  BY DEF QueueOrder, Ascending, NoLine
<1>4. LinesAfterLoss
  BY DEF LinesAfterLoss, RelayOnlyOnAfterLoss
<1>5. RefusalInv
  BY DEF RefusalInv, NoMovesUntilHomed
<1> QED BY <1>2, <1>3, <1>4, <1>5

\* The ways in which a step of the system touches the queue.
SendStep     == \E kind \in Kinds : SendLine(kind) /\ UNCHANGED <<ring, running, lastStarted>>
FetchStep    == Fetch /\ UNCHANGED <<sent, running, lastStarted>>
RunStep(line) ==
    /\ Dispatch(line) /\ UNCHANGED <<sent, rx>>
    /\ \/ \E reports \in Seq(Reports) : Return(line, reports)
       \/ Wait(line)
ReturnStep   == running # NoLine /\ Return(running, <<>>) /\ UNCHANGED <<sent, rx, lastStarted>>
ClearStep    == ClearRing /\ UNCHANGED <<sent, rx, running, lastStarted>>
ResetStep    == /\ rx' = <<>> /\ ring' = <<>> /\ running' = NoLine
                /\ UNCHANGED <<sent, lastStarted>>

RunningLine(line) ==
    /\ ~halted
    /\ Refuse(line) \/ Plan(line) \/ SwitchRelay(line) \/ Nothing(line) \/ Echo(line) \/ Begin(line)
Waited == PlanWaited \/ HomingEnds \/ LongEnds
QuietStep == HomingFails \/ (\E a \in Axes : HomeAxis(a)) \/ MoveDone \/ CleaningEnds
             \/ QuickStop \/ QuickStopEnds \/ TaskArms \/ Contactor \/ Kill

LEMMA Steps ==
    ASSUME Next
    PROVE  \/ HostSends \/ FetchLine \/ TaskLoss \/ Reset \/ Waited \/ QuietStep
           \/ \E line : RunningLine(line)
BY DEF Next, Firmware, World, MainLoop, RunningLine, Waited, QuietStep

LEMMA ReportTypes ==
    /\ <<>> \in Seq(Reports)
    /\ \A what \in {"ok", "lost", "refused", "start", "halted", "marker"} : Report(what) \in Seq(Reports)
BY DEF Reports, Report

LEMMA RunningLineQueue ==
    ASSUME NEW line, RunningLine(line) PROVE RunStep(line)
BY ReportTypes DEF RunningLine, RunStep, Refuse, Plan, SwitchRelay, Nothing, Echo, Begin, Done

LEMMA WaitedQueue == ASSUME TypeOK, Waited PROVE ReturnStep
<1>1. running # NoLine
  BY DEF Waited, PlanWaited, HomingEnds, LongEnds, Moves, Homes, NoLine
<1> QED BY <1>1 DEF ReturnStep, Waited, PlanWaited, HomingEnds, LongEnds, Ended

LEMMA QuietStepQueue == ASSUME QuietStep PROVE printed' \in Seq(Reports) /\ UNCHANGED queueVars
BY ReportTypes DEF QuietStep, HomingFails, HomeAxis, MoveDone, CleaningEnds, QuickStop, QuickStopEnds, TaskArms, Contactor, Kill, Die, Quiet

\* Types and order of the queue, for every step.
LEMMA QueueStep ==
    ASSUME TypeOK, QueueOrder, [Next]_vars
    PROVE  QueueTypeOK' /\ QueueOrder'
<1> USE DEF TypeOK
<1>1. CASE HostSends
  BY <1>1, SendLineQueue DEF HostSends, HostSendsLine
<1>2. CASE FetchLine
  BY <1>2, FetchQueue DEF FetchLine
<1>3. CASE TaskLoss
  BY <1>3, ReportTypes, ClearQueue DEF TaskLoss
<1>4. CASE Reset
  <2>1. printed' \in Seq(Reports)
    BY <1>4, ReportTypes DEF Reset
  <2>2. QueueTypeOK'
    BY <1>4, <2>1, BufSizeAssumption, RxAssumption DEF Reset, QueueTypeOK
  <2>3. QueueOrder'
    BY <1>4 DEF Reset, QueueOrder, Ascending, NoLine
  <2> QED BY <2>2, <2>3
<1>5. CASE Waited
  BY <1>5, ReportTypes, WaitedQueue, ReturnQueue DEF ReturnStep
<1>6. CASE QuietStep
  BY <1>6, QuietStepQueue, QuietQueue
<1>7. CASE \E line : RunningLine(line)
  <2> PICK line : RunningLine(line)
    BY <1>7
  <2>1. RunStep(line)
    BY RunningLineQueue
  <2> QED BY <2>1, ReportTypes, DispatchReturnQueue, DispatchWaitQueue DEF RunStep, Wait, Quiet
<1>8. CASE UNCHANGED vars
  BY <1>8, QuietQueue DEF vars, QueueTypeOK
<1> QED BY <1>1, <1>2, <1>3, <1>4, <1>5, <1>6, <1>7, <1>8, Steps

\* The rest of the type invariant: what a step does outside the queue.
Switches ==
    /\ present \in BOOLEAN /\ armed \in BOOLEAN /\ rehome \in BOOLEAN
    /\ cleaning \in BOOLEAN /\ halted \in BOOLEAN
    /\ quickstop \in BOOLEAN /\ stopping \in BOOLEAN /\ stopped \in BOOLEAN
Amounts ==
    /\ homed \subseteq Axes /\ toHome \subseteq Axes
    /\ relay \in Nat /\ moves \in 0..MaxMoves
    /\ cleared \in Nat

LEMMA RunningLineBody ==
    ASSUME TypeOK, QueueOrder, NEW line, RunningLine(line)
    PROVE  /\ Switches' /\ Amounts'
           /\ UNCHANGED <<sent, rx, cleared, armed, rehome, cleaning, halted>>
           /\ relay' \in {0, relay, line.id}
<1> USE DEF TypeOK, body, powerVars, stopVars, motionVars
<1>1. line.id \in Nat /\ toHome' \subseteq Axes
  BY DispatchedLine, AxesAssumption DEF RunningLine, Refuse, Plan, SwitchRelay, Nothing, Echo, Begin, Done, Lines
<1>2. Switches'
  BY Zenon DEF Switches, RunningLine, Refuse, Plan, SwitchRelay, Nothing, Echo, Begin, Done
<1>3. /\ UNCHANGED <<sent, rx, cleared, armed, rehome, cleaning, halted>>
      /\ relay' \in {0, relay, line.id}
  BY DEF RunningLine, Refuse, Plan, SwitchRelay, Nothing, Echo, Begin, Done
<1>4. moves' \in 0..MaxMoves /\ homed' \subseteq Axes
  BY MovesAssumption DEF RunningLine, Refuse, Plan, SwitchRelay, Nothing, Echo, Begin, Done, BufferSteps
<1> QED BY <1>1, <1>2, <1>3, <1>4 DEF Amounts

LEMMA WaitedBody ==
    ASSUME TypeOK, Waited
    PROVE  Switches' /\ Amounts' /\ UNCHANGED <<relay, halted, cleared, cleaning>>
<1> USE DEF TypeOK, Waited, PlanWaited, HomingEnds, LongEnds, Ended, motionVars, stopVars
<1>1. Switches'
  BY Zenon DEF Switches
<1>2. UNCHANGED <<relay, halted, cleared, cleaning>>
  OBVIOUS
<1>3. Amounts'
  BY MovesAssumption DEF Amounts, BufferSteps
<1> QED BY <1>1, <1>2, <1>3

LEMMA QuietStepBody ==
    ASSUME TypeOK, QuietStep
    PROVE  /\ Switches' /\ Amounts'
           /\ UNCHANGED <<cleared, rehome>>
           /\ UNCHANGED <<relay, halted>> \/ relay' = 0
<1> USE DEF TypeOK, QuietStep, HomingFails, HomeAxis, MoveDone, CleaningEnds, QuickStop,
       QuickStopEnds, TaskArms, Contactor, Kill, Die, AllOff, powerVars, stopVars, motionVars
<1>1. Switches'
  BY Zenon DEF Switches
<1>2. UNCHANGED <<cleared, rehome>> /\ (UNCHANGED <<relay, halted>> \/ relay' = 0)
  OBVIOUS
<1>3. Amounts'
  BY MovesAssumption DEF Amounts
<1> QED BY <1>1, <1>2, <1>3

LEMMA TaskLossBody ==
    ASSUME TypeOK, QueueOrder, TaskLoss
    PROVE  /\ Switches' /\ Amounts'
           /\ cleared' = cleared \/ \E i \in 1..Len(ring) : cleared' = ring[i].id
<1>1. cleared' = cleared \/ \E i \in 1..Len(ring) : cleared' = ring[i].id
  BY DEF TaskLoss, TypeOK, QueueTypeOK
<1>2. cleared' \in Nat
  BY <1>1, LineTypes DEF TypeOK
<1>3. Switches'
  BY Zenon DEF Switches, TypeOK, TaskLoss, stopVars
<1>4. Amounts'
  BY <1>2, MovesAssumption DEF Amounts, TypeOK, QueueTypeOK, TaskLoss, AllOff
<1> QED BY <1>1, <1>3, <1>4

LEMMA ResetBody ==
    ASSUME TypeOK, Reset
    PROVE  Switches' /\ Amounts'
<1>1. Switches'
  BY Zenon DEF Switches, TypeOK, Reset
<1>2. Amounts'
  BY MovesAssumption DEF Amounts, Reset
<1> QED BY <1>1, <1>2

LEMMA BodyStep == ASSUME TypeOK, QueueOrder, [Next]_vars PROVE Switches' /\ Amounts'
<1>1. CASE HostSends \/ FetchLine \/ UNCHANGED vars
  BY <1>1 DEF HostSends, HostSendsLine, FetchLine, vars, body, powerVars, stopVars, motionVars,
     TypeOK, Switches, Amounts
<1>2. CASE TaskLoss
  BY <1>2, TaskLossBody
<1>3. CASE Reset
  BY <1>3, ResetBody
<1>4. CASE Waited
  BY <1>4, WaitedBody
<1>5. CASE QuietStep
  BY <1>5, QuietStepBody
<1>6. CASE \E line : RunningLine(line)
  BY <1>6, RunningLineBody
<1> QED BY <1>1, <1>2, <1>3, <1>4, <1>5, <1>6, Steps

\* Every variable keeps its type, and the ring and the receive buffer never hold
\* more lines than fit.
THEOREM PowerTypes == Spec => [](TypeOK /\ QueueOrder)
<1>1. TypeOK /\ QueueOrder /\ [Next]_vars => TypeOK' /\ QueueOrder'
  BY QueueStep, BodyStep DEF TypeOK, Switches, Amounts
<1> QED BY <1>1, InitOK, PTL DEF Spec

-----------------------------------------------------------------------------
(* What a loss of the motor power leaves behind.                           *)

\* The lines left in the ring were there before.
Remain ==
    \A i \in 1..Len(ring') :
       \/ i \in 1..Len(ring) /\ ring'[i] = ring[i]
       \/ i + 1 \in 1..Len(ring) /\ ring'[i] = ring[i + 1]

LEMMA AdvanceRemain == ASSUME QueueTypeOK, AdvanceR PROVE Remain
<1>1. CASE ring = <<>>
  BY <1>1 DEF AdvanceR, Remain
<1>2. CASE ring # <<>>
  <2>1. ring' = Tail(ring) /\ Len(ring') = Len(ring) - 1 /\ Len(ring) \in Nat
    BY <1>2, HeadTailProperties DEF AdvanceR, QueueTypeOK
  <2>2. \A i \in 1..Len(ring') : ring'[i] = ring[i + 1]
    BY <1>2, <2>1, HeadTailProperties DEF QueueTypeOK
  <2> QED BY <2>1, <2>2 DEF Remain
<1> QED BY <1>1, <1>2

LEMMA LossStep ==
    ASSUME TypeOK, QueueOrder, LinesAfterLoss, [Next]_vars
    PROVE  LinesAfterLoss'
<1> USE DEF LinesAfterLoss, RelayOnlyOnAfterLoss
<1>0. cleared \in Nat /\ sent \in Nat /\ relay \in Nat
  BY DEF TypeOK, QueueTypeOK
<1>1. CASE HostSends
  <2>1. PICK kind \in Kinds : SendLine(kind)
    BY <1>1 DEF HostSends, HostSendsLine
  <2>2. UNCHANGED <<ring, relay, halted, cleared>>
    BY <1>1 DEF HostSends, HostSendsLine, body
  <2>3. \A j \in 1..Len(rx') : rx'[j] = [id |-> sent + 1, kind |-> kind] \/ (j \in 1..Len(rx) /\ rx'[j] = rx[j])
    BY <2>1 DEF SendLine, Arrive, TypeOK, QueueTypeOK
  <2>4. \A j \in 1..Len(rx') : cleared' < rx'[j].id
    BY <1>0, <2>2, <2>3
  <2> QED BY <1>0, <2>1, <2>2, <2>4 DEF SendLine
<1>2. CASE FetchLine
  <2>1. UNCHANGED <<sent, relay, halted, cleared>>
    BY <1>2 DEF FetchLine, body
  <2>2. /\ \A i \in 1..Len(ring') : ring'[i] = rx[1] \/ (i \in 1..Len(ring) /\ ring'[i] = ring[i])
        /\ 1 \in 1..Len(rx)
    BY <1>2 DEF FetchLine, Fetch, TypeOK, QueueTypeOK
  <2>3. \A j \in 1..Len(rx') : j + 1 \in 1..Len(rx) /\ rx'[j] = rx[j + 1]
    BY <1>2 DEF FetchLine, Fetch, TypeOK, QueueTypeOK
  <2> QED BY <2>1, <2>2, <2>3
<1>3. CASE TaskLoss
  <2>1. ring' = <<>> /\ Len(ring') = 0 /\ UNCHANGED <<rx, sent>> /\ relay' = 0
    BY <1>3 DEF TaskLoss, ClearRing, AllOff
  <2>2. CASE cleared' = cleared
    BY <2>1, <2>2
  <2>3. CASE \E i \in 1..Len(ring) : cleared' = ring[i].id
    BY <2>1, <2>3 DEF QueueOrder
  <2> QED BY <1>3, <2>2, <2>3, TaskLossBody
<1>4. CASE Reset
  <2>1. rx' = <<>> /\ ring' = <<>> /\ Len(rx') = 0 /\ Len(ring') = 0 /\ cleared' = 0 /\ relay' = 0 /\ sent' = sent
    BY <1>4 DEF Reset
  <2> QED BY <1>0, <2>1
<1>5. CASE Waited
  <2>1. UNCHANGED <<sent, rx, relay, halted, cleared>>
    BY <1>5, WaitedQueue, WaitedBody DEF ReturnStep
  <2>2. Remain
    BY <1>5, WaitedQueue, AdvanceRemain DEF ReturnStep, Return, TypeOK
  <2> QED BY <2>1, <2>2 DEF Remain
<1>6. CASE QuietStep
  BY <1>6, QuietStepQueue, QuietStepBody DEF queueVars
<1>7. CASE \E line : RunningLine(line)
  <2> PICK line : RunningLine(line)
    BY <1>7
  <2>1. UNCHANGED <<sent, rx, halted, cleared>> /\ relay' \in {0, relay, line.id} /\ ~halted
    BY RunningLineBody DEF RunningLine
  <2>2. Dispatch(line) /\ ring # <<>> /\ line = ring[1] /\ 1 \in 1..Len(ring)
    BY RunningLineQueue, DispatchedLine DEF RunStep, TypeOK, QueueTypeOK
  <2>3. Remain
    <3>1. AdvanceR \/ ring' = ring
      BY RunningLineQueue DEF RunStep, Return, Wait
    <3>2. CASE ring' = ring
      BY <3>2 DEF Remain
    <3> QED BY <3>1, <3>2, AdvanceRemain DEF TypeOK
  <2> QED BY <2>1, <2>2, <2>3 DEF Remain
<1>8. CASE UNCHANGED vars
  BY <1>8 DEF vars, queueVars, body
<1> QED BY <1>1, <1>2, <1>3, <1>4, <1>5, <1>6, <1>7, <1>8, Steps

\* A relay that is on was switched on by a line that was sent after the last
\* loss was handled and was not in the ring then, and never on a halted board.
THEOREM RelaysAfterLoss == Spec => []RelayOnlyOnAfterLoss
<1>1. /\ TypeOK /\ QueueOrder /\ LinesAfterLoss /\ [Next]_vars
      => TypeOK' /\ QueueOrder' /\ LinesAfterLoss'
  BY LossStep, QueueStep, BodyStep DEF TypeOK, Switches, Amounts
<1>2. LinesAfterLoss => RelayOnlyOnAfterLoss
  BY DEF LinesAfterLoss
<1> QED BY <1>1, <1>2, InitOK, PTL DEF Spec

\* A line is started only by RunningLine.
LEMMA Started ==
    ASSUME TypeOK, [Next]_vars
    PROVE  UNCHANGED lastStarted \/ \E line : RunningLine(line)
BY Steps, WaitedQueue, QuietStepQueue
   DEF HostSends, HostSendsLine, FetchLine, TaskLoss, Reset, ReturnStep, queueVars, vars

\* No line that waited when a loss was handled is ever started.
THEOREM ClearedLinesNeverRun == Spec => QueuedLinesNeverRun
<1> DEFINE Kept == lastStarted' # lastStarted => lastStarted' > cleared'
<1>1. ASSUME TypeOK, QueueOrder, LinesAfterLoss, [Next]_vars, lastStarted' # lastStarted
      PROVE  lastStarted' > cleared'
  <2>1. PICK line : RunningLine(line)
    BY <1>1, Started
  <2>2. line = ring[1] /\ 1 \in 1..Len(ring) /\ lastStarted' = line.id
    BY <1>1, <2>1, RunningLineQueue, DispatchedLine DEF RunStep, TypeOK, QueueTypeOK
  <2>3. cleared' = cleared /\ cleared < line.id
    BY <1>1, <2>1, <2>2, RunningLineBody DEF LinesAfterLoss
  <2> QED BY <1>1, <2>2, <2>3 DEF TypeOK
<1>2. /\ TypeOK /\ QueueOrder /\ LinesAfterLoss /\ [Next]_vars
      => TypeOK' /\ QueueOrder' /\ LinesAfterLoss' /\ [Kept]_vars
  BY <1>1, LossStep, QueueStep, BodyStep DEF TypeOK, Switches, Amounts
<1> QED BY <1>2, InitOK, PTL DEF Spec, QueuedLinesNeverRun

-----------------------------------------------------------------------------
(* The queue implements LineOrder.                                         *)

LEMMA StepInOrder ==
    ASSUME TypeOK, QueueOrder, [Next]_vars
    PROVE  [Order!Next]_(Order!vars)
<1> USE DEF Order!Next, Order!vars
<1>1. CASE HostSends
  BY <1>1 DEF HostSends, HostSendsLine, SendLine, Order!Send
<1>2. CASE FetchLine \/ TaskLoss
  BY <1>2 DEF FetchLine, TaskLoss
<1>3. CASE Reset
  BY <1>3 DEF Reset, Order!End, NoLine
<1>4. CASE Waited
  BY <1>4, WaitedQueue DEF ReturnStep, Return, Order!End, NoLine
<1>5. CASE QuietStep
  BY <1>5, QuietStepQueue DEF queueVars
<1>6. CASE \E line : RunningLine(line)
  <2> PICK line : RunningLine(line)
    BY <1>6
  <2>1. /\ line.id \in (lastStarted + 1)..sent /\ lastStarted' = line.id /\ sent' = sent
        /\ running = NoLine
    BY RunningLineQueue, DispatchedLine, LineTypes DEF RunStep, Dispatch, TypeOK, QueueTypeOK
  <2>2. running' = line \/ running' = NoLine
    BY RunningLineQueue DEF RunStep, Return, Wait
  <2> QED BY <2>1, <2>2 DEF Order!Start, NoLine
<1>7. CASE UNCHANGED vars
  BY <1>7 DEF vars, queueVars
<1> QED BY <1>1, <1>2, <1>3, <1>4, <1>5, <1>6, <1>7, Steps

\* Lines are carried out at most once, one at a time and in the order sent.
THEOREM QueueImplementsLineOrder == Spec => LinesInOrder
<1>1. Init => Order!Init
  BY DEF Init, QueueInit, Order!Init, NoLine
<1>2. TypeOK /\ QueueOrder /\ [Next]_vars => TypeOK' /\ QueueOrder' /\ [Order!Next]_(Order!vars)
  BY StepInOrder, QueueStep, BodyStep DEF TypeOK, Switches, Amounts
<1> QED BY <1>1, <1>2, InitOK, PTL DEF Spec, LinesInOrder, Order!Spec

-----------------------------------------------------------------------------
(* Moves stay refused until a G28.                                         *)

LEMMA RefusalStep ==
    ASSUME "G2" \notin Kinds, TypeOK, QueueOrder, RefusalInv, [Next]_vars
    PROVE  RefusalInv'
<1> USE DEF RefusalInv, NoMovesUntilHomed
<1>0. (quickstop \/ stopping => stopped)' /\ (~stopped' => Reset \/ ~stopped)
  <2>1. CASE HostSends
    <3> PICK kind \in Kinds : HostSendsLine(kind)
      BY <2>1 DEF HostSends
    <3>1. /\ quickstop' = (quickstop \/ kind = "M410")
          /\ stopped' = (stopped \/ kind = "M410")
          /\ stopping' = stopping
      BY Zenon DEF HostSendsLine, motionVars
    <3> QED BY <3>1, Zenon
  <2>2. CASE ~HostSends
    <3>1. QuietStep \/ Waited \/ FetchLine \/ TaskLoss \/ Reset \/ (\E line : RunningLine(line)) \/ UNCHANGED vars
      BY <2>2, Steps
    <3>2. CASE QuietStep
      BY <3>2 DEF QuietStep, HomingFails, HomeAxis, MoveDone, CleaningEnds, QuickStop, QuickStopEnds,
         TaskArms, Contactor, Kill, stopVars
    <3>3. CASE Waited \/ FetchLine \/ TaskLoss \/ Reset \/ UNCHANGED vars
      BY <3>3 DEF Waited, PlanWaited, HomingEnds, LongEnds, Ended, FetchLine, TaskLoss, Reset, vars,
         body, stopVars
    <3>4. CASE \E line : RunningLine(line)
      BY <3>4 DEF RunningLine, Refuse, Plan, SwitchRelay, Nothing, Echo, Begin, Done, stopVars
    <3> QED BY <3>1, <3>2, <3>3, <3>4
  <2> QED BY <2>1, <2>2
<1>1. CASE HostSends \/ FetchLine \/ UNCHANGED vars
  BY <1>0, <1>1 DEF HostSends, HostSendsLine, FetchLine, Reset, vars, queueVars, body, powerVars, motionVars
<1>2. CASE TaskLoss
  BY <1>0, <1>2 DEF TaskLoss
<1>3. CASE Reset
  BY <1>0, <1>3 DEF Reset
<1>4. CASE Waited
  <2>1. running'.kind = "none"
    BY <1>4, WaitedQueue DEF ReturnStep, Return, NoLine
  <2>2. rehome' /\ ~stopped' => moves' = 0
    <3>0. UNCHANGED stopped
      BY <1>4 DEF Waited, PlanWaited, HomingEnds, LongEnds, Ended, stopVars
    <3>1. CASE PlanWaited
      <4>1. running.kind = "G0"
        BY <3>1 DEF PlanWaited, Moves, TypeOK, QueueTypeOK, Lines, NoLine
      <4> QED BY <3>0, <3>1, <4>1 DEF PlanWaited, BufferSteps
    <3>2. CASE HomingEnds \/ LongEnds
      BY <3>0, <3>2 DEF HomingEnds, LongEnds, motionVars
    <3> QED BY <1>4, <3>1, <3>2 DEF Waited
  <2> QED BY <1>0, <2>1, <2>2
<1>5. CASE QuietStep
  <2>1. UNCHANGED <<running, rehome, stopped>>
    <3>1. UNCHANGED <<running, rehome>>
      BY <1>5, QuietStepQueue, QuietStepBody DEF queueVars
    <3>2. UNCHANGED stopped
      BY <1>5 DEF QuietStep, HomingFails, HomeAxis, MoveDone, CleaningEnds, QuickStop, QuickStopEnds,
         TaskArms, Contactor, Kill, stopVars
    <3> QED BY <3>1, <3>2
  <2>2. rehome /\ ~stopped => ~MoveDone
    BY DEF MoveDone
  <2>3. QuietStep /\ ~MoveDone => UNCHANGED moves \/ moves' = 0
    BY DEF QuietStep, HomingFails, HomeAxis, CleaningEnds, QuickStop, QuickStopEnds, TaskArms, Contactor, Kill, motionVars
  <2>4. rehome /\ ~stopped /\ running.kind = "G0" => ~CleaningEnds
    BY MovesAssumption DEF CleaningEnds, Moves
  <2>5. QuietStep /\ ~CleaningEnds => UNCHANGED cleaning \/ cleaning'
    BY DEF QuietStep, HomingFails, HomeAxis, MoveDone, QuickStop, QuickStopEnds, TaskArms, Contactor, Kill, motionVars
  <2>6. (rehome /\ ~stopped => moves = 0)'
    BY <1>5, <2>1, <2>2, <2>3
  <2>7. (rehome /\ ~stopped /\ running.kind = "G0" => cleaning)'
    BY <1>5, <2>1, <2>4, <2>5
  <2> QED BY <1>0, <2>6, <2>7
<1>6. CASE \E line : RunningLine(line)
  <2> PICK line : RunningLine(line)
    BY <1>6
  <2>1. line \in Lines /\ line.kind # "G2"
    BY RunningLineQueue, DispatchedLine DEF RunStep, TypeOK, Lines
  <2>2. rehome' = rehome /\ cleaning' = cleaning
    BY RunningLineBody
  <2>0. UNCHANGED stopped
    BY DEF RunningLine, Refuse, Plan, SwitchRelay, Nothing, Echo, Begin, Done, stopVars
  <2>3. rehome /\ ~stopped => moves' = 0
    BY <2>1 DEF RunningLine, Refuse, Plan, SwitchRelay, Nothing, Echo, Begin, Moves, Refused, motionVars
  <2>4. rehome => running'.kind # "G0"
    BY <2>1, MovesAssumption DEF RunningLine, Refuse, Plan, SwitchRelay, Nothing, Echo, Begin, Done, Return,
       Wait, MustWait, Moves, Homes, Refused, NoLine
  <2> QED BY <1>0, <2>0, <2>2, <2>3, <2>4
<1> QED BY <1>1, <1>2, <1>3, <1>4, <1>5, <1>6, Steps

\* If no arc is ever sent, the planner stays empty from a loss of the motor power until a G28
\* has ended, unless an M410 was sent: a waiting G0 is dropped, a later one refused.
THEOREM MovesStayRefused == ASSUME "G2" \notin Kinds PROVE Spec => []NoMovesUntilHomed
<1>1. /\ TypeOK /\ QueueOrder /\ RefusalInv /\ [Next]_vars
      => TypeOK' /\ QueueOrder' /\ RefusalInv'
  BY RefusalStep, QueueStep, BodyStep DEF TypeOK, Switches, Amounts
<1>2. RefusalInv => NoMovesUntilHomed
  BY DEF RefusalInv
<1> QED BY <1>1, <1>2, InitOK, PTL DEF Spec

\* If no arc is ever sent, the inductive invariant holds as a whole: the queue in order, what a
\* loss leaves behind, and the refusal.
THEOREM PowerInvHolds == ASSUME "G2" \notin Kinds PROVE Spec => []PowerInv
<1>1. /\ TypeOK /\ PowerInv /\ [Next]_vars => TypeOK' /\ PowerInv'
  BY RefusalStep, LossStep, QueueStep, BodyStep DEF PowerInv, TypeOK, Switches, Amounts
<1>2. Init => TypeOK /\ PowerInv
  BY InitOK DEF PowerInv
<1> QED BY <1>1, <1>2, PTL DEF Spec
=============================================================================
