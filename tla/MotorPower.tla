----------------------------- MODULE MotorPower -----------------------------
(***************************************************************************)
(* The Mega's main loop with the motor-power sense of the E-stop           *)
(* (feature/motor_power.cpp), the relays (feature/rmr_relays.h) and the    *)
(* handlers that meet them: G0/G1, the arcs G2/G3, G28, M42, the quickstop *)
(* M410, and commands that only take long, such as M750.  The main loop    *)
(* and every waiting handler call idle(), which fetches lines and runs     *)
(* motor_power::task().  The E-stop, a kill and a reset may come at any    *)
(* time.                                                                   *)
(***************************************************************************)
EXTENDS GcodeQueue, FiniteSets

CONSTANTS
    Axes,       \* the axes that home
    ZAxis,      \* the one that G28 Z homes
    MaxMoves,   \* moves that fit the planner
    Events      \* outside events of this instance

AllKinds == {"G0", "G2", "G28", "G28Z", "M42", "M750", "M118", "M410"}

ASSUME KindsAssumption == Kinds \subseteq AllKinds
ASSUME AxesAssumption == ZAxis \in Axes
ASSUME MovesAssumption == MaxMoves \in Nat \ {0}
ASSUME EventsAssumption == Events \subseteq {"Estop", "Kill", "Reset"}

VARIABLES
    present,        \* the contactor gives the drivers their power
    armed, rehome,  \* motor_power.cpp
    homed,          \* axes_homed
    relay,          \* a lamp or valve relay: 0 is off, else the line that switched it on
    moves,          \* blocks in the planner
    toHome,         \* axes the running G28 has still to home
    quickstop,      \* emergency_parser.quickstop_by_M410
    stopping,       \* inside quickstop_stepper(), called from idle()
    cleaning,       \* cleaning_buffer_counter: the planner still drops moves
    halted,         \* killed
    \* History, read by the properties only:
    cleared,        \* the last line queued when a loss was handled
    stopped         \* an M410 was sent since the last reset

stopVars   == <<quickstop, stopping, stopped>>
motionVars == <<homed, moves, toHome, cleaning>>
powerVars  == <<armed, rehome>>
body == <<present, powerVars, motionVars, stopVars, relay, halted, cleared>>
vars == <<queueVars, printed, body>>

TypeOK ==
    /\ QueueTypeOK
    /\ present \in BOOLEAN /\ armed \in BOOLEAN /\ rehome \in BOOLEAN
    /\ homed \subseteq Axes /\ toHome \subseteq Axes
    /\ relay \in Nat /\ moves \in 0..MaxMoves
    /\ quickstop \in BOOLEAN /\ stopping \in BOOLEAN
    /\ cleaning \in BOOLEAN /\ halted \in BOOLEAN
    /\ cleared \in Nat /\ stopped \in BOOLEAN

Init ==
    /\ QueueInit
    /\ present \in BOOLEAN
    /\ armed = FALSE /\ rehome = FALSE
    /\ homed = {} /\ toHome = {} /\ relay = 0 /\ moves = 0
    /\ cleaning = FALSE /\ quickstop = FALSE /\ stopping = FALSE /\ halted = FALSE
    /\ cleared = 0 /\ stopped = FALSE

-----------------------------------------------------------------------------
(* The main loop takes the next line: handlers that do not wait.           *)

Moves == {"G0", "G2"}
Homes == {"G28", "G28Z"}

\* A handler that returns at once, after the reports it prints.
Done(line, reports) ==
    /\ Return(line, reports)
    /\ UNCHANGED <<sent, rx, present, powerVars, stopVars, halted, cleared>>

\* G0 and G1 are refused after a loss; the arcs are not looked at.
Refused(line) == line.kind = "G0" /\ rehome

Refuse(line) ==
    /\ Dispatch(line) /\ Refused(line)
    /\ Done(line, Report("refused"))
    /\ UNCHANGED <<motionVars, relay>>

\* mutant: no look at the cleaning counter after the wait
BufferStepsUnasked ==
    /\ moves < MaxMoves
    /\ moves' = moves + 1

\* mutant: waits for one block too many
BufferStepsOneFree ==
    /\ moves + 1 < MaxMoves
    /\ moves' = IF cleaning THEN moves ELSE moves + 1

\* _buffer_steps() with a free block; for a second after a quick stop the
\* planner drops what it is given.
BufferSteps ==
    /\ moves < MaxMoves
    /\ moves' = IF cleaning THEN moves ELSE moves + 1

\* A move with a free block in the planner.
Plan(line) ==
    /\ Dispatch(line) /\ line.kind \in Moves /\ ~Refused(line)
    /\ BufferSteps
    /\ Done(line, <<>>)
    /\ UNCHANGED <<homed, toHome, cleaning, relay>>

\* M42 switches the UV lamp or a valve on or off.
SwitchRelay(line) ==
    /\ Dispatch(line) /\ line.kind = "M42"
    /\ relay' \in {0, line.id}
    /\ Done(line, <<>>)
    /\ UNCHANGED motionVars

\* The line of an M410, which the emergency parser has already acted on.
Nothing(line) ==
    /\ Dispatch(line) /\ line.kind = "M410"
    /\ Done(line, <<>>)
    /\ UNCHANGED <<motionVars, relay>>

\* M118 prints its text.
Echo(line) ==
    /\ Dispatch(line) /\ line.kind = "M118"
    /\ Done(line, Report("marker"))
    /\ UNCHANGED <<motionVars, relay>>

-----------------------------------------------------------------------------
(* Handlers that wait in an idle() loop.                                   *)

\* A full planner, a homing or a spin cycle: the handler starts to wait.
MustWait(line) ==
    \/ line.kind \in Moves /\ ~Refused(line) /\ moves = MaxMoves
    \/ line.kind \in Homes \cup {"M750"}

Begin(line) ==
    /\ Dispatch(line) /\ MustWait(line)
    /\ Wait(line)
    /\ toHome' = CASE line.kind = "G28"  -> Axes
                   [] line.kind = "G28Z" -> {ZAxis}
                   [] OTHER -> {}
   
    /\ UNCHANGED <<sent, rx, present, powerVars, homed, relay, moves, cleaning, stopVars,
                   halted, cleared>>

Ended ==
    /\ Return(running, <<>>)
    /\ UNCHANGED <<sent, rx, lastStarted, present, armed, stopVars, relay, halted, cleared>>

\* A block has come free, by a finished move or by a quick stop.
PlanWaited ==
    /\ running.kind \in Moves
    /\ BufferSteps
    /\ Ended
    /\ UNCHANGED <<rehome, homed, toHome, cleaning>>

\* mutant: the relays keep their level
AllStay == UNCHANGED relay

\* RmrRelays::allOff()
AllOff == relay' = 0

\* kill(): the relays go off first, and nothing is read any more.
Die ==
    /\ halted' = TRUE
    /\ AllOff
    /\ printed' = Report("halted")

\* planner.synchronize(), which also waits out the cleaning.
Synchronized == moves = 0 /\ ~cleaning

\* homeaxis(): after its move the endstop reads as hit.  It may also do so when
\* a quick stop cut the move short or the motors have no power.
HomeAxis(a) ==
    /\ a \in toHome /\ Synchronized
    /\ homed' = homed \cup {a}
    /\ toHome' = toHome \ {a}
    /\ Quiet
    /\ UNCHANGED <<queueVars, present, powerVars, moves, cleaning, stopVars, relay, halted,
                   cleared>>

\* validate_homing_move(): the endstop does not.
HomingFails ==
    /\ toHome # {} /\ Synchronized
    /\ Die
    /\ UNCHANGED <<queueVars, present, powerVars, motionVars, stopVars, cleared>>

\* G28 has homed its axes.
HomingEnds ==
    /\ running.kind \in Homes /\ toHome = {}
    /\ rehome' = FALSE
    /\ Ended
    /\ UNCHANGED motionVars

\* M750 and the like end by themselves.
LongEnds ==
    /\ running.kind = "M750"
    /\ Ended
    /\ UNCHANGED <<rehome, motionVars>>

MainLoop ==
    /\ ~halted /\ ~stopping
    /\ \/ \E line \in {ring[i] : i \in 1..Len(ring)} :
             \/ Refuse(line) \/ Plan(line) \/ SwitchRelay(line) \/ Nothing(line)
             \/ Echo(line) \/ Begin(line)
       \/ PlanWaited \/ HomingFails \/ HomingEnds \/ LongEnds
       \/ \E a \in Axes : HomeAxis(a)

\* The stepper interrupt has finished a block.
MoveDone ==
    /\ ~halted /\ moves > 0
    /\ moves' = moves - 1
    /\ Quiet
    /\ UNCHANGED <<queueVars, present, powerVars, homed, toHome, cleaning, stopVars,
                   relay, halted, cleared>>

\* The temperature interrupt ends the cleaning after a second: by then a handler
\* that waited for a free block has long returned, unless a quickstop holds it.
CleaningEnds ==
    /\ ~halted /\ cleaning
    /\ running.kind \in Moves /\ moves < MaxMoves => stopping
    /\ cleaning' = FALSE
    /\ Quiet
    /\ UNCHANGED <<queueVars, present, powerVars, homed, toHome, moves, stopVars,
                   relay, halted, cleared>>

-----------------------------------------------------------------------------
(* idle(): get_available_commands(), the quickstop of Temperature::task()  *)
(* and motor_power::task().                                                *)

FetchLine ==
    /\ ~halted /\ Fetch
    /\ UNCHANGED <<sent, running, lastStarted, body>>

\* quickstop_stepper() drops the moves and then synchronizes, calling idle()
\* in turn: the handler that was waiting goes on only afterwards.
QuickStop ==
    /\ ~halted /\ quickstop /\ ~stopping
    /\ quickstop' = FALSE /\ stopping' = TRUE
    /\ moves' = 0 /\ cleaning' = TRUE
    /\ Quiet
    /\ UNCHANGED <<queueVars, present, powerVars, homed, toHome, relay, halted,
                   cleared, stopped>>

QuickStopEnds ==
    /\ ~halted /\ stopping /\ Synchronized
    /\ stopping' = FALSE
    /\ Quiet
    /\ UNCHANGED <<queueVars, present, powerVars, motionVars, quickstop, relay, halted,
                   cleared, stopped>>

\* A sample sees the power for the first time since the last loss.
TaskArms ==
    /\ ~halted /\ ~armed /\ present
    /\ armed' = TRUE
    /\ Quiet
    /\ UNCHANGED <<queueVars, present, rehome, motionVars, stopVars, relay, halted,
                   cleared>>

\* A sample sees that the power is gone.
TaskLoss ==
    /\ ~halted /\ armed /\ ~present
    /\ AllOff
    /\ moves' = 0 /\ cleaning' = TRUE
    /\ ClearRing
    /\ homed' = {}
    /\ rehome' = TRUE /\ armed' = FALSE
    /\ printed' = Report("lost")
    /\ cleared' = IF ring = <<>> THEN cleared ELSE ring[Len(ring)].id
    /\ UNCHANGED <<sent, rx, running, lastStarted, present, toHome, stopVars, halted>>

-----------------------------------------------------------------------------
(* The world outside the Mega.                                             *)

\* The E-stop is pressed, or its contactor reset.
Contactor ==
    /\ "Estop" \in Events
    /\ present' = ~present
    /\ Quiet
    /\ UNCHANGED <<queueVars, powerVars, motionVars, stopVars, relay, halted, cleared>>

\* M112, or anything else that ends in kill().
Kill ==
    /\ "Kill" \in Events /\ ~halted
    /\ Die
    /\ UNCHANGED <<queueVars, present, powerVars, motionVars, stopVars, cleared>>

\* The board resets; lines on their way are lost.
Reset ==
    /\ "Reset" \in Events
    /\ rx' = <<>> /\ ring' = <<>> /\ running' = NoLine
    /\ printed' = Report("start")
    /\ armed' = FALSE /\ rehome' = FALSE
    /\ homed' = {} /\ toHome' = {} /\ moves' = 0 /\ relay' = 0
    /\ cleaning' = FALSE /\ quickstop' = FALSE /\ stopping' = FALSE /\ halted' = FALSE
    /\ cleared' = 0 /\ stopped' = FALSE
    /\ UNCHANGED <<sent, lastStarted, present>>

\* Some host sends a line.  The emergency parser reads every character as it
\* arrives, also of a line that no longer fits the receive buffer.
HostSendsLine(kind) ==
    /\ SendLine(kind)
    /\ quickstop' = (quickstop \/ kind = "M410")
    /\ stopped' = (stopped \/ kind = "M410")
    /\ UNCHANGED <<ring, running, lastStarted, present, powerVars, motionVars, stopping,
                   relay, halted, cleared>>

HostSends == \E kind \in Kinds : HostSendsLine(kind)

Firmware ==
    \/ FetchLine \/ MainLoop \/ MoveDone \/ CleaningEnds
    \/ QuickStop \/ QuickStopEnds \/ TaskArms \/ TaskLoss
World == Contactor \/ Kill \/ Reset

Next == Firmware \/ World \/ HostSends

Spec == Init /\ [][Next]_vars

\* The main loop, idle() and the two interrupts run again and again.
Fairness ==
    /\ WF_vars(FetchLine) /\ WF_vars(MainLoop)
    /\ WF_vars(MoveDone) /\ WF_vars(CleaningEnds)
    /\ WF_vars(QuickStop) /\ WF_vars(QuickStopEnds)

FairSpec == Spec /\ Fairness
=============================================================================
