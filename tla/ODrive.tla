------------------------------- MODULE ODrive -------------------------------
(***************************************************************************)
(* The ODrive S1 that turns the chuck, seen through the ASCII link of      *)
(* spincoater.cpp.  It is external to the repository: each action is what  *)
(* the firmware's requests, waits and comments rely on.  Time is left out; *)
(* a poll sees the value of the moment, and a request is accepted, refused *)
(* or lost on the unacknowledged link.                                     *)
(***************************************************************************)
EXTENDS Integers

CONSTANTS
    Turn,       \* encoder counts in one turn of the chuck
    Positions   \* the pos_estimate values of this instance, in counts

ASSUME TurnAssumption == Turn \in Nat \ {0}
ASSUME PositionsAssumption == Positions \subseteq Int /\ 0 \in Positions

VARIABLES
    axis,     \* axis0.current_state
    mode,     \* control_mode and input_mode: "VEL" when both are the velocity pair
    setVel,   \* the velocity setpoint: "ZERO" or "SPIN"
    speed,    \* what the encoder shows of the rotor's speed
    pos,      \* pos_estimate, in counts, accumulating over turns
    frame,    \* offset of the encoder's frame from the index mark; 0 once searched
    result,   \* axis0.procedure_result of the last index search
    goal      \* the trapezoidal move in progress, {} or {target}

driveVars == <<axis, mode, setVel, speed, pos, frame, result, goal>>

AxisStates == {"IDLE", "FULL_CAL", "INDEX_SEARCH", "CLOSED_LOOP"}

\* |vel| <= 0.05 turns/s (3 RPM), up to 6 RPM, and above: the thresholds at
\* which doSetHome() refuses and M750's ramp-down ends.
Still == 0
Creep == 1
Fast  == 2
Speeds == {Still, Creep, Fast}

\* The chuck's angle from the index mark when the encoder reads p.
Physical(p) == (p + frame) % Turn

DriveTypeOK ==
    /\ axis \in AxisStates
    /\ mode \in {"VEL", "POS"}
    /\ setVel \in {"ZERO", "SPIN"}
    /\ speed \in Speeds
    /\ pos \in Positions
    /\ frame \in 0..(Turn - 1)
    /\ result \in {"SUCCESS", "FAIL"}
    /\ goal \subseteq Int

\* AMT102 is incremental: the frame is anchored wherever the rotor sat.
DriveInit ==
    /\ axis = "IDLE"
    /\ mode = "VEL"
    /\ setVel = "ZERO"
    /\ speed = Still
    /\ pos = 0
    /\ frame \in 0..(Turn - 1)
    /\ result = "FAIL"
    /\ goal = {}

-----------------------------------------------------------------------------
\* Requests.  Every one may be lost, which leaves the drive as it was; a
\* refused state request looks the same.

NoEffect == UNCHANGED <<axis, speed, result, goal, setVel>>

Disarmed ==
    /\ axis' = "IDLE"
    /\ result' = IF axis = "INDEX_SEARCH" THEN "FAIL" ELSE result
    /\ goal' = {}

GoIdle == Disarmed /\ UNCHANGED <<speed, setVel>>

\* A procedure or closed loop starts from IDLE only; a procedure turns the rotor.
\* The drive may keep or drop the old velocity setpoint when it arms.
Enter(s) ==
    /\ axis = "IDLE"
    /\ axis' = s
    /\ goal' = {}
    /\ IF s = "CLOSED_LOOP"
       THEN setVel' \in {setVel, "ZERO"} /\ UNCHANGED speed
       ELSE speed' = Fast /\ UNCHANGED setVel
    /\ UNCHANGED result

RequestState(s) == NoEffect \/ (IF s = "IDLE" THEN GoIdle ELSE Enter(s))

-----------------------------------------------------------------------------
\* What the drive does by itself.

SpinUp ==
    /\ axis = "CLOSED_LOOP" /\ mode = "VEL" /\ setVel = "SPIN" /\ speed < Fast
    /\ speed' = speed + 1
    /\ UNCHANGED <<axis, mode, setVel, pos, frame, result, goal>>

\* Commanded deceleration, or friction once the axis is disarmed.
SlowDown ==
    /\ speed > Still
    /\ axis = "IDLE" \/ (axis = "CLOSED_LOOP" /\ (mode = "POS" \/ setVel = "ZERO"))
    /\ speed' = speed - 1
    /\ UNCHANGED <<axis, mode, setVel, pos, frame, result, goal>>

Rotate ==
    /\ speed > Still
    /\ pos' \in Positions
    /\ UNCHANGED <<axis, mode, setVel, speed, frame, result, goal>>

\* The axis returns to IDLE after a good and a failed search alike.
SearchEnds ==
    /\ axis = "INDEX_SEARCH"
    /\ axis' = "IDLE"
    /\ \/ result' = "SUCCESS" /\ frame' = 0
       \/ result' = "FAIL" /\ UNCHANGED frame
    /\ UNCHANGED <<mode, setVel, speed, pos, goal>>

CalibrationEnds ==
    /\ axis = "FULL_CAL"
    /\ axis' = "IDLE"
    /\ frame' \in {frame, 0}
    /\ UNCHANGED <<mode, setVel, speed, pos, result, goal>>

\* A fault (regeneration overvoltage, a floating thermistor) disarms the axis.
SelfDisarm ==
    /\ axis # "IDLE"
    /\ GoIdle
    /\ UNCHANGED <<mode, pos, frame>>

TrapMove ==
    /\ axis = "CLOSED_LOOP" /\ mode = "POS"
    /\ pos' \in goal \cap Positions
    /\ speed' = Still
    /\ UNCHANGED <<axis, mode, setVel, frame, result, goal>>

\* The E-stop takes the drive's supply away and gives it back: the encoder
\* counts from zero in a frame anchored where the rotor sits.
PowerCycle ==
    /\ axis' = "IDLE" /\ mode' = "VEL" /\ setVel' = "ZERO" /\ goal' = {}
    /\ pos' = 0
    /\ frame' = Physical(pos)
    /\ result' \in {"SUCCESS", "FAIL"}
    /\ UNCHANGED speed

\* An operator turns the chuck by hand.
HandTurn ==
    /\ axis = "IDLE" /\ speed = Still
    /\ pos' \in Positions
    /\ UNCHANGED <<axis, mode, setVel, speed, frame, result, goal>>
=============================================================================
