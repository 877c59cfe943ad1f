------------------------ MODULE SpincoaterProperties ------------------------
(* What the spin coater promises, over the state machine of Spincoater.tla. *)
EXTENDS Spincoater

Procedures == {"FULL_CAL", "INDEX_SEARCH"}

\* Two readings a whole number of turns apart.
SameAngle(p, q) == (p - q) % Turn = 0

-----------------------------------------------------------------------------
(* Invariants *)

\* Every way out of M750 (abort, ramp timeout or stall, dead link, kill) tells
\* the rotor to stop: outside the ramp and the hold the last velocity written is
\* zero, and a drive that still holds the spin speed lost that write or was left
\* by a reset.
RotorToldToStop ==
    pc \notin {"rampUp", "measure", "rampDownStart"} =>
        cmdVel = "ZERO" /\ (setVel = "SPIN" => velStale)

\* Both readers of the velocity loop rely on the drive being in velocity mode:
\* whichever way a command ends, position mode stays only if a write of the
\* mode was lost or a kill or reset came in the middle of a settle.
ModeRestored ==
    pc = "wait" /\ mode # "VEL" => modeStale

\* No command returns with the axis still searching or calibrating, except where
\* the firmware has given up on confirming IDLE.
ProcedureAccountedFor ==
    pc = "wait" /\ axis \in Procedures => loose # {}

\* The inductive invariant behind the three: forceIdle() returns to one of its
\* callers, the cycle runs on a booted drive, doIndexHome() settles on a recorded
\* datum, and while the axis searches or calibrates, or the mode is not velocity,
\* the command is at a place that still leads to the poll, the stop or the write
\* that ends it.
ForceIdleCallers ==
    {"wait", "bootReturn", "notClosed", "decelStalled", "homeRequest",
     "homeReturn", "homeRestore"}

CyclePlaces ==
    {"connect", "closedLoop", "closedLoopCheck", "calWait", "rampStart",
     "rampUp", "measure", "rampDownStart"}

\* The branch of doIndexHome() that records a first datum after a failed settle
\* is dead (issue #41).
SettleHasDatum ==
    pc \in {"homeArm", "homeArmWait", "homeSettle", "homeSettleWait"} => datumSet

ProcedureTended ==
    axis \in Procedures /\ loose = {} =>
        pc \in {"bootWaitStart", "bootWaitIdle", "calWait", "homeWaitStart",
               "homeWaitIdle", "forceIdle", "forceIdleWait"}

ModeTended ==
    mode # "VEL" /\ ~modeStale =>
        \/ pc \in {"bootArmWait", "bootSettle", "bootSettleWait", "bootReturn",
                  "homeArmWait", "homeSettle", "homeSettleWait", "homeRestore"}
        \/ pc \in {"forceIdle", "forceIdleWait"} /\ ret \in {"bootReturn", "homeRestore"}

DriverInv ==
    /\ ret \in ForceIdleCallers
    /\ pc \in CyclePlaces => ready
    /\ RotorToldToStop /\ SettleHasDatum
    /\ ProcedureTended /\ ModeTended

-----------------------------------------------------------------------------
(* Action properties *)

\* ADR-0002 rule 1: while a datum is set, its angle changes only where M751, the
\* fallback of M750 or boot() records one, and it is forgotten only by boot() or
\* a reset.  Index homing, good or failed, moves it by whole turns at most.
DatumKept ==
    [][datumSet /\ pc \notin {"setHome", "bootRead"} =>
          \/ datumSet' /\ SameAngle(homePos', homePos)
          \/ pc' = "wait" /\ ~ready']_vars

\* ADR-0002 rule 2: a datum is recorded from a rotor at rest only.  The one
\* exception: boot() reads its datum without asking for the speed, and after a
\* reset that left the drive at the spin speed (velStale), a lost write of the
\* mode or a lost IDLE request lets the rotor speed up before that read.
DatumFromRotorAtRest ==
    [][datumSet' /\ (~datumSet \/ ~SameAngle(homePos', homePos)) =>
          speed = Still \/ (pc = "bootRead" /\ velStale)]_vars

\* A home reported as reached has the chuck at the angle it had when the datum
\* was recorded, across spins, turns by hand and power cycles of the drive, when
\* the datum was recorded in an indexed frame, procedure_result was readable and
\* the drive kept its power while the command ran.
HomedAtZero ==
    [][pc = "homeSettleWait" /\ homed' /\ indexed /\ ~unread /\ ~cut =>
          Physical(pos) = zero]_vars

\* The invariant behind it: a datum of an indexed frame is congruent to its
\* angle, a finished search that did not fail has found the mark, and "homed"
\* is set only from the settle to the report.
DatumAngle == datumSet /\ indexed => homePos % Turn = zero

FrameFound ==
    ~cut =>
        /\ pc = "homeWaitIdle" => axis = "INDEX_SEARCH" \/ result = "FAIL" \/ frame = 0
        /\ pc = "homeVerify" => result = "FAIL" \/ frame = 0
        /\ pc \in {"homeGuard", "homeArm", "homeArmWait", "homeSettle",
                  "homeSettleWait"} => unread \/ frame = 0

HomedReported ==
    homed =>
        \/ pc \in {"bootReturn", "bootRead", "homeRestore", "homeReturn"}
        \/ pc \in {"forceIdle", "forceIdleWait"} /\ ret = "homeRestore"

HomingInv == DatumAngle /\ FrameFound /\ HomedReported

\* A datum that boot() records is at the index mark, if procedure_result was
\* readable, the drive kept its power, and no reset left it at the spin speed.
BootDatumAtMark ==
    [][pc = "bootRead" /\ datumSet' /\ ~unread /\ ~cut /\ ~velStale =>
          Physical(pos) = 0]_vars

\* The invariant behind the two: boot() runs on a driver without a datum, its
\* settle starts from a disarmed axis with no old move left in it, and once it
\* has settled nothing but a setpoint older than the reset can move the rotor
\* until its position is read.
BootPlaces ==
    {"bootProbe", "bootIdle", "bootSearch", "bootWaitStart", "bootWaitIdle",
     "bootVerify", "bootArm", "bootArmWait", "bootSettle", "bootSettleWait",
     "bootReturn", "bootRead"}

Booting ==
    pc \in BootPlaces \/ (pc \in {"forceIdle", "forceIdleWait"} /\ ret = "bootReturn")

BootWithoutDatum ==
    /\ ~ready => ~datumSet
    /\ pc \notin {"wait", "killed"} => (ready <=> ~Booting)

BootGoal ==
    /\ pc \in {"bootVerify", "bootArm"} => axis = "IDLE"
    /\ pc = "bootArmWait" => axis = "IDLE" \/ (axis = "CLOSED_LOOP" /\ goal = {})
    /\ pc = "bootSettle" => axis \in {"IDLE", "CLOSED_LOOP"} /\ goal = {}
    /\ pc = "bootSettleWait" => axis \in {"IDLE", "CLOSED_LOOP"} /\ goal \subseteq {kept}

SettledBoot == homed /\ pc \in {"bootReturn", "bootRead"}

BootAtRest ==
    SettledBoot =>
        /\ axis \in {"IDLE", "CLOSED_LOOP"} /\ goal \subseteq {kept}
        /\ ~velStale => speed = Still /\ (cut \/ pos = kept)

BootFrameFound ==
    /\ pc = "bootSettleWait" \/ SettledBoot => kept % Turn = 0
    /\ ~cut =>
        /\ pc = "bootWaitIdle" => axis = "INDEX_SEARCH" \/ result = "FAIL" \/ frame = 0
        /\ pc = "bootVerify" => result = "FAIL" \/ frame = 0
        /\ pc \in {"bootArm", "bootArmWait", "bootSettle", "bootSettleWait"} \/ SettledBoot =>
              unread \/ frame = 0

BootDatumInv == BootWithoutDatum /\ BootGoal /\ BootAtRest /\ BootFrameFound

-----------------------------------------------------------------------------
(* Liveness, under Fairness *)

\* The Mega has started and boot() has not found the drive yet.
Unbooted == ~ready /\ pc \in {"wait", "bootProbe"}

\* Issue #42: with any replies and writes lost, every command ends.
CommandEnds == (pc # "wait") ~> (pc \in {"wait", "killed"})

\* ADR-0001: after a kill whose disarm arrived, the chuck coasts to a stop.
KillStopsRotor ==
    (pc = "killed" /\ loose = {}) ~> (speed = Still \/ pc # "killed")

\* Issue #40: a rotor that a reset leaves spinning coasts to a stop, also while
\* commands probe in vain for the drive, unless both disarms were lost, boot()
\* takes the drive over, or a kill ends what the Mega does.
ResetStopsRotor ==
    (Unbooted /\ loose = {}) ~> (speed = Still \/ ~Unbooted)

\* What it rests on: until boot() takes the drive over nothing arms the axis.
UnbootedDisarmed == Unbooted /\ loose = {} => axis = "IDLE"

-----------------------------------------------------------------------------
(* What a comment or document says and the code does not do.  Each is checked *)
(* alone and is violated.                                                     *)

\* spincoater.h: M410 stops a running spin cycle; M750 zeroes the rotor and
\* returns.  So no cycle completes with an abort pending.
AbortEndsCycle ==
    [][out # "CYCLE_COMPLETE" /\ out' = "CYCLE_COMPLETE" => ~abortRequested]_vars
=============================================================================
