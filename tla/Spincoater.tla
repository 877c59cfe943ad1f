----------------------------- MODULE Spincoater -----------------------------
(***************************************************************************)
(* The Mega's spin-coater driver (feature/spincoater.cpp) and the commands *)
(* that use it, M750, M751 and M752, run against the drive of ODrive.tla.  *)
(*                                                                         *)
(* "pc" is the place in the code of the command that runs, "wait" when     *)
(* none does and "killed" after kill().  A polling loop is one place: a    *)
(* step leaves it when a poll sees what it waits for, or at its deadline,  *)
(* which may also be because every reply was lost or garbled.  Every write *)
(* to the drive may be lost.  M410, M112 and a board reset may come at any *)
(* place, since every loop and delay calls idle() or thermalManager.task().*)
(***************************************************************************)
EXTENDS ODrive

CONSTANTS
    MaxAttempts,    \* closed-loop entry attempts of ensureClosedLoop()
    MaxCal,         \* full calibrations of ensureClosedLoop()
    Commands,       \* the commands the host sends
    Events          \* the outside events of this instance

AllCommands == {"M750", "M751", "M752"}
AllEvents == {"M410", "Kill", "Reset", "PowerCycle", "HandTurn", "SelfDisarm"}

ASSUME AttemptsAssumption == MaxAttempts \in Nat /\ MaxCal \in Nat
ASSUME CommandsAssumption == Commands \subseteq AllCommands
ASSUME EventsAssumption == Events \subseteq AllEvents

VARIABLES
    pc, out,                    \* place in the code; last terminal marker printed
    ready, datumSet, homePos,   \* _ready, _datumSet, _homePos
    abortRequested,
    cmd, home,                  \* the running command, and M750's H
    homed,                      \* bootHomed && bootSettled; doIndexHome()'s homed
    ret,                        \* where forceIdle() returns to
    attempts, calAttempts,      \* ensureClosedLoop()'s counters
    kept,                       \* boot()'s settle target; M750's datumBefore
    \* History, read by the properties only:
    cmdVel,     \* the last velocity the Mega wrote since it started
    velStale,   \* the drive does not hold it: the write was lost, or a reset came
    modeStale,  \* the last change of the control mode was lost or cut off
    loose,      \* why the axis may run on unattended
    zero,       \* the chuck's angle when the datum was recorded
    indexed,    \* the datum was recorded in a frame anchored at the index mark
    unread,     \* this command could not read procedure_result
    cut         \* the drive lost power while this command ran

static  == <<ready, datumSet, homePos>>
body    == <<cmd, home, homed, attempts, calAttempts, kept>>
locals  == <<body, ret>>
velHist == <<cmdVel, velStale>>
datumHist == <<zero, indexed, unread, cut>>
history == <<datumHist, loose>>
vars == <<driveVars, pc, out, static, abortRequested, locals, velHist,
          modeStale, history>>

\* forceIdle() gave up, boot() never saw its search start, emergencyStop() was lost.
LooseEnds == {"forceIdle", "boot", "emergencyStop"}

Places ==
    {"wait", "killed", "forceIdle", "forceIdleWait",
     "bootProbe", "bootIdle", "bootSearch", "bootWaitStart", "bootWaitIdle",
     "bootVerify", "bootArm", "bootArmWait", "bootSettle", "bootSettleWait",
     "bootReturn", "bootRead",
     "connect", "closedLoop", "closedLoopCheck", "calWait", "notClosed",
     "rampStart", "rampUp", "measure", "rampDownStart", "rampDown", "settling",
     "decelStalled",
     "homeRespond", "homeEnsureIdle", "homeRequest", "homeWaitStart",
     "homeWaitIdle", "homeVerify", "homeGuard", "homeArm", "homeArmWait",
     "homeSettle", "homeSettleWait", "homeRestore", "homeReturn",
     "setHome"}

Markers ==
    {"none", "BAD_VALUE", "BOOT_FAILED", "NO_ODRIVE", "NO_CLOSED_LOOP",
     "ABORTED", "RAMP_TIMEOUT", "RAMP_STALL", "MEASURE_FAILED",
     "DECEL_LINK_LOST", "DECEL_STALL", "CYCLE_COMPLETE",
     "NO_HOME_FIRST_DATUM", "NO_HOME_PRESERVED", "NO_HOME_FALLBACK",
     "NO_HOME_FALLBACK_FAILED",
     "HOME_SET", "HOME_SET_FAILED", "INDEX_COMPLETE", "INDEX_HOME_FAILED"}

MegaTypeOK ==
    /\ ready \in BOOLEAN /\ datumSet \in BOOLEAN /\ homePos \in Int
    /\ abortRequested \in BOOLEAN

ControlTypeOK ==
    /\ pc \in Places /\ ret \in Places /\ out \in Markers
    /\ cmd \in AllCommands \cup {"none"} /\ home \in BOOLEAN /\ homed \in BOOLEAN
    /\ attempts \in 0..MaxAttempts /\ calAttempts \in 0..MaxCal
    /\ kept \in Int

HistoryTypeOK ==
    /\ cmdVel \in {"ZERO", "SPIN"} /\ velStale \in BOOLEAN /\ modeStale \in BOOLEAN
    /\ loose \subseteq LooseEnds
    /\ zero \in 0..(Turn - 1)
    /\ indexed \in BOOLEAN /\ unread \in BOOLEAN /\ cut \in BOOLEAN

TypeOK == DriveTypeOK /\ MegaTypeOK /\ ControlTypeOK /\ HistoryTypeOK

Init ==
    /\ DriveInit
    /\ pc = "wait" /\ ret = "wait" /\ out = "none"
    /\ ready = FALSE /\ datumSet = FALSE /\ homePos = 0
    /\ abortRequested = FALSE
    /\ cmd = "none" /\ home = FALSE /\ homed = FALSE
    /\ attempts = 0 /\ calAttempts = 0 /\ kept = 0
    /\ cmdVel = "ZERO" /\ velStale = FALSE /\ modeStale = FALSE
    /\ zero = 0 /\ indexed = FALSE /\ unread = FALSE /\ cut = FALSE /\ loose = {}

-----------------------------------------------------------------------------
(* The ASCII layer. *)

\* roundf(p / Turn) whole turns.
RoundTurns(p) == (p + Turn \div 2) \div Turn

SetState(s) == RequestState(s) /\ UNCHANGED <<mode, pos, frame>>

WriteVelocity(v) ==
    /\ cmdVel' = v
    /\ \/ setVel' = v /\ velStale' = FALSE
       \/ UNCHANGED setVel /\ velStale' = TRUE

SetVelocity(v) ==
    /\ WriteVelocity(v)
    /\ UNCHANGED <<axis, mode, speed, pos, frame, result, goal>>

\* control_mode and input_mode are two writes: with one lost, the pair is not
\* the velocity pair.
WriteMode(m) ==
    \/ mode' = m /\ modeStale' = FALSE
    \/ mode' \in {mode, "POS"} /\ modeStale' = TRUE

\* To the next place, to forceIdle() and from there to "l", and out of the
\* command, whose local variables go.
Goto(l) == pc' = l /\ UNCHANGED <<out, locals>>
ForceIdle(l) == pc' = "forceIdle" /\ ret' = l /\ UNCHANGED <<out, body>>
LeaveFor(l) ==
    /\ pc' = l
    /\ cmd' = "none" /\ home' = FALSE /\ homed' = FALSE /\ ret' = "wait"
    /\ attempts' = 0 /\ calAttempts' = 0
Finish(marker) == LeaveFor("wait") /\ out' = marker /\ UNCHANGED kept
Stay == UNCHANGED <<pc, out, locals>>
\* A step that only reads the drive.
Reads == UNCHANGED <<driveVars, velHist, modeStale>>
-----------------------------------------------------------------------------
(* The commands M750, M751 and M752 up to the driver's boot(). *)

\* Where the command goes on once the drive is booted.
AfterBoot(c) ==
    CASE c = "M750" -> "connect" [] c = "M751" -> "setHome" [] OTHER -> "homeRespond"

Begin(c, h) ==
    /\ pc = "wait" /\ c \in Commands
    /\ pc' = IF ready THEN AfterBoot(c) ELSE "bootProbe"
    /\ out' = "none" /\ cmd' = c /\ home' = h
    /\ unread' = FALSE /\ cut' = FALSE
    /\ UNCHANGED <<static, homed, ret, attempts, calAttempts, kept, zero,
                   indexed, loose>>
    /\ Reads

\* A parameter that is not above zero, before anything else is touched.
M750Refused ==
    /\ pc = "wait" /\ "M750" \in Commands
    /\ Finish("BAD_VALUE")
    /\ UNCHANGED <<static, abortRequested, history>> /\ Reads

M750 == \E h \in BOOLEAN : Begin("M750", h) /\ abortRequested' = FALSE
M751 == Begin("M751", FALSE) /\ UNCHANGED abortRequested
M752 == Begin("M752", FALSE) /\ UNCHANGED abortRequested

-----------------------------------------------------------------------------
(* forceIdle(): ask, poll, ask again. *)

ForceIdleWrite ==
    /\ pc = "forceIdle"
    /\ SetState("IDLE")
    /\ Goto("forceIdleWait")
    /\ UNCHANGED <<static, abortRequested, velHist, modeStale, history>>

Return(l) == pc' = l /\ ret' = "wait" /\ UNCHANGED <<out, body>>

ForceIdleWait ==
    /\ pc = "forceIdleWait"
    /\ UNCHANGED <<static, abortRequested, velHist, modeStale, datumHist>>
    /\ \/ axis = "IDLE" /\ Return(ret) /\ loose' = {} /\ UNCHANGED driveVars
       \/ SetState("IDLE") /\ Stay /\ UNCHANGED loose
       \* The deadline: only the index search asks whether IDLE was confirmed.
       \/ /\ Return(IF ret = "homeRequest" THEN "homeReturn" ELSE ret)
          /\ loose' = loose \cup {"forceIdle"}
          /\ UNCHANGED driveVars

-----------------------------------------------------------------------------
(* boot() *)

BootProbe ==
    /\ pc = "bootProbe"
    /\ \/ Goto("bootIdle") /\ UNCHANGED ready
       \/ Finish("BOOT_FAILED") /\ ready' = FALSE
    /\ UNCHANGED <<datumSet, homePos, abortRequested, history>> /\ Reads

BootIdle ==
    /\ pc = "bootIdle"
    /\ SetState("IDLE")
    /\ Goto("bootSearch")
    /\ UNCHANGED <<static, abortRequested, velHist, modeStale, history>>

BootSearch ==
    /\ pc = "bootSearch"
    /\ SetState("INDEX_SEARCH")
    /\ Goto("bootWaitStart")
    /\ UNCHANGED <<static, abortRequested, velHist, modeStale, history>>

\* Nothing stops the axis here but the single IDLE request of bootReturn.
BootSearchUnseen ==
    /\ Goto("bootReturn")
    /\ loose' = loose \cup {"boot"}
    /\ UNCHANGED driveVars

BootWaitStart ==
    /\ pc = "bootWaitStart"
    /\ \/ axis = "INDEX_SEARCH" /\ Goto("bootWaitIdle") /\ UNCHANGED <<loose, driveVars>>
       \/ axis = "IDLE" /\ SetState("INDEX_SEARCH") /\ Stay /\ UNCHANGED loose
       \/ BootSearchUnseen
    /\ UNCHANGED <<static, abortRequested, velHist, modeStale, datumHist>>

BootWaitIdle ==
    /\ pc = "bootWaitIdle"
    /\ \/ axis = "IDLE" /\ Goto("bootVerify")
       \/ ForceIdle("bootReturn")
    /\ UNCHANGED <<static, abortRequested, history>>
    /\ Reads

BootVerifyNothing ==                                                 \* mutant
    /\ pc = "bootVerify"
    /\ Goto("bootArm")
    /\ UNCHANGED <<static, abortRequested, history>> /\ Reads

\* An unreadable procedure_result is unverified, not failed (ADR-0003).
BootVerify ==
    /\ pc = "bootVerify"
    /\ \/ result = "SUCCESS" /\ Goto("bootArm") /\ UNCHANGED unread
       \/ Goto("bootArm") /\ unread' = TRUE
       \/ result = "FAIL" /\ ForceIdle("bootReturn") /\ UNCHANGED unread
    /\ UNCHANGED <<static, abortRequested, zero, indexed, cut, loose>>
    /\ Reads

\* Position mode, then closed loop.
ArmForSettle ==
    /\ WriteMode("POS")
    /\ RequestState("CLOSED_LOOP")
    /\ UNCHANGED <<pos, frame, velHist>>

BootArm ==
    /\ pc = "bootArm"
    /\ ArmForSettle
    /\ Goto("bootArmWait")
    /\ UNCHANGED <<static, abortRequested, history>>

BootArmWait ==
    /\ pc = "bootArmWait"
    /\ \/ axis = "CLOSED_LOOP" /\ Goto("bootSettle")
       \/ ForceIdle("bootReturn")
    /\ UNCHANGED <<static, abortRequested, history>>
    /\ Reads

\* "t 0 <target>": a drive outside position control keeps no goal.
SettleTo(target) ==
    /\ goal' \in {goal, {target}}
    /\ UNCHANGED <<axis, mode, setVel, speed, pos, frame, result>>

\* The nearest index mark, or absolute zero when no stable position was read.
BootSettle ==
    /\ pc = "bootSettle"
    /\ \E target \in {Turn * RoundTurns(pos), 0} :
          SettleTo(target) /\ kept' = target
    /\ pc' = "bootSettleWait"
    /\ UNCHANGED <<out, static, abortRequested, cmd, home, homed, ret, attempts,
                   calAttempts, velHist, modeStale, history>>

BootSettleInPassing ==                                               \* mutant
    /\ pc = "bootSettleWait"
    /\ IF pos = kept THEN homed' = TRUE ELSE UNCHANGED homed
    /\ pc' = "bootReturn"
    /\ UNCHANGED <<out, static, abortRequested, cmd, home, ret, attempts,
                   calAttempts, kept, history>>
    /\ Reads

BootSettleWait ==
    /\ pc = "bootSettleWait"
    /\ \/ pos = kept /\ speed = Still /\ homed' = TRUE
       \/ UNCHANGED homed
    /\ pc' = "bootReturn"
    /\ UNCHANGED <<out, static, abortRequested, cmd, home, ret, attempts,
                   calAttempts, kept, history>>
    /\ Reads

BackToVelocityMode ==
    /\ WriteMode("VEL")
    /\ UNCHANGED <<pos, frame, velHist>>

\* A single IDLE request, not forceIdle().
BootReturn ==
    /\ pc = "bootReturn"
    /\ RequestState("IDLE")
    /\ BackToVelocityMode
    /\ Goto("bootRead")
    /\ UNCHANGED <<static, abortRequested, history>>

\* The datum is p, and the chuck is where it is now.
RecordDatum(p) ==
    /\ homePos' = p /\ datumSet' = TRUE
    /\ zero' = Physical(p) /\ indexed' = (frame = 0)

BootRead ==
    /\ pc = "bootRead"
    /\ IF homed
       THEN \/ RecordDatum(pos)
            \/ datumSet' = FALSE /\ UNCHANGED <<homePos, zero, indexed>>
       ELSE homePos' \in {pos, homePos} /\ datumSet' = FALSE
            /\ UNCHANGED <<zero, indexed>>
    /\ ready' = TRUE
    /\ homed' = FALSE
    /\ pc' = AfterBoot(cmd)
    /\ UNCHANGED <<out, abortRequested, cmd, home, ret, attempts, calAttempts,
                   kept, unread, cut, loose>>
    /\ Reads

-----------------------------------------------------------------------------
(* M750: connect, ensureClosedLoop(), ramp, measure, ramp down. *)

Connect ==
    /\ pc = "connect"
    /\ Goto("closedLoop") \/ Finish("NO_ODRIVE")
    /\ UNCHANGED <<static, abortRequested, history>> /\ Reads

\* The head of the loop; a garbled reply is not CLOSED_LOOP.
ClosedLoop ==
    /\ pc = "closedLoop"
    /\ \/ axis = "CLOSED_LOOP" /\ Goto("rampStart") /\ NoEffect
       \/ attempts >= MaxAttempts /\ ForceIdle("notClosed") /\ NoEffect
       \/ /\ attempts < MaxAttempts
          /\ \/ ForceIdle("notClosed") /\ NoEffect               \* 90 s
             \/ /\ RequestState("CLOSED_LOOP")
                /\ pc' = "closedLoopCheck" /\ attempts' = attempts + 1
                /\ UNCHANGED <<out, cmd, home, homed, calAttempts, kept, ret>>
    /\ UNCHANGED <<static, abortRequested, velHist, modeStale, history,
                   mode, pos, frame>>

\* Still IDLE: calibrate, but not once more after MaxCal times.
MayCalibrateOnceMore == calAttempts <= MaxCal                        \* mutant
MayCalibrate == calAttempts < MaxCal

ClosedLoopCheck ==
    /\ pc = "closedLoopCheck"
    /\ \/ Goto("closedLoop") /\ NoEffect
       \/ axis = "IDLE" /\ ~MayCalibrate /\ ForceIdle("notClosed") /\ NoEffect
       \/ /\ axis = "IDLE" /\ MayCalibrate
          /\ RequestState("FULL_CAL")
          /\ pc' = "calWait" /\ calAttempts' = calAttempts + 1
          /\ UNCHANGED <<out, cmd, home, homed, attempts, kept, ret>>
    /\ UNCHANGED <<static, abortRequested, velHist, modeStale, history,
                   mode, pos, frame>>

CalWaitWithoutDeadline ==                                            \* mutant
    /\ pc = "calWait" /\ axis = "IDLE"
    /\ Goto("closedLoop")
    /\ UNCHANGED <<static, abortRequested, history>> /\ Reads

CalWait ==
    /\ pc = "calWait"
    /\ \/ axis = "IDLE" /\ Goto("closedLoop")
       \/ ForceIdle("notClosed")
    /\ UNCHANGED <<static, abortRequested, history>> /\ Reads

NotClosed ==
    /\ pc = "notClosed"
    /\ Finish("NO_CLOSED_LOOP")
    /\ UNCHANGED <<static, abortRequested, history>> /\ Reads

RampStart ==
    /\ pc = "rampStart"
    /\ SetVelocity("SPIN")
    /\ Goto("rampUp")
    /\ UNCHANGED <<static, abortRequested, modeStale, history>>

AbortWithoutStop ==                                                  \* mutant
    /\ abortRequested
    /\ abortRequested' = FALSE
    /\ UNCHANGED <<driveVars, velHist>>
    /\ Finish("ABORTED")

Abort ==
    /\ abortRequested
    /\ abortRequested' = FALSE
    /\ SetVelocity("ZERO")
    /\ Finish("ABORTED")

RampUp ==
    /\ pc = "rampUp"
    /\ UNCHANGED <<static, modeStale, history>>
    /\ \/ Abort
       \/ /\ speed = Fast
          /\ Goto("measure")
          /\ UNCHANGED <<abortRequested, driveVars, velHist>>
       \* Judged by the last telemetry, which may be old.
       \/ /\ Finish("RAMP_TIMEOUT") \/ Finish("RAMP_STALL")
          /\ SetVelocity("ZERO") /\ UNCHANGED abortRequested

\* measureSpeed() and what M750 does with its result.
Measure ==
    /\ pc = "measure"
    /\ UNCHANGED <<static, modeStale, history>>
    /\ \/ Abort
       \/ Finish("MEASURE_FAILED") /\ SetVelocity("ZERO") /\ UNCHANGED abortRequested
       \/ Goto("rampDownStart") /\ UNCHANGED <<abortRequested, driveVars, velHist>>

RampDownStart ==
    /\ pc = "rampDownStart"
    /\ SetVelocity("ZERO")
    /\ Goto("rampDown")
    /\ UNCHANGED <<static, abortRequested, modeStale, history>>

\* This loop does not look at abortRequested.
RampDown ==
    /\ pc = "rampDown"
    /\ UNCHANGED <<static, abortRequested, modeStale, history>>
    /\ \/ speed <= Creep /\ Goto("settling") /\ UNCHANGED <<driveVars, velHist>>
       \/ SetVelocity("ZERO") /\ Stay      \* once a second
       \/ SetVelocity("ZERO") /\ Finish("DECEL_LINK_LOST")
       \/ SetVelocity("ZERO") /\ ForceIdle("decelStalled")

DecelStalled ==
    /\ pc = "decelStalled"
    /\ Finish("DECEL_STALL")
    /\ UNCHANGED <<static, abortRequested, history>> /\ Reads

Settling ==
    /\ pc = "settling"
    /\ IF home
       THEN pc' = "homeRespond" /\ kept' = homePos
            /\ UNCHANGED <<out, cmd, home, homed, ret, attempts, calAttempts>>
       ELSE Finish("CYCLE_COMPLETE")
    /\ UNCHANGED <<static, abortRequested, history>> /\ Reads

-----------------------------------------------------------------------------
(* doIndexHome(), called by M750 with H and by M752. *)

HomeRespond ==
    /\ pc = "homeRespond"
    /\ Goto("homeEnsureIdle") \/ Goto("homeReturn")
    /\ UNCHANGED <<static, abortRequested, history>> /\ Reads

HomeEnsureIdle ==
    /\ pc = "homeEnsureIdle"
    /\ \/ axis = "IDLE" /\ Goto("homeRequest")
       \/ ForceIdle("homeRequest")
    /\ UNCHANGED <<static, abortRequested, history>> /\ Reads

HomeRequest ==
    /\ pc = "homeRequest"
    /\ SetState("INDEX_SEARCH")
    /\ Goto("homeWaitStart")
    /\ UNCHANGED <<static, abortRequested, velHist, modeStale, history>>

HomeWaitStart ==
    /\ pc = "homeWaitStart"
    /\ \/ axis = "INDEX_SEARCH" /\ Goto("homeWaitIdle") /\ UNCHANGED driveVars
       \/ axis = "IDLE" /\ SetState("INDEX_SEARCH") /\ Stay
       \/ ForceIdle("homeReturn") /\ UNCHANGED driveVars
    /\ UNCHANGED <<static, abortRequested, velHist, modeStale, history>>

HomeWaitIdleWithoutStop ==                                           \* mutant
    /\ pc = "homeWaitIdle"
    /\ (axis = "IDLE" /\ Goto("homeVerify")) \/ Goto("homeReturn")
    /\ UNCHANGED <<static, abortRequested, history>> /\ Reads

HomeWaitIdle ==
    /\ pc = "homeWaitIdle"
    /\ \/ axis = "IDLE" /\ Goto("homeVerify")
       \/ ForceIdle("homeReturn")
    /\ UNCHANGED <<static, abortRequested, history>> /\ Reads

HomeVerifyNothing ==                                                 \* mutant
    /\ pc = "homeVerify"
    /\ Goto("homeGuard")
    /\ UNCHANGED <<static, abortRequested, history>> /\ Reads

HomeVerify ==
    /\ pc = "homeVerify"
    /\ \/ result = "SUCCESS" /\ Goto("homeGuard") /\ UNCHANGED unread
       \/ Goto("homeGuard") /\ unread' = TRUE
       \/ result = "FAIL" /\ ForceIdle("homeReturn") /\ UNCHANGED unread
    /\ UNCHANGED <<static, abortRequested, zero, indexed, cut, loose>> /\ Reads

\* Whole turns are dropped from the datum, never a part of one.
NormalisedToStop(p) == p                                             \* mutant
Normalised(p) == homePos - Turn * RoundTurns(homePos - p)

HomeGuardWithoutDatum ==                                             \* mutant
    /\ pc = "homeGuard"
    /\ \/ ForceIdle("homeReturn") /\ UNCHANGED homePos
       \/ homePos' = Normalised(pos) /\ Goto("homeArm")
    /\ UNCHANGED <<ready, datumSet, abortRequested, history>> /\ Reads

HomeGuard ==
    /\ pc = "homeGuard"
    /\ \/ ForceIdle("homeReturn") /\ UNCHANGED homePos    \* no stable read
       \/ ~datumSet /\ ForceIdle("homeReturn") /\ UNCHANGED homePos
       \/ /\ datumSet
          /\ homePos' = Normalised(pos)
          /\ Goto("homeArm")
    /\ UNCHANGED <<ready, datumSet, abortRequested, history>> /\ Reads

HomeArm ==
    /\ pc = "homeArm"
    /\ ArmForSettle
    /\ Goto("homeArmWait")
    /\ UNCHANGED <<static, abortRequested, history>>

HomeArmWaitWithoutRestore ==                                         \* mutant
    /\ pc = "homeArmWait"
    /\ \/ axis = "CLOSED_LOOP" /\ Goto("homeSettle")
       \/ ForceIdle("homeReturn")
    /\ UNCHANGED <<static, abortRequested, history>> /\ Reads

HomeArmWait ==
    /\ pc = "homeArmWait"
    /\ \/ axis = "CLOSED_LOOP" /\ Goto("homeSettle")
       \/ ForceIdle("homeRestore")
    /\ UNCHANGED <<static, abortRequested, history>> /\ Reads

HomeSettle ==
    /\ pc = "homeSettle"
    /\ SettleTo(homePos)
    /\ Goto("homeSettleWait")
    /\ UNCHANGED <<static, abortRequested, velHist, modeStale, history>>

\* A settle that fails keeps the datum: homeGuard left none unset, so the code's
\* branch that records a first datum here is never reached.
HomeSettleWait ==
    /\ pc = "homeSettleWait"
    /\ \/ pos = homePos /\ speed = Still /\ homed' = TRUE
       \/ UNCHANGED homed
    /\ pc' = "forceIdle" /\ ret' = "homeRestore"
    /\ UNCHANGED <<out, static, abortRequested, cmd, home, attempts, calAttempts,
                   kept, history>>
    /\ Reads

HomeRestore ==
    /\ pc = "homeRestore"
    /\ BackToVelocityMode /\ NoEffect
    /\ Goto("homeReturn")
    /\ UNCHANGED <<static, abortRequested, history>>

\* The caller's last lines.
HomeReturn ==
    /\ pc = "homeReturn"
    /\ CASE cmd # "M750" -> Finish(IF homed THEN "INDEX_COMPLETE" ELSE "INDEX_HOME_FAILED")
         [] cmd = "M750" /\ homed -> Finish("CYCLE_COMPLETE")
         [] cmd = "M750" /\ ~homed /\ homePos # kept -> Finish("NO_HOME_FIRST_DATUM")
         [] cmd = "M750" /\ ~homed /\ homePos = kept /\ datumSet -> Finish("NO_HOME_PRESERVED")
         [] OTHER -> Goto("setHome")
    /\ UNCHANGED <<static, abortRequested, history>> /\ Reads

-----------------------------------------------------------------------------
(* doSetHome(), called by M751 and as M750's fallback. *)

SetHomeWhileTurning ==                                               \* mutant
    /\ pc = "setHome"
    /\ RecordDatum(pos)
    /\ Finish(IF cmd = "M751" THEN "HOME_SET" ELSE "NO_HOME_FALLBACK")
    /\ UNCHANGED <<ready, abortRequested, unread, cut, loose>> /\ Reads

SetHome ==
    /\ pc = "setHome"
    /\ \/ /\ speed = Still
          /\ RecordDatum(pos)
          /\ Finish(IF cmd = "M751" THEN "HOME_SET" ELSE "NO_HOME_FALLBACK")
       \/ /\ Finish(IF cmd = "M751" THEN "HOME_SET_FAILED" ELSE "NO_HOME_FALLBACK_FAILED")
          /\ UNCHANGED <<homePos, datumSet, zero, indexed>>
    /\ UNCHANGED <<ready, abortRequested, unread, cut, loose>> /\ Reads

-----------------------------------------------------------------------------
(* What comes from outside. *)

\* requestAbort(), from thermalManager.task().
M410 ==
    /\ "M410" \in Events /\ pc # "killed"
    /\ abortRequested' = TRUE
    /\ Stay /\ UNCHANGED <<static, history>> /\ Reads

EmergencyStopWithoutDisarm ==                                        \* mutant
    /\ loose' = {}
    /\ UNCHANGED <<axis, result, goal, mode, speed, pos, frame>>

\* emergencyStop(): IDLE twice; the drive stays as it is only if both are lost.
EmergencyStop ==
    /\ \/ Disarmed /\ loose' = {}
       \/ UNCHANGED <<axis, result, goal>> /\ loose' = {"emergencyStop"}
    /\ UNCHANGED <<mode, speed, pos, frame>>

\* kill(): safeStop() once the drive is ready, then emergencyStop().
Kill ==
    /\ "Kill" \in Events /\ pc # "killed"
    /\ IF ready THEN WriteVelocity("ZERO") ELSE UNCHANGED <<setVel, velHist>>
    /\ EmergencyStop
    /\ LeaveFor("killed")
    /\ modeStale' = (modeStale \/ mode = "POS")
    /\ UNCHANGED <<out, kept, static, abortRequested, datumHist>>

StartupWithoutDisarm ==                                              \* mutant
    /\ loose' = {}
    /\ UNCHANGED <<axis, result, goal, mode, speed, pos, frame>>

StartupSafetyDisarm == EmergencyStop

\* setup() after a reset: the Mega's memory is gone, the drive keeps what it had.
Reset ==
    /\ "Reset" \in Events
    /\ StartupSafetyDisarm
    /\ LeaveFor("wait") /\ out' = "none" /\ kept' = 0
    /\ ready' = FALSE /\ datumSet' = FALSE /\ homePos' = 0
    /\ abortRequested' = FALSE
    /\ modeStale' = (modeStale \/ mode = "POS")
    /\ unread' = FALSE /\ cut' = FALSE
    /\ cmdVel' = "ZERO" /\ velStale' = (setVel = "SPIN")
    /\ UNCHANGED <<setVel, zero, indexed>>

DriveStep ==
    /\ \/ SpinUp \/ SlowDown \/ Rotate \/ SearchEnds \/ CalibrationEnds \/ TrapMove
       \/ "SelfDisarm" \in Events /\ SelfDisarm
       \/ "HandTurn" \in Events /\ pc = "wait" /\ HandTurn
    /\ Stay /\ UNCHANGED <<static, abortRequested, velHist, modeStale, history>>

PowerLost ==
    /\ "PowerCycle" \in Events
    /\ PowerCycle
    /\ cut' = (cut \/ pc # "wait")
    /\ Stay /\ UNCHANGED <<static, abortRequested, velHist, modeStale,
                   zero, indexed, unread, loose>>

-----------------------------------------------------------------------------
StartCommand == M750Refused \/ M750 \/ M751 \/ M752
RunForceIdle == ForceIdleWrite \/ ForceIdleWait
RunBoot ==
    \/ BootProbe \/ BootIdle \/ BootSearch \/ BootWaitStart \/ BootWaitIdle
    \/ BootVerify \/ BootArm \/ BootArmWait \/ BootSettle \/ BootSettleWait
    \/ BootReturn \/ BootRead
RunCycle ==
    \/ Connect \/ ClosedLoop \/ ClosedLoopCheck \/ CalWait \/ NotClosed
    \/ RampStart \/ RampUp \/ Measure \/ RampDownStart \/ RampDown
    \/ DecelStalled \/ Settling
RunHome ==
    \/ HomeRespond \/ HomeEnsureIdle \/ HomeRequest \/ HomeWaitStart
    \/ HomeWaitIdle \/ HomeVerify \/ HomeGuard \/ HomeArm \/ HomeArmWait
    \/ HomeSettle \/ HomeSettleWait \/ HomeRestore \/ HomeReturn \/ SetHome
RunCommand == RunForceIdle \/ RunBoot \/ RunCycle \/ RunHome

Next ==
    \/ StartCommand \/ RunCommand
    \/ M410 \/ Kill \/ Reset
    \/ DriveStep \/ PowerLost

Spec == Init /\ [][Next]_vars

\* No loop polls past its deadline, and a freewheeling rotor slows down.
Fairness ==
    /\ WF_vars(RunCommand /\ pc' # pc)
    /\ WF_vars(DriveStep /\ SlowDown)

FairSpec == Spec /\ Fairness
=============================================================================
