-------------------------- MODULE SpincoaterProofs --------------------------
(* Theorems about the spin coater, for any chuck, any number of attempts and *)
(* any commands and events.                                                  *)
EXTENDS SpincoaterProperties, TLAPS

-----------------------------------------------------------------------------
(* Angles. *)

\* A remainder is an angle.
LEMMA AngleType ==
    ASSUME NEW a \in Int
    PROVE  a % Turn \in 0..(Turn - 1)
BY TurnAssumption

\* Rounding to turns gives integers.
LEMMA TurnsType ==
    ASSUME NEW p \in Int
    PROVE  RoundTurns(p) \in Int /\ Turn * RoundTurns(p) \in Int
BY TurnAssumption DEF RoundTurns

\* The encoder's reading is an angle of the chuck.
LEMMA PhysicalType ==
    ASSUME TypeOK
    PROVE  pos \in Int /\ Physical(pos) \in 0..(Turn - 1)
<1>1. pos \in Int /\ frame \in Int
  BY TurnAssumption, PositionsAssumption DEF TypeOK, DriveTypeOK
<1>2. pos + frame \in Int
  BY <1>1
<1> QED BY <1>1, <1>2, AngleType DEF Physical

-----------------------------------------------------------------------------
(* What the building blocks of the actions do to the types. *)

LEMMA RequestType ==
    ASSUME DriveTypeOK, NEW s \in AxisStates, RequestState(s)
    PROVE  /\ axis' \in AxisStates /\ setVel' \in {"ZERO", "SPIN"}
           /\ speed' \in Speeds /\ result' \in {"SUCCESS", "FAIL"}
           /\ goal' \subseteq Int
BY DEF DriveTypeOK, RequestState, NoEffect, GoIdle, Disarmed, Enter, AxisStates,
       Speeds, Still, Creep, Fast

LEMMA SetStateType ==
    ASSUME DriveTypeOK, NEW s \in AxisStates, SetState(s)
    PROVE  DriveTypeOK'
BY RequestType DEF SetState, DriveTypeOK

LEMMA SetVelocityType ==
    ASSUME DriveTypeOK, HistoryTypeOK, NEW v \in {"ZERO", "SPIN"}, SetVelocity(v),
           UNCHANGED <<modeStale, history>>
    PROVE  DriveTypeOK' /\ HistoryTypeOK'
<1>1. DriveTypeOK'
  BY DEF DriveTypeOK, SetVelocity, WriteVelocity
<1>2. HistoryTypeOK'
  BY DEF HistoryTypeOK, SetVelocity, WriteVelocity, history, datumHist
<1> QED BY <1>1, <1>2

LEMMA WriteModeType ==
    ASSUME DriveTypeOK, HistoryTypeOK, NEW m \in {"VEL", "POS"}, WriteMode(m)
    PROVE  mode' \in {"VEL", "POS"} /\ modeStale' \in BOOLEAN
BY DEF WriteMode, DriveTypeOK, HistoryTypeOK

LEMMA GotoType ==
    ASSUME ControlTypeOK, NEW l \in Places, Goto(l)
    PROVE  ControlTypeOK'
BY DEF ControlTypeOK, Goto, locals, body

LEMMA ForceIdleType ==
    ASSUME ControlTypeOK, NEW l \in Places, ForceIdle(l)
    PROVE  ControlTypeOK'
BY DEF ControlTypeOK, ForceIdle, body, Places

LEMMA ReturnType ==
    ASSUME ControlTypeOK, NEW l \in Places, Return(l)
    PROVE  ControlTypeOK'
BY DEF ControlTypeOK, Return, body, Places

LEMMA LeaveForType ==
    ASSUME ControlTypeOK, NEW l \in Places, LeaveFor(l), out' \in Markers, kept' \in Int
    PROVE  ControlTypeOK'
<1>1. home' \in BOOLEAN /\ homed' \in BOOLEAN
  BY Zenon DEF LeaveFor
<1>2. attempts' \in 0..MaxAttempts /\ calAttempts' \in 0..MaxCal
  BY AttemptsAssumption DEF LeaveFor
<1> QED BY <1>1, <1>2 DEF ControlTypeOK, LeaveFor, Places, AllCommands

LEMMA FinishType ==
    ASSUME ControlTypeOK, NEW m \in Markers, Finish(m)
    PROVE  ControlTypeOK'
BY LeaveForType DEF Finish, Places, ControlTypeOK

LEMMA StayType ==
    ASSUME ControlTypeOK, Stay
    PROVE  ControlTypeOK'
BY DEF ControlTypeOK, Stay, locals, body

LEMMA ReadsType ==
    ASSUME DriveTypeOK, Reads
    PROVE  DriveTypeOK'
BY DEF DriveTypeOK, Reads, driveVars

LEMMA MegaKept ==
    ASSUME MegaTypeOK, UNCHANGED <<static, abortRequested>>
    PROVE  MegaTypeOK'
BY DEF MegaTypeOK, static

LEMMA HistoryKept ==
    ASSUME HistoryTypeOK, UNCHANGED <<velHist, modeStale, history>>
    PROVE  HistoryTypeOK'
BY DEF HistoryTypeOK, velHist, history, datumHist

\* A step that only reads the drive and records nothing.
LEMMA QuietType ==
    ASSUME TypeOK, Reads, UNCHANGED <<static, abortRequested, history>>
    PROVE  DriveTypeOK' /\ MegaTypeOK' /\ HistoryTypeOK'
BY ReadsType, MegaKept, HistoryKept DEF TypeOK, Reads

-----------------------------------------------------------------------------
(* The type invariant, by groups of actions. *)

LEMMA InitType == Init => TypeOK
<1> SUFFICES ASSUME Init PROVE TypeOK
  OBVIOUS
<1>1. DriveTypeOK
  BY PositionsAssumption
  DEF Init, DriveInit, DriveTypeOK, AxisStates, Speeds, Still, Creep, Fast
<1>2. MegaTypeOK
  <2>1. ready \in BOOLEAN /\ datumSet \in BOOLEAN /\ abortRequested \in BOOLEAN
    BY Zenon DEF Init
  <2> QED BY <2>1 DEF Init, MegaTypeOK
<1>3. ControlTypeOK
  <2>1. home \in BOOLEAN /\ homed \in BOOLEAN
    BY Zenon DEF Init
  <2> QED BY <2>1, AttemptsAssumption DEF Init, ControlTypeOK, Places, Markers, AllCommands
<1>4. HistoryTypeOK
  <2>1. /\ velStale \in BOOLEAN /\ modeStale \in BOOLEAN /\ indexed \in BOOLEAN
        /\ unread \in BOOLEAN /\ cut \in BOOLEAN
    BY Zenon DEF Init
  <2> QED BY <2>1, TurnAssumption DEF Init, HistoryTypeOK
<1> QED BY <1>1, <1>2, <1>3, <1>4 DEF TypeOK

\* forceIdle() keeps the types.
LEMMA ForceIdleStepType == TypeOK /\ RunForceIdle => TypeOK'
<1> SUFFICES ASSUME TypeOK, RunForceIdle PROVE TypeOK'
  OBVIOUS
<1> USE DEF TypeOK
<1>1. CASE ForceIdleWrite
  <2>1. DriveTypeOK' /\ ControlTypeOK'
    BY <1>1, SetStateType, GotoType DEF ForceIdleWrite, Places, AxisStates
  <2>2. MegaTypeOK' /\ HistoryTypeOK'
    BY <1>1, MegaKept, HistoryKept DEF ForceIdleWrite
  <2> QED BY <2>1, <2>2
<1>2. CASE ForceIdleWait
  <2>1. DriveTypeOK'
    BY <1>2, SetStateType DEF ForceIdleWait, AxisStates, DriveTypeOK, driveVars
  <2>2. ControlTypeOK'
    BY <1>2, ReturnType, StayType DEF ForceIdleWait, ControlTypeOK, Places
  <2>3. loose' \subseteq LooseEnds
    BY <1>2 DEF ForceIdleWait, HistoryTypeOK, LooseEnds
  <2>4. HistoryTypeOK'
    BY <1>2, <2>3 DEF ForceIdleWait, HistoryTypeOK, velHist, datumHist
  <2> QED BY <1>2, <2>1, <2>2, <2>4, MegaKept DEF ForceIdleWait
<1> QED BY <1>1, <1>2 DEF RunForceIdle

\* boot() keeps the types.
LEMMA BootStepType == TypeOK /\ RunBoot => TypeOK'
<1> SUFFICES ASSUME TypeOK, RunBoot PROVE TypeOK'
  OBVIOUS
<1> USE DEF TypeOK
<1>1. CASE BootProbe
  <2>1. DriveTypeOK' /\ HistoryTypeOK'
    BY <1>1, ReadsType, HistoryKept DEF BootProbe, Reads
  <2>2. ControlTypeOK'
    BY <1>1, GotoType, FinishType DEF BootProbe, Places, Markers
  <2>3. ready' \in BOOLEAN
    BY <1>1 DEF BootProbe, MegaTypeOK
  <2>4. MegaTypeOK'
    BY <1>1, <2>3 DEF BootProbe, MegaTypeOK
  <2> QED BY <2>1, <2>2, <2>4
<1>2. CASE BootIdle
  <2>1. DriveTypeOK' /\ ControlTypeOK'
    BY <1>2, SetStateType, GotoType DEF BootIdle, Places, AxisStates
  <2>2. MegaTypeOK' /\ HistoryTypeOK'
    BY <1>2, MegaKept, HistoryKept DEF BootIdle
  <2> QED BY <2>1, <2>2
<1>3. CASE BootSearch
  <2>1. DriveTypeOK' /\ ControlTypeOK'
    BY <1>3, SetStateType, GotoType DEF BootSearch, Places, AxisStates
  <2>2. MegaTypeOK' /\ HistoryTypeOK'
    BY <1>3, MegaKept, HistoryKept DEF BootSearch
  <2> QED BY <2>1, <2>2
<1>4. CASE BootWaitStart
  <2>1. DriveTypeOK'
    BY <1>4, SetStateType DEF BootWaitStart, BootSearchUnseen, DriveTypeOK, driveVars, AxisStates
  <2>2. ControlTypeOK'
    BY <1>4, GotoType, StayType DEF BootWaitStart, BootSearchUnseen, Places
  <2>3. loose' \subseteq LooseEnds
    BY <1>4 DEF BootWaitStart, BootSearchUnseen, HistoryTypeOK, LooseEnds
  <2>4. HistoryTypeOK'
    BY <1>4, <2>3 DEF BootWaitStart, HistoryTypeOK, velHist, datumHist
  <2> QED BY <1>4, <2>1, <2>2, <2>4, MegaKept DEF BootWaitStart
<1>5. CASE BootWaitIdle
  BY <1>5, QuietType, GotoType, ForceIdleType DEF BootWaitIdle, Places
<1>6. CASE BootVerify
  <2>1. DriveTypeOK' /\ MegaTypeOK'
    BY <1>6, ReadsType, MegaKept DEF BootVerify
  <2>2. ControlTypeOK'
    BY <1>6, GotoType, ForceIdleType DEF BootVerify, Places
  <2>3. unread' \in BOOLEAN
    BY <1>6 DEF BootVerify, HistoryTypeOK
  <2>4. HistoryTypeOK'
    BY <1>6, <2>3 DEF BootVerify, Reads, HistoryTypeOK, velHist
  <2> QED BY <2>1, <2>2, <2>4
<1>7. CASE BootArm
  <2>1. DriveTypeOK' /\ modeStale' \in BOOLEAN
    BY <1>7, RequestType, WriteModeType DEF BootArm, ArmForSettle, DriveTypeOK, AxisStates
  <2>2. ControlTypeOK'
    BY <1>7, GotoType DEF BootArm, Places
  <2>3. HistoryTypeOK'
    BY <1>7, <2>1 DEF BootArm, ArmForSettle, HistoryTypeOK, velHist, history, datumHist
  <2> QED BY <1>7, <2>1, <2>2, <2>3, MegaKept DEF BootArm
<1>8. CASE BootArmWait
  BY <1>8, QuietType, GotoType, ForceIdleType DEF BootArmWait, Places
<1>9. CASE BootSettle
  <2>1. PICK target \in {Turn * RoundTurns(pos), 0} : SettleTo(target) /\ kept' = target
    BY <1>9 DEF BootSettle
  <2>2. target \in Int
    BY <2>1, PhysicalType, TurnsType
  <2>3. DriveTypeOK'
    BY <2>1, <2>2 DEF SettleTo, DriveTypeOK
  <2>4. ControlTypeOK'
    BY <1>9, <2>1, <2>2 DEF BootSettle, ControlTypeOK, Places
  <2> QED BY <1>9, <2>3, <2>4, MegaKept, HistoryKept DEF BootSettle
<1>10. CASE BootSettleWait
  <2>1. homed' \in BOOLEAN
    BY <1>10 DEF BootSettleWait, ControlTypeOK
  <2>2. ControlTypeOK'
    BY <1>10, <2>1 DEF BootSettleWait, ControlTypeOK, Places
  <2> QED BY <1>10, <2>2, QuietType DEF BootSettleWait
<1>11. CASE BootReturn
  <2>1. DriveTypeOK' /\ modeStale' \in BOOLEAN
    BY <1>11, RequestType, WriteModeType DEF BootReturn, BackToVelocityMode, DriveTypeOK, AxisStates
  <2>2. ControlTypeOK'
    BY <1>11, GotoType DEF BootReturn, Places
  <2>3. HistoryTypeOK'
    BY <1>11, <2>1 DEF BootReturn, BackToVelocityMode, HistoryTypeOK, velHist, history, datumHist
  <2> QED BY <1>11, <2>1, <2>2, <2>3, MegaKept DEF BootReturn
<1>12. CASE BootRead
  <2>1. /\ datumSet' \in BOOLEAN /\ homePos' \in Int
        /\ zero' \in 0..(Turn - 1) /\ indexed' \in BOOLEAN
    BY <1>12, PhysicalType DEF BootRead, RecordDatum, MegaTypeOK, HistoryTypeOK
  <2>2. DriveTypeOK'
    BY <1>12, ReadsType DEF BootRead
  <2>3. ready' \in BOOLEAN /\ homed' \in BOOLEAN
    BY <1>12, Zenon DEF BootRead
  <2>4. MegaTypeOK'
    BY <1>12, <2>1, <2>3 DEF BootRead, MegaTypeOK
  <2>5. ControlTypeOK'
    BY <1>12, <2>3 DEF BootRead, ControlTypeOK, AfterBoot, Places
  <2>6. HistoryTypeOK'
    BY <1>12, <2>1 DEF BootRead, Reads, HistoryTypeOK, velHist
  <2> QED BY <2>2, <2>4, <2>5, <2>6
<1> QED BY <1>1, <1>2, <1>3, <1>4, <1>5, <1>6, <1>7, <1>8, <1>9, <1>10, <1>11, <1>12 DEF RunBoot

\* The steps of M750 keep the types.
LEMMA CycleStepType == TypeOK /\ RunCycle => TypeOK'
<1> SUFFICES ASSUME TypeOK, RunCycle PROVE TypeOK'
  OBVIOUS
<1> USE DEF TypeOK
<1>1. CASE Connect
  BY <1>1, QuietType, GotoType, ForceIdleType, FinishType DEF Connect, Places, Markers
<1>2. CASE ClosedLoop
  <2>1. DriveTypeOK'
    BY <1>2, RequestType DEF ClosedLoop, NoEffect, DriveTypeOK, AxisStates
  <2>2. ControlTypeOK'
    BY <1>2, GotoType, ForceIdleType, AttemptsAssumption DEF ClosedLoop, ControlTypeOK, Places
  <2> QED BY <1>2, <2>1, <2>2, MegaKept, HistoryKept DEF ClosedLoop
<1>3. CASE ClosedLoopCheck
  <2>1. DriveTypeOK'
    BY <1>3, RequestType DEF ClosedLoopCheck, NoEffect, DriveTypeOK, AxisStates
  <2>2. ControlTypeOK'
    BY <1>3, GotoType, ForceIdleType, AttemptsAssumption DEF ClosedLoopCheck, MayCalibrate, ControlTypeOK, Places
  <2> QED BY <1>3, <2>1, <2>2, MegaKept, HistoryKept DEF ClosedLoopCheck
<1>4. CASE CalWait
  BY <1>4, QuietType, GotoType, ForceIdleType DEF CalWait, Places
<1>5. CASE NotClosed
  BY <1>5, QuietType, GotoType, ForceIdleType, FinishType DEF NotClosed, Places, Markers
<1>6. CASE RampStart
  <2>1. DriveTypeOK' /\ HistoryTypeOK'
    BY <1>6, SetVelocityType DEF RampStart
  <2>2. ControlTypeOK'
    BY <1>6, GotoType DEF RampStart, Places
  <2> QED BY <1>6, <2>1, <2>2, MegaKept DEF RampStart
<1>7. CASE RampUp
  <2>1. DriveTypeOK' /\ HistoryTypeOK'
    BY <1>7, SetVelocityType, HistoryKept DEF RampUp, Abort, DriveTypeOK, driveVars
  <2>2. ControlTypeOK'
    BY <1>7, GotoType, FinishType DEF RampUp, Abort, Places, Markers
  <2>3. abortRequested' \in BOOLEAN
    BY <1>7 DEF RampUp, Abort, MegaTypeOK
  <2>4. MegaTypeOK'
    BY <1>7, <2>3 DEF RampUp, MegaTypeOK, static
  <2> QED BY <2>1, <2>2, <2>4
<1>8. CASE Measure
  <2>1. DriveTypeOK' /\ HistoryTypeOK'
    BY <1>8, SetVelocityType, HistoryKept DEF Measure, Abort, DriveTypeOK, driveVars
  <2>2. ControlTypeOK'
    BY <1>8, GotoType, FinishType DEF Measure, Abort, Places, Markers
  <2>3. abortRequested' \in BOOLEAN
    BY <1>8 DEF Measure, Abort, MegaTypeOK
  <2>4. MegaTypeOK'
    BY <1>8, <2>3 DEF Measure, MegaTypeOK, static
  <2> QED BY <2>1, <2>2, <2>4
<1>9. CASE RampDownStart
  <2>1. DriveTypeOK' /\ HistoryTypeOK'
    BY <1>9, SetVelocityType DEF RampDownStart
  <2>2. ControlTypeOK'
    BY <1>9, GotoType DEF RampDownStart, Places
  <2> QED BY <1>9, <2>1, <2>2, MegaKept DEF RampDownStart
<1>10. CASE RampDown
  <2>1. DriveTypeOK' /\ HistoryTypeOK'
    BY <1>10, SetVelocityType, HistoryKept DEF RampDown, DriveTypeOK, driveVars
  <2>2. ControlTypeOK'
    BY <1>10, GotoType, ForceIdleType, FinishType, StayType DEF RampDown, Places, Markers
  <2> QED BY <1>10, <2>1, <2>2, MegaKept DEF RampDown
<1>11. CASE DecelStalled
  BY <1>11, QuietType, GotoType, ForceIdleType, FinishType DEF DecelStalled, Places, Markers
<1>12. CASE Settling
  <2>1. ControlTypeOK'
    BY <1>12, FinishType DEF Settling, ControlTypeOK, MegaTypeOK, Places, Markers
  <2> QED BY <1>12, <2>1, QuietType DEF Settling
<1> QED BY <1>1, <1>2, <1>3, <1>4, <1>5, <1>6, <1>7, <1>8, <1>9, <1>10, <1>11, <1>12 DEF RunCycle

\* doIndexHome() and doSetHome() keep the types.
LEMMA HomeStepType == TypeOK /\ RunHome => TypeOK'
<1> SUFFICES ASSUME TypeOK, RunHome PROVE TypeOK'
  OBVIOUS
<1> USE DEF TypeOK
<1>1. CASE HomeRespond
  BY <1>1, QuietType, GotoType, ForceIdleType DEF HomeRespond, Places
<1>2. CASE HomeEnsureIdle
  BY <1>2, QuietType, GotoType, ForceIdleType DEF HomeEnsureIdle, Places
<1>3. CASE HomeRequest
  <2>1. DriveTypeOK' /\ ControlTypeOK'
    BY <1>3, SetStateType, GotoType DEF HomeRequest, Places, AxisStates
  <2>2. MegaTypeOK' /\ HistoryTypeOK'
    BY <1>3, MegaKept, HistoryKept DEF HomeRequest
  <2> QED BY <2>1, <2>2
<1>4. CASE HomeWaitStart
  <2>1. DriveTypeOK'
    BY <1>4, SetStateType DEF HomeWaitStart, DriveTypeOK, driveVars, AxisStates
  <2>2. ControlTypeOK'
    BY <1>4, GotoType, StayType, ForceIdleType DEF HomeWaitStart, Places
  <2> QED BY <1>4, <2>1, <2>2, MegaKept, HistoryKept DEF HomeWaitStart
<1>5. CASE HomeWaitIdle
  BY <1>5, QuietType, GotoType, ForceIdleType DEF HomeWaitIdle, Places
<1>6. CASE HomeVerify
  <2>1. DriveTypeOK' /\ MegaTypeOK'
    BY <1>6, ReadsType, MegaKept DEF HomeVerify
  <2>2. ControlTypeOK'
    BY <1>6, GotoType, ForceIdleType DEF HomeVerify, Places
  <2>3. unread' \in BOOLEAN
    BY <1>6 DEF HomeVerify, HistoryTypeOK
  <2>4. HistoryTypeOK'
    BY <1>6, <2>3 DEF HomeVerify, Reads, HistoryTypeOK, velHist
  <2> QED BY <2>1, <2>2, <2>4
<1>7. CASE HomeGuard
  <2>1. DriveTypeOK' /\ HistoryTypeOK'
    BY <1>7, ReadsType, HistoryKept DEF HomeGuard, Reads
  <2>2. ControlTypeOK'
    BY <1>7, GotoType, ForceIdleType DEF HomeGuard, Places
  <2>3. homePos - pos \in Int
    BY PhysicalType DEF MegaTypeOK
  <2>4. Normalised(pos) \in Int
    BY <2>3, TurnsType DEF Normalised, MegaTypeOK
  <2>5. MegaTypeOK'
    BY <1>7, <2>4 DEF HomeGuard, MegaTypeOK
  <2> QED BY <2>1, <2>2, <2>5
<1>8. CASE HomeArm
  <2>1. DriveTypeOK' /\ modeStale' \in BOOLEAN
    BY <1>8, RequestType, WriteModeType DEF HomeArm, ArmForSettle, DriveTypeOK, AxisStates
  <2>2. ControlTypeOK'
    BY <1>8, GotoType DEF HomeArm, Places
  <2>3. HistoryTypeOK'
    BY <1>8, <2>1 DEF HomeArm, ArmForSettle, HistoryTypeOK, velHist, history, datumHist
  <2> QED BY <1>8, <2>1, <2>2, <2>3, MegaKept DEF HomeArm
<1>9. CASE HomeArmWait
  BY <1>9, QuietType, GotoType, ForceIdleType DEF HomeArmWait, Places
<1>10. CASE HomeSettle
  <2>1. DriveTypeOK'
    BY <1>10 DEF HomeSettle, SettleTo, DriveTypeOK, MegaTypeOK
  <2>2. ControlTypeOK'
    BY <1>10, GotoType DEF HomeSettle, Places
  <2> QED BY <1>10, <2>1, <2>2, MegaKept, HistoryKept DEF HomeSettle
<1>11. CASE HomeSettleWait
  <2>1. homed' \in BOOLEAN
    BY <1>11 DEF HomeSettleWait, ControlTypeOK
  <2>2. ControlTypeOK'
    BY <1>11, <2>1 DEF HomeSettleWait, ControlTypeOK, Places
  <2> QED BY <1>11, <2>2, QuietType DEF HomeSettleWait
<1>12. CASE HomeRestore
  <2>1. DriveTypeOK' /\ modeStale' \in BOOLEAN
    BY <1>12, RequestType, WriteModeType DEF HomeRestore, BackToVelocityMode, DriveTypeOK, AxisStates, NoEffect
  <2>2. ControlTypeOK'
    BY <1>12, GotoType DEF HomeRestore, Places
  <2>3. HistoryTypeOK'
    BY <1>12, <2>1 DEF HomeRestore, BackToVelocityMode, HistoryTypeOK, velHist, history, datumHist
  <2> QED BY <1>12, <2>1, <2>2, <2>3, MegaKept DEF HomeRestore
<1>13. CASE HomeReturn
  BY <1>13, QuietType, GotoType, ForceIdleType, FinishType DEF HomeReturn, Places, Markers
<1>14. CASE SetHome
  <2>1. DriveTypeOK'
    BY <1>14, ReadsType DEF SetHome
  <2>2. ControlTypeOK'
    BY <1>14, FinishType DEF SetHome, Markers
  <2>3. /\ datumSet' \in BOOLEAN /\ homePos' \in Int
        /\ zero' \in 0..(Turn - 1) /\ indexed' \in BOOLEAN
    BY <1>14, PhysicalType DEF SetHome, RecordDatum, MegaTypeOK, HistoryTypeOK
  <2>4. MegaTypeOK' /\ HistoryTypeOK'
    BY <1>14, <2>3 DEF SetHome, Reads, MegaTypeOK, HistoryTypeOK, velHist
  <2> QED BY <2>1, <2>2, <2>4
<1> QED BY <1>1, <1>2, <1>3, <1>4, <1>5, <1>6, <1>7, <1>8, <1>9, <1>10, <1>11, <1>12, <1>13, <1>14 DEF RunHome

\* The start of a command keeps the types.
LEMMA BeginType ==
    ASSUME TypeOK, NEW c \in AllCommands, NEW h \in BOOLEAN, Begin(c, h),
           abortRequested' \in BOOLEAN
    PROVE  TypeOK'
<1>1. DriveTypeOK'
  BY ReadsType DEF Begin, TypeOK
<1>2. MegaTypeOK'
  BY DEF Begin, TypeOK, MegaTypeOK, static
<1>3. ControlTypeOK'
  BY DEF Begin, TypeOK, ControlTypeOK, AfterBoot, Places, Markers
<1>4. unread' \in BOOLEAN /\ cut' \in BOOLEAN
  BY Zenon DEF Begin
<1>5. HistoryTypeOK'
  BY <1>4 DEF Begin, TypeOK, HistoryTypeOK, Reads, velHist
<1> QED BY <1>1, <1>2, <1>3, <1>5 DEF TypeOK

LEMMA StartType == TypeOK /\ StartCommand => TypeOK'
<1> SUFFICES ASSUME TypeOK, StartCommand PROVE TypeOK'
  OBVIOUS
<1>1. CASE M750Refused
  BY <1>1, QuietType, FinishType DEF M750Refused, TypeOK, Markers
<1>2. CASE M750
  <2>1. PICK h \in BOOLEAN : Begin("M750", h)
    BY <1>2 DEF M750
  <2>2. abortRequested' \in BOOLEAN
    BY <1>2, Zenon DEF M750
  <2> QED BY <2>1, <2>2, BeginType DEF AllCommands
<1>3. CASE M751 \/ M752
  <2>1. abortRequested' \in BOOLEAN
    BY <1>3 DEF M751, M752, TypeOK, MegaTypeOK
  <2>2. Begin("M751", FALSE) \/ Begin("M752", FALSE)
    BY <1>3 DEF M751, M752
  <2>3. FALSE \in BOOLEAN
    OBVIOUS
  <2> QED BY <2>1, <2>2, <2>3, BeginType DEF AllCommands
<1> QED BY <1>1, <1>2, <1>3 DEF StartCommand

\* Kill and reset disarm the axis or leave it alone.
LEMMA EmergencyStopType ==
    ASSUME TypeOK, EmergencyStop, setVel' \in {"ZERO", "SPIN"}
    PROVE  DriveTypeOK' /\ loose' \subseteq LooseEnds
<1>1. loose' \subseteq LooseEnds
  BY DEF EmergencyStop, LooseEnds
<1> QED BY <1>1 DEF EmergencyStop, Disarmed, TypeOK, DriveTypeOK, AxisStates

\* The drive's own steps keep its types.
LEMMA DriveStepType == TypeOK /\ DriveStep => TypeOK'
<1> SUFFICES ASSUME TypeOK, DriveStep PROVE TypeOK'
  OBVIOUS
<1>1. DriveTypeOK'
  <2> USE DEF TypeOK, DriveTypeOK
  <2>1. CASE SpinUp \/ SlowDown
    <3>1. speed' \in Speeds
      BY <2>1 DEF SpinUp, SlowDown, Speeds, Still, Creep, Fast
    <3>2. UNCHANGED <<axis, mode, setVel, pos, frame, result, goal>>
      BY <2>1 DEF SpinUp, SlowDown
    <3> QED BY <3>1, <3>2
  <2>2. CASE Rotate \/ HandTurn \/ TrapMove
    <3>1. pos' \in Positions /\ speed' \in Speeds
      BY <2>2 DEF Rotate, HandTurn, TrapMove, Speeds
    <3>2. UNCHANGED <<axis, mode, setVel, frame, result, goal>>
      BY <2>2 DEF Rotate, HandTurn, TrapMove
    <3> QED BY <3>1, <3>2
  <2>3. CASE SearchEnds \/ CalibrationEnds
    <3>1. axis' \in AxisStates /\ result' \in {"SUCCESS", "FAIL"}
      BY <2>3 DEF SearchEnds, CalibrationEnds, AxisStates
    <3>2. frame' \in 0..(Turn - 1)
      BY <2>3, TurnAssumption DEF SearchEnds, CalibrationEnds
    <3>3. UNCHANGED <<mode, setVel, speed, pos, goal>>
      BY <2>3 DEF SearchEnds, CalibrationEnds
    <3> QED BY <3>1, <3>2, <3>3
  <2>4. CASE SelfDisarm
    BY <2>4 DEF SelfDisarm, GoIdle, Disarmed, AxisStates
  <2> QED BY <2>1, <2>2, <2>3, <2>4 DEF DriveStep
<1> QED BY <1>1, StayType, MegaKept, HistoryKept DEF DriveStep, TypeOK

\* What comes from outside keeps the types.
LEMMA OutsideType == TypeOK /\ (M410 \/ Kill \/ Reset \/ PowerLost) => TypeOK'
<1> SUFFICES ASSUME TypeOK, M410 \/ Kill \/ Reset \/ PowerLost PROVE TypeOK'
  OBVIOUS
<1>1. CASE M410
  <2>1. abortRequested' \in BOOLEAN
    BY <1>1, Zenon DEF M410
  <2>2. MegaTypeOK'
    BY <1>1, <2>1 DEF M410, TypeOK, MegaTypeOK, static
  <2> QED BY <1>1, <2>2, ReadsType, StayType, HistoryKept DEF M410, TypeOK, Reads
<1>2. CASE Kill
  <2>1. setVel' \in {"ZERO", "SPIN"} /\ cmdVel' \in {"ZERO", "SPIN"} /\ velStale' \in BOOLEAN
    BY <1>2 DEF Kill, WriteVelocity, TypeOK, DriveTypeOK, HistoryTypeOK, velHist
  <2>2. DriveTypeOK' /\ loose' \subseteq LooseEnds
    BY <1>2, <2>1, EmergencyStopType DEF Kill
  <2>3. ControlTypeOK'
    BY <1>2, LeaveForType DEF Kill, TypeOK, ControlTypeOK, Places
  <2>4. modeStale' \in BOOLEAN
    BY <1>2 DEF Kill
  <2>5. HistoryTypeOK'
    BY <1>2, <2>1, <2>2, <2>4 DEF Kill, TypeOK, HistoryTypeOK, datumHist
  <2> QED BY <1>2, <2>2, <2>3, <2>5, MegaKept DEF Kill, TypeOK
<1>3. CASE Reset
  <2>1. DriveTypeOK' /\ loose' \subseteq LooseEnds
    BY <1>3, EmergencyStopType DEF Reset, StartupSafetyDisarm, TypeOK, DriveTypeOK
  <2>2. out' = "none" /\ kept' = 0 /\ homePos' = 0
    BY <1>3 DEF Reset
  <2>3. ControlTypeOK'
    BY <1>3, <2>2, LeaveForType DEF Reset, TypeOK, Places, Markers
  <2>4. ready' \in BOOLEAN /\ datumSet' \in BOOLEAN /\ abortRequested' \in BOOLEAN
    BY <1>3, Zenon DEF Reset
  <2>5. MegaTypeOK'
    BY <2>2, <2>4 DEF MegaTypeOK
  <2>6. unread' \in BOOLEAN /\ cut' \in BOOLEAN
    BY <1>3, Zenon DEF Reset
  <2>7. modeStale' \in BOOLEAN /\ velStale' \in BOOLEAN
    BY <1>3 DEF Reset
  <2>8. HistoryTypeOK'
    BY <1>3, <2>1, <2>6, <2>7 DEF Reset, TypeOK, HistoryTypeOK
  <2> QED BY <2>1, <2>3, <2>5, <2>8 DEF TypeOK
<1>4. CASE PowerLost
  <2>1. DriveTypeOK'
    BY <1>4, PhysicalType, PositionsAssumption
    DEF PowerLost, PowerCycle, TypeOK, DriveTypeOK, AxisStates
  <2>2. cut' \in BOOLEAN
    BY <1>4 DEF PowerLost
  <2>3. HistoryTypeOK'
    BY <1>4, <2>2 DEF PowerLost, TypeOK, HistoryTypeOK, velHist
  <2> QED BY <1>4, <2>1, <2>3, StayType, MegaKept DEF PowerLost, TypeOK
<1> QED BY <1>1, <1>2, <1>3, <1>4

LEMMA StutterType == TypeOK /\ UNCHANGED vars => TypeOK'
<1> SUFFICES ASSUME TypeOK, UNCHANGED vars PROVE TypeOK'
  OBVIOUS
<1>1. Stay /\ Reads /\ UNCHANGED <<static, abortRequested, history>>
  BY DEF vars, Stay, Reads
<1> QED BY <1>1, QuietType, StayType DEF TypeOK

LEMMA NextType == TypeOK /\ [Next]_vars => TypeOK'
<1> SUFFICES ASSUME TypeOK, [Next]_vars PROVE TypeOK'
  OBVIOUS
<1>1. CASE RunCommand
  BY <1>1, ForceIdleStepType, BootStepType, CycleStepType, HomeStepType DEF RunCommand
<1>2. CASE StartCommand
  BY <1>2, StartType
<1>3. CASE M410 \/ Kill \/ Reset \/ PowerLost
  BY <1>3, OutsideType
<1>4. CASE DriveStep
  BY <1>4, DriveStepType
<1> QED BY <1>1, <1>2, <1>3, <1>4, StutterType DEF Next

\* Every variable of the driver and the drive keeps its type: the counters of
\* ensureClosedLoop() stay within their limits, the datum is a count and the
\* command is always at a place in its code.
THEOREM TypeCorrect == Spec => []TypeOK
BY InitType, NextType, PTL DEF Spec

-----------------------------------------------------------------------------
(* The safety properties of the spin coater, from the inductive invariant    *)
(* DriverInv: one lemma for each group of actions, one step for each part of *)
(* the invariant.                                                            *)

LEMMA InitInv == Init => DriverInv
BY DEF Init, DriveInit, DriverInv, ForceIdleCallers, CyclePlaces, RotorToldToStop,
       SettleHasDatum, ProcedureTended, ModeTended, Procedures

\* forceIdle() hands back an idle axis, or leaves a trace in "loose".
LEMMA ForceIdleInv == TypeOK /\ DriverInv /\ RunForceIdle => DriverInv'
<1> SUFFICES ASSUME TypeOK, DriverInv, RunForceIdle PROVE DriverInv'
  OBVIOUS
<1> USE DEF DriverInv, RunForceIdle, ForceIdleWrite, ForceIdleWait
<1> USE DEF Goto, ForceIdle, Return, LeaveFor, Finish, Stay, locals, body
<1>1. ret' \in ForceIdleCallers
  BY DEF ForceIdleCallers
<1>2. (pc \in CyclePlaces => ready)'
  BY DEF ForceIdleCallers, CyclePlaces, static
<1>3. RotorToldToStop'
  BY DEF RotorToldToStop, CyclePlaces, ForceIdleCallers, velHist, SetState, RequestState, NoEffect, GoIdle, Disarmed, Enter,
      SetVelocity, WriteVelocity, ArmForSettle, BackToVelocityMode, SettleTo, WriteMode, Reads, driveVars
<1>4. SettleHasDatum'
  BY DEF SettleHasDatum, ForceIdleCallers, static, RecordDatum
<1>5. ProcedureTended'
  BY DEF ProcedureTended, Procedures, history, TypeOK, DriveTypeOK, AxisStates,
      SetState, RequestState, NoEffect, GoIdle, Disarmed, Enter,
      SetVelocity, WriteVelocity, ArmForSettle, BackToVelocityMode, SettleTo, WriteMode, Reads, driveVars
<1>6. ModeTended'
  BY DEF ModeTended, TypeOK, DriveTypeOK, ForceIdleCallers, SetState, RequestState, NoEffect, GoIdle, Disarmed, Enter,
      SetVelocity, WriteVelocity, ArmForSettle, BackToVelocityMode, SettleTo, WriteMode, Reads, driveVars
<1> QED BY <1>1, <1>2, <1>3, <1>4, <1>5, <1>6

\* boot() goes from the search to the settle and back to velocity mode.
LEMMA BootInv == TypeOK /\ DriverInv /\ RunBoot => DriverInv'
<1> SUFFICES ASSUME TypeOK, DriverInv, RunBoot PROVE DriverInv'
  OBVIOUS
<1> USE DEF DriverInv, RunBoot, BootProbe, BootIdle, BootSearch, BootWaitStart,
       BootSearchUnseen, BootWaitIdle, BootVerify, BootArm, BootArmWait, BootSettle,
       BootSettleWait, BootReturn, BootRead, AfterBoot
<1> USE DEF Goto, ForceIdle, Return, LeaveFor, Finish, Stay, locals, body
<1>1. ret' \in ForceIdleCallers
  BY DEF ForceIdleCallers
<1>2. (pc \in CyclePlaces => ready)'
  BY DEF ForceIdleCallers, CyclePlaces, static
<1>3. RotorToldToStop'
  BY DEF RotorToldToStop, CyclePlaces, ForceIdleCallers, velHist, SetState, RequestState, NoEffect, GoIdle, Disarmed, Enter,
      SetVelocity, WriteVelocity, ArmForSettle, BackToVelocityMode, SettleTo, WriteMode, Reads, driveVars
<1>4. SettleHasDatum'
  BY DEF SettleHasDatum, ForceIdleCallers, static, RecordDatum
<1>5. ProcedureTended'
  BY DEF ProcedureTended, Procedures, history, TypeOK, DriveTypeOK, AxisStates,
      SetState, RequestState, NoEffect, GoIdle, Disarmed, Enter,
      SetVelocity, WriteVelocity, ArmForSettle, BackToVelocityMode, SettleTo, WriteMode, Reads, driveVars
<1>6. ModeTended'
  BY DEF ModeTended, TypeOK, DriveTypeOK, ForceIdleCallers, SetState, RequestState, NoEffect, GoIdle, Disarmed, Enter,
      SetVelocity, WriteVelocity, ArmForSettle, BackToVelocityMode, SettleTo, WriteMode, Reads, driveVars
<1> QED BY <1>1, <1>2, <1>3, <1>4, <1>5, <1>6

\* Every way out of the cycle of M750 writes a zero velocity.
LEMMA CycleInv == TypeOK /\ DriverInv /\ RunCycle => DriverInv'
<1> SUFFICES ASSUME TypeOK, DriverInv, RunCycle PROVE DriverInv'
  OBVIOUS
<1> USE DEF DriverInv, RunCycle, Connect, ClosedLoop, ClosedLoopCheck, CalWait,
       NotClosed, RampStart, RampUp, Abort, Measure, RampDownStart, RampDown,
       DecelStalled, Settling
<1> USE DEF Goto, ForceIdle, Return, LeaveFor, Finish, Stay, locals, body
<1>1. ret' \in ForceIdleCallers
  BY DEF ForceIdleCallers
<1>2. (pc \in CyclePlaces => ready)'
  BY DEF ForceIdleCallers, CyclePlaces, static
<1>3. RotorToldToStop'
  BY DEF RotorToldToStop, CyclePlaces, ForceIdleCallers, velHist, SetState, RequestState, NoEffect, GoIdle, Disarmed, Enter,
      SetVelocity, WriteVelocity, ArmForSettle, BackToVelocityMode, SettleTo, WriteMode, Reads, driveVars
<1>4. SettleHasDatum'
  BY DEF SettleHasDatum, ForceIdleCallers, static, RecordDatum
<1>5. ProcedureTended'
  BY DEF ProcedureTended, Procedures, history, TypeOK, DriveTypeOK, AxisStates,
      SetState, RequestState, NoEffect, GoIdle, Disarmed, Enter,
      SetVelocity, WriteVelocity, ArmForSettle, BackToVelocityMode, SettleTo, WriteMode, Reads, driveVars
<1>6. ModeTended'
  BY DEF ModeTended, TypeOK, DriveTypeOK, ForceIdleCallers, SetState, RequestState, NoEffect, GoIdle, Disarmed, Enter,
      SetVelocity, WriteVelocity, ArmForSettle, BackToVelocityMode, SettleTo, WriteMode, Reads, driveVars
<1> QED BY <1>1, <1>2, <1>3, <1>4, <1>5, <1>6

\* doIndexHome() settles on a datum only, and restores the mode.
LEMMA HomeInv == TypeOK /\ DriverInv /\ RunHome => DriverInv'
<1> SUFFICES ASSUME TypeOK, DriverInv, RunHome PROVE DriverInv'
  OBVIOUS
<1> USE DEF DriverInv, RunHome, HomeRespond, HomeEnsureIdle, HomeRequest,
       HomeWaitStart, HomeWaitIdle, HomeVerify, HomeGuard, HomeArm, HomeArmWait,
       HomeSettle, HomeSettleWait, HomeRestore, HomeReturn, SetHome
<1> USE DEF Goto, ForceIdle, Return, LeaveFor, Finish, Stay, locals, body
<1>1. ret' \in ForceIdleCallers
  BY DEF ForceIdleCallers
<1>2. (pc \in CyclePlaces => ready)'
  BY DEF ForceIdleCallers, CyclePlaces, static
<1>3. RotorToldToStop'
  BY DEF RotorToldToStop, CyclePlaces, ForceIdleCallers, velHist, SetState, RequestState, NoEffect, GoIdle, Disarmed, Enter,
      SetVelocity, WriteVelocity, ArmForSettle, BackToVelocityMode, SettleTo, WriteMode, Reads, driveVars
<1>4. SettleHasDatum'
  BY DEF SettleHasDatum, ForceIdleCallers, static, RecordDatum
<1>5. ProcedureTended'
  BY DEF ProcedureTended, Procedures, history, TypeOK, DriveTypeOK, AxisStates,
      SetState, RequestState, NoEffect, GoIdle, Disarmed, Enter,
      SetVelocity, WriteVelocity, ArmForSettle, BackToVelocityMode, SettleTo, WriteMode, Reads, driveVars
<1>6. ModeTended'
  BY DEF ModeTended, TypeOK, DriveTypeOK, ForceIdleCallers, SetState, RequestState, NoEffect, GoIdle, Disarmed, Enter,
      SetVelocity, WriteVelocity, ArmForSettle, BackToVelocityMode, SettleTo, WriteMode, Reads, driveVars
<1> QED BY <1>1, <1>2, <1>3, <1>4, <1>5, <1>6

\* A command starts where none runs.
LEMMA StartInv == TypeOK /\ DriverInv /\ StartCommand => DriverInv'
<1> SUFFICES ASSUME TypeOK, DriverInv, StartCommand PROVE DriverInv'
  OBVIOUS
<1> USE DEF DriverInv, StartCommand, M750Refused, M750, M751, M752, Begin, AfterBoot
<1> USE DEF Goto, ForceIdle, Return, LeaveFor, Finish, Stay, locals, body
<1>1. ret' \in ForceIdleCallers
  BY DEF ForceIdleCallers
<1>2. (pc \in CyclePlaces => ready)'
  BY DEF ForceIdleCallers, CyclePlaces, static
<1>3. RotorToldToStop'
  BY DEF RotorToldToStop, CyclePlaces, ForceIdleCallers, velHist, SetState, RequestState, NoEffect, GoIdle, Disarmed, Enter,
      SetVelocity, WriteVelocity, ArmForSettle, BackToVelocityMode, SettleTo, WriteMode, Reads, driveVars
<1>4. SettleHasDatum'
  BY DEF SettleHasDatum, ForceIdleCallers, static, RecordDatum
<1>5. ProcedureTended'
  BY DEF ProcedureTended, Procedures, history, TypeOK, DriveTypeOK, AxisStates,
      SetState, RequestState, NoEffect, GoIdle, Disarmed, Enter,
      SetVelocity, WriteVelocity, ArmForSettle, BackToVelocityMode, SettleTo, WriteMode, Reads, driveVars
<1>6. ModeTended'
  BY DEF ModeTended, TypeOK, DriveTypeOK, ForceIdleCallers, SetState, RequestState, NoEffect, GoIdle, Disarmed, Enter,
      SetVelocity, WriteVelocity, ArmForSettle, BackToVelocityMode, SettleTo, WriteMode, Reads, driveVars
<1> QED BY <1>1, <1>2, <1>3, <1>4, <1>5, <1>6

\* An abort, a kill, a reset and a power cycle of the drive.
LEMMA OutsideInv == TypeOK /\ DriverInv /\ (M410 \/ Kill \/ Reset \/ PowerLost) => DriverInv'
<1> SUFFICES ASSUME TypeOK, DriverInv, (M410 \/ Kill \/ Reset \/ PowerLost) PROVE DriverInv'
  OBVIOUS
<1> USE DEF DriverInv, M410, Kill, Reset, PowerLost, PowerCycle, EmergencyStop, StartupSafetyDisarm, Disarmed
<1> USE DEF Goto, ForceIdle, Return, LeaveFor, Finish, Stay, locals, body
<1>1. ret' \in ForceIdleCallers
  BY DEF ForceIdleCallers
<1>2. (pc \in CyclePlaces => ready)'
  BY DEF ForceIdleCallers, CyclePlaces, static
<1>3. RotorToldToStop'
  BY DEF RotorToldToStop, CyclePlaces, ForceIdleCallers, velHist, SetState, RequestState, NoEffect, GoIdle, Disarmed, Enter,
      SetVelocity, WriteVelocity, ArmForSettle, BackToVelocityMode, SettleTo, WriteMode, Reads, driveVars
<1>4. SettleHasDatum'
  BY DEF SettleHasDatum, ForceIdleCallers, static, RecordDatum
<1>5. ProcedureTended'
  BY DEF ProcedureTended, Procedures, history, TypeOK, DriveTypeOK, AxisStates,
      SetState, RequestState, NoEffect, GoIdle, Disarmed, Enter,
      SetVelocity, WriteVelocity, ArmForSettle, BackToVelocityMode, SettleTo, WriteMode, Reads, driveVars
<1>6. ModeTended'
  BY DEF ModeTended, TypeOK, DriveTypeOK, ForceIdleCallers, SetState, RequestState, NoEffect, GoIdle, Disarmed, Enter,
      SetVelocity, WriteVelocity, ArmForSettle, BackToVelocityMode, SettleTo, WriteMode, Reads, driveVars
<1> QED BY <1>1, <1>2, <1>3, <1>4, <1>5, <1>6

\* The drive gives up a procedure by itself and starts none.
LEMMA DriveInv == TypeOK /\ DriverInv /\ DriveStep => DriverInv'
<1> SUFFICES ASSUME TypeOK, DriverInv, DriveStep PROVE DriverInv'
  OBVIOUS
<1> USE DEF DriverInv, DriveStep, SpinUp, SlowDown, Rotate, SearchEnds,
       CalibrationEnds, TrapMove, SelfDisarm, GoIdle, Disarmed, HandTurn
<1> USE DEF Goto, ForceIdle, Return, LeaveFor, Finish, Stay, locals, body
<1>1. ret' \in ForceIdleCallers
  BY DEF ForceIdleCallers
<1>2. (pc \in CyclePlaces => ready)'
  BY DEF ForceIdleCallers, CyclePlaces, static
<1>3. RotorToldToStop'
  BY DEF RotorToldToStop, CyclePlaces, ForceIdleCallers, velHist, SetState, RequestState, NoEffect, GoIdle, Disarmed, Enter,
      SetVelocity, WriteVelocity, ArmForSettle, BackToVelocityMode, SettleTo, WriteMode, Reads, driveVars
<1>4. SettleHasDatum'
  BY DEF SettleHasDatum, ForceIdleCallers, static, RecordDatum
<1>5. ProcedureTended'
  BY DEF ProcedureTended, Procedures, history, TypeOK, DriveTypeOK, AxisStates,
      SetState, RequestState, NoEffect, GoIdle, Disarmed, Enter,
      SetVelocity, WriteVelocity, ArmForSettle, BackToVelocityMode, SettleTo, WriteMode, Reads, driveVars
<1>6. ModeTended'
  BY DEF ModeTended, TypeOK, DriveTypeOK, ForceIdleCallers, SetState, RequestState, NoEffect, GoIdle, Disarmed, Enter,
      SetVelocity, WriteVelocity, ArmForSettle, BackToVelocityMode, SettleTo, WriteMode, Reads, driveVars
<1> QED BY <1>1, <1>2, <1>3, <1>4, <1>5, <1>6

LEMMA StutterInv == DriverInv /\ UNCHANGED vars => DriverInv'
BY DEF DriverInv, vars, driveVars, static, locals, body, velHist, history, ForceIdleCallers,
       CyclePlaces, RotorToldToStop, SettleHasDatum, ProcedureTended, ModeTended

LEMMA NextInv == TypeOK /\ DriverInv /\ [Next]_vars => DriverInv'
BY ForceIdleInv, BootInv, CycleInv, HomeInv, StartInv, OutsideInv, DriveInv, StutterInv
DEF Next, RunCommand

\* The driver keeps its inductive invariant.
THEOREM DriverSafe == Spec => []DriverInv
<1>1. TypeOK /\ DriverInv /\ [Next]_vars => DriverInv'
  BY NextInv
<1> QED BY <1>1, InitInv, TypeCorrect, PTL DEF Spec

\* Whatever is lost, aborted, killed or reset, the rotor has been told to stop
\* wherever M750 is not ramping up or holding its speed.
THEOREM RotorSafe == Spec => []RotorToldToStop
<1>1. DriverInv => RotorToldToStop
  BY DEF DriverInv
<1> QED BY <1>1, DriverSafe, PTL

\* A command leaves the drive in velocity mode unless a write of the mode was
\* lost or cut off.
THEOREM ModeSafe == Spec => []ModeRestored
<1>1. DriverInv => ModeRestored
  BY DEF DriverInv, ModeTended, ModeRestored
<1> QED BY <1>1, DriverSafe, PTL

\* No procedure of the drive outlives its command without a trace.
THEOREM ProcedureSafe == Spec => []ProcedureAccountedFor
<1>1. DriverInv => ProcedureAccountedFor
  BY DEF DriverInv, ProcedureTended, ProcedureAccountedFor
<1> QED BY <1>1, DriverSafe, PTL

-----------------------------------------------------------------------------
(* ADR-0002: the datum's angle. *)

\* A whole number of turns is no angle.
LEMMA WholeTurns ==
    ASSUME NEW k \in Int
    PROVE  (Turn * k) % Turn = 0
BY TurnAssumption

LEMMA NormalisedAngle ==
    ASSUME TypeOK
    PROVE  SameAngle(Normalised(pos), homePos)
<1> DEFINE k == RoundTurns(homePos - pos)
<1>1. homePos \in Int /\ homePos - pos \in Int
  BY PhysicalType DEF TypeOK, MegaTypeOK
<1>2. k \in Int /\ -k \in Int
  BY <1>1, TurnsType
<1>3. Turn * k \in Int /\ Turn * (-k) = -(Turn * k)
  BY <1>2, TurnAssumption
<1> HIDE DEF k
<1>4. (homePos - Turn * k) - homePos = -(Turn * k)
  BY <1>1, <1>3
<1>5. (Turn * (-k)) % Turn = 0
  BY <1>2, WholeTurns
<1>6. Normalised(pos) = homePos - Turn * k
  BY DEF Normalised, k
<1> QED BY <1>3, <1>4, <1>5, <1>6 DEF SameAngle

LEMMA SameAsItself ==
    ASSUME NEW p \in Int
    PROVE  SameAngle(p, p)
BY TurnAssumption DEF SameAngle

\* The datum and its angle, between two states.
DatumStep ==
    datumSet /\ pc \notin {"setHome", "bootRead"} =>
        \/ datumSet' /\ SameAngle(homePos', homePos)
        \/ pc' = "wait" /\ ~ready'

LEMMA UnmovedDatum ==
    ASSUME TypeOK, UNCHANGED <<datumSet, homePos>>
    PROVE  DatumStep
BY SameAsItself DEF DatumStep, TypeOK, MegaTypeOK

LEMMA DatumSteps == TypeOK /\ [Next]_vars => DatumStep
<1> SUFFICES ASSUME TypeOK, [Next]_vars PROVE DatumStep
  OBVIOUS
<1>1. CASE RunForceIdle
  BY <1>1, UnmovedDatum DEF RunForceIdle, ForceIdleWrite, ForceIdleWait, static
<1>2. CASE RunBoot
  <2>1. CASE BootRead
    BY <2>1 DEF BootRead, DatumStep
  <2>2. CASE BootProbe
    BY <2>2, UnmovedDatum DEF BootProbe
  <2> QED BY <1>2, <2>1, <2>2, UnmovedDatum DEF RunBoot, BootIdle, BootSearch,
      BootWaitStart, BootWaitIdle, BootVerify, BootArm, BootArmWait, BootSettle,
      BootSettleWait, BootReturn, static
<1>3. CASE RunCycle
  BY <1>3, UnmovedDatum DEF RunCycle, Connect, ClosedLoop, ClosedLoopCheck, CalWait,
     NotClosed, RampStart, RampUp, Measure, RampDownStart, RampDown, DecelStalled,
     Settling, static
<1>4. CASE RunHome
  <2>1. CASE SetHome
    BY <2>1 DEF SetHome, DatumStep
  <2>2. CASE HomeGuard
    <3>1. UNCHANGED datumSet /\ (UNCHANGED homePos \/ homePos' = Normalised(pos))
      BY <2>2 DEF HomeGuard
    <3>2. CASE homePos' = Normalised(pos)
      BY <3>1, <3>2, NormalisedAngle DEF DatumStep
    <3> QED BY <3>1, <3>2, UnmovedDatum
  <2> QED BY <1>4, <2>1, <2>2, UnmovedDatum DEF RunHome, HomeRespond, HomeEnsureIdle,
      HomeRequest, HomeWaitStart, HomeWaitIdle, HomeVerify, HomeArm, HomeArmWait,
      HomeSettle, HomeSettleWait, HomeRestore, HomeReturn, static
<1>5. CASE StartCommand
  BY <1>5, UnmovedDatum DEF StartCommand, M750Refused, M750, M751, M752, Begin, static
<1>6. CASE Reset
  BY <1>6 DEF Reset, LeaveFor, DatumStep
<1>7. CASE M410 \/ Kill \/ DriveStep \/ PowerLost \/ UNCHANGED vars
  BY <1>7, UnmovedDatum DEF M410, Kill, DriveStep, PowerLost, static, vars
<1> QED BY <1>1, <1>2, <1>3, <1>4, <1>5, <1>6, <1>7 DEF Next, RunCommand

\* An existing datum keeps its angle through every index homing, abort, kill and
\* loss of power of the drive, on a chuck with any number of counts to a turn.
THEOREM DatumSafe == Spec => DatumKept
<1>1. TypeOK /\ [Next]_vars => DatumStep
  BY DatumSteps
<1> QED BY <1>1, TypeCorrect, PTL DEF Spec, DatumKept, DatumStep

-----------------------------------------------------------------------------
(* A home that is reported as reached is the datum's angle.                  *)

\* Division with remainder, and its uniqueness.
LEMMA Division ==
    ASSUME NEW p \in Int
    PROVE  /\ p \div Turn \in Int /\ p % Turn \in 0..(Turn - 1)
           /\ p = Turn * (p \div Turn) + (p % Turn)
<1>1. p \div Turn \in Int /\ p % Turn \in 0..(Turn - 1)
  BY TurnAssumption
<1>2. p = Turn * (p \div Turn) + (p % Turn)
  BY TurnAssumption
<1> QED BY <1>1, <1>2

LEMMA Remainder ==
    ASSUME NEW q \in Int, NEW r \in 0..(Turn - 1)
    PROVE  (Turn * q + r) % Turn = r
<1> DEFINE a == Turn * q + r
<1> DEFINE d == (a \div Turn) - q
<1>1. a \in Int /\ Turn \in Nat \ {0} /\ r \in Int
  BY TurnAssumption
<1>2. a = Turn * (a \div Turn) + (a % Turn) /\ a % Turn \in 0..(Turn - 1) /\ a \div Turn \in Int
  BY <1>1, Division
<1>3. d \in Int /\ a \div Turn = q + d
  BY <1>2
<1>4. Turn * (q + d) = Turn * q + Turn * d
  BY <1>1, <1>3
<1>5. r - (a % Turn) = Turn * d
  BY <1>1, <1>2, <1>3, <1>4
<1> HIDE DEF d
<1>6. CASE d >= 1
  <2>1. Turn * d >= Turn
    BY <1>1, <1>3, <1>6
  <2> QED BY <2>1, <1>1, <1>2, <1>5
<1>7. CASE d <= -1
  <2>1. Turn * d <= -Turn
    BY <1>1, <1>3, <1>7
  <2> QED BY <2>1, <1>1, <1>2, <1>5
<1>8. CASE d = 0
  BY <1>1, <1>2, <1>5, <1>8
<1> QED BY <1>3, <1>6, <1>7, <1>8

\* Whole turns do not count.
LEMMA TurnsDropped ==
    ASSUME NEW p \in Int, NEW k \in Int
    PROVE  (p - Turn * k) % Turn = p % Turn
<1> DEFINE d == p \div Turn
           r == p % Turn
           q == d - k
<1>1. d \in Int /\ r \in 0..(Turn - 1) /\ p = Turn * d + r /\ Turn \in Int
  BY Division, TurnAssumption
<1> HIDE DEF d, r
<1>2. q \in Int /\ Turn * q = Turn * d - Turn * k
  BY <1>1
<1>3. /\ Turn * d \in Int /\ Turn * k \in Int
  BY <1>1
<1> HIDE DEF q
<1>4. p - Turn * k = Turn * q + r
  BY <1>1, <1>2, <1>3
<1>5. (Turn * q + r) % Turn = r
  BY <1>1, <1>2, Remainder
<1> QED BY <1>4, <1>5 DEF r

-----------------------------------------------------------------------------
(* The datum's angle. *)

\* A datum recorded in a frame anchored at the index mark is its own angle.
LEMMA RecordedAngle ==
    ASSUME TypeOK, NEW p \in Int, p = pos, RecordDatum(p)
    PROVE  DatumAngle'
<1>1. CASE frame = 0
  <2>1. Physical(p) = p % Turn
    BY <1>1 DEF Physical
  <2> QED BY <2>1 DEF RecordDatum, DatumAngle
<1>2. CASE frame # 0
  BY <1>2 DEF RecordDatum, DatumAngle
<1> QED BY <1>1, <1>2

\* Normalising it changes nothing.
LEMMA NormalisedDatum ==
    ASSUME TypeOK, DatumAngle, homePos' = Normalised(pos), UNCHANGED <<datumSet, zero, indexed>>
    PROVE  DatumAngle'
<1>1. homePos \in Int /\ homePos - pos \in Int
  BY PhysicalType DEF TypeOK, MegaTypeOK
<1>2. RoundTurns(homePos - pos) \in Int
  BY <1>1, TurnsType
<1>3. homePos' % Turn = homePos % Turn
  BY <1>1, <1>2, TurnsDropped DEF Normalised
<1> QED BY <1>3 DEF DatumAngle

LEMMA KeptAngle ==
    ASSUME DatumAngle, UNCHANGED <<homePos, datumSet, zero, indexed>>
    PROVE  DatumAngle'
BY DEF DatumAngle

LEMMA AngleNext == TypeOK /\ DatumAngle /\ [Next]_vars => DatumAngle'
<1> SUFFICES ASSUME TypeOK, DatumAngle, [Next]_vars PROVE DatumAngle'
  OBVIOUS
<1> USE DEF static, history, datumHist
<1>1. CASE RunForceIdle
  BY <1>1, KeptAngle DEF RunForceIdle, ForceIdleWrite, ForceIdleWait
<1>2. CASE RunBoot
  <2>1. CASE BootRead
    <3>1. RecordDatum(pos) \/ ~datumSet'
      BY <2>1 DEF BootRead
    <3>2. pos \in Int
      BY PhysicalType
    <3>3. ~datumSet' => DatumAngle'
      BY DEF DatumAngle
    <3> QED BY <3>1, <3>2, <3>3, RecordedAngle
  <2> QED BY <1>2, <2>1, KeptAngle DEF RunBoot, BootProbe, BootIdle, BootSearch,
      BootWaitStart, BootWaitIdle, BootVerify, BootArm, BootArmWait, BootSettle,
      BootSettleWait, BootReturn
<1>3. CASE RunCycle
  BY <1>3, KeptAngle DEF RunCycle, Connect, ClosedLoop, ClosedLoopCheck, CalWait,
     NotClosed, RampStart, RampUp, Measure, RampDownStart, RampDown, DecelStalled,
     Settling
<1>4. CASE RunHome
  <2>1. CASE SetHome
    <3>1. RecordDatum(pos) \/ UNCHANGED <<homePos, datumSet, zero, indexed>>
      BY <2>1 DEF SetHome
    <3>2. pos \in Int
      BY PhysicalType
    <3> QED BY <3>1, <3>2, RecordedAngle, KeptAngle
  <2>2. CASE HomeGuard
    BY <2>2, NormalisedDatum, KeptAngle DEF HomeGuard
  <2> QED BY <1>4, <2>1, <2>2, KeptAngle DEF RunHome, HomeRespond, HomeEnsureIdle,
      HomeRequest, HomeWaitStart, HomeWaitIdle, HomeVerify, HomeArm, HomeArmWait,
      HomeSettle, HomeSettleWait, HomeRestore, HomeReturn
<1>5. CASE StartCommand
  BY <1>5, KeptAngle DEF StartCommand, M750Refused, M750, M751, M752, Begin
<1>6. CASE Reset
  BY <1>6 DEF Reset, DatumAngle
<1>7. CASE M410 \/ Kill \/ DriveStep \/ PowerLost \/ UNCHANGED vars
  BY <1>7, KeptAngle DEF M410, Kill, DriveStep, PowerLost, vars
<1> QED BY <1>1, <1>2, <1>3, <1>4, <1>5, <1>6, <1>7 DEF Next, RunCommand

-----------------------------------------------------------------------------
(* The frame and the report. *)

\* forceIdle() returns to places that expect no frame.
LEMMA ForceIdleFrame ==
    TypeOK /\ DriverInv /\ FrameFound /\ HomedReported /\ RunForceIdle =>
        FrameFound' /\ HomedReported'
<1> SUFFICES ASSUME TypeOK, DriverInv, FrameFound, HomedReported, RunForceIdle
             PROVE  FrameFound' /\ HomedReported'
  OBVIOUS
<1> USE DEF RunForceIdle, ForceIdleWrite, ForceIdleWait
<1> USE DEF Goto, ForceIdle, Return, LeaveFor, Finish, Stay, locals, body
<1>0. ret \in ForceIdleCallers
  BY DEF DriverInv
<1>1. FrameFound'
  BY <1>0 DEF FrameFound, ForceIdleCallers, history, datumHist,
      SetState, RequestState, NoEffect, GoIdle, Disarmed, Enter,
      SetVelocity, ArmForSettle, BackToVelocityMode, SettleTo, Reads, driveVars
<1>2. HomedReported'
  BY <1>0 DEF HomedReported, ForceIdleCallers, Reads
<1> QED BY <1>1, <1>2

\* boot() reports no home.
LEMMA BootFrame ==
    TypeOK /\ DriverInv /\ FrameFound /\ HomedReported /\ RunBoot =>
        FrameFound' /\ HomedReported'
<1> SUFFICES ASSUME TypeOK, DriverInv, FrameFound, HomedReported, RunBoot
             PROVE  FrameFound' /\ HomedReported'
  OBVIOUS
<1> USE DEF RunBoot, BootProbe, BootIdle, BootSearch, BootWaitStart,
       BootSearchUnseen, BootWaitIdle, BootVerify, BootArm, BootArmWait, BootSettle,
       BootSettleWait, BootReturn, BootRead, AfterBoot
<1> USE DEF Goto, ForceIdle, Return, LeaveFor, Finish, Stay, locals, body
<1>0. ret \in ForceIdleCallers
  BY DEF DriverInv
<1>1. FrameFound'
  BY <1>0 DEF FrameFound, ForceIdleCallers, history, datumHist,
      SetState, RequestState, NoEffect, GoIdle, Disarmed, Enter,
      SetVelocity, ArmForSettle, BackToVelocityMode, SettleTo, Reads, driveVars
<1>2. HomedReported'
  BY <1>0 DEF HomedReported, ForceIdleCallers, Reads
<1> QED BY <1>1, <1>2

\* The cycle of M750 searches for nothing.
LEMMA CycleFrame ==
    TypeOK /\ DriverInv /\ FrameFound /\ HomedReported /\ RunCycle =>
        FrameFound' /\ HomedReported'
<1> SUFFICES ASSUME TypeOK, DriverInv, FrameFound, HomedReported, RunCycle
             PROVE  FrameFound' /\ HomedReported'
  OBVIOUS
<1> USE DEF RunCycle, Connect, ClosedLoop, ClosedLoopCheck, CalWait,
       NotClosed, RampStart, RampUp, Abort, Measure, RampDownStart, RampDown,
       DecelStalled, Settling
<1> USE DEF Goto, ForceIdle, Return, LeaveFor, Finish, Stay, locals, body
<1>0. ret \in ForceIdleCallers
  BY DEF DriverInv
<1>1. FrameFound'
  BY <1>0 DEF FrameFound, ForceIdleCallers, history, datumHist,
      SetState, RequestState, NoEffect, GoIdle, Disarmed, Enter,
      SetVelocity, ArmForSettle, BackToVelocityMode, SettleTo, Reads, driveVars
<1>2. HomedReported'
  BY <1>0 DEF HomedReported, ForceIdleCallers, Reads
<1> QED BY <1>1, <1>2

\* doIndexHome(): the search, its verdict and the settle.
LEMMA HomeFrame ==
    TypeOK /\ DriverInv /\ FrameFound /\ HomedReported /\ RunHome =>
        FrameFound' /\ HomedReported'
<1> SUFFICES ASSUME TypeOK, DriverInv, FrameFound, HomedReported, RunHome
             PROVE  FrameFound' /\ HomedReported'
  OBVIOUS
<1> USE DEF RunHome, HomeRespond, HomeEnsureIdle, HomeRequest,
       HomeWaitStart, HomeWaitIdle, HomeVerify, HomeGuard, HomeArm, HomeArmWait,
       HomeSettle, HomeSettleWait, HomeRestore, HomeReturn, SetHome
<1> USE DEF Goto, ForceIdle, Return, LeaveFor, Finish, Stay, locals, body
<1>0. ret \in ForceIdleCallers
  BY DEF DriverInv
<1>1. FrameFound'
  BY <1>0 DEF FrameFound, ForceIdleCallers, history, datumHist,
      SetState, RequestState, NoEffect, GoIdle, Disarmed, Enter,
      SetVelocity, ArmForSettle, BackToVelocityMode, SettleTo, Reads, driveVars
<1>2. HomedReported'
  BY <1>0 DEF HomedReported, ForceIdleCallers, Reads
<1> QED BY <1>1, <1>2

\* A command starts with nothing to report.
LEMMA StartFrame ==
    TypeOK /\ DriverInv /\ FrameFound /\ HomedReported /\ StartCommand =>
        FrameFound' /\ HomedReported'
<1> SUFFICES ASSUME TypeOK, DriverInv, FrameFound, HomedReported, StartCommand
             PROVE  FrameFound' /\ HomedReported'
  OBVIOUS
<1> USE DEF StartCommand, M750Refused, M750, M751, M752, Begin, AfterBoot
<1> USE DEF Goto, ForceIdle, Return, LeaveFor, Finish, Stay, locals, body
<1>0. ret \in ForceIdleCallers
  BY DEF DriverInv
<1>1. FrameFound'
  BY <1>0 DEF FrameFound, ForceIdleCallers, history, datumHist,
      SetState, RequestState, NoEffect, GoIdle, Disarmed, Enter,
      SetVelocity, ArmForSettle, BackToVelocityMode, SettleTo, Reads, driveVars
<1>2. HomedReported'
  BY <1>0 DEF HomedReported, ForceIdleCallers, Reads
<1> QED BY <1>1, <1>2

\* A power cycle of the drive is remembered while a command runs.
LEMMA OutsideFrame ==
    TypeOK /\ DriverInv /\ FrameFound /\ HomedReported /\ (M410 \/ Kill \/ Reset \/ PowerLost) =>
        FrameFound' /\ HomedReported'
<1> SUFFICES ASSUME TypeOK, DriverInv, FrameFound, HomedReported, (M410 \/ Kill \/ Reset \/ PowerLost)
             PROVE  FrameFound' /\ HomedReported'
  OBVIOUS
<1> USE DEF M410, Kill, Reset, PowerLost, PowerCycle, EmergencyStop, StartupSafetyDisarm, Disarmed
<1> USE DEF Goto, ForceIdle, Return, LeaveFor, Finish, Stay, locals, body
<1>0. ret \in ForceIdleCallers
  BY DEF DriverInv
<1>1. FrameFound'
  BY <1>0 DEF FrameFound, ForceIdleCallers, history, datumHist,
      SetState, RequestState, NoEffect, GoIdle, Disarmed, Enter,
      SetVelocity, ArmForSettle, BackToVelocityMode, SettleTo, Reads, driveVars
<1>2. HomedReported'
  BY <1>0 DEF HomedReported, ForceIdleCallers, Reads
<1> QED BY <1>1, <1>2

\* The frame moves with a search or a calibration only.
LEMMA DriveFrame ==
    TypeOK /\ DriverInv /\ FrameFound /\ HomedReported /\ DriveStep =>
        FrameFound' /\ HomedReported'
<1> SUFFICES ASSUME TypeOK, DriverInv, FrameFound, HomedReported, DriveStep
             PROVE  FrameFound' /\ HomedReported'
  OBVIOUS
<1> USE DEF DriveStep, SpinUp, SlowDown, Rotate, SearchEnds,
       CalibrationEnds, TrapMove, SelfDisarm, GoIdle, Disarmed, HandTurn
<1> USE DEF Goto, ForceIdle, Return, LeaveFor, Finish, Stay, locals, body
<1>0. ret \in ForceIdleCallers
  BY DEF DriverInv
<1>1. FrameFound'
  BY <1>0 DEF FrameFound, ForceIdleCallers, history, datumHist,
      SetState, RequestState, NoEffect, GoIdle, Disarmed, Enter,
      SetVelocity, ArmForSettle, BackToVelocityMode, SettleTo, Reads, driveVars
<1>2. HomedReported'
  BY <1>0 DEF HomedReported, ForceIdleCallers, Reads
<1> QED BY <1>1, <1>2

LEMMA StutterFrame ==
    FrameFound /\ HomedReported /\ UNCHANGED vars => FrameFound' /\ HomedReported'
BY DEF FrameFound, HomedReported, vars, driveVars, locals, body, history, datumHist

LEMMA InitHoming == Init => HomingInv
BY DEF Init, DriveInit, HomingInv, DatumAngle, FrameFound, HomedReported

LEMMA NextHoming == TypeOK /\ DriverInv /\ HomingInv /\ [Next]_vars => HomingInv'
<1> SUFFICES ASSUME TypeOK, DriverInv, HomingInv, [Next]_vars PROVE HomingInv'
  OBVIOUS
<1>1. DatumAngle'
  BY AngleNext DEF HomingInv
<1>2. FrameFound' /\ HomedReported'
  BY ForceIdleFrame, BootFrame, CycleFrame, HomeFrame, StartFrame, OutsideFrame,
     DriveFrame, StutterFrame DEF HomingInv, Next, RunCommand
<1> QED BY <1>1, <1>2 DEF HomingInv

THEOREM HomingSafe == Spec => []HomingInv
<1>1. TypeOK /\ DriverInv /\ HomingInv /\ [Next]_vars => HomingInv'
  BY NextHoming
<1> QED BY <1>1, InitHoming, TypeCorrect, DriverSafe, PTL DEF Spec

-----------------------------------------------------------------------------
(* The settle. *)

\* Only the settle loop's own success makes homed true.
LEMMA SettledBy ==
    ASSUME ~homed, pc = "homeSettleWait", [Next]_vars, homed'
    PROVE  HomeSettleWait /\ pos = homePos
<1> USE DEF Goto, ForceIdle, Return, LeaveFor, Finish, Stay, locals, body
<1>1. ~(RunForceIdle \/ RunBoot)
  BY DEF RunForceIdle, ForceIdleWrite, ForceIdleWait, RunBoot, BootProbe, BootIdle,
     BootSearch, BootWaitStart, BootWaitIdle, BootVerify, BootArm, BootArmWait,
     BootSettle, BootSettleWait, BootReturn, BootRead
<1>2. ~RunCycle
  BY DEF RunCycle, Connect, ClosedLoop, ClosedLoopCheck, CalWait, NotClosed, RampStart,
     RampUp, Measure, RampDownStart, RampDown, DecelStalled, Settling
<1>3. RunHome => HomeSettleWait
  BY DEF RunHome, HomeRespond, HomeEnsureIdle, HomeRequest, HomeWaitStart,
     HomeWaitIdle, HomeVerify, HomeGuard, HomeArm, HomeArmWait, HomeSettle,
     HomeRestore, HomeReturn, SetHome
<1>4. ~StartCommand
  BY DEF StartCommand, M750Refused, M750, M751, M752, Begin
<1>5. ~(M410 \/ Kill \/ Reset \/ DriveStep \/ PowerLost \/ UNCHANGED vars)
  BY DEF M410, Kill, Reset, DriveStep, PowerLost, vars
<1>6. HomeSettleWait
  BY <1>1, <1>2, <1>3, <1>4, <1>5 DEF Next, RunCommand
<1> QED BY <1>6 DEF HomeSettleWait

\* A home that is reported as reached has the chuck at the angle at which the
\* datum was recorded, if the datum's frame was indexed, the search's result was
\* readable and the drive kept its power: the settle on the normalised datum and
\* ADR-0003's verdict are enough, whatever else is lost or interrupted.
THEOREM HomeReached == Spec => HomedAtZero
<1>1. TypeOK /\ DriverInv /\ HomingInv /\ [Next]_vars =>
        (pc = "homeSettleWait" /\ homed' /\ indexed /\ ~unread /\ ~cut =>
            Physical(pos) = zero)
  <2> SUFFICES ASSUME TypeOK, DriverInv, HomingInv, [Next]_vars,
                      pc = "homeSettleWait", homed', indexed, ~unread, ~cut
               PROVE  Physical(pos) = zero
    OBVIOUS
  <2>1. ~homed
    BY DEF HomingInv, HomedReported
  <2>2. pos = homePos
    BY <2>1, SettledBy
  <2>3. frame = 0
    BY DEF HomingInv, FrameFound
  <2>4. datumSet
    BY DEF DriverInv, SettleHasDatum
  <2>5. homePos % Turn = zero
    BY <2>4 DEF HomingInv, DatumAngle
  <2>6. pos + frame = pos
    BY <2>3, PhysicalType
  <2> QED BY <2>2, <2>5, <2>6 DEF Physical
<1> QED BY <1>1, TypeCorrect, DriverSafe, HomingSafe, PTL DEF Spec, HomedAtZero
-----------------------------------------------------------------------------
(* The datum that boot() records.                                            *)

LEMMA InitBoot == Init => BootDatumInv
BY DEF Init, DriveInit, BootDatumInv, BootWithoutDatum, BootGoal, BootAtRest,
       BootFrameFound, SettledBoot

\* forceIdle() goes back to boot() with nothing settled.
LEMMA ForceIdleBoot ==
    TypeOK /\ DriverInv /\ HomedReported /\ BootDatumInv /\ RunForceIdle => BootDatumInv'
<1> SUFFICES ASSUME TypeOK, DriverInv, HomedReported, BootDatumInv, RunForceIdle
             PROVE  BootDatumInv'
  OBVIOUS
<1> USE DEF BootDatumInv, RunForceIdle, ForceIdleWrite, ForceIdleWait
<1> USE DEF Goto, ForceIdle, Return, LeaveFor, Finish, Stay, locals, body
<1>0. ret \in ForceIdleCallers
  BY DEF DriverInv
<1>1. BootWithoutDatum'
  BY <1>0 DEF BootWithoutDatum, Booting, BootPlaces, ForceIdleCallers, RecordDatum, static
<1>2. BootGoal'
  BY <1>0 DEF BootGoal, ForceIdleCallers, SetState, RequestState, NoEffect, GoIdle, Disarmed, Enter,
      SetVelocity, WriteVelocity, ArmForSettle, BackToVelocityMode, SettleTo, Reads, driveVars,
      velHist, static, history, datumHist
<1>3. BootAtRest'
  BY <1>0 DEF DriverInv, RotorToldToStop, HomedReported, BootAtRest, SettledBoot,
      ForceIdleCallers, TypeOK, DriveTypeOK, BootGoal,
      SetState, RequestState, NoEffect, GoIdle, Disarmed, Enter,
      SetVelocity, WriteVelocity, ArmForSettle, BackToVelocityMode, SettleTo, Reads, driveVars,
      velHist, static, history, datumHist
<1>4. BootFrameFound'
  BY <1>0 DEF HomedReported, BootFrameFound, SettledBoot, ForceIdleCallers,
      SetState, RequestState, NoEffect, GoIdle, Disarmed, Enter,
      SetVelocity, WriteVelocity, ArmForSettle, BackToVelocityMode, SettleTo, Reads, driveVars,
      velHist, static, history, datumHist
<1> QED BY <1>1, <1>2, <1>3, <1>4

\* boot() itself.
LEMMA BootBoot ==
    TypeOK /\ DriverInv /\ HomedReported /\ BootDatumInv /\ RunBoot => BootDatumInv'
<1> SUFFICES ASSUME TypeOK, DriverInv, HomedReported, BootDatumInv, RunBoot
             PROVE  BootDatumInv'
  OBVIOUS
<1> USE DEF BootDatumInv, RunBoot, BootProbe, BootIdle, BootSearch, BootWaitStart,
       BootSearchUnseen, BootWaitIdle, BootVerify, BootArm, BootArmWait, BootSettle,
       BootSettleWait, BootReturn, BootRead, AfterBoot
<1> USE DEF Goto, ForceIdle, Return, LeaveFor, Finish, Stay, locals, body
<1>0. ret \in ForceIdleCallers
  BY DEF DriverInv
<1>1. BootWithoutDatum'
  BY <1>0 DEF BootWithoutDatum, Booting, BootPlaces, ForceIdleCallers, RecordDatum, static
<1>2. BootGoal'
  BY <1>0 DEF BootGoal, ForceIdleCallers, SetState, RequestState, NoEffect, GoIdle, Disarmed, Enter,
      SetVelocity, WriteVelocity, ArmForSettle, BackToVelocityMode, SettleTo, Reads, driveVars,
      velHist, static, history, datumHist
<1>3. BootAtRest'
  BY <1>0 DEF DriverInv, RotorToldToStop, HomedReported, BootAtRest, SettledBoot,
      ForceIdleCallers, TypeOK, DriveTypeOK, BootGoal,
      SetState, RequestState, NoEffect, GoIdle, Disarmed, Enter,
      SetVelocity, WriteVelocity, ArmForSettle, BackToVelocityMode, SettleTo, Reads, driveVars,
      velHist, static, history, datumHist
<1>4. ASSUME BootSettle PROVE BootFrameFound'
  <2>1. PICK target \in {Turn * RoundTurns(pos), 0} : SettleTo(target) /\ kept' = target
    BY <1>4
  <2>2. target % Turn = 0
    <3>1. CASE target = 0
      BY <3>1, TurnAssumption
    <3>2. CASE target = Turn * RoundTurns(pos)
      BY <3>2, PhysicalType, TurnsType, WholeTurns
    <3> QED BY <2>1, <3>1, <3>2
  <2>3. kept' % Turn = 0
    BY <2>1, <2>2
  <2>4. pc' = "bootSettleWait" /\ (~cut' => unread' \/ frame' = 0)
    BY <1>4, <2>1 DEF BootFrameFound, SettleTo, history, datumHist
  <2> QED BY <2>3, <2>4 DEF BootFrameFound, SettledBoot
<1>5. ASSUME ~BootSettle PROVE BootFrameFound'
  <2>1. (pc = "bootSettleWait" \/ SettledBoot => kept % Turn = 0)'
    BY <1>5 DEF HomedReported, BootFrameFound, SettledBoot
  <2>2. (~cut /\ pc = "bootWaitIdle" => axis = "INDEX_SEARCH" \/ result = "FAIL" \/ frame = 0)'
    BY <1>5, <1>0 DEF BootFrameFound, ForceIdleCallers,
        SetState, RequestState, NoEffect, GoIdle, Disarmed, Enter,
        SetVelocity, WriteVelocity, ArmForSettle, BackToVelocityMode, SettleTo, Reads, driveVars,
        velHist, static, history, datumHist
  <2>3. (~cut /\ pc = "bootVerify" => result = "FAIL" \/ frame = 0)'
    BY <1>5, <1>0 DEF BootFrameFound, ForceIdleCallers,
        SetState, RequestState, NoEffect, GoIdle, Disarmed, Enter,
        SetVelocity, WriteVelocity, ArmForSettle, BackToVelocityMode, SettleTo, Reads, driveVars,
        velHist, static, history, datumHist
  <2>4. (~cut /\ (pc \in {"bootArm", "bootArmWait", "bootSettle", "bootSettleWait"} \/ SettledBoot) =>
            unread \/ frame = 0)'
    BY <1>5, <1>0 DEF BootFrameFound, SettledBoot, HomedReported, ForceIdleCallers,
        SetState, RequestState, NoEffect, GoIdle, Disarmed, Enter,
        SetVelocity, WriteVelocity, ArmForSettle, BackToVelocityMode, SettleTo, Reads, driveVars,
        velHist, static, history, datumHist
  <2> QED BY <2>1, <2>2, <2>3, <2>4 DEF BootFrameFound
<1> QED BY <1>1, <1>2, <1>3, <1>4, <1>5

\* The cycle of M750 runs on a booted driver.
LEMMA CycleBoot ==
    TypeOK /\ DriverInv /\ HomedReported /\ BootDatumInv /\ RunCycle => BootDatumInv'
<1> SUFFICES ASSUME TypeOK, DriverInv, HomedReported, BootDatumInv, RunCycle
             PROVE  BootDatumInv'
  OBVIOUS
<1> USE DEF BootDatumInv, RunCycle, Connect, ClosedLoop, ClosedLoopCheck, CalWait,
       NotClosed, RampStart, RampUp, Abort, Measure, RampDownStart, RampDown,
       DecelStalled, Settling
<1> USE DEF Goto, ForceIdle, Return, LeaveFor, Finish, Stay, locals, body
<1>0. ret \in ForceIdleCallers
  BY DEF DriverInv
<1>1. BootWithoutDatum'
  BY <1>0 DEF BootWithoutDatum, Booting, BootPlaces, ForceIdleCallers, RecordDatum, static
<1>2. BootGoal'
  BY <1>0 DEF BootGoal, ForceIdleCallers, SetState, RequestState, NoEffect, GoIdle, Disarmed, Enter,
      SetVelocity, WriteVelocity, ArmForSettle, BackToVelocityMode, SettleTo, Reads, driveVars,
      velHist, static, history, datumHist
<1>3. BootAtRest'
  BY <1>0 DEF DriverInv, RotorToldToStop, HomedReported, BootAtRest, SettledBoot,
      ForceIdleCallers, TypeOK, DriveTypeOK, BootGoal,
      SetState, RequestState, NoEffect, GoIdle, Disarmed, Enter,
      SetVelocity, WriteVelocity, ArmForSettle, BackToVelocityMode, SettleTo, Reads, driveVars,
      velHist, static, history, datumHist
<1>4. BootFrameFound'
  BY <1>0 DEF HomedReported, BootFrameFound, SettledBoot, ForceIdleCallers,
      SetState, RequestState, NoEffect, GoIdle, Disarmed, Enter,
      SetVelocity, WriteVelocity, ArmForSettle, BackToVelocityMode, SettleTo, Reads, driveVars,
      velHist, static, history, datumHist
<1> QED BY <1>1, <1>2, <1>3, <1>4

\* doIndexHome() and doSetHome() run on a booted driver.
LEMMA HomeBoot ==
    TypeOK /\ DriverInv /\ HomedReported /\ BootDatumInv /\ RunHome => BootDatumInv'
<1> SUFFICES ASSUME TypeOK, DriverInv, HomedReported, BootDatumInv, RunHome
             PROVE  BootDatumInv'
  OBVIOUS
<1> USE DEF BootDatumInv, RunHome, HomeRespond, HomeEnsureIdle, HomeRequest,
       HomeWaitStart, HomeWaitIdle, HomeVerify, HomeGuard, HomeArm, HomeArmWait,
       HomeSettle, HomeSettleWait, HomeRestore, HomeReturn, SetHome
<1> USE DEF Goto, ForceIdle, Return, LeaveFor, Finish, Stay, locals, body
<1>0. ret \in ForceIdleCallers
  BY DEF DriverInv
<1>1. BootWithoutDatum'
  BY <1>0 DEF BootWithoutDatum, Booting, BootPlaces, ForceIdleCallers, RecordDatum, static
<1>2. BootGoal'
  BY <1>0 DEF BootGoal, ForceIdleCallers, SetState, RequestState, NoEffect, GoIdle, Disarmed, Enter,
      SetVelocity, WriteVelocity, ArmForSettle, BackToVelocityMode, SettleTo, Reads, driveVars,
      velHist, static, history, datumHist
<1>3. BootAtRest'
  BY <1>0 DEF DriverInv, RotorToldToStop, HomedReported, BootAtRest, SettledBoot,
      ForceIdleCallers, TypeOK, DriveTypeOK, BootGoal,
      SetState, RequestState, NoEffect, GoIdle, Disarmed, Enter,
      SetVelocity, WriteVelocity, ArmForSettle, BackToVelocityMode, SettleTo, Reads, driveVars,
      velHist, static, history, datumHist
<1>4. BootFrameFound'
  BY <1>0 DEF HomedReported, BootFrameFound, SettledBoot, ForceIdleCallers,
      SetState, RequestState, NoEffect, GoIdle, Disarmed, Enter,
      SetVelocity, WriteVelocity, ArmForSettle, BackToVelocityMode, SettleTo, Reads, driveVars,
      velHist, static, history, datumHist
<1> QED BY <1>1, <1>2, <1>3, <1>4

\* A command boots a driver that is not ready, with nothing settled.
LEMMA StartBoot ==
    TypeOK /\ DriverInv /\ HomedReported /\ BootDatumInv /\ StartCommand => BootDatumInv'
<1> SUFFICES ASSUME TypeOK, DriverInv, HomedReported, BootDatumInv, StartCommand
             PROVE  BootDatumInv'
  OBVIOUS
<1> USE DEF BootDatumInv, StartCommand, M750Refused, M750, M751, M752, Begin, AfterBoot
<1> USE DEF Goto, ForceIdle, Return, LeaveFor, Finish, Stay, locals, body
<1>0. ret \in ForceIdleCallers
  BY DEF DriverInv
<1>1. BootWithoutDatum'
  BY <1>0 DEF BootWithoutDatum, Booting, BootPlaces, ForceIdleCallers, RecordDatum, static
<1>2. BootGoal'
  BY <1>0 DEF BootGoal, ForceIdleCallers, SetState, RequestState, NoEffect, GoIdle, Disarmed, Enter,
      SetVelocity, WriteVelocity, ArmForSettle, BackToVelocityMode, SettleTo, Reads, driveVars,
      velHist, static, history, datumHist
<1>3. BootAtRest'
  BY <1>0 DEF DriverInv, RotorToldToStop, HomedReported, BootAtRest, SettledBoot,
      ForceIdleCallers, TypeOK, DriveTypeOK, BootGoal,
      SetState, RequestState, NoEffect, GoIdle, Disarmed, Enter,
      SetVelocity, WriteVelocity, ArmForSettle, BackToVelocityMode, SettleTo, Reads, driveVars,
      velHist, static, history, datumHist
<1>4. BootFrameFound'
  BY <1>0 DEF HomedReported, BootFrameFound, SettledBoot, ForceIdleCallers,
      SetState, RequestState, NoEffect, GoIdle, Disarmed, Enter,
      SetVelocity, WriteVelocity, ArmForSettle, BackToVelocityMode, SettleTo, Reads, driveVars,
      velHist, static, history, datumHist
<1> QED BY <1>1, <1>2, <1>3, <1>4

\* An abort, a kill and a reset leave the boot; a power cycle is remembered.
LEMMA OutsideBoot ==
    TypeOK /\ DriverInv /\ HomedReported /\ BootDatumInv /\ (M410 \/ Kill \/ Reset \/ PowerLost) => BootDatumInv'
<1> SUFFICES ASSUME TypeOK, DriverInv, HomedReported, BootDatumInv, (M410 \/ Kill \/ Reset \/ PowerLost)
             PROVE  BootDatumInv'
  OBVIOUS
<1> USE DEF BootDatumInv, M410, Kill, Reset, PowerLost, PowerCycle, EmergencyStop, StartupSafetyDisarm, Disarmed
<1> USE DEF Goto, ForceIdle, Return, LeaveFor, Finish, Stay, locals, body
<1>0. ret \in ForceIdleCallers
  BY DEF DriverInv
<1>1. BootWithoutDatum'
  BY <1>0 DEF BootWithoutDatum, Booting, BootPlaces, ForceIdleCallers, RecordDatum, static
<1>2. BootGoal'
  BY <1>0 DEF BootGoal, ForceIdleCallers, SetState, RequestState, NoEffect, GoIdle, Disarmed, Enter,
      SetVelocity, WriteVelocity, ArmForSettle, BackToVelocityMode, SettleTo, Reads, driveVars,
      velHist, static, history, datumHist
<1>3. BootAtRest'
  BY <1>0 DEF DriverInv, RotorToldToStop, HomedReported, BootAtRest, SettledBoot,
      ForceIdleCallers, TypeOK, DriveTypeOK, BootGoal,
      SetState, RequestState, NoEffect, GoIdle, Disarmed, Enter,
      SetVelocity, WriteVelocity, ArmForSettle, BackToVelocityMode, SettleTo, Reads, driveVars,
      velHist, static, history, datumHist
<1>4. BootFrameFound'
  <2>1. CASE Kill \/ Reset
    BY <2>1 DEF BootFrameFound, SettledBoot
  <2>2. CASE M410
    BY <2>2 DEF BootFrameFound, SettledBoot, Reads, driveVars, history, datumHist
  <2>3. CASE PowerLost
    BY <2>3 DEF BootFrameFound, SettledBoot
  <2> QED BY <2>1, <2>2, <2>3
<1> QED BY <1>1, <1>2, <1>3, <1>4

\* Only a setpoint older than the reset can speed a settled rotor up.
LEMMA DriveBoot ==
    TypeOK /\ DriverInv /\ HomedReported /\ BootDatumInv /\ DriveStep => BootDatumInv'
<1> SUFFICES ASSUME TypeOK, DriverInv, HomedReported, BootDatumInv, DriveStep
             PROVE  BootDatumInv'
  OBVIOUS
<1> USE DEF BootDatumInv, DriveStep, SpinUp, SlowDown, Rotate, SearchEnds,
       CalibrationEnds, TrapMove, SelfDisarm, GoIdle, Disarmed, HandTurn
<1> USE DEF Goto, ForceIdle, Return, LeaveFor, Finish, Stay, locals, body
<1>0. ret \in ForceIdleCallers
  BY DEF DriverInv
<1>1. BootWithoutDatum'
  BY <1>0 DEF BootWithoutDatum, Booting, BootPlaces, ForceIdleCallers, RecordDatum, static
<1>2. BootGoal'
  BY <1>0 DEF BootGoal, ForceIdleCallers, SetState, RequestState, NoEffect, GoIdle, Disarmed, Enter,
      SetVelocity, WriteVelocity, ArmForSettle, BackToVelocityMode, SettleTo, Reads, driveVars,
      velHist, static, history, datumHist
<1>3. BootAtRest'
  <2>0. SettledBoot /\ ~velStale => setVel # "SPIN"
    BY DEF DriverInv, RotorToldToStop, SettledBoot
  <2>1. CASE SpinUp \/ SlowDown
    BY <2>0, <2>1 DEF BootAtRest, SettledBoot, velHist, history, datumHist, Still
  <2>2. CASE Rotate \/ HandTurn
    BY <2>2 DEF BootAtRest, SettledBoot, velHist, history, datumHist, Still
  <2>3. CASE TrapMove
    BY <2>3 DEF BootAtRest, SettledBoot, velHist, history, datumHist
  <2>4. CASE SearchEnds \/ CalibrationEnds \/ SelfDisarm
    BY <2>4 DEF BootAtRest, SettledBoot, velHist, history, datumHist
  <2> QED BY <2>1, <2>2, <2>3, <2>4
<1>4. BootFrameFound'
  BY <1>0 DEF HomedReported, BootFrameFound, SettledBoot, ForceIdleCallers,
      SetState, RequestState, NoEffect, GoIdle, Disarmed, Enter,
      SetVelocity, WriteVelocity, ArmForSettle, BackToVelocityMode, SettleTo, Reads, driveVars,
      velHist, static, history, datumHist
<1> QED BY <1>1, <1>2, <1>3, <1>4

LEMMA StutterBoot == BootDatumInv /\ UNCHANGED vars => BootDatumInv'
<1> SUFFICES ASSUME BootDatumInv, UNCHANGED vars PROVE BootDatumInv'
  OBVIOUS
<1> USE DEF BootDatumInv, vars, driveVars, static, locals, body, velHist, history, datumHist
<1>1. BootWithoutDatum' /\ BootGoal'
  BY DEF BootWithoutDatum, Booting, BootGoal
<1>2. BootAtRest' /\ BootFrameFound'
  BY DEF BootAtRest, BootFrameFound, SettledBoot
<1> QED BY <1>1, <1>2

LEMMA NextBoot ==
    TypeOK /\ DriverInv /\ HomingInv /\ BootDatumInv /\ [Next]_vars => BootDatumInv'
BY ForceIdleBoot, BootBoot, CycleBoot, HomeBoot, StartBoot, OutsideBoot, DriveBoot,
   StutterBoot DEF HomingInv, Next, RunCommand

\* boot() keeps its inductive invariant: no datum before it, and after its settle
\* a rotor that only a setpoint older than a reset can move.
THEOREM BootSafe == Spec => []BootDatumInv
<1>1. TypeOK /\ DriverInv /\ HomingInv /\ BootDatumInv /\ [Next]_vars => BootDatumInv'
  BY NextBoot
<1> QED BY <1>1, InitBoot, TypeCorrect, DriverSafe, HomingSafe, PTL DEF Spec

\* A datum is new, or has another angle.
NewDatum == datumSet' /\ (~datumSet \/ ~SameAngle(homePos', homePos))

LEMMA OldDatum ==
    ASSUME TypeOK, UNCHANGED <<datumSet, homePos>>
    PROVE  ~NewDatum
BY SameAsItself DEF NewDatum, TypeOK, MegaTypeOK

\* Only the last step of boot() and doSetHome() make a new datum.
LEMMA NewDatumFrom ==
    ASSUME TypeOK, [Next]_vars, NewDatum
    PROVE  SetHome \/ BootRead
<1>1. ~RunForceIdle
  BY OldDatum DEF RunForceIdle, ForceIdleWrite, ForceIdleWait, static
<1>2. RunBoot => BootRead
  <2>1. ~BootProbe
    BY OldDatum DEF BootProbe
  <2> QED BY <2>1, OldDatum DEF RunBoot, BootIdle, BootSearch, BootWaitStart,
      BootWaitIdle, BootVerify, BootArm, BootArmWait, BootSettle, BootSettleWait,
      BootReturn, static
<1>3. ~RunCycle
  BY OldDatum DEF RunCycle, Connect, ClosedLoop, ClosedLoopCheck, CalWait, NotClosed,
     RampStart, RampUp, Measure, RampDownStart, RampDown, DecelStalled, Settling, static
<1>4. RunHome => SetHome
  <2>1. ~HomeGuard
    <3>1. HomeGuard => UNCHANGED datumSet /\ (UNCHANGED homePos \/ homePos' = Normalised(pos))
      BY DEF HomeGuard
    <3>2. UNCHANGED datumSet /\ homePos' = Normalised(pos) => ~NewDatum
      BY NormalisedAngle DEF NewDatum
    <3> QED BY <3>1, <3>2, OldDatum
  <2> QED BY <2>1, OldDatum DEF RunHome, HomeRespond, HomeEnsureIdle, HomeRequest,
      HomeWaitStart, HomeWaitIdle, HomeVerify, HomeArm, HomeArmWait, HomeSettle,
      HomeSettleWait, HomeRestore, HomeReturn, static
<1>5. ~StartCommand
  BY OldDatum DEF StartCommand, M750Refused, M750, M751, M752, Begin, static
<1>6. ~Reset
  BY DEF Reset, NewDatum
<1>7. ~(M410 \/ Kill \/ DriveStep \/ PowerLost \/ UNCHANGED vars)
  BY OldDatum DEF M410, Kill, DriveStep, PowerLost, static, vars
<1> QED BY <1>1, <1>2, <1>3, <1>4, <1>5, <1>6, <1>7 DEF Next, RunCommand

\* At the end of boot() a datum is set by its last step, from a settled chuck.
LEMMA BootReadDatum ==
    ASSUME TypeOK, BootDatumInv, pc = "bootRead", [Next]_vars, datumSet'
    PROVE  BootRead /\ homed
<1>1. ~datumSet
  BY DEF BootDatumInv, BootWithoutDatum, Booting, BootPlaces
<1>2. NewDatum
  BY <1>1 DEF NewDatum
<1>3. BootRead
  BY <1>2, NewDatumFrom DEF SetHome
<1> QED BY <1>3 DEF BootRead

\* ADR-0002 rule 2, for every chuck, command and event: a datum is recorded from
\* a rotor at rest, by doSetHome() because it asks for the speed, by boot()
\* because its settle has ended and nothing moves the rotor until the read,
\* unless a reset left the drive at the spin speed.
THEOREM DatumAtRest == Spec => DatumFromRotorAtRest
<1>1. TypeOK /\ BootDatumInv /\ [Next]_vars =>
        (NewDatum => speed = Still \/ (pc = "bootRead" /\ velStale))
  <2> SUFFICES ASSUME TypeOK, BootDatumInv, [Next]_vars, NewDatum
               PROVE  speed = Still \/ (pc = "bootRead" /\ velStale)
    OBVIOUS
  <2>1. CASE SetHome
    BY <2>1, OldDatum DEF SetHome
  <2>2. CASE BootRead
    <3>1. pc = "bootRead" /\ homed
      BY <2>2 DEF BootRead, NewDatum
    <3> QED BY <3>1 DEF BootDatumInv, BootAtRest, SettledBoot
  <2> QED BY <2>1, <2>2, NewDatumFrom
<1> QED BY <1>1, TypeCorrect, BootSafe, PTL DEF Spec, DatumFromRotorAtRest, NewDatum

\* The datum of boot() is the index mark: it settles on a whole number of turns
\* in a frame that a search which did not fail has anchored at the mark.
THEOREM BootDatumSafe == Spec => BootDatumAtMark
<1>1. TypeOK /\ BootDatumInv /\ [Next]_vars =>
        (pc = "bootRead" /\ datumSet' /\ ~unread /\ ~cut /\ ~velStale =>
            Physical(pos) = 0)
  <2> SUFFICES ASSUME TypeOK, BootDatumInv, [Next]_vars,
                      pc = "bootRead", datumSet', ~unread, ~cut, ~velStale
               PROVE  Physical(pos) = 0
    OBVIOUS
  <2>1. SettledBoot
    BY BootReadDatum DEF SettledBoot
  <2>2. pos = kept
    BY <2>1 DEF BootDatumInv, BootAtRest
  <2>3. frame = 0 /\ kept % Turn = 0
    BY <2>1 DEF BootDatumInv, BootFrameFound
  <2>4. pos + frame = pos
    BY <2>3, PhysicalType
  <2> QED BY <2>2, <2>3, <2>4 DEF Physical
<1> QED BY <1>1, TypeCorrect, BootSafe, PTL DEF Spec, BootDatumAtMark

-----------------------------------------------------------------------------
(* Issue #40: a reset in the middle of a spin.                               *)

\* A command that runs where the drive is not booted is still in boot(), which
\* leaves only from its probe without having booted it.
LEMMA CommandUnbooted ==
    ASSUME TypeOK, BootDatumInv, UnbootedDisarmed, RunCommand
    PROVE  UnbootedDisarmed'
<1> SUFFICES ASSUME ~ready', pc' \in {"wait", "bootProbe"}, loose' = {} PROVE axis' = "IDLE"
  BY DEF UnbootedDisarmed, Unbooted
<1> USE DEF BootDatumInv, BootWithoutDatum, Booting, BootPlaces, static
<1>1. CASE RunForceIdle
  BY <1>1 DEF RunForceIdle, ForceIdleWrite, ForceIdleWait, Goto, Return, Stay
<1>2. CASE RunCycle
  BY <1>2 DEF RunCycle, Connect, ClosedLoop, ClosedLoopCheck, CalWait, NotClosed,
       RampStart, RampUp, Abort, Measure, RampDownStart, RampDown, DecelStalled, Settling
<1>3. CASE RunHome
  BY <1>3 DEF RunHome, HomeRespond, HomeEnsureIdle, HomeRequest, HomeWaitStart,
       HomeWaitIdle, HomeVerify, HomeGuard, HomeArm, HomeArmWait, HomeSettle,
       HomeSettleWait, HomeRestore, HomeReturn, SetHome
<1>4. CASE RunBoot
  <2>1. BootProbe
    BY <1>4 DEF RunBoot, BootIdle, BootSearch, BootWaitStart, BootSearchUnseen,
         BootWaitIdle, BootVerify, BootArm, BootArmWait, BootSettle, BootSettleWait,
         BootReturn, BootRead, Goto, ForceIdle, Stay
  <2>2. Unbooted /\ loose = {} /\ axis' = axis
    BY <2>1 DEF BootProbe, Unbooted, history, Reads, driveVars
  <2> QED BY <2>2 DEF UnbootedDisarmed
<1> QED BY <1>1, <1>2, <1>3, <1>4 DEF RunCommand

\* Commands that start, the drive by itself, and what comes from outside.
LEMMA OthersUnbooted ==
    ASSUME TypeOK, UnbootedDisarmed,
           StartCommand \/ M410 \/ Kill \/ Reset \/ DriveStep \/ PowerLost \/ UNCHANGED vars
    PROVE  UnbootedDisarmed'
<1> USE DEF UnbootedDisarmed, Unbooted
<1>1. CASE StartCommand
  BY <1>1 DEF StartCommand, M750Refused, M750, M751, M752, Begin, Finish, LeaveFor,
       Reads, driveVars, static, history
<1>2. CASE M410 \/ Kill \/ UNCHANGED vars
  BY <1>2 DEF M410, Kill, LeaveFor, Stay, Reads, driveVars, static, history, vars
<1>3. CASE Reset
  BY <1>3 DEF Reset, StartupSafetyDisarm, EmergencyStop, Disarmed
<1>4. CASE DriveStep
  BY <1>4 DEF DriveStep, SpinUp, SlowDown, Rotate, SearchEnds, CalibrationEnds, TrapMove,
       SelfDisarm, GoIdle, Disarmed, HandTurn, Stay, static, history
<1>5. CASE PowerLost
  BY <1>5 DEF PowerLost, PowerCycle, Stay, static
<1> QED BY <1>1, <1>2, <1>3, <1>4, <1>5

\* From a reset until boot() takes the drive over nothing arms the axis, unless
\* both IDLE requests of startupSafetyDisarm() were lost.
THEOREM ResetSafe == Spec => []UnbootedDisarmed
<1>1. Init => UnbootedDisarmed
  BY DEF Init, DriveInit, UnbootedDisarmed
<1>2. TypeOK /\ BootDatumInv /\ UnbootedDisarmed /\ [Next]_vars => UnbootedDisarmed'
  BY CommandUnbooted, OthersUnbooted DEF Next
<1> QED BY <1>1, <1>2, TypeCorrect, BootSafe, PTL DEF Spec
=============================================================================
