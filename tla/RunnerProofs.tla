----------------------------- MODULE RunnerProofs -----------------------------
(* The Program Runner, which sends its lines on the ledger of the Process      *)
(* Sequencer: the types of both pages' runs, and one line of a program in      *)
(* flight at a time.                                                           *)
EXTENDS ProgramRunner, SequencerProofs

\* What the runner and the operator of it do; the rest are steps of the Sequencer.
OwnStep ==
    ProgSendNext \/ ProgOnOk \/ ProgRun \/ ProgPause \/ ProgStopButton \/ ProgResume
SharedStep ==
    \/ UNCHANGED progVars /\ (Machine \/ Accidents \/ Run \/ Timeout \/ Stop)
    \/ UNCHANGED progVars /\ prog = "off" /\ Buttons
    \/ sending \notin {"answered", "now"} /\ HandleLine /\ ProgHears
    \/ sending \notin {"answered", "now"} /\ ProgStop /\ (EmergencyStop \/ Disconnect \/ Connect)

LEMMA RunnerSteps == RunnerNext => OwnStep \/ SharedStep
BY Zenon DEF RunnerNext, OwnStep, SharedStep, Device, Hears, SequencerRuns, SequencerStarts,
   LinkLost, Undisturbed

LEMMA SharedNext == SharedStep => Next
BY Zenon DEF SharedStep, Next, Operator

-----------------------------------------------------------------------------
(* Types                                                                       *)

SequencerIdles == UNCHANGED <<seq, plan, todo, waiter, fault, owed, verdict, due, spun, fed,
                              blind, misheard, link, connected>>

\* A line of the program, as it is sent or, without a connection, is not.
LEMMA LineSends ==
    ASSUME Sound, NEW kind \in Kinds, NEW wait \in BOOLEAN, SendLineOf(kind, wait)
    PROVE  /\ PageWrites \/ PageQuiet
           /\ ledger' \in Seq(Int) /\ lidLast' \in {"unknown", "open", "closed"}
           /\ UNCHANGED <<homed, link, connected>>
<1> DEFINE entry == IF wait THEN -2 - sent ELSE 0
<1>1. RunWait /\ sent \in Nat
  BY TypeParts DEF Sound, CellTypeOK, QueueTypeOK
<1>2. entry \in Int
  BY <1>1
<1> HIDE DEF entry
<1>3. CASE SendAwaited(kind, entry)
  <2>1. /\ Write(<<kind>>) /\ ledger' = Append(ledger, entry) /\ lidLast' = LidAfter(kind)
        /\ UNCHANGED <<homed, link, connected>>
    BY <1>3 DEF SendAwaited
  <2>2. <<kind>> \in Seq(Kinds)
    BY OneLine
  <2>3. ledger \in Seq(Int)
    BY <1>1 DEF RunWait
  <2>4. ledger' \in Seq(Int)
    BY <1>2, <2>1, <2>3, AppendProperties
  <2> QED BY <1>1, <2>1, <2>2, <2>4, LidTypes DEF PageWrites
<1>4. CASE NothingSent /\ UNCHANGED trackVars
  BY <1>1, <1>4 DEF NothingSent, trackVars, RunWait, PageQuiet
<1> QED BY <1>3, <1>4 DEF SendLineOf, entry

LEMMA NothingTypes ==
    ASSUME Sound, NothingSent, UNCHANGED <<ledger, lidLast>>
    PROVE  /\ PageWrites \/ PageQuiet
           /\ ledger' \in Seq(Int) /\ lidLast' \in {"unknown", "open", "closed"}
           /\ UNCHANGED <<link, connected>>
<1>1. RunWait
  BY TypeParts DEF Sound
<1> QED BY <1>1 DEF RunWait, NothingSent, PageQuiet

LEMMA OwnEffect ==
    ASSUME Sound, lines \in Seq(Kinds), OwnStep
    PROVE  /\ PageWrites \/ PageQuiet
           /\ SequencerIdles
           /\ ledger' \in Seq(Int) /\ lidLast' \in {"unknown", "open", "closed"}
           /\ UNCHANGED homed \/ homed' = (homed \/ homes)
           /\ mishaps' \in 0..MaxMishaps /\ runs' \in 0..MaxRuns
<1>0. mishaps \in 0..MaxMishaps /\ runs \in 0..MaxRuns
  BY DEF Sound, TypeOK, CellTypeOK
<1>1. CASE ProgSendNext
  <2>0. UNCHANGED <<mishaps, runVars>>
    BY <1>1 DEF ProgSendNext
  <2>1. CASE \E wait \in BOOLEAN : ProgSend(wait)
    <3>1. PICK wait \in BOOLEAN : lines # <<>> /\ SendLineOf(lines[1], wait)
      BY <2>1 DEF ProgSend
    <3>2. lines[1] \in Kinds
      BY <3>1, StepTail
    <3> HIDE DEF PageWrites, PageQuiet
    <3>3. /\ PageWrites \/ PageQuiet
          /\ ledger' \in Seq(Int) /\ lidLast' \in {"unknown", "open", "closed"}
          /\ UNCHANGED <<homed, link, connected>>
      BY <3>1, <3>2, LineSends
    <3> QED BY <1>0, <2>0, <3>3 DEF SequencerIdles, runVars
  <2>2. CASE NothingSent /\ UNCHANGED trackVars
    <3>1. UNCHANGED <<ledger, lidLast, homed>>
      BY <2>2 DEF trackVars
    <3> QED BY <1>0, <2>0, <2>2, <3>1, NothingTypes DEF SequencerIdles, runVars
  <2> QED BY <1>1, <2>1, <2>2 DEF ProgSendNext
<1>2. CASE ProgOnOk
  <2>1. /\ NothingSent /\ UNCHANGED <<mishaps, ledger, lidLast, runVars>>
        /\ homed' = (homed \/ homes)
    BY <1>2 DEF ProgOnOk
  <2> QED BY <1>0, <2>1, NothingTypes DEF SequencerIdles, runVars
<1>3. CASE ProgRun
  <2>1. /\ NothingSent /\ SequencerKept /\ UNCHANGED <<mishaps, trackVars>>
        /\ runs < MaxRuns /\ runs' = runs + 1
    BY <1>3 DEF ProgRun
  <2>2. runs' \in 0..MaxRuns
    BY <1>0, <2>1, RunsTypes
  <2>3. UNCHANGED <<ledger, lidLast, homed>>
    BY <2>1 DEF trackVars
  <2> QED BY <1>0, <2>1, <2>2, <2>3, NothingTypes DEF SequencerIdles, SequencerKept
<1>4. CASE ProgPause \/ ProgStopButton \/ ProgResume
  <2>1. NothingSent /\ UNCHANGED <<trackVars, runVars>>
    BY <1>4 DEF ProgPause, ProgStopButton, ProgResume, Interrupts
  <2>2. UNCHANGED mishaps \/ (mishaps < MaxMishaps /\ mishaps' = mishaps + 1)
    BY <1>4 DEF ProgPause, ProgStopButton, ProgResume, Interrupts
  <2>3. mishaps' \in 0..MaxMishaps
    BY <1>0, <2>2, WorkcellAssumption
  <2>4. UNCHANGED <<ledger, lidLast, homed>>
    BY <2>1 DEF trackVars
  <2> QED BY <1>0, <2>1, <2>3, <2>4, NothingTypes DEF SequencerIdles, runVars
<1> QED BY <1>1, <1>2, <1>3, <1>4 DEF OwnStep

LEMMA OwnSound ==
    ASSUME Sound, lines \in Seq(Kinds), homes \in BOOLEAN, OwnStep
    PROVE  Sound'
<1>0. CellTypeOK /\ QueueOrder /\ RunFlags /\ RunPlan /\ RunWait /\ RunInv
  BY TypeParts DEF Sound
<1>1. /\ PageWrites \/ PageQuiet
      /\ SequencerIdles
      /\ ledger' \in Seq(Int) /\ lidLast' \in {"unknown", "open", "closed"}
      /\ UNCHANGED homed \/ homed' = (homed \/ homes)
      /\ mishaps' \in 0..MaxMishaps /\ runs' \in 0..MaxRuns
  BY OwnEffect
<1>2. connected' \in BOOLEAN /\ link' \in Seq(Reports)
  BY <1>0, <1>1 DEF SequencerIdles, CellTypeOK
<1>3. CellTypeOK' /\ QueueOrder'
  BY <1>0, <1>1, <1>2, PageTypes
<1>4. homed' \in BOOLEAN
  BY <1>0, <1>1, Zenon DEF RunFlags
<1>5. RunFlags'
  BY <1>0, <1>1, <1>4, Zenon DEF RunFlags, SequencerIdles
<1>6. RunPlan' /\ RunWait'
  BY <1>0, <1>1 DEF RunPlan, RunWait, SequencerIdles
<1>7. RunInv'
  BY <1>0, <1>1, Zenon DEF RunInv, SequencerIdles
<1>8. TypeOK'
  BY <1>3, <1>5, <1>6 DEF TypeOK, RunFlags, RunPlan, RunWait, StepKinds
<1> QED BY <1>3, <1>7, <1>8 DEF Sound

LEMMA StopTypes == ASSUME homes \in BOOLEAN, ProgStop PROVE RunnerTypeOK'
<1>1. prog' = "off" /\ lines' = <<>> /\ awaits' = 0 /\ sending' = "no" /\ last' = 0 
  BY DEF ProgStop
<1>2. homes' \in BOOLEAN /\ mistaken' \in BOOLEAN
  BY Zenon DEF ProgStop
<1>3. lines' \in Seq(Kinds)
  BY <1>1, Empty
<1> QED BY <1>1, <1>2, <1>3 DEF RunnerTypeOK

\* What a run of a program waits for, and what sends its next line.
LEMMA RunnerTypesStep ==
    ASSUME RunnerTypeOK, Sound, [RunnerNext]_pageVars
    PROVE  RunnerTypeOK'
<1>0. homes \in BOOLEAN /\ mistaken \in BOOLEAN
  BY DEF RunnerTypeOK
<1>1. CASE ProgSendNext
  <2>0. sending \in {"now", "timer"} /\ awaits = 0
    BY <1>1 DEF ProgSendNext, RunnerTypeOK
  <2>1. CASE \E wait \in BOOLEAN : ProgSend(wait)
    <3>1. PICK wait \in BOOLEAN : ProgSend(wait)
      BY <2>1
    <3>2. lines # <<>> /\ lines' = Tail(lines) /\ prog = "on" /\ UNCHANGED <<prog, mistaken>>
      BY <3>1 DEF ProgSend
    <3>3. lines' \in Seq(Kinds)
      BY <3>2, StepTail DEF RunnerTypeOK
    <3>4. homes' \in BOOLEAN
      <4>1. homes' = IF wait THEN lines[1] = "G28" ELSE homes
        BY <3>1 DEF ProgSend
      <4> QED BY <1>0, <4>1
    <3>5. /\ awaits' = (IF wait THEN sent + 1 ELSE 0) /\ last' = awaits'
          /\ sending' = IF wait THEN "no" ELSE "timer"
      BY <3>1 DEF ProgSend
    <3>6. sent \in Nat
      BY DEF Sound, TypeOK, CellTypeOK, QueueTypeOK
    <3>7. mistaken' \in BOOLEAN
      BY <1>0, <3>2, Zenon
    <3>8. prog' = "on" /\ awaits' \in Nat /\ last' \in Nat /\ sending' \in {"no", "timer"}
          /\ (awaits' # 0 => sending' = "no")
      BY <3>2, <3>5, <3>6
    <3> QED BY <3>3, <3>4, <3>7, <3>8 DEF RunnerTypeOK
  <2>2. CASE ProgStop
    BY <1>0, <2>2, StopTypes
  <2>3. CASE prog = "paused" /\ sending' = "no" /\ UNCHANGED <<prog, lines, awaits, homes, last, mistaken>>
    BY <2>0, <2>3 DEF RunnerTypeOK
  <2> QED BY <1>1, <2>1, <2>2, <2>3 DEF ProgSendNext
<1>2. CASE ProgOnOk
  <2>1. /\ sending = "answered" /\ awaits' = 0 /\ homes' = FALSE
        /\ sending' = (IF prog = "on" THEN "now" ELSE "no") /\ UNCHANGED <<prog, lines, last, mistaken>>
    BY <1>2 DEF ProgOnOk
  <2> QED BY <2>1 DEF RunnerTypeOK
<1>3. CASE ProgRun
  <2>1. /\ prog' = "on" /\ lines' \in Scripts /\ awaits' = 0 /\ sending' = "now"
        /\ last' = 0 /\ mistaken' = FALSE /\ UNCHANGED homes
    BY <1>3 DEF ProgRun
  <2>2. lines' \in Seq(Kinds)
    BY <2>1, ScriptsAssumption
  <2> QED BY <1>0, <2>1, <2>2 DEF RunnerTypeOK
<1>4. CASE ProgPause
  <2>1. prog' = "paused" /\ UNCHANGED <<lines, awaits, homes, sending, last, mistaken>>
    BY <1>4 DEF ProgPause
  <2> QED BY <2>1 DEF RunnerTypeOK
<1>5. CASE ProgStopButton
  BY <1>0, <1>5, StopTypes DEF ProgStopButton
<1>6. CASE ProgResume
  <2>1. prog' = "on" /\ UNCHANGED <<lines, awaits, homes, last, mistaken>>
        /\ sending' = IF ResumeSends THEN "now" ELSE sending
    BY <1>6 DEF ProgResume
  <2> QED BY <2>1 DEF RunnerTypeOK, ResumeSends
<1>7. CASE UNCHANGED progVars
  BY <1>7 DEF RunnerTypeOK, progVars
<1>8. CASE ProgHears
  <2> DEFINE heard == Head(link)
             own == heard.what = "ok" /\ ledger # <<>> /\ Answers(Head(ledger))
  <2>1. CASE ProgStop
    BY <1>0, <2>1, StopTypes
  <2>2. CASE ~ProgStop
    <3>1. /\ UNCHANGED <<prog, lines, awaits, homes, last>>
          /\ sending' = IF own THEN "answered" ELSE sending
          /\ mistaken' = (mistaken \/ (own /\ Head(ledger) = -1 - awaits /\ heard.id # awaits))
      BY <1>8, <2>2 DEF ProgHears
    <3>2. own => awaits # 0
      BY DEF Answers
    <3>3. mistaken' \in BOOLEAN
      BY <3>1, Zenon
    <3> QED BY <3>1, <3>2, <3>3 DEF RunnerTypeOK
  <2> QED BY <2>1, <2>2
<1>9. CASE ProgStop
  BY <1>0, <1>9, StopTypes
<1>10. CASE UNCHANGED pageVars
  BY <1>7, <1>10 DEF pageVars
<1> QED BY <1>1, <1>2, <1>3, <1>4, <1>5, <1>6, <1>7, <1>8, <1>9, <1>10, RunnerSteps
   DEF OwnStep, SharedStep

LEMMA RunnerSoundStep ==
    ASSUME RunnerTypeOK, Sound, [RunnerNext]_pageVars
    PROVE  Sound'
<1>1. CASE OwnStep
  BY <1>1, OwnSound DEF RunnerTypeOK
<1>2. CASE SharedStep \/ UNCHANGED pageVars
  BY <1>2, SharedNext, SoundStep DEF pageVars
<1> QED BY <1>1, <1>2, RunnerSteps

LEMMA RunnerTypesInit == RunnerInit => Sound /\ RunnerTypeOK
<1> SUFFICES ASSUME RunnerInit PROVE Sound /\ RunnerTypeOK
  OBVIOUS
<1>1. lines = <<>> /\ <<>> \in Seq(Kinds)
  BY Empty DEF RunnerInit
<1>2. RunnerTypeOK
  BY <1>1 DEF RunnerInit, RunnerTypeOK
<1> QED BY <1>2, SoundInit DEF RunnerInit

\* The types of both runs, the order of the lines, and: a line that is waited for
\* belongs to a run, which has no timer then, and a run that has ended leaves no
\* timer behind (progStop, progResume).
THEOREM RunnerTypes == RunnerSpec => [](TypeOK /\ QueueOrder /\ RunnerTypeOK)
<1>1. Sound /\ RunnerTypeOK /\ [RunnerNext]_pageVars => Sound' /\ RunnerTypeOK'
  BY RunnerTypesStep, RunnerSoundStep
<1>2. Sound /\ RunnerTypeOK => TypeOK /\ QueueOrder /\ RunnerTypeOK
  BY DEF Sound
<1> QED BY <1>1, <1>2, RunnerTypesInit, PTL DEF RunnerSpec

-----------------------------------------------------------------------------
(* One line in flight                                                          *)

\* What handlers print before the ok.
Mute == [what : {"refused", "marker", "spin", "complete", "homing", "indexed"}, id : {0}]

LEMMA MuteReports ==
    /\ <<>> \in Seq(Mute)
    /\ \A what \in {"refused", "marker", "spin", "complete", "homing", "indexed"} :
          Report(what) \in Seq(Mute)
    /\ Search \o Report("complete") \in Seq(Mute)
<1>1. \A what \in {"refused", "marker", "spin", "complete", "homing", "indexed"} :
         Report(what) \in Seq(Mute)
  <2> TAKE what \in {"refused", "marker", "spin", "complete", "homing", "indexed"}
  <2>1. [what |-> what, id |-> 0] \in Mute
    BY DEF Mute
  <2> QED BY <2>1, OneLine DEF Report
<1>2. Search \in Seq(Mute)
  BY <1>1, ConcatProperties DEF Search
<1>3. Search \o Report("complete") \in Seq(Mute)
  BY <1>1, <1>2, ConcatProperties
<1> QED BY <1>1, <1>3, Empty

\* The oks among the reports are those of lines that are through.
Through(reports) ==
    \A i \in 1..Len(reports) :
       reports[i].what = "ok" => reports[i].id \in Nat \ {0} /\ ~Underway(reports[i].id)

LEMMA ReturnThrough ==
    ASSUME NEW line \in Lines, NEW reports \in Seq(Mute), Return(line, reports),
           lastStarted' = line.id
    PROVE  Through(printed)'
<1> DEFINE ok == Ok(line)
<1>1. ok.what = "ok" /\ ok.id = line.id /\ line.id \in Nat \ {0}
  BY DEF Ok, Lines
<1>2. printed' = Append(reports, ok) /\ running' = NoLine
  BY DEF Return
<1> HIDE DEF ok
<1>3. reports \in Seq({reports[i] : i \in 1..Len(reports)} \cup {ok})
  BY LenProperties, IsASeq
<1>4. /\ Len(printed') = Len(reports) + 1 /\ Len(reports) \in Nat
      /\ \A i \in 1..Len(reports) : printed'[i] = reports[i]
      /\ printed'[Len(reports) + 1] = ok
  BY <1>2, <1>3, AppendProperties
<1> SUFFICES ASSUME NEW i \in 1..Len(printed'), printed'[i].what = "ok"
             PROVE  /\ printed'[i].id \in Nat \ {0} /\ ~(printed'[i].id > lastStarted')
                    /\ running'.id # printed'[i].id
  BY DEF Through, Underway
<1>5. CASE i \in 1..Len(reports)
  <2>1. reports[i] \in Mute
    BY <1>5, ElementOfSeq
  <2> QED BY <1>4, <1>5, <2>1 DEF Mute
<1>6. CASE i = Len(reports) + 1
  BY <1>1, <1>2, <1>4, <1>6 DEF NoLine
<1> QED BY <1>4, <1>5, <1>6

\* A step of the Mega, or of the page on it.
QueueStep ==
    Firmware \/ Accident \/ PageWrites \/ PageQuiet \/ Restarts \/ UNCHANGED queueVars

\* The started lines grow in number, and what runs is the last of them.
LEMMA QueueAdvances ==
    ASSUME QueueTypeOK, QueueOrder, QueueStep
    PROVE  /\ lastStarted' \in Nat /\ lastStarted <= lastStarted'
           /\ \/ running' \in {running, NoLine}
              \/ lastStarted < lastStarted' /\ running'.id = lastStarted'
<1>0. lastStarted \in Nat
  BY DEF QueueTypeOK
<1>1. CASE Firmware
  <2>1. CASE FetchLine \/ RotorStops \/ Die \/ Boots
    BY <1>0, <2>1 DEF FetchLine, RotorStops, Die, Boots, queueVars
  <2>2. CASE Ending
    BY <1>0, <2>2, EndingQueue DEF Return
  <2>3. ASSUME NEW line, Immediate(line)
        PROVE  lastStarted' \in Nat /\ lastStarted <= lastStarted' /\ running' = NoLine
    <3>1. lastStarted < line.id /\ lastStarted' = line.id /\ line \in Lines
      BY <2>3, ImmediateQueue, DispatchedLine
    <3> QED BY <1>0, <2>3, <3>1, ImmediateQueue DEF Return, Lines
  <2>4. ASSUME NEW line, Beginning(line)
        PROVE  /\ lastStarted' \in Nat /\ lastStarted < lastStarted'
               /\ running'.id = lastStarted'
    <3>1. lastStarted < line.id /\ lastStarted' = line.id /\ line \in Lines /\ running' = line
      BY <2>4, DispatchedLine DEF Beginning, Begin
    <3> QED BY <3>1 DEF Lines
  <2> QED BY <1>0, <1>1, <2>1, <2>2, <2>3, <2>4, FirmwareSteps
<1>2. CASE Accident \/ PageWrites \/ PageQuiet \/ Restarts \/ UNCHANGED queueVars
  BY <1>0, <1>2 DEF Accident, PowerLoss, Die, Restarts, PageWrites, PageQuiet, Write, queueVars
<1> QED BY <1>1, <1>2 DEF QueueStep

LEMMA StaysThrough ==
    ASSUME QueueTypeOK, QueueOrder, QueueStep, NEW id \in Nat \ {0}, ~Underway(id)
    PROVE  ~Underway(id)'
<1>1. /\ lastStarted' \in Nat /\ lastStarted <= lastStarted' /\ lastStarted \in Nat
      /\ \/ running' \in {running, NoLine}
         \/ lastStarted < lastStarted' /\ running'.id = lastStarted'
  BY QueueAdvances DEF QueueTypeOK
<1>2. id <= lastStarted /\ running.id # id
  BY <1>1 DEF Underway
<1>3. NoLine.id = 0
  BY DEF NoLine
<1>4. running'.id # id
  BY <1>1, <1>2, <1>3
<1>5. ~(id > lastStarted')
  BY <1>1, <1>2
<1> QED BY <1>4, <1>5 DEF Underway

\* What the Mega prints with an ok in it is about a line that is through.
LEMMA PrintsThrough ==
    ASSUME QueueTypeOK, QueueOrder, Firmware \/ Accident
    PROVE  Through(printed)'
<1>1. CASE Accident \/ FetchLine \/ RotorStops \/ Die \/ Boots
  <2>1. \/ printed' = <<>>
        \/ \E what \in {"lost", "halted", "start"} : printed' = Report(what)
    BY <1>1 DEF Accident, PowerLoss, Die, Restarts, FetchLine, Fetch, RotorStops, Boots, Quiet
  <2>2. \A i \in 1..Len(printed') : printed'[i].what # "ok"
    BY <2>1 DEF Report
  <2> QED BY <2>2 DEF Through
<1>2. CASE Ending
  <2>1. \E reports \in Seq(Mute) : Ended(reports)
    BY <1>2, MuteReports DEF Ending, MoveEnds, HomingEnds, SpinEnds
  <2>2. running \in Lines /\ lastStarted' = running.id
    <3>1. running # NoLine /\ UNCHANGED lastStarted
      BY <1>2, EndingQueue
    <3>2. running \in Lines
      BY <3>1 DEF QueueTypeOK
    <3> QED BY <3>1, <3>2 DEF QueueOrder, Lines
  <2> QED BY <2>1, <2>2, ReturnThrough DEF Ended
<1>3. ASSUME NEW line, Immediate(line)
      PROVE  Through(printed)'
  <2>1. PICK reports \in Seq(Mute) : Done(line, reports)
    BY <1>3, MuteReports DEF Immediate, Refuse, SwitchRelay, SetMode, MoveLid, Remark
  <2>2. Dispatch(line) /\ Return(line, reports)
    BY <2>1 DEF Done
  <2> QED BY <2>2, DispatchedLine, ReturnThrough
<1>4. ASSUME NEW line, Beginning(line)
      PROVE  Through(printed)'
  <2>1. printed' \in {Report("spin"), Report("homing"), <<>>}
    BY <1>4 DEF Beginning, Begin
  <2>2. \A i \in 1..Len(printed') : printed'[i].what # "ok"
    BY <2>1 DEF Report
  <2> QED BY <2>2 DEF Through
<1> QED BY <1>1, <1>2, <1>3, <1>4, FirmwareSteps

LEMMA LinkThrough ==
    ASSUME QueueTypeOK, QueueOrder, QueueStep, Through(link),
           link \in Seq(Reports), printed' \in Seq(Reports),
           \/ link' = link \/ link' = <<>> \/ (link # <<>> /\ link' = Tail(link))
           \/ link' = link \o printed' /\ Through(printed)'
    PROVE  Through(link)'
<1> DEFINE IsThrough(report) == report.what = "ok" => /\ report.id \in Nat \ {0}
                                                      /\ ~(report.id > lastStarted')
                                                      /\ running'.id # report.id
<1>1. \A i \in 1..Len(link) : IsThrough(link[i])
  <2> SUFFICES ASSUME NEW i \in 1..Len(link), link[i].what = "ok",
                      NEW id, id = link[i].id
               PROVE  id \in Nat \ {0} /\ ~Underway(id)'
    BY DEF Underway
  <2>1. id \in Nat \ {0} /\ ~Underway(id)
    BY DEF Through
  <2> QED BY <2>1, StaysThrough
<1>2. (\A i \in 1..Len(link') : IsThrough(link'[i])) => Through(link)'
  BY DEF Through, Underway
<1>3. Through(printed)' => \A i \in 1..Len(printed') : IsThrough(printed'[i])
  BY DEF Through, Underway
<1> HIDE DEF IsThrough
<1>4. CASE link' = link
  BY <1>1, <1>2, <1>4
<1>5. CASE link' = <<>>
  BY <1>2, <1>5
<1>6. CASE link # <<>> /\ link' = Tail(link)
  <2>1. \A i \in 1..Len(link') : i + 1 \in 1..Len(link) /\ link'[i] = link[i + 1]
    BY <1>6, StepTail
  <2> QED BY <1>1, <1>2, <2>1
<1>7. CASE link' = link \o printed' /\ Through(printed)'
  <2> DEFINE p == printed'
  <2>1. p \in Seq(Reports) /\ link' = link \o p /\ \A i \in 1..Len(p) : IsThrough(p[i])
    BY <1>3, <1>7
  <2> HIDE DEF p
  <2>2. /\ Len(link') = Len(link) + Len(p) /\ Len(link) \in Nat /\ Len(p) \in Nat
        /\ \A i \in 1..Len(link') : link'[i] = IF i <= Len(link) THEN link[i] ELSE p[i - Len(link)]
    BY <2>1, ConcatProperties
  <2>3. ASSUME NEW i \in 1..Len(link') PROVE IsThrough(link'[i])
    <3>1. CASE i <= Len(link)
      <4>1. i \in 1..Len(link) /\ link'[i] = link[i]
        BY <2>2, <3>1
      <4> QED BY <1>1, <4>1
    <3>2. CASE i > Len(link)
      <4>1. i - Len(link) \in 1..Len(p) /\ link'[i] = p[i - Len(link)]
        BY <2>2, <3>2
      <4> QED BY <2>1, <4>1
    <3> QED BY <2>2, <3>1, <3>2
  <2> QED BY <1>2, <2>3
<1> QED BY <1>4, <1>5, <1>6, <1>7

LEMMA PageLink ==
    ASSUME PageStep
    PROVE  link' = link \/ link' = <<>> \/ (link # <<>> /\ link' = Tail(link))
<1>1. CASE Pressed
  BY <1>1, PressedSends
<1>2. CASE HandleLine
  BY <1>2 DEF HandleLine
<1>3. CASE Disconnect \/ Connect \/ EmergencyStop \/ Stop \/ Timeout
  BY <1>3 DEF Disconnect, Connect, EmergencyStop, Stop, Timeout, NothingSent, SendAll
<1>4. CASE StartRun \/ StepDone \/ SleepEnds \/ Unwind
  BY <1>4 DEF StartRun, StepDone, SleepEnds, Unwind, SendOwed, SendAll, NothingSent
<1>5. CASE Advance
  BY <1>5 DEF Advance, NextBlock, Check, Command, EndRun, SendStep, SendAwaited, NothingSent
<1> QED BY <1>1, <1>2, <1>3, <1>4, <1>5 DEF PageStep, Run, Operator, Buttons, Pressed

\* What a step of either run does to the queue and to the cable.
LEMMA RunnerQueue ==
    ASSUME Sound, RunnerTypeOK, Through(link), [RunnerNext]_pageVars
    PROVE  QueueStep /\ Through(link)'
<1>0. QueueTypeOK /\ QueueOrder /\ link \in Seq(Reports)
  BY DEF Sound, TypeOK, CellTypeOK
<1>1. printed' \in Seq(Reports)
  BY RunnerSoundStep DEF Sound, TypeOK, CellTypeOK, QueueTypeOK
<1>2. CASE Machine \/ Accidents
  <2>1. QueueStep /\ Through(printed)'
    BY <1>0, <1>2, PrintsThrough DEF QueueStep, Machine, Accidents
  <2>2. link' = link \o printed' \/ link' = <<>>
    BY <1>2 DEF Machine, Accidents, Firmware, Accident, Transmit
  <2> QED BY <1>0, <1>1, <2>1, <2>2, LinkThrough
<1>3. CASE PageStep
  <2>1. QueueStep
    BY <1>3, PageEffect DEF Sound, QueueStep
  <2> QED BY <1>0, <1>1, <1>3, <2>1, PageLink, LinkThrough
<1>4. CASE OwnStep
  <2>1. QueueStep /\ link' = link
    BY <1>4, OwnEffect DEF RunnerTypeOK, QueueStep, SequencerIdles
  <2> QED BY <1>0, <1>1, <2>1, LinkThrough
<1>5. CASE UNCHANGED pageVars
  <2>1. UNCHANGED queueVars /\ link' = link
    BY <1>5 DEF pageVars, vars, machine
  <2>2. QueueStep
    BY <2>1 DEF QueueStep
  <2> QED BY <1>0, <1>1, <2>1, <2>2, LinkThrough
<1>6. SharedStep => Machine \/ Accidents \/ PageStep
  BY DEF SharedStep, PageStep, Operator
<1> QED BY <1>2, <1>3, <1>4, <1>5, <1>6, RunnerSteps

\* The line that the run has sent last is the one it waits for, until it is
\* answered, and then that line is through.
LastInv ==
    /\ prog = "off" => last = 0
    /\ awaits # 0 => last = awaits
    /\ sending = "timer" => last = 0
    /\ last # 0 /\ (awaits = 0 \/ sending = "answered") => mistaken \/ ~Underway(last)

FlightInv == LastInv /\ Through(link)

LEMMA LastStep ==
    ASSUME Sound, RunnerTypeOK, FlightInv, [RunnerNext]_pageVars
    PROVE  LastInv'
<1>1. QueueTypeOK /\ QueueOrder /\ QueueStep /\ Through(link) /\ last \in Nat /\ awaits \in Nat
  BY RunnerQueue DEF FlightInv, Sound, TypeOK, CellTypeOK, RunnerTypeOK
<1>2. last # 0 /\ ~Underway(last) /\ last' = last => ~Underway(last)'
  <2>1. ASSUME NEW n, n = last, n # 0, ~Underway(n) PROVE ~Underway(n)'
    BY <1>1, <2>1, StaysThrough
  <2> QED BY <2>1 DEF Underway
<1>3. LastInv
  BY DEF FlightInv
<1>4. CASE ProgStop
  BY <1>4 DEF ProgStop, LastInv
<1>5. CASE UNCHANGED progVars
  <2>1. UNCHANGED <<prog, awaits, sending, last, mistaken>>
    BY <1>5 DEF progVars
  <2> QED BY <1>2, <1>3, <2>1, Zenon DEF LastInv
<1>6. CASE ProgSendNext
  <2>1. CASE \E wait \in BOOLEAN : ProgSend(wait)
    <3>1. PICK wait \in BOOLEAN : ProgSend(wait)
      BY <2>1
    <3>2. /\ prog' = "on" /\ last' = awaits' /\ awaits' = IF wait THEN sent + 1 ELSE 0
          /\ sending' = IF wait THEN "no" ELSE "timer"
      BY <3>1 DEF ProgSend
    <3>3. sent \in Nat
      BY <1>1 DEF QueueTypeOK
    <3> QED BY <3>2, <3>3 DEF LastInv
  <2>2. CASE prog = "paused" /\ sending' = "no" /\ UNCHANGED <<prog, awaits, last, mistaken>>
    <3>1. sending # "answered"
      BY <1>6 DEF ProgSendNext
    <3> QED BY <1>2, <1>3, <2>2, <3>1, Zenon DEF LastInv
  <2> QED BY <1>4, <1>6, <2>1, <2>2 DEF ProgSendNext
<1>7. CASE ProgOnOk
  <2>1. /\ sending = "answered" /\ awaits' = 0 /\ sending' \in {"now", "no"}
        /\ UNCHANGED <<prog, last, mistaken>>
    BY <1>7 DEF ProgOnOk
  <2> QED BY <1>2, <1>3, <2>1 DEF LastInv
<1>8. CASE ProgRun
  BY <1>8 DEF ProgRun, LastInv
<1>9. CASE ProgPause
  <2>1. prog # "off" /\ prog' # "off" /\ UNCHANGED <<awaits, sending, last, mistaken>>
    BY <1>9 DEF ProgPause
  <2> QED BY <1>2, <1>3, <2>1, Zenon DEF LastInv
<1>10. CASE ProgResume
  <2>1. prog' # "off" /\ UNCHANGED <<awaits, last, mistaken>> /\ sending' \in {sending, "now"}
    BY <1>10 DEF ProgResume
  <2> QED BY <1>2, <1>3, <2>1 DEF LastInv
<1>11. CASE HandleLine /\ ProgHears
  <2> DEFINE heard == Head(link)
             own == heard.what = "ok" /\ ledger # <<>> /\ Answers(Head(ledger))
  <2>1. CASE own /\ ~ProgStop
    <3>1. /\ UNCHANGED <<prog, awaits, last>> /\ sending' = "answered"
          /\ mistaken' = (mistaken \/ (own /\ Head(ledger) = -1 - awaits /\ heard.id # awaits))
      BY <1>11, <2>1 DEF ProgHears
    <3>2. awaits # 0 /\ last = awaits /\ Head(ledger) = -1 - awaits
      BY <1>3, <2>1 DEF Answers, LastInv
    <3>3. mistaken' \/ heard.id = last
      BY <2>1, <3>1, <3>2
    <3>4. heard.id = last => ~Underway(last)
      <4>1. heard = link[1] /\ 1 \in 1..Len(link)
        <5>1. link # <<>> /\ link \in Seq(Reports)
          BY <1>11 DEF HandleLine, Sound, TypeOK, CellTypeOK
        <5> QED BY <5>1, LenProperties, EmptySeq, StepTail
      <4> QED BY <1>1, <2>1, <4>1 DEF Through
    <3>5. prog # "off"
      BY <3>2 DEF RunnerTypeOK
    <3> QED BY <1>2, <3>1, <3>2, <3>3, <3>4, <3>5 DEF LastInv
  <2>2. CASE ~own /\ ~ProgStop
    <3>1. UNCHANGED <<prog, awaits, sending, last>> /\ (mistaken => mistaken')
      BY <1>11, <2>2 DEF ProgHears
    <3> QED BY <1>2, <1>3, <3>1, Zenon DEF LastInv
  <2> QED BY <1>4, <2>1, <2>2
<1> QED BY <1>4, <1>5, <1>6, <1>7, <1>8, <1>9, <1>10, <1>11, RunnerSteps
   DEF OwnStep, SharedStep, ProgStopButton, pageVars

\* A run of a program waits for no more than one line, and goes on only when that
\* line is through.
LEMMA MovesOnThrough ==
    ASSUME Sound, RunnerTypeOK, FlightInv, [RunnerNext]_pageVars, last # 0, MovesOn
    PROVE  ~Underway(last) \/ mistaken
<1>1. LastInv /\ prog # "off"
  BY DEF FlightInv, LastInv
<1>2. sending = "now"
  <2>1. CASE prog' = "off"
    BY <2>1 DEF MovesOn
  <2>2. CASE prog' # "off" /\ lines' # lines
    <3>1. CASE ProgSendNext
      <4>1. sending # "timer"
        BY <1>1 DEF LastInv
      <4> QED BY <3>1, <4>1 DEF ProgSendNext
    <3>2. CASE OwnStep /\ ~ProgSendNext
      BY <1>1, <2>2, <3>2 DEF OwnStep, ProgOnOk, ProgRun, ProgPause, ProgStopButton, ProgStop,
         ProgResume
    <3>3. CASE SharedStep \/ UNCHANGED pageVars
      BY <2>2, <3>3 DEF SharedStep, pageVars, progVars, ProgHears, ProgStop
    <3> QED BY <3>1, <3>2, <3>3, RunnerSteps
  <2> QED BY <2>1, <2>2 DEF MovesOn
<1>3. awaits = 0
  BY <1>2 DEF RunnerTypeOK
<1> QED BY <1>1, <1>3 DEF LastInv

LEMMA FlightInit == RunnerInit => FlightInv
<1> SUFFICES ASSUME RunnerInit PROVE FlightInv
  OBVIOUS
<1>1. last = 0 /\ awaits = 0 /\ sending = "no" /\ link = <<>>
  BY DEF RunnerInit, Init, CellInit
<1> QED BY <1>1 DEF FlightInv, LastInv, Through

\* The runner sends the line that follows one it waited for, and says Complete,
\* only when the Mega has carried that line out: neither Resume nor the late ok of
\* a stopped run puts a second line in flight, unless a loss has put the oks out of
\* step with the ledger.
THEOREM RunnerOneLine == RunnerSpec => OneLineInFlight
<1>1. RunnerInit => Sound /\ RunnerTypeOK /\ FlightInv
  BY RunnerTypesInit, FlightInit
<1>2. Sound /\ RunnerTypeOK /\ FlightInv /\ [RunnerNext]_pageVars
         => Sound' /\ RunnerTypeOK' /\ FlightInv'
  BY RunnerTypesStep, RunnerSoundStep, LastStep, RunnerQueue DEF FlightInv
<1>3. Sound /\ RunnerTypeOK /\ FlightInv /\ [RunnerNext]_pageVars
         => [last # 0 /\ MovesOn => ~Underway(last) \/ mistaken]_pageVars
  BY MovesOnThrough
<1> QED BY <1>1, <1>2, <1>3, PTL DEF RunnerSpec, OneLineInFlight
=============================================================================
