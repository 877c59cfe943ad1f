---------------------------- MODULE WorkcellProofs ----------------------------
(* The Mega as the Process Sequencer meets it keeps its types and the order  *)
(* of its lines, whatever lines are written to it and whatever goes wrong.   *)
EXTENDS Workcell, GcodeQueueProofs

\* The lines of one write, numbered on from those sent before.
Written(kinds) == [i \in 1..Len(kinds) |-> [id |-> sent + i, kind |-> kinds[i]]]

LEMMA WrittenLines ==
    ASSUME NEW kinds \in Seq(Kinds), sent \in Nat
    PROVE  /\ Written(kinds) \in Seq(Lines) /\ Len(Written(kinds)) = Len(kinds)
           /\ \A i \in 1..Len(kinds) :
                 /\ Written(kinds)[i].id = sent + i /\ Written(kinds)[i].kind = kinds[i]
                 /\ Written(kinds)[i] \in Lines
<1>1. \A i \in 1..Len(kinds) : [id |-> sent + i, kind |-> kinds[i]] \in Lines
  BY DEF Lines
<1>2. Len(kinds) \in Nat
  OBVIOUS
<1>3. Written(kinds) \in [1..Len(kinds) -> Lines]
  BY <1>1 DEF Written
<1>4. Written(kinds) \in Seq(Lines) /\ Len(Written(kinds)) = Len(kinds)
  BY <1>2, <1>3, IsASeq, LenProperties
<1>5. \A i \in 1..Len(kinds) : Written(kinds)[i] = [id |-> sent + i, kind |-> kinds[i]]
  BY DEF Written
<1>6. \A i \in 1..Len(kinds) :
         /\ Written(kinds)[i].id = sent + i /\ Written(kinds)[i].kind = kinds[i]
         /\ Written(kinds)[i] \in Lines
  <2> TAKE i \in 1..Len(kinds)
  <2>1. Written(kinds)[i] = [id |-> sent + i, kind |-> kinds[i]]
    BY <1>5
  <2>2. [id |-> sent + i, kind |-> kinds[i]] \in Lines
    BY <1>1
  <2> QED BY <2>1, <2>2
<1> QED BY <1>4, <1>6

\* What a write adds to the receive buffer: lines with new numbers.
LEMMA WriteAdds ==
    ASSUME QueueTypeOK, NEW kinds \in Seq(Kinds), Write(kinds), mega # "booting"
    PROVE  /\ rx' \in Seq(Lines) /\ Len(rx') = Len(rx) + Len(kinds)
           /\ \A j \in 1..Len(rx) : rx'[j] = rx[j]
           /\ \A i \in 1..Len(kinds) :
                 /\ rx'[Len(rx) + i].id = sent + i /\ rx'[Len(rx) + i].kind = kinds[i]
<1>1. rx' = rx \o Written(kinds) /\ rx \in Seq(Lines) /\ sent \in Nat
  BY DEF Write, Written, QueueTypeOK
<1>2. Written(kinds) \in Seq(Lines) /\ Len(Written(kinds)) = Len(kinds)
  BY <1>1, WrittenLines
<1>3. /\ rx' \in Seq(Lines) /\ Len(rx') = Len(rx) + Len(kinds)
      /\ \A j \in 1..Len(rx) : rx'[j] = rx[j]
      /\ \A i \in 1..Len(kinds) : rx'[Len(rx) + i] = Written(kinds)[i]
  <2> DEFINE w == Written(kinds)
  <2>0. w \in Seq(Lines) /\ Len(w) = Len(kinds) /\ rx' = rx \o w
    BY <1>1, <1>2
  <2> HIDE DEF w
  <2>1. /\ rx' \in Seq(Lines) /\ Len(rx') = Len(rx) + Len(w)
        /\ \A j \in 1..Len(rx) : rx'[j] = rx[j]
        /\ \A i \in 1..Len(w) : rx'[Len(rx) + i] = w[i]
    <3>1. rx \o w \in Seq(Lines) /\ Len(rx \o w) = Len(rx) + Len(w)
      BY <1>1, <2>0, ConcatProperties
    <3>2. \A i \in 1..Len(rx) + Len(w) :
             (rx \o w)[i] = IF i <= Len(rx) THEN rx[i] ELSE w[i - Len(rx)]
      BY <1>1, <2>0, ConcatProperties
    <3>3. Len(rx) \in Nat /\ Len(w) \in Nat
      BY <1>1, <2>0
    <3>4. \A j \in 1..Len(rx) : j \in 1..Len(rx) + Len(w) /\ j <= Len(rx)
      BY <3>3
    <3>5. \A i \in 1..Len(w) : /\ Len(rx) + i \in 1..Len(rx) + Len(w)
                               /\ ~(Len(rx) + i <= Len(rx))
                               /\ Len(rx) + i - Len(rx) = i
      BY <3>3
    <3> QED BY <2>0, <3>1, <3>2, <3>4, <3>5
  <2> QED BY <2>0, <2>1 DEF w
<1> QED BY <1>1, <1>3, WrittenLines

LEMMA WriteQueue ==
    ASSUME QueueTypeOK, QueueOrder, NEW kinds \in Seq(Kinds), Write(kinds)
    PROVE  QueueTypeOK' /\ QueueOrder'
<1>1. /\ sent' = sent + Len(kinds) /\ UNCHANGED <<ring, running, lastStarted>> /\ printed' = <<>>
      /\ Len(rx') <= RxLines
  BY DEF Write, Quiet
<1>2. sent \in Nat /\ lastStarted \in Nat /\ Len(kinds) \in Nat /\ Len(rx) \in Nat
  BY DEF QueueTypeOK
<1>3. CASE mega = "booting"
  <2>1. rx' = rx
    BY <1>3 DEF Write
  <2>2. \A j \in 1..Len(rx) : rx[j].id \in Nat
    BY LineTypes
  <2>3. \A i \in 1..Len(ring) : ring[i].id \in Nat
    BY LineTypes
  <2>4. QueueTypeOK'
    BY <1>1, <1>2, <2>1 DEF QueueTypeOK
  <2>5. sent <= sent' /\ lastStarted <= sent'
    BY <1>1, <1>2 DEF QueueOrder
  <2>6. \A j \in 1..Len(rx) : lastStarted < rx[j].id /\ rx[j].id <= sent'
    BY <1>1, <1>2, <2>2 DEF QueueOrder
  <2>7. \A i \in 1..Len(ring) : ring[i].id <= sent'
    BY <1>1, <1>2, <2>3 DEF QueueOrder
  <2> QED BY <1>1, <2>1, <2>4, <2>5, <2>6, <2>7 DEF QueueOrder, Ascending
<1>4. CASE mega # "booting"
  <2>1. /\ rx' \in Seq(Lines) /\ Len(rx') = Len(rx) + Len(kinds)
        /\ \A j \in 1..Len(rx) : rx'[j] = rx[j]
        /\ \A i \in 1..Len(kinds) : rx'[Len(rx) + i].id = sent + i
    BY <1>4, WriteAdds
  <2>2. \A j \in 1..Len(rx') :
           \/ j \in 1..Len(rx) /\ rx'[j] = rx[j]
           \/ j - Len(rx) \in 1..Len(kinds) /\ rx'[j].id = sent + (j - Len(rx))
    <3> TAKE j \in 1..Len(rx')
    <3>1. CASE j <= Len(rx)
      BY <1>2, <2>1, <3>1
    <3>2. CASE j > Len(rx)
      <4>1. j - Len(rx) \in 1..Len(kinds) /\ Len(rx) + (j - Len(rx)) = j
        BY <1>2, <2>1, <3>2
      <4> QED BY <2>1, <4>1
    <3> QED BY <1>2, <3>1, <3>2
  <2>3. \A j \in 1..Len(rx) : rx[j].id \in Nat /\ lastStarted < rx[j].id /\ rx[j].id <= sent
    BY LineTypes DEF QueueOrder
  <2>4. \A i \in 1..Len(ring) : ring[i].id \in Nat /\ ring[i].id <= sent
    BY LineTypes DEF QueueOrder
  <2>5. Ascending(rx')
    <3> SUFFICES ASSUME NEW i \in 1..Len(rx'), NEW j \in 1..Len(rx'), i < j
                 PROVE  rx'[i].id < rx'[j].id
      BY DEF Ascending
    <3>1. CASE i \in 1..Len(rx) /\ j \in 1..Len(rx)
      BY <2>1, <3>1 DEF QueueOrder, Ascending
    <3>2. CASE i \in 1..Len(rx) /\ j \notin 1..Len(rx)
      <4>1. rx'[i].id \in Nat /\ rx'[i].id <= sent
        BY <2>1, <2>3, <3>2
      <4>2. rx'[j].id = sent + (j - Len(rx)) /\ j - Len(rx) \in 1..Len(kinds)
        BY <2>2, <3>2
      <4> QED BY <1>2, <4>1, <4>2
    <3>3. CASE i \notin 1..Len(rx)
      <4>1. j \notin 1..Len(rx)
        BY <1>2, <3>3
      <4>2. rx'[i].id = sent + (i - Len(rx)) /\ rx'[j].id = sent + (j - Len(rx))
        BY <2>2, <3>3, <4>1
      <4> QED BY <1>2, <2>1, <4>2
    <3> QED BY <3>1, <3>2, <3>3
  <2>6. \A j \in 1..Len(rx') : lastStarted < rx'[j].id /\ rx'[j].id <= sent'
    <3> TAKE j \in 1..Len(rx')
    <3>1. CASE j \in 1..Len(rx) /\ rx'[j] = rx[j]
      BY <1>1, <1>2, <2>3, <3>1
    <3>2. CASE j - Len(rx) \in 1..Len(kinds) /\ rx'[j].id = sent + (j - Len(rx))
      BY <1>1, <1>2, <3>2 DEF QueueOrder
    <3> QED BY <2>2, <3>1, <3>2
  <2>7. \A i \in 1..Len(ring), j \in 1..Len(rx') : ring[i].id < rx'[j].id
    <3> TAKE i \in 1..Len(ring), j \in 1..Len(rx')
    <3>1. CASE j \in 1..Len(rx) /\ rx'[j] = rx[j]
      BY <3>1 DEF QueueOrder
    <3>2. CASE j - Len(rx) \in 1..Len(kinds) /\ rx'[j].id = sent + (j - Len(rx))
      BY <1>2, <2>4, <3>2
    <3> QED BY <2>2, <3>1, <3>2
  <2>8. QueueTypeOK'
    BY <1>1, <1>2, <2>1 DEF QueueTypeOK
  <2>9. lastStarted <= sent' /\ running.id \in {0, lastStarted} /\ Ascending(ring)
    BY <1>1, <1>2 DEF QueueOrder
  <2>10. \A i \in 1..Len(ring) : ring[i].id <= sent'
    BY <1>1, <1>2, <2>4
  <2>11. \A i \in 1..Len(ring) : lastStarted < ring[i].id \/ (i = 1 /\ ring[1] = running)
    BY DEF QueueOrder
  <2>12. Ascending(ring)'
    BY <1>1, <2>9 DEF Ascending
  <2> QED BY <1>1, <2>5, <2>6, <2>7, <2>8, <2>9, <2>10, <2>11, <2>12 DEF QueueOrder
<1> QED BY <1>3, <1>4

-----------------------------------------------------------------------------
(* The steps of the Mega, by what they do to the queue.                     *)

\* A handler that returns at once; one that starts to wait; one that waited.
Immediate(line) ==
    /\ mega = "up"
    /\ Refuse(line) \/ SwitchRelay(line) \/ SetMode(line) \/ MoveLid(line) \/ Remark(line)
    /\ UNCHANGED <<sent, rx, mega>>
Beginning(line) == mega = "up" /\ Begin(line) /\ UNCHANGED <<sent, rx, mega>>
Ending == mega = "up" /\ (MoveEnds \/ HomingEnds \/ SpinEnds) /\ UNCHANGED <<sent, rx, mega>>

LEMMA FirmwareSteps ==
    ASSUME Firmware
    PROVE  \/ FetchLine \/ Ending \/ RotorStops \/ Die \/ Boots
           \/ \E line : Immediate(line) \/ Beginning(line)
<1>1. CASE MainLoop
  BY <1>1 DEF MainLoop, Immediate, Beginning, Ending
<1>2. CASE ActsOnM112
  BY <1>2 DEF ActsOnM112
<1> QED BY <1>1, <1>2 DEF Firmware

LEMMA KindsKnown ==
    /\ "G28" \in Kinds /\ "G28_Z" \in Kinds /\ "M118" \in Kinds /\ "G90" \in Kinds
    /\ "G91" \in Kinds /\ "M280_S115" \in Kinds /\ "M280_S30" \in Kinds
    /\ "M750" \in Kinds /\ "M752" \in Kinds /\ "M410" \in Kinds /\ "M112" \in Kinds
    /\ "G1_X" \in Kinds /\ "G1_B" \in Kinds /\ "G1_C" \in Kinds /\ "G1_B0" \in Kinds
    /\ "G1_Z" \in Kinds /\ "G1_A" \in Kinds
    /\ On("lamp") \in Kinds /\ On("valve") \in Kinds
    /\ Off("lamp") \in Kinds /\ Off("valve") \in Kinds
    /\ \A r \in Relays : On(r) \in Kinds /\ Off(r) \in Kinds
BY WorkcellAssumption DEF AllKinds, Homes, Moves, Distances, Spins, Relays

LEMMA ReportTypes ==
    /\ \A what \in {"lost", "refused", "start", "halted", "marker", "spin", "complete", "homing",
              "indexed"} :
          Report(what) \in Seq(Reports)
    /\ <<>> \in Seq(Reports)
    /\ Search \o Report("complete") \in Seq(Reports)
<1>1. \A what \in {"lost", "refused", "start", "halted", "marker", "spin", "complete", "homing",
              "indexed"} :
         [what |-> what, id |-> 0] \in Reports
  BY DEF Reports
<1>2. /\ Report("homing") \in Seq(Reports) /\ Report("indexed") \in Seq(Reports)
      /\ Report("complete") \in Seq(Reports)
  BY <1>1 DEF Report
<1>3. Search \in Seq(Reports)
  BY <1>2 DEF Search
<1>4. Search \o Report("complete") \in Seq(Reports)
  BY <1>2, <1>3
<1> QED BY <1>1, <1>4 DEF Report

LEMMA ImmediateQueue ==
    ASSUME NEW line, Immediate(line)
    PROVE  /\ Dispatch(line) /\ UNCHANGED <<sent, rx>>
           /\ \E reports \in Seq(Reports) : Return(line, reports)
           /\ thrown' = thrown \ {line.kind}
           /\ line.kind \notin Homes
           /\ line.kind \in Moves => rehome
BY ReportTypes DEF Immediate, Refuse, SwitchRelay, SetMode, MoveLid, Remark, Done, Homes, Moves,
   Distances, On, Off, Relays

LEMMA EndingQueue ==
    ASSUME Ending
    PROVE  /\ running # NoLine /\ UNCHANGED <<sent, rx, lastStarted>>
           /\ \E reports \in Seq(Reports) : Return(running, reports)
           /\ IF ring # <<>> /\ Head(ring) # running THEN Throw(<<Head(ring)>>) ELSE UNCHANGED thrown
<1>1. running # NoLine
  <2>1. running.kind \in Moves \cup Homes \cup Spins
    BY DEF Ending, MoveEnds, HomingEnds, SpinEnds
  <2>2. NoLine.kind = "none"
    BY DEF NoLine
  <2>3. "none" \notin Moves \cup Homes \cup Spins
    BY DEF Homes, Moves, Distances, Spins
  <2> QED BY <2>1, <2>2, <2>3
<1>2. \E reports \in Seq(Reports) : Ended(reports)
  BY ReportTypes DEF Ending, MoveEnds, HomingEnds, SpinEnds
<1> QED BY <1>1, <1>2 DEF Ending, Ended

LEMMA FirmwareQueue ==
    ASSUME QueueTypeOK, QueueOrder, Firmware
    PROVE  QueueTypeOK' /\ QueueOrder'
<1>1. CASE FetchLine
  BY <1>1, FetchQueue DEF FetchLine
<1>2. CASE Ending
  BY <1>2, EndingQueue, ReturnQueue
<1>3. CASE RotorStops \/ Die \/ Boots
  BY <1>3, QuietQueue, ReportTypes DEF RotorStops, Die, Boots, Quiet
<1>4. ASSUME NEW line, Immediate(line) PROVE QueueTypeOK' /\ QueueOrder'
  BY <1>4, ImmediateQueue, DispatchReturnQueue
<1>5. ASSUME NEW line, Beginning(line) PROVE QueueTypeOK' /\ QueueOrder'
  <2>1. Dispatch(line) /\ running' = line /\ printed' \in Seq(Reports) /\ UNCHANGED <<sent, rx, ring>>
    BY <1>5, ReportTypes DEF Beginning, Begin
  <2> QED BY <2>1, DispatchWaitQueue
<1> QED BY <1>1, <1>2, <1>3, <1>4, <1>5, FirmwareSteps

LEMMA RestartsQueue ==
    ASSUME QueueTypeOK, QueueOrder, Restarts
    PROVE  QueueTypeOK' /\ QueueOrder'
<1>1. /\ rx' = <<>> /\ ring' = <<>> /\ Len(rx') = 0 /\ Len(ring') = 0 /\ printed' = <<>>
      /\ running' = NoLine /\ UNCHANGED <<sent, lastStarted>>
  BY DEF Restarts, Quiet
<1>2. QueueTypeOK'
  BY <1>1, BufSizeAssumption, RxAssumption DEF QueueTypeOK
<1>3. QueueOrder'
  BY <1>1 DEF QueueOrder, Ascending, NoLine
<1> QED BY <1>2, <1>3

LEMMA AccidentQueue ==
    ASSUME QueueTypeOK, QueueOrder, Accident
    PROVE  QueueTypeOK' /\ QueueOrder'
<1>1. CASE PowerLoss
  BY <1>1, ClearQueue, ReportTypes DEF PowerLoss
<1>2. CASE Die
  BY <1>2, QuietQueue, ReportTypes DEF Die
<1>3. CASE Restarts
  BY <1>3, RestartsQueue
<1> QED BY <1>1, <1>2, <1>3 DEF Accident

-----------------------------------------------------------------------------
(* The types of the rest of the machine.                                    *)

Flags ==
    /\ known \in BOOLEAN /\ rehome \in BOOLEAN /\ spoilt \in BOOLEAN /\ lifted \in BOOLEAN
    /\ relative \in BOOLEAN
Parts ==
    /\ mega \in {"up", "booting", "halted"}
    /\ lid \in {"open", "closed"} /\ rotor \in {"rest", "turning"}
    /\ relays \subseteq Relays /\ thrown \subseteq Kinds

LEMMA ThrowTypes ==
    ASSUME thrown \subseteq Kinds, NEW lines, Throw(lines)
    PROVE  thrown' \subseteq Kinds
BY KindsKnown DEF Throw

LEMMA EndingFlags == ASSUME Flags, Ending PROVE Flags'
<1>1. CASE MoveEnds
  BY <1>1, Zenon DEF MoveEnds, Flags, cellVars, posVars
<1>2. CASE HomingEnds
  <2>1. UNCHANGED <<spoilt, relative>> /\ rehome' = FALSE
    BY <1>2 DEF HomingEnds
  <2>2. known' = (IF running.kind = "G28" THEN ~spoilt ELSE known)
    BY <1>2 DEF HomingEnds
  <2>3. known' \in BOOLEAN
    BY <2>2 DEF Flags
  <2>4. lifted' = (~known' /\ (lifted \/ rehome))
    BY <1>2 DEF HomingEnds
  <2>5. lifted' \in BOOLEAN
    BY <2>4, Zenon
  <2> QED BY <2>1, <2>3, <2>5, Zenon DEF Flags
<1>3. CASE SpinEnds
  BY <1>3, Zenon DEF SpinEnds, Flags, posVars
<1> QED BY <1>1, <1>2, <1>3 DEF Ending

LEMMA FirmwareFlags == ASSUME Flags, Firmware PROVE Flags'
<1>1. CASE FetchLine \/ RotorStops \/ Die \/ Boots
  BY <1>1, Zenon DEF FetchLine, RotorStops, Die, Boots, Flags, cellVars, posVars
<1>2. CASE Ending
  BY <1>2, EndingFlags
<1>3. ASSUME NEW line, Immediate(line) PROVE Flags'
  <2>1. UNCHANGED posVars
    BY <1>3, Zenon DEF Immediate, Refuse, SwitchRelay, SetMode, MoveLid, Remark, cellVars
  <2>2. relative' = relative \/ relative' \in BOOLEAN
    BY <1>3, Zenon DEF Immediate, Refuse, SwitchRelay, SetMode, MoveLid, Remark, cellVars
  <2> QED BY <2>1, <2>2, Zenon DEF Flags, posVars
<1>4. ASSUME NEW line, Beginning(line) PROVE Flags'
  <2>1. UNCHANGED <<known, rehome, lifted, relative>> /\ spoilt' = (spoilt /\ line.kind \notin Homes)
    BY <1>4, Zenon DEF Beginning, Begin
  <2>2. spoilt' \in BOOLEAN
    BY <2>1, Zenon
  <2> QED BY <2>1, <2>2, Zenon DEF Flags
<1> QED BY <1>1, <1>2, <1>3, <1>4, FirmwareSteps

LEMMA EndingParts == ASSUME Parts, QueueTypeOK, Ending PROVE Parts'
<1>1. thrown' \subseteq Kinds
  BY EndingQueue, ThrowTypes DEF Parts
<1>2. mega' = mega /\ lid' = lid /\ relays' = relays /\ rotor' \in {"rest", rotor}
  BY DEF Ending, MoveEnds, HomingEnds, SpinEnds, cellVars
<1> QED BY <1>1, <1>2 DEF Parts

LEMMA ImmediateParts == ASSUME Parts, NEW line, Immediate(line) PROVE Parts'
<1>1. thrown' \subseteq Kinds
  BY ImmediateQueue DEF Parts
<1>2. mega' = mega /\ rotor' = rotor
  BY DEF Immediate, Refuse, SwitchRelay, SetMode, MoveLid, Remark, cellVars
<1>3. relays' \subseteq Relays
  BY DEF Immediate, Refuse, SwitchRelay, SetMode, MoveLid, Remark, cellVars, Parts
<1>4. lid' \in {lid, "open", "closed"}
  BY DEF Immediate, Refuse, SwitchRelay, SetMode, MoveLid, Remark, cellVars
<1> QED BY <1>1, <1>2, <1>3, <1>4 DEF Parts

LEMMA FirmwareParts == ASSUME Parts, QueueTypeOK, Firmware PROVE Parts'
<1>1. CASE FetchLine \/ RotorStops \/ Die \/ Boots
  BY <1>1 DEF FetchLine, RotorStops, Die, Boots, Parts, cellVars, AllOff
<1>2. ASSUME NEW line, Beginning(line) PROVE Parts'
  BY <1>2 DEF Beginning, Begin, Parts
<1> QED BY <1>1, <1>2, EndingParts, ImmediateParts, FirmwareSteps

LEMMA RestartsBody == ASSUME Parts, Flags, Restarts PROVE Parts' /\ Flags'
<1>1. mega' = "booting" /\ UNCHANGED <<cellVars, thrown>>
  BY DEF Restarts
<1>2. Flags'
  BY <1>1, Zenon DEF Flags, cellVars, posVars
<1> QED BY <1>1, <1>2 DEF Parts, cellVars

LEMMA AccidentBody == ASSUME Parts, Flags, Accident PROVE Parts' /\ Flags'
<1>1. CASE PowerLoss
  <2>1. /\ UNCHANGED <<mega, lid, rotor, relative>> /\ relays' = {}
        /\ known' = FALSE /\ rehome' = TRUE /\ spoilt' = TRUE /\ lifted' = FALSE
        /\ Throw(IF ring # <<>> /\ Head(ring) = running THEN Tail(ring) ELSE ring)
    BY <1>1 DEF PowerLoss, AllOff
  <2>2. thrown' \subseteq Kinds
    BY <2>1, ThrowTypes DEF Parts
  <2>3. Flags'
    BY <2>1, Zenon DEF Flags
  <2> QED BY <2>1, <2>2, <2>3 DEF Parts
<1>2. CASE Die
  <2>1. mega' = "halted" /\ relays' = {} /\ UNCHANGED <<posVars, lid, rotor, relative, thrown>>
    BY <1>2 DEF Die, AllOff
  <2>2. Flags'
    BY <2>1, Zenon DEF Flags, posVars
  <2> QED BY <2>1, <2>2 DEF Parts
<1>3. CASE Restarts
  BY <1>3, RestartsBody
<1> QED BY <1>1, <1>2, <1>3 DEF Accident

\* The cable keeps its types whatever is printed.
LEMMA TransmitTypes ==
    ASSUME link \in Seq(Reports), printed' \in Seq(Reports), Transmit
    PROVE  link' \in Seq(Reports)
BY DEF Transmit

LEMMA FirmwareTypes == ASSUME CellTypeOK, QueueOrder, Firmware PROVE CellTypeOK' /\ QueueOrder'
<1>1. QueueTypeOK' /\ QueueOrder'
  BY FirmwareQueue DEF CellTypeOK
<1>2. Flags' /\ Parts'
  BY FirmwareFlags, FirmwareParts DEF CellTypeOK, Flags, Parts
<1>3. link' \in Seq(Reports)
  BY <1>1, TransmitTypes DEF Firmware, CellTypeOK, QueueTypeOK
<1>4. connected' \in BOOLEAN /\ mishaps' \in 0..MaxMishaps
  BY DEF Firmware, CellTypeOK
<1> QED BY <1>1, <1>2, <1>3, <1>4 DEF CellTypeOK, Flags, Parts

LEMMA MishapTypes ==
    ASSUME mishaps \in 0..MaxMishaps, NEW event, Mishap(event)
    PROVE  mishaps' \in 0..MaxMishaps
BY WorkcellAssumption DEF Mishap

LEMMA AccidentTypes == ASSUME CellTypeOK, QueueOrder, Accident PROVE CellTypeOK' /\ QueueOrder'
<1>1. QueueTypeOK' /\ QueueOrder'
  BY AccidentQueue DEF CellTypeOK
<1>2. Flags' /\ Parts'
  BY AccidentBody DEF CellTypeOK, Flags, Parts
<1>3. link' \in Seq(Reports)
  BY <1>1, TransmitTypes DEF Accident, CellTypeOK, QueueTypeOK
<1>4. mishaps' \in 0..MaxMishaps
  BY MishapTypes DEF Accident, CellTypeOK
<1>5. connected' \in BOOLEAN
  BY DEF Accident, CellTypeOK
<1> QED BY <1>1, <1>2, <1>3, <1>4, <1>5 DEF CellTypeOK, Flags, Parts

\* What the page does to the machine: it writes some lines, or nothing, or it
\* opens the port.
PageWrites == \E kinds \in Seq(Kinds) : Write(kinds)
PageQuiet == Quiet /\ UNCHANGED <<queueVars, mega, cellVars, thrown>>

LEMMA PageTypes ==
    ASSUME CellTypeOK, QueueOrder, PageWrites \/ PageQuiet \/ Restarts,
           connected' \in BOOLEAN, mishaps' \in 0..MaxMishaps, link' \in Seq(Reports)
    PROVE  CellTypeOK' /\ QueueOrder'
<1>1. QueueTypeOK' /\ QueueOrder'
  BY WriteQueue, QuietQueue, RestartsQueue, ReportTypes
     DEF CellTypeOK, PageWrites, PageQuiet, Quiet
<1>2. Flags' /\ Parts'
  <2>1. CASE Restarts
    BY <2>1, RestartsBody DEF CellTypeOK, Flags, Parts
  <2>2. CASE PageWrites \/ PageQuiet
    <3>1. UNCHANGED <<mega, cellVars, thrown>>
      BY <2>2 DEF PageWrites, PageQuiet, Write
    <3>2. Flags'
      BY <3>1, Zenon DEF CellTypeOK, Flags, cellVars, posVars
    <3> QED BY <3>1, <3>2 DEF CellTypeOK, Parts, cellVars
  <2> QED BY <2>1, <2>2
<1> QED BY <1>1, <1>2 DEF CellTypeOK, Flags, Parts
=============================================================================
