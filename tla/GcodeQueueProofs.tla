-------------------------- MODULE GcodeQueueProofs --------------------------
(* The operations of the command queue keep its types and the order of its   *)
(* lines.  Each lemma covers one way in which a step of the firmware touches *)
(* the queue.                                                                *)
EXTENDS GcodeQueue, SequenceTheorems, TLAPS

LEMMA AscendingTail ==
    ASSUME NEW s \in Seq(Lines), s # <<>>, Ascending(s)
    PROVE  /\ Tail(s) \in Seq(Lines) /\ Ascending(Tail(s)) /\ Len(Tail(s)) = Len(s) - 1
           /\ Head(s) = s[1] /\ Head(s) \in Lines
           /\ \A i \in 1..Len(Tail(s)) : Tail(s)[i] = s[i + 1] /\ s[1].id < Tail(s)[i].id
<1>1. /\ Tail(s) \in Seq(Lines) /\ Len(Tail(s)) = Len(s) - 1
      /\ Head(s) \in Lines
      /\ \A i \in 1..Len(Tail(s)) : Tail(s)[i] = s[i + 1]
  BY HeadTailProperties
<1>2. Head(s) = s[1] /\ Len(s) \in Nat \ {0}
  OBVIOUS
<1>3. \A i \in 1..Len(Tail(s)) : i + 1 \in 1..Len(s) /\ 1 \in 1..Len(s) /\ 1 < i + 1
  BY <1>1, <1>2
<1>4. \A i \in 1..Len(Tail(s)) : s[1].id < Tail(s)[i].id
  BY <1>1, <1>3 DEF Ascending
<1>5. Ascending(Tail(s))
  BY <1>1, <1>3 DEF Ascending
<1> QED BY <1>1, <1>2, <1>4, <1>5

LEMMA AscendingAppend ==
    ASSUME NEW s \in Seq(Lines), Ascending(s), NEW line \in Lines,
           \A i \in 1..Len(s) : s[i].id < line.id
    PROVE  /\ Append(s, line) \in Seq(Lines) /\ Ascending(Append(s, line))
           /\ Len(Append(s, line)) = Len(s) + 1
           /\ \A i \in 1..Len(s) : Append(s, line)[i] = s[i]
           /\ Append(s, line)[Len(s) + 1] = line
<1>1. /\ Append(s, line) \in Seq(Lines)
      /\ Len(Append(s, line)) = Len(s) + 1
      /\ \A i \in 1..Len(s) : Append(s, line)[i] = s[i]
      /\ Append(s, line)[Len(s) + 1] = line
  BY AppendProperties
<1>2. Ascending(Append(s, line))
  <2> SUFFICES ASSUME NEW i \in 1..(Len(s) + 1), NEW j \in 1..(Len(s) + 1), i < j
               PROVE  Append(s, line)[i].id < Append(s, line)[j].id
    BY <1>1 DEF Ascending
  <2>1. i \in 1..Len(s) /\ Append(s, line)[i] = s[i]
    BY <1>1
  <2>2. CASE j \in 1..Len(s)
    BY <1>1, <2>1, <2>2 DEF Ascending
  <2>3. CASE j = Len(s) + 1
    BY <1>1, <2>1, <2>3
  <2> QED BY <2>2, <2>3
<1> QED BY <1>1, <1>2

\* A line that the handler lets wait, or that it has done with, is typed.
LEMMA LineTypes ==
    ASSUME QueueTypeOK
    PROVE  /\ NoLine.id = 0 /\ NoLine \notin Lines
           /\ \A line \in Lines : line.id \in Nat /\ line.id > 0 /\ line.kind \in Kinds
           /\ running.id \in Nat
           /\ \A i \in 1..Len(ring) : ring[i] \in Lines
           /\ \A j \in 1..Len(rx) : rx[j] \in Lines
<1>1. NoLine.id = 0 /\ NoLine \notin Lines
  BY DEF NoLine, Lines
<1>2. \A line \in Lines : line.id \in Nat /\ line.id > 0 /\ line.kind \in Kinds
  BY DEF Lines
<1>3. running.id \in Nat
  BY <1>1, <1>2 DEF QueueTypeOK
<1>4. /\ \A i \in 1..Len(ring) : ring[i] \in Lines
      /\ \A j \in 1..Len(rx) : rx[j] \in Lines
  BY ElementOfSeq DEF QueueTypeOK
<1> QED BY <1>1, <1>2, <1>3, <1>4

LEMMA SendLineQueue ==
    ASSUME QueueTypeOK, QueueOrder, NEW kind \in Kinds, SendLine(kind),
           UNCHANGED <<ring, running, lastStarted>>
    PROVE  QueueTypeOK' /\ QueueOrder'
<1> DEFINE line == [id |-> sent + 1, kind |-> kind]
<1>0. line \in Lines /\ line.id = sent + 1
  BY DEF QueueTypeOK, Lines
<1>1. printed' = <<>> /\ sent' = sent + 1 /\ sent \in Nat /\ lastStarted \in Nat
  BY DEF QueueTypeOK, SendLine, Quiet
<1>2. CASE rx' = rx
  BY <1>1, <1>2, LineTypes DEF QueueTypeOK, QueueOrder, Ascending
<1>3. CASE rx' = Append(rx, line) /\ Len(rx) < RxLines
  <2>1. \A j \in 1..Len(rx) : rx[j].id < line.id
    BY <1>0, LineTypes DEF QueueTypeOK, QueueOrder
  <2>2. /\ rx' \in Seq(Lines) /\ Ascending(rx')
        /\ Len(rx') = Len(rx) + 1
        /\ \A j \in 1..Len(rx) : rx'[j] = rx[j]
        /\ rx'[Len(rx) + 1] = line
    BY <1>0, <1>3, <2>1, AscendingAppend DEF QueueTypeOK, QueueOrder
  <2>3. QueueTypeOK'
    BY <1>1, <1>3, <2>2, RxAssumption DEF QueueTypeOK
  <2>4. \A j \in 1..Len(rx') : rx'[j] = line \/ (j \in 1..Len(rx) /\ rx'[j] = rx[j])
    BY <2>2, <1>3 DEF QueueTypeOK
  <2>5. QueueOrder'
    <3>1. Ascending(rx') /\ Ascending(ring')
      BY <2>2 DEF QueueOrder, Ascending
    <3>2. \A j \in 1..Len(rx') : lastStarted' < rx'[j].id /\ rx'[j].id <= sent'
      BY <1>0, <1>1, <2>4, LineTypes DEF QueueOrder
    <3>3. \A i \in 1..Len(ring), j \in 1..Len(rx') : ring[i].id < rx'[j].id
      <4> TAKE i \in 1..Len(ring), j \in 1..Len(rx')
      <4>1. ring[i].id \in Nat /\ ring[i].id <= sent
        BY LineTypes DEF QueueOrder
      <4>2. CASE rx'[j] = line
        BY <1>0, <1>1, <4>1, <4>2
      <4>3. CASE j \in 1..Len(rx) /\ rx'[j] = rx[j]
        BY <4>3 DEF QueueOrder
      <4> QED BY <2>4, <4>2, <4>3
    <3>4. \A i \in 1..Len(ring) : ring[i].id <= sent'
      BY <1>1, LineTypes DEF QueueOrder
    <3> QED BY <1>1, <3>1, <3>2, <3>3, <3>4 DEF QueueOrder
  <2> QED BY <2>3, <2>5
<1>4. (rx' = Append(rx, line) /\ Len(rx) < RxLines) \/ rx' = rx
  BY DEF SendLine, Arrive
<1> QED BY <1>2, <1>3, <1>4

LEMMA FetchQueue ==
    ASSUME QueueTypeOK, QueueOrder, Fetch, UNCHANGED <<sent, running, lastStarted>>
    PROVE  QueueTypeOK' /\ QueueOrder'
<1> DEFINE line == rx[1]
<1>1. /\ rx # <<>> /\ Len(ring) < BufSize /\ printed' = <<>>
      /\ ring' = Append(ring, Head(rx)) /\ rx' = Tail(rx)
  BY DEF Fetch, Quiet
<1>2. /\ rx' \in Seq(Lines) /\ Ascending(rx') /\ Len(rx') = Len(rx) - 1
      /\ Head(rx) = line /\ line \in Lines
      /\ \A j \in 1..Len(rx') : rx'[j] = rx[j + 1] /\ line.id < rx'[j].id
  BY <1>1, AscendingTail DEF QueueTypeOK, QueueOrder
<1>3. Len(rx) \in Nat \ {0} /\ 1 \in 1..Len(rx)
  BY <1>1 DEF QueueTypeOK
<1>4. \A i \in 1..Len(ring) : ring[i].id < line.id
  BY <1>3 DEF QueueOrder
<1>5. /\ ring' \in Seq(Lines) /\ Ascending(ring')
      /\ Len(ring') = Len(ring) + 1
      /\ \A i \in 1..Len(ring) : ring'[i] = ring[i]
      /\ ring'[Len(ring) + 1] = line
  BY <1>1, <1>2, <1>4, AscendingAppend DEF QueueTypeOK, QueueOrder
<1>6. \A i \in 1..Len(ring') : ring'[i] = line \/ (i \in 1..Len(ring) /\ ring'[i] = ring[i])
  BY <1>5 DEF QueueTypeOK
<1>7. QueueTypeOK'
  BY <1>1, <1>2, <1>3, <1>5, BufSizeAssumption, RxAssumption DEF QueueTypeOK
<1>8. lastStarted < line.id /\ line.id <= sent
  BY <1>3 DEF QueueOrder
<1>9. QueueOrder'
  <2>1. \A j \in 1..Len(rx') : rx'[j].id = rx[j + 1].id /\ j + 1 \in 1..Len(rx)
    BY <1>2, <1>3
  <2>2. \A j \in 1..Len(rx') : lastStarted' < rx'[j].id /\ rx'[j].id <= sent'
    BY <2>1 DEF QueueOrder
  <2>3. \A i \in 1..Len(ring'), j \in 1..Len(rx') : ring'[i].id < rx'[j].id
    <3> TAKE i \in 1..Len(ring'), j \in 1..Len(rx')
    <3>1. CASE ring'[i] = line
      BY <1>2, <3>1
    <3>2. CASE i \in 1..Len(ring) /\ ring'[i] = ring[i]
      BY <2>1, <3>2 DEF QueueOrder
    <3> QED BY <1>6, <3>1, <3>2
  <2>4. \A i \in 1..Len(ring') :
          /\ ring'[i].id <= sent'
          /\ lastStarted' < ring'[i].id \/ (i = 1 /\ ring'[1] = running')
    <3> TAKE i \in 1..Len(ring')
    <3>1. CASE ring'[i] = line
      BY <1>8, <3>1
    <3>2. CASE i \in 1..Len(ring) /\ ring'[i] = ring[i]
      BY <3>2 DEF QueueOrder
    <3> QED BY <1>6, <3>1, <3>2
  <2>5. lastStarted' <= sent' /\ running'.id \in {0, lastStarted'}
    BY DEF QueueOrder
  <2> QED BY <1>2, <1>5, <2>2, <2>3, <2>4, <2>5 DEF QueueOrder
<1> QED BY <1>7, <1>9

\* What dispatching the first line says about it.
LEMMA DispatchedLine ==
    ASSUME QueueTypeOK, QueueOrder, NEW line, Dispatch(line)
    PROVE  /\ line = ring[1] /\ line \in Lines /\ ring # <<>>
           /\ lastStarted < line.id /\ line.id <= sent /\ lastStarted' = line.id
           /\ \A j \in 1..Len(rx) : line.id < rx[j].id
<1>1. ring # <<>> /\ line = Head(ring) /\ running = NoLine /\ lastStarted' = line.id
  BY DEF Dispatch
<1>2. ring[1] = Head(ring) /\ 1 \in 1..Len(ring) /\ ring[1] \in Lines
  BY <1>1, ElementOfSeq DEF QueueTypeOK
<1>3. ring[1] # running
  BY <1>1, <1>2, LineTypes
<1> QED BY <1>1, <1>2, <1>3 DEF QueueOrder

\* The line in the first slot is carried out at once.
LEMMA DispatchReturnQueue ==
    ASSUME QueueTypeOK, QueueOrder, NEW line, NEW reports \in Seq(Reports),
           Dispatch(line), Return(line, reports), UNCHANGED <<sent, rx>>
    PROVE  QueueTypeOK' /\ QueueOrder'
<1>1. /\ line = ring[1] /\ line \in Lines /\ ring # <<>>
      /\ lastStarted < line.id /\ line.id <= sent /\ lastStarted' = line.id
      /\ \A j \in 1..Len(rx) : line.id < rx[j].id
  BY DispatchedLine
<1>2. /\ ring' = Tail(ring) /\ running' = NoLine
      /\ printed' = Append(reports, [what |-> "ok", id |-> line.id])
  BY <1>1 DEF Return, AdvanceR, Ok
<1>3. printed' \in Seq(Reports)
  <2>1. [what |-> "ok", id |-> line.id] \in Reports
    BY <1>1 DEF Reports, Lines
  <2> QED BY <1>2, <2>1, AppendProperties
<1>4. /\ ring' \in Seq(Lines) /\ Ascending(ring') /\ Len(ring') = Len(ring) - 1
      /\ \A i \in 1..Len(ring') : ring'[i] = ring[i + 1] /\ line.id < ring'[i].id
  BY <1>1, <1>2, AscendingTail DEF QueueTypeOK, QueueOrder
<1>5. \A i \in 1..Len(ring') : i + 1 \in 1..Len(ring)
  BY <1>4 DEF QueueTypeOK
<1>6. QueueTypeOK'
  <2>1. lastStarted' \in Nat /\ sent' \in Nat
    BY <1>1 DEF QueueTypeOK, Lines
  <2>2. Len(ring') <= BufSize
    BY <1>4, BufSizeAssumption DEF QueueTypeOK
  <2> QED BY <1>2, <1>3, <1>4, <2>1, <2>2 DEF QueueTypeOK
<1>7. QueueOrder'
  <2>1. lastStarted' <= sent' /\ running'.id \in {0, lastStarted'}
    BY <1>1, <1>2 DEF NoLine
  <2>2. \A j \in 1..Len(rx') : lastStarted' < rx'[j].id /\ rx'[j].id <= sent'
    BY <1>1 DEF QueueOrder
  <2>3. \A i \in 1..Len(ring'), j \in 1..Len(rx') : ring'[i].id < rx'[j].id
    BY <1>4, <1>5 DEF QueueOrder
  <2>4. \A i \in 1..Len(ring') : ring'[i].id <= sent' /\ lastStarted' < ring'[i].id
    BY <1>1, <1>4, <1>5 DEF QueueOrder
  <2>5. Ascending(rx')
    BY DEF QueueOrder, Ascending
  <2> QED BY <1>4, <2>1, <2>2, <2>3, <2>4, <2>5 DEF QueueOrder
<1> QED BY <1>6, <1>7

\* The line in the first slot goes to a handler that waits.
LEMMA DispatchWaitQueue ==
    ASSUME QueueTypeOK, QueueOrder, NEW line, Dispatch(line), running' = line,
           printed' \in Seq(Reports), UNCHANGED <<sent, rx, ring>>
    PROVE  QueueTypeOK' /\ QueueOrder'
<1>1. /\ line = ring[1] /\ line \in Lines /\ ring # <<>>
      /\ lastStarted < line.id /\ line.id <= sent /\ lastStarted' = line.id
      /\ \A j \in 1..Len(rx) : line.id < rx[j].id
  BY DispatchedLine
<1>2. running' = line /\ ring' = ring
  OBVIOUS
<1>3. QueueTypeOK'
  BY <1>1, <1>2 DEF QueueTypeOK, Lines
<1>4. \A i \in 1..Len(ring) : i = 1 \/ (1 \in 1..Len(ring) /\ 1 < i)
  BY DEF QueueTypeOK
<1>5. \A i \in 1..Len(ring) : ring[i].id <= sent /\ (line.id < ring[i].id \/ i = 1)
  BY <1>1, <1>4 DEF QueueOrder, Ascending
<1>6. Ascending(ring') /\ Ascending(rx')
  BY <1>2 DEF QueueOrder, Ascending
<1>7. QueueOrder'
  BY <1>1, <1>2, <1>5, <1>6 DEF QueueOrder
<1> QED BY <1>3, <1>7

\* A handler that waited returns: advance_r() frees its slot, or that of the
\* first line that came after queue.clear().
LEMMA ReturnQueue ==
    ASSUME QueueTypeOK, QueueOrder, running # NoLine, NEW reports \in Seq(Reports),
           Return(running, reports), UNCHANGED <<sent, rx, lastStarted>>
    PROVE  QueueTypeOK' /\ QueueOrder'
<1>1. /\ running' = NoLine /\ running \in Lines /\ printed' = Append(reports, Ok(running))
      /\ ring' = IF ring = <<>> THEN ring ELSE Tail(ring)
  BY DEF QueueTypeOK, Return, AdvanceR
<1>2. printed' \in Seq(Reports)
  <2>1. Ok(running) \in Reports
    BY <1>1 DEF Reports, Ok, Lines
  <2> QED BY <1>1, <2>1
<1>3. \A i \in 1..Len(ring) : i = 1 \/ lastStarted < ring[i].id
  BY DEF QueueOrder
<1>4. CASE ring = <<>>
  <2>1. ring' = <<>> /\ Len(ring') = 0 /\ Ascending(ring') /\ ring' \in Seq(Lines)
    BY <1>1, <1>4 DEF Ascending
  <2>2. QueueTypeOK'
    BY <1>1, <1>2, <2>1, BufSizeAssumption DEF QueueTypeOK
  <2>3. QueueOrder'
    BY <1>1, <2>1 DEF QueueOrder, Ascending, NoLine
  <2> QED BY <2>2, <2>3
<1>5. CASE ring # <<>>
  <2>1. /\ ring' \in Seq(Lines) /\ Ascending(ring') /\ Len(ring') = Len(ring) - 1
        /\ \A i \in 1..Len(ring') : ring'[i] = ring[i + 1]
    BY <1>1, <1>5, AscendingTail DEF QueueTypeOK, QueueOrder
  <2>2. \A i \in 1..Len(ring') : i + 1 \in 1..Len(ring) /\ i + 1 # 1
    BY <2>1 DEF QueueTypeOK
  <2>3. QueueTypeOK'
    BY <1>1, <1>2, <2>1, BufSizeAssumption DEF QueueTypeOK
  <2>4. \A i \in 1..Len(ring') : ring'[i].id <= sent' /\ lastStarted' < ring'[i].id
    BY <1>3, <2>1, <2>2 DEF QueueOrder
  <2>5. \A i \in 1..Len(ring'), j \in 1..Len(rx') : ring'[i].id < rx'[j].id
    BY <2>1, <2>2 DEF QueueOrder
  <2>6. Ascending(rx')
    BY DEF QueueOrder, Ascending
  <2>7. QueueOrder'
    BY <1>1, <2>1, <2>4, <2>5, <2>6 DEF QueueOrder, NoLine
  <2> QED BY <2>3, <2>7
<1> QED BY <1>4, <1>5

\* queue.clear() leaves the receive buffer as it is.
LEMMA ClearQueue ==
    ASSUME QueueTypeOK, QueueOrder, ClearRing, printed' \in Seq(Reports),
           UNCHANGED <<sent, rx, running, lastStarted>>
    PROVE  QueueTypeOK' /\ QueueOrder'
<1>1. ring' = <<>> /\ Len(ring') = 0
  BY DEF ClearRing
<1>2. QueueTypeOK'
  BY <1>1, BufSizeAssumption DEF QueueTypeOK
<1>3. QueueOrder'
  BY <1>1 DEF QueueOrder, Ascending
<1> QED BY <1>2, <1>3

LEMMA QuietQueue ==
    ASSUME QueueTypeOK, QueueOrder, printed' \in Seq(Reports), UNCHANGED queueVars
    PROVE  QueueTypeOK' /\ QueueOrder'
BY DEF QueueTypeOK, QueueOrder, queueVars, Ascending
=============================================================================
