----------------------------- MODULE GcodeQueue -----------------------------
(***************************************************************************)
(* Marlin's command queue (gcode/queue.h, gcode/queue.cpp) between the     *)
(* serial line and the command handlers.  The ring buffer is the sequence  *)
(* of its occupied slots.  A handler runs while its line still occupies    *)
(* the first slot, and advance_r() frees "the first slot" when it returns, *)
(* whatever is in it by then.  Lines carry no numbers and no checksums.    *)
(***************************************************************************)
EXTENDS Integers, Sequences

CONSTANTS
    BufSize,    \* BUFSIZE, slots of the ring buffer
    RxLines,    \* lines that fit the receive buffer and the cable
    MaxLines,   \* bound on the lines sent
    Kinds       \* the kinds of commands of this instance

ASSUME BufSizeAssumption == BufSize \in Nat \ {0}
ASSUME RxAssumption == RxLines \in Nat /\ MaxLines \in Nat

VARIABLES
    sent,           \* lines sent so far
    rx,             \* lines on the cable and in the receive buffer
    ring,           \* lines in the ring buffer
    running,        \* the line whose handler waits in an idle() loop
    lastStarted,    \* the last line handed to a handler
    printed         \* what this step prints to the host

queueVars == <<sent, rx, ring, running, lastStarted>>

NoLine == [id |-> 0, kind |-> "none"]
Lines == [id : Nat \ {0}, kind : Kinds]
\* Only "ok" belongs to a line; the host cannot see to which.
Reports == [what : {"ok", "lost", "refused", "start", "halted", "marker", "spin",
                    "complete", "homing", "indexed"}, id : Nat]

QueueTypeOK ==
    /\ sent \in Nat /\ lastStarted \in Nat
    /\ rx \in Seq(Lines) /\ Len(rx) <= RxLines
    /\ ring \in Seq(Lines) /\ Len(ring) <= BufSize
    /\ running \in Lines \cup {NoLine}
    /\ printed \in Seq(Reports)

QueueInit ==
    /\ sent = 0 /\ lastStarted = 0
    /\ rx = <<>> /\ ring = <<>> /\ running = NoLine /\ printed = <<>>

Quiet == printed' = <<>>

Ascending(lines) == \A i, j \in 1..Len(lines) : i < j => lines[i].id < lines[j].id

\* What is in the ring and on its way was sent later than the line that was
\* started last, except that line itself while its handler waits.
QueueOrder ==
    /\ lastStarted <= sent /\ running.id \in {0, lastStarted}
    /\ Ascending(ring) /\ Ascending(rx)
    /\ \A i \in 1..Len(ring), j \in 1..Len(rx) : ring[i].id < rx[j].id
    /\ \A j \in 1..Len(rx) : lastStarted < rx[j].id /\ rx[j].id <= sent
    /\ \A i \in 1..Len(ring) :
          /\ ring[i].id <= sent
          /\ lastStarted < ring[i].id \/ (i = 1 /\ ring[1] = running)

\* The receive buffer drops what does not fit.
Arrive(line) == rx' = IF Len(rx) < RxLines THEN Append(rx, line) ELSE rx

SendLine(kind) ==
    /\ sent < MaxLines
    /\ sent' = sent + 1
    /\ Quiet
    /\ Arrive([id |-> sent + 1, kind |-> kind])

\* mutant: full() not asked
FetchIntoFull ==
    /\ rx # <<>>
    /\ ring' = Append(ring, Head(rx))
    /\ rx' = Tail(rx)
    /\ Quiet

\* queue.get_available_commands(), from every idle().
Fetch ==
    /\ rx # <<>> /\ Len(ring) < BufSize
    /\ ring' = Append(ring, Head(rx))
    /\ rx' = Tail(rx)
    /\ Quiet

\* advance(): the line in the first slot goes to its handler.
Dispatch(line) ==
    /\ running = NoLine /\ ring # <<>>
    /\ line = Head(ring)
    /\ lastStarted' = line.id

Report(what) == <<[what |-> what, id |-> 0]>>
Ok(line) == [what |-> "ok", id |-> line.id]

\* mutant: the lines stay
ClearNothing == UNCHANGED ring

\* queue.clear()
ClearRing == ring' = <<>>

\* mutant: the slot is not freed
AdvanceNothing == UNCHANGED ring

\* ring_buffer.advance_r()
AdvanceR == ring' = IF ring = <<>> THEN ring ELSE Tail(ring)

\* A handler returns, after its reports: its line is answered and the first
\* slot freed.
Return(line, reports) ==
    /\ printed' = Append(reports, Ok(line))
    /\ AdvanceR
    /\ running' = NoLine

\* A handler starts to wait.
Wait(line) ==
    /\ running' = line
    /\ UNCHANGED ring /\ Quiet
=============================================================================
