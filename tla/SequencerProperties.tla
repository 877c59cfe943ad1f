------------------------ MODULE SequencerProperties ------------------------
(* What a run of the Process Sequencer may and may not do to the machine.  *)
EXTENDS Sequencer

\* This step hands a line to its handler, and the handler accepts it.
CarriesOut(kinds) == running' # running /\ running'.kind \in kinds

\* No move of a gated block is carried out on axes whose position nobody knows:
\* what the page's lock does not catch, the firmware's refusal does, and after a
\* reset, which forgets the refusal, the lock is on.  Only a G28 that the E-stop
\* interrupted and that yet came to its end lifts the refusal wrongly (G28.cpp).
MovesOnKnownAxes == [][CarriesOut(Moves) => known \/ lifted]_vars

\* The nozzle is never lowered into a closed lid, whichever way the lid was
\* left: the page's guess of the lid is good enough (#191).
LowersUnderOpenLid == [][CarriesOut({"G1_B"}) => lid = "open"]_vars

\* The chuck never starts with the lid open, unless the firmware threw the
\* closing line away unread while the page took it for answered, or Start Spin
\* heard the ok of its lid after a homing was sent that opens it again.
SpinsUnderClosedLid ==
    [][CarriesOut({"M750"}) => lid = "closed" \/ "M280_S115" \in thrown \/ blind]_vars

\* A run that spun the chuck does not open the lid while the chuck turns: it
\* waits for the marker of a spin cycle's end, and the ok is not enough (ADR 0017).
\* It may after a step was answered by the late ok of a line of an earlier run.
OpensOverStoppedChuck ==
    [][lid = "closed" /\ lid' = "open" /\ spun /\ lastStarted' = waiter
          => rotor = "rest" \/ misheard]_vars

\* Nothing is on its way any more and no run is going on.
Settled ==
    /\ seq = "idle" /\ connected /\ mega = "up"
    /\ rx = <<>> /\ ring = <<>> /\ running = NoLine

\* However a cure ended, no lamp stays lit and no valve open (#186), though the
\* E-stop clears the queue and leaves the lines in the receive buffer.
RelaysOffAfterRun == Settled => relays = {}

\* However a dispense ended, the firmware is in absolute mode, unless it threw
\* the recovering G90 away.  The Stamp block, which has no finally, may leave it.
AbsoluteAfterRun == Settled => ~relative \/ "G90" \in thrown \/ fed

\* In whichever mode the run before ended, the plunger and the feeder move by a
\* distance and the other axes to a place, unless a G28 that the E-stop
\* interrupted has lifted the refusal: the E-stop may have taken a G91 of a
\* feeder jog out of the queue and left its move in the receive buffer.
MovesInTheirMode ==
    [][CarriesOut(Moves) => (relative <=> running'.kind \in Distances) \/ lifted]_vars

\* syrRelative() "restores absolute mode however it ends" (RMR_Controller.html).
RestoresAbsolute == Settled => ~relative

-----------------------------------------------------------------------------
(* The inductive invariant behind MovesOnKnownAxes.                         *)

\* Lines that rely on a home: the moves, and the marker that announces one.
Reliant == Moves \cup {"M118"}

Pending == {ring[i] : i \in 1..Len(ring)} \cup {rx[j] : j \in 1..Len(rx)}
HomePending == \E home \in Pending : home.kind = "G28"

\* Of the lines on their way, a G28 precedes all that rely on one.
HomedFirst ==
    \A line \in Pending :
       line.kind \in Reliant => \E home \in Pending : home.kind = "G28" /\ home.id < line.id

\* The firmware would carry out a move on axes that are not known.
Unguarded == mega = "up" /\ ~known /\ ~rehome /\ ~lifted

Plain(first) == \A i \in first..Len(link) : link[i].what \notin {"start", "marker"}

\* The page has still to read that the board has restarted.
StartComes == link # <<>> /\ link[1].what = "start" /\ Plain(2) /\ ~Busy

Active == seq \in {"next", "waiting", "answered", "sleeping"} /\ ~fault

\* The page takes the axes for known only if a G28 is on its way, and a run has
\* one on its way or before it.
PageKnows ==
    /\ Plain(1)
    /\ homed => HomePending
    /\ Active => \A i \in 1..Len(todo) :
          todo[i] \in Reliant => HomePending \/ \E j \in 1..Len(todo) : j < i /\ todo[j] = "G28"
    /\ Active /\ seq \in {"waiting", "answered"} /\ todo[1] = "G28" => HomePending

\* A waiting handler has lost its slot, and a G28 its motors, only by a loss that
\* the refusal tells of.
CellInv ==
    /\ mega = "booting" => rx = <<>> /\ ring = <<>> /\ running = NoLine
    /\ running # NoLine /\ (ring = <<>> \/ ring[1] # running) => rehome
    /\ spoilt /\ running.kind \in Homes => rehome

\* A run goes on only without a fault, and has a step in flight while it waits.
RunInv ==
    /\ seq = "next" => ~fault
    /\ seq \in {"waiting", "answered"} => todo # <<>>
    /\ waiter # 0 => seq = "waiting"
    /\ ~connected /\ seq # "idle" => fault

\* Whenever the firmware would carry out a move on axes that are not known,
\* no line that relies on a home is on its way, nor will be, before a G28.
KnownInv ==
    /\ CellInv /\ RunInv
    /\ Unguarded => HomedFirst /\ (connected => StartComes \/ PageKnows)

-----------------------------------------------------------------------------
(* The inductive invariant behind RelaysOffAfterRun.                        *)

\* Relay r is on once all lines on their way have been carried out.
StaysOn(r) ==
    \/ \E on \in Pending :
          on.kind = On(r) /\ \A off \in Pending : off.kind = Off(r) => off.id < on.id
    \/ r \in relays /\ \A off \in Pending : off.kind # Off(r)

Reached == connected /\ mega = "up"

\* A handler that has lost its slot has lost it to a loss, and its relays with it.
SlotInv == running # NoLine /\ (ring = <<>> \/ ring[1] # running) => relays = {}

\* The run has the switching-off of a relay before it, or its finally has.
PlanInv ==
    \A r \in Relays :
       /\ Off(r) \in owed =>
             seq # "idle" /\ (seq = "failed" \/ \E i \in 1..Len(todo) : todo[i] = Off(r))
       /\ \A i \in 1..Len(todo) :
             todo[i] = On(r) => \E j \in 1..Len(todo) : i < j /\ todo[j] = Off(r)

\* A relay that stays on is owed a switching-off, and the ok that cancels the
\* debt is that of no earlier line than the one that pays it.
OwedInv ==
    Reached => \A r \in Relays :
       /\ StaysOn(r) => Off(r) \in owed
       /\ seq \in {"waiting", "answered"} /\ todo[1] = Off(r) => ~StaysOn(r)

\* Whatever is on its way and however a run ends, each relay that would stay on
\* is still to be switched off by a step of the run or by a finally (#186).
RelayInv == SlotInv /\ PlanInv /\ OwedInv
=============================================================================
