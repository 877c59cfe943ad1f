------------------------------ MODULE Workcell ------------------------------
(***************************************************************************)
(* The machine as the Process Sequencer meets it: the Mega's command queue *)
(* and the handlers of the lines that the sequencer sends.  Of each        *)
(* handler there is what decides whether a process step is safe: are the   *)
(* axes where the firmware thinks, are moves refused, is the lid over the  *)
(* chuck, does the chuck turn, which relays are on, is the mode relative.  *)
(* A move stands for the M400 behind it too, and so waits.                 *)
(***************************************************************************)
EXTENDS GcodeQueue, FiniteSets

CONSTANTS
    MaxMishaps, \* bound on what happens out of order
    Events      \* what may go wrong in this instance

Homes == {"G28", "G28_Z"}
\* The plunger (C) and the feeder (A) move by a distance, the others to a place.
Distances == {"G1_C", "G1_A"}
Moves == Distances \cup {"G1_X", "G1_B", "G1_B0", "G1_Z"}
Spins == {"M750", "M752"}
Relays == {"lamp", "valve"}
On(r)  == IF r = "lamp" THEN "M42_P4_S1" ELSE "M42_P42_S1"
Off(r) == IF r = "lamp" THEN "M42_P4_S0" ELSE "M42_P42_S0"
AllKinds ==
    Homes \cup Moves \cup Spins \cup {On(r) : r \in Relays} \cup {Off(r) : r \in Relays}
          \cup {"M118", "G90", "G91", "M280_S115", "M280_S30", "M410", "M112"}
AllEvents ==
    {"Estop", "Kill", "Reset", "Stop", "Timeout", "M112", "Unplug", "StartSpin"}

ASSUME WorkcellAssumption ==
    Kinds = AllKinds /\ MaxMishaps \in Nat /\ Events \subseteq AllEvents

VARIABLES
    mega,       \* "up", "booting" until it prints "start", or "halted" by kill()
    link,       \* printed by the Mega and not yet handled by the page
    connected,  \* isConnected: the page has the port open
    known,      \* every axis is where the firmware thinks it is
    rehome,     \* motor_power.cpp: moves are refused
    spoilt,     \* the motors lost their power since the running G28 began
    lid,        \* over the chuck or not
    rotor,      \* the chuck
    relays,     \* those that are on
    relative,   \* G91
    mishaps,
    \* History, read by the properties only:
    lifted,     \* a G28 has lifted the refusal although an axis is not known
    thrown      \* kinds whose last line the firmware threw away

posVars  == <<known, rehome, spoilt, lifted>>
cellVars == <<posVars, lid, rotor, relays, relative>>
machine  == <<queueVars, printed, mega, link, cellVars, thrown>>

CellTypeOK ==
    /\ QueueTypeOK
    /\ mega \in {"up", "booting", "halted"}
    /\ link \in Seq(Reports) /\ connected \in BOOLEAN
    /\ known \in BOOLEAN /\ rehome \in BOOLEAN /\ spoilt \in BOOLEAN
    /\ lid \in {"open", "closed"} /\ rotor \in {"rest", "turning"}
    /\ relays \subseteq Relays /\ relative \in BOOLEAN
    /\ mishaps \in 0..MaxMishaps /\ lifted \in BOOLEAN /\ thrown \subseteq Kinds

\* The page has just connected, which has reset the Mega.
CellInit ==
    /\ QueueInit
    /\ mega = "booting" /\ link = <<>> /\ connected = TRUE
    /\ known = FALSE /\ rehome = FALSE /\ spoilt = FALSE
    /\ lid \in {"open", "closed"} /\ rotor = "rest" /\ relays = {} /\ relative = FALSE
    /\ mishaps = 0 /\ lifted = FALSE /\ thrown = {}

Mishap(event) ==
    /\ event \in Events /\ mishaps < MaxMishaps
    /\ mishaps' = mishaps + 1

\* What is printed while nobody has the port open is gone.
Transmit == link' = IF connected THEN link \o printed' ELSE <<>>

\* The page and the main loop handle a line within milliseconds.  A boot, a
\* handler that waits or an operator takes far longer: by then the page has
\* handled what was printed, and the Mega what no waiting handler holds up.
TimePasses ==
    /\ link = <<>>
    /\ mega = "up" /\ running = NoLine => rx = <<>> /\ ring = <<>>

-----------------------------------------------------------------------------
(* The lines that reach the Mega.                                          *)

\* Some lines leave one behind the other; a board that boots does not see them.
Write(kinds) ==
    LET lines == [i \in 1..Len(kinds) |-> [id |-> sent + i, kind |-> kinds[i]]] IN
    /\ sent' = sent + Len(kinds)
    /\ rx' = IF mega = "booting" THEN rx ELSE rx \o lines
    /\ Len(rx') <= RxLines /\ sent' <= MaxLines
    /\ Quiet
    /\ UNCHANGED <<ring, running, lastStarted, mega, cellVars, thrown>>

FetchLine ==
    /\ mega = "up" /\ Fetch
    /\ UNCHANGED <<sent, running, lastStarted, mega, cellVars, thrown>>

\* Of what is thrown away unread, these lines matter to the properties.
Throw(lines) ==
    thrown' = thrown \cup ({lines[i].kind : i \in 1..Len(lines)} \cap {"G90", "M280_S115"})

-----------------------------------------------------------------------------
(* Handlers that return at once.                                           *)

Done(line, reports) ==
    /\ Dispatch(line)
    /\ Return(line, reports)
    /\ thrown' = thrown \ {line.kind}

\* G0_G1() after a loss.
Refuse(line) ==
    /\ line.kind \in Moves /\ rehome
    /\ Done(line, Report("refused"))
    /\ UNCHANGED cellVars

\* M42()
SwitchRelay(line) ==
    /\ \E r \in Relays :
          \/ line.kind = On(r)  /\ relays' = relays \cup {r}
          \/ line.kind = Off(r) /\ relays' = relays \ {r}
    /\ Done(line, <<>>)
    /\ UNCHANGED <<posVars, lid, rotor, relative>>

\* G90, G91
SetMode(line) ==
    /\ line.kind \in {"G90", "G91"}
    /\ relative' = (line.kind = "G91")
    /\ Done(line, <<>>)
    /\ UNCHANGED <<posVars, lid, rotor, relays>>

\* M280(); its timed ramp does not call idle().
MoveLid(line) ==
    /\ line.kind \in {"M280_S115", "M280_S30"}
    /\ lid' = IF line.kind = "M280_S115" THEN "closed" ELSE "open"
    /\ Done(line, <<>>)
    /\ UNCHANGED <<posVars, rotor, relays, relative>>

\* M118() prints its text; M410 has been acted on while it was received.
Remark(line) ==
    /\ \/ line.kind = "M118" /\ Done(line, Report("marker"))
       \/ line.kind = "M410" /\ Done(line, <<>>)
    /\ UNCHANGED cellVars

-----------------------------------------------------------------------------
(* Handlers that wait in idle().                                           *)

Waits(line) == line.kind \in Homes \cup Spins \/ (line.kind \in Moves /\ ~rehome)

\* G28 opens the lid before any axis moves.
Begin(line) ==
    /\ Dispatch(line) /\ Waits(line)
    /\ running' = line
    /\ printed' = CASE line.kind = "M750" -> Report("spin")
                    [] line.kind = "M752" -> Report("homing")
                    [] OTHER -> <<>>
    /\ lid' = IF line.kind \in Homes THEN "open" ELSE lid
    /\ spoilt' = (spoilt /\ line.kind \notin Homes)
    /\ rotor' = IF line.kind \in Spins THEN "turning" ELSE rotor
    /\ UNCHANGED <<ring, known, rehome, lifted, relays, relative, thrown>>

\* advance_r() frees whatever has come into the first slot meanwhile.
Ended(reports) ==
    /\ TimePasses
    /\ Return(running, reports)
    /\ IF ring # <<>> /\ Head(ring) # running THEN Throw(<<Head(ring)>>) ELSE UNCHANGED thrown
    /\ UNCHANGED lastStarted

MoveEnds ==
    /\ running.kind \in Moves
    /\ Ended(<<>>)
    /\ UNCHANGED cellVars

\* G28 lifts the refusal whichever axes it homed and whatever came between.
HomingEnds ==
    /\ running.kind \in Homes
    /\ known' = IF running.kind = "G28" THEN ~spoilt ELSE known
    /\ rehome' = FALSE
    /\ lifted' = (~known' /\ (lifted \/ rehome))
    /\ Ended(<<>>)
    /\ UNCHANGED <<spoilt, lid, rotor, relays, relative>>

\* doIndexHome()
Search == Report("homing") \o Report("indexed")

\* M750 has seen the chuck stopped when it prints a CYCLE_COMPLETE, and M752 when
\* it prints an INDEX_COMPLETE, which an M750 H1 prints too.  After an abort, a
\* drive fault or a timeout there is none and the chuck may coast.
SpinEnds ==
    /\ running.kind \in Spins
    /\ \/ /\ \/ running.kind = "M752" /\ Ended(Report("indexed"))
             \/ running.kind = "M750" /\ Ended(Report("complete"))
             \/ running.kind = "M750" /\ Ended(Search \o Report("complete"))
          /\ rotor' = "rest"
       \/ Ended(<<>>) /\ UNCHANGED rotor
    /\ UNCHANGED <<posVars, lid, relays, relative>>

MainLoop ==
    /\ mega = "up"
    /\ \/ \E line \in {ring[i] : i \in 1..Len(ring)} :
             \/ Refuse(line) \/ SwitchRelay(line) \/ SetMode(line)
             \/ MoveLid(line) \/ Remark(line) \/ Begin(line)
       \/ MoveEnds \/ HomingEnds \/ SpinEnds
    /\ UNCHANGED <<sent, rx, mega>>

-----------------------------------------------------------------------------
(* What may come at any time.                                              *)

RotorStops ==
    /\ rotor = "turning" /\ running.kind \notin Spins
    /\ rotor' = "rest"
    /\ Quiet
    /\ UNCHANGED <<queueVars, mega, posVars, lid, relays, relative, thrown>>

\* RmrRelays::allOff()
AllOff == relays' = {}

\* motor_power::task() sees the E-stop; what is still in the receive buffer stays.
PowerLoss ==
    /\ mega = "up"
    /\ AllOff /\ ClearRing
    /\ known' = FALSE /\ rehome' = TRUE /\ spoilt' = TRUE /\ lifted' = FALSE
    /\ printed' = Report("lost")
    /\ Throw(IF ring # <<>> /\ Head(ring) = running THEN Tail(ring) ELSE ring)
    /\ UNCHANGED <<sent, rx, running, lastStarted, mega, lid, rotor, relative>>

\* kill()
Die ==
    /\ mega = "up" /\ mega' = "halted"
    /\ AllOff
    /\ printed' = Report("halted")
    /\ UNCHANGED <<queueVars, posVars, lid, rotor, relative, thrown>>

\* The emergency parser has seen M112 among the bytes received.
ActsOnM112 ==
    /\ \/ \E i \in 1..Len(rx) : rx[i].kind = "M112"
       \/ \E i \in 1..Len(ring) : ring[i].kind = "M112"
    /\ Die

\* A reset; opening the port makes one too.
Restarts ==
    /\ mega' = "booting"
    /\ rx' = <<>> /\ ring' = <<>> /\ running' = NoLine
    /\ Quiet
    /\ UNCHANGED <<sent, lastStarted, cellVars, thrown>>

\* setup(): the relays go off, and nothing of the time before is remembered.
Boots ==
    /\ mega = "booting" /\ TimePasses
    /\ mega' = "up"
    /\ AllOff
    /\ relative' = FALSE
    /\ known' = FALSE /\ rehome' = FALSE /\ spoilt' = FALSE /\ lifted' = FALSE
    /\ thrown' = {}
    /\ printed' = Report("start")
    /\ UNCHANGED <<queueVars, lid, rotor>>

\* What the firmware does by itself.
Firmware ==
    /\ FetchLine \/ MainLoop \/ RotorStops \/ ActsOnM112 \/ Boots
    /\ Transmit
    /\ UNCHANGED <<connected, mishaps>>

\* The E-stop; a homing that fails or anything else that ends in kill(); a reset.
Accident ==
    /\ \/ Mishap("Estop") /\ PowerLoss
       \/ Mishap("Kill") /\ Die
       \/ Mishap("Reset") /\ Restarts
    /\ Transmit
    /\ UNCHANGED connected
=============================================================================
