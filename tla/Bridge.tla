------------------------------- MODULE Bridge -------------------------------
(***************************************************************************)
(* The Pi bridge (pi-panel/rmr_bridge.py) between the browser pages and    *)
(* the Mega.  Any thread may write a line, under serial_lock: the echo to  *)
(* every page is queued first, then the bytes leave.  The reader thread    *)
(* owns the port and broadcasts every line the Mega prints; it reopens a   *)
(* lost port, which resets the Mega.  Broadcasts reach a page in the order *)
(* in which they were queued.  Of the Mega only the command queue is here: *)
(* a handler returns at once or waits, and what it does is left out.       *)
(***************************************************************************)
EXTENDS GcodeQueue

CONSTANTS
    Clients,        \* the pages
    ButtonText,     \* the line of the physical button
    MaxMishaps,     \* bound on what goes wrong
    Events          \* outside events of this instance

AllEvents == {"Button", "PowerLoss", "Kill", "Reset", "Port", "Reconnect", "Timeout", "Stop"}

ASSUME BridgeAssumption ==
    /\ ButtonText \in Kinds /\ "none" \notin Kinds
    /\ MaxMishaps \in Nat /\ Events \subseteq AllEvents

VARIABLES
    mega,       \* "up", "booting" until it prints "start", or "halted" by kill()
    wire,       \* printed by the Mega and not yet read
    port,       \* "open"; "gone" until the reader sees it; "closed"; "lost" and
                \* "opened" until the pages are told
    writing,    \* the line inside write_serial(): echoed, not yet written
    failing,    \* writers that still have to report that their line was dropped
    conn,       \* the pages that are connected
    outbox,     \* sent by a page, not yet received
    inbox,      \* sent to a page, not yet handled
    issued,     \* lines sent by pages and buttons, for the bound
    mishaps,
    \* History, read by the properties only:
    origin,     \* who sent each line
    dropped     \* the receive buffer was full

bridgeVars == <<port, writing, failing>>
linkVars   == <<conn, outbox, inbox>>
histVars   == <<issued, mishaps, origin, dropped>>

Sources == Clients \cup {"button"}
NoWrite == [text |-> "none", by |-> "button", step |-> 0]
Writes == [text : Kinds, by : Sources, step : Nat]

Message(what) == [what |-> what, id |-> 0, text |-> "none"]
Echo(what, text) == [what |-> what, id |-> 0, text |-> text]
Messages ==
    [what : {"tx", "button", "open", "closed", "error", "ok", "lost", "halted", "start"},
     id : Nat, text : Kinds \cup {"none"}]

BridgeTypeOK ==
    /\ QueueTypeOK
    /\ mega \in {"up", "booting", "halted"}
    /\ wire \in Seq([what : {"ok", "lost", "halted", "start"}, id : Nat])
    /\ port \in {"open", "gone", "lost", "closed", "opened"}
    /\ writing \in Writes \cup {NoWrite}
    /\ failing \in Nat /\ issued \in Nat /\ mishaps \in Nat /\ dropped \in BOOLEAN
    /\ conn \in [Clients -> BOOLEAN]
    /\ outbox \in [Clients -> Seq([text : Kinds, step : Nat])]
    /\ inbox \in [Clients -> Seq(Messages)]
    /\ origin \in Seq(Sources \X Nat)

BridgeInit ==
    /\ QueueInit
    /\ mega = "up" /\ wire = <<>> /\ port = "open"
    /\ writing = NoWrite /\ failing = 0 /\ issued = 0 /\ mishaps = 0
    /\ conn = [c \in Clients |-> TRUE]
    /\ outbox = [c \in Clients |-> <<>>] /\ inbox = [c \in Clients |-> <<>>]
    /\ origin = <<>> /\ dropped = FALSE

\* schedule_broadcast()
Told(messages) == [c \in Clients |-> IF conn[c] THEN inbox[c] \o messages ELSE inbox[c]]

Mishap(event) ==
    /\ event \in Events /\ mishaps < MaxMishaps
    /\ mishaps' = mishaps + 1

-----------------------------------------------------------------------------
(* The Mega.                                                               *)

\* What it prints reaches the bridge only through an open port.
Transmit == wire' = IF port \in {"open", "opened"} THEN wire \o printed' ELSE wire

MegaStep == UNCHANGED <<bridgeVars, linkVars, issued, origin, dropped>>

MegaFetches ==
    /\ mega = "up" /\ Fetch
    /\ UNCHANGED <<sent, running, lastStarted, mega, wire, mishaps>> /\ MegaStep

MegaCarriesOut ==
    /\ mega = "up"
    /\ \/ \E line \in {ring[i] : i \in 1..Len(ring)} :
             Dispatch(line) /\ (Return(line, <<>>) \/ Wait(line))
       \/ running # NoLine /\ Return(running, <<>>) /\ UNCHANGED lastStarted
    /\ Transmit
    /\ UNCHANGED <<sent, rx, mega, mishaps>> /\ MegaStep

\* The E-stop: the queue is cleared, a waiting handler still answers.
PowerLoss ==
    /\ mega = "up" /\ Mishap("PowerLoss")
    /\ ClearRing
    /\ printed' = Report("lost") /\ Transmit
    /\ UNCHANGED <<sent, rx, running, lastStarted, mega>> /\ MegaStep

Kill ==
    /\ mega = "up" /\ Mishap("Kill")
    /\ mega' = "halted"
    /\ printed' = Report("halted") /\ Transmit
    /\ UNCHANGED queueVars /\ MegaStep

Restarted ==
    /\ mega' = "booting"
    /\ rx' = <<>> /\ ring' = <<>> /\ running' = NoLine /\ Quiet

Reset ==
    /\ Mishap("Reset") /\ Restarted
    /\ UNCHANGED <<sent, lastStarted, wire>> /\ MegaStep

Boots ==
    /\ mega = "booting"
    /\ mega' = "up"
    /\ printed' = Report("start") /\ Transmit
    /\ UNCHANGED <<queueVars, mishaps>> /\ MegaStep

-----------------------------------------------------------------------------
(* write_serial()                                                          *)

\* The lock is taken and the echo queued.
WriteBegins ==
    /\ writing = NoWrite
    /\ \/ \E c \in Clients :
             /\ outbox[c] # <<>>
             /\ writing' = [text |-> Head(outbox[c]).text, by |-> c, step |-> Head(outbox[c]).step]
             /\ outbox' = [outbox EXCEPT ![c] = Tail(@)]
             /\ inbox' = Told(<<Echo("tx", writing'.text)>>)
             /\ UNCHANGED issued
       \/ /\ "Button" \in Events /\ issued < MaxLines
          /\ issued' = issued + 1
          /\ writing' = [text |-> ButtonText, by |-> "button", step |-> 0]
          /\ inbox' = Told(<<Echo("button", ButtonText)>>)
          /\ UNCHANGED outbox
    /\ Quiet
    /\ UNCHANGED <<queueVars, mega, wire, port, failing, conn, mishaps, origin, dropped>>

\* The bytes leave; a board that boots does not see them.
WriteSucceeds ==
    /\ port \in {"open", "opened"}
    /\ IF mega = "booting" THEN sent' = sent + 1 /\ Quiet /\ UNCHANGED rx
       ELSE SendLine(writing.text)
    /\ origin' = Append(origin, <<writing.by, writing.step>>)
    /\ dropped' = (dropped \/ (mega # "booting" /\ Len(rx) = RxLines))
    /\ UNCHANGED <<failing, inbox>>

\* ser is closed, or write() raises, which is reported at once.
WriteFails ==
    /\ port \in {"gone", "lost", "closed"}
    /\ failing' = failing + 1
    /\ \/ port # "gone" /\ UNCHANGED inbox
       \/ port # "closed" /\ inbox' = Told(<<Message("error")>>)
    /\ Quiet
    /\ UNCHANGED <<sent, rx, origin, dropped>>

WriteEnds ==
    /\ writing # NoWrite
    /\ writing' = NoWrite
    /\ WriteSucceeds \/ WriteFails
    /\ UNCHANGED <<ring, running, lastStarted, mega, wire, port, conn, outbox, issued, mishaps>>

\* After the lock: "serial not open; dropped".
ReportsDropped ==
    /\ failing > 0
    /\ failing' = failing - 1
    /\ inbox' = Told(<<Message("error")>>)
    /\ Quiet
    /\ UNCHANGED <<queueVars, mega, wire, port, writing, conn, outbox, histVars>>

-----------------------------------------------------------------------------
(* serial_reader()                                                         *)

ReaderStep == UNCHANGED <<writing, failing, conn, outbox, issued, origin, dropped>>

ReadsLine ==
    /\ port = "open" /\ wire # <<>>
    /\ inbox' = Told(<<[what |-> Head(wire).what, id |-> Head(wire).id, text |-> "none"]>>)
    /\ wire' = Tail(wire)
    /\ Quiet
    /\ UNCHANGED <<queueVars, mega, port, mishaps>> /\ ReaderStep

\* The USB link breaks; what was printed and not read is lost.
LosesPort ==
    /\ port = "open" /\ Mishap("Port")
    /\ port' = "gone" /\ wire' = <<>>
    /\ Quiet
    /\ UNCHANGED <<queueVars, mega, inbox>> /\ ReaderStep

\* read() raises and the reader closes the port.
ClosesPort ==
    /\ port = "gone"
    /\ port' = "lost"
    /\ Quiet
    /\ UNCHANGED <<queueVars, mega, wire, inbox, mishaps>> /\ ReaderStep

\* Opening the port resets the Mega.
OpensPort ==
    /\ port = "closed"
    /\ port' = "opened" /\ wire' = <<>>
    /\ Restarted
    /\ UNCHANGED <<sent, lastStarted, inbox, mishaps>> /\ ReaderStep

TellsStatus ==
    /\ \/ port = "lost" /\ port' = "closed"
       \/ port = "opened" /\ port' = "open"
    /\ inbox' = Told(<<Message(port')>>)
    /\ Quiet
    /\ UNCHANGED <<queueVars, mega, wire, mishaps>> /\ ReaderStep

-----------------------------------------------------------------------------
(* ws_handler()                                                            *)

\* A page connects and is greeted with the state of the port.
Accepts(c) ==
    /\ ~conn[c]
    /\ conn' = [conn EXCEPT ![c] = TRUE]
    /\ inbox' = [inbox EXCEPT ![c] =
          <<Message(IF port \in {"open", "gone", "opened"} THEN "open" ELSE "closed")>>]
    /\ Quiet
    /\ UNCHANGED <<queueVars, mega, wire, bridgeVars, outbox, histVars>>

\* A connection ends; what the page has sent may still arrive.
Loses(c) ==
    /\ conn[c] /\ Mishap("Reconnect")
    /\ conn' = [conn EXCEPT ![c] = FALSE]
    /\ inbox' = [inbox EXCEPT ![c] = <<>>]
    /\ outbox' \in {outbox, [outbox EXCEPT ![c] = <<>>]}
    /\ Quiet
    /\ UNCHANGED <<queueVars, mega, wire, bridgeVars, issued, origin, dropped>>

BridgeStep ==
    \/ MegaFetches \/ MegaCarriesOut \/ PowerLoss \/ Kill \/ Reset \/ Boots
    \/ WriteBegins \/ WriteEnds \/ ReportsDropped
    \/ ReadsLine \/ LosesPort \/ ClosesPort \/ OpensPort \/ TellsStatus
=============================================================================
