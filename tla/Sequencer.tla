----------------------------- MODULE Sequencer -----------------------------
(***************************************************************************)
(* The Process Sequencer of RMR_Controller.html on Web Serial: the runs of *)
(* its blocks, the homing lock, the lid rule, and what a run owes the      *)
(* machine when it ends early.  On Web Serial the page is the only writer  *)
(* and its ledger has the order of the bytes, so a ledger entry is the     *)
(* line's number if a step waits for that line, -1 if Start Spin does and  *)
(* 0 if nobody does.  The page is single-threaded: from one wait to the    *)
(* next its code runs undisturbed.                                         *)
(***************************************************************************)
EXTENDS Workcell

CONSTANTS
    Programs,   \* what the operator starts: sequences of blocks
    MaxRuns     \* bound on what he starts

Blocks ==
    {"homing", "homing_index", "homing_Z", "syringe", "spin", "cure", "cure_index",
     "cure_in_argon", "short_purge", "stamp"}

ASSUME SequencerAssumption == Programs \subseteq Seq(Blocks) \ {<<>>} /\ MaxRuns \in Nat

VARIABLES
    ledger,     \* okLedger
    homed,      \* seqHomed: the homing lock is off
    lidLast,    \* lidState(), by the last angle commanded
    seq,        \* "idle"; "next" while its code runs; "waiting" for the ok of a line,
                \* "answered" by it; "sleeping"; "failed" by a rejected wait
    plan,       \* the blocks of the run that are left
    todo,       \* the steps of its block that are left, the one in flight first
    waiter,     \* the line whose ok seqWaiter waits for, or 0
    fault,      \* seqAbort or seqFaultReason
    owed,       \* what the finally clauses have still to send
    verdict,    \* spinLidVerdict
    due,        \* Start Spin has heard the ok of its lid
    runs,
    \* History, read by the properties only:
    spun,       \* the run has sent an M750 or an M752
    fed,        \* a feeder's G91 has been sent and no G90 since
    blind,      \* Start Spin has sent its M750 when the page knew the lid open
    misheard    \* a step of the run was answered by the ok of another line

trackVars == <<ledger, homed, lidLast>>
runVars == <<seq, plan, todo, waiter, fault, owed, verdict, due, runs, spun, fed, blind,
             misheard>>
vars == <<machine, connected, mishaps, trackVars, runVars>>

-----------------------------------------------------------------------------
(* The blocks.  "lid" is a check, "sleep" is timed by the page, "bracket"    *)
(* enters syrRelative().                                                   *)

HomesAll == {"homing", "homing_index"}
Gated == Blocks \ (HomesAll \cup {"homing_Z", "spin"})

\* mutant: the lid is closed when the chuck turns
SpinFirst == <<"M750", "M280_S115", "M280_S30">>

\* runSpinBlock()
SpinSteps == <<"M280_S115", "M750", "M280_S30">>

\* mutant: the feeder's move is not followed by a G90
FeederLeft == <<"G90", "G1_X", "G91", "G1_A", "G1_Z">>

\* runStampBlock(): no finally restores the mode.
StampSteps ==
    <<"G90", "G1_X", "G91", "G1_A", "G90", "G1_Z", "sleep", "G90", "G1_Z">>

\* runUvBlock() by uvArgonPlan(): lead and lag may be negative.
CureSteps(block) ==
    CASE block = "cure"          -> <<"M280_S115", On("lamp"), "sleep", Off("lamp"), "M280_S30">>
      [] block = "cure_index"    -> <<"M280_S115", On("lamp"), "sleep", Off("lamp"), "M752",
                                      "M280_S30">>
      [] block = "cure_in_argon" -> <<"M280_S115", On("valve"), "sleep", On("lamp"), "sleep",
                                      Off("lamp"), "sleep", Off("valve"), "M280_S30">>
      [] block = "short_purge"   -> <<"M280_S115", On("lamp"), On("valve"), "sleep", Off("valve"),
                                      Off("lamp"), "M280_S30">>

Steps(block) ==
    CASE block = "homing"       -> <<"G28", "M118">>
      [] block = "homing_index" -> <<"G28", "M118", "M752">>
      [] block = "homing_Z"     -> <<"G28_Z">>
      [] block = "syringe"      -> <<"lid", "G90", "G1_X", "G1_B", "bracket", "G91", "G1_C",
                                     "sleep", "G90", "G1_B0">>
      [] block = "spin"         -> SpinSteps
      [] block = "stamp"        -> StampSteps
      [] OTHER                  -> CureSteps(block)

Checks == {"lid", "sleep", "bracket"}
Recoveries == {Off("lamp"), Off("valve"), "G90"}

-----------------------------------------------------------------------------

TypeOK ==
    /\ CellTypeOK
    /\ ledger \in Seq(Int) /\ homed \in BOOLEAN
    /\ lidLast \in {"unknown", "open", "closed"}
    /\ seq \in {"idle", "next", "waiting", "answered", "sleeping", "failed"}
    /\ plan \in Seq(Blocks) /\ todo \in Seq(Kinds \cup Checks)
    /\ waiter \in Nat /\ fault \in BOOLEAN /\ owed \subseteq Recoveries
    /\ verdict \in {"none", "", "complete"} /\ due \in BOOLEAN
    /\ runs \in 0..MaxRuns /\ spun \in BOOLEAN /\ fed \in BOOLEAN
    /\ blind \in BOOLEAN /\ misheard \in BOOLEAN

Init ==
    /\ CellInit
    /\ ledger = <<>> /\ homed = FALSE /\ lidLast = "unknown"
    /\ seq = "idle" /\ plan = <<>> /\ todo = <<>> /\ waiter = 0 /\ fault = FALSE
    /\ owed = {} /\ verdict = "none" /\ due = FALSE /\ runs = 0 /\ spun = FALSE
    /\ fed = FALSE /\ blind = FALSE /\ misheard = FALSE

\* Code is running or about to, so no click and no timer is served.
Busy == due \/ seq \in {"next", "answered", "failed"}

\* The start line is handled within milliseconds of a boot that takes seconds.
Attentive == link # <<>> => Head(link).what # "start"

-----------------------------------------------------------------------------
(* Sending: sendCmd() with okLedgerAdd(), lidTrackTx() and homedTrackTx(). *)

LidAfter(kind) ==
    CASE kind = "M280_S115" -> "closed"
      [] kind \in Homes \cup {"M280_S30"} -> "open"
      [] OTHER -> lidLast

NothingSent ==
    /\ Quiet
    /\ UNCHANGED <<queueVars, mega, link, cellVars, thrown, connected>>

\* Lines that nobody waits for.
SendAll(kinds) ==
    /\ Write(kinds)
    /\ ledger' = ledger \o [i \in 1..Len(kinds) |-> 0]
    /\ UNCHANGED <<link, connected>>

\* A line whose ok somebody waits for.
SendAwaited(kind, entry) ==
    /\ Write(<<kind>>)
    /\ ledger' = Append(ledger, entry)
    /\ lidLast' = LidAfter(kind)
    /\ UNCHANGED <<link, connected, homed>>

\* seqCmd(): the wait is armed before the line is sent.
SendStep(kind) == SendAwaited(kind, sent') /\ waiter' = sent'

-----------------------------------------------------------------------------
(* A run, from one wait to the next.                                       *)

\* A gated block needs a full home, made before or by the first block.
MayStart(program) ==
    (\E i \in 1..Len(program) : program[i] \in Gated) => homed \/ program[1] \in HomesAll

\* A button is pressed between runs.
Free == seq = "idle" /\ ~due /\ connected /\ TimePasses /\ runs < MaxRuns

\* seqRunBlock(), seqRunAll(), seqBegin()
StartRun ==
    /\ Free
    /\ \E program \in Programs :
          /\ MayStart(program)
          /\ todo' = Steps(Head(program)) /\ plan' = Tail(program)
    /\ seq' = "next" /\ fault' = FALSE /\ runs' = runs + 1
    /\ spun' = FALSE /\ misheard' = FALSE
    /\ NothingSent
    /\ UNCHANGED <<mishaps, trackVars, waiter, owed, verdict, due, fed, blind>>

\* The lock is asked before each block, and again after a hold it is not.
Locked == plan[1] \in Gated /\ ~homed

\* The next block begins after a hold of the Run Log, if there is one.
NextBlock ==
    /\ todo = <<>> /\ plan # <<>>
    /\ plan' = Tail(plan)
    /\ IF Locked THEN seq' = "failed" /\ UNCHANGED todo
       ELSE UNCHANGED seq /\ todo' = <<"sleep">> \o Steps(plan[1])
    /\ NothingSent
    /\ UNCHANGED <<trackVars, waiter, owed, verdict, spun, fed>>

\* mutant: the relay is owed only once its ok has come
OwesLater(step) == {}

\* A finally is owed before the step is sent (#186).
OwesAfter(step) ==
    {Off(r) : r \in {q \in Relays : step = On(q)}}
        \cup (IF step = "bracket" THEN {"G90"} ELSE {})

\* mutant: the lid is not looked at
LidIgnored == FALSE

\* syrLidBlock()
LidInTheWay == lidLast = "closed"

\* A check, a bracket, a sleep.
Check ==
    /\ todo # <<>> /\ todo[1] \in Checks
    /\ todo' = Tail(todo)
    /\ seq' = CASE todo[1] = "sleep" -> "sleeping"
                [] todo[1] = "lid" /\ LidInTheWay -> "failed"
                [] OTHER -> "next"
    /\ owed' = owed \cup OwesAfter(todo[1])
    /\ NothingSent
    /\ UNCHANGED <<trackVars, plan, waiter, verdict, spun, fed>>

\* A command.
Command ==
    /\ todo # <<>> /\ todo[1] \in Kinds
    /\ SendStep(todo[1])
    /\ seq' = "waiting"
    /\ owed' = owed \cup OwesAfter(todo[1])
    /\ verdict' = IF todo[1] \in Spins THEN "" ELSE verdict
    /\ spun' = (spun \/ todo[1] \in Spins)
    /\ fed' = (todo[1] # "G90" /\ (fed \/ (todo[1] = "G91" /\ "G90" \notin owed)))
    /\ UNCHANGED <<plan, todo>>

EndRun ==
    /\ todo = <<>> /\ plan = <<>>
    /\ seq' = "idle"
    /\ NothingSent
    /\ UNCHANGED <<trackVars, plan, todo, waiter, owed, verdict, spun, fed>>

Advance ==
    /\ seq = "next"
    /\ NextBlock \/ Check \/ Command \/ EndRun
    /\ UNCHANGED <<mishaps, fault, due, runs, blind, misheard>>

\* mutant: the ok is enough
OkIsEnough == TRUE

\* Whether the chuck has stopped is told by the marker, not by the ok.
Passed == todo[1] \in Spins => verdict = "complete"

\* The wait of the step in flight was resolved.
StepDone ==
    /\ seq = "answered"
    /\ IF fault \/ ~Passed THEN seq' = "failed" /\ UNCHANGED <<todo, homed, owed>>
       ELSE /\ seq' = "next"
            /\ todo' = Tail(todo)
            /\ homed' = (homed \/ todo[1] = "G28")
            /\ owed' = owed \ {todo[1]}
    /\ verdict' = "none"
    /\ NothingSent
    /\ UNCHANGED <<mishaps, ledger, lidLast, plan, waiter, fault, due, runs, spun,
                   fed, blind, misheard>>

\* seqSleep()
SleepEnds ==
    /\ seq = "sleeping" /\ Attentive
    /\ seq' = IF fault THEN "failed" ELSE "next"
    /\ NothingSent
    /\ UNCHANGED <<mishaps, trackVars, plan, todo, waiter, fault, owed, verdict, due, runs,
                   spun, fed, blind, misheard>>

\* mutant: nothing is sent
SendNothing == Write(<<>>) /\ UNCHANGED <<ledger, link, connected>>

Owed(kind) == IF connected /\ kind \in owed THEN <<kind>> ELSE <<>>

\* The finally clauses: the lamp first, then the valve.
SendOwed == SendAll(Owed(Off("lamp")) \o Owed(Off("valve")) \o Owed("G90"))

\* An exception ends the run.
Unwind ==
    /\ seq = "failed"
    /\ SendOwed
    /\ seq' = "idle" /\ plan' = <<>> /\ todo' = <<>> /\ owed' = {} /\ verdict' = "none"
    /\ UNCHANGED <<mishaps, homed, lidLast, waiter, fault, due, runs, spun, fed, blind, misheard>>

-----------------------------------------------------------------------------
(* What fails a run.                                                       *)

\* The wait that is armed, if one is, is rejected.
Reject ==
    /\ waiter' = 0
    /\ seq' = IF seq = "waiting" THEN "failed" ELSE seq

\* mutant: only a wait that is armed fails
SeqFaultWaiting == Reject /\ UNCHANGED fault

\* seqFault()
SeqFault == Reject /\ fault' = (fault \/ seq # "idle")

RunKept == UNCHANGED <<plan, todo, owed, verdict, due, runs, spun, fed, blind, misheard>>

\* seqStop()
Stop ==
    /\ seq # "idle" /\ ~Busy /\ Attentive /\ ~fault /\ Mishap("Stop")
    /\ SeqFault
    /\ SendAll(<<"M410">>)
    /\ RunKept /\ UNCHANGED <<homed, lidLast>>

\* seqAwaitOk() has waited too long.
Timeout ==
    /\ seq = "waiting" /\ ~due /\ Attentive /\ Mishap("Timeout")
    /\ Reject
    /\ NothingSent /\ RunKept
    /\ UNCHANGED <<trackVars, fault>>

\* emergencyStop()
EmergencyStop ==
    /\ connected /\ ~Busy /\ Attentive /\ Mishap("M112")
    /\ SeqFault
    /\ Write(<<"M112">>)
    /\ ledger' = <<>> /\ homed' = FALSE
    /\ RunKept /\ UNCHANGED <<link, connected, lidLast>>

\* setConnected(false), also when the USB link breaks
Disconnect ==
    /\ connected /\ ~Busy /\ Mishap("Unplug")
    /\ connected' = FALSE /\ link' = <<>>
    /\ SeqFault
    /\ ledger' = <<>> /\ homed' = FALSE /\ lidLast' = "unknown"
    /\ Quiet
    /\ RunKept /\ UNCHANGED <<queueVars, mega, cellVars, thrown>>

\* connectSerial(): opening the port resets the Mega.
Connect ==
    /\ ~connected /\ seq = "idle"
    /\ connected' = TRUE
    /\ Restarts
    /\ ledger' = <<>> /\ homed' = FALSE /\ lidLast' = "unknown"
    /\ UNCHANGED <<link, mishaps, runVars>>

ButtonKept ==
    UNCHANGED <<homed, seq, plan, todo, waiter, fault, owed, verdict, due, spun, fed, blind,
                misheard>>

\* The Home All button: the G28 is followed by the marker.
HomeAll ==
    /\ Free
    /\ runs' = runs + 1
    /\ SendAll(<<"G28", "M118">>)
    /\ lidLast' = LidAfter("G28")
    /\ UNCHANGED mishaps /\ ButtonKept

\* syrLower(), syrRaise(), which stands for plungerMove() too, and feederJog():
\* nobody waits for their oks.
MoveButton ==
    /\ Free /\ homed
    /\ runs' = runs + 1
    /\ \/ ~LidInTheWay /\ SendAll(<<"G90", "G1_B">>)
       \/ SendAll(<<"G90", "G1_B0">>)
       \/ SendAll(<<"G91", "G1_A", "G90">>)
    /\ UNCHANGED <<mishaps, lidLast>> /\ ButtonKept

\* spinStart() closes the lid, and turns the chuck on the ok of that line.
StartSpin ==
    /\ Free /\ Mishap("StartSpin")
    /\ UNCHANGED runs
    /\ SendAwaited("M280_S115", -1)
    /\ ButtonKept

LidClosed ==
    /\ due /\ due' = FALSE
    /\ SendAll(<<"M750">>)
    /\ blind' = (blind \/ lidLast # "closed")
    /\ UNCHANGED <<mishaps, homed, lidLast, seq, plan, todo, waiter, fault, owed, verdict, runs,
                   spun, fed, misheard>>

-----------------------------------------------------------------------------
(* processLine(): homedTrackRx(), okLedgerRx(), spinLidRx(), okLedgerOk()  *)

\* mutant: a loss is no reason to lock
StaysHomed(what) == homed

\* A halted board is locked by its start.
HomedAfter(what) == homed /\ what = "halted"

\* The lines that fail a run; all but a refusal end what is outstanding.
FaultLine(what) ==
    /\ what \in {"start", "lost", "refused", "halted"}
    /\ SeqFault
    /\ homed' = HomedAfter(what)
    /\ lidLast' = IF what = "start" THEN "unknown" ELSE lidLast
    /\ ledger' = IF what = "refused" THEN ledger ELSE <<>>
    /\ UNCHANGED <<verdict, due, misheard>>

MarkerLine(what) ==
    /\ what = "marker"
    /\ homed' = TRUE
    /\ UNCHANGED <<ledger, lidLast, seq, waiter, fault, verdict, due, misheard>>

\* uvIndexRx(): a line that opens a search takes back what was read before it.
IndexRx(what) ==
    CASE what = "homing"  -> ""
      [] what = "indexed" -> "complete"
      [] OTHER -> verdict

\* spinLidRx(): any line after the marker takes it back.
LidRx(what) == IF what = "complete" THEN "complete" ELSE ""

\* While the block's M750 or M752 is the step in flight.
SpinLine(what) ==
    /\ what \in {"spin", "homing", "indexed", "complete"}
    /\ verdict' = CASE verdict = "none" -> "none"
                    [] todo[1] = "M752" -> IndexRx(what)
                    [] OTHER -> LidRx(what)
    /\ UNCHANGED <<trackVars, seq, waiter, fault, due, misheard>>

\* The ok is that of the oldest entry; a wait given up does not hear it.
OkLine(what) ==
    /\ what = "ok"
    /\ IF ledger = <<>> THEN UNCHANGED <<ledger, seq, waiter, due, misheard>>
       ELSE /\ ledger' = Tail(ledger)
            /\ due' = (due \/ Head(ledger) = -1)
            /\ IF waiter # 0 /\ Head(ledger) = waiter
               THEN /\ waiter' = 0 /\ seq' = "answered"
                    /\ misheard' = (misheard \/ Head(link).id # waiter)
               ELSE UNCHANGED <<seq, waiter, misheard>>
    /\ UNCHANGED <<homed, lidLast, fault, verdict>>

HandleLine ==
    /\ connected /\ link # <<>> /\ seq # "next"
    /\ LET what == Head(link).what IN
          FaultLine(what) \/ MarkerLine(what) \/ SpinLine(what) \/ OkLine(what)
    /\ link' = Tail(link)
    /\ Quiet
    /\ UNCHANGED <<queueVars, mega, cellVars, thrown, connected, mishaps, plan, todo, owed, runs,
                   spun, fed, blind>>

-----------------------------------------------------------------------------

\* The Mega meanwhile; no handler and no boot ends while the page's code runs.
Machine ==
    /\ Firmware
    /\ Busy => mega # "booting" /\ (running = NoLine \/ running' = running)
    /\ UNCHANGED <<trackVars, runVars>>
Accidents == Accident /\ UNCHANGED <<trackVars, runVars>>

\* What was answered first goes on first.
Run == LidClosed \/ (~due /\ (Advance \/ StepDone \/ SleepEnds \/ Unwind))
Buttons == StartRun \/ HomeAll \/ MoveButton \/ StartSpin
Operator == Buttons \/ Stop \/ EmergencyStop \/ Disconnect \/ Connect

Next == Machine \/ Accidents \/ Run \/ Operator \/ Timeout \/ HandleLine

Spec == Init /\ [][Next]_vars

\* The Mega runs, and so does the page's event loop; a timeout need not be near.
Fairness == WF_vars(Machine) /\ WF_vars(Run) /\ WF_vars(HandleLine)

FairSpec == Spec /\ Fairness
=============================================================================
