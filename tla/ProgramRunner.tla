--------------------------- MODULE ProgramRunner ---------------------------
(***************************************************************************)
(* The Program Runner of RMR_Controller.html beside the Process Sequencer, *)
(* on the same page, ledger and machine.  Nothing keeps the two from       *)
(* running at once; here the operator starts one when the other has ended. *)
(* The ledger entry of a line that the runner waits for is -1 - id.        *)
(***************************************************************************)
EXTENDS Sequencer

CONSTANT Scripts    \* what the operator has in the text area

ASSUME ScriptsAssumption == Scripts \subseteq Seq(Kinds)

VARIABLES
    prog,       \* progRunning and progPaused: "off", "on" or "paused"
    lines,      \* progLines from progIndex on
    awaits,     \* the line of progOkToken while progWaitingOk, or 0
    homes,      \* progHomePending
    sending,    \* "timer": progNextTimer; before anything else comes progOnOk()
                \* if "answered" and progSendNext() if "now"; or "no"
    \* History, read by the properties only:
    last,       \* the line that the run has sent last, if it waits for it, or 0
    mistaken    \* the ok of another line was taken for that of a line of the run

progVars == <<prog, lines, awaits, homes, sending, last, mistaken>>
pageVars == <<vars, progVars>>

\* Types; and a line that is waited for belongs to a run, which has no timer
\* then, and a run that has ended leaves no timer behind (progStop).
RunnerTypeOK ==
    /\ prog \in {"off", "on", "paused"} /\ lines \in Seq(Kinds)
    /\ awaits \in Nat /\ homes \in BOOLEAN
    /\ sending \in {"no", "timer", "answered", "now"}
    /\ last \in Nat /\ mistaken \in BOOLEAN
    /\ awaits # 0 => prog # "off" /\ sending \in {"no", "answered"}
    /\ prog = "off" => sending = "no"

RunnerInit ==
    /\ Init
    /\ prog = "off" /\ lines = <<>> /\ awaits = 0 /\ homes = FALSE /\ sending = "no"
    /\ last = 0 /\ mistaken = FALSE

SequencerKept == UNCHANGED <<seq, plan, todo, waiter, fault, owed, verdict, due, spun, fed,
                             blind, misheard>>

-----------------------------------------------------------------------------
(* progSendNext()                                                          *)

\* mutant: the timer goes on
ProgStopOnly ==
    /\ prog' = "off" /\ lines' = <<>> /\ awaits' = 0
    /\ last' = 0 /\ mistaken' = FALSE
    /\ UNCHANGED <<homes, sending>>

\* progStop(), progComplete(); progHomePending stays as it is.
ProgStop ==
    /\ prog' = "off" /\ lines' = <<>> /\ awaits' = 0 /\ sending' = "no"
    /\ last' = 0 /\ mistaken' = FALSE
    /\ UNCHANGED homes

\* sendCmd() without a connection only tells the operator.
SendLineOf(kind, wait) ==
    \/ connected /\ SendAwaited(kind, IF wait THEN -2 - sent ELSE 0)
    \/ ~connected /\ NothingSent /\ UNCHANGED trackVars

\* The "Wait for ok" box is looked at for each line.
ProgSend(wait) ==
    /\ prog = "on" /\ lines # <<>>
    /\ SendLineOf(lines[1], wait)
    /\ lines' = Tail(lines)
    /\ awaits' = IF wait THEN sent + 1 ELSE 0
    /\ homes' = IF wait THEN lines[1] = "G28" ELSE homes
    /\ sending' = IF wait THEN "no" ELSE "timer"
    /\ last' = awaits'
    /\ UNCHANGED <<prog, mistaken>>

ProgSendNext ==
    /\ sending = "now" \/ (sending = "timer" /\ ~Busy /\ TimePasses)
    /\ \/ \E wait \in BOOLEAN : ProgSend(wait)
       \/ /\ prog = "on" /\ lines = <<>> /\ ProgStop
          /\ NothingSent /\ UNCHANGED trackVars
       \/ /\ prog = "paused" /\ sending' = "no"
          /\ NothingSent
          /\ UNCHANGED <<trackVars, prog, lines, awaits, homes, last, mistaken>>
    /\ UNCHANGED <<mishaps, runVars>>

\* progOnOk(), for the line that the run waits for
ProgOnOk ==
    /\ sending = "answered"
    /\ awaits' = 0
    /\ homed' = (homed \/ homes) /\ homes' = FALSE
    /\ sending' = IF prog = "on" THEN "now" ELSE "no"
    /\ NothingSent
    /\ UNCHANGED <<mishaps, ledger, lidLast, runVars, prog, lines, last, mistaken>>

-----------------------------------------------------------------------------
(* The operator.                                                           *)

\* progRun()
ProgRun ==
    /\ prog = "off" /\ seq = "idle" /\ ~due /\ TimePasses /\ runs < MaxRuns
    /\ runs' = runs + 1
    /\ prog' = "on" /\ lines' \in Scripts /\ awaits' = 0 /\ sending' = "now"
    /\ last' = 0 /\ mistaken' = FALSE
    /\ NothingSent /\ SequencerKept
    /\ UNCHANGED <<mishaps, trackVars, homes>>

\* Pause and Stop are counted with what happens out of order.
Interrupts ==
    /\ ~Busy /\ Attentive
    /\ mishaps < MaxMishaps /\ mishaps' = mishaps + 1
    /\ NothingSent /\ UNCHANGED <<trackVars, runVars>>

ProgPause ==
    /\ prog = "on" /\ Interrupts
    /\ prog' = "paused"
    /\ UNCHANGED <<lines, awaits, homes, sending, last, mistaken>>

\* The Stop button sends nothing.
ProgStopButton == prog # "off" /\ Interrupts /\ ProgStop

\* progResume(): whether nothing else will send the next line.
ResumeSends == awaits = 0 /\ sending # "timer"

ProgResume ==
    /\ prog = "paused" /\ ~Busy /\ Attentive
    /\ prog' = "on"
    /\ sending' = IF ResumeSends THEN "now" ELSE sending
    /\ NothingSent
    /\ UNCHANGED <<mishaps, trackVars, runVars, lines, awaits, homes, last, mistaken>>

-----------------------------------------------------------------------------
(* What the page does for both.                                            *)

\* mutant: the token is not compared
AnyAnswers(entry) == awaits # 0

\* A stopped run's late ok carries another token.
Answers(entry) == awaits # 0 /\ entry = -1 - awaits

\* mutant: only a halted board halts the run
LosesHalted(what) == what = "halted"

\* okLedgerLost() halts a run; a refused move does not.
Loses(what) == what \in {"start", "lost", "halted"}

ProgHears ==
    LET heard == Head(link)
        own == heard.what = "ok" /\ ledger # <<>> /\ Answers(Head(ledger)) IN
    \/ Loses(heard.what) /\ ProgStop
    \/ /\ ~Loses(heard.what)
       /\ sending' = IF own THEN "answered" ELSE sending
       /\ mistaken' = (mistaken \/ (own /\ Head(ledger) = -1 - awaits /\ heard.id # awaits))
       /\ UNCHANGED <<prog, lines, awaits, homes, last>>

\* progOnOk() and the sending it leads to are one run of code with what calls them.
Undisturbed == sending \notin {"answered", "now"}

Device == Undisturbed /\ (Machine \/ Accidents) /\ UNCHANGED progVars
Hears == Undisturbed /\ HandleLine /\ ProgHears
SequencerRuns == Undisturbed /\ (Run \/ Timeout \/ Stop) /\ UNCHANGED progVars
SequencerStarts == prog = "off" /\ Buttons /\ UNCHANGED progVars
\* emergencyStop(), setConnected()
LinkLost == Undisturbed /\ (EmergencyStop \/ Disconnect \/ Connect) /\ ProgStop

RunnerNext ==
    \/ ProgSendNext \/ ProgOnOk \/ ProgRun
    \/ Undisturbed /\ (ProgPause \/ ProgStopButton \/ ProgResume)
    \/ Device \/ Hears \/ SequencerRuns \/ SequencerStarts \/ LinkLost

RunnerSpec == RunnerInit /\ [][RunnerNext]_pageVars

\* As for the Sequencer: the Mega runs, and so does the page's event loop.
RunnerFairness ==
    /\ WF_pageVars(Undisturbed /\ Machine /\ UNCHANGED progVars)
    /\ WF_pageVars(Undisturbed /\ Run /\ UNCHANGED progVars)
    /\ WF_pageVars(Hears)
    /\ WF_pageVars(ProgSendNext \/ ProgOnOk)

RunnerFairSpec == RunnerSpec /\ RunnerFairness

-----------------------------------------------------------------------------

Underway(id) == id > lastStarted \/ running.id = id

\* The runner sends another line, or says "Complete".
MovesOn ==
    IF prog' = "off" THEN sending = "now" ELSE lines' # lines

\* The runner moves on from a line it waited for, to the next or to "Complete",
\* only when the Mega has carried that line out: Resume does not put a second
\* line in flight, nor does a stopped run's late ok (progResume, progSendNext).
\* An ok that a loss has put out of step may be mistaken.
OneLineInFlight ==
    [][last # 0 /\ MovesOn => ~Underway(last) \/ mistaken]_pageVars

\* A sequence ends without help from its timeouts, and a program that is not
\* paused and has a connection, unless the board is halted.
RunsEnd ==
    seq # "idle" \/ (prog = "on" /\ connected)
        ~> (seq = "idle" /\ prog # "on") \/ mega = "halted"
=============================================================================
