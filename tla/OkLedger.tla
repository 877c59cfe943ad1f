------------------------------ MODULE OkLedger ------------------------------
(***************************************************************************)
(* How a page on the bridge finds the "ok" of its own command (issue #48,  *)
(* #180): okLedger and wsOwnPending of RMR_Controller.html.  A "step" is a *)
(* command whose sender waits for its "ok": a line of the Program Runner   *)
(* or a command of the Process Sequencer.                                  *)
(***************************************************************************)
EXTENDS Bridge

CONSTANTS
    TextsOf,    \* the commands that each page sends
    LedgerMax   \* OK_LEDGER_MAX

ASSUME LedgerAssumption ==
    /\ LedgerMax \in Nat /\ "M410" \in Kinds
    /\ \A c \in Clients : TextsOf[c] \subseteq Kinds

VARIABLES
    ledger,     \* okLedger: the steps of the unanswered commands, 0 for none
    pending,    \* wsOwnPending: own commands whose echo is still to come
    waiter,     \* seqWaiter: the step that is waited for, or 0
    steps       \* steps started so far

pageVars == <<ledger, pending, waiter, steps>>
vars == <<queueVars, printed, mega, wire, bridgeVars, linkVars, histVars, pageVars>>

TypeOK ==
    /\ BridgeTypeOK
    /\ ledger \in [Clients -> Seq(Nat)]
    /\ pending \in [Clients -> Seq([text : Kinds, step : Nat])]
    /\ waiter \in [Clients -> Nat] /\ steps \in [Clients -> Nat]
    /\ \A c \in Clients : Len(ledger[c]) <= LedgerMax

Init ==
    /\ BridgeInit
    /\ ledger = [c \in Clients |-> <<>>] /\ pending = [c \in Clients |-> <<>>]
    /\ waiter = [c \in Clients |-> 0] /\ steps = [c \in Clients |-> 0]

-----------------------------------------------------------------------------
(* Sending                                                                 *)

\* sendCmd(): the command and what waits for it.
SendCmd(c, text, step) ==
    /\ conn[c] /\ issued < MaxLines
    /\ issued' = issued + 1
    /\ outbox' = [outbox EXCEPT ![c] = Append(@, [text |-> text, step |-> step])]
    /\ pending' = [pending EXCEPT ![c] = Append(@, [text |-> text, step |-> step])]
    /\ Quiet
    /\ UNCHANGED <<queueVars, mega, wire, bridgeVars, conn, inbox, mishaps, origin, dropped, ledger>>

\* A jog, a poll, a console command: nobody waits.
SendOnly(c) ==
    /\ \E text \in TextsOf[c] : SendCmd(c, text, 0)
    /\ UNCHANGED <<waiter, steps>>

\* seqCmd(), progSendNext()
Step(c) ==
    /\ waiter[c] = 0
    /\ steps' = [steps EXCEPT ![c] = @ + 1]
    /\ waiter' = [waiter EXCEPT ![c] = steps'[c]]
    /\ \E text \in TextsOf[c] : SendCmd(c, text, steps'[c])

GivesUp(c) == waiter' = [waiter EXCEPT ![c] = 0]

\* seqStop() of a sequence that has started, with its M410
Stop(c) ==
    /\ "Stop" \in Events /\ steps[c] # 0 /\ GivesUp(c)
    /\ SendCmd(c, "M410", 0)
    /\ UNCHANGED steps

\* seqAwaitOk() has waited too long; a program is stopped.
Timeout(c) ==
    /\ "Timeout" \in Events /\ waiter[c] # 0 /\ GivesUp(c)
    /\ Quiet
    /\ UNCHANGED <<queueVars, mega, wire, bridgeVars, linkVars, histVars, ledger, pending, steps>>

-----------------------------------------------------------------------------
(* handleWSMessage()                                                       *)

\* mutant: the ledger is kept
OkLedgerLostNothing(c) == UNCHANGED <<ledger, waiter>>

\* okLedgerLost(): nothing can be attributed any more, a waiting step fails.
OkLedgerLost(c) ==
    /\ ledger' = [ledger EXCEPT ![c] = <<>>]
    /\ waiter' = [waiter EXCEPT ![c] = 0]

\* mutant: the ledger grows without bound
OkLedgerAddAlways(c, step) ==
    ledger' = [ledger EXCEPT ![c] = Append(@, step)] /\ UNCHANGED waiter

\* A ledger longer than Marlin's buffers is out of step.
OkLedgerAdd(c, step) ==
    IF Len(ledger[c]) < LedgerMax
    THEN ledger' = [ledger EXCEPT ![c] = Append(@, step)] /\ UNCHANGED waiter
    ELSE OkLedgerLost(c)

\* mutant: the first pending command is taken for any echo
OwnUnseen(c, msg) == pending[c] # <<>>

\* The echo is that of this page's oldest pending command.
Own(c, msg) ==
    /\ msg.what = "tx" /\ pending[c] # <<>>
    /\ Head(pending[c]).text = msg.text

OkLedgerEcho(c, msg) ==
    /\ msg.what \in {"tx", "button"}
    /\ IF Own(c, msg)
       THEN /\ pending' = [pending EXCEPT ![c] = Tail(@)]
            /\ OkLedgerAdd(c, Head(pending[c]).step)
       ELSE OkLedgerAdd(c, 0) /\ UNCHANGED pending

\* mutant: any step's ok ends the wait
ResolvesAny(c, step) == step # 0

\* seqOnOk(), progOnOk(): a late ok of an earlier step does nothing.
Resolves(c, step) == step # 0 /\ step = waiter[c]

OkLedgerOk(c, msg) ==
    /\ msg.what = "ok"
    /\ IF ledger[c] = <<>> THEN UNCHANGED <<ledger, waiter>>
       ELSE /\ ledger' = [ledger EXCEPT ![c] = Tail(@)]
            /\ waiter' = [waiter EXCEPT ![c] = IF Resolves(c, Head(ledger[c])) THEN 0 ELSE @]
    /\ UNCHANGED pending

\* okLedgerRx(), a status or an error of the bridge
Unanswered(c, msg) ==
    /\ msg.what \in {"start", "lost", "halted", "open", "closed", "error"}
    /\ OkLedgerLost(c)
    /\ UNCHANGED pending

HandleMessage(c) ==
    /\ inbox[c] # <<>>
    /\ LET msg == Head(inbox[c]) IN
          OkLedgerEcho(c, msg) \/ OkLedgerOk(c, msg) \/ Unanswered(c, msg)
    /\ inbox' = [inbox EXCEPT ![c] = Tail(@)]
    /\ Quiet
    /\ UNCHANGED <<queueVars, mega, wire, bridgeVars, conn, outbox, histVars, steps>>

\* setConnected()
SetConnected(c) ==
    /\ Accepts(c) \/ Loses(c)
    /\ pending' = [pending EXCEPT ![c] = <<>>]
    /\ OkLedgerLost(c)
    /\ UNCHANGED steps

PageStep ==
    \E c \in Clients :
        SendOnly(c) \/ Step(c) \/ Stop(c) \/ Timeout(c) \/ HandleMessage(c) \/ SetConnected(c)

Next == (BridgeStep /\ UNCHANGED pageVars) \/ PageStep

Spec == Init /\ [][Next]_vars

\* The Mega, the bridge's threads and the pages' event loops keep running.
Fairness ==
    /\ WF_vars((MegaFetches \/ MegaCarriesOut \/ Boots) /\ UNCHANGED pageVars)
    /\ WF_vars((WriteBegins /\ UNCHANGED issued) /\ UNCHANGED pageVars)
    /\ WF_vars(WriteEnds /\ UNCHANGED pageVars)
    /\ WF_vars(ReportsDropped /\ UNCHANGED pageVars)
    /\ WF_vars((ReadsLine \/ ClosesPort \/ TellsStatus) /\ UNCHANGED pageVars)
    /\ \A c \in Clients : WF_vars(HandleMessage(c))

FairSpec == Spec /\ Fairness
=============================================================================
