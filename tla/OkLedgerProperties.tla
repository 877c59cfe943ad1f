------------------------- MODULE OkLedgerProperties -------------------------
(* What a page may conclude from an "ok".                                  *)
EXTENDS OkLedger

\* The next message of c is an "ok" that ends the wait of its step.
Completes(c) ==
    /\ inbox[c] # <<>> /\ Head(inbox[c]).what = "ok" /\ inbox'[c] = Tail(inbox[c])
    /\ conn[c] /\ conn'[c]
    /\ waiter[c] # 0 /\ waiter'[c] = 0

\* RMR_Controller.html: no step advances on an "ok" that another page, the
\* button or a fire-and-forget send earned: by then the Mega has answered the
\* step's own line.
StepNotEarly ==
    [][\A c \in Clients : Completes(c) =>
          \E j \in 1..Head(inbox[c]).id : origin[j] = <<c, waiter[c]>>]_vars

\* Nothing is on its way between the pages, the bridge and a running Mega.
Settled ==
    /\ mega = "up" /\ rx = <<>> /\ ring = <<>> /\ running = NoLine /\ wire = <<>>
    /\ port = "open" /\ writing = NoWrite /\ failing = 0
    /\ \A c \in Clients : outbox[c] = <<>> /\ inbox[c] = <<>>

\* Once everything is answered nobody is left waiting: no step, no ledger entry
\* that would take the "ok" of a later command, no command without its echo,
\* unless the receive buffer has dropped a line.
NobodyForgotten ==
    Settled /\ ~dropped =>
        \A c \in Clients : ledger[c] = <<>> /\ pending[c] = <<>> /\ waiter[c] = 0

\* A step comes to its end.
StepEnds ==
    \A c \in Clients : waiter[c] # 0 ~> (waiter[c] = 0 \/ dropped \/ mega = "halted")
=============================================================================
