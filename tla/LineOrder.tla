----------------------------- MODULE LineOrder -----------------------------
(***************************************************************************)
(* What the operator and the two user interfaces rely on: a command line   *)
(* is carried out at most once, one line at a time, and in the order in    *)
(* which the lines were sent.  Lines may be dropped: nothing in the serial *)
(* protocol resends them.                                                  *)
(***************************************************************************)
EXTENDS Naturals

VARIABLES
    sent,       \* lines sent so far; the n-th line is line n
    last,       \* the last line that was started, 0 at first
    current     \* the line that runs, 0 for none

vars == <<sent, last, current>>

Init == sent = 0 /\ last = 0 /\ current = 0

Send ==
    /\ sent' = sent + 1
    /\ UNCHANGED <<last, current>>

\* A line that waits for nothing starts and ends in one step.
Start ==
    /\ current = 0
    /\ \E line \in (last + 1)..sent :
          last' = line /\ current' \in {0, line}
    /\ UNCHANGED sent

\* The line ends, or a reset cuts it off.
End ==
    /\ current' = 0
    /\ UNCHANGED <<sent, last>>

Next == Send \/ Start \/ End

Spec == Init /\ [][Next]_vars
=============================================================================
