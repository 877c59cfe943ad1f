----------------------------- MODULE MCOkLedger -----------------------------
EXTENDS OkLedgerProperties

\* Two pages that never send the same text, and two that do.
OwnTexts == [c \in Clients |-> IF c = "panel" THEN {"G28"} ELSE {"G0"}]
SameTexts == [c \in Clients |-> {"G0"}]
=============================================================================
