-------------------------------- MODULE MCOutbox --------------------------------
(***************************************************************************)
(* Instances of Outbox for TLC.                                            *)
(***************************************************************************)
EXTENDS Outbox

CONSTANTS e1, e2, k1, k2, j1, m1, w1, w2

TwoEvents == {e1, e2}
TwoKeys == {k1, k2}
\* Both events tell k1, whose dedupeKey holds the time; k2 is told by one of them.
Keys == [e \in TwoEvents |-> IF e = e1 THEN {k1} ELSE {k1, k2}]
\* One of the notifications is mailed as well.
Mails == [j \in {j1} |-> <<<<k2, 0>>, 1>>]
TwoProcesses == {w1, w2}

\* The instance has three parts: a second event and faults; a second event and time that
\* passes; a mail that a request sends itself, and faults.  None of these ever has to happen,
\* so nothing is kept from a process that must go on.
OneOfThem ==
    /\ event'[e2].state = "NONE" \/ job'[m1].status = "NONE"
    /\ period' = 0 \/ (faults' = 0 /\ job'[m1].status = "NONE")
ThreePartSpec == OutboxInit /\ [][OutboxNext /\ OneOfThem]_outboxVars /\ Fairness
===============================================================================
