----------------------------- MODULE MCPlacement -----------------------------
(***************************************************************************)
(* Instances of Placement for TLC.                                         *)
(***************************************************************************)
EXTENDS Placement, TLC

CONSTANTS c1, c2, w1, w2

OneClient == {c1}
TwoClients == {c1, c2}
OneWorker == {w1}
TwoWorkers == {w1, w2}

\* The instance has two parts.  The placement of one client with its billing, two requests
\* at a time (once two have met, only billing and activation go on), where staff leave the
\* holds alone and the checklist is not undone.  And two clients who want the agent, with
\* all work on holds, one request at a time, where every deposit is 1 and is waived, and
\* where staff change the availability by hand or extend a hold while there is one at most.
\* Whichever of the clients has the first hold is called c1.
HoldWork == {"reserve", "reserved", "extend", "release", "expire", "bulk"}
BillWork == {"pay", "tallied", "recalculate", "void"}
OneDeal ==
    /\ overlapped => \A w \in Worker :
        task[w] = Idle => task'[w].op \in BillWork \cup {"idle", "waive", "activate"}
    /\ Len(hold') <= 1 /\ \A h \in DOMAIN hold' : ~hold'[h].due
    /\ placement'[c2].status = "NONE" /\ availability' # "UNAVAILABLE"
    /\ \A w \in Worker :
        /\ task'[w].op \notin HoldWork
        /\ task'[w] # Idle => task'[w].c = c1
        /\ task'[w].op = "prepare" => task'[w].ready
TwoDeals ==
    /\ ~overlapped'
    /\ \A w \in Worker : task'[w].op \in {"bulk", "extend"} => Len(hold) <= 1
    /\ \A c \in Client : \A i \in DOMAIN invoice'[c] :
        i = 1 /\ invoice'[c][i].amount = 1 /\ invoice'[c][i].paid = 0
    /\ \A w \in Worker :
        /\ task'[w].op \notin BillWork
        /\ task'[w].op = "approve" => task'[w].amount = 1
FirstIsC1 == hold' # <<>> => hold'[1].client = c1
TwoParts == (OneDeal \/ TwoDeals) /\ FirstIsC1

Symmetry == Permutations(Worker)
===============================================================================
