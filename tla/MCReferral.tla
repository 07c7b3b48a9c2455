------------------------------ MODULE MCReferral ------------------------------
(***************************************************************************)
(* Instances of Referral for TLC.                                          *)
(***************************************************************************)
EXTENDS Referral, TLC

CONSTANTS c1, c2, p1, p2, w1, w2

OneSale == {c1}
TwoSales == {c1, c2}
OnePayout == {p1}
TwoPayouts == {p1, p2}
OneWorker == {w1}
TwoWorkers == {w1, w2}

\* At 30% the commissions are 3 and 2; a part-refund of 4 takes back 1 of 3, the share
\* rounded down.
Prices == [c \in Commission |-> IF c = c1 THEN 10 ELSE 7]

Signed == {-3, 3}
Deduction == {-1}

\* Two sales while transactions follow one another, one once they overlap, with no manual
\* adjustment beside another.
OverlapOnFirst == overlapped' =>
    /\ commission'[c2].status = "NONE"
    /\ \/ Len(adjustments') <= 1
       \/ \A i \in DOMAIN adjustments' : adjustments'[i].kind = "REFUND"
OverlapSpec == Init /\ [][Next /\ OverlapOnFirst]_vars

Symmetry == Permutations(Payout) \cup Permutations(Worker)
===============================================================================
