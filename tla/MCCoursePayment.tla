---------------------------- MODULE MCCoursePayment ----------------------------
(***************************************************************************)
(* Instances of CoursePayment for TLC.                                     *)
(***************************************************************************)
EXTENDS CoursePayment, TLC

CONSTANTS e1, e2, a1, a2, w1, w2, half, gratis

OneEnrolment == {e1}
TwoEnrolments == {e1, e2}
OneAttempt == {a1}
TwoAttempts == {a1, a2}
TwoWorkers == {w1, w2}
NoAttempt == {}
NoCode == {}
HalfAndFree == {half, gratis}

\* Both enrolments belong to one learner.
OneLearner == [e \in Enrolment |-> "learner"]

\* The list price is 4; a code halves it or makes the course free.
Discounted == [c \in Code |-> IF c = half THEN 2 ELSE 0]
\* One limit binds for each code: half can be used once, gratis once per learner.
Uses == [c \in Code |-> IF c = half THEN 1 ELSE 2]
UsesEach == [c \in Code |-> IF c = half THEN 2 ELSE 1]

\* The instance has two parts: one enrolment paid for online or by hand without codes,
\* and two enrolments with codes paid for by hand.
PaidOnline == coded' = {} /\ enrolment'[e2].status = "NONE"
PaidWithCodes == \A a \in Attempt : attempt'[a].status = "NONE"
TwoParts == PaidOnline \/ PaidWithCodes

Symmetry == Permutations(TwoWorkers) \cup Permutations(Attempt)
===============================================================================
