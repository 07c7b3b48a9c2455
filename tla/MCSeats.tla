-------------------------------- MODULE MCSeats --------------------------------
(***************************************************************************)
(* Instances of Seats for TLC.                                             *)
(***************************************************************************)
EXTENDS Seats, TLC

CONSTANTS p1, p2, w1, w2

People == {p1, p2}
TwoRequests == {w1, w2}
Busy(w) == task'[w] # Idle

\* The instance has parts: members who leave, a plan that changes, or orders of seats;
\* requests in flight at once while there are few rows, or more rows while requests
\* follow one another.  Once two have met about the same row, or an override has left a
\* request behind, what is in flight ends and nothing new starts.
OneSubject ==
    /\ exit' # <<>> => assigned' = 0 /\ order' = <<>>
    /\ Len(membership') + Len(exit') <= 3
    /\ assigned' > 0 => order' = <<>>
    /\ order' # <<>> => Len(membership') <= 1
FewWhenBusy ==
    /\ (\A w \in Worker : Busy(w)) => Len(membership') + Len(exit') + Len(order') + assigned' <= 2
    /\ raced # {} \/ overridden # {} => \A w \in Worker : Busy(w) => task[w] # Idle

\* One freelancer is enough, where the agency has its plan already and everybody is verified;
\* and seats and requests of it come after a join.
Freelancers == {p \in Person : profile[p] = <<Freelancer>>}
PartInit ==
    /\ Init
    /\ Freelancers # {} =>
        Cardinality(Freelancers) = 1 /\ \A a \in Agency, p \in Person : plan[a] # NoPlan /\ verified[p]
JoinsFirst ==
    \A p \in Person : profile'[p][1].status = "INDEPENDENT" =>
        /\ assigned' = 0 /\ order' = <<>> /\ exit' = <<>>
        /\ \A w \in Worker : task'[w] # Idle => task'[w].op \in {"join", "override"}
PartSpec == PartInit /\ [][Next /\ OneSubject /\ FewWhenBusy /\ JoinsFirst]_vars

Symmetry == Permutations(People) \cup Permutations(TwoRequests)
===============================================================================
