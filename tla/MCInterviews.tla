----------------------------- MODULE MCInterviews -----------------------------
(***************************************************************************)
(* Instances of Interviews for TLC.                                        *)
(***************************************************************************)
EXTENDS Interviews, TLC

CONSTANTS c1, c2, a1, a2, w1, w2

TwoClients == {c1, c2}
TwoAgents == {a1, a2}
TwoRequests == {w1, w2}
Busy(w) == task'[w] # Idle
Asks(op) == \E w \in Worker : task'[w].op = op

\* The instance has parts: two agents in one request of two rounds, one of them at most in
\* both; one of them in a second request, with one round each and nobody declining, of
\* another client once requests are in flight at once; or submissions to the opportunity,
\* with one request of one round.  An interview that does not take place is
\* CANCELLED in the first two parts, which NO_SHOW would not tell apart.
Rounds(q) == UNION {DOMAIN q.rounds[a] : a \in Agent}
FromShortlist ==
    /\ submission' = <<>> /\ opportunity' = "OPEN" /\ ~Asks("submit") /\ ~Asks("close")
    /\ standing' = [a \in Agent |-> "DIRECT"]
    /\ \A r \in DOMAIN request' :
        /\ r = 1 => request'[r].client = c1
        /\ \A i \in InterviewsOf(request'[r]) : The(request'[r], i).status # "NO_SHOW"
        /\ Asks("respond") => Rounds(request'[r]) = {}
        /\ Cardinality(InterviewsOf(request'[r])) <= 3
    /\ Len(request') = 2 =>
        /\ \A a \in CandidatesOf(request'[2]) : CandidatesOf(request'[2]) = {a}
        /\ \A r \in 1..2 :
            /\ Rounds(request'[r]) \subseteq {1}
            /\ \A a \in CandidatesOf(request'[r]) : request'[r].candidate[a] = "PENDING"
        /\ ~Asks("respond")
        /\ (\A w \in Worker : Busy(w)) => request'[2].client = c2
FromOpportunity ==
    /\ Len(request') <= 1
    /\ \A r \in DOMAIN request' :
        /\ \E s \in DOMAIN submission' : submission'[s].request = r
        /\ Rounds(request'[r]) \subseteq {1}
    /\ ~Asks("respond")
\* Requests in flight at once while there is one row and one round.  Once two have met
\* about the same row, what is in flight ends and nothing new starts.  Notes are written
\* beside another request, as alone they change nothing.
Noting(w) ==
    task[w] = Idle /\ task'[w].op = "move" /\ task'[w].to = request[task'[w].r].status
FewWhenBusy ==
    /\ (\E w \in Worker : Noting(w)) => \A w \in Worker : Busy(w)
    /\ (\A w \in Worker : Busy(w)) =>
        /\ Len(request') + Len(submission') <= 2 /\ ~Asks("respond")
        /\ \A r \in DOMAIN request' : Rounds(request'[r]) \subseteq {1}
    /\ raced # {} => \E w \in Worker : task[w] # Idle /\ task'[w] # task[w]
PartSpec == Init /\ [][Next /\ (FromShortlist \/ FromOpportunity) /\ FewWhenBusy]_vars

Symmetry == Permutations(TwoAgents) \cup Permutations(TwoRequests)
===============================================================================
