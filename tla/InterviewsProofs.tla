--------------------------- MODULE InterviewsProofs ---------------------------
(***************************************************************************)
(* What holds of Interviews for any number of clients, agents, rows and    *)
(* requests in flight.                                                     *)
(*                                                                         *)
(* Each invariant says two things: that the rows agree with each other,    *)
(* and that what a request in flight has read of them is what there is.    *)
(* Both hold of a row until two requests in flight at once have been about *)
(* it (raced).  RowInv is about the requests; EntryInv adds the            *)
(* submissions, OpenInv the opportunity, AgentInv the agents.              *)
(***************************************************************************)
EXTENDS Interviews, SequenceTheorems, TLAPS

RowOps == {"move", "respond", "schedule", "cancel", "complete", "completing", "decide", "deciding"}
InterviewOps == {"complete", "completing", "decide", "deciding"}
Ops == RowOps \cup {"idle", "submit", "answer", "invite", "close"}

\* What a request in flight names exists, and it is about what it will write.
Refers(t) ==
    /\ t.op \in Ops
    /\ t.op \in RowOps => t.r \in DOMAIN request /\ Row(t.r) \in t.about
    /\ t.op = "move" => t.to \in RequestStatus
    /\ t.op = "respond" => t.a \in CandidatesOf(request[t.r]) /\ t.answer \in {"CONFIRMED", "DECLINED"}
    /\ t.op = "schedule" =>
        /\ t.A # {} /\ t.A \subseteq CandidatesOf(request[t.r]) /\ t.free \subseteq t.A
        /\ \A a \in t.A : Talent(a) \in t.about
    /\ t.op = "cancel" => t.busy \subseteq CandidatesOf(request[t.r])
    /\ t.op \in {"cancel", "decide", "deciding"} =>
        \A a \in CandidatesOf(request[t.r]) : Talent(a) \in t.about
    /\ t.op \in InterviewOps => <<t.a, t.k>> \in InterviewsOf(request[t.r])
    /\ t.op \in {"complete", "completing"} => t.outcome \in Outcome
    /\ t.op \in {"decide", "deciding"} => t.decision \in Decision
    /\ t.op = "deciding" =>
        /\ t.decision # "SECOND_INTERVIEW"
        /\ t.synced \subseteq DOMAIN submission
        /\ t.synced # {} => t.decision \in Final
        /\ t.freed \subseteq CandidatesOf(request[t.r])
        /\ t.holds => t.decision = "SELECTED"
        /\ t.freed # {} => t.closes
    /\ t.op = "submit" => t.a \in Agent /\ t.agency \in BOOLEAN /\ {Talent(t.a), Opening} \subseteq t.about
    /\ t.op = "answer" =>
        /\ t.s \in DOMAIN submission /\ Entry(t.s) \in t.about
        /\ t.to \in {"APPROVED_FOR_CLIENT", "DECLINED", "WITHDRAWN"}
    /\ t.op \in {"invite", "close"} =>
        /\ t.S \subseteq DOMAIN submission /\ Opening \in t.about
        /\ \A s \in t.S : Entry(s) \in t.about
    /\ t.op = "close" => t.to \in {"FILLED", "CLOSED"}

TasksOK ==
    /\ \E T : task \in [Worker -> T]
    /\ \A w \in Worker : Refers(task[w])
OneByOne == \A v, w \in Worker : v # w => task[v].about \cap task[w].about \subseteq raced
Interviewed == \A r \in DOMAIN request : \A i \in InterviewsOf(request[r]) : i[1] \in CandidatesOf(request[r])
EntriesOK == \A s \in DOMAIN submission : submission[s].request \in 0..Len(request)

\* A request, while what is in flight about it follows one another.
Consistent(q) ==
    /\ q.status = "SCHEDULED" <=> ScheduledIn(q) # {}
    /\ q.status \in {"REQUESTED", "SALES_REVIEW"} => InterviewsOf(q) = {}
    /\ q.status = "CLOSED" => AllDecided(q)
    /\ q.status \in OpenRequestStatus /\ AllDecided(q) => \A i \in InterviewsOf(q) : The(q, i).status # "COMPLETED"
    /\ \A i \in InterviewsOf(q) : The(q, i).status # "COMPLETED" => The(q, i).decision = "NONE"
RowsOK == \A r \in DOMAIN request : Row(r) \notin raced => Consistent(request[r])

\* An agent, in the same sense.
Mine(a) == {r \in DOMAIN request : a \in CandidatesOf(request[r])}
Clean(a) == Talent(a) \notin raced /\ \A r \in Mine(a) : Row(r) \notin raced
OpenOf(a) == {r \in Mine(a) : request[r].status \in OpenRequestStatus}
ScheduledFor(a) == {r \in DOMAIN request : \E i \in ScheduledIn(request[r]) : i[1] = a}
HeldOK(a) ==
    Talent(a) \notin raced =>
        /\ availability[a] = "RESERVED" <=> hold[a] # NoHold
        /\ hold[a] # NoHold => hold[a].before # "RESERVED"
FreeOK(a) ==
    Clean(a) /\ a \notin restored =>
        /\ availability[a] = "AVAILABLE" => ScheduledFor(a) = {}
        /\ availability[a] = "INTERVIEWING" => OpenOf(a) # {}
        /\ \A r \in Mine(a) : Decided(request[r], a, "SELECTED") => hold[a] # NoHold
AgentsOK == \A a \in Agent : HeldOK(a) /\ FreeOK(a)

\* A submission in a request does not wait to be taken into one.
WaitingStatus == {"PENDING_REVIEW", "APPROVED_FOR_CLIENT"}
InvitedOK ==
    \A s \in DOMAIN submission :
        Entry(s) \notin raced /\ submission[s].request # NoRequest => submission[s].status \notin WaitingStatus

\* What a request in flight has read is what there is.
MoveOf(q, to) == to = q.status \/ (q.status \in DOMAIN Handover /\ to = Handover[q.status])
With(q, t) == [q EXCEPT !.rounds[t.a][t.k].decision = t.decision]
CurrentRow(t, q) ==
    /\ t.op = "move" => MoveOf(q, t.to)
    /\ t.op = "schedule" => q.status = "CANDIDATE_CONFIRMATION"
    /\ t.op = "cancel" => q.status \in Cancellable
    /\ t.op \in {"complete", "completing"} => <<t.a, t.k>> \in ScheduledIn(q)
    /\ t.op = "completing" => (t.last <=> NoneAhead(q, <<t.a, t.k>>) /\ q.status = "SCHEDULED")
    /\ t.op \in {"decide", "deciding"} =>
        /\ q.status = "CLIENT_DECISION_PENDING"
        /\ q.rounds[t.a][t.k].status = "COMPLETED"
        /\ q.rounds[t.a][t.k].decision \notin Final
    /\ t.op = "deciding" => (t.closes <=> AllDecided(With(q, t)))
CurrentTalent(t, a) ==
    /\ t.op = "schedule" /\ a \in t.A => (a \in t.free <=> availability[a] = "AVAILABLE")
    /\ t.op = "cancel" /\ a \in CandidatesOf(request[t.r]) => (a \in t.busy <=> availability[a] = "INTERVIEWING")
    /\ t.op = "deciding" /\ a = t.a =>
        /\ t.holds => hold[a] = NoHold
        /\ t.decision = "SELECTED" /\ ~t.holds => hold[a] # NoHold
    /\ t.op = "deciding" /\ a \in t.freed =>
        /\ availability[a] = "INTERVIEWING"
        /\ Clean(a) => ~BusyElsewhere(a, t.r)
    /\ t.op = "deciding" /\ t.closes /\ a \in CandidatesOf(request[t.r]) \ t.freed /\ Clean(a)
            /\ availability[a] = "INTERVIEWING" =>
        \/ Decided(With(request[t.r], t), a, "SELECTED")
        \/ OpenOf(a) \ {t.r} # {}
CurrentEntry(t, s) ==
    /\ t.op = "decide" /\ s \in Synced(t.r, t.a) => Entry(s) \in t.about
    /\ t.op = "deciding" /\ s \in t.synced =>
        /\ Entry(s) \in t.about
        /\ submission[s].request = t.r /\ submission[s].agent = t.a
    /\ t.op = "answer" /\ s = t.s => submission[s].status \in WaitingStatus
    /\ t.op = "invite" /\ s \in t.S => submission[s].status = "APPROVED_FOR_CLIENT"
SyncsAll(t) ==
    t.op = "deciding" /\ t.decision \in Final =>
        \A s \in DOMAIN submission :
            submission[s].request = t.r /\ submission[s].agent = t.a /\ submission[s].status = "INTERVIEWING"
                => s \in t.synced
CurrentOpening(t) ==
    /\ t.op = "submit" =>
        /\ opportunity \notin {"FILLED", "CLOSED"}
        /\ \A s \in OpenFor(t.a) : Entry(s) \in raced
        /\ t.agency => standing[t.a] = "MEMBER" \/ Talent(t.a) \in raced
    /\ t.op = "close" => \A s \in Waiting : s \in t.S \/ Entry(s) \in raced

-------------------------------------------------------------------------------
(***************************************************************************)
(* What the operators do to a request                                      *)
(***************************************************************************)
RequestRow ==
    [client: Client, status: RequestStatus, candidate: [Agent -> CandidateStatus],
     rounds: [Agent -> Seq(Interview)]]

\* p has the interviews of q, but for what happened to those in I.
SameBut(q, p, I) ==
    /\ p \in RequestRow
    /\ p.client = q.client
    /\ CandidatesOf(p) = CandidatesOf(q)
    /\ InterviewsOf(p) = InterviewsOf(q)
    /\ \A i \in InterviewsOf(q) \ I : The(p, i) = The(q, i)

LEMMA InterviewType ==
    ASSUME NEW q \in RequestRow, NEW i \in InterviewsOf(q)
    PROVE  The(q, i) \in Interview /\ i = <<i[1], i[2]>> /\ i[1] \in Agent /\ i[2] \in DOMAIN q.rounds[i[1]]
BY DEF RequestRow, InterviewsOf, The

\* The status of a request changes, or a candidate's.
LEMMA StatusChanges ==
    ASSUME NEW q \in RequestRow, NEW s \in RequestStatus, NEW p, p = [q EXCEPT !.status = s]
    PROVE  SameBut(q, p, {}) /\ p.status = s
BY DEF RequestRow, SameBut, CandidatesOf, InterviewsOf, The

LEMMA CandidateChanges ==
    ASSUME NEW q \in RequestRow, NEW a \in CandidatesOf(q), NEW s \in CandidateStatus \ {"NONE"},
           NEW p, p = [q EXCEPT !.candidate[a] = s]
    PROVE  SameBut(q, p, {}) /\ p.status = q.status
BY DEF RequestRow, SameBut, CandidatesOf, InterviewsOf, The

\* One interview changes.
LEMMA InterviewChanges ==
    ASSUME NEW q \in RequestRow, NEW a, NEW k, <<a, k>> \in InterviewsOf(q), NEW v \in Interview,
           NEW p, p = [q EXCEPT !.rounds[a][k] = v]
    PROVE  SameBut(q, p, {<<a, k>>}) /\ p.status = q.status /\ The(p, <<a, k>>) = v
<1>1. a \in Agent /\ k \in DOMAIN q.rounds[a] /\ q.rounds[a] \in Seq(Interview) /\ k \in 1..Len(q.rounds[a])
  BY DEF RequestRow, InterviewsOf
<1> DEFINE R == [q.rounds EXCEPT ![a] = [@ EXCEPT ![k] = v]]
<1>2. [q.rounds[a] EXCEPT ![k] = v] \in Seq(Interview) /\ Len([q.rounds[a] EXCEPT ![k] = v]) = Len(q.rounds[a])
  BY <1>1
<1>3. R \in [Agent -> Seq(Interview)]
  BY <1>2 DEF RequestRow
<1>4. p.rounds = R /\ p.client = q.client /\ p.status = q.status /\ p.candidate = q.candidate /\ p \in RequestRow
  BY <1>3 DEF RequestRow
<1>5. \A b \in Agent : Len(R[b]) = Len(q.rounds[b])
  BY <1>1, <1>2 DEF RequestRow
<1>6. \A b \in Agent : \A j : b # a \/ j # k => R[b][j] = q.rounds[b][j]
  BY <1>1 DEF RequestRow
<1>7. R[a][k] = v
  BY <1>1 DEF RequestRow
<1> HIDE DEF R
<1>8. CandidatesOf(p) = CandidatesOf(q) /\ InterviewsOf(p) = InterviewsOf(q)
  BY <1>4, <1>5 DEF CandidatesOf, InterviewsOf
<1>9. \A i \in InterviewsOf(q) \ {<<a, k>>} : The(p, i) = The(q, i)
  <2> TAKE i \in InterviewsOf(q) \ {<<a, k>>}
  <2>1. i = <<i[1], i[2]>> /\ i[1] \in Agent
    BY InterviewType
  <2> QED
    BY <1>4, <1>6, <2>1 DEF The
<1>10. The(p, <<a, k>>) = v
  BY <1>4, <1>7 DEF The
<1> QED
  BY <1>4, <1>8, <1>9, <1>10 DEF SameBut

\* Interviews are added.
LEMMA InterviewsAdded ==
    ASSUME NEW q \in RequestRow, NEW A \in SUBSET Agent, \A a \in A : Len(q.rounds[a]) < MaxRounds,
           NEW p, p = WithInterviews(q, A)
    PROVE  LET new == {<<a, Len(q.rounds[a]) + 1>> : a \in A}
           IN  /\ p \in RequestRow /\ p.client = q.client /\ CandidatesOf(p) = CandidatesOf(q)
               /\ p.status = "SCHEDULED"
               /\ InterviewsOf(p) = InterviewsOf(q) \cup new
               /\ new \cap InterviewsOf(q) = {}
               /\ \A i \in InterviewsOf(q) : The(p, i) = The(q, i)
               /\ \A i \in new : The(p, i).status = "SCHEDULED" /\ The(p, i).decision = "NONE"
<1> DEFINE v == [status |-> "SCHEDULED", decision |-> "NONE"]
           R == [a \in Agent |-> IF a \in A THEN Append(q.rounds[a], v) ELSE q.rounds[a]]
<1>1. v \in Interview /\ v.status = "SCHEDULED" /\ v.decision = "NONE"
  BY DEF Interview
<1>2. p.rounds = R /\ p.client = q.client /\ p.candidate = q.candidate /\ p.status = "SCHEDULED"
        /\ p = [client |-> q.client, status |-> "SCHEDULED", candidate |-> q.candidate, rounds |-> R]
  BY DEF WithInterviews, RequestRow
<1> HIDE DEF v
<1>3. \A a \in Agent : q.rounds[a] \in Seq(Interview)
  BY DEF RequestRow
<1>4. \A a \in A : Append(q.rounds[a], v) \in Seq(Interview) /\ Len(Append(q.rounds[a], v)) = Len(q.rounds[a]) + 1
  BY <1>1, <1>3
<1>5. R \in [Agent -> Seq(Interview)]
  BY <1>3, <1>4
<1>6. p \in RequestRow
  BY <1>2, <1>5 DEF RequestRow, RequestStatus
<1>7. \A a \in A : Len(R[a]) = Len(q.rounds[a]) + 1 /\ Len(q.rounds[a]) \in Nat
  BY <1>3, <1>4
<1>8. \A a \in Agent \ A : R[a] = q.rounds[a]
  OBVIOUS
<1>9. \A a \in A : R[a][Len(q.rounds[a]) + 1] = v
  BY <1>1, <1>3
<1>10. \A a \in A : \A k \in 1..Len(q.rounds[a]) : R[a][k] = q.rounds[a][k]
  BY <1>1, <1>3
<1> HIDE DEF R
<1>11. \A a \in Agent : Len(q.rounds[a]) \in Nat
  BY <1>3
<1>12. \A a, k : <<a, k>> \in InterviewsOf(p) <=> a \in Agent /\ k \in 1..MaxRounds /\ k <= Len(R[a])
  BY <1>2 DEF InterviewsOf
<1>13. \A a, k : <<a, k>> \in InterviewsOf(q) <=> a \in Agent /\ k \in 1..MaxRounds /\ k <= Len(q.rounds[a])
  BY DEF InterviewsOf
<1>14. MaxRounds \in Nat
  BY InterviewsAssumption
<1>15. \A a, k : <<a, k>> \in InterviewsOf(p) <=> <<a, k>> \in InterviewsOf(q) \/ (a \in A /\ k = Len(q.rounds[a]) + 1)
  <2> SUFFICES ASSUME NEW a, NEW k
               PROVE  <<a, k>> \in InterviewsOf(p)
                        <=> <<a, k>> \in InterviewsOf(q) \/ (a \in A /\ k = Len(q.rounds[a]) + 1)
    OBVIOUS
  <2>1. CASE a \in A
    <3>1. a \in Agent /\ Len(R[a]) = Len(q.rounds[a]) + 1 /\ Len(q.rounds[a]) \in Nat /\ Len(q.rounds[a]) < MaxRounds
      BY <1>7, <2>1
    <3> QED
      BY <1>12, <1>13, <1>14, <2>1, <3>1
  <2>2. CASE a \notin A
    BY <1>8, <1>12, <1>13, <2>2
  <2> QED
    BY <2>1, <2>2
<1>16. \A a \in A : <<a, Len(q.rounds[a]) + 1>> \notin InterviewsOf(q)
  BY <1>7, <1>13
<1>17. \A i \in InterviewsOf(q) : The(p, i) = The(q, i)
  <2> TAKE i \in InterviewsOf(q)
  <2>1. i[1] \in Agent /\ i[2] \in 1..Len(q.rounds[i[1]])
    BY <1>11 DEF InterviewsOf
  <2> QED
    BY <1>2, <1>8, <1>10, <2>1 DEF The
<1>18. \A a \in A : The(p, <<a, Len(q.rounds[a]) + 1>>) = v
  BY <1>2, <1>9 DEF The
<1>19. InterviewsOf(p) \subseteq Agent \X (1..MaxRounds) /\ InterviewsOf(q) \subseteq Agent \X (1..MaxRounds)
  BY DEF InterviewsOf
<1>20. InterviewsOf(p) = InterviewsOf(q) \cup {<<a, Len(q.rounds[a]) + 1>> : a \in A}
  BY <1>15, <1>19
<1> QED
  BY <1>1, <1>2, <1>6, <1>16, <1>17, <1>18, <1>20 DEF CandidatesOf

\* The scheduled interviews are cancelled.
LEMMA InterviewsCancelled ==
    ASSUME NEW q \in RequestRow, NEW p, p = WithoutInterviews(q)
    PROVE  /\ SameBut(q, p, ScheduledIn(q)) /\ p.status = "CANCELLED"
           /\ \A i \in ScheduledIn(q) : The(p, i).status = "CANCELLED" /\ The(p, i).decision = The(q, i).decision
<1> DEFINE Gone(v) == IF v.status = "SCHEDULED" THEN [v EXCEPT !.status = "CANCELLED"] ELSE v
           R == [a \in Agent |-> [k \in DOMAIN q.rounds[a] |-> Gone(q.rounds[a][k])]]
<1>1. p = [client |-> q.client, status |-> "CANCELLED", candidate |-> q.candidate, rounds |-> R]
  BY DEF WithoutInterviews, RequestRow
<1>2. \A v \in Interview : /\ Gone(v) \in Interview /\ Gone(v).decision = v.decision
                           /\ v.status # "SCHEDULED" => Gone(v) = v
                           /\ v.status = "SCHEDULED" => Gone(v).status = "CANCELLED"
  BY DEF Interview, Outcome
<1> HIDE DEF Gone
<1>3. \A a \in Agent : q.rounds[a] \in Seq(Interview)
  BY DEF RequestRow
<1>4. \A a \in Agent : /\ [k \in DOMAIN q.rounds[a] |-> Gone(q.rounds[a][k])] \in Seq(Interview)
                       /\ Len([k \in DOMAIN q.rounds[a] |-> Gone(q.rounds[a][k])]) = Len(q.rounds[a])
  <2> TAKE a \in Agent
  <2>1. Len(q.rounds[a]) \in Nat /\ DOMAIN q.rounds[a] = 1..Len(q.rounds[a])
          /\ \A k \in DOMAIN q.rounds[a] : q.rounds[a][k] \in Interview
    BY <1>3
  <2>2. [k \in DOMAIN q.rounds[a] |-> Gone(q.rounds[a][k])] \in [1..Len(q.rounds[a]) -> Interview]
    BY <1>2, <2>1
  <2> QED
    BY <2>1, <2>2
<1>5. R \in [Agent -> Seq(Interview)] /\ \A a \in Agent : Len(R[a]) = Len(q.rounds[a])
  BY <1>4
<1>6. \A a \in Agent : \A k \in DOMAIN q.rounds[a] : R[a][k] = Gone(q.rounds[a][k])
  OBVIOUS
<1> HIDE DEF R
<1>7. p \in RequestRow /\ p.rounds = R /\ p.status = "CANCELLED" /\ p.client = q.client /\ p.candidate = q.candidate
  BY <1>1, <1>5 DEF RequestRow, RequestStatus
<1>8. InterviewsOf(p) = InterviewsOf(q)
  BY <1>5, <1>7 DEF InterviewsOf
<1>9. \A i \in InterviewsOf(q) : The(p, i) = Gone(The(q, i)) /\ The(q, i) \in Interview
  BY <1>6, <1>7, InterviewType DEF The
<1> QED
  BY <1>2, <1>7, <1>8, <1>9 DEF SameBut, CandidatesOf, ScheduledIn

-------------------------------------------------------------------------------
(***************************************************************************)
(* Requests stay consistent                                                *)
(***************************************************************************)

\* What is said of the interviews by name.
LEMMA Named ==
    ASSUME NEW q, NEW p, InterviewsOf(p) = InterviewsOf(q), \A i \in InterviewsOf(q) : The(p, i) = The(q, i)
    PROVE  /\ ScheduledIn(p) = ScheduledIn(q)
           /\ AllDecided(p) <=> AllDecided(q)
           /\ \A a, d : Decided(p, a, d) <=> Decided(q, a, d)
BY DEF ScheduledIn, AllDecided, Decided

LEMMA UnchangedInterviews ==
    ASSUME NEW q, NEW p, SameBut(q, p, {}), Consistent(q),
           \/ p.status = q.status
           \/ q.status \in DOMAIN Handover /\ p.status = Handover[q.status]
    PROVE  Consistent(p) /\ (q.status \in OpenRequestStatus => p.status \in OpenRequestStatus)
<1>1. InterviewsOf(p) = InterviewsOf(q) /\ \A i \in InterviewsOf(q) : The(p, i) = The(q, i)
  BY DEF SameBut
<1>2. ScheduledIn(p) = ScheduledIn(q) /\ (AllDecided(p) <=> AllDecided(q))
  BY <1>1, Named
<1>3. CASE p.status = q.status
  BY <1>1, <1>2, <1>3 DEF Consistent
<1>4. CASE q.status \in DOMAIN Handover /\ p.status = Handover[q.status]
  <2>1. /\ q.status \in {"REQUESTED", "SALES_REVIEW", "CLIENT_CONFIRMATION"}
        /\ p.status \in {"SALES_REVIEW", "CLIENT_CONFIRMATION", "CANDIDATE_CONFIRMATION"}
        /\ p.status = "SALES_REVIEW" => q.status = "REQUESTED"
    BY <1>4 DEF Handover
  <2>2. q.status \in OpenRequestStatus /\ p.status \in OpenRequestStatus
    BY <2>1 DEF OpenRequestStatus, RequestStatus
  <2> QED
    BY <1>1, <1>2, <2>1, <2>2 DEF Consistent
<1> QED
  BY <1>3, <1>4

LEMMA NewIsConsistent ==
    ASSUME NEW c \in Client, NEW A \in SUBSET Agent, NEW p, p = NewRequest(c, A)
    PROVE  /\ p \in RequestRow /\ Consistent(p) /\ InterviewsOf(p) = {} /\ CandidatesOf(p) = A
           /\ p.status \in OpenRequestStatus /\ p.client = c
<1>1. <<>> \in Seq(Interview) /\ Len(<<>>) = 0
  OBVIOUS
<1>2. p \in RequestRow
  BY <1>1 DEF NewRequest, RequestRow, RequestStatus, CandidateStatus
<1>3. InterviewsOf(p) = {}
  BY <1>1, InterviewsAssumption DEF NewRequest, InterviewsOf
<1>4. p.status = "REQUESTED" /\ CandidatesOf(p) = A /\ p.client = c
  BY DEF NewRequest, CandidatesOf
<1>5. ScheduledIn(p) = {}
  BY <1>3 DEF ScheduledIn
<1> QED
  BY <1>2, <1>3, <1>4, <1>5 DEF Consistent, OpenRequestStatus, RequestStatus

LEMMA ScheduledIsConsistent ==
    ASSUME NEW q \in RequestRow, NEW A \in SUBSET Agent, A # {}, \A a \in A : Len(q.rounds[a]) < MaxRounds,
           NEW p, p = WithInterviews(q, A)
    PROVE  /\ Consistent(q) /\ q.status \in OpenRequestStatus => Consistent(p)
           /\ p.status \in OpenRequestStatus
           /\ \A i \in ScheduledIn(p) : i \in ScheduledIn(q) \/ i[1] \in A
           /\ \A i \in InterviewsOf(p) : i \in InterviewsOf(q) \/ i[1] \in A
           /\ \A a, d : d # "NONE" => (Decided(p, a, d) <=> Decided(q, a, d))
<1> DEFINE new == {<<a, Len(q.rounds[a]) + 1>> : a \in A}
<1>1. /\ p.status = "SCHEDULED"
      /\ InterviewsOf(p) = InterviewsOf(q) \cup new
      /\ \A i \in InterviewsOf(q) : The(p, i) = The(q, i)
      /\ \A i \in new : The(p, i).status = "SCHEDULED" /\ The(p, i).decision = "NONE"
  BY InterviewsAdded
<1>2. new # {} /\ \A i \in new : i[1] \in A
  <2>1. \A i \in new : i[1] \in A
    OBVIOUS
  <2>2. PICK a \in A : TRUE
    OBVIOUS
  <2>3. <<a, Len(q.rounds[a]) + 1>> \in new
    BY <2>2
  <2>4. new # {}
    BY <2>3
  <2> QED
    BY <2>1, <2>4
<1> HIDE DEF new
<1>3. ScheduledIn(p) = ScheduledIn(q) \cup new
  BY <1>1 DEF ScheduledIn
<1>4. AllDecided(p) <=> AllDecided(q)
  BY <1>1 DEF AllDecided
<1>5. p.status \in OpenRequestStatus
  BY <1>1 DEF OpenRequestStatus, RequestStatus
<1>6. ASSUME Consistent(q), q.status \in OpenRequestStatus PROVE Consistent(p)
  BY <1>1, <1>2, <1>3, <1>4, <1>6 DEF Consistent
<1> QED
  BY <1>1, <1>2, <1>3, <1>5, <1>6 DEF Decided

LEMMA CancelledIsConsistent ==
    ASSUME NEW q \in RequestRow, NEW p, p = WithoutInterviews(q)
    PROVE  /\ Consistent(q) => Consistent(p)
           /\ ScheduledIn(p) = {}
           /\ \A a, d : Decided(p, a, d) <=> Decided(q, a, d)
<1>1. /\ InterviewsOf(p) = InterviewsOf(q) /\ p.status = "CANCELLED"
      /\ \A i \in InterviewsOf(q) \ ScheduledIn(q) : The(p, i) = The(q, i)
      /\ \A i \in ScheduledIn(q) : The(p, i).status = "CANCELLED" /\ The(p, i).decision = The(q, i).decision
  BY InterviewsCancelled DEF SameBut
<1>2. \A i \in InterviewsOf(q) : The(p, i).decision = The(q, i).decision /\ The(p, i).status # "SCHEDULED"
  BY <1>1 DEF ScheduledIn
<1>3. ScheduledIn(p) = {}
  BY <1>1, <1>2 DEF ScheduledIn
<1>4. p.status \notin OpenRequestStatus
  BY <1>1 DEF OpenRequestStatus
<1>5. ASSUME Consistent(q) PROVE \A i \in InterviewsOf(p) : The(p, i).status # "COMPLETED" => The(p, i).decision = "NONE"
  <2> TAKE i \in InterviewsOf(p)
  <2>1. CASE i \in ScheduledIn(q)
    BY <1>1, <1>5, <2>1 DEF Consistent, ScheduledIn
  <2>2. CASE i \notin ScheduledIn(q)
    BY <1>1, <1>5, <2>2 DEF Consistent
  <2> QED
    BY <2>1, <2>2
<1> QED
  BY <1>1, <1>2, <1>3, <1>4, <1>5 DEF Consistent, Decided

LEMMA OutcomeIsConsistent ==
    ASSUME NEW q, NEW p, NEW i \in InterviewsOf(q), NEW outcome \in Outcome, NEW last \in BOOLEAN,
           SameBut(q, p, {i}), The(p, i).status = outcome, The(p, i).decision = The(q, i).decision,
           p.status = IF last THEN "CLIENT_DECISION_PENDING" ELSE q.status
    PROVE  /\ Consistent(q) /\ i \in ScheduledIn(q) /\ (last <=> NoneAhead(q, i) /\ q.status = "SCHEDULED")
                => Consistent(p) /\ (q.status \in OpenRequestStatus => p.status \in OpenRequestStatus)
           /\ ScheduledIn(p) \subseteq ScheduledIn(q)
           /\ \A a, d : Decided(p, a, d) <=> Decided(q, a, d)
<1>1. InterviewsOf(p) = InterviewsOf(q) /\ \A j \in InterviewsOf(q) \ {i} : The(p, j) = The(q, j)
  BY DEF SameBut
<1>2. ScheduledIn(p) = ScheduledIn(q) \ {i}
  BY <1>1 DEF ScheduledIn, Outcome
<1>3. \A a, d : Decided(p, a, d) <=> Decided(q, a, d)
  BY <1>1 DEF Decided
<1>4. ASSUME Consistent(q), i \in ScheduledIn(q), last <=> NoneAhead(q, i) /\ q.status = "SCHEDULED"
      PROVE  Consistent(p) /\ (q.status \in OpenRequestStatus => p.status \in OpenRequestStatus)
  <2>1. q.status = "SCHEDULED" /\ The(q, i).decision = "NONE"
    BY <1>4 DEF Consistent, ScheduledIn
  <2>2. /\ q.status \in OpenRequestStatus
        /\ p.status \in OpenRequestStatus
        /\ p.status = "SCHEDULED" <=> ScheduledIn(p) # {}
        /\ p.status \notin {"REQUESTED", "SALES_REVIEW", "CLOSED"}
    BY <1>2, <1>4, <2>1 DEF NoneAhead, OpenRequestStatus, RequestStatus
  <2>3. The(q, i).status = "SCHEDULED"
    BY <1>4 DEF ScheduledIn
  <2>4. ASSUME AllDecided(p) PROVE \A j \in InterviewsOf(p) : The(p, j).status # "COMPLETED"
    <3>1. The(p, i).status # "COMPLETED"
      BY <1>1, <2>1, <2>4 DEF AllDecided, Final
    <3>2. AllDecided(q)
      BY <1>1, <2>3, <2>4 DEF AllDecided
    <3> QED
      BY <1>1, <1>4, <2>2, <3>1, <3>2 DEF Consistent
  <2>5. \A j \in InterviewsOf(p) : The(p, j).status # "COMPLETED" => The(p, j).decision = "NONE"
    BY <1>1, <1>4, <2>1 DEF Consistent
  <2> QED
    BY <2>2, <2>4, <2>5 DEF Consistent
<1> QED
  BY <1>2, <1>3, <1>4

LEMMA DecisionIsConsistent ==
    ASSUME NEW q, NEW p, NEW i \in InterviewsOf(q), NEW d \in Decision, SameBut(q, p, {i}),
           The(p, i).status = The(q, i).status, The(p, i).decision = d,
           \/ d = "SECOND_INTERVIEW" /\ p.status = "CLIENT_CONFIRMATION"
           \/ d # "SECOND_INTERVIEW" /\ p.status = IF AllDecided(p) THEN "CLOSED" ELSE q.status
    PROVE  /\ Consistent(q) /\ q.status = "CLIENT_DECISION_PENDING" /\ The(q, i).status = "COMPLETED" => Consistent(p)
           /\ ScheduledIn(p) = ScheduledIn(q)
           /\ \A a : Decided(p, a, d) <=> Decided(q, a, d) \/ a = i[1]
           /\ \A a, e : Decided(p, a, e) => Decided(q, a, e) \/ (a = i[1] /\ e = d)
           /\ \A a, e : Decided(q, a, e) => Decided(p, a, e) \/ e = The(q, i).decision
<1>1. InterviewsOf(p) = InterviewsOf(q) /\ \A j \in InterviewsOf(q) \ {i} : The(p, j) = The(q, j)
  BY DEF SameBut
<1>2. ScheduledIn(p) = ScheduledIn(q)
  BY <1>1 DEF ScheduledIn
<1>3. ASSUME Consistent(q), q.status = "CLIENT_DECISION_PENDING", The(q, i).status = "COMPLETED" PROVE Consistent(p)
  <2>1. ScheduledIn(p) = {}
    BY <1>2, <1>3 DEF Consistent
  <2>2. p.status \notin {"REQUESTED", "SALES_REVIEW", "SCHEDULED"} /\ (p.status = "CLOSED" => AllDecided(p))
    BY <1>3
  <2>3. p.status \in OpenRequestStatus => ~AllDecided(p)
    <3>1. CASE d = "SECOND_INTERVIEW"
      <4>1. The(p, i).decision \notin Final \cup {"INTERESTED"} /\ The(p, i).status = "COMPLETED"
        BY <1>3, <3>1 DEF Final
      <4> QED
        BY <1>1, <4>1 DEF AllDecided
    <3>2. CASE d # "SECOND_INTERVIEW"
      BY <3>2 DEF OpenRequestStatus
    <3> QED
      BY <3>1, <3>2
  <2>4. \A j \in InterviewsOf(p) : The(p, j).status # "COMPLETED" => The(p, j).decision = "NONE"
    BY <1>1, <1>3 DEF Consistent
  <2> QED
    BY <2>1, <2>2, <2>3, <2>4 DEF Consistent
<1> QED
  BY <1>1, <1>2, <1>3 DEF Decided

-------------------------------------------------------------------------------
(***************************************************************************)
(* What each step does to the rows                                         *)
(***************************************************************************)
Typed == TypeOK /\ TasksOK /\ Interviewed

LEMMA RowsTyped ==
    ASSUME TypeOK
    PROVE  /\ request \in Seq(RequestRow) /\ Len(request) \in Nat /\ DOMAIN request = 1..Len(request)
           /\ \A r \in DOMAIN request : request[r] \in RequestRow
<1>1. request \in Seq(RequestRow)
  BY DEF TypeOK, RequestRow
<1> HIDE DEF RequestRow
<1>2. Len(request) \in Nat /\ DOMAIN request = 1..Len(request)
  BY <1>1
<1>3. ASSUME NEW r \in DOMAIN request PROVE request[r] \in RequestRow
  BY <1>1, <1>2, <1>3
<1> QED
  BY <1>1, <1>2, <1>3

\* Only row r is written.
Wrote(r) ==
    /\ r \in DOMAIN request
    /\ request' \in Seq(RequestRow) /\ Len(request') = Len(request) /\ DOMAIN request' = DOMAIN request
    /\ \A s \in DOMAIN request \ {r} : request'[s] = request[s]

LEMMA RowWritten ==
    ASSUME TypeOK, NEW r \in DOMAIN request, NEW p \in RequestRow, request' = [request EXCEPT ![r] = p]
    PROVE  Wrote(r) /\ request'[r] = p
BY RowsTyped DEF Wrote

LEMMA TaskOf ==
    ASSUME TasksOK, NEW w \in Worker, task[w].op \in RowOps
    PROVE  task[w].r \in DOMAIN request /\ Row(task[w].r) \in task[w].about
BY DEF TasksOK, Refers

LEMMA MoveEffect ==
    ASSUME Typed, NEW w \in Worker, Move(w)
    PROVE  LET r == task[w].r IN
           Wrote(r) /\ SameBut(request[r], request'[r], {}) /\ request'[r].status = task[w].to
<1> DEFINE r == task[w].r
           p == [request[r] EXCEPT !.status = task[w].to]
<1>1. task[w].op = "move" /\ r \in DOMAIN request /\ task[w].to \in RequestStatus
  BY DEF Move, Doing, Typed, TasksOK, Refers, RowOps
<1>2. request[r] \in RequestRow
  BY <1>1, RowsTyped DEF Typed
<1>3. SameBut(request[r], p, {}) /\ p.status = task[w].to
  BY <1>1, <1>2, StatusChanges
<1>4. request' = [request EXCEPT ![r] = p]
  BY DEF Move
<1> HIDE DEF p
<1> QED
  BY <1>1, <1>3, <1>4, RowWritten DEF SameBut, Typed

LEMMA RespondEffect ==
    ASSUME Typed, NEW w \in Worker, Respond(w)
    PROVE  LET r == task[w].r IN
           Wrote(r) /\ SameBut(request[r], request'[r], {}) /\ request'[r].status = request[r].status
<1> DEFINE r == task[w].r
           p == [request[r] EXCEPT !.candidate[task[w].a] = task[w].answer]
<1>1. /\ task[w].op = "respond" /\ r \in DOMAIN request /\ task[w].a \in CandidatesOf(request[r])
      /\ task[w].answer \in CandidateStatus \ {"NONE"}
  BY DEF Respond, Doing, Typed, TasksOK, Refers, RowOps, CandidateStatus
<1>2. request[r] \in RequestRow
  BY <1>1, RowsTyped DEF Typed
<1>3. SameBut(request[r], p, {}) /\ p.status = request[r].status
  BY <1>1, <1>2, CandidateChanges
<1>4. request' = [request EXCEPT ![r] = p]
  BY DEF Respond
<1> HIDE DEF p
<1> QED
  BY <1>1, <1>3, <1>4, RowWritten DEF SameBut, Typed

LEMMA ScheduleEffect ==
    ASSUME Typed, NEW w \in Worker, Schedule(w)
    PROVE  LET r == task[w].r
               A == task[w].A
           IN  /\ Wrote(r) /\ request'[r] = WithInterviews(request[r], A)
               /\ A # {} /\ A \subseteq CandidatesOf(request[r]) /\ A \subseteq Agent
               /\ \A a \in A : Len(request[r].rounds[a]) < MaxRounds
<1> DEFINE r == task[w].r
           A == task[w].A
           p == WithInterviews(request[r], A)
<1>1. task[w].op = "schedule" /\ r \in DOMAIN request /\ A # {} /\ A \subseteq CandidatesOf(request[r])
  BY DEF Schedule, Doing, Typed, TasksOK, Refers, RowOps
<1>2. request[r] \in RequestRow /\ A \subseteq Agent
  BY <1>1, RowsTyped DEF Typed, CandidatesOf
<1>3. \A a \in A : Len(request[r].rounds[a]) < MaxRounds
  BY DEF Schedule
<1>4. p \in RequestRow
  BY <1>2, <1>3, InterviewsAdded
<1>5. request' = [request EXCEPT ![r] = p]
  BY DEF Schedule
<1> HIDE DEF p
<1> QED
  BY <1>1, <1>2, <1>3, <1>4, <1>5, RowWritten DEF p, Typed

LEMMA CancelEffect ==
    ASSUME Typed, NEW w \in Worker, Cancel(w)
    PROVE  LET r == task[w].r IN Wrote(r) /\ request'[r] = WithoutInterviews(request[r])
<1> DEFINE r == task[w].r
           p == WithoutInterviews(request[r])
<1>1. task[w].op = "cancel" /\ r \in DOMAIN request
  BY DEF Cancel, Doing, Typed, TasksOK, Refers, RowOps
<1>2. request[r] \in RequestRow
  BY <1>1, RowsTyped DEF Typed
<1>3. p \in RequestRow
  BY <1>2, InterviewsCancelled DEF SameBut
<1>4. request' = [request EXCEPT ![r] = p]
  BY DEF Cancel
<1> HIDE DEF p
<1> QED
  BY <1>1, <1>3, <1>4, RowWritten DEF p, Typed

\* An interview of a row is written together with the row's status.
Put(q, a, k, v, s) == [[q EXCEPT !.rounds[a][k] = v] EXCEPT !.status = s]

LEMMA InterviewPut ==
    ASSUME NEW q \in RequestRow, NEW a, NEW k, <<a, k>> \in InterviewsOf(q),
           NEW v \in Interview, NEW s \in RequestStatus
    PROVE  /\ SameBut(q, Put(q, a, k, v, s), {<<a, k>>}) /\ Put(q, a, k, v, s).status = s
           /\ The(Put(q, a, k, v, s), <<a, k>>) = v
<1> DEFINE m == [q EXCEPT !.rounds[a][k] = v]
           p == [m EXCEPT !.status = s]
<1>1. SameBut(q, m, {<<a, k>>}) /\ The(m, <<a, k>>) = v
  BY InterviewChanges
<1> HIDE DEF m
<1>2. m \in RequestRow
  BY <1>1 DEF SameBut
<1>3. SameBut(m, p, {}) /\ p.status = s
  BY <1>2, StatusChanges
<1>4. Put(q, a, k, v, s) = p
  BY DEF Put, m
<1> HIDE DEF p
<1> QED
  BY <1>1, <1>3, <1>4 DEF SameBut

LEMMA CompleteEffect ==
    ASSUME Typed, NEW w \in Worker, Complete(w)
    PROVE  LET t == task[w]
               q == request[t.r]
               p == request'[t.r]
               i == <<t.a, t.k>>
           IN  /\ Wrote(t.r) /\ i \in InterviewsOf(q) /\ SameBut(q, p, {i})
               /\ The(p, i).status = t.outcome /\ The(p, i).decision = The(q, i).decision
               /\ p.status = IF t.last THEN "CLIENT_DECISION_PENDING" ELSE q.status
<1> DEFINE t == task[w]
           q == request[t.r]
           v == [q.rounds[t.a][t.k] EXCEPT !.status = t.outcome]
           s == IF t.last THEN "CLIENT_DECISION_PENDING" ELSE q.status
           p == Put(q, t.a, t.k, v, s)
<1>1. t.op = "completing" /\ t.r \in DOMAIN request /\ <<t.a, t.k>> \in InterviewsOf(q) /\ t.outcome \in Outcome
  BY DEF Complete, Doing, Typed, TasksOK, Refers, RowOps, InterviewOps
<1>2. q \in RequestRow
  BY <1>1, RowsTyped DEF Typed
<1>3. s \in RequestStatus
  BY <1>2 DEF RequestRow, RequestStatus
<1>4. q.rounds[t.a][t.k] \in Interview /\ t.a \in Agent /\ t.k \in DOMAIN q.rounds[t.a]
  BY <1>1, <1>2, InterviewType DEF The
<1>5. v \in Interview /\ v.status = t.outcome /\ v.decision = q.rounds[t.a][t.k].decision
  BY <1>1, <1>4 DEF Interview
<1>6. request' = [request EXCEPT ![t.r].rounds[t.a][t.k].status = t.outcome,
                                 ![t.r].status = IF t.last THEN "CLIENT_DECISION_PENDING" ELSE @]
  BY DEF Complete
<1>7. request' = [request EXCEPT ![t.r] = p]
  BY <1>1, <1>2, <1>4, <1>6, RowsTyped DEF RequestRow, Typed, Put
<1> HIDE DEF v, s
<1>11. SameBut(q, p, {<<t.a, t.k>>}) /\ p.status = s /\ The(p, <<t.a, t.k>>) = v
  BY <1>1, <1>2, <1>3, <1>5, InterviewPut
<1> HIDE DEF p
<1>8. Wrote(t.r) /\ request'[t.r] = p
  BY <1>1, <1>7, <1>11, RowWritten DEF Typed, SameBut
<1>9. /\ The(request'[t.r], <<t.a, t.k>>).status = t.outcome
      /\ The(request'[t.r], <<t.a, t.k>>).decision = The(q, <<t.a, t.k>>).decision
  BY <1>5, <1>8, <1>11 DEF The
<1>12. request'[t.r].status = IF t.last THEN "CLIENT_DECISION_PENDING" ELSE q.status
  BY <1>8, <1>11 DEF s
<1> QED
  BY <1>1, <1>8, <1>9, <1>11, <1>12

LEMMA AskAgainEffect ==
    ASSUME Typed, NEW w \in Worker, AskAgain(w)
    PROVE  LET t == task[w]
               q == request[t.r]
               p == request'[t.r]
               i == <<t.a, t.k>>
           IN  /\ Wrote(t.r) /\ i \in InterviewsOf(q) /\ SameBut(q, p, {i})
               /\ The(p, i).status = The(q, i).status /\ The(p, i).decision = "SECOND_INTERVIEW"
               /\ p.status = "CLIENT_CONFIRMATION"
<1> DEFINE t == task[w]
           q == request[t.r]
           v == [q.rounds[t.a][t.k] EXCEPT !.decision = t.decision]
           s == "CLIENT_CONFIRMATION"
           m == Put(q, t.a, t.k, v, s)
           p == [m EXCEPT !.candidate[t.a] = "PENDING"]
<1>1. t.op = "decide" /\ t.r \in DOMAIN request /\ <<t.a, t.k>> \in InterviewsOf(q) /\ t.decision = "SECOND_INTERVIEW"
  BY DEF AskAgain, Doing, Typed, TasksOK, Refers, RowOps, InterviewOps
<1>2. q \in RequestRow
  BY <1>1, RowsTyped DEF Typed
<1>3. s \in RequestStatus
  BY DEF RequestStatus
<1>4. q.rounds[t.a][t.k] \in Interview /\ t.a \in Agent /\ t.k \in DOMAIN q.rounds[t.a]
  BY <1>1, <1>2, InterviewType DEF The
<1>5. v \in Interview /\ v.decision = "SECOND_INTERVIEW" /\ v.status = q.rounds[t.a][t.k].status
  BY <1>1, <1>4 DEF Interview, Decision
<1>6. request' = [request EXCEPT ![t.r].rounds[t.a][t.k].decision = t.decision,
                                 ![t.r].candidate[t.a] = "PENDING", ![t.r].status = "CLIENT_CONFIRMATION"]
  BY DEF AskAgain
<1>7. request' = [request EXCEPT ![t.r] = p]
  BY <1>1, <1>2, <1>4, <1>6, RowsTyped DEF RequestRow, Typed, Put
<1> HIDE DEF v, s
<1>8. SameBut(q, m, {<<t.a, t.k>>}) /\ m.status = s /\ The(m, <<t.a, t.k>>) = v
  BY <1>1, <1>2, <1>3, <1>5, InterviewPut
<1> HIDE DEF m
<1>9. t.a \in CandidatesOf(m) /\ m \in RequestRow
  BY <1>1, <1>8 DEF Typed, Interviewed, SameBut
<1>10. "PENDING" \in CandidateStatus \ {"NONE"}
  BY DEF CandidateStatus
<1>11. SameBut(m, p, {}) /\ p.status = m.status
  BY <1>9, <1>10, CandidateChanges
<1> HIDE DEF p
<1>12. SameBut(q, p, {<<t.a, t.k>>}) /\ p.status = s /\ The(p, <<t.a, t.k>>) = v
  BY <1>1, <1>8, <1>11 DEF SameBut
<1>13. Wrote(t.r) /\ request'[t.r] = p
  BY <1>1, <1>7, <1>12, RowWritten DEF Typed, SameBut
<1>14. /\ The(request'[t.r], <<t.a, t.k>>).decision = "SECOND_INTERVIEW"
       /\ The(request'[t.r], <<t.a, t.k>>).status = The(q, <<t.a, t.k>>).status
  BY <1>5, <1>12, <1>13 DEF The
<1>15. request'[t.r].status = "CLIENT_CONFIRMATION"
  BY <1>12, <1>13 DEF s
<1> QED
  BY <1>1, <1>12, <1>13, <1>14, <1>15

LEMMA DecideEffect ==
    ASSUME Typed, NEW w \in Worker, Decide(w)
    PROVE  LET t == task[w]
               q == request[t.r]
               p == request'[t.r]
               i == <<t.a, t.k>>
           IN  /\ Wrote(t.r) /\ i \in InterviewsOf(q) /\ SameBut(q, p, {i})
               /\ The(p, i).status = The(q, i).status /\ The(p, i).decision = t.decision
               /\ t.decision \in Decision \ {"SECOND_INTERVIEW"}
               /\ p.status = IF t.closes THEN "CLOSED" ELSE q.status
               /\ p.rounds = With(q, t).rounds
<1> DEFINE t == task[w]
           q == request[t.r]
           v == [q.rounds[t.a][t.k] EXCEPT !.decision = t.decision]
           s == IF t.closes THEN "CLOSED" ELSE q.status
           p == Put(q, t.a, t.k, v, s)
<1>1. /\ t.op = "deciding" /\ t.r \in DOMAIN request /\ <<t.a, t.k>> \in InterviewsOf(q)
      /\ t.decision \in Decision \ {"SECOND_INTERVIEW"}
  BY DEF Decide, Doing, Typed, TasksOK, Refers, RowOps, InterviewOps
<1>2. q \in RequestRow
  BY <1>1, RowsTyped DEF Typed
<1>3. s \in RequestStatus
  BY <1>2 DEF RequestRow, RequestStatus
<1>4. q.rounds[t.a][t.k] \in Interview /\ t.a \in Agent /\ t.k \in DOMAIN q.rounds[t.a]
  BY <1>1, <1>2, InterviewType DEF The
<1>5. v \in Interview /\ v.decision = t.decision /\ v.status = q.rounds[t.a][t.k].status
  BY <1>1, <1>4 DEF Interview
<1>6. request' = [request EXCEPT ![t.r].rounds[t.a][t.k].decision = t.decision,
                                 ![t.r].status = IF t.closes THEN "CLOSED" ELSE @]
  BY DEF Decide
<1>7. request' = [request EXCEPT ![t.r] = p]
  BY <1>1, <1>2, <1>4, <1>6, RowsTyped DEF RequestRow, Typed, Put
<1>8. p.rounds = With(q, t).rounds
  BY <1>1, <1>2, <1>4 DEF RequestRow, Put, With
<1> HIDE DEF v, s
<1>9. SameBut(q, p, {<<t.a, t.k>>}) /\ p.status = s /\ The(p, <<t.a, t.k>>) = v
  BY <1>1, <1>2, <1>3, <1>5, InterviewPut
<1> HIDE DEF p
<1>10. Wrote(t.r) /\ request'[t.r] = p
  BY <1>1, <1>7, <1>9, RowWritten DEF Typed, SameBut
<1>11. /\ The(request'[t.r], <<t.a, t.k>>).decision = t.decision
       /\ The(request'[t.r], <<t.a, t.k>>).status = The(q, <<t.a, t.k>>).status
  BY <1>5, <1>9, <1>10 DEF The
<1>12. request'[t.r].status = IF t.closes THEN "CLOSED" ELSE q.status
  BY <1>9, <1>10 DEF s
<1> QED
  BY <1>1, <1>8, <1>9, <1>10, <1>11, <1>12

-------------------------------------------------------------------------------
(***************************************************************************)
(* What no step undoes                                                     *)
(***************************************************************************)
Writes(w) == Move(w) \/ Respond(w) \/ Schedule(w) \/ Cancel(w) \/ Complete(w) \/ AskAgain(w) \/ Decide(w)

RowGrows(q, p) ==
    /\ p.client = q.client
    /\ CandidatesOf(p) = CandidatesOf(q)
    /\ InterviewsOf(q) \subseteq InterviewsOf(p)
    /\ \A i \in InterviewsOf(p) : i \in InterviewsOf(q) \/ i[1] \in CandidatesOf(q)
RequestsGrow ==
    /\ request' \in Seq(RequestRow) /\ Len(request) <= Len(request')
    /\ DOMAIN request \subseteq DOMAIN request'
    /\ \A r \in DOMAIN request : RowGrows(request[r], request'[r])

LEMMA WriterRows ==
    ASSUME Typed, NEW w \in Worker, Writes(w)
    PROVE  LET r == task[w].r IN
           /\ Wrote(r) /\ RowGrows(request[r], request'[r]) /\ Done(w)
           /\ task[w].op \in RowOps /\ Row(r) \in task[w].about
<1> DEFINE r == task[w].r
<1>1. task[w].op \in RowOps /\ Done(w)
  BY DEF Writes, Move, Respond, Schedule, Cancel, Complete, AskAgain, Decide, Doing, RowOps
<1>2. r \in DOMAIN request /\ Row(r) \in task[w].about
  BY <1>1, TaskOf DEF Typed
<1>3. ASSUME NEW I, SameBut(request[r], request'[r], I) PROVE RowGrows(request[r], request'[r])
  BY <1>3 DEF SameBut, RowGrows
<1>4. CASE Schedule(w)
  <2> DEFINE A == task[w].A
             q == request[r]
             p == request'[r]
  <2>1. /\ Wrote(r) /\ p = WithInterviews(q, A)
        /\ A # {} /\ A \subseteq CandidatesOf(q) /\ A \subseteq Agent
        /\ \A a \in A : Len(q.rounds[a]) < MaxRounds
    BY <1>4, ScheduleEffect
  <2>2. q \in RequestRow
    BY <1>2, RowsTyped DEF Typed
  <2> HIDE DEF A, q, p
  <2>3. p.client = q.client /\ CandidatesOf(p) = CandidatesOf(q) /\ InterviewsOf(q) \subseteq InterviewsOf(p)
    BY <2>1, <2>2, InterviewsAdded
  <2>4. \A i \in InterviewsOf(p) : i \in InterviewsOf(q) \/ i[1] \in A
    BY <2>1, <2>2, ScheduledIsConsistent
  <2>5. RowGrows(q, p)
    BY <2>1, <2>3, <2>4 DEF RowGrows
  <2> QED
    BY <1>1, <1>2, <2>1, <2>5 DEF q, p
<1>5. CASE Cancel(w)
  <2>1. Wrote(r) /\ request'[r] = WithoutInterviews(request[r])
    BY <1>5, CancelEffect
  <2>2. request[r] \in RequestRow
    BY <1>2, RowsTyped DEF Typed
  <2>3. SameBut(request[r], request'[r], ScheduledIn(request[r]))
    BY <2>1, <2>2, InterviewsCancelled
  <2> QED
    BY <1>1, <1>2, <1>3, <2>1, <2>3
<1>6. CASE Move(w) \/ Respond(w)
  <2>1. Wrote(r) /\ SameBut(request[r], request'[r], {})
    BY <1>6, MoveEffect, RespondEffect
  <2> QED
    BY <1>1, <1>2, <1>3, <2>1
<1>7. CASE Complete(w) \/ AskAgain(w) \/ Decide(w)
  <2>1. Wrote(r) /\ \E I : SameBut(request[r], request'[r], I)
    BY <1>7, CompleteEffect, AskAgainEffect, DecideEffect
  <2> QED
    BY <1>1, <1>2, <1>3, <2>1
<1> QED
  BY <1>4, <1>5, <1>6, <1>7 DEF Writes

LEMMA RequestAdded ==
    ASSUME Typed, NEW c \in Client, NEW A \in SUBSET Agent, request' = Append(request, NewRequest(c, A))
    PROVE  /\ request' \in Seq(RequestRow) /\ Len(request') = Len(request) + 1
           /\ DOMAIN request' = DOMAIN request \cup {Len(request) + 1}
           /\ Len(request) + 1 \notin DOMAIN request
           /\ \A r \in DOMAIN request : request'[r] = request[r]
           /\ request'[Len(request) + 1] = NewRequest(c, A)
<1>1. request \in Seq(RequestRow) /\ Len(request) \in Nat /\ DOMAIN request = 1..Len(request)
  BY RowsTyped DEF Typed
<1>2. NewRequest(c, A) \in RequestRow
  BY NewIsConsistent
<1> QED
  BY <1>1, <1>2

SubmissionRow == [agent: Agent, agency: BOOLEAN, status: SubmissionStatus, request: Nat]

LEMMA SubmissionsTyped ==
    ASSUME TypeOK
    PROVE  /\ submission \in Seq(SubmissionRow) /\ Len(submission) \in Nat
           /\ DOMAIN submission = 1..Len(submission)
           /\ \A s \in DOMAIN submission : submission[s] \in SubmissionRow /\ submission[s].agent \in Agent
<1>1. submission \in Seq(SubmissionRow)
  BY DEF TypeOK, SubmissionRow
<1> HIDE DEF SubmissionRow
<1>2. Len(submission) \in Nat /\ DOMAIN submission = 1..Len(submission)
  BY <1>1
<1>3. ASSUME NEW s \in DOMAIN submission PROVE submission[s] \in SubmissionRow
  BY <1>1, <1>2, <1>3
<1>4. \A e \in SubmissionRow : e.agent \in Agent
  BY DEF SubmissionRow
<1> QED
  BY <1>1, <1>2, <1>3, <1>4

LEMMA InviteAdds ==
    ASSUME Typed, NEW w \in Worker, Invite(w)
    PROVE  /\ task[w].op = "invite" /\ task[w].S \subseteq DOMAIN submission
           /\ {submission[s].agent : s \in task[w].S} \in SUBSET Agent
           /\ request' = Append(request, NewRequest(Owner, {submission[s].agent : s \in task[w].S}))
<1>1. task[w].op = "invite" /\ task[w].S \subseteq DOMAIN submission
  BY DEF Invite, Doing, Typed, TasksOK, Refers, RowOps
<1>2. \A s \in DOMAIN submission : submission[s].agent \in Agent
  BY SubmissionsTyped DEF Typed
<1> QED
  BY <1>1, <1>2 DEF Invite

\* Only a writer changes a request, and only two actions add one.
LEMMA RequestCases ==
    ASSUME Typed, Next
    PROVE  \/ UNCHANGED request
           \/ \E c \in Client, A \in SUBSET Agent : request' = Append(request, NewRequest(c, A))
           \/ \E w \in Worker : Writes(w)
<1>1. ASSUME NEW c \in Client, NEW A \in SUBSET Agent, RequestInterviews(c, A)
      PROVE  request' = Append(request, NewRequest(c, A))
  BY <1>1 DEF RequestInterviews
<1>2. ASSUME NEW a \in Agent, HoldEnds(a) \/ Leave(a) \/ WithdrawOnExit(a) PROVE UNCHANGED request
  BY <1>2 DEF HoldEnds, Leave, WithdrawOnExit, requestVars
<1>3. ASSUME NEW w \in Worker, NEW r \in DOMAIN request, 
             BeginMove(w, r) \/ BeginNotes(w, r) \/ BeginCancel(w, r)
      PROVE  UNCHANGED request
  BY <1>3 DEF BeginMove, BeginNotes, BeginCancel, requestVars
<1>4. ASSUME NEW w \in Worker, NEW r \in DOMAIN request, NEW A, NEW a, NEW k, NEW x, 
             BeginSchedule(w, r, A) \/ BeginRespond(w, r, a, x) \/ BeginComplete(w, r, a, k, x) \/ BeginDecide(w, r, a, k, x)
      PROVE  UNCHANGED request
  BY <1>4 DEF BeginSchedule, BeginRespond, BeginComplete, BeginDecide, requestVars
<1>5. ASSUME NEW w \in Worker, WriteOutcome(w) \/ WriteDecision(w) \/ GiveUp(w) \/ Submit(w) \/ Answer(w) \/ Close(w)
      PROVE  UNCHANGED request
  BY <1>5 DEF WriteOutcome, WriteDecision, GiveUp, Submit, Answer, Close, requestVars
<1>6. ASSUME NEW w \in Worker, NEW s, NEW x,
             BeginSubmit(w, x) \/ BeginReview(w, s, x) \/ BeginWithdraw(w, s) \/ BeginInvite(w, x) \/ BeginClose(w, x)
      PROVE  UNCHANGED request
  BY <1>6 DEF BeginSubmit, BeginReview, BeginWithdraw, BeginInvite, BeginClose, requestVars
<1>7. ASSUME NEW w \in Worker, Invite(w)
      PROVE  \E c \in Client, A \in SUBSET Agent : request' = Append(request, NewRequest(c, A))
  BY <1>7, InviteAdds, InterviewsAssumption
<1> QED
  BY <1>1, <1>2, <1>3, <1>4, <1>5, <1>6, <1>7 DEF Next, Writes

LEMMA RequestSide == ASSUME Typed, [Next]_vars PROVE RequestsGrow /\ Interviewed'
<1>0. request \in Seq(RequestRow) /\ Len(request) \in Nat /\ DOMAIN request = 1..Len(request)
  BY RowsTyped DEF Typed
<1>1. ASSUME NEW r \in DOMAIN request PROVE RowGrows(request[r], request[r])
  BY DEF RowGrows
<1>2. CASE UNCHANGED request
  BY <1>0, <1>1, <1>2 DEF RequestsGrow, Typed, Interviewed
<1>3. ASSUME NEW c \in Client, NEW A \in SUBSET Agent, request' = Append(request, NewRequest(c, A))
      PROVE  RequestsGrow /\ Interviewed'
  <2>1. /\ request' \in Seq(RequestRow) /\ Len(request') = Len(request) + 1
        /\ DOMAIN request' = DOMAIN request \cup {Len(request) + 1}
        /\ \A r \in DOMAIN request : request'[r] = request[r]
        /\ request'[Len(request) + 1] = NewRequest(c, A)
    BY <1>3, RequestAdded
  <2>2. InterviewsOf(NewRequest(c, A)) = {}
    BY NewIsConsistent
  <2>3. RequestsGrow
    BY <1>0, <1>1, <2>1 DEF RequestsGrow
  <2>4. Interviewed'
    BY <2>1, <2>2 DEF Typed, Interviewed
  <2> QED
    BY <2>3, <2>4
<1>4. ASSUME NEW w \in Worker, Writes(w) PROVE RequestsGrow /\ Interviewed'
  <2> DEFINE r == task[w].r
  <2>1. Wrote(r) /\ RowGrows(request[r], request'[r])
    BY <1>4, WriterRows
  <2> HIDE DEF r
  <2>2. RequestsGrow
    BY <1>0, <1>1, <2>1 DEF RequestsGrow, Wrote
  <2>3. \A i \in InterviewsOf(request'[r]) : i[1] \in CandidatesOf(request'[r])
    BY <2>1 DEF Typed, Interviewed, RowGrows, Wrote
  <2>4. Interviewed'
    BY <2>1, <2>3 DEF Typed, Interviewed, Wrote
  <2> QED
    BY <2>2, <2>4
<1>5. CASE Next
  BY <1>2, <1>3, <1>4, <1>5, RequestCases
<1> QED
  BY <1>2, <1>5 DEF vars, requestVars

SubmissionsGrow ==
    /\ submission' \in Seq(SubmissionRow) /\ Len(submission) <= Len(submission')
    /\ DOMAIN submission \subseteq DOMAIN submission'
    /\ \A s \in DOMAIN submission :
        submission'[s].agent = submission[s].agent /\ submission'[s].agency = submission[s].agency

\* The submissions in S get a status, and perhaps a request.
LEMMA SubmissionsChange ==
    ASSUME TypeOK, NEW S, NEW x,
           submission' = [s \in DOMAIN submission |-> IF s \in S THEN x[s] ELSE submission[s]],
           \A s \in DOMAIN submission : s \in S =>
               /\ x[s] \in SubmissionRow /\ x[s].agent = submission[s].agent /\ x[s].agency = submission[s].agency
    PROVE  /\ SubmissionsGrow /\ DOMAIN submission' = DOMAIN submission
           /\ \A s \in DOMAIN submission : submission'[s] = IF s \in S THEN x[s] ELSE submission[s]
<1> DEFINE n == Len(submission)
<1>1. n \in Nat /\ DOMAIN submission = 1..n /\ \A s \in 1..n : submission[s] \in SubmissionRow
  BY SubmissionsTyped
<1>2. DOMAIN submission' = 1..n /\ \A s \in 1..n : submission'[s] = IF s \in S THEN x[s] ELSE submission[s]
  BY <1>1
<1>3. submission' = [s \in 1..n |-> submission'[s]] /\ \A s \in 1..n : submission'[s] \in SubmissionRow
  BY <1>1, <1>2
<1> HIDE DEF n
<1>4. submission' \in [1..n -> SubmissionRow]
  BY <1>3
<1>5. submission' \in Seq(SubmissionRow)
  BY <1>1, <1>4, SeqDef
<1>6. Len(submission') = n
  BY <1>1, <1>2, <1>5, LenProperties
<1> QED
  BY <1>1, <1>2, <1>5, <1>6 DEF SubmissionsGrow, n

LEMMA SubmissionAdded ==
    ASSUME TypeOK, NEW e \in SubmissionRow, submission' = Append(submission, e)
    PROVE  /\ SubmissionsGrow /\ DOMAIN submission' = DOMAIN submission \cup {Len(submission) + 1}
           /\ Len(submission) + 1 \notin DOMAIN submission
           /\ \A s \in DOMAIN submission : submission'[s] = submission[s]
           /\ submission'[Len(submission) + 1] = e
<1>1. submission \in Seq(SubmissionRow) /\ Len(submission) \in Nat /\ DOMAIN submission = 1..Len(submission)
  BY SubmissionsTyped
<1> QED
  BY <1>1 DEF SubmissionsGrow

\* A row with another status, or in another request.
WithStatus(e, status) == [e EXCEPT !.status = status]
InRequest(e, status, r) == [e EXCEPT !.status = status, !.request = r]

LEMMA RowWith ==
    ASSUME NEW e \in SubmissionRow, NEW status \in SubmissionStatus, NEW r \in Nat
    PROVE  LET d == WithStatus(e, status)
               f == InRequest(e, status, r)
           IN  /\ d \in SubmissionRow /\ d.agent = e.agent /\ d.agency = e.agency
               /\ d.status = status /\ d.request = e.request
               /\ f \in SubmissionRow /\ f.agent = e.agent /\ f.agency = e.agency
               /\ f.status = status /\ f.request = r
BY DEF SubmissionRow, WithStatus, InRequest

\* What each writer does to the submissions.
Changed(S, status) ==
    /\ SubmissionsGrow /\ DOMAIN submission' = DOMAIN submission
    /\ \A s \in DOMAIN submission \ S : submission'[s] = submission[s]
    /\ \A s \in DOMAIN submission : s \in S =>
        submission'[s].status = status /\ submission'[s].request = submission[s].request

LEMMA StatusSet ==
    ASSUME TypeOK, NEW S, NEW status, S = {} \/ status \in SubmissionStatus,
           submission' = [s \in DOMAIN submission |->
               IF s \in S THEN [submission[s] EXCEPT !.status = status] ELSE submission[s]]
    PROVE  Changed(S, status)
<1> DEFINE x == [s \in DOMAIN submission |-> WithStatus(submission[s], status)]
<1>1. submission' = [s \in DOMAIN submission |-> IF s \in S THEN x[s] ELSE submission[s]]
  BY DEF WithStatus
<1>2. ASSUME NEW s \in DOMAIN submission, s \in S
      PROVE  /\ x[s] \in SubmissionRow /\ x[s].agent = submission[s].agent /\ x[s].agency = submission[s].agency
             /\ x[s].status = status /\ x[s].request = submission[s].request
  <2>1. submission[s] \in SubmissionRow /\ status \in SubmissionStatus
    BY <1>2, SubmissionsTyped
  <2>2. x[s] = WithStatus(submission[s], status) /\ 0 \in Nat
    BY <1>2
  <2> HIDE DEF x
  <2> QED
    BY <2>1, <2>2, RowWith
<1> HIDE DEF x
<1>3. /\ SubmissionsGrow /\ DOMAIN submission' = DOMAIN submission
      /\ \A s \in DOMAIN submission : submission'[s] = IF s \in S THEN x[s] ELSE submission[s]
  BY <1>1, <1>2, SubmissionsChange
<1> QED
  BY <1>2, <1>3 DEF Changed

LEMMA AnswerEffect ==
    ASSUME Typed, NEW w \in Worker, Answer(w)
    PROVE  /\ task[w].op = "answer" /\ task[w].s \in DOMAIN submission /\ Entry(task[w].s) \in task[w].about
           /\ task[w].to \in {"APPROVED_FOR_CLIENT", "DECLINED", "WITHDRAWN"}
           /\ Changed({task[w].s}, task[w].to)
<1>1. /\ task[w].op = "answer" /\ task[w].s \in DOMAIN submission /\ Entry(task[w].s) \in task[w].about
      /\ task[w].to \in {"APPROVED_FOR_CLIENT", "DECLINED", "WITHDRAWN"}
  BY DEF Answer, Doing, Typed, TasksOK, Refers
<1>2. task[w].to \in SubmissionStatus
  BY <1>1 DEF SubmissionStatus
<1>3. submission' = [submission EXCEPT ![task[w].s].status = task[w].to]
  BY DEF Answer
<1>4. submission' = [s \in DOMAIN submission |->
          IF s \in {task[w].s} THEN [submission[s] EXCEPT !.status = task[w].to] ELSE submission[s]]
  BY <1>3
<1> QED
  BY <1>1, <1>2, <1>4, StatusSet DEF Typed

LEMMA DecideSubmissions ==
    ASSUME Typed, NEW w \in Worker, Decide(w)
    PROVE  /\ task[w].op = "deciding" /\ task[w].synced \subseteq DOMAIN submission
           /\ task[w].synced # {} => task[w].decision \in Final
           /\ Changed(task[w].synced, task[w].decision)
<1>1. /\ task[w].op = "deciding" /\ task[w].synced \subseteq DOMAIN submission
      /\ task[w].synced # {} => task[w].decision \in Final
  BY DEF Decide, Doing, Typed, TasksOK, Refers
<1>2. task[w].synced = {} \/ task[w].decision \in SubmissionStatus
  BY <1>1 DEF SubmissionStatus
<1>3. submission' = [s \in DOMAIN submission |->
          IF s \in task[w].synced THEN [submission[s] EXCEPT !.status = task[w].decision] ELSE submission[s]]
  BY DEF Decide
<1> QED
  BY <1>1, <1>2, <1>3, StatusSet DEF Typed

LEMMA WithdrawnEffect ==
    ASSUME TypeOK, NEW S, submission' = Withdrawn(S)
    PROVE  Changed(S, "WITHDRAWN")
<1>1. "WITHDRAWN" \in SubmissionStatus
  BY DEF SubmissionStatus
<1> QED
  BY <1>1, StatusSet DEF Withdrawn

LEMMA InviteEffect ==
    ASSUME Typed, NEW w \in Worker, Invite(w)
    PROVE  /\ SubmissionsGrow /\ DOMAIN submission' = DOMAIN submission
           /\ \A s \in DOMAIN submission \ task[w].S : submission'[s] = submission[s]
           /\ \A s \in task[w].S : submission'[s].status = "INTERVIEWING" /\ submission'[s].request = Len(request) + 1
<1> DEFINE S == task[w].S
           n == Len(request) + 1
           x == [s \in DOMAIN submission |-> InRequest(submission[s], "INTERVIEWING", n)]
<1>5. Len(request) \in Nat
  BY RowsTyped DEF Typed
<1>6. S \subseteq DOMAIN submission
  BY InviteAdds
<1>7. n \in Nat
  BY <1>5
<1>0. S \subseteq DOMAIN submission /\ n \in Nat
  BY <1>6, <1>7
<1>4. "INTERVIEWING" \in SubmissionStatus
  BY DEF SubmissionStatus
<1>1. submission' = [s \in DOMAIN submission |-> IF s \in S THEN x[s] ELSE submission[s]]
  BY DEF Invite, InRequest
<1> HIDE DEF S
<1>2. ASSUME NEW s \in DOMAIN submission, s \in S
      PROVE  /\ x[s] \in SubmissionRow /\ x[s].agent = submission[s].agent /\ x[s].agency = submission[s].agency
             /\ x[s].status = "INTERVIEWING" /\ x[s].request = n
  <2>1. submission[s] \in SubmissionRow
    BY SubmissionsTyped DEF Typed
  <2>2. x[s] = InRequest(submission[s], "INTERVIEWING", n)
    OBVIOUS
  <2> HIDE DEF x, n
  <2> QED
    BY <1>0, <1>4, <2>1, <2>2, RowWith
<1> HIDE DEF x, n
<1>3. /\ SubmissionsGrow /\ DOMAIN submission' = DOMAIN submission
      /\ \A s \in DOMAIN submission : submission'[s] = IF s \in S THEN x[s] ELSE submission[s]
  BY <1>1, <1>2, SubmissionsChange DEF Typed
<1> QED
  BY <1>0, <1>2, <1>3 DEF S, n

LEMMA SubmitEffect ==
    ASSUME Typed, NEW w \in Worker, Submit(w)
    PROVE  LET n == Len(submission) + 1 IN
           /\ task[w].op = "submit" /\ task[w].a \in Agent /\ task[w].agency \in BOOLEAN
           /\ {Talent(task[w].a), Opening} \subseteq task[w].about
           /\ SubmissionsGrow /\ DOMAIN submission' = DOMAIN submission \cup {n} /\ n \notin DOMAIN submission
           /\ \A s \in DOMAIN submission : submission'[s] = submission[s]
           /\ submission'[n] = [agent |-> task[w].a, agency |-> task[w].agency,
                                status |-> "PENDING_REVIEW", request |-> NoRequest]
<1> DEFINE e == [agent |-> task[w].a, agency |-> task[w].agency, status |-> "PENDING_REVIEW", request |-> NoRequest]
<1>1. /\ task[w].op = "submit" /\ task[w].a \in Agent /\ task[w].agency \in BOOLEAN
      /\ {Talent(task[w].a), Opening} \subseteq task[w].about
  BY DEF Submit, Doing, Typed, TasksOK, Refers
<1>2. e \in SubmissionRow
  BY <1>1 DEF SubmissionRow, SubmissionStatus, NoRequest
<1>3. submission' = Append(submission, e)
  BY DEF Submit
<1> HIDE DEF e
<1> QED
  BY <1>1, <1>2, <1>3, SubmissionAdded DEF Typed, e

-------------------------------------------------------------------------------
(***************************************************************************)
(* The kinds of steps                                                      *)
(***************************************************************************)
dataVars == <<requestVars, submissionVars, agentVars, standing>>
BeginsOn(w, r) ==
    \/ BeginMove(w, r) \/ BeginNotes(w, r) \/ BeginCancel(w, r)
    \/ \E A \in SUBSET Agent : BeginSchedule(w, r, A)
    \/ \E a \in Agent, answer \in {"CONFIRMED", "DECLINED"} : BeginRespond(w, r, a, answer)
    \/ \E a \in Agent, k \in 1..MaxRounds :
        \/ \E outcome \in Outcome : BeginComplete(w, r, a, k, outcome)
        \/ \E d \in Decision : BeginDecide(w, r, a, k, d)
BeginsFor(w) ==
    \/ \E a \in Agent : BeginSubmit(w, a)
    \/ \E s \in DOMAIN submission :
        \/ \E to \in SubmissionStatus : BeginReview(w, s, to)
        \/ BeginWithdraw(w, s)
    \/ \E A \in SUBSET Agent : BeginInvite(w, A)
    \/ \E to \in {"FILLED", "CLOSED"} : BeginClose(w, to)
Begins(w) == BeginsFor(w) \/ \E r \in DOMAIN request : BeginsOn(w, r)
Rereads(w) == WriteOutcome(w) \/ WriteDecision(w) \/ GiveUp(w)
Publishes(w) == Submit(w) \/ Answer(w) \/ Invite(w) \/ Close(w)
Alone == (\E c \in Client, A \in SUBSET Agent : RequestInterviews(c, A))
         \/ \E a \in Agent : HoldEnds(a) \/ Leave(a) \/ WithdrawOnExit(a)

LEMMA StepCases ==
    ASSUME Next
    PROVE  Alone \/ \E w \in Worker : Begins(w) \/ Rereads(w) \/ Writes(w) \/ Publishes(w)
BY DEF Next, Alone, Begins, BeginsOn, BeginsFor, Rereads, Writes, Publishes

LEMMA BeginsQuietly == ASSUME NEW w \in Worker, Begins(w) PROVE UNCHANGED dataVars
<1>1. ASSUME NEW r \in DOMAIN request, BeginsOn(w, r) PROVE UNCHANGED dataVars
  BY <1>1 DEF BeginsOn, dataVars, BeginMove, BeginNotes, BeginCancel, BeginSchedule, BeginRespond,
     BeginComplete, BeginDecide
<1>2. CASE BeginsFor(w)
  BY <1>2 DEF BeginsFor, dataVars, BeginSubmit, BeginReview, BeginWithdraw, BeginInvite, BeginClose
<1> QED
  BY <1>1, <1>2 DEF Begins

LEMMA RereadsQuietly == ASSUME NEW w \in Worker, Rereads(w) PROVE UNCHANGED dataVars
BY DEF Rereads, WriteOutcome, WriteDecision, GiveUp, dataVars

LEMMA SubmissionSide == ASSUME Typed, [Next]_vars PROVE SubmissionsGrow
<1>1. CASE UNCHANGED submission
  <2>1. submission \in Seq(SubmissionRow) /\ Len(submission) \in Nat /\ DOMAIN submission = 1..Len(submission)
    BY SubmissionsTyped DEF Typed
  <2> QED
    BY <1>1, <2>1 DEF SubmissionsGrow
<1>2. CASE Alone
  <2>1. ASSUME NEW a \in Agent, WithdrawOnExit(a) PROVE SubmissionsGrow
    <3>1. submission' = Withdrawn(OfAgency \cap OpenFor(a))
      BY <2>1 DEF WithdrawOnExit
    <3> QED
      BY <3>1, WithdrawnEffect DEF Changed, Typed
  <2> QED
    BY <1>1, <1>2, <2>1 DEF Alone, RequestInterviews, HoldEnds, Leave, submissionVars
<1>3. ASSUME NEW w \in Worker, Begins(w) \/ Rereads(w) PROVE SubmissionsGrow
  BY <1>1, <1>3, BeginsQuietly, RereadsQuietly DEF dataVars, submissionVars
<1>4. ASSUME NEW w \in Worker, Writes(w) PROVE SubmissionsGrow
  <2>1. CASE Decide(w)
    BY <2>1, DecideSubmissions DEF Changed
  <2> QED
    BY <1>1, <1>4, <2>1 DEF Writes, Move, Respond, Schedule, Cancel, Complete, AskAgain, submissionVars
<1>5. ASSUME NEW w \in Worker, Publishes(w) PROVE SubmissionsGrow
  <2>1. CASE Close(w)
    <3>1. submission' = Withdrawn(task[w].S)
      BY <2>1 DEF Close
    <3> QED
      BY <3>1, WithdrawnEffect DEF Changed, Typed
  <2> QED
    BY <1>5, <2>1, SubmitEffect, AnswerEffect, InviteEffect DEF Publishes, Changed
<1> QED
  BY <1>1, <1>2, <1>3, <1>4, <1>5, StepCases DEF vars, submissionVars

\* Everything but the two tables.
OthersTyped ==
    /\ opportunity' \in {"OPEN", "INTERVIEWING", "FILLED", "CLOSED"}
    /\ availability' \in [Agent -> Availability]
    /\ hold' \in [Agent -> [client: Client \cup {NoClient}, before: Availability]]
    /\ standing' \in [Agent -> {"DIRECT", "MEMBER", "LEFT", "GONE"}]
    /\ placed' \subseteq Client \X Agent

LEMMA FreedTyped ==
    ASSUME TypeOK, NEW A PROVE Freed(A) \in [Agent -> Availability]
BY InterviewsAssumption DEF Freed, TypeOK, Availability

LEMMA OtherSide == ASSUME Typed, [Next]_vars PROVE OthersTyped
<1>0. TypeOK
  BY DEF Typed
<1>1. CASE UNCHANGED <<opportunity, availability, hold, standing, placed>>
  BY <1>0, <1>1 DEF TypeOK, OthersTyped
<1>2. CASE Alone
  <2>1. ASSUME NEW a \in Agent, HoldEnds(a) PROVE OthersTyped
    <3>1. NoHold \in [client: Client \cup {NoClient}, before: Availability]
      BY InterviewsAssumption DEF NoHold, Availability
    <3>2. hold' = [hold EXCEPT ![a] = NoHold]
          /\ availability' = [availability EXCEPT ![a] = IF @ = "RESERVED" THEN hold[a].before ELSE @]
          /\ UNCHANGED <<opportunity, placed, standing>>
      BY <2>1 DEF HoldEnds, requestVars, submissionVars
    <3>3. hold[a].before \in Availability /\ availability[a] \in Availability
      BY <1>0 DEF TypeOK
    <3> HIDE DEF NoHold
    <3>4. hold' \in [Agent -> [client: Client \cup {NoClient}, before: Availability]]
      BY <1>0, <3>1, <3>2 DEF TypeOK
    <3>5. availability' \in [Agent -> Availability]
      BY <1>0, <3>2, <3>3 DEF TypeOK
    <3> QED
      BY <1>0, <3>2, <3>4, <3>5 DEF TypeOK, OthersTyped
  <2>2. ASSUME NEW a \in Agent, Leave(a) \/ WithdrawOnExit(a) PROVE OthersTyped
    <3>1. \E s \in {"LEFT", "GONE"} : standing' = [standing EXCEPT ![a] = s]
      BY <2>2 DEF Leave, WithdrawOnExit
    <3>2. UNCHANGED <<opportunity, availability, hold, placed>>
      BY <2>2 DEF Leave, WithdrawOnExit, requestVars, submissionVars, agentVars
    <3> QED
      BY <1>0, <3>1, <3>2 DEF TypeOK, OthersTyped
  <2> QED
    BY <1>1, <1>2, <2>1, <2>2 DEF Alone, RequestInterviews, requestVars, submissionVars, agentVars
<1>3. ASSUME NEW w \in Worker, Begins(w) \/ Rereads(w) PROVE OthersTyped
  BY <1>1, <1>3, BeginsQuietly, RereadsQuietly DEF dataVars, requestVars, submissionVars, agentVars
<1>4. ASSUME NEW w \in Worker, Writes(w) PROVE OthersTyped
  <2>1. CASE Schedule(w)
    BY <1>0, <2>1 DEF Schedule, TypeOK, OthersTyped, Availability, submissionVars
  <2>2. CASE Cancel(w)
    <3>1. \E A : availability' = Freed(A)
      BY <2>2 DEF Cancel
    <3>2. UNCHANGED <<opportunity, hold, standing, placed>>
      BY <2>2 DEF Cancel, submissionVars
    <3> QED
      BY <1>0, <3>1, <3>2, FreedTyped DEF TypeOK, OthersTyped
  <2>3. CASE Decide(w)
    <3> DEFINE t == task[w]
               c == request[t.r].client
    <3>1. t.op = "deciding" /\ t.r \in DOMAIN request /\ <<t.a, t.k>> \in InterviewsOf(request[t.r])
      BY <2>3 DEF Decide, Doing, Typed, TasksOK, Refers, RowOps, InterviewOps
    <3>2. request[t.r] \in RequestRow
      BY <1>0, <3>1, RowsTyped
    <3>3. t.a \in Agent /\ c \in Client
      BY <3>1, <3>2 DEF RequestRow, InterviewsOf
    <3>4. availability' = [Freed(t.freed) EXCEPT ![t.a] = IF t.holds THEN "RESERVED" ELSE @]
          /\ (hold' = hold \/ hold' = [hold EXCEPT ![t.a] = [client |-> c, before |-> availability[t.a]]])
          /\ (placed' = placed \/ placed' = placed \cup {<<c, t.a>>})
          /\ UNCHANGED <<opportunity, standing>>
      BY <2>3 DEF Decide
    <3> HIDE DEF t, c
    <3>5. Freed(t.freed) \in [Agent -> Availability] /\ "RESERVED" \in Availability
      BY <1>0, FreedTyped DEF Availability
    <3>6. availability' \in [Agent -> Availability]
      BY <3>3, <3>4, <3>5
    <3>7. [client |-> c, before |-> availability[t.a]] \in [client: Client \cup {NoClient}, before: Availability]
      BY <1>0, <3>3 DEF TypeOK
    <3>8. hold' \in [Agent -> [client: Client \cup {NoClient}, before: Availability]]
      BY <1>0, <3>3, <3>4, <3>7 DEF TypeOK
    <3> QED
      BY <1>0, <3>3, <3>4, <3>6, <3>8 DEF TypeOK, OthersTyped
  <2> QED
    BY <1>1, <1>4, <2>1, <2>2, <2>3 DEF Writes, Move, Respond, Complete, AskAgain, submissionVars, agentVars
<1>5. ASSUME NEW w \in Worker, Publishes(w) PROVE OthersTyped
  <2>1. CASE Invite(w)
    BY <1>0, <2>1 DEF Invite, TypeOK, OthersTyped, agentVars
  <2>2. CASE Close(w)
    <3>1. opportunity' \in {"FILLED", "CLOSED"}
      BY <2>2 DEF Close, Doing, Typed, TasksOK, Refers
    <3> QED
      BY <1>0, <2>2, <3>1 DEF Close, TypeOK, OthersTyped, agentVars, requestVars
  <2> QED
    BY <1>1, <1>5, <2>1, <2>2 DEF Publishes, Submit, Answer, requestVars, agentVars
<1> QED
  BY <1>1, <1>2, <1>3, <1>4, <1>5, StepCases DEF vars, requestVars, submissionVars, agentVars

LEMMA TypeStays == ASSUME Typed, [Next]_vars PROVE TypeOK' /\ Interviewed'
<1>1. request' \in Seq(RequestRow) /\ submission' \in Seq(SubmissionRow) /\ Interviewed'
  BY RequestSide, SubmissionSide DEF RequestsGrow, SubmissionsGrow
<1>2. OthersTyped
  BY OtherSide
<1> QED
  BY <1>1, <1>2 DEF TypeOK, OthersTyped, RequestRow, SubmissionRow

-------------------------------------------------------------------------------
(***************************************************************************)
(* The requests in flight                                                  *)
(***************************************************************************)

\* What t has read is what there is, and there is nothing else.
Fresh(t) ==
    /\ t.op \in RowOps => CurrentRow(t, request[t.r])
    /\ \A a \in Agent : CurrentTalent(t, a)
    /\ \A s \in DOMAIN submission : CurrentEntry(t, s)
    /\ SyncsAll(t)
    /\ CurrentOpening(t)

LEMMA IdleTask == Refers(Idle)
BY DEF Idle, Refers, Ops, RowOps, InterviewOps

LEMMA BeginsOnTask ==
    ASSUME Typed, NEW w \in Worker, NEW r \in DOMAIN request, BeginsOn(w, r)
    PROVE  \E t : Begin(w, t) /\ Refers(t) /\ Fresh(t)
<1>0. request[r] \in RequestRow /\ \A i \in InterviewsOf(request[r]) : i[1] \in CandidatesOf(request[r])
  BY RowsTyped DEF Typed, Interviewed
<1>1. CASE BeginMove(w, r)
  <2> DEFINE t == [op |-> "move", r |-> r, to |-> Handover[request[r].status], about |-> {Row(r)}]
  <2>1. Begin(w, t) /\ request[r].status \in DOMAIN Handover
    BY <1>1 DEF BeginMove
  <2>2. Handover[request[r].status] \in RequestStatus
    BY <2>1 DEF Handover, RequestStatus
  <2>3. Refers(t)
    BY <2>2 DEF Refers, Ops, RowOps, InterviewOps
  <2>4. Fresh(t)
    BY <2>1 DEF Fresh, CurrentRow, MoveOf, CurrentTalent, CurrentEntry, SyncsAll, CurrentOpening
  <2> QED
    BY <2>1, <2>3, <2>4
<1>2. CASE BeginNotes(w, r)
  <2> DEFINE t == [op |-> "move", r |-> r, to |-> request[r].status, about |-> {Row(r)}]
  <2>1. Begin(w, t)
    BY <1>2 DEF BeginNotes
  <2>2. request[r].status \in RequestStatus
    BY <1>0 DEF RequestRow
  <2>3. Refers(t)
    BY <2>2 DEF Refers, Ops, RowOps, InterviewOps
  <2>4. Fresh(t)
    BY <2>1 DEF Fresh, CurrentRow, MoveOf, CurrentTalent, CurrentEntry, SyncsAll, CurrentOpening
  <2> QED
    BY <2>1, <2>3, <2>4
<1>3. CASE BeginCancel(w, r)
  <2> DEFINE t == [op |-> "cancel", r |-> r, busy |-> Interviewing(CandidatesOf(request[r])),
                   about |-> {Row(r)} \cup {Talent(a) : a \in CandidatesOf(request[r])}]
  <2>1. Begin(w, t) /\ request[r].status \in Cancellable
    BY <1>3 DEF BeginCancel
  <2>2. Refers(t)
    BY DEF Refers, Ops, RowOps, InterviewOps, Interviewing
  <2>3. Fresh(t)
    BY <2>1 DEF Fresh, CurrentRow, CurrentTalent, CurrentEntry, SyncsAll, CurrentOpening, Interviewing
  <2> QED
    BY <2>1, <2>2, <2>3
<1>4. ASSUME NEW A \in SUBSET Agent, BeginSchedule(w, r, A)
      PROVE  \E t : Begin(w, t) /\ Refers(t) /\ Fresh(t)
  <2> DEFINE t == [op |-> "schedule", r |-> r, A |-> A, free |-> AtLeisure(A),
                   about |-> {Row(r)} \cup {Talent(a) : a \in A}]
  <2>1. Begin(w, t) /\ request[r].status = "CANDIDATE_CONFIRMATION" /\ A # {}
        /\ \A a \in A : request[r].candidate[a] \in {"PENDING", "CONFIRMED"}
    BY <1>4 DEF BeginSchedule
  <2>2. A \subseteq CandidatesOf(request[r]) /\ AtLeisure(A) \subseteq A
    BY <2>1 DEF CandidatesOf, AtLeisure
  <2>3. Refers(t)
    BY <2>1, <2>2 DEF Refers, Ops, RowOps, InterviewOps
  <2>4. Fresh(t)
    BY <2>1 DEF Fresh, CurrentRow, CurrentTalent, CurrentEntry, SyncsAll, CurrentOpening, AtLeisure
  <2> QED
    BY <2>1, <2>3, <2>4
<1>5. ASSUME NEW a \in Agent, NEW answer \in {"CONFIRMED", "DECLINED"}, BeginRespond(w, r, a, answer)
      PROVE  \E t : Begin(w, t) /\ Refers(t) /\ Fresh(t)
  <2> DEFINE t == [op |-> "respond", r |-> r, a |-> a, answer |-> answer, about |-> {Row(r)}]
  <2>1. Begin(w, t) /\ a \in CandidatesOf(request[r])
    BY <1>5 DEF BeginRespond
  <2>2. Refers(t)
    BY <2>1 DEF Refers, Ops, RowOps, InterviewOps
  <2>3. Fresh(t)
    BY DEF Fresh, CurrentRow, CurrentTalent, CurrentEntry, SyncsAll, CurrentOpening
  <2> QED
    BY <2>1, <2>2, <2>3
<1>6. ASSUME NEW a \in Agent, NEW k \in 1..MaxRounds, NEW outcome \in Outcome, BeginComplete(w, r, a, k, outcome)
      PROVE  \E t : Begin(w, t) /\ Refers(t) /\ Fresh(t)
  <2> DEFINE t == [op |-> "complete", r |-> r, a |-> a, k |-> k, outcome |-> outcome, about |-> {Row(r)}]
  <2>1. Begin(w, t) /\ <<a, k>> \in ScheduledIn(request[r])
    BY <1>6 DEF BeginComplete
  <2>2. <<a, k>> \in InterviewsOf(request[r])
    BY <2>1 DEF ScheduledIn
  <2>3. Refers(t)
    BY <2>2 DEF Refers, Ops, RowOps, InterviewOps
  <2>4. Fresh(t)
    BY <2>1 DEF Fresh, CurrentRow, CurrentTalent, CurrentEntry, SyncsAll, CurrentOpening
  <2> QED
    BY <2>1, <2>3, <2>4
<1>7. ASSUME NEW a \in Agent, NEW k \in 1..MaxRounds, NEW d \in Decision, BeginDecide(w, r, a, k, d)
      PROVE  \E t : Begin(w, t) /\ Refers(t) /\ Fresh(t)
  <2> DEFINE t == [op |-> "decide", r |-> r, a |-> a, k |-> k, decision |-> d,
                   about |-> {Row(r)} \cup {Talent(b) : b \in CandidatesOf(request[r])}
                             \cup {Entry(s) : s \in Synced(r, a)}]
  <2>1. /\ Begin(w, t) /\ <<a, k>> \in InterviewsOf(request[r])
        /\ request[r].status = "CLIENT_DECISION_PENDING"
        /\ request[r].rounds[a][k].status = "COMPLETED"
        /\ request[r].rounds[a][k].decision \notin Final
    BY <1>7 DEF BeginDecide
  <2>2. Refers(t)
    BY <2>1 DEF Refers, Ops, RowOps, InterviewOps
  <2>3. Fresh(t)
    BY <2>1 DEF Fresh, CurrentRow, CurrentTalent, CurrentEntry, SyncsAll, CurrentOpening
  <2> QED
    BY <2>1, <2>2, <2>3
<1> QED
  BY <1>1, <1>2, <1>3, <1>4, <1>5, <1>6, <1>7 DEF BeginsOn

LEMMA BeginsForTask ==
    ASSUME Typed, NEW w \in Worker, BeginsFor(w)
    PROVE  \E t : Begin(w, t) /\ Refers(t) /\ Fresh(t)
<1>1. ASSUME NEW a \in Agent, BeginSubmit(w, a) PROVE \E t : Begin(w, t) /\ Refers(t) /\ Fresh(t)
  <2> DEFINE t == [op |-> "submit", a |-> a, agency |-> standing[a] = "MEMBER", about |-> {Talent(a), Opening}]
  <2>1. Begin(w, t) /\ opportunity \in {"OPEN", "INTERVIEWING"} /\ OpenFor(a) = {}
    BY <1>1 DEF BeginSubmit, MaySubmit
  <2>2. Refers(t)
    BY DEF Refers, Ops, RowOps, InterviewOps
  <2>3. Fresh(t)
    BY <2>1 DEF Fresh, RowOps, CurrentTalent, CurrentEntry, SyncsAll, CurrentOpening
  <2> QED
    BY <2>1, <2>2, <2>3
<1>2. ASSUME NEW s \in DOMAIN submission, NEW to \in {"APPROVED_FOR_CLIENT", "DECLINED", "WITHDRAWN"},
             submission[s].status \in {"PENDING_REVIEW", "APPROVED_FOR_CLIENT"},
             Begin(w, [op |-> "answer", s |-> s, to |-> to, about |-> {Entry(s)}])
      PROVE  \E t : Begin(w, t) /\ Refers(t) /\ Fresh(t)
  <2> DEFINE t == [op |-> "answer", s |-> s, to |-> to, about |-> {Entry(s)}]
  <2>1. Refers(t)
    BY DEF Refers, Ops, RowOps, InterviewOps
  <2>2. Fresh(t)
    BY <1>2 DEF Fresh, RowOps, CurrentTalent, CurrentEntry, SyncsAll, CurrentOpening, WaitingStatus
  <2> QED
    BY <1>2, <2>1, <2>2
<1>3. ASSUME NEW A \in SUBSET Agent, BeginInvite(w, A) PROVE \E t : Begin(w, t) /\ Refers(t) /\ Fresh(t)
  <2> DEFINE t == [op |-> "invite", S |-> Approved(A), was |-> opportunity,
                   about |-> {Opening} \cup {Entry(s) : s \in Approved(A)}]
  <2>1. Begin(w, t)
    BY <1>3 DEF BeginInvite
  <2>2. Refers(t)
    BY DEF Refers, Ops, RowOps, InterviewOps, Approved
  <2>3. Fresh(t)
    BY DEF Fresh, RowOps, CurrentTalent, CurrentEntry, SyncsAll, CurrentOpening, Approved
  <2> QED
    BY <2>1, <2>2, <2>3
<1>4. ASSUME NEW to \in {"FILLED", "CLOSED"}, BeginClose(w, to) PROVE \E t : Begin(w, t) /\ Refers(t) /\ Fresh(t)
  <2> DEFINE t == [op |-> "close", to |-> to, S |-> Waiting,
                   about |-> {Opening} \cup {Entry(s) : s \in Waiting}]
  <2>1. Begin(w, t)
    BY <1>4 DEF BeginClose
  <2>2. Refers(t)
    BY DEF Refers, Ops, RowOps, InterviewOps, Waiting
  <2>3. Fresh(t)
    BY DEF Fresh, RowOps, CurrentTalent, CurrentEntry, SyncsAll, CurrentOpening
  <2> QED
    BY <2>1, <2>2, <2>3
<1> QED
  BY <1>1, <1>2, <1>3, <1>4 DEF BeginsFor, BeginReview, BeginWithdraw

LEMMA BeginsTask ==
    ASSUME Typed, NEW w \in Worker, Begins(w)
    PROVE  \E t : Begin(w, t) /\ Refers(t) /\ Fresh(t)
BY BeginsOnTask, BeginsForTask DEF Begins

LEMMA RereadsTask ==
    ASSUME Typed, NEW w \in Worker, Rereads(w)
    PROVE  \E t : Proceed(w, t) /\ t.about \subseteq task[w].about /\ Refers(t)
<1> DEFINE u == task[w]
<1>0. Refers(u)
  BY DEF Typed, TasksOK
<1>1. CASE WriteOutcome(w)
  <2> DEFINE t == [op |-> "completing", r |-> u.r, a |-> u.a, k |-> u.k, outcome |-> u.outcome,
                   last |-> NoneAhead(request[u.r], <<u.a, u.k>>) /\ request[u.r].status = "SCHEDULED",
                   about |-> u.about]
  <2>1. u.op = "complete" /\ Proceed(w, t)
    BY <1>1 DEF WriteOutcome, Doing
  <2>2. Refers(t)
    BY <1>0, <2>1 DEF Refers, Ops, RowOps, InterviewOps
  <2> QED
    BY <2>1, <2>2
<1>2. CASE WriteDecision(w)
  <2> DEFINE q == [request[u.r] EXCEPT !.rounds[u.a][u.k].decision = u.decision]
             closes == AllDecided(q) /\ q.status = "CLIENT_DECISION_PENDING"
             holds == u.decision = "SELECTED" /\ hold[u.a] = NoHold
             synced == IF u.decision \in Final THEN Synced(u.r, u.a) ELSE {}
             freed == IF closes THEN Released(q, u.r) ELSE {}
             t == [op |-> "deciding", r |-> u.r, a |-> u.a, k |-> u.k, decision |-> u.decision,
                   holds |-> holds, synced |-> synced, closes |-> closes, freed |-> freed, about |-> u.about]
  <2>1. u.op = "decide" /\ u.decision # "SECOND_INTERVIEW" /\ Proceed(w, t)
    BY <1>2 DEF WriteDecision, Doing
  <2>2. synced \subseteq DOMAIN submission /\ (synced # {} => u.decision \in Final)
    BY DEF Synced
  <2>3. freed \subseteq CandidatesOf(q)
    BY DEF Released, Interviewing
  <2>4. freed # {} => closes
    OBVIOUS
  <2>5. CandidatesOf(q) = CandidatesOf(request[u.r])
    <3>1. u.r \in DOMAIN request
      BY <1>0, <2>1 DEF Refers, RowOps
    <3>2. request[u.r] \in RequestRow
      BY <3>1, RowsTyped DEF Typed
    <3> QED
      BY <3>2 DEF CandidatesOf, RequestRow
  <2>6. holds => u.decision = "SELECTED"
    OBVIOUS
  <2> HIDE DEF q, closes, holds, synced, freed
  <2>7. Refers(t)
    BY <1>0, <2>1, <2>2, <2>3, <2>4, <2>5, <2>6 DEF Refers, Ops, RowOps, InterviewOps
  <2> QED
    BY <2>1, <2>7
<1>3. CASE GiveUp(w)
  <2>1. Proceed(w, Idle) /\ Idle.about = {}
    BY <1>3 DEF GiveUp, Done, Idle
  <2> QED
    BY <2>1, IdleTask
<1> QED
  BY <1>1, <1>2, <1>3 DEF Rereads

LEMMA RefersStay ==
    ASSUME RequestsGrow, SubmissionsGrow, NEW v \in Worker, UNCHANGED task[v], Refers(task[v])
    PROVE  Refers(task[v])'
<1> DEFINE t == task[v]
<1>1. t.op \in RowOps => /\ t.r \in DOMAIN request'
                         /\ CandidatesOf(request'[t.r]) = CandidatesOf(request[t.r])
                         /\ InterviewsOf(request[t.r]) \subseteq InterviewsOf(request'[t.r])
  BY DEF Refers, RequestsGrow, RowGrows
<1>2. DOMAIN submission \subseteq DOMAIN submission'
  BY DEF SubmissionsGrow
<1> QED
  BY <1>1, <1>2 DEF Refers, RowOps, InterviewOps

\* How a step leaves the requests in flight: one begins, one goes on, or one ends.
TasksMove ==
    \/ UNCHANGED task /\ raced \subseteq raced'
    \/ \E w \in Worker : \E t : Begin(w, t) /\ Refers(t)'
    \/ \E w \in Worker : \E t : Proceed(w, t) /\ Refers(t)' /\ t.about \subseteq task[w].about

LEMMA IdleRefers == Refers(Idle)'
BY DEF Idle, Refers, Ops, RowOps, InterviewOps

LEMMA TaskSide == ASSUME Typed, [Next]_vars PROVE TasksMove
<1>1. ASSUME NEW w \in Worker, Begins(w) PROVE TasksMove
  <2>1. PICK t : Begin(w, t) /\ Refers(t)
    BY <1>1, BeginsTask
  <2>2. UNCHANGED <<request, submission>>
    BY <1>1, BeginsQuietly DEF dataVars, requestVars, submissionVars
  <2>3. Refers(t)'
    BY <2>1, <2>2 DEF Refers
  <2> QED
    BY <2>1, <2>3 DEF TasksMove
<1>2. ASSUME NEW w \in Worker, Rereads(w) PROVE TasksMove
  <2>1. PICK t : Proceed(w, t) /\ t.about \subseteq task[w].about /\ Refers(t)
    BY <1>2, RereadsTask
  <2>2. UNCHANGED <<request, submission>>
    BY <1>2, RereadsQuietly DEF dataVars, requestVars, submissionVars
  <2>3. Refers(t)'
    BY <2>1, <2>2 DEF Refers
  <2> QED
    BY <2>1, <2>3 DEF TasksMove
<1>3. ASSUME NEW w \in Worker, Writes(w) \/ Publishes(w) PROVE TasksMove
  <2>1. Proceed(w, Idle)
    BY <1>3 DEF Writes, Move, Respond, Schedule, Cancel, Complete, AskAgain, Decide,
       Publishes, Submit, Answer, Invite, Close, Done
  <2>2. Idle.about = {}
    BY DEF Idle
  <2> QED
    BY <2>1, <2>2, IdleRefers DEF TasksMove
<1>4. CASE Alone
  BY <1>4 DEF Alone, RequestInterviews, HoldEnds, Leave, WithdrawOnExit, TasksMove
<1> QED
  BY <1>1, <1>2, <1>3, <1>4, StepCases DEF vars, TasksMove

LEMMA TasksStay == ASSUME Typed, [Next]_vars PROVE TasksOK'
<1>0. RequestsGrow /\ SubmissionsGrow
  BY RequestSide, SubmissionSide
<1>1. PICK T : task \in [Worker -> T]
  BY DEF Typed, TasksOK
<1>2. CASE UNCHANGED task /\ raced \subseteq raced'
  BY <1>0, <1>1, <1>2, RefersStay DEF TasksOK, Typed
<1>3. ASSUME NEW w \in Worker, NEW t, task' = [task EXCEPT ![w] = t], Refers(t)' PROVE TasksOK'
  <2>1. task' \in [Worker -> T \cup {t}]
    BY <1>1, <1>3
  <2>2. ASSUME NEW v \in Worker PROVE Refers(task[v])'
    <3>1. CASE v = w
      <4>1. task'[v] = t
        BY <1>1, <1>3, <3>1
      <4> QED
        BY <1>3, <4>1 DEF Refers
    <3>2. CASE v # w
      <4>1. UNCHANGED task[v]
        BY <1>1, <1>3, <3>2
      <4> QED
        BY <1>0, <4>1, RefersStay DEF Typed, TasksOK
    <3> QED
      BY <3>1, <3>2
  <2> QED
    BY <2>1, <2>2 DEF TasksOK
<1> QED
  BY <1>2, <1>3, TaskSide DEF TasksMove, Begin, Proceed

LEMMA OneByOneStays == ASSUME Typed, OneByOne, [Next]_vars PROVE OneByOne' /\ raced \subseteq raced'
<1>1. PICK T : task \in [Worker -> T]
  BY DEF Typed, TasksOK
<1>2. CASE UNCHANGED task /\ raced \subseteq raced'
  BY <1>2 DEF OneByOne
<1>3. ASSUME NEW w \in Worker, NEW t, Begin(w, t) PROVE OneByOne' /\ raced \subseteq raced'
  <2>1. task' = [task EXCEPT ![w] = t] /\ raced' = raced \cup (t.about \cap InFlight)
    BY <1>3 DEF Begin
  <2>2. \A v \in Worker : task[v].about \subseteq InFlight
    BY DEF InFlight
  <2> HIDE DEF InFlight
  <2>3. \A v \in Worker : task'[v] = IF v = w THEN t ELSE task[v]
    BY <1>1, <2>1
  <2>4. raced \subseteq raced' /\ \A v \in Worker : task[v].about \cap t.about \subseteq raced'
    BY <2>1, <2>2
  <2> QED
    BY <2>3, <2>4 DEF OneByOne
<1>4. ASSUME NEW w \in Worker, NEW t, Proceed(w, t), t.about \subseteq task[w].about
      PROVE  OneByOne' /\ raced \subseteq raced'
  <2>1. \A v \in Worker : task'[v] = IF v = w THEN t ELSE task[v]
    BY <1>1, <1>4 DEF Proceed
  <2> QED
    BY <1>4, <2>1 DEF OneByOne, Proceed
<1> QED
  BY <1>2, <1>3, <1>4, TaskSide DEF TasksMove

-------------------------------------------------------------------------------
(***************************************************************************)
(* The status of a request                                                 *)
(***************************************************************************)
RowsCurrent ==
    \A v \in Worker :
        task[v].op \in RowOps /\ Row(task[v].r) \notin raced => CurrentRow(task[v], request[task[v].r])

RowInv == Typed /\ OneByOne /\ RowsOK /\ RowsCurrent

\* A request that another one is about is left alone, or they race.
LEMMA RowKept ==
    ASSUME Typed, OneByOne, [Next]_vars, NEW v \in Worker, UNCHANGED task[v],
           task[v].op \in RowOps, Row(task[v].r) \notin raced'
    PROVE  request'[task[v].r] = request[task[v].r]
<1>1. task[v].r \in DOMAIN request /\ Row(task[v].r) \in task[v].about
  BY TaskOf DEF Typed
<1>2. raced \subseteq raced'
  BY OneByOneStays
<1>3. ASSUME NEW c \in Client, NEW A \in SUBSET Agent, request' = Append(request, NewRequest(c, A))
      PROVE  request'[task[v].r] = request[task[v].r]
  BY <1>1, <1>3, RequestAdded
<1>4. ASSUME NEW w \in Worker, Writes(w) PROVE request'[task[v].r] = request[task[v].r]
  <2>1. /\ Wrote(task[w].r) /\ Done(w)
        /\ task[w].op \in RowOps /\ Row(task[w].r) \in task[w].about
    BY <1>4, WriterRows
  <2>2. CASE w = v
    <3>1. task'[w] = Idle
      BY <2>1 DEF Done, Proceed, Typed, TasksOK
    <3> QED
      BY <2>1, <2>2, <3>1 DEF Idle, RowOps
  <2>3. CASE w # v
    <3>1. Row(task[w].r) # Row(task[v].r)
      BY <1>1, <1>2, <2>1, <2>3 DEF OneByOne
    <3>2. task[w].r # task[v].r
      BY <3>1
    <3> QED
      BY <1>1, <2>1, <3>2 DEF Wrote
  <2> QED
    BY <2>2, <2>3
<1>5. CASE Next
  BY <1>3, <1>4, <1>5, RequestCases
<1> QED
  BY <1>5 DEF vars, requestVars

LEMMA WriterConsistent ==
    ASSUME Typed, NEW w \in Worker, Writes(w), CurrentRow(task[w], request[task[w].r]),
           Consistent(request[task[w].r])
    PROVE  Consistent(request'[task[w].r])
<1> DEFINE t == task[w]
           q == request[t.r]
           p == request'[t.r]
<1>0. t.op \in RowOps /\ t.r \in DOMAIN request /\ q \in RequestRow
  BY WriterRows, RowsTyped DEF Typed, Wrote
<1>1. CASE Move(w)
  <2>1. SameBut(q, p, {}) /\ p.status = t.to /\ t.op = "move"
    BY <1>1, MoveEffect DEF Move, Doing
  <2>2. p.status = q.status \/ (q.status \in DOMAIN Handover /\ p.status = Handover[q.status])
    BY <2>1 DEF CurrentRow, MoveOf
  <2> HIDE DEF q, p
  <2>3. Consistent(p)
    BY <2>1, <2>2, UnchangedInterviews DEF q
  <2> QED
    BY <2>3 DEF p
<1>2. CASE Respond(w)
  <2>1. SameBut(q, p, {}) /\ p.status = q.status
    BY <1>2, RespondEffect
  <2> HIDE DEF q, p
  <2>3. Consistent(p)
    BY <2>1, UnchangedInterviews DEF q
  <2> QED
    BY <2>3 DEF p
<1>3. CASE Schedule(w)
  <2> DEFINE A == t.A
  <2>1. p = WithInterviews(q, A) /\ A # {} /\ A \subseteq Agent /\ \A a \in A : Len(q.rounds[a]) < MaxRounds
    BY <1>3, ScheduleEffect
  <2>2. q.status \in OpenRequestStatus
    BY <1>3 DEF Schedule, Doing, CurrentRow, OpenRequestStatus, RequestStatus
  <2> HIDE DEF q, p, A
  <2>3. Consistent(p)
    BY <1>0, <2>1, <2>2, ScheduledIsConsistent DEF q
  <2> QED
    BY <2>3 DEF p
<1>4. CASE Cancel(w)
  <2>1. p = WithoutInterviews(q)
    BY <1>4, CancelEffect
  <2> HIDE DEF q, p
  <2>3. Consistent(p)
    BY <1>0, <2>1, CancelledIsConsistent DEF q
  <2> QED
    BY <2>3 DEF p
<1>5. CASE Complete(w)
  <2> DEFINE i == <<t.a, t.k>>
             last == NoneAhead(q, i) /\ q.status = "SCHEDULED"
             outcome == t.outcome
  <2>1. /\ i \in InterviewsOf(q) /\ SameBut(q, p, {i})
        /\ The(p, i).status = outcome /\ The(p, i).decision = The(q, i).decision
        /\ p.status = IF t.last THEN "CLIENT_DECISION_PENDING" ELSE q.status
    BY <1>5, CompleteEffect
  <2>2. t.op = "completing" /\ outcome \in Outcome
    BY <1>5 DEF Complete, Doing, Typed, TasksOK, Refers
  <2>3. i \in ScheduledIn(q) /\ (t.last <=> last)
    BY <2>2 DEF CurrentRow
  <2>4. last \in BOOLEAN /\ p.status = IF last THEN "CLIENT_DECISION_PENDING" ELSE q.status
    BY <2>1, <2>3
  <2>5. last <=> NoneAhead(q, i) /\ q.status = "SCHEDULED"
    OBVIOUS
  <2> HIDE DEF q, p, i, last, outcome
  <2>6. Consistent(p)
    BY <2>1, <2>2, <2>3, <2>4, <2>5, OutcomeIsConsistent DEF q
  <2> QED
    BY <2>6 DEF p
<1>6. CASE AskAgain(w) \/ Decide(w)
  <2> DEFINE i == <<t.a, t.k>>
             d == t.decision
  <2>1. /\ i \in InterviewsOf(q) /\ SameBut(q, p, {i})
        /\ The(p, i).status = The(q, i).status /\ The(p, i).decision = d /\ d \in Decision
    BY <1>6, AskAgainEffect, DecideEffect DEF AskAgain, Decision
  <2>2. \/ d = "SECOND_INTERVIEW" /\ p.status = "CLIENT_CONFIRMATION"
        \/ d # "SECOND_INTERVIEW" /\ p.status = IF AllDecided(p) THEN "CLOSED" ELSE q.status
    <3>1. CASE AskAgain(w)
      BY <3>1, AskAgainEffect DEF AskAgain
    <3>2. CASE Decide(w)
      <4>1. /\ d # "SECOND_INTERVIEW" /\ p.rounds = With(q, t).rounds
            /\ p.status = IF t.closes THEN "CLOSED" ELSE q.status
        BY <3>2, DecideEffect
      <4>2. t.closes <=> AllDecided(With(q, t))
        BY <3>2 DEF Decide, Doing, CurrentRow
      <4>3. AllDecided(With(q, t)) <=> AllDecided(p)
        BY <4>1 DEF AllDecided, InterviewsOf, The
      <4> QED
        BY <4>1, <4>2, <4>3
    <3> QED
      BY <1>6, <3>1, <3>2
  <2>3. q.status = "CLIENT_DECISION_PENDING" /\ The(q, i).status = "COMPLETED"
    BY <1>6 DEF AskAgain, Decide, Doing, CurrentRow, The
  <2> HIDE DEF q, p, i, d
  <2>4. Consistent(p)
    BY <2>1, <2>2, <2>3, DecisionIsConsistent DEF q
  <2> QED
    BY <2>4 DEF p
<1> QED
  BY <1>1, <1>2, <1>3, <1>4, <1>5, <1>6 DEF Writes

LEMMA RowsStayOK == ASSUME RowInv, [Next]_vars PROVE RowsOK'
<1>0. Typed /\ OneByOne /\ raced \subseteq raced'
  BY OneByOneStays DEF RowInv
<1>1. CASE UNCHANGED request
  BY <1>0, <1>1 DEF RowInv, RowsOK
<1>2. ASSUME NEW c \in Client, NEW A \in SUBSET Agent, request' = Append(request, NewRequest(c, A))
      PROVE  RowsOK'
  <2>1. /\ DOMAIN request' = DOMAIN request \cup {Len(request) + 1}
        /\ \A r \in DOMAIN request : request'[r] = request[r]
        /\ request'[Len(request) + 1] = NewRequest(c, A)
    BY <1>0, <1>2, RequestAdded
  <2>2. Consistent(NewRequest(c, A))
    BY NewIsConsistent
  <2> QED
    BY <1>0, <2>1, <2>2 DEF RowInv, RowsOK
<1>3. ASSUME NEW w \in Worker, Writes(w) PROVE RowsOK'
  <2>1. Wrote(task[w].r) /\ task[w].op \in RowOps
    BY <1>0, <1>3, WriterRows
  <2>2. ASSUME Row(task[w].r) \notin raced' PROVE Consistent(request'[task[w].r])
    <3>1. CurrentRow(task[w], request[task[w].r]) /\ Consistent(request[task[w].r])
      BY <1>0, <2>1, <2>2 DEF RowInv, RowsOK, RowsCurrent, Wrote
    <3> QED
      BY <1>0, <1>3, <3>1, WriterConsistent
  <2> QED
    BY <1>0, <2>1, <2>2 DEF RowInv, RowsOK, Wrote
<1>4. CASE Next
  BY <1>0, <1>1, <1>2, <1>3, <1>4, RequestCases
<1> QED
  BY <1>1, <1>4 DEF vars, requestVars

\* What a transaction goes on with once it has written its own row.
LastAhead(u) == NoneAhead(request[u.r], <<u.a, u.k>>) /\ request[u.r].status = "SCHEDULED"
Completing(u) ==
    [op |-> "completing", r |-> u.r, a |-> u.a, k |-> u.k, outcome |-> u.outcome,
     last |-> LastAhead(u), about |-> u.about]
Closes(u) == AllDecided(With(request[u.r], u)) /\ With(request[u.r], u).status = "CLIENT_DECISION_PENDING"
Deciding(u) ==
    [op |-> "deciding", r |-> u.r, a |-> u.a, k |-> u.k, decision |-> u.decision,
     holds |-> u.decision = "SELECTED" /\ hold[u.a] = NoHold,
     synced |-> IF u.decision \in Final THEN Synced(u.r, u.a) ELSE {},
     closes |-> Closes(u), freed |-> IF Closes(u) THEN Released(With(request[u.r], u), u.r) ELSE {},
     about |-> u.about]

LEMMA RereadsAs ==
    ASSUME Typed, NEW w \in Worker, Rereads(w)
    PROVE  \/ task[w].op = "complete" /\ task'[w] = Completing(task[w])
           \/ /\ task[w].op = "decide" /\ task'[w] = Deciding(task[w])
              /\ task[w].decision # "SECOND_INTERVIEW"
              /\ task[w].decision = "SELECTED" => MayHold(With(request[task[w].r], task[w]).client, task[w].a)
           \/ task'[w] = Idle
<1>0. \A t : Proceed(w, t) => task'[w] = t
  BY DEF Proceed, Typed, TasksOK
<1>1. CASE WriteOutcome(w)
  <2>1. task[w].op = "complete" /\ Proceed(w, Completing(task[w]))
    BY <1>1 DEF WriteOutcome, Doing, Completing, LastAhead
  <2> QED
    BY <1>0, <2>1
<1>2. CASE WriteDecision(w)
  <2>1. /\ task[w].op = "decide" /\ Proceed(w, Deciding(task[w])) /\ task[w].decision # "SECOND_INTERVIEW"
        /\ task[w].decision = "SELECTED" => MayHold(With(request[task[w].r], task[w]).client, task[w].a)
    BY <1>2 DEF WriteDecision, Doing, Deciding, Closes, With
  <2> QED
    BY <1>0, <2>1
<1>3. CASE GiveUp(w)
  BY <1>0, <1>3 DEF GiveUp, Done
<1> QED
  BY <1>1, <1>2, <1>3 DEF Rereads

\* What a transaction reads of its row is what there is.
LEMMA RereadsRow ==
    ASSUME Typed, NEW w \in Worker, Rereads(w), task'[w].op \in RowOps
    PROVE  /\ task'[w].r = task[w].r /\ task[w].op \in RowOps
           /\ CurrentRow(task[w], request[task[w].r]) => CurrentRow(task'[w], request[task[w].r])
<1> DEFINE u == task[w]
           t == task'[w]
           q == request[u.r]
<1>1. CASE u.op = "complete" /\ t = Completing(u)
  <2>1. /\ t.op = "completing" /\ t.r = u.r /\ t.a = u.a /\ t.k = u.k
        /\ t.last <=> LastAhead(u)
    BY <1>1 DEF Completing
  <2> QED
    BY <1>1, <2>1 DEF CurrentRow, RowOps, LastAhead
<1>2. CASE u.op = "decide" /\ t = Deciding(u)
  <2>1. /\ t.op = "deciding" /\ t.r = u.r /\ t.a = u.a /\ t.k = u.k /\ t.decision = u.decision
        /\ t.closes <=> Closes(u)
    BY <1>2 DEF Deciding
  <2>2. q \in RequestRow
    <3>1. u.r \in DOMAIN request
      BY <1>2, TaskOf DEF Typed, RowOps
    <3> QED
      BY <3>1, RowsTyped DEF Typed
  <2>3. With(q, u).status = q.status /\ With(q, t) = With(q, u)
    BY <2>1, <2>2 DEF With, RequestRow
  <2>4. Closes(u) <=> AllDecided(With(q, u)) /\ q.status = "CLIENT_DECISION_PENDING"
    BY <2>3 DEF Closes
  <2> QED
    BY <1>2, <2>1, <2>3, <2>4 DEF CurrentRow, RowOps
<1>3. CASE t = Idle
  BY <1>3 DEF Idle, RowOps
<1> QED
  BY <1>1, <1>2, <1>3, RereadsAs

LEMMA RowsStayCurrent == ASSUME RowInv, [Next]_vars PROVE RowsCurrent'
<1>0. Typed /\ OneByOne /\ raced \subseteq raced'
  BY OneByOneStays DEF RowInv
<1>1. PICK T : task \in [Worker -> T]
  BY <1>0 DEF Typed, TasksOK
<1> DEFINE Kept(v) == task'[v].op \in RowOps /\ Row(task'[v].r) \notin raced'
                        => CurrentRow(task'[v], request'[task'[v].r])
<1>2. ASSUME NEW v \in Worker, UNCHANGED task[v] PROVE Kept(v)
  BY <1>0, <1>2, RowKept DEF RowInv, RowsCurrent
<1>3. ASSUME NEW w \in Worker, Begins(w) PROVE Kept(w)
  <2>1. PICK t : Begin(w, t) /\ Fresh(t)
    BY <1>0, <1>3, BeginsTask
  <2>2. task'[w] = t /\ UNCHANGED request
    BY <1>1, <1>3, <2>1, BeginsQuietly DEF Begin, dataVars, requestVars
  <2> QED
    BY <2>1, <2>2 DEF Fresh
<1>4. ASSUME NEW w \in Worker, Rereads(w) PROVE Kept(w)
  <2>1. UNCHANGED request
    BY <1>4, RereadsQuietly DEF dataVars, requestVars
  <2> QED
    BY <1>0, <1>4, <2>1, RereadsRow DEF RowInv, RowsCurrent
<1>5. ASSUME NEW w \in Worker, Writes(w) \/ Publishes(w) PROVE Kept(w)
  <2>1. Proceed(w, Idle)
    BY <1>5 DEF Writes, Move, Respond, Schedule, Cancel, Complete, AskAgain, Decide,
       Publishes, Submit, Answer, Invite, Close, Done
  <2> QED
    BY <1>1, <2>1 DEF Proceed, Idle, RowOps
<1>6. ASSUME NEW w \in Worker, Kept(w), NEW t, task' = [task EXCEPT ![w] = t] PROVE RowsCurrent'
  <2>1. \A v \in Worker : v # w => UNCHANGED task[v]
    BY <1>1, <1>6
  <2>2. \A v \in Worker : Kept(v)
    BY <1>2, <1>6, <2>1
  <2> QED
    BY <2>2 DEF RowsCurrent
<1>7. CASE UNCHANGED task
  BY <1>2, <1>7 DEF RowsCurrent
<1>8. ASSUME NEW w \in Worker, Begins(w) \/ Rereads(w) \/ Writes(w) \/ Publishes(w) PROVE RowsCurrent'
  <2>1. Kept(w)
    BY <1>3, <1>4, <1>5, <1>8
  <2>2. \E t : task' = [task EXCEPT ![w] = t]
    <3>1. CASE Begins(w)
      BY <1>0, <3>1, BeginsTask DEF Begin
    <3>2. CASE Rereads(w)
      BY <1>0, <3>2, RereadsTask DEF Proceed
    <3>3. CASE Writes(w) \/ Publishes(w)
      BY <3>3 DEF Writes, Move, Respond, Schedule, Cancel, Complete, AskAgain, Decide,
         Publishes, Submit, Answer, Invite, Close, Done, Proceed
    <3> QED
      BY <1>8, <3>1, <3>2, <3>3
  <2> QED
    BY <1>6, <2>1, <2>2
<1>9. CASE Alone
  BY <1>7, <1>9 DEF Alone, RequestInterviews, HoldEnds, Leave, WithdrawOnExit
<1> QED
  BY <1>7, <1>8, <1>9, StepCases DEF vars

LEMMA InitRowInv == ASSUME Init PROVE RowInv
<1>1. request = <<>> /\ submission = <<>> /\ DOMAIN request = {} /\ DOMAIN submission = {}
  BY DEF Init
<1>2. TypeOK
  <2>1. NoHold \in [client: Client \cup {NoClient}, before: Availability]
    BY InterviewsAssumption DEF NoHold, Availability
  <2>2. Free \subseteq Availability
    BY DEF Availability
  <2> HIDE DEF NoHold
  <2> QED
    BY <2>1, <2>2 DEF Init, TypeOK
<1>3. task \in [Worker -> {Idle}]
  BY DEF Init, Idle
<1>4. \A w \in Worker : task[w] = Idle
  BY <1>3
<1>5. TasksOK
  BY <1>3, <1>4, IdleTask DEF TasksOK
<1>6. OneByOne /\ RowsCurrent
  BY <1>4 DEF OneByOne, RowsCurrent, Idle, RowOps
<1>7. Interviewed /\ RowsOK
  BY <1>1 DEF Interviewed, RowsOK
<1> QED
  BY <1>2, <1>5, <1>6, <1>7 DEF RowInv, Typed

LEMMA StepRowInv == ASSUME RowInv, [Next]_vars PROVE RowInv'
<1>1. Typed /\ OneByOne
  BY DEF RowInv
<1>2. TypeOK' /\ Interviewed' /\ TasksOK' /\ OneByOne'
  BY <1>1, TypeStays, TasksStay, OneByOneStays
<1>3. RowsOK' /\ RowsCurrent'
  BY RowsStayOK, RowsStayCurrent
<1> QED
  BY <1>2, <1>3 DEF RowInv, Typed

\* The requests agree with their interviews, and what a request of the program has read of
\* a row is what there is when it writes: every handler of interview.service.ts is a reader
\* first and a writer later.
THEOREM RowInvariant == Spec => []RowInv
<1>1. Init => RowInv
  BY InitRowInv
<1>2. RowInv /\ [Next]_vars => RowInv'
  BY StepRowInv
<1> QED
  BY <1>1, <1>2, PTL DEF Spec

\* Every row stays in its table's domain, and what a request in flight names exists.
THEOREM TypeCorrect == Spec => []TypeOK
<1>1. RowInv => TypeOK
  BY DEF RowInv, Typed
<1> QED
  BY <1>1, RowInvariant, PTL

\* The status of a request follows its interviews in completeInterview, cancelRequest and
\* recordClientDecision, however many requests and candidates there are.
THEOREM StatusFollows == Spec => []StatusFollowsInterviews
<1>1. ASSUME RowInv PROVE StatusFollowsInterviews
  <2>1. ASSUME NEW r \in DOMAIN request, Row(r) \notin raced PROVE Consistent(request[r])
    BY <1>1, <2>1 DEF RowInv, RowsOK
  <2>2. "CLIENT_DECISION_PENDING" \in OpenRequestStatus
    BY DEF OpenRequestStatus, RequestStatus
  <2> QED
    BY <2>1, <2>2 DEF Consistent, StatusFollowsInterviews
<1> QED
  BY <1>1, RowInvariant, PTL

-------------------------------------------------------------------------------
(***************************************************************************)
(* The submissions                                                         *)
(***************************************************************************)
StatusOf(s, status) == submission'[s].status = status /\ submission'[s].request = submission[s].request

\* Who changes a submission, and how.
EntrySteps(s) ==
    \/ submission'[s] = submission[s]
    \/ \E w \in Worker : Answer(w) /\ s = task[w].s /\ StatusOf(s, task[w].to)
    \/ \E w \in Worker : Invite(w) /\ s \in task[w].S
                         /\ submission'[s].status = "INTERVIEWING" /\ submission'[s].request = Len(request) + 1
    \/ \E w \in Worker : Decide(w) /\ s \in task[w].synced /\ task[w].decision \in Final
                         /\ StatusOf(s, task[w].decision)
    \/ \E w \in Worker : Close(w) /\ s \in task[w].S /\ StatusOf(s, "WITHDRAWN")
    \/ \E a \in Agent : WithdrawOnExit(a) /\ s \in OfAgency \cap OpenFor(a) /\ StatusOf(s, "WITHDRAWN")

LEMMA EntryStep ==
    ASSUME Typed, [Next]_vars, NEW s \in DOMAIN submission PROVE EntrySteps(s)
<1>1. CASE UNCHANGED submission
  BY <1>1 DEF EntrySteps
<1>2. CASE Alone
  <2>1. ASSUME NEW a \in Agent, WithdrawOnExit(a) PROVE EntrySteps(s)
    <3>1. submission' = Withdrawn(OfAgency \cap OpenFor(a))
      BY <2>1 DEF WithdrawOnExit
    <3> QED
      BY <2>1, <3>1, WithdrawnEffect DEF Changed, Typed, StatusOf, EntrySteps
  <2> QED
    BY <1>1, <1>2, <2>1 DEF Alone, RequestInterviews, HoldEnds, Leave, submissionVars
<1>3. ASSUME NEW w \in Worker, Begins(w) \/ Rereads(w) PROVE EntrySteps(s)
  BY <1>1, <1>3, BeginsQuietly, RereadsQuietly DEF dataVars, submissionVars
<1>4. ASSUME NEW w \in Worker, Writes(w) PROVE EntrySteps(s)
  <2>1. CASE Decide(w)
    BY <2>1, DecideSubmissions DEF Changed, StatusOf, EntrySteps
  <2> QED
    BY <1>1, <1>4, <2>1 DEF Writes, Move, Respond, Schedule, Cancel, Complete, AskAgain, submissionVars
<1>5. ASSUME NEW w \in Worker, Publishes(w) PROVE EntrySteps(s)
  <2>1. CASE Close(w)
    <3>1. submission' = Withdrawn(task[w].S)
      BY <2>1 DEF Close
    <3> QED
      BY <2>1, <3>1, WithdrawnEffect DEF Changed, Typed, StatusOf, EntrySteps
  <2>2. CASE Submit(w)
    BY <2>2, SubmitEffect DEF EntrySteps
  <2>3. CASE Answer(w)
    BY <2>3, AnswerEffect DEF Changed, StatusOf, EntrySteps
  <2>4. CASE Invite(w)
    BY <2>4, InviteEffect DEF EntrySteps
  <2> QED
    BY <1>5, <2>1, <2>2, <2>3, <2>4 DEF Publishes
<1> QED
  BY <1>1, <1>2, <1>3, <1>4, <1>5, StepCases DEF vars, submissionVars

\* Only a submission adds a row.
LEMMA EntryNew ==
    ASSUME Typed, [Next]_vars, NEW s \in DOMAIN submission' \ DOMAIN submission
    PROVE  \E w \in Worker :
              /\ Submit(w)
              /\ submission'[s] = [agent |-> task[w].a, agency |-> task[w].agency,
                                   status |-> "PENDING_REVIEW", request |-> NoRequest]
<1>1. submission' # submission /\ DOMAIN submission' # DOMAIN submission
  OBVIOUS
<1>2. CASE Alone
  <2>1. ASSUME NEW a \in Agent, WithdrawOnExit(a) PROVE FALSE
    <3>1. submission' = Withdrawn(OfAgency \cap OpenFor(a))
      BY <2>1 DEF WithdrawOnExit
    <3> QED
      BY <1>1, <3>1, WithdrawnEffect DEF Changed, Typed
  <2> QED
    BY <1>1, <1>2, <2>1 DEF Alone, RequestInterviews, HoldEnds, Leave, submissionVars
<1>3. ASSUME NEW w \in Worker, Begins(w) \/ Rereads(w) PROVE FALSE
  BY <1>1, <1>3, BeginsQuietly, RereadsQuietly DEF dataVars, submissionVars
<1>4. ASSUME NEW w \in Worker, Writes(w) PROVE FALSE
  <2>1. CASE Decide(w)
    BY <1>1, <2>1, DecideSubmissions DEF Changed
  <2> QED
    BY <1>1, <1>4, <2>1 DEF Writes, Move, Respond, Schedule, Cancel, Complete, AskAgain, submissionVars
<1>5. ASSUME NEW w \in Worker, Answer(w) \/ Invite(w) \/ Close(w) PROVE FALSE
  <2>1. CASE Close(w)
    <3>1. submission' = Withdrawn(task[w].S)
      BY <2>1 DEF Close
    <3> QED
      BY <1>1, <3>1, WithdrawnEffect DEF Changed, Typed
  <2> QED
    BY <1>1, <1>5, <2>1, AnswerEffect, InviteEffect DEF Changed
<1>6. ASSUME NEW w \in Worker, Submit(w)
      PROVE  submission'[s] = [agent |-> task[w].a, agency |-> task[w].agency,
                               status |-> "PENDING_REVIEW", request |-> NoRequest]
  <2>1. s = Len(submission) + 1
    BY <1>6, SubmitEffect
  <2> QED
    BY <1>6, <2>1, SubmitEffect
<1> QED
  BY <1>1, <1>2, <1>3, <1>4, <1>5, <1>6, StepCases DEF vars, submissionVars, Publishes

EntriesCurrent ==
    \A v \in Worker : \A s \in DOMAIN submission : Entry(s) \notin raced => CurrentEntry(task[v], s)
AllSynced == \A v \in Worker : SyncsAll(task[v])

EntryInv ==
    /\ RowInv /\ EntriesOK /\ InvitedOK /\ EntriesCurrent /\ AllSynced
    /\ SubmissionsFollowDecisions

\* The same of a submission that requests follow one another about.
CleanSteps(s) ==
    \/ submission'[s] = submission[s]
    \/ \E w \in Worker : /\ Answer(w) /\ s = task[w].s /\ submission[s].status \in WaitingStatus
                         /\ submission[s].request = NoRequest
                         /\ StatusOf(s, task[w].to)
    \/ \E w \in Worker : /\ Invite(w) /\ s \in task[w].S /\ submission[s].status = "APPROVED_FOR_CLIENT"
                         /\ submission'[s].status = "INTERVIEWING" /\ submission'[s].request = Len(request) + 1
    \/ \E w \in Worker : /\ Decide(w) /\ s \in task[w].synced /\ task[w].decision \in Final
                         /\ submission[s].request = task[w].r /\ submission[s].agent = task[w].a
                         /\ StatusOf(s, task[w].decision)
    \/ StatusOf(s, "WITHDRAWN")

LEMMA CleanStep ==
    ASSUME EntryInv, [Next]_vars, NEW s \in DOMAIN submission, Entry(s) \notin raced'
    PROVE  CleanSteps(s)
<1>1. EntrySteps(s)
  BY EntryStep DEF EntryInv, RowInv
<1>2. Entry(s) \notin raced
  BY OneByOneStays DEF EntryInv, RowInv
<1>3. \A v \in Worker : CurrentEntry(task[v], s)
  BY <1>2 DEF EntryInv, EntriesCurrent
<1>4. submission[s].status \in WaitingStatus => submission[s].request = NoRequest
  BY <1>2 DEF EntryInv, InvitedOK
<1>5. ASSUME NEW w \in Worker, Answer(w), s = task[w].s PROVE submission[s].status \in WaitingStatus
  BY <1>3, <1>5 DEF Answer, Doing, CurrentEntry
<1>6. ASSUME NEW w \in Worker, Invite(w), s \in task[w].S PROVE submission[s].status = "APPROVED_FOR_CLIENT"
  BY <1>3, <1>6 DEF Invite, Doing, CurrentEntry
<1>7. ASSUME NEW w \in Worker, Decide(w), s \in task[w].synced
      PROVE  submission[s].request = task[w].r /\ submission[s].agent = task[w].a
  BY <1>3, <1>7 DEF Decide, Doing, CurrentEntry
<1> QED
  BY <1>1, <1>4, <1>5, <1>6, <1>7 DEF EntrySteps, CleanSteps

\* A submission that another request is about is left alone, or they race.
LEMMA EntryKept ==
    ASSUME EntryInv, [Next]_vars, NEW s \in DOMAIN submission, NEW v \in Worker, UNCHANGED task[v],
           Entry(s) \in task[v].about, Entry(s) \notin raced'
    PROVE  submission'[s] = submission[s]
<1>0. Typed /\ OneByOne /\ raced \subseteq raced'
  BY OneByOneStays DEF EntryInv, RowInv
<1>1. EntrySteps(s)
  BY <1>0, EntryStep
<1>2. ASSUME NEW w \in Worker, Entry(s) \in task[w].about, Done(w) PROVE FALSE
  <2>1. w = v
    BY <1>0, <1>2 DEF OneByOne
  <2>2. task'[w] = Idle
    BY <1>0, <1>2 DEF Done, Proceed, Typed, TasksOK
  <2> QED
    BY <2>1, <2>2 DEF Idle
<1>3. ASSUME NEW w \in Worker, Answer(w), s = task[w].s PROVE FALSE
  BY <1>0, <1>2, <1>3, AnswerEffect DEF Answer
<1>4. ASSUME NEW w \in Worker, Invite(w) \/ Close(w), s \in task[w].S PROVE FALSE
  <2>1. Refers(task[w]) /\ task[w].op \in {"invite", "close"} /\ Done(w)
    BY <1>0, <1>4 DEF Typed, TasksOK, Invite, Close, Doing
  <2>2. Entry(s) \in task[w].about
    BY <1>4, <2>1 DEF Refers
  <2> QED
    BY <1>2, <2>1, <2>2
<1>5. ASSUME NEW w \in Worker, Decide(w), s \in task[w].synced PROVE FALSE
  <2>1. CurrentEntry(task[w], s)
    BY <1>0 DEF EntryInv, EntriesCurrent
  <2>2. Entry(s) \in task[w].about /\ Done(w)
    BY <1>5, <2>1 DEF CurrentEntry, Decide, Doing
  <2> QED
    BY <1>2, <2>2
<1>6. ASSUME NEW a \in Agent, WithdrawOnExit(a), s \in OfAgency \cap OpenFor(a) PROVE FALSE
  <2>1. Entry(s) \in InFlight
    BY DEF InFlight
  <2> HIDE DEF InFlight
  <2> QED
    BY <1>6, <2>1 DEF WithdrawOnExit
<1> QED
  BY <1>1, <1>3, <1>4, <1>5, <1>6 DEF EntrySteps

\* What becomes of a request in flight.
LEMMA TaskCases ==
    ASSUME Typed, [Next]_vars, NEW v \in Worker
    PROVE  \/ UNCHANGED task[v]
           \/ UNCHANGED dataVars /\ Fresh(task'[v])
           \/ UNCHANGED dataVars /\ Rereads(v)
           \/ task'[v] = Idle
<1>1. PICK T : task \in [Worker -> T]
  BY DEF Typed, TasksOK
<1>2. ASSUME NEW w \in Worker, Begins(w) PROVE UNCHANGED task[v] \/ (UNCHANGED dataVars /\ Fresh(task'[v]))
  <2>1. PICK t : Begin(w, t) /\ Fresh(t)
    BY <1>2, BeginsTask
  <2>2. task'[v] = IF v = w THEN t ELSE task[v]
    BY <1>1, <2>1 DEF Begin
  <2> QED
    BY <1>2, <2>1, <2>2, BeginsQuietly
<1>3. ASSUME NEW w \in Worker, Rereads(w) PROVE UNCHANGED task[v] \/ (UNCHANGED dataVars /\ Rereads(v))
  <2>1. PICK t : Proceed(w, t)
    BY <1>3, RereadsTask
  <2>2. task'[v] = IF v = w THEN t ELSE task[v]
    BY <1>1, <2>1 DEF Proceed
  <2> QED
    BY <1>3, <2>2, RereadsQuietly
<1>4. ASSUME NEW w \in Worker, Writes(w) \/ Publishes(w) PROVE UNCHANGED task[v] \/ task'[v] = Idle
  <2>1. Proceed(w, Idle)
    BY <1>4 DEF Writes, Move, Respond, Schedule, Cancel, Complete, AskAgain, Decide,
       Publishes, Submit, Answer, Invite, Close, Done
  <2> QED
    BY <1>1, <2>1 DEF Proceed
<1>5. CASE Alone
  BY <1>5 DEF Alone, RequestInterviews, HoldEnds, Leave, WithdrawOnExit
<1> QED
  BY <1>2, <1>3, <1>4, <1>5, StepCases DEF vars

LEMMA EntriesStayOK == ASSUME EntryInv, [Next]_vars PROVE EntriesOK'
<1>0. Typed
  BY DEF EntryInv, RowInv
<1>1. Len(request) \in Nat /\ Len(request') \in Nat /\ Len(request) <= Len(request')
  BY <1>0, RequestSide, RowsTyped DEF RequestsGrow, Typed
<1>2. ASSUME NEW s \in DOMAIN submission PROVE submission'[s].request \in 0..Len(request')
  <2>1. submission[s].request \in 0..Len(request)
    BY DEF EntryInv, EntriesOK
  <2>2. EntrySteps(s)
    BY <1>0, EntryStep
  <2>3. ASSUME NEW w \in Worker, Invite(w) PROVE Len(request') = Len(request) + 1
    BY <1>0, <2>3, InviteAdds, RequestAdded, InterviewsAssumption
  <2> QED
    BY <1>1, <2>1, <2>2, <2>3 DEF EntrySteps, StatusOf
<1>3. ASSUME NEW s \in DOMAIN submission' \ DOMAIN submission PROVE submission'[s].request \in 0..Len(request')
  BY <1>0, <1>1, EntryNew DEF NoRequest
<1> QED
  BY <1>2, <1>3 DEF EntriesOK

LEMMA InvitedStays == ASSUME EntryInv, [Next]_vars PROVE InvitedOK'
<1>0. Typed /\ raced \subseteq raced'
  BY OneByOneStays DEF EntryInv, RowInv
<1>1. ASSUME NEW s \in DOMAIN submission, Entry(s) \notin raced', submission'[s].request # NoRequest
      PROVE  submission'[s].status \notin WaitingStatus
  <2>1. CleanSteps(s)
    BY <1>1, CleanStep
  <2>2. submission[s].request # NoRequest => submission[s].status \notin WaitingStatus
    BY <1>0, <1>1 DEF EntryInv, InvitedOK
  <2> QED
    BY <1>1, <2>1, <2>2 DEF CleanSteps, StatusOf, WaitingStatus, Final
<1>2. ASSUME NEW s \in DOMAIN submission' \ DOMAIN submission PROVE submission'[s].request = NoRequest
  BY <1>0, EntryNew
<1> QED
  BY <1>1, <1>2 DEF InvitedOK

LEMMA SyncsStay == ASSUME EntryInv, [Next]_vars PROVE AllSynced'
<1>0. Typed
  BY DEF EntryInv, RowInv
<1> SUFFICES ASSUME NEW v \in Worker PROVE SyncsAll(task[v])'
  BY DEF AllSynced
<1>1. CASE UNCHANGED task[v]
  <2> DEFINE t == task[v]
  <2> SUFFICES ASSUME t.op = "deciding", t.decision \in Final, NEW s \in DOMAIN submission',
                      submission'[s].request = t.r, submission'[s].agent = t.a,
                      submission'[s].status = "INTERVIEWING"
               PROVE  s \in t.synced
    BY <1>1 DEF SyncsAll
  <2>1. t.r \in DOMAIN request
    BY <1>0, TaskOf DEF RowOps, Typed
  <2>2. Len(request) + 1 \notin DOMAIN request
    BY <1>0, RowsTyped DEF Typed
  <2>3. s \in DOMAIN submission
    BY <1>0, EntryNew
  <2>4. EntrySteps(s) /\ submission'[s].agent = submission[s].agent
    BY <1>0, <2>3, EntryStep, SubmissionSide DEF SubmissionsGrow
  <2>5. submission'[s] = submission[s]
    <3>1. ASSUME NEW w \in Worker, Answer(w) PROVE task[w].to # "INTERVIEWING"
      BY <1>0, <3>1, AnswerEffect
    <3> QED
      BY <2>1, <2>2, <2>4, <3>1 DEF EntrySteps, StatusOf, Final
  <2> QED
    BY <2>3, <2>5 DEF EntryInv, AllSynced, SyncsAll
<1>2. CASE UNCHANGED dataVars /\ Fresh(task'[v])
  BY <1>2 DEF Fresh, SyncsAll, dataVars, submissionVars
<1>3. CASE UNCHANGED dataVars /\ Rereads(v)
  <2>1. CASE task'[v] = Deciding(task[v])
    BY <1>3, <2>1 DEF Deciding, Synced, SyncsAll, dataVars, submissionVars
  <2>2. CASE task'[v] = Completing(task[v])
    BY <2>2 DEF Completing, SyncsAll
  <2>3. CASE task'[v] = Idle
    BY <2>3 DEF Idle, SyncsAll
  <2> QED
    BY <1>0, <1>3, <2>1, <2>2, <2>3, RereadsAs
<1>4. CASE task'[v] = Idle
  BY <1>4 DEF Idle, SyncsAll
<1> QED
  BY <1>0, <1>1, <1>2, <1>3, <1>4, TaskCases

LEMMA EntriesStayCurrent == ASSUME EntryInv, [Next]_vars PROVE EntriesCurrent'
<1>0. Typed /\ raced \subseteq raced'
  BY OneByOneStays DEF EntryInv, RowInv
<1> SUFFICES ASSUME NEW v \in Worker, NEW s \in DOMAIN submission', Entry(s) \notin raced'
             PROVE  CurrentEntry(task[v], s)'
  BY DEF EntriesCurrent
<1>a. s \in DOMAIN submission => CurrentEntry(task[v], s)
  BY <1>0 DEF EntryInv, EntriesCurrent
<1>1. CASE UNCHANGED task[v]
  <2> DEFINE t == task[v]
  <2>0. Refers(t)
    BY <1>0 DEF Typed, TasksOK
  <2>1. ASSUME s \notin DOMAIN submission PROVE CurrentEntry(t, s)'
    <3>1. submission'[s].request = NoRequest
      BY <1>0, <2>1, EntryNew
    <3>2. t.op = "decide" => t.r # NoRequest
      BY <1>0, TaskOf, RowsTyped DEF Typed, RowOps, NoRequest
    <3> QED
      BY <1>1, <2>0, <2>1, <3>1, <3>2 DEF CurrentEntry, Synced, Refers
  <2>2. ASSUME s \in DOMAIN submission, t.op = "decide", s \in Synced(t.r, t.a)' PROVE Entry(s) \in t.about
    <3>1. t.r \in DOMAIN request /\ t.r # NoRequest
      BY <1>0, <2>2, TaskOf, RowsTyped DEF Typed, RowOps, NoRequest
    <3>2. Len(request) + 1 \notin DOMAIN request
      BY <1>0, RowsTyped DEF Typed
    <3>3. /\ submission'[s].request = t.r /\ submission'[s].agent = t.a
          /\ submission'[s].status \in {"INTERVIEWING", "APPROVED_FOR_CLIENT"}
      BY <1>1, <2>2 DEF Synced
    <3>4. CleanSteps(s)
      BY <2>2, CleanStep
    <3>5. submission'[s] = submission[s]
      BY <3>1, <3>2, <3>3, <3>4 DEF CleanSteps, StatusOf, Final
    <3> QED
      BY <1>a, <2>2, <3>3, <3>5 DEF CurrentEntry, Synced
  <2>3. ASSUME s \in DOMAIN submission, Entry(s) \in t.about PROVE submission'[s] = submission[s]
    BY <1>1, <2>3, EntryKept
  <2>4. ASSUME s \in DOMAIN submission PROVE CurrentEntry(t, s)'
    <3>1. t.op = "deciding" /\ s \in t.synced => Entry(s) \in t.about
      BY <1>a, <2>4 DEF CurrentEntry
    <3>2. t.op = "answer" /\ s = t.s => Entry(s) \in t.about
      BY <2>0 DEF Refers
    <3>3. t.op = "invite" /\ s \in t.S => Entry(s) \in t.about
      BY <2>0 DEF Refers
    <3> QED
      BY <1>1, <1>a, <2>2, <2>3, <2>4, <3>1, <3>2, <3>3 DEF CurrentEntry
  <2> QED
    BY <2>1, <2>4
<1>2. CASE UNCHANGED dataVars /\ Fresh(task'[v])
  BY <1>2 DEF Fresh, CurrentEntry, Synced, dataVars, submissionVars
<1>3. CASE UNCHANGED dataVars /\ Rereads(v)
  <2>0. UNCHANGED submission
    BY <1>3 DEF dataVars, submissionVars
  <2>1. CASE task[v].op = "decide" /\ task'[v] = Deciding(task[v])
    BY <1>a, <2>0, <2>1 DEF Deciding, Synced, CurrentEntry
  <2>2. CASE task'[v] = Completing(task[v])
    BY <2>2 DEF Completing, CurrentEntry
  <2>3. CASE task'[v] = Idle
    BY <2>3 DEF Idle, CurrentEntry
  <2> QED
    BY <1>0, <1>3, <2>1, <2>2, <2>3, RereadsAs
<1>4. CASE task'[v] = Idle
  BY <1>4 DEF Idle, CurrentEntry
<1> QED
  BY <1>0, <1>1, <1>2, <1>3, <1>4, TaskCases

\* The decisions of a request, when one of its writers commits.
LEMMA DecisionsKept ==
    ASSUME Typed, NEW w \in Worker, Writes(w), ~Decide(w), CurrentRow(task[w], request[task[w].r])
    PROVE  \A a, d : d \in Final => (Decided(request'[task[w].r], a, d) <=> Decided(request[task[w].r], a, d))
<1> DEFINE t == task[w]
           q == request[t.r]
           p == request'[t.r]
<1>0. q \in RequestRow
  BY WriterRows, RowsTyped DEF Typed, Wrote
<1>1. ASSUME SameBut(q, p, {}) PROVE \A a, d : Decided(p, a, d) <=> Decided(q, a, d)
  BY <1>1 DEF SameBut, Decided
<1>2. CASE Move(w) \/ Respond(w)
  BY <1>1, <1>2, MoveEffect, RespondEffect
<1>3. CASE Schedule(w)
  <2> DEFINE A == t.A
  <2>1. p = WithInterviews(q, A) /\ A # {} /\ A \subseteq Agent /\ \A a \in A : Len(q.rounds[a]) < MaxRounds
    BY <1>3, ScheduleEffect
  <2> HIDE DEF q, p, A
  <2>2. \A a, d : d # "NONE" => (Decided(p, a, d) <=> Decided(q, a, d))
    BY <1>0, <2>1, ScheduledIsConsistent
  <2> QED
    BY <2>2 DEF Final, p, q
<1>4. CASE Cancel(w)
  <2>1. p = WithoutInterviews(q)
    BY <1>4, CancelEffect
  <2> HIDE DEF q, p
  <2>2. \A a, d : Decided(p, a, d) <=> Decided(q, a, d)
    BY <1>0, <2>1, CancelledIsConsistent
  <2> QED
    BY <2>2 DEF p, q
<1>5. CASE Complete(w)
  <2>1. SameBut(q, p, {<<t.a, t.k>>}) /\ The(p, <<t.a, t.k>>).decision = The(q, <<t.a, t.k>>).decision
    BY <1>5, CompleteEffect
  <2> QED
    BY <2>1 DEF SameBut, Decided
<1>6. CASE AskAgain(w)
  <2>1. /\ SameBut(q, p, {<<t.a, t.k>>}) /\ The(p, <<t.a, t.k>>).decision = "SECOND_INTERVIEW"
    BY <1>6, AskAgainEffect
  <2>2. The(q, <<t.a, t.k>>).decision \notin Final
    BY <1>6 DEF AskAgain, Doing, CurrentRow, The
  <2> QED
    BY <2>1, <2>2 DEF SameBut, Decided, Final
<1> QED
  BY <1>2, <1>3, <1>4, <1>5, <1>6, <1>1 DEF Writes

LEMMA DecisionMade ==
    ASSUME Typed, NEW w \in Worker, Decide(w), CurrentRow(task[w], request[task[w].r])
    PROVE  \A a, d : d \in Final =>
               (Decided(request'[task[w].r], a, d)
                  <=> Decided(request[task[w].r], a, d) \/ (a = task[w].a /\ d = task[w].decision))
<1> DEFINE t == task[w]
           q == request[t.r]
           p == request'[t.r]
           i == <<t.a, t.k>>
<1>1. i \in InterviewsOf(q) /\ SameBut(q, p, {i}) /\ The(p, i).decision = t.decision
  BY DecideEffect
<1>2. The(q, i).decision \notin Final
  BY DEF Decide, Doing, CurrentRow, The
<1>3. i[1] = t.a
  OBVIOUS
<1> HIDE DEF q, p, i
<1>4. InterviewsOf(p) = InterviewsOf(q) /\ \A j \in InterviewsOf(q) : j # i => The(p, j) = The(q, j)
  BY <1>1 DEF SameBut
<1>5. \A a, d : d \in Final => (Decided(p, a, d) <=> Decided(q, a, d) \/ (a = t.a /\ d = t.decision))
  BY <1>1, <1>2, <1>3, <1>4 DEF Decided
<1> QED
  BY <1>5 DEF p, q

LEMMA SubmissionsStillFollow == ASSUME EntryInv, [Next]_vars PROVE SubmissionsFollowDecisions'
<1>0. Typed /\ OneByOne /\ raced \subseteq raced' /\ RowInv
  BY OneByOneStays DEF EntryInv, RowInv
<1>b. Len(request) \in Nat /\ DOMAIN request = 1..Len(request)
  BY <1>0, RowsTyped DEF Typed
<1> DEFINE Follows(e, q, P) ==
               /\ e.status = "INTERVIEWING" => \A d \in Final : ~Decided(q, e.agent, d)
               /\ e.status \in Final => Decided(q, e.agent, e.status)
               /\ e.status = "SELECTED" => <<q.client, e.agent>> \in P
<1> SUFFICES ASSUME NEW s \in DOMAIN submission', Entry(s) \notin raced',
                    submission'[s].request # NoRequest, Row(submission'[s].request) \notin raced'
             PROVE  Follows(submission'[s], request'[submission'[s].request], placed')
  BY DEF SubmissionsFollowDecisions
<1>1. s \in DOMAIN submission
  BY <1>0, EntryNew
<1>2. submission'[s].agent = submission[s].agent /\ CleanSteps(s)
  BY <1>0, <1>1, SubmissionSide, CleanStep DEF SubmissionsGrow
<1>3. placed \subseteq placed'
  <2>1. ASSUME NEW w \in Worker, Begins(w) \/ Rereads(w) PROVE placed \subseteq placed'
    BY <2>1, BeginsQuietly, RereadsQuietly DEF dataVars, requestVars
  <2>2. ASSUME NEW w \in Worker, Writes(w) \/ Publishes(w) PROVE placed \subseteq placed'
    BY <2>2 DEF Writes, Move, Respond, Schedule, Cancel, Complete, AskAgain, Decide,
       Publishes, Submit, Answer, Invite, Close, requestVars
  <2>3. CASE Alone
    BY <2>3 DEF Alone, RequestInterviews, HoldEnds, Leave, WithdrawOnExit, requestVars
  <2> QED
    BY <2>1, <2>2, <2>3, StepCases DEF vars, requestVars
<1>4. CASE submission'[s] = submission[s]
  <2> DEFINE r == submission[s].request
             e == submission[s]
  <2>1. r \in DOMAIN request /\ Follows(e, request[r], placed) /\ Row(r) \notin raced
    BY <1>0, <1>1, <1>4, <1>b DEF EntryInv, EntriesOK, SubmissionsFollowDecisions, NoRequest
  <2>2. ASSUME request'[r] = request[r] PROVE Follows(e, request'[r], placed')
    BY <1>3, <2>1, <2>2
  <2>3. ASSUME NEW w \in Worker, Writes(w), task[w].r = r PROVE Follows(e, request'[r], placed')
    <3>1. CurrentRow(task[w], request[r]) /\ request'[r].client = request[r].client
      BY <1>0, <2>1, <2>3, WriterRows DEF RowInv, RowsCurrent, RowGrows
    <3>2. CASE ~Decide(w)
      <4>1. \A a, d : d \in Final => (Decided(request'[r], a, d) <=> Decided(request[r], a, d))
        BY <1>0, <2>3, <3>1, <3>2, DecisionsKept
      <4> QED
        BY <1>3, <2>1, <3>1, <4>1
    <3>3. CASE Decide(w)
      <4> DEFINE t == task[w]
      <4>1. \A a, d : d \in Final => (Decided(request'[r], a, d)
                         <=> Decided(request[r], a, d) \/ (a = t.a /\ d = t.decision))
        BY <1>0, <2>3, <3>1, <3>3, DecisionMade
      <4>2. e.status = "INTERVIEWING" /\ t.decision \in Final => e.agent # t.a
        <5> SUFFICES ASSUME e.status = "INTERVIEWING", t.decision \in Final, e.agent = t.a PROVE FALSE
          OBVIOUS
        <5>1. s \in t.synced
          BY <1>1, <2>3, <3>3 DEF EntryInv, AllSynced, SyncsAll, Decide, Doing
        <5>2. submission'[s].status = t.decision
          BY <1>0, <1>1, <3>3, <5>1, DecideSubmissions DEF Changed
        <5> QED
          BY <1>4, <5>2 DEF Final
      <4> QED
        BY <1>3, <2>1, <3>1, <4>1, <4>2
    <3> QED
      BY <3>2, <3>3
  <2>4. request'[r] = request[r] \/ \E w \in Worker : Writes(w) /\ task[w].r = r
    <3>1. ASSUME NEW c \in Client, NEW A \in SUBSET Agent, request' = Append(request, NewRequest(c, A))
          PROVE  request'[r] = request[r]
      BY <1>0, <2>1, <3>1, RequestAdded
    <3>2. ASSUME NEW w \in Worker, Writes(w), task[w].r # r PROVE request'[r] = request[r]
      BY <1>0, <2>1, <3>2, WriterRows DEF Wrote
    <3>3. CASE Next
      BY <1>0, <3>1, <3>2, <3>3, RequestCases
    <3> QED
      BY <3>3 DEF vars, requestVars
  <2> QED
    BY <1>4, <2>2, <2>3, <2>4
<1>5. ASSUME NEW w \in Worker, Invite(w), submission'[s].status = "INTERVIEWING",
             submission'[s].request = Len(request) + 1
      PROVE  Follows(submission'[s], request'[submission'[s].request], placed')
  <2>1. \E A \in SUBSET Agent : request' = Append(request, NewRequest(Owner, A))
    BY <1>0, <1>5, InviteAdds
  <2>2. InterviewsOf(request'[Len(request) + 1]) = {}
    BY <1>0, <2>1, RequestAdded, NewIsConsistent, InterviewsAssumption
  <2> QED
    BY <1>5, <2>2 DEF Decided, Final
<1>6. ASSUME NEW w \in Worker, Decide(w), s \in task[w].synced, task[w].decision \in Final,
             submission[s].request = task[w].r, submission[s].agent = task[w].a, StatusOf(s, task[w].decision)
      PROVE  Follows(submission'[s], request'[submission'[s].request], placed')
  <2> DEFINE t == task[w]
             r == t.r
  <2>1. submission'[s].request = r /\ submission'[s].status = t.decision /\ submission'[s].agent = t.a
    BY <1>2, <1>6 DEF StatusOf
  <2>2. Writes(w) /\ Row(r) \notin raced
    BY <1>0, <1>6, <2>1 DEF Writes
  <2>3. CurrentRow(t, request[r]) /\ request'[r].client = request[r].client
    BY <1>0, <2>2, WriterRows DEF RowInv, RowsCurrent, RowGrows
  <2>4. Decided(request'[r], t.a, t.decision)
    BY <1>0, <1>6, <2>3, DecisionMade
  <2>5. t.decision = "SELECTED" => <<request[r].client, t.a>> \in placed'
    BY <1>6 DEF Decide
  <2> QED
    BY <1>6, <2>1, <2>3, <2>4, <2>5 DEF Final
<1>7. ASSUME StatusOf(s, "WITHDRAWN")
      PROVE  Follows(submission'[s], request'[submission'[s].request], placed')
  BY <1>7 DEF StatusOf, Final
<1>8. ASSUME submission[s].request = NoRequest, NEW x, StatusOf(s, x) PROVE FALSE
  BY <1>8 DEF StatusOf
<1> HIDE DEF Follows
<1> QED
  BY <1>2, <1>4, <1>5, <1>6, <1>7, <1>8 DEF CleanSteps

LEMMA InitEntryInv == ASSUME Init PROVE EntryInv
<1>1. RowInv
  BY InitRowInv
<1>2. DOMAIN submission = {}
  BY DEF Init
<1>3. \A w \in Worker : task[w].op # "deciding"
  BY DEF Init
<1> QED
  BY <1>1, <1>2, <1>3 DEF EntryInv, EntriesOK, InvitedOK, EntriesCurrent, AllSynced, SyncsAll, SubmissionsFollowDecisions

LEMMA StepEntryInv == ASSUME EntryInv, [Next]_vars PROVE EntryInv'
<1>1. RowInv'
  BY StepRowInv DEF EntryInv
<1> QED
  BY <1>1, EntriesStayOK, InvitedStays, SyncsStay, EntriesStayCurrent, SubmissionsStillFollow DEF EntryInv

\* A submission that waits is in no request, and a decision in flight has found every
\* submission it is about (syncSubmissionOutcomeTx).
THEOREM EntryInvariant == Spec => []EntryInv
<1>1. Init => EntryInv
  BY InitEntryInv
<1>2. EntryInv /\ [Next]_vars => EntryInv'
  BY StepEntryInv
<1> QED
  BY <1>1, <1>2, PTL DEF Spec

\* What recordClientDecision writes to a submission is what was decided on its agent in the
\* request it was taken into, and a selection leaves a placement.
THEOREM SubmissionsFollow == Spec => []SubmissionsFollowDecisions
<1>1. EntryInv => SubmissionsFollowDecisions
  BY DEF EntryInv
<1> QED
  BY <1>1, EntryInvariant, PTL

-------------------------------------------------------------------------------
(***************************************************************************)
(* The opportunity                                                         *)
(***************************************************************************)
OpeningCurrent == Opening \notin raced => \A v \in Worker : CurrentOpening(task[v])
OpenInv == EntryInv /\ OpeningCurrent /\ OpenSubmissionsAreWanted

\* No submission opens again, and none waits again.
LEMMA StaysOpen ==
    ASSUME EntryInv, [Next]_vars, NEW s \in DOMAIN submission, Entry(s) \notin raced'
    PROVE  /\ submission'[s].status \in OpenSubmission => submission[s].status \in OpenSubmission
           /\ submission'[s].status \in WaitingStatus => submission[s].status \in WaitingStatus
           /\ submission'[s].agent = submission[s].agent /\ submission'[s].agency = submission[s].agency
<1>1. CleanSteps(s)
  BY CleanStep
<1>2. submission'[s].agent = submission[s].agent /\ submission'[s].agency = submission[s].agency
  BY SubmissionSide DEF SubmissionsGrow, EntryInv, RowInv
<1> QED
  BY <1>1, <1>2 DEF CleanSteps, StatusOf, OpenSubmission, WaitingStatus, Final

LEMMA OpportunityStep ==
    ASSUME [Next]_vars
    PROVE  opportunity' \in {opportunity, "INTERVIEWING"} \/ \E w \in Worker : Close(w)
<1>1. ASSUME NEW w \in Worker, Begins(w) \/ Rereads(w) PROVE UNCHANGED opportunity
  BY <1>1, BeginsQuietly, RereadsQuietly DEF dataVars, submissionVars
<1>2. ASSUME NEW w \in Worker, Writes(w) \/ Submit(w) \/ Answer(w) PROVE UNCHANGED opportunity
  BY <1>2 DEF Writes, Move, Respond, Schedule, Cancel, Complete, AskAgain, Decide, Submit, Answer, submissionVars
<1>3. ASSUME NEW w \in Worker, Invite(w) PROVE opportunity' \in {opportunity, "INTERVIEWING"}
  BY <1>3 DEF Invite
<1>4. CASE Alone
  BY <1>4 DEF Alone, RequestInterviews, HoldEnds, Leave, WithdrawOnExit, submissionVars
<1> QED
  BY <1>1, <1>2, <1>3, <1>4, StepCases DEF Publishes, vars, submissionVars

LEMMA StandingStep ==
    ASSUME TypeOK, [Next]_vars, NEW a \in Agent
    PROVE  \/ standing'[a] = standing[a]
           \/ Leave(a)
           \/ WithdrawOnExit(a)
<1>1. ASSUME NEW w \in Worker, Begins(w) \/ Rereads(w) PROVE UNCHANGED standing
  BY <1>1, BeginsQuietly, RereadsQuietly DEF dataVars
<1>2. ASSUME NEW w \in Worker, Writes(w) \/ Publishes(w) PROVE UNCHANGED standing
  BY <1>2 DEF Writes, Move, Respond, Schedule, Cancel, Complete, AskAgain, Decide,
     Publishes, Submit, Answer, Invite, Close
<1>3. ASSUME NEW b \in Agent, Leave(b) \/ WithdrawOnExit(b), b # a PROVE standing'[a] = standing[a]
  BY <1>3 DEF Leave, WithdrawOnExit, TypeOK
<1>4. CASE Alone
  BY <1>3, <1>4 DEF Alone, RequestInterviews, HoldEnds
<1> QED
  BY <1>1, <1>2, <1>4, StepCases DEF vars

\* Whoever commits while somebody else is about the opportunity too races with them.
LEMMA OpeningAlone ==
    ASSUME Typed, OneByOne, [Next]_vars, NEW v \in Worker, UNCHANGED task[v], Opening \in task[v].about,
           Opening \notin raced', NEW w \in Worker
    PROVE  ~Submit(w) /\ ~Invite(w) /\ ~Close(w)
<1>1. ASSUME Submit(w) \/ Invite(w) \/ Close(w) PROVE FALSE
  <2>1. Opening \in task[w].about /\ Done(w)
    BY <1>1 DEF Typed, TasksOK, Refers, Submit, Invite, Close, Doing
  <2>2. w = v
    BY <2>1, OneByOneStays DEF OneByOne
  <2>3. task'[w] = Idle
    BY <2>1 DEF Done, Proceed, Typed, TasksOK
  <2> QED
    BY <2>2, <2>3 DEF Idle
<1> QED
  BY <1>1

LEMMA OpeningStaysCurrent == ASSUME OpenInv, [Next]_vars PROVE OpeningCurrent'
<1>0. Typed /\ OneByOne /\ raced \subseteq raced' /\ EntryInv
  BY OneByOneStays DEF OpenInv, EntryInv, RowInv
<1> SUFFICES ASSUME NEW v \in Worker, Opening \notin raced' PROVE CurrentOpening(task[v])'
  BY DEF OpeningCurrent
<1>1. CASE UNCHANGED task[v]
  <2> DEFINE t == task[v]
  <2>0. CurrentOpening(t) /\ Refers(t)
    BY <1>0 DEF OpenInv, OpeningCurrent, Typed, TasksOK
  <2>1. ASSUME Opening \in t.about
        PROVE  DOMAIN submission' \subseteq DOMAIN submission /\ opportunity' \in {opportunity, "INTERVIEWING"}
    <3>1. \A w \in Worker : ~Submit(w) /\ ~Close(w)
      BY <1>0, <1>1, <2>1, OpeningAlone
    <3> QED
      BY <1>0, <3>1, EntryNew, OpportunityStep
  <2>2. ASSUME t.op = "submit"
        PROVE  /\ opportunity' \notin {"FILLED", "CLOSED"}
               /\ \A s \in OpenFor(t.a)' : Entry(s) \in raced'
               /\ t.agency => standing'[t.a] = "MEMBER" \/ Talent(t.a) \in raced'
    <3>1. t.a \in Agent /\ Talent(t.a) \in t.about /\ Opening \in t.about
      BY <2>0, <2>2 DEF Refers
    <3>2. opportunity' \notin {"FILLED", "CLOSED"}
      BY <2>0, <2>1, <2>2, <3>1 DEF CurrentOpening
    <3>3. ASSUME NEW s \in OpenFor(t.a)', Entry(s) \notin raced' PROVE FALSE
      <4>1. s \in DOMAIN submission /\ submission'[s].agent = t.a /\ submission'[s].status \in OpenSubmission
        BY <1>1, <2>1, <3>1, <3>3 DEF OpenFor
      <4>2. s \in OpenFor(t.a)
        BY <1>0, <3>3, <4>1, StaysOpen DEF OpenFor
      <4> QED
        BY <1>0, <2>0, <2>2, <3>3, <4>2 DEF CurrentOpening
    <3>4. ASSUME t.agency, Talent(t.a) \notin raced' PROVE standing'[t.a] = "MEMBER"
      <4>1. standing[t.a] = "MEMBER"
        BY <1>0, <2>0, <2>2, <3>4 DEF CurrentOpening
      <4>2. Talent(t.a) \in InFlight
        BY <3>1 DEF InFlight
      <4> HIDE DEF InFlight
      <4>3. ~Leave(t.a) /\ ~WithdrawOnExit(t.a)
        BY <3>4, <4>2 DEF Leave, WithdrawOnExit
      <4> QED
        BY <1>0, <3>1, <4>1, <4>3, StandingStep DEF Typed
    <3> QED
      BY <3>2, <3>3, <3>4
  <2>3. ASSUME t.op = "close", NEW s \in Waiting', Entry(s) \notin raced' PROVE s \in t.S
    <3>1. Opening \in t.about
      BY <2>0, <2>3 DEF Refers
    <3>2. s \in DOMAIN submission /\ submission'[s].status \in WaitingStatus
      BY <2>1, <2>3, <3>1 DEF Waiting, WaitingStatus
    <3>3. s \in Waiting
      BY <1>0, <2>3, <3>2, StaysOpen DEF Waiting, WaitingStatus
    <3> QED
      BY <1>0, <2>0, <2>3, <3>3 DEF CurrentOpening
  <2> QED
    BY <1>1, <2>2, <2>3 DEF CurrentOpening
<1>2. CASE UNCHANGED dataVars /\ Fresh(task'[v])
  <2>1. CurrentOpening(task'[v])
    BY <1>2 DEF Fresh
  <2>2. UNCHANGED <<opportunity, submission, standing>>
    BY <1>2 DEF dataVars, submissionVars
  <2>3. Waiting' = Waiting /\ \A a : OpenFor(a)' = OpenFor(a)
    BY <2>2 DEF Waiting, OpenFor
  <2> QED
    BY <1>0, <2>1, <2>2, <2>3 DEF CurrentOpening
<1>3. CASE UNCHANGED dataVars /\ Rereads(v)
  <2>1. CASE task'[v] = Deciding(task[v])
    BY <2>1 DEF Deciding, CurrentOpening
  <2>2. CASE task'[v] = Completing(task[v])
    BY <2>2 DEF Completing, CurrentOpening
  <2>3. CASE task'[v] = Idle
    BY <2>3 DEF Idle, CurrentOpening
  <2> QED
    BY <1>0, <1>3, <2>1, <2>2, <2>3, RereadsAs
<1>4. CASE task'[v] = Idle
  BY <1>4 DEF Idle, CurrentOpening
<1> QED
  BY <1>0, <1>1, <1>2, <1>3, <1>4, TaskCases

LEMMA StillWanted == ASSUME OpenInv, [Next]_vars PROVE OpenSubmissionsAreWanted'
<1>0. Typed /\ OneByOne /\ raced \subseteq raced' /\ EntryInv /\ TypeOK
  BY OneByOneStays DEF OpenInv, EntryInv, RowInv, Typed
<1> SUFFICES ASSUME Opening \notin raced' PROVE OpenSubmissionsAreWanted'
  BY DEF OpenSubmissionsAreWanted
<1>1. Opening \notin raced /\ \A w \in Worker : CurrentOpening(task[w])
  BY <1>0 DEF OpenInv, OpeningCurrent
<1>2. ASSUME NEW a \in Agent, NEW s \in OpenFor(a)', NEW u \in OpenFor(a)', s # u, {Entry(s), Entry(u)} \cap raced' = {}
      PROVE  FALSE
  <2>1. Entry(s) \notin raced' /\ Entry(u) \notin raced' /\ Entry(s) \notin raced /\ Entry(u) \notin raced
    BY <1>0, <1>2
  <2>2. \A e \in {s, u} : e \in DOMAIN submission => e \in OpenFor(a)
    BY <1>0, <1>2, <2>1, StaysOpen DEF OpenFor
  <2>3. CASE s \in DOMAIN submission /\ u \in DOMAIN submission
    BY <1>1, <1>2, <2>1, <2>2, <2>3 DEF OpenInv, OpenSubmissionsAreWanted
  <2>4. ASSUME NEW d \in {s, u}, NEW e \in {s, u}, d # e, d \notin DOMAIN submission PROVE FALSE
    <3>1. d \in DOMAIN submission' /\ e \in DOMAIN submission' /\ submission'[d].agent = a
      BY <1>2 DEF OpenFor
    <3>2. PICK w \in Worker : Submit(w) /\ submission'[d].agent = task[w].a
      BY <1>0, <2>4, <3>1, EntryNew
    <3> DEFINE n == Len(submission) + 1
    <3>3. e \in DOMAIN submission
      <4>1. DOMAIN submission' = DOMAIN submission \cup {n}
        BY <1>0, <3>2, SubmitEffect
      <4> HIDE DEF n
      <4> QED
        BY <2>4, <3>1, <4>1
    <3>4. e \in OpenFor(task[w].a)
      BY <2>2, <3>1, <3>2, <3>3
    <3>5. Entry(e) \in raced
      BY <1>1, <3>2, <3>4 DEF CurrentOpening, Submit, Doing
    <3> QED
      BY <2>1, <3>5
  <2> QED
    BY <1>2, <2>3, <2>4
<1>3. ASSUME NEW s \in DOMAIN submission', Entry(s) \notin raced', submission'[s].status \in WaitingStatus
      PROVE  opportunity' \notin {"FILLED", "CLOSED"}
  <2>1. CASE s \in DOMAIN submission
    <3>1. submission[s].status \in WaitingStatus /\ Entry(s) \notin raced
      BY <1>0, <1>3, <2>1, StaysOpen
    <3>2. opportunity \notin {"FILLED", "CLOSED"}
      BY <1>1, <2>1, <3>1 DEF OpenInv, OpenSubmissionsAreWanted, WaitingStatus
    <3>3. ASSUME NEW w \in Worker, Close(w) PROVE FALSE
      <4>1. s \in task[w].S
        BY <1>1, <2>1, <3>1, <3>3 DEF CurrentOpening, Close, Doing, Waiting, WaitingStatus
      <4>2. submission' = Withdrawn(task[w].S)
        BY <3>3 DEF Close
      <4>3. submission'[s].status = "WITHDRAWN"
        BY <1>0, <2>1, <4>1, <4>2, WithdrawnEffect DEF Changed
      <4> QED
        BY <1>3, <4>3 DEF WaitingStatus
    <3> QED
      BY <3>2, <3>3, OpportunityStep
  <2>2. CASE s \notin DOMAIN submission
    <3>1. PICK w \in Worker : Submit(w)
      BY <1>0, <2>2, EntryNew
    <3> QED
      BY <1>1, <3>1 DEF CurrentOpening, Submit, Doing
  <2> QED
    BY <2>1, <2>2
<1>4. ASSUME NEW s \in DOMAIN submission', Entry(s) \notin raced', s \in OfAgency',
             Talent(submission'[s].agent) \notin raced'
      PROVE  standing'[submission'[s].agent] # "GONE"
  <2>1. submission'[s].agency /\ submission'[s].status \in OpenSubmission
    BY <1>4 DEF OfAgency
  <2>2. CASE s \in DOMAIN submission
    <3> DEFINE a == submission[s].agent
    <3>1. submission'[s].agent = a /\ a \in Agent /\ s \in OfAgency \cap OpenFor(a)
      BY <1>0, <1>4, <2>1, <2>2, StaysOpen, SubmissionsTyped DEF OfAgency, OpenFor
    <3>2. standing[a] # "GONE"
      BY <1>0, <1>1, <1>4, <2>2, <3>1 DEF OpenInv, OpenSubmissionsAreWanted
    <3>3. ~WithdrawOnExit(a)
      <4> SUFFICES ASSUME WithdrawOnExit(a) PROVE FALSE
        OBVIOUS
      <4>1. submission' = Withdrawn(OfAgency \cap OpenFor(a))
        BY DEF WithdrawOnExit
      <4>2. submission'[s].status = "WITHDRAWN"
        BY <1>0, <2>2, <3>1, <4>1, WithdrawnEffect DEF Changed
      <4> QED
        BY <2>1, <4>2 DEF OpenSubmission
    <3>4. Leave(a) => standing'[a] = "LEFT"
      BY <1>0, <3>1 DEF Leave, TypeOK
    <3> QED
      BY <1>0, <3>1, <3>2, <3>3, <3>4, StandingStep
  <2>3. CASE s \notin DOMAIN submission
    <3>1. PICK w \in Worker : /\ Submit(w)
                              /\ submission'[s].agent = task[w].a /\ submission'[s].agency = task[w].agency
      BY <1>0, <2>3, EntryNew
    <3>2. standing[task[w].a] = "MEMBER"
      BY <1>0, <1>1, <1>4, <2>1, <3>1 DEF CurrentOpening, Submit, Doing
    <3> QED
      BY <3>1, <3>2 DEF Submit
  <2> QED
    BY <2>2, <2>3
<1> QED
  BY <1>2, <1>3, <1>4 DEF OpenSubmissionsAreWanted, WaitingStatus

LEMMA InitOpenInv == ASSUME Init PROVE OpenInv
<1>1. DOMAIN submission = {} /\ \A w \in Worker : task[w].op = "idle"
  BY DEF Init
<1>2. \A a \in Agent : OpenFor(a) = {}
  BY <1>1 DEF OpenFor
<1> QED
  BY <1>1, <1>2, InitEntryInv DEF OpenInv, OpeningCurrent, CurrentOpening, OpenSubmissionsAreWanted

LEMMA StepOpenInv == ASSUME OpenInv, [Next]_vars PROVE OpenInv'
BY StepEntryInv, OpeningStaysCurrent, StillWanted DEF OpenInv

\* submitAgent never adds a second open submission of an agent, closeOpportunity leaves none
\* waiting, and withdrawSubmissionsOnExit none of a member who left.
THEOREM OpenWanted == Spec => []OpenSubmissionsAreWanted
<1>1. Init => OpenInv
  BY InitOpenInv
<1>2. OpenInv /\ [Next]_vars => OpenInv'
  BY StepOpenInv
<1>3. OpenInv => OpenSubmissionsAreWanted
  BY DEF OpenInv
<1> QED
  BY <1>1, <1>2, <1>3, PTL DEF Spec

-------------------------------------------------------------------------------
(***************************************************************************)
(* The agents                                                              *)
(***************************************************************************)
AheadIn(q, a) == \E i \in ScheduledIn(q) : i[1] = a
Chosen(q, a) == Decided(q, a, "SELECTED")
IsOpen(q) == q.status \in OpenRequestStatus

\* What a writer does to its row, as far as agent a can tell.
WriterSteps(w, a) ==
    LET t == task[w]
        q == request[t.r]
        p == request'[t.r]
    IN  /\ AheadIn(p, a) => (AheadIn(q, a) /\ ~Cancel(w)) \/ (Schedule(w) /\ a \in t.A)
        /\ IsOpen(q) /\ ~IsOpen(p) => Cancel(w) \/ (Decide(w) /\ t.closes)
        /\ Chosen(p, a) => Chosen(q, a) \/ (Decide(w) /\ a = t.a /\ t.decision = "SELECTED")

LEMMA WriterStep ==
    ASSUME Typed, NEW w \in Worker, Writes(w), CurrentRow(task[w], request[task[w].r]),
           Consistent(request[task[w].r]), NEW a \in Agent
    PROVE  WriterSteps(w, a)
<1> DEFINE t == task[w]
           q == request[t.r]
           p == request'[t.r]
<1>0. t.op \in RowOps /\ t.r \in DOMAIN request /\ q \in RequestRow
  BY WriterRows, RowsTyped DEF Typed, Wrote
<1>1. ASSUME SameBut(q, p, {}), IsOpen(q) => IsOpen(p), ~Cancel(w) PROVE WriterSteps(w, a)
  <2>1. InterviewsOf(p) = InterviewsOf(q) /\ \A i \in InterviewsOf(q) : The(p, i) = The(q, i)
    BY <1>1 DEF SameBut
  <2> HIDE DEF q, p
  <2>2. ScheduledIn(p) = ScheduledIn(q) /\ \A b, d : Decided(p, b, d) <=> Decided(q, b, d)
    BY <2>1, Named
  <2> QED
    BY <1>1, <2>2 DEF WriterSteps, AheadIn, Chosen, q, p
<1>2. CASE Move(w)
  <2>1. SameBut(q, p, {}) /\ p.status = t.to /\ t.op = "move"
    BY <1>2, MoveEffect DEF Move, Doing
  <2>2. p.status = q.status \/ (q.status \in DOMAIN Handover /\ p.status = Handover[q.status])
    BY <2>1 DEF CurrentRow, MoveOf
  <2> HIDE DEF q, p
  <2>3. IsOpen(q) => IsOpen(p)
    BY <2>1, <2>2, UnchangedInterviews DEF q, IsOpen
  <2>4. ~Cancel(w)
    BY <2>1 DEF Cancel, Doing
  <2> QED
    BY <1>1, <2>1, <2>3, <2>4
<1>3. CASE Respond(w)
  <2>1. SameBut(q, p, {}) /\ p.status = q.status
    BY <1>3, RespondEffect
  <2>2. ~Cancel(w)
    BY <1>3 DEF Respond, Cancel, Doing
  <2> QED
    BY <1>1, <2>1, <2>2 DEF IsOpen
<1>4. CASE Schedule(w)
  <2> DEFINE A == t.A
  <2>1. p = WithInterviews(q, A) /\ A # {} /\ A \subseteq Agent /\ \A b \in A : Len(q.rounds[b]) < MaxRounds
    BY <1>4, ScheduleEffect
  <2>2. ~Cancel(w)
    BY <1>4 DEF Schedule, Cancel, Doing
  <2> HIDE DEF q, p, A
  <2>3. /\ IsOpen(p)
        /\ \A i \in ScheduledIn(p) : i \in ScheduledIn(q) \/ i[1] \in A
        /\ Chosen(p, a) <=> Chosen(q, a)
    BY <1>0, <2>1, ScheduledIsConsistent DEF q, IsOpen, Chosen
  <2> QED
    BY <1>4, <2>2, <2>3 DEF WriterSteps, AheadIn, q, p, A
<1>5. CASE Cancel(w)
  <2>1. p = WithoutInterviews(q)
    BY <1>5, CancelEffect
  <2> HIDE DEF q, p
  <2>2. ScheduledIn(p) = {} /\ (Chosen(p, a) <=> Chosen(q, a))
    BY <1>0, <2>1, CancelledIsConsistent DEF q, Chosen
  <2> QED
    BY <1>5, <2>2 DEF WriterSteps, AheadIn, q, p
<1>6. CASE Complete(w)
  <2> DEFINE i == <<t.a, t.k>>
             last == NoneAhead(q, i) /\ q.status = "SCHEDULED"
             outcome == t.outcome
  <2>1. /\ i \in InterviewsOf(q) /\ SameBut(q, p, {i})
        /\ The(p, i).status = outcome /\ The(p, i).decision = The(q, i).decision
        /\ p.status = IF t.last THEN "CLIENT_DECISION_PENDING" ELSE q.status
    BY <1>6, CompleteEffect
  <2>2. t.op = "completing" /\ outcome \in Outcome
    BY <1>6 DEF Complete, Doing, Typed, TasksOK, Refers
  <2>3. i \in ScheduledIn(q) /\ (t.last <=> last)
    BY <2>2 DEF CurrentRow
  <2>4. last \in BOOLEAN /\ p.status = IF last THEN "CLIENT_DECISION_PENDING" ELSE q.status
    BY <2>1, <2>3
  <2>5. last <=> NoneAhead(q, i) /\ q.status = "SCHEDULED"
    OBVIOUS
  <2>6. ~Cancel(w)
    BY <2>2 DEF Cancel, Doing
  <2> HIDE DEF q, p, i, last, outcome
  <2>7. /\ IsOpen(q) => IsOpen(p)
        /\ ScheduledIn(p) \subseteq ScheduledIn(q)
        /\ Chosen(p, a) <=> Chosen(q, a)
    BY <2>1, <2>2, <2>3, <2>4, <2>5, OutcomeIsConsistent DEF q, IsOpen, Chosen
  <2> QED
    BY <2>6, <2>7 DEF WriterSteps, AheadIn, q, p
<1>7. CASE AskAgain(w) \/ Decide(w)
  <2> DEFINE i == <<t.a, t.k>>
             d == t.decision
  <2>1. /\ i \in InterviewsOf(q) /\ SameBut(q, p, {i})
        /\ The(p, i).status = The(q, i).status /\ The(p, i).decision = d /\ d \in Decision
        /\ i[1] = t.a
    BY <1>7, AskAgainEffect, DecideEffect DEF AskAgain, Decision
  <2>2. \/ d = "SECOND_INTERVIEW" /\ p.status = "CLIENT_CONFIRMATION"
        \/ d # "SECOND_INTERVIEW" /\ p.status = IF AllDecided(p) THEN "CLOSED" ELSE q.status
    <3>1. CASE AskAgain(w)
      BY <3>1, AskAgainEffect DEF AskAgain
    <3>2. CASE Decide(w)
      <4>1. /\ d # "SECOND_INTERVIEW" /\ p.rounds = With(q, t).rounds
            /\ p.status = IF t.closes THEN "CLOSED" ELSE q.status
        BY <3>2, DecideEffect
      <4>2. t.closes <=> AllDecided(With(q, t))
        BY <3>2 DEF Decide, Doing, CurrentRow
      <4>3. AllDecided(With(q, t)) <=> AllDecided(p)
        BY <4>1 DEF AllDecided, InterviewsOf, The
      <4> QED
        BY <4>1, <4>2, <4>3
    <3> QED
      BY <1>7, <3>1, <3>2
  <2>3. IsOpen(q) /\ ~IsOpen(p) => Decide(w) /\ t.closes
    <3>1. CASE AskAgain(w)
      <4>1. p.status = "CLIENT_CONFIRMATION"
        BY <3>1, AskAgainEffect
      <4> QED
        BY <4>1 DEF IsOpen, OpenRequestStatus, RequestStatus
    <3>2. CASE Decide(w)
      <4>1. p.status = IF t.closes THEN "CLOSED" ELSE q.status
        BY <3>2, DecideEffect
      <4> QED
        BY <3>2, <4>1 DEF IsOpen
    <3> QED
      BY <1>7, <3>1, <3>2
  <2>4. d = "SELECTED" => Decide(w)
    BY <1>7 DEF AskAgain
  <2>5. ~Cancel(w)
    BY <1>7 DEF AskAgain, Decide, Cancel, Doing
  <2> HIDE DEF q, p, i, d
  <2>6. /\ ScheduledIn(p) = ScheduledIn(q)
        /\ \A e : Decided(p, a, e) => Decided(q, a, e) \/ (a = i[1] /\ e = d)
    BY <2>1, <2>2, DecisionIsConsistent DEF q
  <2> QED
    BY <2>1, <2>3, <2>4, <2>5, <2>6 DEF WriterSteps, AheadIn, Chosen, q, p, d
<1> QED
  BY <1>2, <1>3, <1>4, <1>5, <1>6, <1>7 DEF Writes

\* Who changes an agent, and how.
AgentIs(a, v, h) == availability'[a] = v /\ hold'[a] = h
AgentSteps(a) ==
    \/ AgentIs(a, availability[a], hold[a])
    \/ \E w \in Worker : Schedule(w) /\ a \in task[w].free /\ AgentIs(a, "INTERVIEWING", hold[a])
    \/ \E w \in Worker : Cancel(w) /\ a \in task[w].busy /\ ~BusyElsewhere(a, task[w].r)
                         /\ AgentIs(a, "AVAILABLE", hold[a])
    \/ \E w \in Worker : Decide(w) /\ task[w].holds /\ a = task[w].a /\ hold[a] = NoHold
                         /\ \E c \in Client : AgentIs(a, "RESERVED", [client |-> c, before |-> availability[a]])
    \/ \E w \in Worker : Decide(w) /\ a \in task[w].freed /\ AgentIs(a, "AVAILABLE", hold[a])
    \/ HoldEnds(a)

\* A decision takes hold of one agent and frees others.
LEMMA DecidesForAgent ==
    ASSUME Typed, NEW w \in Worker, Decide(w), NEW a \in Agent
    PROVE  LET t == task[w] IN
           /\ availability'[a] = IF t.holds /\ a = t.a THEN "RESERVED" ELSE IF a \in t.freed THEN "AVAILABLE" ELSE availability[a]
           /\ hold'[a] = IF t.holds /\ a = t.a THEN [client |-> request[t.r].client, before |-> availability[a]] ELSE hold[a]
           /\ t.holds /\ a = t.a => hold[a] = NoHold /\ hold'[a] # NoHold
           /\ request[t.r].client \in Client
<1> DEFINE t == task[w]
           c == request[t.r].client
<1>0. TypeOK
  BY DEF Typed
<1>1. t.op = "deciding" /\ t.r \in DOMAIN request /\ <<t.a, t.k>> \in InterviewsOf(request[t.r])
  BY DEF Decide, Doing, Typed, TasksOK, Refers, RowOps, InterviewOps
<1>2. request[t.r] \in RequestRow
  BY <1>0, <1>1, RowsTyped
<1>3. t.a \in Agent /\ c \in Client
  BY <1>1, <1>2 DEF RequestRow, InterviewsOf
<1>4. /\ availability' = [Freed(t.freed) EXCEPT ![t.a] = IF t.holds THEN "RESERVED" ELSE @]
      /\ t.holds => hold[t.a] = NoHold /\ hold' = [hold EXCEPT ![t.a] = [client |-> c, before |-> availability[t.a]]]
      /\ ~t.holds => hold' = hold
  BY DEF Decide
<1> HIDE DEF t, c
<1>5. availability'[a] = IF t.holds /\ a = t.a THEN "RESERVED" ELSE IF a \in t.freed THEN "AVAILABLE" ELSE availability[a]
  BY <1>3, <1>4 DEF Freed
<1>6. hold'[a] = IF t.holds /\ a = t.a THEN [client |-> c, before |-> availability[a]] ELSE hold[a]
  BY <1>0, <1>3, <1>4 DEF TypeOK
<1>7. ASSUME t.holds, a = t.a PROVE hold[a] = NoHold /\ hold'[a] # NoHold
  <2>1. hold'[a].client # NoHold.client
    BY <1>3, <1>6, <1>7, InterviewsAssumption DEF NoHold
  <2> QED
    BY <1>4, <1>7, <2>1
<1> QED
  BY <1>3, <1>5, <1>6, <1>7 DEF t, c

LEMMA AgentStep == ASSUME Typed, [Next]_vars, NEW a \in Agent PROVE AgentSteps(a)
<1>0. TypeOK
  BY DEF Typed
<1>1. CASE UNCHANGED <<availability, hold>>
  BY <1>1 DEF AgentSteps, AgentIs
<1>2. ASSUME NEW b \in Agent, HoldEnds(b) PROVE AgentSteps(a)
  <2>1. CASE a = b
    BY <1>2, <2>1 DEF AgentSteps
  <2>2. CASE a # b
    BY <1>0, <1>2, <2>2 DEF HoldEnds, TypeOK, AgentSteps, AgentIs
  <2> QED
    BY <2>1, <2>2
<1>3. CASE Alone
  BY <1>1, <1>2, <1>3 DEF Alone, RequestInterviews, Leave, WithdrawOnExit, agentVars
<1>4. ASSUME NEW w \in Worker, Begins(w) \/ Rereads(w) PROVE AgentSteps(a)
  BY <1>1, <1>4, BeginsQuietly, RereadsQuietly DEF dataVars, agentVars
<1>5. ASSUME NEW w \in Worker, Schedule(w) PROVE AgentSteps(a)
  <2>1. availability'[a] = (IF a \in task[w].free THEN "INTERVIEWING" ELSE availability[a]) /\ hold' = hold
    BY <1>5 DEF Schedule
  <2> QED
    BY <1>5, <2>1 DEF AgentSteps, AgentIs
<1>6. ASSUME NEW w \in Worker, Cancel(w) PROVE AgentSteps(a)
  <2>1. /\ hold' = hold
        /\ availability'[a] = IF a \in task[w].busy /\ ~BusyElsewhere(a, task[w].r) THEN "AVAILABLE" ELSE availability[a]
    BY <1>6 DEF Cancel, Freed
  <2> QED
    BY <1>6, <2>1 DEF AgentSteps, AgentIs
<1>7. ASSUME NEW w \in Worker, Decide(w) PROVE AgentSteps(a)
  BY <1>0, <1>7, DecidesForAgent DEF AgentSteps, AgentIs
<1>8. ASSUME NEW w \in Worker, Writes(w) PROVE AgentSteps(a)
  BY <1>1, <1>5, <1>6, <1>7, <1>8 DEF Writes, Move, Respond, Complete, AskAgain, agentVars
<1>9. ASSUME NEW w \in Worker, Publishes(w) PROVE AgentSteps(a)
  BY <1>1, <1>9 DEF Publishes, Submit, Answer, Invite, Close, agentVars
<1> QED
  BY <1>1, <1>3, <1>4, <1>8, <1>9, StepCases DEF vars, agentVars

\* Who changes a request.
LEMMA RowStep ==
    ASSUME RowInv, [Next]_vars, NEW a \in Agent, NEW r \in DOMAIN request', Row(r) \notin raced'
    PROVE  \/ r \in DOMAIN request /\ request'[r] = request[r]
           \/ r \notin DOMAIN request /\ IsOpen(request'[r]) /\ InterviewsOf(request'[r]) = {}
           \/ \E w \in Worker : Writes(w) /\ r = task[w].r /\ r \in DOMAIN request /\ WriterSteps(w, a)
<1>0. Typed /\ raced \subseteq raced'
  BY OneByOneStays DEF RowInv
<1>1. ASSUME NEW c \in Client, NEW A \in SUBSET Agent, request' = Append(request, NewRequest(c, A))
      PROVE  \/ r \in DOMAIN request /\ request'[r] = request[r]
             \/ r \notin DOMAIN request /\ IsOpen(request'[r]) /\ InterviewsOf(request'[r]) = {}
  <2>1. /\ DOMAIN request' = DOMAIN request \cup {Len(request) + 1}
        /\ Len(request) + 1 \notin DOMAIN request
        /\ \A s \in DOMAIN request : request'[s] = request[s]
        /\ request'[Len(request) + 1] = NewRequest(c, A)
    BY <1>0, <1>1, RequestAdded
  <2>2. IsOpen(NewRequest(c, A)) /\ InterviewsOf(NewRequest(c, A)) = {}
    BY NewIsConsistent DEF IsOpen
  <2> QED
    BY <2>1, <2>2
<1>2. ASSUME NEW w \in Worker, Writes(w)
      PROVE  \/ r \in DOMAIN request /\ request'[r] = request[r]
             \/ r = task[w].r /\ r \in DOMAIN request /\ WriterSteps(w, a)
  <2>1. Wrote(task[w].r) /\ task[w].op \in RowOps
    BY <1>0, <1>2, WriterRows
  <2>2. CASE r # task[w].r
    BY <2>1, <2>2 DEF Wrote
  <2>3. CASE r = task[w].r
    <3>1. CurrentRow(task[w], request[r]) /\ Consistent(request[r]) /\ r \in DOMAIN request
      BY <1>0, <2>1, <2>3 DEF RowInv, RowsOK, RowsCurrent, Wrote
    <3> QED
      BY <1>0, <1>2, <2>3, <3>1, WriterStep
  <2> QED
    BY <2>2, <2>3
<1>3. CASE UNCHANGED request
  BY <1>3
<1> QED
  BY <1>0, <1>1, <1>2, <1>3, RequestCases DEF vars, requestVars

LEMMA CleanKept ==
    ASSUME Typed, OneByOne, [Next]_vars, NEW a \in Agent, Clean(a)'
    PROVE  /\ Clean(a) /\ Talent(a) \notin raced'
           /\ \A r \in Mine(a)' : Row(r) \notin raced' /\ r \in DOMAIN request'
           /\ Mine(a) \subseteq Mine(a)' /\ ScheduledFor(a)' \subseteq Mine(a)' /\ ScheduledFor(a) \subseteq Mine(a)
<1>1. RequestsGrow /\ Interviewed' /\ raced \subseteq raced'
  BY RequestSide, OneByOneStays
<1>2. Talent(a) \notin raced' /\ \A r \in Mine(a)' : Row(r) \notin raced' /\ r \in DOMAIN request'
  BY DEF Clean, Mine
<1>3. Mine(a) \subseteq Mine(a)'
  BY <1>1 DEF Mine, RequestsGrow, RowGrows
<1>4. Clean(a)
  BY <1>1, <1>2, <1>3 DEF Clean
<1>5. ScheduledFor(a)' \subseteq Mine(a)' /\ ScheduledFor(a) \subseteq Mine(a)
  BY <1>1 DEF Mine, ScheduledFor, ScheduledIn, Interviewed, Typed
<1> QED
  BY <1>2, <1>3, <1>4, <1>5

\* A writer that disposes of an agent is about that agent.
Disposes(w, a) ==
    \/ Schedule(w) /\ a \in task[w].A
    \/ (Cancel(w) \/ Decide(w)) /\ a \in CandidatesOf(request[task[w].r])

LEMMA DisposesOfTalent ==
    ASSUME Typed, NEW w \in Worker, NEW a \in Agent, Disposes(w, a)
    PROVE  Talent(a) \in task[w].about /\ Done(w)
<1>1. Refers(task[w])
  BY DEF Typed, TasksOK
<1>2. CASE Schedule(w) /\ a \in task[w].A
  BY <1>1, <1>2 DEF Refers, Schedule, Doing
<1>3. CASE (Cancel(w) \/ Decide(w)) /\ a \in CandidatesOf(request[task[w].r])
  BY <1>1, <1>3 DEF Refers, Cancel, Decide, Doing
<1> QED
  BY <1>2, <1>3 DEF Disposes

LEMMA DecidesOnCandidates ==
    ASSUME Typed, NEW w \in Worker, Decide(w)
    PROVE  /\ task[w].a \in CandidatesOf(request[task[w].r])
           /\ task[w].freed \subseteq CandidatesOf(request[task[w].r])
BY DEF Typed, Interviewed, TasksOK, Refers, Decide, Doing, RowOps, InterviewOps

\* An agent another request is about is left alone, or they race.
LEMMA TalentAlone ==
    ASSUME Typed, OneByOne, [Next]_vars, NEW v \in Worker, UNCHANGED task[v], NEW a \in Agent,
           Talent(a) \in task[v].about, Talent(a) \notin raced'
    PROVE  ~HoldEnds(a) /\ \A w \in Worker : ~Disposes(w, a)
<1>1. ~HoldEnds(a)
  <2>1. Talent(a) \in InFlight
    BY DEF InFlight
  <2> HIDE DEF InFlight
  <2> QED
    BY <2>1 DEF HoldEnds
<1>2. ASSUME NEW w \in Worker, Disposes(w, a) PROVE FALSE
  <2>1. Talent(a) \in task[w].about /\ Done(w)
    BY <1>2, DisposesOfTalent
  <2>2. w = v
    BY <2>1, OneByOneStays DEF OneByOne
  <2>3. task'[w] = Idle
    BY <2>1 DEF Done, Proceed, Typed, TasksOK
  <2> QED
    BY <2>2, <2>3 DEF Idle
<1> QED
  BY <1>1, <1>2

LEMMA Undisturbed ==
    ASSUME RowInv, [Next]_vars, NEW v \in Worker, UNCHANGED task[v], NEW a \in Agent,
           Talent(a) \in task[v].about, Talent(a) \notin raced'
    PROVE  /\ AgentIs(a, availability[a], hold[a])
           /\ Clean(a)' => ScheduledFor(a)' \subseteq ScheduledFor(a) /\ OpenOf(a) \subseteq OpenOf(a)'
<1>0. Typed /\ OneByOne
  BY DEF RowInv
<1>1. ~HoldEnds(a) /\ \A w \in Worker : ~Disposes(w, a)
  BY <1>0, TalentAlone
<1>2. AgentIs(a, availability[a], hold[a])
  <2>1. \A w \in Worker : Schedule(w) => task[w].free \subseteq task[w].A
    BY <1>0 DEF Typed, TasksOK, Refers, Schedule, Doing
  <2>2. \A w \in Worker : Cancel(w) => task[w].busy \subseteq CandidatesOf(request[task[w].r])
    BY <1>0 DEF Typed, TasksOK, Refers, Cancel, Doing
  <2> QED
    BY <1>0, <1>1, <2>1, <2>2, AgentStep, DecidesOnCandidates DEF AgentSteps, Disposes
<1>3. ASSUME Clean(a)', NEW r \in ScheduledFor(a)' PROVE r \in ScheduledFor(a)
  <2>1. r \in DOMAIN request' /\ Row(r) \notin raced' /\ AheadIn(request'[r], a)
    BY <1>0, <1>3, CleanKept DEF ScheduledFor, AheadIn
  <2>2. InterviewsOf(request'[r]) # {}
    BY <2>1 DEF AheadIn, ScheduledIn
  <2>3. r \in DOMAIN request /\ AheadIn(request[r], a)
    BY <1>1, <2>1, <2>2, RowStep DEF WriterSteps, Disposes
  <2> QED
    BY <2>3 DEF ScheduledFor, AheadIn
<1>4. ASSUME Clean(a)', NEW r \in OpenOf(a) PROVE r \in OpenOf(a)'
  <2>1. r \in Mine(a) /\ r \in Mine(a)' /\ Row(r) \notin raced' /\ IsOpen(request[r])
    BY <1>0, <1>4, CleanKept DEF OpenOf, IsOpen
  <2>2. r \in DOMAIN request /\ r \in DOMAIN request' /\ a \in CandidatesOf(request[r])
    BY <2>1 DEF Mine
  <2>3. IsOpen(request'[r])
    BY <1>1, <2>1, <2>2, RowStep DEF WriterSteps, Disposes
  <2> QED
    BY <2>1, <2>3 DEF OpenOf, IsOpen
<1> QED
  BY <1>2, <1>3, <1>4

TalentsCurrent == \A v \in Worker, a \in Agent : Talent(a) \notin raced => CurrentTalent(task[v], a)

AgentInv == RowInv /\ AgentsOK /\ TalentsCurrent

\* Whoever is interviewed elsewhere has an open request there.
LEMMA BusyIsOpen ==
    ASSUME RowInv, NEW a \in Agent, Clean(a), NEW r, BusyElsewhere(a, r)
    PROVE  OpenOf(a) \ {r} # {}
<1>1. PICK s \in DOMAIN request \ {r} : \E i \in ScheduledIn(request[s]) : i[1] = a
  BY DEF BusyElsewhere
<1>2. s \in Mine(a)
  BY <1>1 DEF Mine, RowInv, Typed, Interviewed, ScheduledIn
<1>3. Consistent(request[s])
  BY <1>1, <1>2 DEF Clean, RowInv, RowsOK
<1>4. request[s].status = "SCHEDULED"
  BY <1>1, <1>3 DEF Consistent
<1> QED
  BY <1>1, <1>2, <1>4 DEF OpenOf, OpenRequestStatus, RequestStatus

LEMMA DecidingTalent ==
    ASSUME RowInv, NEW u, u.r \in DOMAIN request, NEW a \in Agent
    PROVE  CurrentTalent(Deciding(u), a)
<1> DEFINE t == Deciding(u)
           q == request[u.r]
           p == With(q, u)
<1>1. /\ t.op = "deciding" /\ t.r = u.r /\ t.a = u.a /\ t.k = u.k /\ t.decision = u.decision
      /\ t.holds <=> u.decision = "SELECTED" /\ hold[u.a] = NoHold
      /\ t.closes <=> Closes(u)
      /\ t.freed = IF Closes(u) THEN Released(p, u.r) ELSE {}
  BY DEF Deciding
<1>2. q \in RequestRow
  BY RowsTyped DEF RowInv, Typed
<1>3. CandidatesOf(p) = CandidatesOf(q) /\ With(q, t) = p
  BY <1>1, <1>2 DEF With, RequestRow, CandidatesOf
<1> HIDE DEF t, p
<1>4. ASSUME a \in t.freed PROVE availability[a] = "INTERVIEWING" /\ ~BusyElsewhere(a, t.r)
  BY <1>1, <1>4 DEF Released, Interviewing
<1>5. ASSUME t.closes, a \in CandidatesOf(q) \ t.freed, Clean(a), availability[a] = "INTERVIEWING"
      PROVE  Decided(p, a, "SELECTED") \/ OpenOf(a) \ {t.r} # {}
  <2>1. t.freed = Released(p, u.r)
    BY <1>1, <1>5
  <2>2. Decided(p, a, "SELECTED") \/ BusyElsewhere(a, t.r)
    BY <1>1, <1>3, <1>5, <2>1 DEF Released, Interviewing
  <2> QED
    BY <1>5, <2>2, BusyIsOpen
<1>6. CurrentTalent(t, a)
  BY <1>1, <1>3, <1>4, <1>5 DEF CurrentTalent
<1> QED
  BY <1>6 DEF t

LEMMA TalentsStayCurrent == ASSUME AgentInv, [Next]_vars PROVE TalentsCurrent'
<1>0. Typed /\ OneByOne /\ RowInv /\ raced \subseteq raced' /\ RequestsGrow
  BY OneByOneStays, RequestSide DEF AgentInv, RowInv
<1> SUFFICES ASSUME NEW v \in Worker, NEW a \in Agent, Talent(a) \notin raced' PROVE CurrentTalent(task[v], a)'
  BY DEF TalentsCurrent
<1>1. Clean(a)' => Clean(a)
  BY <1>0, CleanKept
<1>2. CASE UNCHANGED task[v]
  <2> DEFINE t == task[v]
             C == CandidatesOf(request[t.r])
  <2>0. CurrentTalent(t, a) /\ Refers(t)
    BY <1>0 DEF AgentInv, TalentsCurrent, Typed, TasksOK
  <2>1. ASSUME Talent(a) \in t.about PROVE availability'[a] = availability[a] /\ hold'[a] = hold[a]
    BY <1>0, <1>2, <2>1, Undisturbed DEF AgentIs
  <2>2. ASSUME t.op = "schedule", a \in t.A PROVE a \in t.free <=> availability'[a] = "AVAILABLE"
    BY <2>0, <2>1, <2>2 DEF CurrentTalent, Refers, RowOps
  <2>3. ASSUME t.op \in RowOps PROVE CandidatesOf(request'[t.r]) = C /\ t.r \in DOMAIN request
    BY <1>0, <2>0, <2>3 DEF Refers, RequestsGrow, RowGrows
  <2>4. ASSUME t.op = "cancel", a \in C PROVE a \in t.busy <=> availability'[a] = "INTERVIEWING"
    BY <2>0, <2>1, <2>4 DEF CurrentTalent, Refers, RowOps
  <2>5. ASSUME t.op = "deciding", a = t.a \/ a \in C \/ a \in t.freed
        PROVE  Talent(a) \in t.about /\ a \in C
    <3>1. t.r \in DOMAIN request /\ <<t.a, t.k>> \in InterviewsOf(request[t.r])
      BY <2>0, <2>5 DEF Refers, RowOps, InterviewOps
    <3>2. t.a \in C
      BY <1>0, <3>1 DEF Typed, Interviewed
    <3>3. a \in C
      BY <2>0, <2>5, <3>2 DEF Refers
    <3> QED
      BY <2>0, <2>5, <3>3 DEF Refers
  <2>6. ASSUME t.op = "deciding", a = t.a
        PROVE  /\ t.holds => hold'[a] = NoHold
               /\ t.decision = "SELECTED" /\ ~t.holds => hold'[a] # NoHold
    BY <2>0, <2>1, <2>5, <2>6 DEF CurrentTalent
  <2>7. ASSUME t.op = "deciding", a \in t.freed
        PROVE  availability'[a] = "INTERVIEWING" /\ (Clean(a)' => ~BusyElsewhere(a, t.r)')
    <3>1. availability'[a] = "INTERVIEWING"
      BY <2>0, <2>1, <2>5, <2>7 DEF CurrentTalent
    <3>2. ASSUME Clean(a)', BusyElsewhere(a, t.r)' PROVE FALSE
      <4>1. ~BusyElsewhere(a, t.r)
        BY <1>1, <2>0, <2>7, <3>2 DEF CurrentTalent
      <4>2. ScheduledFor(a)' \subseteq ScheduledFor(a)
        BY <1>0, <1>2, <2>5, <2>7, <3>2, Undisturbed
      <4>3. PICK s \in ScheduledFor(a)' : s # t.r
        BY <1>2, <3>2 DEF BusyElsewhere, ScheduledFor
      <4> QED
        BY <4>1, <4>2, <4>3 DEF BusyElsewhere, ScheduledFor
    <3> QED
      BY <3>1, <3>2
  <2>8. ASSUME t.op = "deciding", t.closes, a \in C \ t.freed, Clean(a)', availability'[a] = "INTERVIEWING"
        PROVE  \/ Decided(With(request'[t.r], t), a, "SELECTED")
               \/ OpenOf(a)' \ {t.r} # {}
    <3>1. Decided(With(request[t.r], t), a, "SELECTED") \/ OpenOf(a) \ {t.r} # {}
      BY <1>1, <2>0, <2>1, <2>5, <2>8 DEF CurrentTalent
    <3>2. OpenOf(a) \subseteq OpenOf(a)'
      BY <1>0, <1>2, <2>5, <2>8, Undisturbed
    <3>3. request'[t.r] = request[t.r]
      <4>1. t.op \in RowOps
        BY <2>8 DEF RowOps
      <4>2. t.r \in Mine(a)'
        BY <1>0, <2>3, <2>8, <4>1 DEF Mine, RequestsGrow
      <4>3. Row(t.r) \notin raced'
        BY <2>8, <4>2 DEF Clean
      <4> QED
        BY <1>0, <1>2, <4>1, <4>3, RowKept
    <3> QED
      BY <3>1, <3>2, <3>3
  <2> QED
    BY <1>2, <2>2, <2>3, <2>4, <2>6, <2>7, <2>8 DEF CurrentTalent, RowOps
<1>3. ASSUME UNCHANGED dataVars, CurrentTalent(task'[v], a) PROVE CurrentTalent(task[v], a)'
  <2>1. UNCHANGED <<request, availability, hold>>
    BY <1>3 DEF dataVars, requestVars, agentVars
  <2>2. OpenOf(a)' = OpenOf(a) /\ \A r : BusyElsewhere(a, r)' <=> BusyElsewhere(a, r)
    BY <2>1 DEF OpenOf, Mine, BusyElsewhere
  <2> QED
    BY <1>1, <1>3, <2>1, <2>2 DEF CurrentTalent
<1>4. CASE UNCHANGED dataVars /\ Fresh(task'[v])
  BY <1>3, <1>4 DEF Fresh
<1>5. CASE task'[v] = Idle
  BY <1>5 DEF Idle, CurrentTalent
<1>6. CASE UNCHANGED dataVars /\ Rereads(v)
  <2>1. CASE task[v].op = "decide" /\ task'[v] = Deciding(task[v])
    <3>1. task[v].r \in DOMAIN request
      BY <1>0, <2>1, TaskOf DEF Typed, RowOps
    <3>2. CurrentTalent(Deciding(task[v]), a)
      BY <1>0, <3>1, DecidingTalent
    <3> QED
      BY <1>3, <1>6, <2>1, <3>2
  <2>2. CASE task'[v] = Completing(task[v])
    BY <2>2 DEF Completing, CurrentTalent
  <2> QED
    BY <1>0, <1>5, <1>6, <2>1, <2>2, RereadsAs
<1> QED
  BY <1>0, <1>2, <1>4, <1>5, <1>6, TaskCases

LEMMA HoldStays ==
    ASSUME AgentInv, [Next]_vars, NEW a \in Agent PROVE HeldOK(a)'
<1>0. Typed /\ TypeOK /\ raced \subseteq raced' /\ HeldOK(a)
  BY OneByOneStays DEF AgentInv, AgentsOK, RowInv, Typed
<1> SUFFICES ASSUME Talent(a) \notin raced' PROVE HeldOK(a)'
  BY DEF HeldOK
<1>1. /\ availability[a] = "RESERVED" <=> hold[a] # NoHold
      /\ hold[a] # NoHold => hold[a].before # "RESERVED"
      /\ \A w \in Worker : CurrentTalent(task[w], a)
  BY <1>0 DEF HeldOK, AgentInv, TalentsCurrent
<1>2. CASE AgentIs(a, availability[a], hold[a])
  BY <1>1, <1>2 DEF AgentIs, HeldOK
<1>3. ASSUME hold[a] = NoHold, NEW s \in {"INTERVIEWING", "AVAILABLE"}, AgentIs(a, s, hold[a]) PROVE HeldOK(a)'
  BY <1>3 DEF AgentIs, HeldOK
<1>4. ASSUME NEW w \in Worker, Schedule(w), a \in task[w].free PROVE hold[a] = NoHold
  <2>1. availability[a] = "AVAILABLE"
    BY <1>0, <1>1, <1>4 DEF CurrentTalent, Schedule, Doing, Typed, TasksOK, Refers
  <2> QED
    BY <1>1, <2>1
<1>5. ASSUME NEW w \in Worker, Cancel(w), a \in task[w].busy PROVE hold[a] = NoHold
  <2>1. availability[a] = "INTERVIEWING"
    BY <1>0, <1>1, <1>5 DEF CurrentTalent, Cancel, Doing, Typed, TasksOK, Refers
  <2> QED
    BY <1>1, <2>1
<1>6. ASSUME NEW w \in Worker, Decide(w), a \in task[w].freed PROVE hold[a] = NoHold
  <2>1. availability[a] = "INTERVIEWING"
    BY <1>1, <1>6 DEF CurrentTalent, Decide, Doing
  <2> QED
    BY <1>1, <2>1
<1>7. ASSUME hold[a] = NoHold, NEW c \in Client, AgentIs(a, "RESERVED", [client |-> c, before |-> availability[a]])
      PROVE  HeldOK(a)'
  <2>1. availability[a] # "RESERVED"
    BY <1>1, <1>7
  <2>2. hold'[a].client # NoHold.client /\ hold'[a].before = availability[a]
    BY <1>7, InterviewsAssumption DEF AgentIs, NoHold
  <2>3. hold'[a] # NoHold
    BY <2>2
  <2> QED
    BY <1>7, <2>1, <2>2, <2>3 DEF AgentIs, HeldOK
<1>8. CASE HoldEnds(a)
  <2>1. hold'[a] = NoHold /\ availability'[a] = (IF availability[a] = "RESERVED" THEN hold[a].before ELSE availability[a])
    BY <1>0, <1>8 DEF HoldEnds, TypeOK
  <2>2. hold[a] # NoHold
    BY <1>8 DEF HoldEnds
  <2> QED
    BY <1>1, <2>1, <2>2 DEF HeldOK
<1> QED
  BY <1>0, <1>2, <1>3, <1>4, <1>5, <1>6, <1>7, <1>8, AgentStep DEF AgentSteps

\* Until a hold has given back what was before it, nothing but a request disposes of an agent.
LEMMA FreeStays ==
    ASSUME AgentInv, [Next]_vars, NEW a \in Agent PROVE FreeOK(a)'
<1>0. Typed /\ TypeOK /\ OneByOne /\ RowInv /\ raced \subseteq raced'
  BY OneByOneStays DEF AgentInv, RowInv, Typed
<1> SUFFICES ASSUME Clean(a)', a \notin restored' PROVE FreeOK(a)'
  BY DEF FreeOK
<1>1. /\ Clean(a) /\ Talent(a) \notin raced' /\ Talent(a) \notin raced
      /\ \A r \in Mine(a)' : Row(r) \notin raced' /\ r \in DOMAIN request'
      /\ Mine(a) \subseteq Mine(a)' /\ ScheduledFor(a)' \subseteq Mine(a)' /\ ScheduledFor(a) \subseteq Mine(a)
  BY <1>0, CleanKept
<1>2. ~HoldEnds(a) /\ a \notin restored
  <2>1. ASSUME NEW w \in Worker, Begins(w) \/ Rereads(w) \/ Writes(w) \/ Publishes(w) PROVE UNCHANGED restored
    <3>1. CASE Begins(w) \/ Rereads(w)
      BY <3>1, BeginsQuietly, RereadsQuietly DEF dataVars, agentVars
    <3>2. CASE Writes(w)
      BY <3>2 DEF Writes, Move, Respond, Schedule, Cancel, Complete, AskAgain, Decide, agentVars
    <3>3. CASE Publishes(w)
      BY <3>3 DEF Publishes, Submit, Answer, Invite, Close, agentVars
    <3> QED
      BY <2>1, <3>1, <3>2, <3>3
  <2>2. ASSUME Alone PROVE restored \subseteq restored'
    BY <2>2 DEF Alone, RequestInterviews, HoldEnds, Leave, WithdrawOnExit, agentVars
  <2>3. restored \subseteq restored'
    BY <2>1, <2>2, StepCases DEF vars, agentVars
  <2> QED
    BY <2>3 DEF HoldEnds
<1>3. /\ availability[a] = "AVAILABLE" => ScheduledFor(a) = {}
      /\ availability[a] = "INTERVIEWING" => OpenOf(a) # {}
      /\ \A r \in Mine(a) : Chosen(request[r], a) => hold[a] # NoHold
      /\ availability[a] = "RESERVED" <=> hold[a] # NoHold
      /\ \A w \in Worker : CurrentTalent(task[w], a)
  BY <1>1, <1>2 DEF AgentInv, AgentsOK, FreeOK, HeldOK, TalentsCurrent, Chosen
<1>4. ASSUME NEW w \in Worker, Decide(w), task[w].r \in Mine(a)
      PROVE  /\ Wrote(task[w].r) /\ task[w].op = "deciding"
             /\ request[task[w].r].status = "CLIENT_DECISION_PENDING" /\ ScheduledIn(request[task[w].r]) = {}
  <2>1. Wrote(task[w].r) /\ task[w].op = "deciding"
    BY <1>0, <1>4, DecideEffect DEF Decide, Doing
  <2>2. Consistent(request[task[w].r]) /\ CurrentRow(task[w], request[task[w].r])
    BY <1>0, <1>1, <1>4, <2>1 DEF Clean, RowInv, RowsOK, RowsCurrent, Wrote, RowOps
  <2> QED
    BY <2>1, <2>2 DEF Consistent, CurrentRow
<1>5. ASSUME availability'[a] = "AVAILABLE", NEW r \in ScheduledFor(a)' PROVE FALSE
  <2>1. r \in DOMAIN request' /\ Row(r) \notin raced' /\ AheadIn(request'[r], a)
    BY <1>1, <1>5 DEF ScheduledFor, AheadIn
  <2>2. \/ r \in DOMAIN request /\ AheadIn(request[r], a)
        \/ \E w \in Worker : Schedule(w) /\ r = task[w].r /\ a \in task[w].A
    <3>1. InterviewsOf(request'[r]) # {}
      BY <2>1 DEF AheadIn, ScheduledIn
    <3> QED
      BY <1>0, <2>1, <3>1, RowStep DEF WriterSteps
  <2>3. ASSUME NEW w \in Worker, Cancel(w) PROVE r # task[w].r
    <3> DEFINE q == request[task[w].r]
               p == request'[task[w].r]
    <3>1. Wrote(task[w].r) /\ p = WithoutInterviews(q)
      BY <1>0, <2>3, CancelEffect
    <3>2. q \in RequestRow
      BY <1>0, <3>1, RowsTyped DEF Wrote
    <3> HIDE DEF p, q
    <3>3. ScheduledIn(p) = {}
      BY <3>1, <3>2, CancelledIsConsistent
    <3> QED
      BY <2>1, <3>3 DEF AheadIn, p
  <2>4. ASSUME NEW w \in Worker, Schedule(w), a \in task[w].A PROVE FALSE
    <3>1. availability'[a] = IF a \in task[w].free THEN "INTERVIEWING" ELSE availability[a]
      BY <2>4 DEF Schedule
    <3>2. a \in task[w].free <=> availability[a] = "AVAILABLE"
      BY <1>3, <2>4 DEF CurrentTalent, Schedule, Doing
    <3> QED
      BY <1>5, <3>1, <3>2
  <2>5. r \in ScheduledFor(a) /\ r \in Mine(a) /\ availability[a] # "AVAILABLE"
    BY <1>1, <1>3, <2>2, <2>4 DEF ScheduledFor, AheadIn
  <2>6. ASSUME NEW s, r # s, ~BusyElsewhere(a, s) PROVE FALSE
    BY <2>5, <2>6 DEF BusyElsewhere, ScheduledFor
  <2>7. ASSUME NEW w \in Worker, Decide(w), a \in task[w].freed PROVE FALSE
    <3>1. task[w].r \in Mine(a)
      BY <1>0, <2>7, DecidesOnCandidates, DecideEffect DEF Mine, Wrote
    <3>2. task[w].op = "deciding" /\ ScheduledIn(request[task[w].r]) = {}
      BY <1>4, <2>7, <3>1
    <3>3. r # task[w].r
      BY <2>5, <3>2 DEF ScheduledFor
    <3>4. ~BusyElsewhere(a, task[w].r)
      BY <1>1, <1>3, <2>7, <3>2 DEF CurrentTalent
    <3> QED
      BY <2>6, <3>3, <3>4
  <2> QED
    BY <1>0, <1>2, <1>5, <2>3, <2>5, <2>6, <2>7, AgentStep DEF AgentSteps, AgentIs
<1>6. ASSUME availability'[a] = "INTERVIEWING" PROVE OpenOf(a)' # {}
  <2>1. ASSUME NEW w \in Worker, Schedule(w), a \in task[w].free PROVE OpenOf(a)' # {}
    <3> DEFINE r == task[w].r
               A == task[w].A
               q == request[r]
               p == request'[r]
    <3>1. /\ Wrote(r) /\ p = WithInterviews(q, A)
          /\ A # {} /\ A \subseteq CandidatesOf(q) /\ A \subseteq Agent /\ \A b \in A : Len(q.rounds[b]) < MaxRounds
      BY <1>0, <2>1, ScheduleEffect
    <3>2. a \in A
      BY <1>0, <2>1 DEF Typed, TasksOK, Refers, Schedule, Doing
    <3>3. q \in RequestRow
      BY <1>0, <3>1, RowsTyped DEF Wrote
    <3>4. r \in Mine(a)
      BY <3>1, <3>2 DEF Mine, Wrote
    <3> HIDE DEF r, A, q, p
    <3>5. p.status \in OpenRequestStatus
      BY <3>1, <3>3, ScheduledIsConsistent
    <3> QED
      BY <1>1, <3>4, <3>5 DEF OpenOf, p
  <2>2. CASE availability[a] = "INTERVIEWING"
    <3>1. PICK s : s \in OpenOf(a) /\ s \in Mine(a) /\ s \in DOMAIN request /\ a \in CandidatesOf(request[s])
      BY <1>3, <2>2 DEF OpenOf, Mine
    <3>2. s \in Mine(a)' /\ Row(s) \notin raced' /\ s \in DOMAIN request'
      BY <1>1, <3>1
    <3>3. CASE IsOpen(request'[s])
      BY <3>2, <3>3 DEF OpenOf, IsOpen
    <3>4. CASE ~IsOpen(request'[s])
      <4>1. PICK w \in Worker : Writes(w) /\ s = task[w].r /\ WriterSteps(w, a)
        BY <1>0, <3>1, <3>2, <3>4, RowStep DEF OpenOf, IsOpen
      <4>2. Cancel(w) \/ (Decide(w) /\ task[w].closes)
        BY <3>1, <3>4, <4>1 DEF WriterSteps, OpenOf, IsOpen
      <4>3. ASSUME OpenOf(a) \ {s} # {} PROVE OpenOf(a)' # {}
        <5>1. PICK u : u \in OpenOf(a) /\ u # s /\ u \in Mine(a) /\ u \in DOMAIN request
          BY <4>3 DEF OpenOf, Mine
        <5>2. request'[u] = request[u]
          BY <1>0, <4>1, <5>1, WriterRows DEF Wrote
        <5> QED
          BY <1>1, <5>1, <5>2 DEF OpenOf
      <4>4. CASE Cancel(w)
        <5>1. a \in task[w].busy
          BY <1>3, <2>2, <3>1, <4>1, <4>4 DEF CurrentTalent, Cancel, Doing
        <5>2. availability'[a] = IF a \in task[w].busy /\ ~BusyElsewhere(a, s) THEN "AVAILABLE" ELSE availability[a]
          BY <4>1, <4>4 DEF Cancel, Freed
        <5>3. BusyElsewhere(a, s)
          BY <1>6, <5>1, <5>2
        <5> QED
          BY <1>0, <1>1, <4>3, <5>3, BusyIsOpen
      <4>5. CASE Decide(w) /\ task[w].closes
        <5> DEFINE t == task[w]
        <5>1. t.op = "deciding" /\ CurrentTalent(t, a) /\ hold[a] = NoHold
          BY <1>3, <2>2, <4>5 DEF Decide, Doing
        <5>2. a \notin t.freed /\ ~(t.holds /\ a = t.a)
          <6>1. availability'[a] = IF t.holds /\ a = t.a THEN "RESERVED"
                                   ELSE IF a \in t.freed THEN "AVAILABLE" ELSE availability[a]
            BY <1>0, <4>5, DecidesForAgent
          <6> HIDE DEF t
          <6> QED
            BY <1>6, <6>1
        <5>3. \/ Decided(With(request[s], t), a, "SELECTED")
              \/ OpenOf(a) \ {s} # {}
          BY <1>1, <2>2, <3>1, <4>1, <4>5, <5>1, <5>2 DEF CurrentTalent
        <5>4. ~Decided(With(request[s], t), a, "SELECTED")
          <6>1. request'[s].rounds = With(request[s], t).rounds
            BY <1>0, <4>1, <4>5, DecideEffect
          <6>2. Decided(With(request[s], t), a, "SELECTED") => Chosen(request'[s], a)
            BY <6>1 DEF Decided, Chosen, InterviewsOf, The
          <6>3. ~Chosen(request[s], a)
            BY <1>3, <3>1, <5>1
          <6>4. a = t.a /\ t.decision = "SELECTED" => FALSE
            BY <5>1, <5>2 DEF CurrentTalent
          <6> QED
            BY <4>1, <6>2, <6>3, <6>4 DEF WriterSteps
        <5> QED
          BY <4>3, <5>3, <5>4
      <4> QED
        BY <4>2, <4>4, <4>5
    <3> QED
      BY <3>3, <3>4
  <2> QED
    BY <1>0, <1>2, <1>6, <2>1, <2>2, AgentStep DEF AgentSteps, AgentIs
<1>7. ASSUME NEW r \in Mine(a)', Chosen(request'[r], a) PROVE hold'[a] # NoHold
  <2>1. ASSUME NEW w \in Worker, Decide(w), a = task[w].a, task[w].holds PROVE hold'[a] # NoHold
    BY <1>0, <2>1, DecidesForAgent
  <2>2. hold[a] # NoHold => hold'[a] # NoHold
    BY <1>0, <1>2, AgentStep DEF AgentSteps, AgentIs
  <2>3. r \in DOMAIN request' /\ Row(r) \notin raced' /\ InterviewsOf(request'[r]) # {}
    BY <1>1, <1>7 DEF Chosen, Decided
  <2>4. ASSUME r \in DOMAIN request, Chosen(request[r], a) PROVE hold[a] # NoHold
    <3>1. r \in Mine(a)
      BY <1>0, <1>7, <2>4, RequestSide DEF Mine, RequestsGrow, RowGrows
    <3> QED
      BY <1>3, <2>4, <3>1
  <2>5. ASSUME NEW w \in Worker, Decide(w), a = task[w].a, task[w].decision = "SELECTED" PROVE hold'[a] # NoHold
    <3>1. task[w].holds \/ hold[a] # NoHold
      BY <1>3, <2>5 DEF CurrentTalent, Decide, Doing
    <3> QED
      BY <2>1, <2>2, <2>5, <3>1
  <2> QED
    BY <1>0, <1>7, <2>2, <2>3, <2>4, <2>5, RowStep DEF WriterSteps
<1> QED
  BY <1>5, <1>6, <1>7 DEF FreeOK, Chosen

LEMMA InitAgentInv == ASSUME Init PROVE AgentInv
<1>1. RowInv /\ \A w \in Worker : task[w] = Idle
  BY InitRowInv DEF Init, Idle
<1>2. DOMAIN request = {}
  BY DEF Init
<1>3. \A a \in Agent : availability[a] \notin {"INTERVIEWING", "RESERVED"} /\ hold[a] = NoHold
  BY InterviewsAssumption DEF Init
<1>4. AgentsOK
  BY <1>2, <1>3 DEF AgentsOK, HeldOK, FreeOK, Mine, ScheduledFor
<1>5. TalentsCurrent
  BY <1>1 DEF TalentsCurrent, CurrentTalent, Idle
<1> QED
  BY <1>1, <1>4, <1>5 DEF AgentInv

LEMMA StepAgentInv == ASSUME AgentInv, [Next]_vars PROVE AgentInv'
BY StepRowInv, HoldStays, FreeStays, TalentsStayCurrent DEF AgentInv, AgentsOK

\* setAvailability in scheduleInterviews, cancelRequest and recordClientDecision keeps the
\* agents as free as their interviews in all their requests, and RESERVED while held.
THEOREM AvailabilityFollows == Spec => []AvailabilityFollowsInterviews
<1>1. Init => AgentInv
  BY InitAgentInv
<1>2. AgentInv /\ [Next]_vars => AgentInv'
  BY StepAgentInv
<1>3. ASSUME AgentInv PROVE AvailabilityFollowsInterviews
  <2> SUFFICES ASSUME NEW a \in Agent, Clean(a)
               PROVE  /\ availability[a] = "RESERVED" <=> hold[a] # NoHold
                      /\ a \notin restored =>
                          /\ availability[a] = "AVAILABLE" => \A r \in Mine(a) : \A i \in ScheduledIn(request[r]) : i[1] # a
                          /\ availability[a] = "INTERVIEWING" => \E r \in Mine(a) : request[r].status \in OpenRequestStatus
    BY DEF AvailabilityFollowsInterviews, Clean, Mine
  <2>1. HeldOK(a) /\ FreeOK(a)
    BY <1>3 DEF AgentInv, AgentsOK
  <2> QED
    BY <2>1 DEF HeldOK, FreeOK, Clean, ScheduledFor, OpenOf, Mine
<1> QED
  BY <1>1, <1>2, <1>3, PTL DEF Spec
===============================================================================
