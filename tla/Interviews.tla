------------------------------ MODULE Interviews ------------------------------
(***************************************************************************)
(* Interview requests of clients, the interviews in them, the availability *)
(* of the agents, and the submissions to an opportunity that end in a      *)
(* request: interview.service.ts, opportunity.service.ts and               *)
(* state/interview-request.ts.                                             *)
(*                                                                         *)
(* There is one opportunity, as every query about submissions is per       *)
(* opportunity.  A person's hold is kept as far as a selection makes it    *)
(* and its end gives back what was before; Reservation has the rest.       *)
(*                                                                         *)
(* A request of the program loads what it decides on and then commits its  *)
(* writes: two steps.  An outcome and a decision have a step between them, *)
(* in which their transaction has written its own row and reads the        *)
(* others, without seeing what is not committed.                           *)
(***************************************************************************)
EXTENDS Naturals, Sequences, FiniteSets

CONSTANTS
    Client,
    Owner,              \* the client whose requirement the opportunity publishes
    Agent,
    Free,               \* availabilities in which an agent may be submitted
    SubmissionLimit,    \* the setting maxSubmissionsPerAgency
    MaxRequests,        \* bound: InterviewRequest rows
    MaxRounds,          \* bound: interviews of a candidate in a request
    MaxSubmissions,     \* bound: Submission rows
    Worker              \* requests of the program in flight at once

NoClient == "nobody"

ASSUME InterviewsAssumption ==
    /\ Owner \in Client /\ NoClient \notin Client
    /\ "AVAILABLE" \in Free /\ {"INTERVIEWING", "RESERVED"} \cap Free = {}
    /\ {SubmissionLimit, MaxRequests, MaxRounds, MaxSubmissions} \subseteq Nat

VARIABLES
    request,        \* InterviewRequest rows with their candidates and interviews
    opportunity,    \* Opportunity.status
    submission,     \* Submission rows
    availability,   \* AgentProfile.availabilityStatus
    hold,           \* who holds each agent, and the availability before the hold
    standing,       \* each agent is direct talent, a member of the agency, or left it
    placed,         \* pairs of client and agent with a placement
    task,           \* what each request in flight has read
    raced,          \* history: what two requests in flight at once were about
    restored        \* history: agents whose hold has ended

requestVars == <<request, placed>>
submissionVars == <<opportunity, submission>>
agentVars == <<availability, hold, restored>>
vars == <<requestVars, submissionVars, agentVars, standing, task, raced>>

RequestStatus ==
    {"REQUESTED", "SALES_REVIEW", "CLIENT_CONFIRMATION", "CANDIDATE_CONFIRMATION", "SCHEDULED",
     "COMPLETED", "CLIENT_DECISION_PENDING", "CLOSED", "CANCELLED"}
OpenRequestStatus == RequestStatus \ {"CLOSED", "CANCELLED"}
CandidateStatus == {"NONE", "PENDING", "CONFIRMED", "DECLINED"}
\* NO_SHOW stands for NO_SHOW_CLIENT and NO_SHOW_AGENT.
Outcome == {"COMPLETED", "NO_SHOW", "CANCELLED"}
Decision == {"INTERESTED", "SECOND_INTERVIEW", "SELECTED", "NOT_SELECTED"}
Final == {"SELECTED", "NOT_SELECTED"}
Interview == [status: Outcome \cup {"SCHEDULED"}, decision: Decision \cup {"NONE"}]
SubmissionStatus ==
    {"PENDING_REVIEW", "APPROVED_FOR_CLIENT", "DECLINED", "WITHDRAWN", "INTERVIEWING"} \cup Final
OpenSubmission == {"PENDING_REVIEW", "APPROVED_FOR_CLIENT", "INTERVIEWING"}
Availability == Free \cup {"INTERVIEWING", "RESERVED"}

NoRequest == 0
NoHold == [client |-> NoClient, before |-> "AVAILABLE"]

\* The interviews of q are named by candidate and number, in the order they were made.
InterviewsOf(q) == {i \in Agent \X (1..MaxRounds) : i[2] <= Len(q.rounds[i[1]])}
The(q, i) == q.rounds[i[1]][i[2]]
CandidatesOf(q) == {a \in Agent : q.candidate[a] # "NONE"}
ScheduledIn(q) == {i \in InterviewsOf(q) : The(q, i).status = "SCHEDULED"}
AllDecided(q) ==
    \A i \in InterviewsOf(q) :
        The(q, i).status = "COMPLETED" => The(q, i).decision \in Final \cup {"INTERESTED"}
Decided(q, a, d) == \E i \in InterviewsOf(q) : i[1] = a /\ The(q, i).decision = d

\* otherScheduledForAgent
\* Mutant of BusyElsewhere: nobody asks.
BusyNowhere(a, r) == FALSE
BusyElsewhere(a, r) ==
    \E s \in DOMAIN request \ {r} : \E i \in ScheduledIn(request[s]) : i[1] = a

TypeOK ==
    /\ request \in Seq([client: Client, status: RequestStatus,
                        candidate: [Agent -> CandidateStatus], rounds: [Agent -> Seq(Interview)]])
    /\ opportunity \in {"OPEN", "INTERVIEWING", "FILLED", "CLOSED"}
    /\ submission \in Seq([agent: Agent, agency: BOOLEAN, status: SubmissionStatus, request: Nat])
    /\ availability \in [Agent -> Availability]
    /\ hold \in [Agent -> [client: Client \cup {NoClient}, before: Availability]]
    /\ standing \in [Agent -> {"DIRECT", "MEMBER", "LEFT", "GONE"}]
    /\ placed \subseteq Client \X Agent

\* An agent is direct talent or a member of an agency from the start.
Init ==
    /\ request = <<>>
    /\ opportunity = "OPEN"
    /\ submission = <<>>
    /\ availability \in [Agent -> Free]
    /\ hold = [a \in Agent |-> NoHold]
    /\ standing \in [Agent -> {"DIRECT", "MEMBER"}]
    /\ placed = {}
    /\ task = [w \in Worker |-> [op |-> "idle", about |-> {}]]
    /\ raced = {}
    /\ restored = {}

-------------------------------------------------------------------------------
(***************************************************************************)
(* Requests in flight                                                      *)
(***************************************************************************)
Idle == [op |-> "idle", about |-> {}]
Doing(w, op) == task[w].op = op
InFlight == UNION {task[v].about : v \in Worker}
Begin(w, t) ==
    /\ task[w] = Idle
    /\ task' = [task EXCEPT ![w] = t]
    /\ raced' = raced \cup (t.about \cap InFlight)
Proceed(w, t) == task' = [task EXCEPT ![w] = t] /\ UNCHANGED raced
Done(w) == Proceed(w, Idle)

Row(r) == <<"request", r>>
Talent(a) == <<"agent", a>>
Entry(s) == <<"submission", s>>
Opening == <<"opportunity">>

\* Interviews whose row an open transaction has written: others wait for it.
Written(r) == {<<task[v].a, task[v].k>> : v \in {u \in Worker : task[u].op \in {"completing", "deciding"}
                                                              /\ task[u].r = r}}

-------------------------------------------------------------------------------
(***************************************************************************)
(* Requests up to the interviews                                           *)
(***************************************************************************)
NewRequest(c, A) ==
    [client |-> c, status |-> "REQUESTED",
     candidate |-> [a \in Agent |-> IF a \in A THEN "PENDING" ELSE "NONE"],
     rounds |-> [a \in Agent |-> <<>>]]

\* createInterviewRequest, for candidates on the client's shortlist.
RequestInterviews(c, A) ==
    /\ Len(request) < MaxRequests
    /\ A # {}
    /\ request' = Append(request, NewRequest(c, A))
    /\ UNCHANGED <<placed, submissionVars, agentVars, standing, task, raced>>

\* startSalesReview, proposeSlots and clientConfirmSlots
Handover ==
    [s \in {"REQUESTED", "SALES_REVIEW", "CLIENT_CONFIRMATION"} |->
        CASE s = "REQUESTED" -> "SALES_REVIEW"
          [] s = "SALES_REVIEW" -> "CLIENT_CONFIRMATION"
          [] OTHER -> "CANDIDATE_CONFIRMATION"]
BeginMove(w, r) ==
    /\ request[r].status \in DOMAIN Handover
    /\ Begin(w, [op |-> "move", r |-> r, to |-> Handover[request[r].status], about |-> {Row(r)}])
    /\ UNCHANGED <<requestVars, submissionVars, agentVars, standing>>
Move(w) ==
    /\ Doing(w, "move")
    /\ request' = [request EXCEPT ![task[w].r].status = task[w].to]
    /\ Done(w)
    /\ UNCHANGED <<placed, submissionVars, agentVars, standing>>

\* setSalesNotes writes the status it has loaded with the notes.
BeginNotes(w, r) ==
    /\ Begin(w, [op |-> "move", r |-> r, to |-> request[r].status, about |-> {Row(r)}])
    /\ UNCHANGED <<requestVars, submissionVars, agentVars, standing>>

\* candidateRespond
BeginRespond(w, r, a, answer) ==
    /\ a \in CandidatesOf(request[r])
    /\ request[r].status \in DOMAIN Handover \cup {"CANDIDATE_CONFIRMATION"}
    /\ Begin(w, [op |-> "respond", r |-> r, a |-> a, answer |-> answer, about |-> {Row(r)}])
    /\ UNCHANGED <<requestVars, submissionVars, agentVars, standing>>
Respond(w) ==
    /\ Doing(w, "respond")
    /\ request' = [request EXCEPT ![task[w].r].candidate[task[w].a] = task[w].answer]
    /\ Done(w)
    /\ UNCHANGED <<placed, submissionVars, agentVars, standing>>

\* scheduleInterviews: staff choose among the candidates who have not declined.
AtLeisure(A) == {a \in A : availability[a] = "AVAILABLE"}
BeginSchedule(w, r, A) ==
    /\ request[r].status = "CANDIDATE_CONFIRMATION"
    /\ A # {} /\ \A a \in A : request[r].candidate[a] \in {"PENDING", "CONFIRMED"}
    /\ Begin(w, [op |-> "schedule", r |-> r, A |-> A, free |-> AtLeisure(A),
                 about |-> {Row(r)} \cup {Talent(a) : a \in A}])
    /\ UNCHANGED <<requestVars, submissionVars, agentVars, standing>>
WithInterviews(q, A) ==
    [q EXCEPT !.status = "SCHEDULED",
              !.rounds = [a \in Agent |->
                  IF a \in A THEN Append(@[a], [status |-> "SCHEDULED", decision |-> "NONE"])
                  ELSE @[a]]]
Schedule(w) ==
    /\ Doing(w, "schedule")
    /\ \A a \in task[w].A : Len(request[task[w].r].rounds[a]) < MaxRounds
    /\ request' = [request EXCEPT ![task[w].r] = WithInterviews(@, task[w].A)]
    /\ availability' = [a \in Agent |-> IF a \in task[w].free THEN "INTERVIEWING" ELSE availability[a]]
    /\ Done(w)
    /\ UNCHANGED <<placed, submissionVars, hold, restored, standing>>

\* cancelRequest decides on the availability it has loaded, but counts the other
\* interviews again.
Cancellable == DOMAIN Handover \cup {"CANDIDATE_CONFIRMATION", "SCHEDULED"}
WithoutInterviews(q) ==
    [q EXCEPT !.status = "CANCELLED",
              !.rounds = [a \in Agent |-> [k \in DOMAIN @[a] |->
                  IF @[a][k].status = "SCHEDULED" THEN [@[a][k] EXCEPT !.status = "CANCELLED"]
                  ELSE @[a][k]]]]
Interviewing(A) == {a \in A : availability[a] = "INTERVIEWING"}
Freed(A) == [a \in Agent |-> IF a \in A THEN "AVAILABLE" ELSE availability[a]]
BeginCancel(w, r) ==
    /\ request[r].status \in Cancellable
    /\ Begin(w, [op |-> "cancel", r |-> r, busy |-> Interviewing(CandidatesOf(request[r])),
                 about |-> {Row(r)} \cup {Talent(a) : a \in CandidatesOf(request[r])}])
    /\ UNCHANGED <<requestVars, submissionVars, agentVars, standing>>
Cancel(w) ==
    /\ Doing(w, "cancel")
    /\ LET r == task[w].r
       IN  /\ Written(r) \cap ScheduledIn(request[r]) = {}
           /\ request' = [request EXCEPT ![r] = WithoutInterviews(@)]
           /\ availability' = Freed({a \in task[w].busy : ~BusyElsewhere(a, r)})
    /\ Done(w)
    /\ UNCHANGED <<placed, submissionVars, hold, restored, standing>>

-------------------------------------------------------------------------------
(***************************************************************************)
(* Outcomes and decisions                                                  *)
(***************************************************************************)

\* completeInterview: the last outcome asks the client to decide.
BeginComplete(w, r, a, k, outcome) ==
    /\ <<a, k>> \in ScheduledIn(request[r])
    /\ Begin(w, [op |-> "complete", r |-> r, a |-> a, k |-> k, outcome |-> outcome, about |-> {Row(r)}])
    /\ UNCHANGED <<requestVars, submissionVars, agentVars, standing>>
\* Mutant of NoneAhead: interviews of other candidates are not counted.
NoneOfTheirs(q, i) == \A j \in ScheduledIn(q) : j[1] = i[1] => j = i
NoneAhead(q, i) == ScheduledIn(q) \subseteq {i}
WriteOutcome(w) ==
    /\ Doing(w, "complete")
    /\ LET t == task[w]
           q == request[t.r]
       IN  /\ <<t.a, t.k>> \notin Written(t.r)
           /\ Proceed(w, [op |-> "completing", r |-> t.r, a |-> t.a, k |-> t.k, outcome |-> t.outcome,
                          last |-> NoneAhead(q, <<t.a, t.k>>) /\ q.status = "SCHEDULED",
                          about |-> t.about])
    /\ UNCHANGED <<requestVars, submissionVars, agentVars, standing>>
Complete(w) ==
    /\ Doing(w, "completing")
    /\ LET t == task[w]
       IN  request' = [request EXCEPT
               ![t.r].rounds[t.a][t.k].status = t.outcome,
               ![t.r].status = IF t.last THEN "CLIENT_DECISION_PENDING" ELSE @]
    /\ Done(w)
    /\ UNCHANGED <<placed, submissionVars, agentVars, standing>>

\* recordClientDecision.  syncSubmissionOutcomeTx finds the submissions of the request.
\* Mutant of Synced: the status the submission had before the request.
SyncedBefore(r, a) ==
    {s \in DOMAIN submission :
        submission[s].request = r /\ submission[s].agent = a
        /\ submission[s].status = "APPROVED_FOR_CLIENT"}
Synced(r, a) ==
    {s \in DOMAIN submission :
        /\ submission[s].request = r /\ submission[s].agent = a
        /\ submission[s].status \in {"INTERVIEWING", "APPROVED_FOR_CLIENT"}}
BeginDecide(w, r, a, k, d) ==
    /\ request[r].status = "CLIENT_DECISION_PENDING"
    /\ <<a, k>> \in InterviewsOf(request[r])
    /\ request[r].rounds[a][k].status = "COMPLETED"
    /\ request[r].rounds[a][k].decision \notin Final
    /\ Begin(w, [op |-> "decide", r |-> r, a |-> a, k |-> k, decision |-> d,
                 about |-> {Row(r)} \cup {Talent(b) : b \in CandidatesOf(request[r])}
                           \cup {Entry(s) : s \in Synced(r, a)}])
    /\ UNCHANGED <<requestVars, submissionVars, agentVars, standing>>

\* A second interview opens the scheduling again, on the status that was loaded.
AskAgain(w) ==
    /\ Doing(w, "decide") /\ task[w].decision = "SECOND_INTERVIEW"
    /\ LET t == task[w]
       IN  /\ <<t.a, t.k>> \notin Written(t.r)
           /\ request' = [request EXCEPT ![t.r].rounds[t.a][t.k].decision = t.decision,
                                         ![t.r].candidate[t.a] = "PENDING",
                                         ![t.r].status = "CLIENT_CONFIRMATION"]
    /\ Done(w)
    /\ UNCHANGED <<placed, submissionVars, agentVars, standing>>

\* A selection holds the agent, unless the client holds them already.
MayHold(c, a) == hold[a].client \in {NoClient, c}
\* Who goes back to AVAILABLE when q closes.
Released(q, r) ==
    {b \in Interviewing(CandidatesOf(q)) : ~Decided(q, b, "SELECTED") /\ ~BusyElsewhere(b, r)}
WriteDecision(w) ==
    /\ Doing(w, "decide") /\ task[w].decision # "SECOND_INTERVIEW"
    /\ LET t == task[w]
           q == [request[t.r] EXCEPT !.rounds[t.a][t.k].decision = t.decision]
           closes == AllDecided(q) /\ q.status = "CLIENT_DECISION_PENDING"
           selected == t.decision = "SELECTED"
       IN  /\ <<t.a, t.k>> \notin Written(t.r)
           /\ selected => MayHold(q.client, t.a)
           /\ Proceed(w, [op |-> "deciding", r |-> t.r, a |-> t.a, k |-> t.k, decision |-> t.decision,
                          holds |-> selected /\ hold[t.a] = NoHold,
                          synced |-> IF t.decision \in Final THEN Synced(t.r, t.a) ELSE {},
                          closes |-> closes, freed |-> IF closes THEN Released(q, t.r) ELSE {},
                          about |-> t.about])
    /\ UNCHANGED <<requestVars, submissionVars, agentVars, standing>>
\* The partial unique index of holds refuses a second one.
Decide(w) ==
    /\ Doing(w, "deciding")
    /\ LET t == task[w]
       IN  /\ t.holds => hold[t.a] = NoHold
           /\ request' = [request EXCEPT
                  ![t.r].rounds[t.a][t.k].decision = t.decision,
                  ![t.r].status = IF t.closes THEN "CLOSED" ELSE @]
           /\ placed' = IF t.decision = "SELECTED" THEN placed \cup {<<request[t.r].client, t.a>>}
                        ELSE placed
           /\ hold' = IF t.holds THEN [hold EXCEPT ![t.a] = [client |-> request[t.r].client,
                                                             before |-> availability[t.a]]]
                      ELSE hold
           /\ availability' = [Freed(t.freed) EXCEPT ![t.a] = IF t.holds THEN "RESERVED" ELSE @]
           /\ submission' = [s \in DOMAIN submission |->
                  IF s \in t.synced THEN [submission[s] EXCEPT !.status = t.decision]
                  ELSE submission[s]]
    /\ Done(w)
    /\ UNCHANGED <<opportunity, restored, standing>>

\* releaseReservation and expireReservations
HoldEnds(a) ==
    /\ hold[a] # NoHold
    /\ hold' = [hold EXCEPT ![a] = NoHold]
    /\ availability' = [availability EXCEPT ![a] = IF @ = "RESERVED" THEN hold[a].before ELSE @]
    /\ restored' = restored \cup {a}
    /\ raced' = raced \cup ({Talent(a)} \cap InFlight)
    /\ UNCHANGED <<requestVars, submissionVars, standing, task>>

-------------------------------------------------------------------------------
(***************************************************************************)
(* The opportunity and its submissions                                     *)
(***************************************************************************)
OpenFor(a) == {s \in DOMAIN submission : submission[s].agent = a /\ submission[s].status \in OpenSubmission}
OfAgency == {s \in DOMAIN submission : submission[s].agency /\ submission[s].status \in OpenSubmission}

\* submitAgent: an agency submits a member, direct talent themselves.
\* Mutant of MaySubmit: an agent who is interviewed may be submitted again.
MaySubmitAgain(a) == \A s \in OpenFor(a) : submission[s].status = "INTERVIEWING"
MaySubmit(a) == OpenFor(a) = {}
BeginSubmit(w, a) ==
    /\ opportunity \in {"OPEN", "INTERVIEWING"}
    /\ standing[a] \in {"DIRECT", "MEMBER"}
    /\ availability[a] \in Free
    /\ MaySubmit(a)
    /\ standing[a] = "MEMBER" => Cardinality(OfAgency) < SubmissionLimit
    /\ Begin(w, [op |-> "submit", a |-> a, agency |-> standing[a] = "MEMBER",
                 about |-> {Talent(a), Opening}])
    /\ UNCHANGED <<requestVars, submissionVars, agentVars, standing>>
Submit(w) ==
    /\ Doing(w, "submit")
    /\ Len(submission) < MaxSubmissions
    /\ submission' = Append(submission, [agent |-> task[w].a, agency |-> task[w].agency,
                                         status |-> "PENDING_REVIEW", request |-> NoRequest])
    /\ Done(w)
    /\ UNCHANGED <<requestVars, opportunity, agentVars, standing>>

\* reviewSubmission and withdrawSubmission
BeginReview(w, s, to) ==
    /\ submission[s].status = "PENDING_REVIEW"
    /\ to \in {"APPROVED_FOR_CLIENT", "DECLINED"}
    /\ Begin(w, [op |-> "answer", s |-> s, to |-> to, about |-> {Entry(s)}])
    /\ UNCHANGED <<requestVars, submissionVars, agentVars, standing>>
BeginWithdraw(w, s) ==
    /\ submission[s].status \in {"PENDING_REVIEW", "APPROVED_FOR_CLIENT"}
    /\ Begin(w, [op |-> "answer", s |-> s, to |-> "WITHDRAWN", about |-> {Entry(s)}])
    /\ UNCHANGED <<requestVars, submissionVars, agentVars, standing>>
Answer(w) ==
    /\ Doing(w, "answer")
    /\ submission' = [submission EXCEPT ![task[w].s].status = task[w].to]
    /\ Done(w)
    /\ UNCHANGED <<requestVars, opportunity, agentVars, standing>>

\* requestInterviewsFromOpportunity: the client takes every approved submission of the
\* agents A into a request of their own; a candidate is named once (unique index).
Approved(A) ==
    {s \in DOMAIN submission : submission[s].agent \in A /\ submission[s].status = "APPROVED_FOR_CLIENT"}
BeginInvite(w, A) ==
    /\ Approved(A) # {}
    /\ \A s, u \in Approved(A) : submission[s].agent = submission[u].agent => s = u
    /\ Begin(w, [op |-> "invite", S |-> Approved(A), was |-> opportunity,
                 about |-> {Opening} \cup {Entry(s) : s \in Approved(A)}])
    /\ UNCHANGED <<requestVars, submissionVars, agentVars, standing>>
Invite(w) ==
    /\ Doing(w, "invite")
    /\ Len(request) < MaxRequests
    /\ LET S == task[w].S
       IN  /\ request' = Append(request, NewRequest(Owner, {submission[s].agent : s \in S}))
           /\ submission' = [s \in DOMAIN submission |->
                  IF s \in S
                  THEN [submission[s] EXCEPT !.status = "INTERVIEWING", !.request = Len(request) + 1]
                  ELSE submission[s]]
    /\ opportunity' = IF task[w].was = "OPEN" THEN "INTERVIEWING" ELSE opportunity
    /\ Done(w)
    /\ UNCHANGED <<placed, agentVars, standing>>

\* closeOpportunity withdraws what has not reached an interview.
Waiting ==
    {s \in DOMAIN submission : submission[s].status \in {"PENDING_REVIEW", "APPROVED_FOR_CLIENT"}}
Withdrawn(S) ==
    [s \in DOMAIN submission |->
        IF s \in S THEN [submission[s] EXCEPT !.status = "WITHDRAWN"] ELSE submission[s]]
BeginClose(w, to) ==
    /\ opportunity \notin {"FILLED", "CLOSED"}
    /\ Begin(w, [op |-> "close", to |-> to, S |-> Waiting,
                 about |-> {Opening} \cup {Entry(s) : s \in Waiting}])
    /\ UNCHANGED <<requestVars, submissionVars, agentVars, standing>>
Close(w) ==
    /\ Doing(w, "close")
    /\ opportunity' = task[w].to
    /\ submission' = Withdrawn(task[w].S)
    /\ Done(w)
    /\ UNCHANGED <<requestVars, agentVars, standing>>

\* A membership ends (exit.service.ts), and the handler of the event that says so
\* withdraws what the agency submitted.
Leave(a) ==
    /\ standing[a] = "MEMBER"
    /\ standing' = [standing EXCEPT ![a] = "LEFT"]
    /\ raced' = raced \cup ({Talent(a)} \cap InFlight)
    /\ UNCHANGED <<requestVars, submissionVars, agentVars, task>>
WithdrawOnExit(a) ==
    /\ standing[a] = "LEFT"
    /\ standing' = [standing EXCEPT ![a] = "GONE"]
    /\ LET S == OfAgency \cap OpenFor(a)
       IN  /\ submission' = Withdrawn(S)
           /\ raced' = raced \cup (({Talent(a)} \cup {Entry(s) : s \in S}) \cap InFlight)
    /\ UNCHANGED <<requestVars, opportunity, agentVars, task>>

\* A request fails or its process dies before it commits.
GiveUp(w) ==
    /\ task[w] # Idle
    /\ Done(w)
    /\ UNCHANGED <<requestVars, submissionVars, agentVars, standing>>

-------------------------------------------------------------------------------
Next ==
    \/ \E c \in Client, A \in SUBSET Agent : RequestInterviews(c, A)
    \/ \E a \in Agent : HoldEnds(a) \/ Leave(a) \/ WithdrawOnExit(a)
    \/ \E w \in Worker :
        \/ \E r \in DOMAIN request :
            \/ BeginMove(w, r) \/ BeginNotes(w, r) \/ BeginCancel(w, r)
            \/ \E A \in SUBSET Agent : BeginSchedule(w, r, A)
            \/ \E a \in Agent, answer \in {"CONFIRMED", "DECLINED"} : BeginRespond(w, r, a, answer)
            \/ \E a \in Agent, k \in 1..MaxRounds :
                \/ \E outcome \in Outcome : BeginComplete(w, r, a, k, outcome)
                \/ \E d \in Decision : BeginDecide(w, r, a, k, d)
        \/ Move(w) \/ Respond(w) \/ Schedule(w) \/ Cancel(w)
        \/ WriteOutcome(w) \/ Complete(w) \/ AskAgain(w) \/ WriteDecision(w) \/ Decide(w)
        \/ \E a \in Agent : BeginSubmit(w, a)
        \/ \E s \in DOMAIN submission :
            \/ \E to \in SubmissionStatus : BeginReview(w, s, to)
            \/ BeginWithdraw(w, s)
        \/ \E A \in SUBSET Agent : BeginInvite(w, A)
        \/ \E to \in {"FILLED", "CLOSED"} : BeginClose(w, to)
        \/ Submit(w) \/ Answer(w) \/ Invite(w) \/ Close(w)
        \/ GiveUp(w)

Spec == Init /\ [][Next]_vars

-------------------------------------------------------------------------------
(***************************************************************************)
(* Properties                                                              *)
(***************************************************************************)

\* A request's status says what its interviews say: it is SCHEDULED as long as one of
\* them lies ahead, closed only with every decision made, and a client who is asked to
\* decide on interviews that took place has a decision left that closes or reopens it.
\* (completeInterview, recordClientDecision; while requests about it follow one another:
\* two outcomes, or two decisions, at once each miss the other.)
StatusFollowsInterviews ==
    \A r \in DOMAIN request : LET q == request[r] IN Row(r) \notin raced =>
        /\ q.status = "SCHEDULED" <=> ScheduledIn(q) # {}
        /\ q.status \in {"REQUESTED", "SALES_REVIEW"} => InterviewsOf(q) = {}
        /\ q.status = "CLOSED" => AllDecided(q)
        /\ q.status = "CLIENT_DECISION_PENDING" /\ AllDecided(q)
            => \A i \in InterviewsOf(q) : The(q, i).status # "COMPLETED"

\* Agents are as free as their interviews, over all their requests: whoever has one
\* ahead is not AVAILABLE, whoever is INTERVIEWING has a request that is open, and
\* RESERVED are those who are held.  (setAvailability in scheduleInterviews, cancelRequest,
\* recordClientDecision; the first two until a hold has given back what was before it.)
AvailabilityFollowsInterviews ==
    \A a \in Agent :
        LET mine == {r \in DOMAIN request : a \in CandidatesOf(request[r])}
        IN  Talent(a) \notin raced /\ (\A r \in mine : Row(r) \notin raced) =>
                /\ availability[a] = "RESERVED" <=> hold[a] # NoHold
                /\ a \notin restored =>
                    /\ availability[a] = "AVAILABLE" =>
                        \A r \in mine : \A i \in ScheduledIn(request[r]) : i[1] # a
                    /\ availability[a] = "INTERVIEWING" =>
                        \E r \in mine : request[r].status \in OpenRequestStatus

\* A submission in an interview request waits for a final decision on its agent there,
\* and then says what was decided, with a placement if the agent was selected.
\* (syncSubmissionOutcomeTx; while requests about either row follow one another.)
SubmissionsFollowDecisions ==
    \A s \in DOMAIN submission : LET e == submission[s] IN
        Entry(s) \notin raced /\ e.request # NoRequest /\ Row(e.request) \notin raced =>
            LET q == request[e.request]
            IN  /\ e.status = "INTERVIEWING" => \A d \in Final : ~Decided(q, e.agent, d)
                /\ e.status \in Final => Decided(q, e.agent, e.status)
                /\ e.status = "SELECTED" => <<q.client, e.agent>> \in placed

\* Nobody has two open submissions, nothing waits for an opportunity that is closed, and
\* no submission of the agency stays open for somebody who has left it.  (submitAgent,
\* closeOpportunity, withdrawSubmissionsOnExit; while requests about the opportunity, the
\* agent and the submission follow one another.)
OpenSubmissionsAreWanted ==
    Opening \notin raced =>
        /\ \A a \in Agent : \A s, u \in OpenFor(a) : s = u \/ {Entry(s), Entry(u)} \cap raced # {}
        /\ \A s \in DOMAIN submission : Entry(s) \notin raced =>
            /\ submission[s].status \in {"PENDING_REVIEW", "APPROVED_FOR_CLIENT"} =>
                opportunity \notin {"FILLED", "CLOSED"}
            /\ s \in OfAgency => standing[submission[s].agent] # "GONE"
                                \/ Talent(submission[s].agent) \in raced
===============================================================================
