------------------------------- MODULE Membership -------------------------------
(***************************************************************************)
(* The memberships of people in agencies, their requests to leave or to be *)
(* removed, and the seats they hold: exit.service.ts and the parts of      *)
(* seat.service.ts that activate and end a membership.  Seats adds the     *)
(* agencies' capacity, the joins and the override by staff.                *)
(*                                                                         *)
(* A request loads what it decides on and then commits its writes: two     *)
(* steps.  A table's rows are a sequence; what a transaction reads again   *)
(* after it has begun to write is read with its commit.                    *)
(***************************************************************************)
EXTENDS Naturals, Sequences, FiniteSets

CONSTANTS
    Person,         \* people, one platform identity each
    Agency,
    ReleaseRules,   \* values the setting seatReleaseRule takes
    MaxMembers,     \* bound: AgencyMembership rows
    MaxExits,       \* bound: ExitRequest rows
    Worker          \* requests in flight at once

NoAgency == "none"

ASSUME MembershipAssumption ==
    /\ NoAgency \notin Agency
    /\ ReleaseRules \subseteq {"IMMEDIATE", "AFTER_BILLING_PERIOD", "AFTER_ASSIGNMENT_ENDS"}
    /\ MaxMembers \in Nat /\ MaxExits \in Nat

VARIABLES
    membership,     \* AgencyMembership rows with the seat ledger's entries about them
    exit,           \* ExitRequest rows
    profile,        \* the AgentProfile rows of each person; the last is the one in use
    verified,       \* User.emailVerifiedAt
    task,           \* what each request in flight has read
    raced,          \* history: what two requests in flight at once were about
    overridden      \* history: memberships staff ended beside an open exit request

memberVars == <<membership, exit, profile, verified, overridden>>

NoExit == 0

MembershipStatus ==
    {"PENDING_VERIFICATION", "ACTIVE", "EXIT_REQUESTED", "REMOVAL_REQUESTED", "ENDING", "ENDED"}
OpenStatus == MembershipStatus \ {"ENDED"}
Transitions ==
    [s \in MembershipStatus |->
        CASE s = "PENDING_VERIFICATION" -> {"ACTIVE", "ENDED"}
          [] s = "ACTIVE" -> {"EXIT_REQUESTED", "REMOVAL_REQUESTED", "ENDING", "ENDED"}
          [] s \in {"EXIT_REQUESTED", "REMOVAL_REQUESTED"} -> {"ACTIVE", "ENDING", "ENDED"}
          [] s = "ENDING" -> {"ENDED"}
          [] OTHER -> {}]

Option == {"IMMEDIATE", "END_OF_ASSIGNMENT", "END_OF_BILLING_PERIOD"}
ExitStatus ==
    {"PENDING_AGENCY", "PENDING_ADMIN", "APPROVED", "DECLINED", "CANCELLED", "COMPLETED"}
OpenExitStatus == {"PENDING_AGENCY", "PENDING_ADMIN", "APPROVED"}

OpenMember(i) == membership[i].status \in OpenStatus
OpenFor(p) == {i \in DOMAIN membership : membership[i].person = p /\ OpenMember(i)}
OpenExits(i) == {x \in DOMAIN exit : exit[x].member = i /\ exit[x].status \in OpenExitStatus}

\* The partial unique indexes AgencyMembership_one_open_per_identity and
\* ExitRequest_one_open_per_membership: a commit that breaks one is rolled back.
UniqueOpen(ms, es) ==
    /\ \A i, j \in DOMAIN ms :
        ms[i].person = ms[j].person /\ {ms[i].status, ms[j].status} \subseteq OpenStatus => i = j
    /\ \A x, y \in DOMAIN es :
        es[x].member = es[y].member /\ {es[x].status, es[y].status} \subseteq OpenExitStatus
            => x = y

-------------------------------------------------------------------------------
(***************************************************************************)
(* Requests in flight                                                      *)
(***************************************************************************)
Idle == [op |-> "idle", about |-> {}]
Doing(w, op) == task[w].op = op
Done(w) == task' = [task EXCEPT ![w] = Idle] /\ UNCHANGED raced
Begin(w, t) ==
    /\ task[w] = Idle
    /\ task' = [task EXCEPT ![w] = t]
    /\ raced' = raced \cup (t.about \cap UNION {task[v].about : v \in Worker})
Member(i) == <<"member", i>>
Human(p) == <<"person", p>>

MemberInit ==
    /\ exit = <<>>
    /\ task = [w \in Worker |-> Idle]
    /\ raced = {}
    /\ overridden = {}
    /\ verified \in [Person -> BOOLEAN]

-------------------------------------------------------------------------------
(***************************************************************************)
(* Effects                                                                 *)
(***************************************************************************)
SetStatus(i, s) == membership' = [membership EXCEPT ![i].status = s]
SetExit(x, s) == exit' = [exit EXCEPT ![x].status = s]

\* releaseRuleFor: a membership that has waited for the option does not make its
\* seat wait for the same again.
ReleaseRule(option, configured) ==
    IF <<option, configured>> \in {<<"END_OF_ASSIGNMENT", "AFTER_ASSIGNMENT_ENDS">>,
                                   <<"END_OF_BILLING_PERIOD", "AFTER_BILLING_PERIOD">>}
    THEN "IMMEDIATE" ELSE configured

\* A RELEASED entry; only the exits of phase 3 note it on the membership too.
Released(m, noted) == [m EXCEPT !.released = @ + 1, !.returned = @ \/ noted]

\* The membership row after completeExitTx, whose caller read seated and names
\* the request x.
Exited(m, seated, rule, x) ==
    LET ended == [m EXCEPT !.status = "ENDED", !.rule = rule, !.exit = x]
    IN  IF seated /\ rule = "IMMEDIATE" THEN Released(ended, TRUE) ELSE ended

MarkFormer(i) ==
    [profile EXCEPT ![membership[i].person][membership[i].profile].status = "FORMER",
                    ![membership[i].person][membership[i].profile].agency = NoAgency]

\* approveTx for membership m and request x: the exit completes or waits.
CanApprove(m, option) ==
    (IF option = "IMMEDIATE" THEN "ENDED" ELSE "ENDING") \in Transitions[m.status]
Approved(m, x, option, configured) ==
    IF option = "IMMEDIATE"
    THEN Exited(m, m.seated, ReleaseRule(option, configured), x)
    ELSE [m EXCEPT !.status = "ENDING"]
ApprovedExit(e, option) ==
    [e EXCEPT !.option = option,
              !.status = IF option = "IMMEDIATE" THEN "COMPLETED" ELSE "APPROVED"]
ApprovedProfile(i, option) ==
    IF option = "IMMEDIATE" THEN MarkFormer(i) ELSE profile

-------------------------------------------------------------------------------
(***************************************************************************)
(* Verification of a join and its expiry                                   *)
(***************************************************************************)

\* verifyEmail, then activatePendingMemberships.
Verify(w, p) ==
    /\ ~verified[p]
    /\ Begin(w, [op |-> "verify", person |-> p, about |-> {Human(p)}])
    /\ verified' = [verified EXCEPT ![p] = TRUE]
    /\ UNCHANGED <<membership, exit, profile, overridden>>
BeginActivate(w) ==
    /\ Doing(w, "verify")
    /\ LET pending == {i \in OpenFor(task[w].person) :
                           membership[i].status = "PENDING_VERIFICATION"}
       IN  task' = [task EXCEPT ![w] =
               IF pending = {} THEN Idle
               ELSE [op |-> "activate", members |-> pending, about |-> task[w].about]]
    /\ UNCHANGED <<memberVars, raced>>
Activate(w) ==
    /\ Doing(w, "activate")
    /\ membership' = [i \in DOMAIN membership |->
           IF i \in task[w].members THEN [membership[i] EXCEPT !.status = "ACTIVE"]
           ELSE membership[i]]
    /\ Done(w)
    /\ UNCHANGED <<exit, profile, verified, overridden>>

\* expireUnverifiedJoins and endMembershipTx: some time passes first.
BeginExpire(w, i) ==
    /\ membership[i].status = "PENDING_VERIFICATION"
    /\ Begin(w, [op |-> "expire", member |-> i, seated |-> membership[i].seated,
                 about |-> {Member(i), Human(membership[i].person)}])
    /\ UNCHANGED memberVars
Expire(w) ==
    /\ Doing(w, "expire")
    /\ LET i == task[w].member
           ended == [membership[i] EXCEPT !.status = "ENDED"]
       IN  /\ membership' = [membership EXCEPT ![i] =
                  IF task[w].seated THEN Released(ended, FALSE) ELSE ended]
           /\ profile' = [profile EXCEPT
                  ![membership[i].person][membership[i].profile].agency = NoAgency]
    /\ Done(w)
    /\ UNCHANGED <<exit, verified, overridden>>

-------------------------------------------------------------------------------
(***************************************************************************)
(* Requests to leave and to be removed                                     *)
(***************************************************************************)

\* findForActor: an account acts through its profile that is not archived.
Acts(p, k) == ~profile[p][k].archived
Own(i) == Acts(membership[i].person, membership[i].profile)

\* requestLeave and requestRemoval; whether Hirewise reviews it is a setting or
\* an open placement of the agent.
BeginRequest(w, i) ==
    /\ membership[i].status = "ACTIVE"
    /\ OpenExits(i) = {}
    /\ Len(exit) < MaxExits
    /\ Begin(w, [op |-> "request", member |-> i, own |-> Own(i),
                 about |-> {Member(i), Human(membership[i].person)}])
    /\ UNCHANGED memberVars

\* An agency's own removal needs no owner review: approved on creation.
SelfApproved(type, review) == type = "REMOVAL" /\ ~review
Request(w, type, option, review, configured) ==
    /\ Doing(w, "request")
    /\ type = "LEAVE" => task[w].own
    /\ Len(exit) < MaxExits
    /\ LET i == task[w].member
           x == Len(exit) + 1
           row == [member |-> i, type |-> type, option |-> option, review |-> review,
                   status |-> IF type = "REMOVAL" /\ review THEN "PENDING_ADMIN"
                              ELSE "PENDING_AGENCY"]
           m == [membership[i] EXCEPT !.exit = x,
                 !.status = IF type = "LEAVE" THEN "EXIT_REQUESTED" ELSE "REMOVAL_REQUESTED"]
       IN  IF SelfApproved(type, review)
           THEN /\ exit' = Append(exit, ApprovedExit(row, option))
                /\ membership' = [membership EXCEPT ![i] = Approved(m, x, option, configured)]
                /\ profile' = ApprovedProfile(i, option)
           ELSE /\ exit' = Append(exit, row)
                /\ membership' = [membership EXCEPT ![i] = m]
                /\ UNCHANGED profile
    /\ Done(w)
    /\ UNCHANGED <<verified, overridden>>

\* Mutant of Undecided: a completed request may be decided again.
NotRefused(x) == exit[x].status \notin {"DECLINED", "CANCELLED", "APPROVED"}
Undecided(x) == exit[x].status \in {"PENDING_AGENCY", "PENDING_ADMIN"}

OfExit(x) == {Member(exit[x].member), Human(membership[exit[x].member].person)}
BeginCancel(w, x) ==
    /\ exit[x].type = "LEAVE" /\ Undecided(x)
    /\ OpenMember(exit[x].member) /\ Own(exit[x].member)
    /\ Begin(w, [op |-> "cancel", x |-> x, about |-> OfExit(x)])
    /\ UNCHANGED memberVars
\* agencyDecide and adminDecide
BeginDecide(w, x) ==
    /\ Undecided(x)
    /\ Begin(w, [op |-> "decide", x |-> x,
                 handOver |-> exit[x].status = "PENDING_AGENCY" /\ exit[x].review,
                 about |-> OfExit(x)])
    /\ UNCHANGED memberVars
BeginEscalate(w, x) ==
    /\ exit[x].status = "PENDING_AGENCY"
    /\ Begin(w, [op |-> "escalate", x |-> x, about |-> OfExit(x)])
    /\ UNCHANGED memberVars
\* completeDueExits, for one row: its date has come or the agent's placements have ended.
BeginComplete(w, x) ==
    /\ exit[x].status = "APPROVED"
    /\ OpenMember(exit[x].member)
    /\ Begin(w, [op |-> "complete", x |-> x, about |-> OfExit(x),
                 seated |-> membership[exit[x].member].seated])
    /\ UNCHANGED memberVars

\* cancelLeave and declineTx write the same.
\* Mutant of BackToActive: the membership is not put back.
AnswerOnly(x, s) ==
    /\ SetExit(x, s)
    /\ UNCHANGED <<membership, profile, verified, overridden>>
BackToActive(x, s) ==
    /\ SetExit(x, s)
    /\ membership' = [membership EXCEPT ![exit[x].member].status = "ACTIVE",
                                        ![exit[x].member].exit = NoExit]
    /\ UNCHANGED <<profile, verified, overridden>>
Cancel(w) ==
    /\ Doing(w, "cancel")
    /\ BackToActive(task[w].x, "CANCELLED")
    /\ Done(w)
Decline(w) ==
    /\ Doing(w, "decide")
    /\ BackToActive(task[w].x, "DECLINED")
    /\ Done(w)
HandOver(w, option) ==
    /\ Doing(w, "decide") /\ task[w].handOver
    /\ exit' = [exit EXCEPT ![task[w].x].status = "PENDING_ADMIN",
                            ![task[w].x].option = option]
    /\ Done(w)
    /\ UNCHANGED <<membership, profile, verified, overridden>>
Approve(w, option, configured) ==
    /\ Doing(w, "decide") /\ ~task[w].handOver
    /\ LET x == task[w].x
           i == exit[x].member
       IN  /\ CanApprove(membership[i], option)
           /\ exit' = [exit EXCEPT ![x] = ApprovedExit(@, option)]
           /\ membership' = [membership EXCEPT ![i] = Approved(@, x, option, configured)]
           /\ profile' = ApprovedProfile(i, option)
    /\ Done(w)
    /\ UNCHANGED <<verified, overridden>>
Escalate(w) ==
    /\ Doing(w, "escalate")
    /\ exit' = [exit EXCEPT ![task[w].x].status = "PENDING_ADMIN",
                            ![task[w].x].review = TRUE]
    /\ Done(w)
    /\ UNCHANGED <<membership, profile, verified, overridden>>
Complete(w, configured) ==
    /\ Doing(w, "complete")
    /\ LET t == task[w]
           i == exit[t.x].member
       IN  /\ SetExit(t.x, "COMPLETED")
           /\ membership' = [membership EXCEPT ![i] =
                  Exited(@, t.seated, ReleaseRule(exit[t.x].option, configured), t.x)]
           /\ profile' = MarkFormer(i)
    /\ Done(w)
    /\ UNCHANGED <<verified, overridden>>

-------------------------------------------------------------------------------
(***************************************************************************)
(* The passes that return held seats and archive former profiles           *)
(***************************************************************************)

\* releaseDueSeats: the rule's time has come; without a rule the seat is due at once.
\* Mutant of SeatHeld: a seat that was returned is looked at again.
SeatHeldEver(m) == m.status = "ENDED" /\ m.seated
SeatHeld(m) == m.status = "ENDED" /\ m.seated /\ ~m.returned
BeginRelease(w, i) ==
    /\ SeatHeld(membership[i])
    /\ Begin(w, [op |-> "release", member |-> i, about |-> {Member(i)}])
    /\ UNCHANGED memberVars
Release(w) ==
    /\ Doing(w, "release")
    /\ membership' = [membership EXCEPT ![task[w].member] = Released(@, TRUE)]
    /\ Done(w)
    /\ UNCHANGED <<exit, profile, verified, overridden>>

BeginArchive(w, p, k) ==
    /\ profile[p][k].status = "FORMER" /\ ~profile[p][k].archived
    /\ Begin(w, [op |-> "archive", person |-> p, profile |-> k, about |-> {Human(p)}])
    /\ UNCHANGED memberVars
Archived(q) == [q EXCEPT !.status = "ARCHIVED", !.archived = TRUE]
Archive(w) ==
    /\ Doing(w, "archive")
    /\ profile' = [profile EXCEPT ![task[w].person][task[w].profile] = Archived(@)]
    /\ Done(w)
    /\ UNCHANGED <<membership, exit, verified, overridden>>

\* A request is refused at its commit, fails, or its process ends.
GiveUp(w) ==
    /\ task[w] # Idle
    /\ Done(w)
    /\ UNCHANGED memberVars

MemberNext ==
    \E w \in Worker :
        \/ \E p \in Person : Verify(w, p) \/ \E k \in DOMAIN profile[p] : BeginArchive(w, p, k)
        \/ BeginActivate(w) \/ Activate(w)
        \/ \E i \in DOMAIN membership :
            BeginExpire(w, i) \/ BeginRelease(w, i) \/ BeginRequest(w, i)
        \/ \E x \in DOMAIN exit :
            BeginCancel(w, x) \/ BeginDecide(w, x) \/ BeginEscalate(w, x) \/ BeginComplete(w, x)
        \/ Expire(w) \/ Cancel(w) \/ Decline(w) \/ Escalate(w) \/ Release(w) \/ Archive(w)
        \/ \E rule \in ReleaseRules :
            \/ Complete(w, rule)
            \/ \E option \in Option :
                \/ Approve(w, option, rule)
                \/ \E type \in {"LEAVE", "REMOVAL"}, review \in BOOLEAN :
                       Request(w, type, option, review, rule)
        \/ \E option \in Option : HandOver(w, option)
        \/ GiveUp(w)
===============================================================================
