---------------------------------- MODULE Seats ----------------------------------
(***************************************************************************)
(* The Agent Seats of agencies: plans, changes by staff, seat requests and *)
(* purchases, the joins that take a seat and the override that moves a     *)
(* person, over the memberships of Membership (seat.service.ts,            *)
(* invite.service.ts and setAgentAgency).                                  *)
(*                                                                         *)
(* The ledger is append-only and only read as sums; CONSUMED and RELEASED  *)
(* entries name their membership, so they are kept on its row, and base is *)
(* PLAN_BASE less the bases of previous plans taken back.                  *)
(***************************************************************************)
EXTENDS Membership, Sums

CONSTANTS
    PlanSeats,      \* base seats of the plans staff assign
    PackSeats,      \* seats a request asks for or a package sells
    FreshOnRejoin,  \* values the setting rejoinCreatesFreshProfile takes
    MaxOrders,      \* bound: SeatRequest and SeatPurchase rows
    MaxChange       \* bound: seats added or removed by staff, and plans assigned

ASSUME SeatsAssumption ==
    /\ PlanSeats \subseteq Nat /\ PackSeats \in Nat \ {0}
    /\ FreshOnRejoin \subseteq BOOLEAN
    /\ MaxOrders \in Nat /\ MaxChange \in Nat

VARIABLES
    plan,           \* base seats of each agency's plan
    ledger,         \* base, adjustments and purchased seats of each agency
    order,          \* SeatRequest and SeatPurchase rows
    assigned        \* bound: plans assigned so far

seatVars == <<plan, ledger, order, assigned>>
vars == <<memberVars, seatVars, task, raced>>

NoPlan == -1
Office(a) == <<"agency", a>>
Order(o) == <<"order", o>>

Members(a) == {i \in DOMAIN membership : membership[i].agency = a}

\* computeTotals
Used(a) == SumOver([i \in DOMAIN membership |-> membership[i].consumed - membership[i].released],
                   Members(a))
Total(a) == ledger[a].base + ledger[a].adjusted + ledger[a].purchased
Available(a) == IF Total(a) > Used(a) THEN Total(a) - Used(a) ELSE 0

NewMember(p, k, a, s, seats) ==
    [person |-> p, profile |-> k, agency |-> a, status |-> s, exit |-> NoExit,
     seated |-> seats > 0, consumed |-> seats, released |-> 0, returned |-> FALSE, rule |-> "none"]
NewProfile(a) == [agency |-> a, status |-> "LISTED", archived |-> FALSE]

\* The profile of an independent freelancer; what was archived for it is left out.
Freelancer == [agency |-> NoAgency, status |-> "INDEPENDENT", archived |-> FALSE]

\* An agency may be older than the plans: it has none and a member without a seat.
Init ==
    /\ MemberInit
    /\ plan \in [Agency -> PlanSeats \cup {NoPlan}]
    /\ ledger = [a \in Agency |-> [base |-> IF plan[a] = NoPlan THEN 0 ELSE plan[a],
                                   adjusted |-> 0, purchased |-> 0]]
    /\ order = <<>> /\ assigned = 0
    /\ \/ /\ membership = <<>>
          /\ profile \in [Person -> {<<NewProfile(NoAgency)>>, <<Freelancer>>}]
       \/ \E p \in Person, a \in Agency :
            /\ plan[a] = NoPlan /\ verified[p]
            /\ membership = <<NewMember(p, 1, a, "ACTIVE", 0)>>
            /\ profile = [q \in Person |-> <<NewProfile(IF p = q THEN a ELSE NoAgency)>>]

-------------------------------------------------------------------------------
(***************************************************************************)
(* Joining                                                                 *)
(***************************************************************************)

\* What joinAgencyTx leaves of the person's profiles pf when the k-th joins a: that of
\* a former member or a freelancer is archived beside a fresh one, or used again, as the
\* setting says.
Rejoins(q) == q.status \in {"FORMER", "ARCHIVED", "INDEPENDENT"}
JoinedAs(pf, k, fresh) == IF Rejoins(pf[k]) /\ fresh THEN Len(pf) + 1 ELSE k
JoinedProfiles(pf, k, a, fresh) ==
    IF Rejoins(pf[k]) /\ fresh
    THEN Append([pf EXCEPT ![k] = IF pf[k].archived THEN @ ELSE Archived(@)], NewProfile(a))
    ELSE [pf EXCEPT ![k].agency = a, ![k].status = "LISTED"]

\* acceptance and the checks of joinAgencyTx, for an invitation that is valid.
\* Mutant of HasRoom: off by one.
HasNoDebt(a) == Total(a) >= Used(a)
HasRoom(a) == Available(a) >= 1
Accepts(a) == plan[a] # NoPlan /\ HasRoom(a)
BeginJoin(w, p, a) ==
    /\ Accepts(a)
    /\ Acts(p, Len(profile[p]))
    /\ OpenFor(p) = {}
    /\ Len(membership) < MaxMembers
    /\ Begin(w, [op |-> "join", person |-> p, profile |-> Len(profile[p]), agency |-> a,
                 status |-> IF verified[p] THEN "ACTIVE" ELSE "PENDING_VERIFICATION",
                 about |-> {Human(p), Office(a)}])
    /\ UNCHANGED <<memberVars, seatVars>>
Join(w, fresh) ==
    /\ Doing(w, "join")
    /\ Len(membership) < MaxMembers
    /\ LET t == task[w]
           pf == profile[t.person]
       IN  /\ membership' = Append(membership,
                  NewMember(t.person, JoinedAs(pf, t.profile, fresh), t.agency, t.status, 1))
           /\ profile' = [profile EXCEPT ![t.person] = JoinedProfiles(@, t.profile, t.agency, fresh)]
    /\ Done(w)
    /\ UNCHANGED <<exit, verified, overridden, seatVars>>

\* setAgentAgency: staff end the membership the person has and start another,
\* over capacity if need be.
OpenAs(p) == {i \in OpenFor(p) : membership[i].profile = Len(profile[p])}
BeginOverride(w, p, a) ==
    /\ Begin(w, [op |-> "override", person |-> p, profile |-> Len(profile[p]), to |-> a,
                 current |-> {[member |-> i, seated |-> membership[i].seated] : i \in OpenAs(p)},
                 about |-> {Human(p), Office(a)} \cup {Member(i) : i \in OpenAs(p)}])
    /\ UNCHANGED <<memberVars, seatVars>>
OverriddenMembers(current, configured) ==
    [i \in DOMAIN membership |->
        IF \E c \in current : c.member = i
        THEN Exited(membership[i], (CHOOSE c \in current : c.member = i).seated, configured, NoExit)
        ELSE membership[i]]
Override(w, fresh, configured) ==
    /\ Doing(w, "override")
    /\ LET t == task[w]
           a == t.to
           ms == OverriddenMembers(t.current, configured)
           ended == {c.member : c \in t.current}
           pf == IF ended = {} THEN profile[t.person]
                 ELSE MarkFormer(CHOOSE i \in ended : TRUE)[t.person]
       IN  /\ overridden' = overridden \cup {i \in ended : OpenExits(i) # {}}
           /\ IF a = NoAgency
              THEN /\ membership' = ms
                   /\ profile' = [profile EXCEPT ![t.person] = pf]
              ELSE /\ Len(membership) < MaxMembers
                   /\ membership' = Append(ms,
                          NewMember(t.person, JoinedAs(pf, t.profile, fresh), a,
                                    IF verified[t.person] THEN "ACTIVE"
                                    ELSE "PENDING_VERIFICATION", 1))
                   /\ profile' = [profile EXCEPT
                          ![t.person] = JoinedProfiles(pf, t.profile, a, fresh)]
    /\ Done(w)
    /\ UNCHANGED <<exit, verified, seatVars>>

-------------------------------------------------------------------------------
(***************************************************************************)
(* Plans and changes by staff                                              *)
(***************************************************************************)

\* membershipsWithoutSeat
Unseated(a) == {i \in Members(a) : OpenMember(i) /\ ~membership[i].seated}

\* assignPlanTx reads the totals before it writes.  A plan that does not seat those
\* who are there needs the box "override": any plan may be asked for.
BeginAssign(w, a, s) ==
    /\ assigned < MaxChange
    /\ Begin(w, [op |-> "assign", agency |-> a, seats |-> s, base |-> ledger[a].base,
                 about |-> {Office(a)} \cup {Member(i) : i \in Unseated(a)}])
    /\ UNCHANGED <<memberVars, seatVars>>
BaseOf(s) == IF s = NoPlan THEN 0 ELSE s
\* Mutant of TakenBack: the previous plan's base stays.
KeepBase(base) == 0
TakenBack(base) == IF base > 0 THEN base ELSE 0
Seated(a) ==
    [i \in DOMAIN membership |->
        IF i \in Unseated(a)
        THEN [membership[i] EXCEPT !.seated = TRUE, !.consumed = @ + 1]
        ELSE membership[i]]
Assign(w) ==
    /\ Doing(w, "assign")
    /\ assigned < MaxChange
    /\ LET t == task[w]
           a == t.agency
       IN  /\ ledger' = [ledger EXCEPT ![a].base = @ - TakenBack(t.base) + BaseOf(t.seats)]
           /\ plan' = [plan EXCEPT ![a] = t.seats]
           /\ membership' = Seated(a)
    /\ assigned' = assigned + 1
    /\ Done(w)
    /\ UNCHANGED <<exit, profile, verified, overridden, order>>

\* adminChangeSeats; a removal below usage needs the same box.
BeginChange(w, a, d) ==
    /\ assigned < MaxChange
    /\ Begin(w, [op |-> "change", agency |-> a, by |-> d, about |-> {Office(a)}])
    /\ UNCHANGED <<memberVars, seatVars>>
Change(w) ==
    /\ Doing(w, "change")
    /\ assigned < MaxChange
    /\ ledger' = [ledger EXCEPT ![task[w].agency].adjusted = @ + task[w].by]
    /\ assigned' = assigned + 1
    /\ Done(w)
    /\ UNCHANGED <<memberVars, plan, order>>

-------------------------------------------------------------------------------
(***************************************************************************)
(* Seat requests and purchases                                             *)
(***************************************************************************)

\* requestSeats and purchasePackage
PlaceOrder(a, type) ==
    /\ Len(order) < MaxOrders
    /\ order' = Append(order, [agency |-> a, type |-> type, status |-> "PENDING"])
    /\ UNCHANGED <<memberVars, plan, ledger, assigned, task, raced>>
\* decideSeatRequest and recordSeatPurchase
Unsettled(o) == order[o].status = "PENDING"
BeginSettle(w, o) ==
    /\ Unsettled(o)
    /\ Begin(w, [op |-> "settle", order |-> o, about |-> {Order(o)}])
    /\ UNCHANGED <<memberVars, seatVars>>
Grant(w) ==
    /\ Doing(w, "settle")
    /\ LET o == task[w].order
           a == order[o].agency
       IN  /\ order' = [order EXCEPT ![o].status = "GRANTED"]
           /\ ledger' = IF order[o].type = "REQUEST"
                        THEN [ledger EXCEPT ![a].adjusted = @ + PackSeats]
                        ELSE [ledger EXCEPT ![a].purchased = @ + PackSeats]
    /\ Done(w)
    /\ UNCHANGED <<memberVars, plan, assigned>>
Refuse(w) ==
    /\ Doing(w, "settle")
    /\ order' = [order EXCEPT ![task[w].order].status = "REFUSED"]
    /\ Done(w)
    /\ UNCHANGED <<memberVars, plan, ledger, assigned>>

SeatNext ==
    \/ \E w \in Worker :
        \/ \E p \in Person :
            \/ \E a \in Agency : BeginJoin(w, p, a)
            \/ \E a \in Agency \cup {NoAgency} : BeginOverride(w, p, a)
        \/ \E fresh \in FreshOnRejoin :
            \/ Join(w, fresh)
            \/ \E rule \in ReleaseRules : Override(w, fresh, rule)
        \/ \E a \in Agency :
            \/ \E s \in PlanSeats \cup {NoPlan} : BeginAssign(w, a, s)
            \/ \E d \in {-1, 1} : BeginChange(w, a, d)
        \/ \E o \in DOMAIN order : BeginSettle(w, o)
        \/ Assign(w) \/ Change(w) \/ Grant(w) \/ Refuse(w)
    \/ \E a \in Agency, type \in {"REQUEST", "PURCHASE"} : PlaceOrder(a, type)

Next ==
    /\ (MemberNext /\ UNCHANGED seatVars) \/ SeatNext
    /\ UniqueOpen(membership', exit')

Spec == Init /\ [][Next]_vars

-------------------------------------------------------------------------------
(***************************************************************************)
(* Properties.  Two requests about the same row at once may each undo what *)
(* the other did, and an override beside an open exit request leaves the   *)
(* request behind (README, known divergences): the properties are about    *)
(* the other rows, whatever is in flight elsewhere.                        *)
(***************************************************************************)
Apart(i) ==
    /\ raced \cap {Member(i), Human(membership[i].person)} = {}
    /\ i \notin overridden
Expired(m) == m.status = "ENDED" /\ m.rule = "none"

\* The ledger has one CONSUMED entry of a membership that takes a seat, a RELEASED entry
\* exactly when the membership says its seat was returned, and none while it is open.
\* A join that was never verified is left out: see JoinsStayWithinSeats.
SeatAccounts ==
    \A i \in DOMAIN membership :
        LET m == membership[i]
        IN  Apart(i) =>
                /\ m.consumed = IF m.seated THEN 1 ELSE 0
                /\ m.returned => m.status = "ENDED" /\ m.seated
                /\ ~Expired(m) => m.released = IF m.returned THEN 1 ELSE 0
                /\ m.rule = "IMMEDIATE" /\ m.seated => m.returned

\* Who sits on a seat of the agency: its open members and those whose seat is held
\* after an exit.
Holders(a) ==
    {i \in Members(a) : membership[i].seated
        /\ (OpenMember(i) \/ (SeatHeld(membership[i]) /\ ~Expired(membership[i])))}
Joins(w, a) ==
    Doing(w, "join") /\ task[w].agency = a /\ Len(membership') > Len(membership)

\* A join by invitation never leaves an agency with more seat holders than seats,
\* whatever exits and returns of seats are in flight.
NoOverbooking ==
    [][\A w \in Worker, a \in Agency :
        /\ Joins(w, a)
        /\ Office(a) \notin raced
        /\ \A i \in Members(a) : Apart(i) /\ ~Expired(membership[i])
        => Cardinality(Holders(a)') <= Total(a)']_vars

\* However often plans replace one another, the base of an agency's totals is that of
\* the plan it has, and every purchase that was paid or waived added its seats once.
Purchases(a) ==
    {o \in DOMAIN order : order[o].agency = a /\ order[o].type = "PURCHASE"}
LedgerAddsUp ==
    \A a \in Agency :
        /\ Office(a) \notin raced => ledger[a].base = BaseOf(plan[a])
        /\ (\A o \in Purchases(a) : Order(o) \notin raced) =>
               ledger[a].purchased
                   = PackSeats * Cardinality({o \in Purchases(a) : order[o].status = "GRANTED"})

\* A membership waits for an exit exactly while it has an open request, which it
\* names; it is ending when that is approved.
RequestsFollow ==
    \A i \in DOMAIN membership : Apart(i) =>
        LET m == membership[i]
        IN  /\ (OpenExits(i) # {}) <=> m.status \in {"EXIT_REQUESTED", "REMOVAL_REQUESTED", "ENDING"}
            /\ \A x \in OpenExits(i) :
                /\ m.exit = x
                /\ (exit[x].status = "APPROVED") <=> (m.status = "ENDING")
                /\ m.status = "EXIT_REQUESTED" => exit[x].type = "LEAVE"
                /\ m.status = "REMOVAL_REQUESTED" => exit[x].type = "REMOVAL"
\* A person's profile in use is of the agency they are an open member of, through that
\* profile, and the profiles before it are archived and of none.
ProfilesFollow ==
    \A p \in Person :
        /\ Human(p) \notin raced
        /\ \A i \in overridden : membership[i].person # p
        =>  LET last == Len(profile[p])
            IN  /\ \A k \in 1..(last - 1) :
                    profile[p][k].archived /\ profile[p][k].agency = NoAgency
                /\ \A i \in OpenFor(p) : membership[i].profile = last
                /\ {profile[p][last].agency} \ {NoAgency}
                        = {membership[i].agency : i \in OpenFor(p)}

\* Exit requests and profiles agree with the memberships they are about, in whatever order
\* a person joins, leaves, is removed, is archived and joins again.
RecordsFollowMembership == RequestsFollow /\ ProfilesFollow

\* A membership that has ended is never open again (ENDED has no transitions).
EndedIsFinal ==
    [][\A i \in DOMAIN membership :
        ~OpenMember(i) /\ Apart(i) => membership'[i].status = "ENDED"]_vars

\* "An invite or join that would exceed the available seats is refused": violated, since
\* the seat of a join that was never verified is returned twice.
JoinsStayWithinSeats ==
    [][\A w \in Worker, a \in Agency :
        /\ Joins(w, a)
        /\ raced = {} /\ overridden = {}
        => Cardinality(Holders(a)') <= Total(a)']_vars
===============================================================================
