--------------------------- MODULE SeatsOutboxProofs ---------------------------
(***************************************************************************)
(* Theorems about Seats, and with it Membership, for any number of people, *)
(* agencies, rows and requests in flight; and about Outbox, and with it    *)
(* JobQueue, for any number of processes, events, notifications and jobs,  *)
(* and any number of faults.  The services of the first publish the events *)
(* of the second.                                                          *)
(***************************************************************************)
EXTENDS Seats, Outbox, MoneyProofs, SequenceTheorems, TLAPS

(***************************************************************************)
(* Seats: the rows and the requests in flight                              *)
(***************************************************************************)
MemberRow ==
    [person: Person, profile: Nat, agency: Agency, status: MembershipStatus, exit: Nat,
     seated: BOOLEAN, consumed: Nat, released: Nat, returned: BOOLEAN,
     rule: ReleaseRules \cup {"none", "IMMEDIATE"}]
ExitRow ==
    [member: Nat, type: {"LEAVE", "REMOVAL"}, option: Option, review: BOOLEAN, status: ExitStatus]
ProfileRow == [agency: Agency \cup {NoAgency}, status: {"LISTED", "FORMER", "ARCHIVED", "INDEPENDENT"}, archived: BOOLEAN]
OrderRow == [agency: Agency, type: {"REQUEST", "PURCHASE"}, status: {"PENDING", "GRANTED", "REFUSED"}]

MemberTypes ==
    /\ membership \in Seq(MemberRow) /\ exit \in Seq(ExitRow)
    /\ profile \in [Person -> Seq(ProfileRow)] /\ verified \in [Person -> BOOLEAN]
    /\ overridden \subseteq DOMAIN membership
    /\ \A p \in Person : Len(profile[p]) >= 1
    /\ \A i \in DOMAIN membership : membership[i].profile \in DOMAIN profile[membership[i].person]
    /\ \A x \in DOMAIN exit : exit[x].member \in DOMAIN membership
SeatTypes ==
    /\ plan \in [Agency -> PlanSeats \cup {NoPlan}]
    /\ ledger \in [Agency -> [base: Int, adjusted: Int, purchased: Int]]
    /\ order \in Seq(OrderRow) /\ assigned \in Nat

\* What a request in flight names exists, and it is about what it will write.
ExitOps == {"cancel", "decide", "escalate", "complete"}
MemberOps == {"expire", "request", "release"}
PersonOps == {"verify", "archive", "join", "override"}
OfficeOps == {"join", "assign", "change"}
SeatOps == MemberOps \cup ExitOps \cup PersonOps \cup OfficeOps \cup {"idle", "activate", "settle"}
Names(t) ==
    /\ t.op \in SeatOps
    /\ t.op = "idle" => t = Idle
    /\ t.op \in PersonOps => t.person \in Person /\ Human(t.person) \in t.about
    /\ t.op \in {"archive", "join", "override"} => t.profile \in DOMAIN profile[t.person]
    /\ t.op \in OfficeOps => t.agency \in Agency /\ Office(t.agency) \in t.about
    /\ t.op \in MemberOps => t.member \in DOMAIN membership /\ Member(t.member) \in t.about
    /\ t.op \in {"expire", "request"} => Human(membership[t.member].person) \in t.about
    /\ t.op \in {"expire", "complete"} => t.seated \in BOOLEAN
    /\ t.op = "activate" =>
        /\ t.members \subseteq DOMAIN membership
        /\ \A i \in t.members : Human(membership[i].person) \in t.about
    /\ t.op \in ExitOps => t.x \in DOMAIN exit /\ OfExit(t.x) \subseteq t.about
    /\ t.op = "join" => t.status \in {"ACTIVE", "PENDING_VERIFICATION"}
    /\ t.op = "override" =>
        /\ t.to \in Agency \cup {NoAgency} /\ Office(t.to) \in t.about
        /\ \A c, d \in t.current : c = d
        /\ \A c \in t.current :
            /\ c.member \in DOMAIN membership /\ Member(c.member) \in t.about /\ c.seated \in BOOLEAN
            /\ membership[c.member].person = t.person /\ membership[c.member].profile = t.profile
    /\ t.op = "assign" => t.seats \in PlanSeats \cup {NoPlan} /\ t.base \in Int
    /\ t.op = "change" => t.by \in Int
    /\ t.op = "settle" => t.order \in DOMAIN order /\ Order(t.order) \in t.about

\* What a request in flight has read is what there is, until two have been about it.
Quiet(p) == Human(p) \notin raced
Reads(t) ==
    /\ t.op = "activate" => \A i \in t.members :
        Quiet(membership[i].person) => membership[i].status = "PENDING_VERIFICATION"
    /\ t.op = "expire" /\ Quiet(membership[t.member].person) =>
        membership[t.member].status = "PENDING_VERIFICATION"
    /\ t.op = "request" /\ Quiet(membership[t.member].person) => membership[t.member].status = "ACTIVE"
    /\ t.op = "release" /\ Apart(t.member) => SeatHeld(membership[t.member])
    /\ t.op \in {"cancel", "decide", "escalate"} /\ Quiet(membership[exit[t.x].member].person) => Undecided(t.x)
    /\ t.op = "complete" =>
        /\ Quiet(membership[exit[t.x].member].person) => exit[t.x].status = "APPROVED"
        /\ Apart(exit[t.x].member) => t.seated = membership[exit[t.x].member].seated
    /\ t.op = "join" =>
        /\ Quiet(t.person) => OpenFor(t.person) = {} /\ t.profile = Len(profile[t.person])
        /\ Office(t.agency) \notin raced => Total(t.agency) > Used(t.agency)
    /\ t.op = "override" =>
        /\ Quiet(t.person) => /\ {c.member : c \in t.current} = OpenAs(t.person)
                              /\ t.profile = Len(profile[t.person])
        /\ \A c \in t.current : Apart(c.member) => c.seated = membership[c.member].seated
    /\ t.op = "assign" =>
        /\ Office(t.agency) \notin raced => t.base = ledger[t.agency].base
        /\ \A i \in Unseated(t.agency) : Apart(i) => Member(i) \in t.about
    /\ t.op = "settle" /\ Order(t.order) \notin raced => Unsettled(t.order)

TasksOK ==
    /\ \E T : task \in [Worker -> T]
    /\ \A w \in Worker : Names(task[w]) /\ Reads(task[w])
OneByOne == \A v, w \in Worker : v # w => task[v].about \cap task[w].about \subseteq raced

\* A membership's seat, its exit requests and its person's profiles.
SeatOK(m) ==
    /\ m.consumed = IF m.seated THEN 1 ELSE 0
    /\ m.returned => m.status = "ENDED" /\ m.seated
    /\ ~Expired(m) => m.released = IF m.returned THEN 1 ELSE 0
    /\ m.rule = "IMMEDIATE" /\ m.seated => m.returned
    /\ m.rule # "none" => m.status = "ENDED"
Leaving == {"EXIT_REQUESTED", "REMOVAL_REQUESTED", "ENDING"}
Still(i) == Quiet(membership[i].person) /\ i \notin overridden
RequestOK(i) ==
    LET m == membership[i]
    IN  /\ (OpenExits(i) # {}) <=> m.status \in Leaving
        /\ \A x \in OpenExits(i) :
            /\ m.exit = x
            /\ (exit[x].status = "APPROVED") <=> (m.status = "ENDING")
            /\ m.status = "EXIT_REQUESTED" => exit[x].type = "LEAVE"
            /\ m.status = "REMOVAL_REQUESTED" => exit[x].type = "REMOVAL"
Calm(p) == Quiet(p) /\ \A i \in overridden : membership[i].person # p
ProfileOK(p) ==
    LET last == Len(profile[p])
    IN  /\ \A k \in 1..(last - 1) : profile[p][k].archived /\ profile[p][k].agency = NoAgency
        /\ \A i \in OpenFor(p) : membership[i].profile = last
        /\ {profile[p][last].agency} \ {NoAgency} = {membership[i].agency : i \in OpenFor(p)}

SeatRows == \A i \in DOMAIN membership : Apart(i) => SeatOK(membership[i])
RequestRows == \A i \in DOMAIN membership : Still(i) => RequestOK(i)
ProfileRows == \A p \in Person : Calm(p) => ProfileOK(p)

IInv ==
    /\ MemberTypes /\ SeatTypes
    /\ UniqueOpen(membership, exit)
    /\ TasksOK /\ OneByOne
    /\ SeatRows /\ RequestRows /\ ProfileRows /\ LedgerAddsUp

Typed == MemberTypes /\ SeatTypes /\ TasksOK

-------------------------------------------------------------------------------
(***************************************************************************)
(* Tables: a row changes, a row is added, rows change together             *)
(***************************************************************************)
LEMMA RowChanges ==
    ASSUME NEW R, NEW s \in Seq(R), NEW i \in DOMAIN s, NEW r \in R,
           NEW u, u = [s EXCEPT ![i] = r]
    PROVE  /\ u \in Seq(R) /\ Len(u) = Len(s) /\ DOMAIN u = DOMAIN s /\ u[i] = r
           /\ \A j \in DOMAIN s \ {i} : u[j] = s[j]
<1>1. i \in 1..Len(s) /\ DOMAIN s = 1..Len(s) /\ Len(s) \in Nat
  OBVIOUS
<1>2. u \in Seq(R) /\ Len(u) = Len(s)
  BY <1>1
<1> QED
  BY <1>1, <1>2

LEMMA RowIsAdded ==
    ASSUME NEW R, NEW s \in Seq(R), NEW r \in R, NEW u, u = Append(s, r)
    PROVE  /\ u \in Seq(R) /\ Len(u) = Len(s) + 1 /\ DOMAIN u = DOMAIN s \cup {Len(s) + 1}
           /\ u[Len(s) + 1] = r /\ Len(s) + 1 \notin DOMAIN s
           /\ \A j \in DOMAIN s : u[j] = s[j]
<1>1. DOMAIN s = 1..Len(s) /\ Len(s) \in Nat
  OBVIOUS
<1>2. u \in Seq(R) /\ Len(u) = Len(s) + 1 /\ DOMAIN u = 1..(Len(s) + 1)
  OBVIOUS
<1>3. u[Len(s) + 1] = r /\ \A j \in 1..Len(s) : u[j] = s[j]
  OBVIOUS
<1> QED
  BY <1>1, <1>2, <1>3

LEMMA RowsChange ==
    ASSUME NEW R, NEW s \in Seq(R), NEW u, u = [i \in DOMAIN s |-> u[i]],
           \A i \in DOMAIN s : u[i] \in R
    PROVE  u \in Seq(R) /\ Len(u) = Len(s) /\ DOMAIN u = DOMAIN s
<1>1. DOMAIN s = 1..Len(s) /\ Len(s) \in Nat
  OBVIOUS
<1>2. u \in [1..Len(s) -> R]
  BY <1>1
<1> QED
  BY <1>1, <1>2

LEMMA MemberTyped ==
    ASSUME MemberTypes, NEW i \in DOMAIN membership
    PROVE  /\ membership[i] \in MemberRow /\ i \in Nat
           /\ membership[i].person \in Person /\ membership[i].agency \in Agency
           /\ profile[membership[i].person] \in Seq(ProfileRow)
           /\ membership[i].profile \in DOMAIN profile[membership[i].person]
<1>1. membership \in Seq(MemberRow)
  BY DEF MemberTypes
<1>2. membership[i] \in MemberRow /\ i \in Nat
  BY <1>1
<1> QED
  BY <1>2 DEF MemberTypes, MemberRow

LEMMA ExitTyped ==
    ASSUME MemberTypes, NEW x \in DOMAIN exit
    PROVE  exit[x] \in ExitRow /\ x \in Nat /\ x # NoExit /\ exit[x].member \in DOMAIN membership
<1>1. exit \in Seq(ExitRow)
  BY DEF MemberTypes
<1>2. exit[x] \in ExitRow /\ x \in Nat /\ x # NoExit
  BY <1>1 DEF NoExit
<1> QED
  BY <1>2 DEF MemberTypes

LEMMA OrderTyped == ASSUME SeatTypes, NEW o \in DOMAIN order PROVE order[o] \in OrderRow
BY DEF SeatTypes

-------------------------------------------------------------------------------
(***************************************************************************)
(* What a commit writes                                                    *)
(***************************************************************************)
SameMembers == membership' = membership
OneMember(i, m) ==
    /\ i \in DOMAIN membership /\ m \in MemberRow
    /\ membership' \in Seq(MemberRow) /\ DOMAIN membership' = DOMAIN membership
    /\ membership'[i] = m
    /\ \A j \in DOMAIN membership \ {i} : membership'[j] = membership[j]
OneExit(x, e) ==
    /\ x \in DOMAIN exit /\ e \in ExitRow
    /\ exit' \in Seq(ExitRow) /\ DOMAIN exit' = DOMAIN exit
    /\ exit'[x] = e
    /\ \A y \in DOMAIN exit \ {x} : exit'[y] = exit[y]
OneProfile(p, pf) ==
    /\ p \in Person /\ pf \in Seq(ProfileRow) /\ Len(pf) >= Len(profile[p])
    /\ profile' = [profile EXCEPT ![p] = pf]
Commits(w) == task' = [task EXCEPT ![w] = Idle] /\ UNCHANGED <<raced, verified>>
SameSeats == UNCHANGED seatVars

LEMMA OneMemberChanges ==
    ASSUME MemberTypes, NEW i \in DOMAIN membership, NEW m \in MemberRow,
           membership' = [membership EXCEPT ![i] = m]
    PROVE  OneMember(i, m)
BY RowChanges DEF OneMember, MemberTypes

LEMMA OneExitChanges ==
    ASSUME MemberTypes, NEW x \in DOMAIN exit, NEW e \in ExitRow, exit' = [exit EXCEPT ![x] = e]
    PROVE  OneExit(x, e)
BY RowChanges DEF OneExit, MemberTypes

\* A profile that is left: the membership it belonged to has ended.
Left(pf, k, q) ==
    /\ q \in Seq(ProfileRow) /\ Len(q) = Len(pf)
    /\ q[k].agency = NoAgency
    /\ \A j \in DOMAIN pf : q[j].archived = pf[j].archived /\ (j # k => q[j] = pf[j])
Leaves(i) ==
    LET p == membership[i].person
    IN  \E q : OneProfile(p, q) /\ Left(profile[p], membership[i].profile, q)

LEMMA ProfileLeft ==
    ASSUME NEW pf \in Seq(ProfileRow), NEW k \in DOMAIN pf, NEW q,
           \/ q = [pf EXCEPT ![k].status = "FORMER", ![k].agency = NoAgency]
           \/ q = [pf EXCEPT ![k].agency = NoAgency]
    PROVE  Left(pf, k, q)
<1>1. pf[k] \in ProfileRow
  OBVIOUS
<1>2. CASE q = [pf EXCEPT ![k].status = "FORMER", ![k].agency = NoAgency]
  <2> DEFINE r == [pf[k] EXCEPT !.status = "FORMER", !.agency = NoAgency]
  <2>1. r \in ProfileRow /\ r.agency = NoAgency /\ r.archived = pf[k].archived
    BY <1>1 DEF ProfileRow
  <2>2. q = [pf EXCEPT ![k] = r]
    BY <1>2
  <2> HIDE DEF r
  <2> QED
    BY <2>1, <2>2, RowChanges DEF Left
<1>3. CASE q = [pf EXCEPT ![k].agency = NoAgency]
  <2> DEFINE r == [pf[k] EXCEPT !.agency = NoAgency]
  <2>1. r \in ProfileRow /\ r.agency = NoAgency /\ r.archived = pf[k].archived
    BY <1>1 DEF ProfileRow
  <2>2. q = [pf EXCEPT ![k] = r]
    BY <1>3
  <2> HIDE DEF r
  <2> QED
    BY <2>1, <2>2, RowChanges DEF Left
<1> QED
  BY <1>2, <1>3

LEMMA FormerLeaves ==
    ASSUME MemberTypes, NEW i \in DOMAIN membership, profile' = MarkFormer(i) PROVE Leaves(i)
<1> DEFINE p == membership[i].person
           k == membership[i].profile
           q == [profile[p] EXCEPT ![k].status = "FORMER", ![k].agency = NoAgency]
<1>1. p \in Person /\ profile[p] \in Seq(ProfileRow) /\ k \in DOMAIN profile[p]
  BY MemberTyped
<1>2. profile \in [Person -> Seq(ProfileRow)]
  BY DEF MemberTypes
<1>3. profile' = [profile EXCEPT ![p] = q]
  BY <1>1, <1>2 DEF MarkFormer
<1>4. Left(profile[p], k, q)
  BY <1>1, ProfileLeft
<1>5. Len(q) >= Len(profile[p]) /\ q \in Seq(ProfileRow)
  BY <1>1, <1>4 DEF Left
<1> QED
  BY <1>1, <1>3, <1>4, <1>5 DEF Leaves, OneProfile

-------------------------------------------------------------------------------
(***************************************************************************)
(* One membership row                                                      *)
(***************************************************************************)
Rules == ReleaseRules \cup {"IMMEDIATE"}

\* Only the status, the seat's return and what the exit notes change.
Alike(m, n) ==
    /\ n \in MemberRow
    /\ n.person = m.person /\ n.profile = m.profile /\ n.agency = m.agency
    /\ n.seated = m.seated /\ n.consumed = m.consumed /\ n.released >= m.released
SeatStays(m, n) == m.status # "ENDED" /\ SeatOK(m) => SeatOK(n)

LEMMA RulesNamed ==
    /\ "none" \notin Rules
    /\ \A option \in Option, rule \in ReleaseRules : ReleaseRule(option, rule) \in Rules
BY MembershipAssumption DEF Rules, ReleaseRule

\* A membership that goes on, whatever its status.
LEMMA GoesOn ==
    ASSUME NEW m \in MemberRow, NEW s \in OpenStatus, NEW n, n = [m EXCEPT !.status = s]
    PROVE  Alike(m, n) /\ SeatStays(m, n) /\ n.status = s /\ n.exit = m.exit
<1>1. s \in MembershipStatus /\ s # "ENDED"
  BY DEF OpenStatus
<1>2. /\ n.person = m.person /\ n.profile = m.profile /\ n.agency = m.agency /\ n.status = s
      /\ n.seated = m.seated /\ n.consumed = m.consumed /\ n.released = m.released
      /\ n.returned = m.returned /\ n.rule = m.rule /\ n.exit = m.exit
  BY DEF MemberRow
<1>3. n \in MemberRow
  BY <1>1 DEF MemberRow
<1>4. m.released \in Nat /\ m.returned \in BOOLEAN
  BY DEF MemberRow
<1>5. Alike(m, n)
  BY <1>2, <1>3, <1>4 DEF Alike
<1>6. SeatStays(m, n)
  BY <1>1, <1>2, <1>4 DEF SeatStays, SeatOK, Expired
<1> QED
  BY <1>2, <1>5, <1>6

\* The same, with the request it waits for.
SeatAlike(m, n) ==
    /\ n.person = m.person /\ n.profile = m.profile /\ n.agency = m.agency
    /\ n.seated = m.seated /\ n.consumed = m.consumed /\ n.released = m.released
    /\ n.returned = m.returned /\ n.rule = m.rule
LEMMA GoesOnFor ==
    ASSUME NEW m \in MemberRow, NEW n \in MemberRow, SeatAlike(m, n), n.status \in OpenStatus
    PROVE  Alike(m, n) /\ SeatStays(m, n)
<1>1. n.status \in MembershipStatus /\ n.status # "ENDED"
  BY DEF OpenStatus
<1>2. m.released \in Nat /\ m.returned \in BOOLEAN
  BY DEF MemberRow
<1>3. Alike(m, n)
  BY <1>2 DEF Alike, SeatAlike
<1>4. SeatStays(m, n)
  BY <1>1, <1>2 DEF SeatStays, SeatOK, Expired, SeatAlike
<1> QED
  BY <1>3, <1>4

LEMMA OneMore == ASSUME NEW a \in Nat, NEW b, b = a + 1 PROVE b >= a /\ (a = 0 => b = 1)
OBVIOUS

\* A RELEASED entry, noted on the membership or not.
LEMMA SeatReleased ==
    ASSUME NEW m \in MemberRow, NEW n, n = Released(m, FALSE)
    PROVE  /\ n \in MemberRow /\ n.person = m.person /\ n.profile = m.profile /\ n.agency = m.agency
           /\ n.status = m.status /\ n.exit = m.exit /\ n.rule = m.rule /\ n.seated = m.seated
           /\ n.consumed = m.consumed /\ n.released = m.released + 1 /\ n.returned = m.returned
<1>1. n = [m EXCEPT !.released = m.released + 1]
  BY DEF MemberRow, Released
<1>2. m.released + 1 \in Nat
  BY DEF MemberRow
<1> QED
  BY <1>1, <1>2 DEF MemberRow

LEMMA SeatReturned ==
    ASSUME NEW m \in MemberRow, NEW n, n = Released(m, TRUE)
    PROVE  /\ n \in MemberRow /\ n.person = m.person /\ n.profile = m.profile /\ n.agency = m.agency
           /\ n.status = m.status /\ n.exit = m.exit /\ n.rule = m.rule /\ n.seated = m.seated
           /\ n.consumed = m.consumed /\ n.released = m.released + 1 /\ n.returned
<1> DEFINE k == [m EXCEPT !.released = m.released + 1]
<1>1. n = [k EXCEPT !.returned = TRUE]
  BY DEF MemberRow, Released
<1>3. m.released + 1 \in Nat
  BY DEF MemberRow
<1>2. /\ k \in MemberRow /\ k.person = m.person /\ k.profile = m.profile /\ k.agency = m.agency
      /\ k.status = m.status /\ k.exit = m.exit /\ k.rule = m.rule /\ k.seated = m.seated
      /\ k.consumed = m.consumed /\ k.released = m.released + 1 /\ k.returned = m.returned
  BY <1>3 DEF MemberRow
<1> HIDE DEF k
<1> QED
  BY <1>1, <1>2 DEF MemberRow

\* A membership that ends.
LEMMA ExitEnds ==
    ASSUME NEW m \in MemberRow, NEW seated \in BOOLEAN, NEW rule \in Rules, NEW x \in Nat,
           NEW n, n = Exited(m, seated, rule, x)
    PROVE  /\ Alike(m, n) /\ n.status = "ENDED"
           /\ (seated <=> m.seated) => SeatStays(m, n)
<1>1. rule # "none" /\ rule \in ReleaseRules \cup {"none", "IMMEDIATE"} /\ "ENDED" \in MembershipStatus
  BY RulesNamed DEF Rules, MembershipStatus
<1> DEFINE e == [m EXCEPT !.status = "ENDED", !.rule = rule, !.exit = x]
<1>2. /\ e \in MemberRow /\ e.person = m.person /\ e.profile = m.profile /\ e.agency = m.agency
      /\ e.status = "ENDED" /\ e.rule = rule /\ e.seated = m.seated /\ e.consumed = m.consumed
      /\ e.released = m.released /\ e.returned = m.returned
  BY <1>1 DEF MemberRow
<1>3. n = IF seated /\ rule = "IMMEDIATE" THEN Released(e, TRUE) ELSE e
  BY DEF Exited
<1> HIDE DEF e
<1>4. m.released \in Nat /\ m.consumed \in Nat /\ m.seated \in BOOLEAN /\ m.returned \in BOOLEAN
  BY DEF MemberRow
<1>5. CASE seated /\ rule = "IMMEDIATE"
  <2>1. /\ n \in MemberRow /\ n.person = m.person /\ n.profile = m.profile /\ n.agency = m.agency
        /\ n.status = "ENDED" /\ n.rule = rule /\ n.seated = m.seated /\ n.consumed = m.consumed
        /\ n.released = m.released + 1 /\ n.returned
    BY <1>2, <1>3, <1>5, SeatReturned
  <2>2. Alike(m, n)
    BY <1>4, <2>1 DEF Alike
  <2>3. ASSUME m.seated, m.status # "ENDED", SeatOK(m) PROVE SeatOK(n)
    <3>1. m.consumed = 1 /\ m.released = 0
      BY <2>3 DEF SeatOK, Expired
    <3>2. n.seated /\ n.consumed = 1 /\ n.released = 1
      BY <2>1, <2>3, <3>1
    <3> QED
      BY <2>1, <3>2 DEF SeatOK, Expired
  <2> QED
    BY <1>5, <2>1, <2>2, <2>3 DEF SeatStays
<1>6. CASE ~(seated /\ rule = "IMMEDIATE")
  <2>0. n = e
    BY <1>3, <1>6
  <2>1. Alike(m, n) /\ n.status = "ENDED"
    BY <1>2, <1>4, <2>0 DEF Alike
  <2>2. ASSUME seated <=> m.seated, m.status # "ENDED", SeatOK(m) PROVE SeatOK(n)
    BY <1>1, <1>2, <1>4, <1>6, <2>0, <2>2 DEF SeatOK, Expired
  <2> QED
    BY <2>1, <2>2 DEF SeatStays
<1> QED
  BY <1>5, <1>6

LEMMA ApprovedEnds ==
    ASSUME NEW m \in MemberRow, NEW option \in Option, NEW rule \in ReleaseRules, NEW x \in Nat,
           NEW n, n = Approved(m, x, option, rule)
    PROVE  /\ Alike(m, n) /\ SeatStays(m, n)
           /\ option = "IMMEDIATE" => n.status = "ENDED"
           /\ option # "IMMEDIATE" => n.status = "ENDING" /\ n.exit = m.exit
<1>1. CASE option = "IMMEDIATE"
  <2>1. n = Exited(m, m.seated, ReleaseRule(option, rule), x)
    BY <1>1 DEF Approved
  <2>2. m.seated \in BOOLEAN /\ ReleaseRule(option, rule) \in Rules
    BY RulesNamed DEF MemberRow
  <2> QED
    BY <1>1, <2>1, <2>2, ExitEnds
<1>2. CASE option # "IMMEDIATE"
  <2>1. n = [m EXCEPT !.status = "ENDING"] /\ "ENDING" \in OpenStatus
    BY <1>2 DEF Approved, OpenStatus, MembershipStatus
  <2>2. n.exit = m.exit
    BY <2>1 DEF MemberRow
  <2> QED
    BY <1>2, <2>1, <2>2, GoesOn
<1> QED
  BY <1>1, <1>2

\* A join that is not verified in time ends: its seat is returned without a note.
LEMMA ExpiredEnds ==
    ASSUME NEW m \in MemberRow, NEW seated \in BOOLEAN, NEW n,
           n = IF seated THEN Released([m EXCEPT !.status = "ENDED"], FALSE) ELSE [m EXCEPT !.status = "ENDED"]
    PROVE  Alike(m, n) /\ SeatStays(m, n) /\ n.status = "ENDED"
<1> DEFINE e == [m EXCEPT !.status = "ENDED"]
<1>1. /\ e \in MemberRow /\ e.person = m.person /\ e.profile = m.profile /\ e.agency = m.agency
      /\ e.status = "ENDED" /\ e.rule = m.rule /\ e.seated = m.seated /\ e.consumed = m.consumed
      /\ e.released = m.released /\ e.returned = m.returned
  BY DEF MemberRow, MembershipStatus
<1>2. n = IF seated THEN Released(e, FALSE) ELSE e
  OBVIOUS
<1> HIDE DEF e
<1>3. m.released \in Nat /\ m.returned \in BOOLEAN
  BY DEF MemberRow
<1>4. CASE seated
  <2>1. /\ n \in MemberRow /\ n.person = m.person /\ n.profile = m.profile /\ n.agency = m.agency
        /\ n.status = "ENDED" /\ n.rule = m.rule /\ n.seated = m.seated /\ n.consumed = m.consumed
        /\ n.released = m.released + 1 /\ n.returned = m.returned
    BY <1>1, <1>2, <1>4, SeatReleased
  <2>5. n.released = m.released + 1
    BY <2>1, Zenon
  <2>4. n.released >= m.released
    BY <1>3, <2>5, OneMore
  <2>2. Alike(m, n)
    BY <2>1, <2>4, Zenon DEF Alike
  <2>3. SeatStays(m, n)
    BY <2>1 DEF SeatStays, SeatOK, Expired
  <2> QED
    BY <2>1, <2>2, <2>3
<1>5. CASE ~seated
  BY <1>1, <1>2, <1>3, <1>5 DEF Alike, SeatStays, SeatOK, Expired
<1> QED
  BY <1>4, <1>5

LEMMA ReturnedRow ==
    ASSUME NEW m \in MemberRow, NEW n, n = Released(m, TRUE)
    PROVE  /\ Alike(m, n) /\ n.status = m.status /\ n.exit = m.exit
           /\ SeatHeld(m) /\ SeatOK(m) => SeatOK(n)
<1>1. m.released \in Nat
  BY DEF MemberRow
<1>2. /\ n \in MemberRow /\ n.person = m.person /\ n.profile = m.profile /\ n.agency = m.agency
      /\ n.status = m.status /\ n.exit = m.exit /\ n.rule = m.rule /\ n.seated = m.seated
      /\ n.consumed = m.consumed /\ n.released = m.released + 1 /\ n.returned
  BY SeatReturned
<1>6. n.released = m.released + 1 /\ n.rule = m.rule
  BY <1>2, Zenon
<1>5. n.released >= m.released /\ (m.released = 0 => n.released = 1)
  BY <1>1, <1>6, OneMore
<1>3. Alike(m, n)
  BY <1>2, <1>5, Zenon DEF Alike
<1>4. ASSUME SeatHeld(m), SeatOK(m) PROVE SeatOK(n)
  <2>1. m.status = "ENDED" /\ m.seated /\ m.consumed = 1 /\ (m.rule # "none" => m.released = 0)
    BY <1>4 DEF SeatHeld, SeatOK, Expired
  <2>2. n.rule # "none" => n.released = 1
    BY <1>5, <1>6, <2>1
  <2>3. n.status = "ENDED" /\ n.seated /\ n.consumed = 1
    BY <1>2, <2>1, Zenon
  <2> QED
    BY <1>2, <2>2, <2>3 DEF SeatOK, Expired
<1> QED
  BY <1>2, <1>3, <1>4

GivenSeat(m) == [m EXCEPT !.seated = TRUE, !.consumed = @ + 1]
LEMMA SeatGiven ==
    ASSUME NEW m \in MemberRow, NEW n, n = GivenSeat(m)
    PROVE  /\ n \in MemberRow /\ n.person = m.person /\ n.profile = m.profile /\ n.agency = m.agency
           /\ n.status = m.status /\ n.exit = m.exit /\ n.released = m.released /\ n.seated
           /\ m.status # "ENDED" /\ ~m.seated /\ SeatOK(m) => SeatOK(n)
<1>1. n = [m EXCEPT !.seated = TRUE, !.consumed = m.consumed + 1] /\ m.consumed \in Nat /\ m.returned \in BOOLEAN
  BY DEF MemberRow, GivenSeat
<1>2. /\ n.person = m.person /\ n.profile = m.profile /\ n.agency = m.agency
      /\ n.status = m.status /\ n.exit = m.exit /\ n.rule = m.rule /\ n.seated
      /\ n.consumed = m.consumed + 1 /\ n.released = m.released /\ n.returned = m.returned
  BY <1>1 DEF MemberRow
<1>3. n \in MemberRow
  <2> DEFINE c == m.consumed + 1
  <2>1. c \in Nat /\ n = [m EXCEPT !.seated = TRUE, !.consumed = c]
    BY <1>1
  <2> HIDE DEF c
  <2> QED
    BY <2>1 DEF MemberRow
<1>4. m.status # "ENDED" /\ ~m.seated /\ SeatOK(m) => SeatOK(n)
  BY <1>1, <1>2 DEF SeatOK, Expired
<1> QED
  BY <1>2, <1>3, <1>4

LEMMA NewRow ==
    ASSUME NEW p \in Person, NEW k \in Nat, NEW a \in Agency, NEW s \in {"ACTIVE", "PENDING_VERIFICATION"},
           NEW n, n = NewMember(p, k, a, s, 1)
    PROVE  /\ n \in MemberRow /\ n.person = p /\ n.profile = k /\ n.agency = a /\ n.status = s
           /\ n.seated /\ n.consumed = 1 /\ n.released = 0 /\ SeatOK(n)
<1>1. NoExit \in Nat /\ 1 \in Nat /\ 0 \in Nat /\ 1 > 0
  BY DEF NoExit
<1>2. s \in MembershipStatus
  BY DEF MembershipStatus
<1>3. n \in MemberRow
  BY <1>1, <1>2, Zenon DEF MemberRow, NewMember
<1>4. /\ n.person = p /\ n.profile = k /\ n.agency = a /\ n.status = s /\ n.consumed = 1
      /\ n.released = 0 /\ n.rule = "none" /\ ~n.returned
  BY DEF NewMember
<1>5. n.seated
  BY <1>1, Zenon DEF NewMember
<1>6. SeatOK(n)
  BY <1>2, <1>4, <1>5 DEF SeatOK, Expired
<1> QED
  BY <1>3, <1>4, <1>5, <1>6

-------------------------------------------------------------------------------
(***************************************************************************)
(* Commits about one membership and its requests                           *)
(***************************************************************************)
ExitsOnly(i) ==
    /\ exit' \in Seq(ExitRow) /\ DOMAIN exit \subseteq DOMAIN exit'
    /\ \A y \in DOMAIN exit :
        exit'[y].member = exit[y].member /\ (exit[y].member # i => exit'[y] = exit[y])
    /\ \A y \in DOMAIN exit' \ DOMAIN exit : exit'[y].member = i
Changes(w, i) ==
    /\ Commits(w) /\ SameSeats /\ UNCHANGED overridden
    /\ {Member(i), Human(membership[i].person)} \subseteq task[w].about
    /\ \E m : /\ OneMember(i, m) /\ Alike(membership[i], m)
              /\ Apart(i) /\ SeatOK(membership[i]) => SeatOK(m)
    /\ ExitsOnly(i)
    /\ UNCHANGED profile \/ Leaves(i)
    /\ Still(i) => /\ membership[i].status # "ENDED" /\ RequestOK(i)'
                   /\ IF membership'[i].status = "ENDED" THEN Leaves(i) ELSE UNCHANGED profile

\* What RequestOK says of a membership and the only request that may be open.
Agrees(m, x, e) ==
    IF e.status \in OpenExitStatus
    THEN /\ m.status \in Leaving /\ m.exit = x
         /\ (e.status = "APPROVED") <=> (m.status = "ENDING")
         /\ m.status = "EXIT_REQUESTED" => e.type = "LEAVE"
         /\ m.status = "REMOVAL_REQUESTED" => e.type = "REMOVAL"
    ELSE m.status \notin Leaving

LEMMA RequestAgrees ==
    ASSUME NEW i, NEW x \in DOMAIN exit', exit'[x].member = i, OpenExits(i)' \subseteq {x},
           Agrees(membership'[i], x, exit'[x])
    PROVE  RequestOK(i)'
<1>1. CASE exit'[x].status \in OpenExitStatus
  <2>1. OpenExits(i)' = {x}
    BY <1>1 DEF OpenExits
  <2> QED
    BY <1>1, <2>1 DEF RequestOK, Agrees
<1>2. CASE exit'[x].status \notin OpenExitStatus
  <2>1. OpenExits(i)' = {}
    BY <1>2 DEF OpenExits
  <2> QED
    BY <1>2, <2>1 DEF RequestOK, Agrees
<1> QED
  BY <1>1, <1>2

LEMMA ApartIsStill == ASSUME NEW i, Apart(i) PROVE Still(i) /\ Quiet(membership[i].person)
BY DEF Apart, Still, Quiet

LEMMA OnlyRequest ==
    ASSUME IInv, NEW i \in DOMAIN membership, Still(i),
           NEW x \in DOMAIN exit, exit[x].member = i, exit[x].status \in OpenExitStatus
    PROVE  OpenExits(i) = {x} /\ Agrees(membership[i], x, exit[x]) /\ membership[i].status \in Leaving
<1>1. x \in OpenExits(i)
  BY DEF OpenExits
<1>2. \A y \in OpenExits(i) : y = x
  BY DEF OpenExits, IInv, UniqueOpen
<1>3. RequestOK(i)
  BY DEF IInv, RequestRows
<1> QED
  BY <1>1, <1>2, <1>3 DEF RequestOK, Agrees

LEMMA NamesOf == ASSUME Typed, NEW w \in Worker PROVE Names(task[w])
BY DEF Typed, TasksOK

LEMMA ReadsOf == ASSUME IInv, NEW w \in Worker PROVE Typed /\ MemberTypes /\ Names(task[w]) /\ Reads(task[w])
BY DEF IInv, Typed, TasksOK

\* An open request is answered.
LEMMA Answers ==
    ASSUME IInv, NEW w \in Worker, Commits(w), SameSeats, UNCHANGED overridden,
           NEW x \in DOMAIN exit, NEW i, i = exit[x].member, OfExit(x) \subseteq task[w].about,
           NEW m, OneMember(i, m), Alike(membership[i], m), Apart(i) => SeatStays(membership[i], m),
           NEW e, OneExit(x, e), e.member = i,
           Quiet(membership[i].person) => exit[x].status \in OpenExitStatus,
           Still(i) => Agrees(m, x, e),
           \/ UNCHANGED profile /\ (m.status # "ENDED" \/ ~Still(i))
           \/ Leaves(i) /\ m.status = "ENDED"
    PROVE  Changes(w, i)
<1>1. {Member(i), Human(membership[i].person)} \subseteq task[w].about
  BY DEF OfExit
<1>2. ASSUME Still(i)
      PROVE  /\ membership[i].status # "ENDED" /\ RequestOK(i)'
             /\ IF membership'[i].status = "ENDED" THEN Leaves(i) ELSE UNCHANGED profile
  <2>1. i \in DOMAIN membership /\ membership'[i] = m
    BY DEF OneMember
  <2>2. OpenExits(i) = {x} /\ membership[i].status \in Leaving
    BY <1>2, <2>1, OnlyRequest DEF Still
  <2>3. OpenExits(i)' \subseteq {x}
    BY <2>2 DEF OpenExits, OneExit
  <2>4. RequestOK(i)'
    <3>1. x \in DOMAIN exit' /\ exit'[x] = e /\ Agrees(membership'[i], x, exit'[x])
      BY <1>2, <2>1 DEF OneExit
    <3> QED
      BY <2>3, <3>1, RequestAgrees
  <2> QED
    BY <1>2, <2>1, <2>2, <2>4 DEF Leaving
<1>3. Apart(i) /\ SeatOK(membership[i]) => SeatOK(m)
  BY <1>2, ApartIsStill DEF SeatStays
<1>4. ExitsOnly(i)
  BY DEF ExitsOnly, OneExit
<1> QED
  BY <1>1, <1>2, <1>3, <1>4 DEF Changes

\* What a request about an exit request holds.
LEMMA ExitTask ==
    ASSUME IInv, NEW w \in Worker, task[w].op \in ExitOps
    PROVE  LET x == task[w].x
               i == exit[x].member
           IN  /\ x \in DOMAIN exit /\ exit[x] \in ExitRow /\ x \in Nat /\ x # NoExit
               /\ i \in DOMAIN membership /\ membership[i] \in MemberRow
               /\ OfExit(x) \subseteq task[w].about
               /\ Still(i) /\ exit[x].status \in OpenExitStatus => Agrees(membership[i], x, exit[x])
               /\ task[w].op \in {"cancel", "decide", "escalate"} /\ Quiet(membership[i].person) => Undecided(x)
<1>1. Names(task[w]) /\ Reads(task[w]) /\ MemberTypes
  BY ReadsOf
<1>2. task[w].x \in DOMAIN exit /\ OfExit(task[w].x) \subseteq task[w].about
  BY <1>1 DEF Names
<1>3. Quiet(membership[exit[task[w].x].member].person) /\ task[w].op \in {"cancel", "decide", "escalate"}
        => Undecided(task[w].x)
  BY <1>1 DEF Reads
<1> QED
  BY <1>1, <1>2, <1>3, ExitTyped, MemberTyped, OnlyRequest

LEMMA UndecidedIsOpen == ASSUME NEW x, Undecided(x) PROVE exit[x].status \in OpenExitStatus
BY DEF Undecided, OpenExitStatus

LEMMA BackChanges ==
    ASSUME IInv, NEW w \in Worker, task[w].op \in {"cancel", "decide"},
           NEW s \in {"CANCELLED", "DECLINED"}, BackToActive(task[w].x, s), Done(w), SameSeats,
           NEW i, i = exit[task[w].x].member
    PROVE  Changes(w, i)
<1> DEFINE x == task[w].x
           m == [membership[i] EXCEPT !.status = "ACTIVE", !.exit = NoExit]
           e == [exit[x] EXCEPT !.status = s]
<1>0. /\ x \in DOMAIN exit /\ exit[x] \in ExitRow /\ i \in DOMAIN membership /\ membership[i] \in MemberRow
      /\ OfExit(x) \subseteq task[w].about /\ MemberTypes
      /\ Quiet(membership[i].person) => Undecided(x)
  BY ExitTask, ReadsOf DEF ExitOps
<1>1. "ACTIVE" \in OpenStatus /\ NoExit \in Nat
  BY DEF OpenStatus, MembershipStatus, NoExit
<1>2. Alike(membership[i], m) /\ SeatStays(membership[i], m) /\ m.status = "ACTIVE"
  <2>1. m \in MemberRow
    BY <1>0, <1>1 DEF MemberRow, OpenStatus
  <2>2. SeatAlike(membership[i], m) /\ m.status = "ACTIVE"
    BY <1>0 DEF MemberRow, SeatAlike
  <2> HIDE DEF m
  <2> QED
    BY <1>0, <1>1, <2>1, <2>2, GoesOnFor
<1>3. e \in ExitRow /\ e.member = i /\ e.status = s
  BY <1>0 DEF ExitRow, ExitStatus
<1>4. membership' = [membership EXCEPT ![i] = m]
  BY DEF BackToActive
<1>5. exit' = [exit EXCEPT ![x] = e]
  BY DEF BackToActive, SetExit
<1>6. Commits(w) /\ UNCHANGED <<profile, overridden>>
  BY DEF Commits, Done, BackToActive
<1>7. Agrees(m, x, e)
  BY <1>2, <1>3 DEF Agrees, OpenExitStatus, Leaving
<1> HIDE DEF m, e
<1>8. m \in MemberRow
  BY <1>2 DEF Alike
<1>9. OneMember(i, m)
  BY <1>0, <1>4, <1>8, OneMemberChanges
<1>10. OneExit(x, e)
  BY <1>0, <1>3, <1>5, OneExitChanges
<1> HIDE DEF x
<1> QED
  BY <1>0, <1>2, <1>3, <1>6, <1>7, <1>9, <1>10, UndecidedIsOpen, Answers DEF x

LEMMA CancelChanges ==
    ASSUME IInv, NEW w \in Worker, Cancel(w), SameSeats,
           NEW i, i = exit[task[w].x].member
    PROVE  Changes(w, i)
BY BackChanges DEF Cancel, Doing

LEMMA DeclineChanges ==
    ASSUME IInv, NEW w \in Worker, Decline(w), SameSeats,
           NEW i, i = exit[task[w].x].member
    PROVE  Changes(w, i)
BY BackChanges DEF Decline, Doing

\* Handed over to Hirewise, by the agency or because it was late.
LEMMA HandedOver ==
    ASSUME IInv, NEW w \in Worker, task[w].op \in {"decide", "escalate"}, Commits(w), SameSeats,
           UNCHANGED <<membership, profile, overridden>>,
           NEW e \in ExitRow, e.member = exit[task[w].x].member, e.status = "PENDING_ADMIN",
           e.type = exit[task[w].x].type, exit' = [exit EXCEPT ![task[w].x] = e],
           NEW i, i = exit[task[w].x].member
    PROVE  Changes(w, i)
<1> DEFINE x == task[w].x
           m == membership[i]
<1>0. /\ x \in DOMAIN exit /\ exit[x] \in ExitRow /\ i \in DOMAIN membership /\ m \in MemberRow
      /\ OfExit(x) \subseteq task[w].about /\ MemberTypes
      /\ Quiet(membership[i].person) => Undecided(x)
      /\ Still(i) /\ exit[x].status \in OpenExitStatus => Agrees(m, x, exit[x])
  BY ExitTask, ReadsOf DEF ExitOps
<1>1. OneMember(i, m)
  BY <1>0 DEF OneMember, MemberTypes
<1>2. OneExit(x, e)
  BY <1>0, OneExitChanges
<1>3. Alike(m, m) /\ SeatStays(m, m)
  BY <1>0 DEF Alike, SeatStays, MemberRow
<1>4. ASSUME Still(i) PROVE Agrees(m, x, e) /\ m.status # "ENDED"
  <2>1. Undecided(x) /\ exit[x].status \in OpenExitStatus
    BY <1>0, <1>4, UndecidedIsOpen DEF Still
  <2>2. Agrees(m, x, exit[x]) /\ exit[x].status # "APPROVED"
    BY <1>0, <1>4, <2>1 DEF Undecided
  <2> HIDE DEF m
  <2> QED
    BY <2>1, <2>2 DEF Agrees, OpenExitStatus, Leaving, x
<1> HIDE DEF x, m
<1> QED
  BY <1>0, <1>1, <1>2, <1>3, <1>4, UndecidedIsOpen, Answers DEF x, m

LEMMA HandOverChanges ==
    ASSUME IInv, NEW w \in Worker, NEW option \in Option, HandOver(w, option), SameSeats,
           NEW i, i = exit[task[w].x].member
    PROVE  Changes(w, i)
<1> DEFINE x == task[w].x
           e == [exit[x] EXCEPT !.status = "PENDING_ADMIN", !.option = option]
<1>1. task[w].op = "decide" /\ exit[x] \in ExitRow
  BY ExitTask DEF HandOver, Doing, ExitOps
<1>2. e \in ExitRow /\ e.member = exit[x].member /\ e.status = "PENDING_ADMIN" /\ e.type = exit[x].type
  BY <1>1 DEF ExitRow, ExitStatus
<1>3. exit' = [exit EXCEPT ![x] = e]
  BY DEF HandOver
<1>4. Commits(w) /\ UNCHANGED <<membership, profile, overridden>>
  BY DEF HandOver, Done, Commits
<1> HIDE DEF e
<1> QED
  BY <1>1, <1>2, <1>3, <1>4, HandedOver

LEMMA EscalateChanges ==
    ASSUME IInv, NEW w \in Worker, Escalate(w), SameSeats,
           NEW i, i = exit[task[w].x].member
    PROVE  Changes(w, i)
<1> DEFINE x == task[w].x
           e == [exit[x] EXCEPT !.status = "PENDING_ADMIN", !.review = TRUE]
<1>1. task[w].op = "escalate" /\ exit[x] \in ExitRow
  BY ExitTask DEF Escalate, Doing, ExitOps
<1>2. e \in ExitRow /\ e.member = exit[x].member /\ e.status = "PENDING_ADMIN" /\ e.type = exit[x].type
  BY <1>1 DEF ExitRow, ExitStatus
<1>3. exit' = [exit EXCEPT ![x] = e]
  BY DEF Escalate
<1>4. Commits(w) /\ UNCHANGED <<membership, profile, overridden>>
  BY DEF Escalate, Done, Commits
<1> HIDE DEF e
<1> QED
  BY <1>1, <1>2, <1>3, <1>4, HandedOver

LEMMA ApproveChanges ==
    ASSUME IInv, NEW w \in Worker, NEW option \in Option, NEW rule \in ReleaseRules,
           Approve(w, option, rule), SameSeats,
           NEW i, i = exit[task[w].x].member
    PROVE  Changes(w, i)
<1> DEFINE x == task[w].x
           m == Approved(membership[i], x, option, rule)
           e == ApprovedExit(exit[x], option)
<1>0. task[w].op = "decide"
  BY DEF Approve, Doing
<1>1. /\ x \in DOMAIN exit /\ exit[x] \in ExitRow /\ x \in Nat
      /\ i \in DOMAIN membership /\ membership[i] \in MemberRow
      /\ OfExit(x) \subseteq task[w].about /\ MemberTypes
      /\ Quiet(membership[i].person) => Undecided(x)
      /\ Still(i) /\ exit[x].status \in OpenExitStatus => Agrees(membership[i], x, exit[x])
  BY <1>0, ExitTask, ReadsOf DEF ExitOps
<1>2. /\ Alike(membership[i], m) /\ SeatStays(membership[i], m)
      /\ option = "IMMEDIATE" => m.status = "ENDED"
      /\ option # "IMMEDIATE" => m.status = "ENDING" /\ m.exit = membership[i].exit
  BY <1>1, ApprovedEnds
<1>3. e \in ExitRow /\ e.member = i /\ e.status = IF option = "IMMEDIATE" THEN "COMPLETED" ELSE "APPROVED"
  BY <1>1 DEF ApprovedExit, ExitRow, ExitStatus
<1>4. /\ membership' = [membership EXCEPT ![i] = m] /\ exit' = [exit EXCEPT ![x] = e]
      /\ profile' = ApprovedProfile(i, option)
  BY DEF Approve
<1>5. Commits(w) /\ UNCHANGED overridden
  BY DEF Approve, Done, Commits
<1> HIDE DEF m, e
<1>6. OneMember(i, m)
  BY <1>1, <1>2, <1>4, OneMemberChanges DEF Alike
<1>7. OneExit(x, e)
  BY <1>1, <1>3, <1>4, OneExitChanges
<1>8. ASSUME Still(i) PROVE Agrees(m, x, e)
  <2>1. exit[x].status \in OpenExitStatus
    BY <1>1, <1>8, UndecidedIsOpen DEF Still
  <2>2. Agrees(membership[i], x, exit[x])
    BY <1>1, <1>8, <2>1
  <2> HIDE DEF x
  <2> QED
    BY <1>2, <1>3, <2>1, <2>2 DEF Agrees, OpenExitStatus, Leaving
<1>9. \/ UNCHANGED profile /\ m.status # "ENDED"
      \/ Leaves(i) /\ m.status = "ENDED"
  BY <1>1, <1>2, <1>4, FormerLeaves DEF ApprovedProfile
<1> HIDE DEF x
<1> QED
  BY <1>1, <1>2, <1>3, <1>5, <1>6, <1>7, <1>8, <1>9, UndecidedIsOpen, Answers DEF x

LEMMA CompleteChanges ==
    ASSUME IInv, NEW w \in Worker, NEW rule \in ReleaseRules, Complete(w, rule), SameSeats,
           NEW i, i = exit[task[w].x].member
    PROVE  Changes(w, i)
<1> DEFINE x == task[w].x
           r == ReleaseRule(exit[x].option, rule)
           m == Exited(membership[i], task[w].seated, r, x)
           e == [exit[x] EXCEPT !.status = "COMPLETED"]
<1>0. task[w].op = "complete"
  BY DEF Complete, Doing
<1>1. /\ x \in DOMAIN exit /\ exit[x] \in ExitRow /\ x \in Nat
      /\ i \in DOMAIN membership /\ membership[i] \in MemberRow
      /\ OfExit(x) \subseteq task[w].about /\ MemberTypes
  BY <1>0, ExitTask, ReadsOf DEF ExitOps
<1>2. /\ task[w].seated \in BOOLEAN
      /\ Quiet(membership[i].person) => exit[x].status = "APPROVED"
      /\ Apart(i) => task[w].seated = membership[i].seated
  BY <1>0, ReadsOf DEF Names, Reads
<1>3. r \in Rules
  BY <1>1, RulesNamed DEF ExitRow
<1>4. Alike(membership[i], m) /\ m.status = "ENDED" /\ (Apart(i) => SeatStays(membership[i], m))
  <2> HIDE DEF r
  <2> QED
    BY <1>1, <1>2, <1>3, ExitEnds
<1>5. e \in ExitRow /\ e.member = i /\ e.status = "COMPLETED"
  BY <1>1 DEF ExitRow, ExitStatus
<1>6. /\ membership' = [membership EXCEPT ![i] = m] /\ exit' = [exit EXCEPT ![x] = e]
      /\ profile' = MarkFormer(i)
  BY DEF Complete, SetExit
<1>7. Commits(w) /\ UNCHANGED overridden
  BY DEF Complete, Done, Commits
<1> HIDE DEF m, e
<1>8. OneMember(i, m)
  BY <1>1, <1>4, <1>6, OneMemberChanges DEF Alike
<1>9. OneExit(x, e)
  BY <1>1, <1>5, <1>6, OneExitChanges
<1>10. Agrees(m, x, e)
  BY <1>4, <1>5 DEF Agrees, OpenExitStatus, Leaving
<1>11. Leaves(i)
  BY <1>1, <1>6, FormerLeaves
<1>12. Quiet(membership[i].person) => exit[x].status \in OpenExitStatus
  BY <1>2 DEF OpenExitStatus
<1> HIDE DEF x
<1> QED
  BY <1>1, <1>4, <1>5, <1>7, <1>8, <1>9, <1>10, <1>11, <1>12, Answers DEF x

\* A join that was not verified in time.
LEMMA ExpireChanges ==
    ASSUME IInv, NEW w \in Worker, Expire(w), SameSeats, NEW i, i = task[w].member
    PROVE  Changes(w, i)
<1> DEFINE m == IF task[w].seated THEN Released([membership[i] EXCEPT !.status = "ENDED"], FALSE)
                ELSE [membership[i] EXCEPT !.status = "ENDED"]
<1>0. task[w].op = "expire"
  BY DEF Expire, Doing
<1>1. /\ i \in DOMAIN membership /\ Member(i) \in task[w].about /\ task[w].seated \in BOOLEAN
      /\ Human(membership[i].person) \in task[w].about
      /\ Quiet(membership[i].person) => membership[i].status = "PENDING_VERIFICATION"
  BY <1>0, ReadsOf DEF Names, Reads, MemberOps
<1>2. MemberTypes /\ membership[i] \in MemberRow
  BY <1>1, ReadsOf, MemberTyped
<1>3. Alike(membership[i], m) /\ SeatStays(membership[i], m) /\ m.status = "ENDED"
  BY <1>1, <1>2, ExpiredEnds
<1>4. membership' = [membership EXCEPT ![i] = m] /\ UNCHANGED <<exit, overridden>> /\ Commits(w)
  BY DEF Expire, Done, Commits
<1>5. Leaves(i)
  <2> DEFINE p == membership[i].person
             k == membership[i].profile
             q == [profile[p] EXCEPT ![k].agency = NoAgency]
  <2>1. p \in Person /\ profile[p] \in Seq(ProfileRow) /\ k \in DOMAIN profile[p]
    BY <1>1, <1>2, MemberTyped
  <2>2. profile' = [profile EXCEPT ![p] = q]
    BY DEF Expire
  <2>3. Left(profile[p], k, q)
    BY <2>1, ProfileLeft
  <2> HIDE DEF q
  <2>4. Len(q) >= Len(profile[p]) /\ q \in Seq(ProfileRow)
    BY <2>1, <2>3 DEF Left
  <2> QED
    BY <2>1, <2>2, <2>3, <2>4 DEF Leaves, OneProfile
<1> HIDE DEF m
<1>6. OneMember(i, m)
  BY <1>1, <1>2, <1>3, <1>4, OneMemberChanges DEF Alike
<1>7. ExitsOnly(i)
  BY <1>2, <1>4 DEF ExitsOnly, MemberTypes
<1>8. ASSUME Still(i) PROVE membership[i].status = "PENDING_VERIFICATION" /\ RequestOK(i)'
  <2>1. membership[i].status = "PENDING_VERIFICATION" /\ RequestOK(i)
    BY <1>1, <1>8 DEF Still, IInv, RequestRows
  <2>2. OpenExits(i) = {} /\ OpenExits(i)' = OpenExits(i)
    BY <1>4, <2>1 DEF RequestOK, Leaving, OpenExits
  <2>3. membership'[i].status = "ENDED"
    BY <1>3, <1>6 DEF OneMember
  <2> QED
    BY <2>1, <2>2, <2>3 DEF RequestOK, Leaving
<1>9. Apart(i) /\ SeatOK(membership[i]) => SeatOK(m)
  BY <1>3, <1>8, ApartIsStill DEF SeatStays
<1> QED
  BY <1>1, <1>3, <1>4, <1>5, <1>6, <1>7, <1>8, <1>9 DEF Changes, OneMember

LEMMA RequestChanges ==
    ASSUME IInv, NEW w \in Worker, NEW type \in {"LEAVE", "REMOVAL"}, NEW option \in Option,
           NEW review \in BOOLEAN, NEW rule \in ReleaseRules,
           Request(w, type, option, review, rule), SameSeats,
           NEW i, i = task[w].member, NEW x, x = Len(exit) + 1
    PROVE  Changes(w, i)
<1> DEFINE row == [member |-> i, type |-> type, option |-> option, review |-> review,
                   status |-> IF type = "REMOVAL" /\ review THEN "PENDING_ADMIN" ELSE "PENDING_AGENCY"]
           b == [membership[i] EXCEPT !.exit = x,
                    !.status = IF type = "LEAVE" THEN "EXIT_REQUESTED" ELSE "REMOVAL_REQUESTED"]
           m == IF SelfApproved(type, review) THEN Approved(b, x, option, rule) ELSE b
           e == IF SelfApproved(type, review) THEN ApprovedExit(row, option) ELSE row
<1>0. task[w].op = "request"
  BY DEF Request, Doing
<1>1. /\ i \in DOMAIN membership /\ Member(i) \in task[w].about
      /\ Human(membership[i].person) \in task[w].about
      /\ Quiet(membership[i].person) => membership[i].status = "ACTIVE"
  BY <1>0, ReadsOf DEF Names, Reads, MemberOps
<1>2. MemberTypes /\ membership[i] \in MemberRow /\ i \in Nat
  BY <1>1, ReadsOf, MemberTyped
<1>3. exit \in Seq(ExitRow) /\ x \in Nat
  BY <1>2 DEF MemberTypes
<1>4. /\ Alike(membership[i], b) /\ SeatStays(membership[i], b) /\ b.exit = x
      /\ b.status = IF type = "LEAVE" THEN "EXIT_REQUESTED" ELSE "REMOVAL_REQUESTED"
  <2> DEFINE s == IF type = "LEAVE" THEN "EXIT_REQUESTED" ELSE "REMOVAL_REQUESTED"
  <2>1. s \in OpenStatus
    BY DEF OpenStatus, MembershipStatus
  <2>2. b \in MemberRow
    BY <1>2, <1>3, <2>1 DEF MemberRow, OpenStatus
  <2>3. SeatAlike(membership[i], b) /\ b.exit = x /\ b.status = s
    BY <1>2 DEF MemberRow, SeatAlike
  <2> HIDE DEF b, s
  <2>4. Alike(membership[i], b) /\ SeatStays(membership[i], b)
    BY <1>2, <2>1, <2>2, <2>3, GoesOnFor
  <2> QED
    BY <2>3, <2>4 DEF s
<1> HIDE DEF b
<1>5. /\ row \in ExitRow /\ row.member = i /\ row.type = type
      /\ row.status = IF type = "REMOVAL" /\ review THEN "PENDING_ADMIN" ELSE "PENDING_AGENCY"
  BY <1>2 DEF ExitRow, ExitStatus
<1> HIDE DEF row
<1> DEFINE Fits ==
             /\ Alike(b, m) /\ SeatStays(b, m) /\ e \in ExitRow /\ e.member = i /\ Agrees(m, x, e)
             /\ exit' = Append(exit, e) /\ membership' = [membership EXCEPT ![i] = m]
             /\ (UNCHANGED profile /\ m.status # "ENDED") \/ (Leaves(i) /\ m.status = "ENDED")
<1>6. ASSUME SelfApproved(type, review) PROVE Fits
  <2>1. m = Approved(b, x, option, rule) /\ e = ApprovedExit(row, option)
    BY <1>6
  <2>2. /\ Alike(b, m) /\ SeatStays(b, m)
        /\ option = "IMMEDIATE" => m.status = "ENDED"
        /\ option # "IMMEDIATE" => m.status = "ENDING" /\ m.exit = x
    <3> HIDE DEF m
    <3> QED
      BY <1>3, <1>4, <2>1, ApprovedEnds DEF Alike
  <2>3. /\ e \in ExitRow /\ e.member = i /\ e.type = type
        /\ e.status = IF option = "IMMEDIATE" THEN "COMPLETED" ELSE "APPROVED"
    BY <1>5, <2>1 DEF ApprovedExit, ExitRow, ExitStatus
  <2>4. /\ exit' = Append(exit, e) /\ membership' = [membership EXCEPT ![i] = m]
        /\ profile' = ApprovedProfile(i, option)
    BY <1>6, <2>1 DEF Request, b, row
  <2>5. (UNCHANGED profile /\ m.status # "ENDED") \/ (Leaves(i) /\ m.status = "ENDED")
    <3> HIDE DEF m
    <3> QED
      BY <1>1, <1>2, <2>2, <2>4, FormerLeaves DEF ApprovedProfile
  <2>6. Agrees(m, x, e)
    <3> HIDE DEF m, e
    <3> QED
      BY <2>2, <2>3 DEF Agrees, OpenExitStatus, Leaving
  <2> QED
    BY <2>2, <2>3, <2>4, <2>5, <2>6
<1>7. ASSUME ~SelfApproved(type, review) PROVE Fits
  <2>1. m = b /\ e = row
    BY <1>7
  <2>2. /\ exit' = Append(exit, e) /\ membership' = [membership EXCEPT ![i] = m] /\ UNCHANGED profile
    BY <1>7, <2>1 DEF Request, b, row
  <2>3. Alike(b, b) /\ SeatStays(b, b)
    BY <1>4 DEF Alike, SeatStays, MemberRow
  <2>4. Agrees(m, x, e) /\ m.status # "ENDED"
    <3> HIDE DEF m, e
    <3> QED
      BY <1>4, <1>5, <2>1 DEF Agrees, OpenExitStatus, Leaving
  <2>5. Alike(b, m) /\ SeatStays(b, m) /\ e \in ExitRow /\ e.member = i
    BY <1>5, <2>1, <2>3
  <2> HIDE DEF m, e
  <2> QED
    BY <2>2, <2>4, <2>5
<1>8. Fits
  BY <1>6, <1>7
<1>9. Commits(w) /\ UNCHANGED overridden
  BY DEF Request, Done, Commits
<1> HIDE DEF m, e
<1>10. Alike(membership[i], m)
  <2>1. b.released \in Nat /\ m.released \in Nat /\ membership[i].released \in Nat
    BY <1>2, <1>4, <1>8 DEF Alike, MemberRow
  <2>2. b.released >= membership[i].released /\ m.released >= b.released
    BY <1>4, <1>8 DEF Alike
  <2>3. m.released >= membership[i].released
    BY <2>1, <2>2
  <2> QED
    BY <1>4, <1>8, <2>3, Zenon DEF Alike
<1>11. OneMember(i, m)
  BY <1>1, <1>2, <1>8, <1>10, OneMemberChanges DEF Alike
<1>12. /\ exit' \in Seq(ExitRow) /\ DOMAIN exit' = DOMAIN exit \cup {x} /\ exit'[x] = e /\ x \notin DOMAIN exit
       /\ \A y \in DOMAIN exit : exit'[y] = exit[y]
  BY <1>3, <1>8, RowIsAdded
<1>13. ExitsOnly(i)
  BY <1>8, <1>12 DEF ExitsOnly
<1>14. ASSUME Still(i) PROVE membership[i].status = "ACTIVE" /\ RequestOK(i)'
  <2>1. membership[i].status = "ACTIVE" /\ RequestOK(i)
    BY <1>1, <1>14 DEF Still, IInv, RequestRows
  <2>2. OpenExits(i) = {}
    BY <2>1 DEF RequestOK, Leaving
  <2>3. OpenExits(i)' \subseteq {x}
    BY <1>12, <2>2 DEF OpenExits
  <2>4. x \in DOMAIN exit' /\ exit'[x].member = i /\ Agrees(membership'[i], x, exit'[x])
    BY <1>8, <1>11, <1>12 DEF OneMember
  <2> QED
    BY <2>1, <2>3, <2>4, RequestAgrees
<1>15. Apart(i) /\ SeatOK(membership[i]) => SeatOK(m)
  <2> SUFFICES ASSUME Apart(i), SeatOK(membership[i]) PROVE SeatOK(m)
    OBVIOUS
  <2>1. SeatOK(b)
    BY <1>4, <1>14, ApartIsStill DEF SeatStays
  <2>2. b.status # "ENDED"
    BY <1>4
  <2> QED
    BY <1>8, <2>1, <2>2 DEF SeatStays
<1> QED
  BY <1>1, <1>8, <1>9, <1>10, <1>11, <1>13, <1>14, <1>15 DEF Changes, OneMember

-------------------------------------------------------------------------------
(***************************************************************************)
(* The other commits                                                       *)
(***************************************************************************)
Activates(w) ==
    /\ Commits(w) /\ SameSeats /\ UNCHANGED <<exit, profile, overridden>>
    /\ task[w].members \subseteq DOMAIN membership
    /\ \A i \in task[w].members :
        /\ Human(membership[i].person) \in task[w].about
        /\ Quiet(membership[i].person) => membership[i].status = "PENDING_VERIFICATION"
    /\ membership' \in Seq(MemberRow) /\ DOMAIN membership' = DOMAIN membership
    /\ \A i \in DOMAIN membership \ task[w].members : membership'[i] = membership[i]
    /\ \A i \in task[w].members :
        /\ Alike(membership[i], membership'[i]) /\ SeatStays(membership[i], membership'[i])
        /\ membership'[i].status = "ACTIVE" /\ membership'[i].exit = membership[i].exit

LEMMA ActivateActivates == ASSUME IInv, NEW w \in Worker, Activate(w), SameSeats PROVE Activates(w)
<1> DEFINE M == task[w].members
           Row(i) == IF i \in M THEN [membership[i] EXCEPT !.status = "ACTIVE"] ELSE membership[i]
<1>0. task[w].op = "activate"
  BY DEF Activate, Doing
<1>1. /\ M \subseteq DOMAIN membership
      /\ \A i \in M : /\ Human(membership[i].person) \in task[w].about
                      /\ Quiet(membership[i].person) => membership[i].status = "PENDING_VERIFICATION"
  BY <1>0, ReadsOf DEF Names, Reads
<1>2. MemberTypes /\ membership \in Seq(MemberRow) /\ \A i \in DOMAIN membership : membership[i] \in MemberRow
  BY ReadsOf, MemberTyped DEF MemberTypes
<1>3. membership' = [i \in DOMAIN membership |-> Row(i)]
  BY DEF Activate
<1>4. \A i \in M :
        /\ Alike(membership[i], Row(i)) /\ SeatStays(membership[i], Row(i))
        /\ Row(i).status = "ACTIVE" /\ Row(i).exit = membership[i].exit
  <2> TAKE i \in M
  <2>1. "ACTIVE" \in OpenStatus
    BY DEF OpenStatus, MembershipStatus
  <2>2. membership[i] \in MemberRow /\ Row(i) = [membership[i] EXCEPT !.status = "ACTIVE"]
    BY <1>1, <1>2
  <2> HIDE DEF Row
  <2> QED
    BY <2>1, <2>2, GoesOn
<1>5. \A i \in DOMAIN membership \ M : Row(i) = membership[i]
  OBVIOUS
<1> HIDE DEF Row
<1>6. \A i \in DOMAIN membership : membership'[i] = Row(i) /\ Row(i) \in MemberRow
  BY <1>2, <1>3, <1>4, <1>5 DEF Alike
<1>7. membership' \in Seq(MemberRow) /\ DOMAIN membership' = DOMAIN membership
  BY <1>2, <1>3, <1>6, RowsChange
<1>8. Commits(w) /\ UNCHANGED <<exit, profile, overridden>>
  BY DEF Activate, Done, Commits
<1> QED
  BY <1>1, <1>4, <1>5, <1>6, <1>7, <1>8 DEF Activates

\* A seat that was held is returned.
Returns(w, i) ==
    /\ Commits(w) /\ SameSeats /\ UNCHANGED <<exit, profile, overridden>>
    /\ Member(i) \in task[w].about
    /\ \E m : /\ OneMember(i, m) /\ Alike(membership[i], m)
              /\ m.status = membership[i].status /\ m.exit = membership[i].exit
              /\ Apart(i) /\ SeatOK(membership[i]) => SeatOK(m)

LEMMA ReleaseReturns ==
    ASSUME IInv, NEW w \in Worker, Release(w), SameSeats, NEW i, i = task[w].member PROVE Returns(w, i)
<1> DEFINE m == Released(membership[i], TRUE)
<1>0. task[w].op = "release"
  BY DEF Release, Doing
<1>1. i \in DOMAIN membership /\ Member(i) \in task[w].about /\ (Apart(i) => SeatHeld(membership[i])) /\ MemberTypes
  BY <1>0, ReadsOf DEF Names, Reads, MemberOps
<1>2. membership[i] \in MemberRow
  BY <1>1, MemberTyped
<1>3. /\ Alike(membership[i], m) /\ m.status = membership[i].status /\ m.exit = membership[i].exit
      /\ Apart(i) /\ SeatOK(membership[i]) => SeatOK(m)
  BY <1>1, <1>2, ReturnedRow
<1>4. membership' = [membership EXCEPT ![i] = m] /\ Commits(w) /\ UNCHANGED <<exit, profile, overridden>>
  BY DEF Release, Done, Commits
<1> HIDE DEF m
<1>5. OneMember(i, m)
  BY <1>1, <1>3, <1>4, OneMemberChanges DEF Alike
<1> QED
  BY <1>1, <1>3, <1>4, <1>5 DEF Returns

\* A profile is archived.
Archives(w, p) ==
    /\ Commits(w) /\ SameSeats /\ UNCHANGED <<membership, exit, overridden>>
    /\ Human(p) \in task[w].about
    /\ \E q : /\ OneProfile(p, q) /\ Len(q) = Len(profile[p])
              /\ \A k \in DOMAIN profile[p] :
                    q[k].agency = profile[p][k].agency /\ (profile[p][k].archived => q[k].archived)

LEMMA ArchivedProfile ==
    ASSUME NEW pf \in Seq(ProfileRow), NEW k \in DOMAIN pf, NEW q, q = [pf EXCEPT ![k] = Archived(pf[k])]
    PROVE  /\ q \in Seq(ProfileRow) /\ Len(q) = Len(pf)
           /\ \A j \in DOMAIN pf : q[j].agency = pf[j].agency /\ (pf[j].archived => q[j].archived)
           /\ q[k].archived
<1> DEFINE r == Archived(pf[k])
<1>1. pf[k] \in ProfileRow
  OBVIOUS
<1>2. r \in ProfileRow /\ r.agency = pf[k].agency /\ r.archived
  BY <1>1 DEF ProfileRow, Archived
<1>3. q = [pf EXCEPT ![k] = r]
  OBVIOUS
<1> HIDE DEF r
<1> QED
  BY <1>2, <1>3, RowChanges

LEMMA ArchiveArchives ==
    ASSUME IInv, NEW w \in Worker, Archive(w), SameSeats, NEW p, p = task[w].person PROVE Archives(w, p)
<1> DEFINE k == task[w].profile
           q == [profile[p] EXCEPT ![k] = Archived(profile[p][k])]
<1>0. task[w].op = "archive"
  BY DEF Archive, Doing
<1>1. p \in Person /\ Human(p) \in task[w].about /\ k \in DOMAIN profile[p] /\ MemberTypes
  BY <1>0, ReadsOf DEF Names, PersonOps
<1>2. profile[p] \in Seq(ProfileRow)
  BY <1>1 DEF MemberTypes
<1>3. /\ q \in Seq(ProfileRow) /\ Len(q) = Len(profile[p])
      /\ \A j \in DOMAIN profile[p] : q[j].agency = profile[p][j].agency /\ (profile[p][j].archived => q[j].archived)
  <2>1. q = [profile[p] EXCEPT ![k] = Archived(profile[p][k])]
    OBVIOUS
  <2> HIDE DEF q, k
  <2> QED
    BY <1>1, <1>2, <2>1, ArchivedProfile DEF k
<1>4. profile' = [profile EXCEPT ![p] = q] /\ Commits(w) /\ UNCHANGED <<membership, exit, overridden>>
  BY <1>1 DEF Archive, Done, Commits, MemberTypes
<1> HIDE DEF q
<1>5. OneProfile(p, q)
  BY <1>1, <1>2, <1>3, <1>4 DEF OneProfile
<1> QED
  BY <1>1, <1>3, <1>4, <1>5 DEF Archives

\* A plan is assigned: who has no seat gets one.
AssignsSeats(w, a) ==
    /\ Commits(w) /\ UNCHANGED <<exit, profile, overridden, order>>
    /\ a = task[w].agency /\ a \in Agency /\ Office(a) \in task[w].about
    /\ \A i \in Unseated(a) : Apart(i) => Member(i) \in task[w].about
    /\ membership' \in Seq(MemberRow) /\ DOMAIN membership' = DOMAIN membership
    /\ \A i \in DOMAIN membership \ Unseated(a) : membership'[i] = membership[i]
    /\ \A i \in Unseated(a) :
        LET m == membership[i]
            n == membership'[i]
        IN  /\ n.person = m.person /\ n.profile = m.profile /\ n.agency = m.agency
            /\ n.status = m.status /\ n.exit = m.exit /\ n.released = m.released /\ n.seated
            /\ SeatOK(m) => SeatOK(n)
    /\ task[w].seats \in PlanSeats \cup {NoPlan}
    /\ Office(a) \notin raced => task[w].base = ledger[a].base
    /\ task[w].base \in Int
    /\ ledger' = [ledger EXCEPT ![a].base = @ - TakenBack(task[w].base) + BaseOf(task[w].seats)]
    /\ plan' = [plan EXCEPT ![a] = task[w].seats]
    /\ assigned' = assigned + 1

LEMMA AssignAssigns ==
    ASSUME IInv, NEW w \in Worker, Assign(w), NEW a, a = task[w].agency PROVE AssignsSeats(w, a)
<1> DEFINE U == Unseated(a)
           Row(i) == IF i \in U THEN GivenSeat(membership[i]) ELSE membership[i]
<1>0. task[w].op = "assign"
  BY DEF Assign, Doing
<1>1. /\ a \in Agency /\ Office(a) \in task[w].about /\ task[w].seats \in PlanSeats \cup {NoPlan}
      /\ task[w].base \in Int
      /\ Office(a) \notin raced => task[w].base = ledger[a].base
      /\ \A i \in U : Apart(i) => Member(i) \in task[w].about
  BY <1>0, ReadsOf DEF Names, Reads, OfficeOps
<1>2. MemberTypes /\ membership \in Seq(MemberRow) /\ \A i \in DOMAIN membership : membership[i] \in MemberRow
  BY ReadsOf, MemberTyped DEF MemberTypes
<1>3. membership' = [i \in DOMAIN membership |-> Row(i)]
  BY DEF Assign, Seated, GivenSeat
<1>4. \A i \in U : i \in DOMAIN membership /\ ~membership[i].seated /\ membership[i].status # "ENDED"
  BY DEF Unseated, Members, OpenMember, OpenStatus
<1>5. ASSUME NEW i \in U
      PROVE  LET m == membership[i]
                 n == Row(i)
             IN  /\ n \in MemberRow /\ n.person = m.person /\ n.profile = m.profile /\ n.agency = m.agency
                 /\ n.status = m.status /\ n.exit = m.exit /\ n.released = m.released /\ n.seated
                 /\ SeatOK(m) => SeatOK(n)
  <2>1. Row(i) = GivenSeat(membership[i]) /\ membership[i] \in MemberRow
    BY <1>2, <1>4
  <2> HIDE DEF Row, U
  <2> QED
    BY <1>4, <2>1, SeatGiven
<1>6. \A i \in DOMAIN membership \ U : Row(i) = membership[i]
  OBVIOUS
<1> HIDE DEF Row, U
<1>7. \A i \in DOMAIN membership : membership'[i] = Row(i) /\ Row(i) \in MemberRow
  BY <1>2, <1>3, <1>5, <1>6
<1>8. membership' \in Seq(MemberRow) /\ DOMAIN membership' = DOMAIN membership
  BY <1>2, <1>3, <1>7, RowsChange
<1>9. /\ Commits(w) /\ UNCHANGED <<exit, profile, overridden, order>> /\ assigned' = assigned + 1
      /\ ledger' = [ledger EXCEPT ![a].base = @ - TakenBack(task[w].base) + BaseOf(task[w].seats)]
      /\ plan' = [plan EXCEPT ![a] = task[w].seats]
  BY DEF Assign, Done, Commits
<1> QED
  BY <1>1, <1>4, <1>5, <1>6, <1>7, <1>8, <1>9 DEF AssignsSeats, U

-------------------------------------------------------------------------------
(***************************************************************************)
(* A person arrives in an agency, leaving the one they were in             *)
(***************************************************************************)
\* The profiles before the k-th are archived and of no agency.
Past(pf, k) == \A j \in 1..(k - 1) : pf[j].archived /\ pf[j].agency = NoAgency

LEMMA JoinedType ==
    ASSUME NEW pf \in Seq(ProfileRow), NEW k \in DOMAIN pf, NEW a \in Agency, NEW fresh,
           NEW q, q = JoinedProfiles(pf, k, a, fresh), NEW n, n = JoinedAs(pf, k, fresh)
    PROVE  /\ q \in Seq(ProfileRow) /\ Len(q) >= Len(pf) /\ n \in DOMAIN q /\ n \in Nat
           /\ k = Len(pf) /\ Past(pf, k) /\ pf[k].agency = NoAgency =>
                n = Len(q) /\ Past(q, n) /\ q[n].agency = a
<1>0. k \in 1..Len(pf) /\ Len(pf) \in Nat /\ k \in Nat /\ DOMAIN pf = 1..Len(pf)
  OBVIOUS
<1>1. CASE Rejoins(pf[k]) /\ fresh
  <2> DEFINE r == IF pf[k].archived THEN pf[k] ELSE Archived(pf[k])
             b == [pf EXCEPT ![k] = r]
             c == NewProfile(a)
  <2>1. r \in ProfileRow /\ r.agency = pf[k].agency /\ r.archived
    <3>1. pf[k] \in ProfileRow
      OBVIOUS
    <3> QED
      BY <3>1 DEF ProfileRow, Archived
  <2>2. c \in ProfileRow /\ c.agency = a
    BY DEF NewProfile, ProfileRow
  <2>3. q = Append(b, c) /\ n = Len(pf) + 1
    BY <1>1 DEF JoinedProfiles, JoinedAs
  <2> HIDE DEF r, c
  <2>4. /\ b \in Seq(ProfileRow) /\ Len(b) = Len(pf) /\ DOMAIN b = DOMAIN pf /\ b[k] = r
        /\ \A j \in DOMAIN pf \ {k} : b[j] = pf[j]
    BY <2>1, RowChanges
  <2> HIDE DEF b
  <2>5. /\ q \in Seq(ProfileRow) /\ Len(q) = Len(b) + 1 /\ DOMAIN q = DOMAIN b \cup {Len(b) + 1}
        /\ q[Len(b) + 1] = c /\ \A j \in DOMAIN b : q[j] = b[j]
    BY <2>2, <2>3, <2>4, RowIsAdded
  <2>6. Len(q) = Len(pf) + 1 /\ n = Len(q) /\ n \in DOMAIN q /\ q[n] = c
    BY <2>3, <2>4, <2>5
  <2>7. ASSUME k = Len(pf), Past(pf, k), pf[k].agency = NoAgency PROVE Past(q, n)
    <3> SUFFICES ASSUME NEW j \in 1..(n - 1) PROVE q[j].archived /\ q[j].agency = NoAgency
      BY DEF Past
    <3>1. j \in DOMAIN pf /\ q[j] = b[j]
      BY <1>0, <2>4, <2>5, <2>6
    <3>2. CASE j = k
      BY <2>1, <2>4, <2>7, <3>1, <3>2
    <3>3. CASE j # k
      <4>1. j \in 1..(k - 1) /\ b[j] = pf[j]
        BY <1>0, <2>4, <2>7, <3>1, <3>3
      <4> QED
        BY <2>7, <3>1, <4>1 DEF Past
    <3> QED
      BY <3>2, <3>3
  <2> QED
    BY <1>0, <2>2, <2>5, <2>6, <2>7
<1>2. CASE ~(Rejoins(pf[k]) /\ fresh)
  <2> DEFINE r == [pf[k] EXCEPT !.agency = a, !.status = "LISTED"]
  <2>1. r \in ProfileRow /\ r.agency = a
    <3>1. pf[k] \in ProfileRow
      OBVIOUS
    <3> QED
      BY <3>1 DEF ProfileRow
  <2>2. q = [pf EXCEPT ![k] = r] /\ n = k
    BY <1>2 DEF JoinedProfiles, JoinedAs
  <2> HIDE DEF r
  <2>3. /\ q \in Seq(ProfileRow) /\ Len(q) = Len(pf) /\ DOMAIN q = DOMAIN pf /\ q[k] = r
        /\ \A j \in DOMAIN pf \ {k} : q[j] = pf[j]
    BY <2>1, <2>2, RowChanges
  <2>4. ASSUME k = Len(pf), Past(pf, k) PROVE Past(q, n)
    BY <1>0, <2>2, <2>3, <2>4 DEF Past
  <2> QED
    BY <1>0, <2>1, <2>2, <2>3, <2>4
<1> QED
  BY <1>1, <1>2

Arrives(w, p, S) ==
    /\ Commits(w) /\ SameSeats /\ UNCHANGED exit
    /\ p \in Person /\ Human(p) \in task[w].about
    /\ \A i \in S : i \in DOMAIN membership /\ membership[i].person = p /\ Member(i) \in task[w].about
    /\ membership' \in Seq(MemberRow) /\ DOMAIN membership \subseteq DOMAIN membership'
    /\ \A i \in DOMAIN membership \ S : membership'[i] = membership[i]
    /\ \A i \in S : /\ Alike(membership[i], membership'[i]) /\ membership'[i].status = "ENDED"
                    /\ Apart(i) => membership[i].status # "ENDED" /\ SeatStays(membership[i], membership'[i])
    /\ \A n \in DOMAIN membership' \ DOMAIN membership :
        LET r == membership'[n]
        IN  /\ n = Len(membership) + 1
            /\ r.person = p /\ Office(r.agency) \in task[w].about /\ r.profile \in DOMAIN profile'[p]
            /\ r.status \in {"ACTIVE", "PENDING_VERIFICATION"}
            /\ r.seated /\ r.consumed = 1 /\ r.released = 0 /\ SeatOK(r)
    /\ \E q : OneProfile(p, q)
    /\ overridden' = overridden \cup {i \in S : OpenExits(i) # {}}
    /\ Calm(p)' => ProfileOK(p)'

\* Whoever arrived is in the agency of their last profile.
LEMMA ArrivedProfile ==
    ASSUME NEW p \in Person, NEW a \in Agency, NEW n, n \in DOMAIN membership', OpenFor(p)' = {n},
           membership'[n].agency = a, membership'[n].profile = Len(profile'[p]),
           Past(profile'[p], Len(profile'[p])), profile'[p][Len(profile'[p])].agency = a
    PROVE  ProfileOK(p)'
<1>1. a # NoAgency
  BY MembershipAssumption
<1>2. {membership'[i].agency : i \in OpenFor(p)'} = {a}
  OBVIOUS
<1> QED
  BY <1>1, <1>2 DEF ProfileOK, Past

LEMMA JoinArrives ==
    ASSUME IInv, NEW w \in Worker, NEW fresh, Join(w, fresh), NEW p, p = task[w].person
    PROVE  Arrives(w, p, {})
<1> DEFINE t == task[w]
           k == t.profile
           a == t.agency
           pf == profile[p]
           q == JoinedProfiles(pf, k, a, fresh)
           j == JoinedAs(pf, k, fresh)
           r == NewMember(p, j, a, t.status, 1)
           n == Len(membership) + 1
<1>0. t.op = "join"
  BY DEF Join, Doing
<1>1. /\ p \in Person /\ Human(p) \in t.about /\ k \in DOMAIN pf /\ a \in Agency /\ Office(a) \in t.about
      /\ t.status \in {"ACTIVE", "PENDING_VERIFICATION"} /\ MemberTypes
      /\ Quiet(p) => OpenFor(p) = {} /\ k = Len(pf)
  BY <1>0, ReadsOf DEF Names, Reads, PersonOps, OfficeOps
<1>2. pf \in Seq(ProfileRow) /\ membership \in Seq(MemberRow)
  BY <1>1 DEF MemberTypes
<1>3. /\ q \in Seq(ProfileRow) /\ Len(q) >= Len(pf) /\ j \in DOMAIN q /\ j \in Nat
      /\ k = Len(pf) /\ Past(pf, k) /\ pf[k].agency = NoAgency => j = Len(q) /\ Past(q, j) /\ q[j].agency = a
  <2> HIDE DEF k, a, pf
  <2> QED
    BY <1>1, <1>2, JoinedType
<1>4. /\ r \in MemberRow /\ r.person = p /\ r.profile = j /\ r.agency = a /\ r.status = t.status
      /\ r.seated /\ r.consumed = 1 /\ r.released = 0 /\ SeatOK(r)
  <2> HIDE DEF j, a, t
  <2> QED
    BY <1>1, <1>3, NewRow
<1>5. /\ membership' = Append(membership, r) /\ profile' = [profile EXCEPT ![p] = q]
      /\ Commits(w) /\ SameSeats /\ UNCHANGED <<exit, overridden>>
  BY <1>1 DEF Join, Done, Commits, SameSeats, MemberTypes
<1> HIDE DEF q, j, r
<1>6. /\ membership' \in Seq(MemberRow) /\ DOMAIN membership' = DOMAIN membership \cup {n} /\ membership'[n] = r
      /\ n \notin DOMAIN membership /\ \A i \in DOMAIN membership : membership'[i] = membership[i]
  BY <1>2, <1>4, <1>5, RowIsAdded
<1>7. OneProfile(p, q) /\ profile'[p] = q
  BY <1>1, <1>3, <1>5 DEF OneProfile, MemberTypes
<1>8. ASSUME Calm(p)' PROVE ProfileOK(p)'
  <2>1. Calm(p) /\ Quiet(p)
    <3>1. overridden \subseteq DOMAIN membership
      BY <1>1 DEF MemberTypes
    <3> QED
      BY <1>5, <1>6, <1>8, <3>1 DEF Calm, Quiet, Commits
  <2>2. ProfileOK(p) /\ OpenFor(p) = {} /\ k = Len(pf)
    BY <1>1, <2>1 DEF IInv, ProfileRows
  <2>3. Past(pf, k) /\ pf[k].agency = NoAgency
    BY <2>2 DEF ProfileOK, Past
  <2>4. j = Len(q) /\ Past(q, j) /\ q[j].agency = a
    BY <1>3, <2>2, <2>3
  <2>5. OpenFor(p)' = {n}
    <3>1. r.status \in OpenStatus
      BY <1>1, <1>4 DEF OpenStatus, MembershipStatus
    <3>2. \A i \in DOMAIN membership : ~(membership'[i].person = p /\ membership'[i].status \in OpenStatus)
      BY <1>6, <2>2 DEF OpenFor, OpenMember
    <3> QED
      BY <1>4, <1>6, <3>1, <3>2 DEF OpenFor, OpenMember
  <2> HIDE DEF n, a, pf, k
  <2> QED
    BY <1>1, <1>4, <1>6, <1>7, <2>4, <2>5, ArrivedProfile
<1> HIDE DEF n
<1>9. \A i \in DOMAIN membership' \ DOMAIN membership : i = n
  BY <1>6
<1> QED
  BY <1>1, <1>3, <1>4, <1>5, <1>6, <1>7, <1>8, <1>9 DEF Arrives, n

\* The memberships an override ends, and their rows.
EndedBy(t) == {c.member : c \in t.current}
LEMMA OverriddenRows ==
    ASSUME IInv, NEW w \in Worker, task[w].op = "override", NEW rule \in ReleaseRules,
           NEW S, S = EndedBy(task[w]),
           NEW ms, ms = OverriddenMembers(task[w].current, rule)
    PROVE  /\ ms \in Seq(MemberRow) /\ Len(ms) = Len(membership) /\ DOMAIN ms = DOMAIN membership
           /\ \A i \in S : /\ i \in DOMAIN membership /\ membership[i].person = task[w].person
                           /\ membership[i].profile = task[w].profile /\ Member(i) \in task[w].about
           /\ \A i \in DOMAIN membership \ S : ms[i] = membership[i]
           /\ \A i \in S : /\ Alike(membership[i], ms[i]) /\ ms[i].status = "ENDED"
                           /\ Apart(i) => membership[i].status # "ENDED" /\ SeatStays(membership[i], ms[i])
<1> DEFINE t == task[w]
           Of(i) == CHOOSE c \in t.current : c.member = i
           Row(i) == IF \E c \in t.current : c.member = i
                     THEN Exited(membership[i], Of(i).seated, rule, NoExit) ELSE membership[i]
<1>0. Names(t) /\ Reads(t) /\ t.op = "override"
  BY ReadsOf
<1>a. \A c \in t.current :
            /\ c.member \in DOMAIN membership /\ Member(c.member) \in t.about /\ c.seated \in BOOLEAN
            /\ membership[c.member].person = t.person /\ membership[c.member].profile = t.profile
  BY <1>0, Zenon DEF Names
<1>b. \A c \in t.current : Apart(c.member) => c.seated = membership[c.member].seated
  BY <1>0, Zenon DEF Reads
<1>c. Quiet(t.person) => S = OpenAs(t.person)
  BY <1>0, Zenon DEF Reads, EndedBy
<1>1. /\ \A c \in t.current :
            /\ c.member \in DOMAIN membership /\ Member(c.member) \in t.about /\ c.seated \in BOOLEAN
            /\ membership[c.member].person = t.person /\ membership[c.member].profile = t.profile
            /\ Apart(c.member) => c.seated = membership[c.member].seated
      /\ Quiet(t.person) => S = OpenAs(t.person)
  BY <1>a, <1>b, <1>c
<1>2. MemberTypes /\ membership \in Seq(MemberRow) /\ \A i \in DOMAIN membership : membership[i] \in MemberRow
  BY ReadsOf, MemberTyped DEF MemberTypes
<1>3. ms = [i \in DOMAIN membership |-> Row(i)]
  BY DEF OverriddenMembers
<1>4. \A i \in S : \E c \in t.current : c.member = i
  BY DEF EndedBy
<1>5. \A i : i \notin S => Row(i) = membership[i]
  BY DEF Row, EndedBy
<1>6. ASSUME NEW i \in S
      PROVE  /\ Alike(membership[i], Row(i)) /\ Row(i).status = "ENDED"
             /\ Apart(i) => membership[i].status # "ENDED" /\ SeatStays(membership[i], Row(i))
  <2> DEFINE c == Of(i)
  <2>1. c \in t.current /\ c.member = i
    BY <1>4
  <2>2. Row(i) = Exited(membership[i], c.seated, rule, NoExit)
    BY <2>1
  <2> HIDE DEF c, Row
  <2>3. c.seated \in BOOLEAN /\ membership[i] \in MemberRow /\ rule \in Rules /\ NoExit \in Nat
    BY <1>1, <1>2, <2>1 DEF Rules, NoExit
  <2>4. /\ Alike(membership[i], Row(i)) /\ Row(i).status = "ENDED"
        /\ (c.seated <=> membership[i].seated) => SeatStays(membership[i], Row(i))
    BY <2>2, <2>3, ExitEnds
  <2>5. ASSUME Apart(i) PROVE membership[i].status # "ENDED" /\ SeatStays(membership[i], Row(i))
    <3>1. Quiet(t.person) /\ c.seated = membership[i].seated
      BY <1>1, <2>1, <2>5, ApartIsStill
    <3>2. i \in OpenAs(t.person)
      BY <1>1, <3>1
    <3> QED
      BY <2>4, <3>1, <3>2 DEF OpenAs, OpenFor, OpenMember, OpenStatus
  <2> QED
    BY <2>4, <2>5
<1> HIDE DEF Row, Of
<1>7. \A i \in DOMAIN membership : ms[i] = Row(i) /\ Row(i) \in MemberRow
  BY <1>2, <1>3, <1>5, <1>6 DEF Alike
<1>8. ms \in Seq(MemberRow) /\ Len(ms) = Len(membership) /\ DOMAIN ms = DOMAIN membership
  BY <1>2, <1>3, <1>7, RowsChange
<1>9. \A i \in S : /\ i \in DOMAIN membership /\ membership[i].person = t.person
                   /\ membership[i].profile = t.profile /\ Member(i) \in t.about
  BY <1>1, <1>4
<1> QED
  BY <1>5, <1>6, <1>7, <1>8, <1>9

LEMMA LeftIsPast ==
    ASSUME MemberTypes, NEW p \in Person, ProfileOK(p), NEW k, k = Len(profile[p]), NEW pf,
           IF OpenFor(p) = {} THEN pf = profile[p] ELSE Left(profile[p], k, pf)
    PROVE  Past(pf, k) /\ pf[k].agency = NoAgency
<1>1. profile[p] \in Seq(ProfileRow) /\ k \in Nat /\ k >= 1 /\ DOMAIN profile[p] = 1..k
  BY DEF MemberTypes
<1>2. \A j \in 1..(k - 1) : profile[p][j].archived /\ profile[p][j].agency = NoAgency
  BY DEF ProfileOK
<1>3. {profile[p][k].agency} \ {NoAgency} = {membership[i].agency : i \in OpenFor(p)}
  BY DEF ProfileOK
<1>4. CASE OpenFor(p) = {}
  <2>1. profile[p][k].agency = NoAgency
    BY <1>3, <1>4
  <2> QED
    BY <1>2, <1>4, <2>1 DEF Past
<1>5. CASE OpenFor(p) # {}
  <2>1. /\ pf[k].agency = NoAgency
        /\ \A j \in 1..k : pf[j].archived = profile[p][j].archived /\ (j # k => pf[j] = profile[p][j])
    BY <1>1, <1>5 DEF Left
  <2>2. \A j \in 1..(k - 1) : j \in 1..k /\ j # k
    BY <1>1
  <2>3. Past(pf, k)
    BY <1>2, <2>1, <2>2 DEF Past
  <2> QED
    BY <2>1, <2>3
<1> QED
  BY <1>4, <1>5

LEMMA OverrideArrives ==
    ASSUME IInv, NEW w \in Worker, NEW fresh, NEW rule \in ReleaseRules, Override(w, fresh, rule),
           NEW p, p = task[w].person, NEW S, S = EndedBy(task[w])
    PROVE  Arrives(w, p, S)
<1> DEFINE t == task[w]
           k == t.profile
           a == t.to
           ms == OverriddenMembers(t.current, rule)
           e == CHOOSE i \in S : TRUE
           pf == IF S = {} THEN profile[p] ELSE MarkFormer(e)[p]
           q == JoinedProfiles(pf, k, a, fresh)
           j == JoinedAs(pf, k, fresh)
           s == IF verified[p] THEN "ACTIVE" ELSE "PENDING_VERIFICATION"
           r == NewMember(p, j, a, s, 1)
           n == Len(membership) + 1
<1>0. t.op = "override"
  BY DEF Override, Doing
<1>1. /\ p \in Person /\ Human(p) \in t.about /\ k \in DOMAIN profile[p]
      /\ a \in Agency \cup {NoAgency} /\ Office(a) \in t.about /\ MemberTypes
      /\ Quiet(p) => S = OpenAs(p) /\ k = Len(profile[p])
  BY <1>0, ReadsOf DEF Names, Reads, PersonOps, EndedBy
<1>2. profile[p] \in Seq(ProfileRow) /\ membership \in Seq(MemberRow)
  BY <1>1 DEF MemberTypes
<1>3. /\ ms \in Seq(MemberRow) /\ Len(ms) = Len(membership) /\ DOMAIN ms = DOMAIN membership
      /\ \A i \in S : /\ i \in DOMAIN membership /\ membership[i].person = p
                      /\ membership[i].profile = k /\ Member(i) \in t.about
      /\ \A i \in DOMAIN membership \ S : ms[i] = membership[i]
      /\ \A i \in S : /\ Alike(membership[i], ms[i]) /\ ms[i].status = "ENDED"
                      /\ Apart(i) => membership[i].status # "ENDED" /\ SeatStays(membership[i], ms[i])
  <2>1. ms = OverriddenMembers(task[w].current, rule) /\ task[w].op = "override"
    BY <1>0
  <2> HIDE DEF ms
  <2>2. /\ ms \in Seq(MemberRow) /\ Len(ms) = Len(membership) /\ DOMAIN ms = DOMAIN membership
        /\ \A i \in S : /\ i \in DOMAIN membership /\ membership[i].person = task[w].person
                        /\ membership[i].profile = task[w].profile /\ Member(i) \in task[w].about
        /\ \A i \in DOMAIN membership \ S : ms[i] = membership[i]
        /\ \A i \in S : /\ Alike(membership[i], ms[i]) /\ ms[i].status = "ENDED"
                        /\ Apart(i) => membership[i].status # "ENDED" /\ SeatStays(membership[i], ms[i])
    BY <2>1, OverriddenRows
  <2> QED
    BY <2>2
<1>4. /\ Commits(w) /\ SameSeats /\ UNCHANGED exit
      /\ overridden' = overridden \cup {i \in S : OpenExits(i) # {}}
      /\ IF a = NoAgency
         THEN membership' = ms /\ profile' = [profile EXCEPT ![p] = pf]
         ELSE membership' = Append(ms, r) /\ profile' = [profile EXCEPT ![p] = q]
  BY DEF Override, Done, Commits, SameSeats, EndedBy
<1> HIDE DEF ms
<1>5. /\ pf \in Seq(ProfileRow) /\ Len(pf) = Len(profile[p]) /\ k \in DOMAIN pf
      /\ IF S = {} THEN pf = profile[p] ELSE Left(profile[p], k, pf)
  <2>1. CASE S = {}
    BY <1>1, <1>2, <2>1
  <2>2. CASE S # {}
    <3>1. e \in S
      BY <2>2
    <3> HIDE DEF e
    <3>2. pf = [profile[p] EXCEPT ![k].status = "FORMER", ![k].agency = NoAgency]
      BY <1>1, <1>2, <1>3, <2>2, <3>1 DEF MarkFormer, MemberTypes
    <3> HIDE DEF pf, k
    <3>3. Left(profile[p], k, pf)
      BY <1>1, <1>2, <3>2, ProfileLeft
    <3>4. pf \in Seq(ProfileRow) /\ Len(pf) = Len(profile[p])
      BY <3>3 DEF Left
    <3>5. k \in DOMAIN pf
      BY <1>1, <1>2, <3>4
    <3> QED
      BY <2>2, <3>3, <3>4, <3>5
  <2> QED
    BY <2>1, <2>2
<1> HIDE DEF pf, q, j, r, e
<1>6. ASSUME a \in Agency
      PROVE  /\ q \in Seq(ProfileRow) /\ Len(q) >= Len(pf) /\ j \in DOMAIN q /\ j \in Nat
             /\ k = Len(pf) /\ Past(pf, k) /\ pf[k].agency = NoAgency => j = Len(q) /\ Past(q, j) /\ q[j].agency = a
             /\ r \in MemberRow /\ r.person = p /\ r.profile = j /\ r.agency = a /\ r.status = s
             /\ r.seated /\ r.consumed = 1 /\ r.released = 0 /\ SeatOK(r)
  <2> HIDE DEF k, a
  <2>1. /\ q \in Seq(ProfileRow) /\ Len(q) >= Len(pf) /\ j \in DOMAIN q /\ j \in Nat
        /\ k = Len(pf) /\ Past(pf, k) /\ pf[k].agency = NoAgency => j = Len(q) /\ Past(q, j) /\ q[j].agency = a
    BY <1>5, <1>6, JoinedType DEF q, j
  <2>2. s \in {"ACTIVE", "PENDING_VERIFICATION"}
    OBVIOUS
  <2> HIDE DEF s
  <2>3. /\ r \in MemberRow /\ r.person = p /\ r.profile = j /\ r.agency = a /\ r.status = s
        /\ r.seated /\ r.consumed = 1 /\ r.released = 0 /\ SeatOK(r)
    BY <1>1, <1>6, <2>1, <2>2, NewRow DEF r
  <2> QED
    BY <2>1, <2>3
<1>7. CASE a = NoAgency
  <2>1. membership' = ms /\ profile' = [profile EXCEPT ![p] = pf]
    BY <1>4, <1>7
  <2>2. OneProfile(p, pf) /\ profile'[p] = pf
    BY <1>1, <1>2, <1>5, <2>1 DEF OneProfile, MemberTypes
  <2>3. ASSUME Calm(p)' PROVE ProfileOK(p)'
    <3>1. Calm(p) /\ Quiet(p)
      <4>1. overridden \subseteq DOMAIN membership
        BY <1>1 DEF MemberTypes
      <4>2. \A i \in DOMAIN membership : membership'[i].person = membership[i].person
        BY <1>3, <2>1 DEF Alike
      <4> QED
        BY <1>4, <2>3, <4>1, <4>2 DEF Calm, Quiet, Commits
    <3>2. ProfileOK(p) /\ S = OpenFor(p) /\ k = Len(pf)
      BY <1>1, <1>5, <3>1 DEF IInv, ProfileRows, ProfileOK, OpenAs
    <3>3. Past(pf, k) /\ pf[k].agency = NoAgency
      <4>1. k = Len(profile[p]) /\ IF OpenFor(p) = {} THEN pf = profile[p] ELSE Left(profile[p], k, pf)
        BY <1>5, <3>2
      <4> HIDE DEF k
      <4> QED
        BY <1>1, <3>2, <4>1, LeftIsPast
    <3>4. OpenFor(p)' = {}
      BY <1>3, <2>1, <3>2 DEF OpenFor, OpenMember, OpenStatus
    <3> QED
      BY <2>2, <3>2, <3>3, <3>4 DEF ProfileOK, Past
  <2>4. /\ membership' \in Seq(MemberRow) /\ DOMAIN membership' = DOMAIN membership
        /\ \A i \in DOMAIN membership : membership'[i] = ms[i]
    BY <1>3, <2>1
  <2> QED
    BY <1>1, <1>3, <1>4, <2>2, <2>3, <2>4 DEF Arrives
<1>8. CASE a # NoAgency
  <2>1. membership' = Append(ms, r) /\ profile' = [profile EXCEPT ![p] = q] /\ a \in Agency
    BY <1>1, <1>4, <1>8
  <2>2. OneProfile(p, q) /\ profile'[p] = q
    BY <1>1, <1>5, <1>6, <2>1 DEF OneProfile, MemberTypes
  <2>3. /\ membership' \in Seq(MemberRow) /\ DOMAIN membership' = DOMAIN membership \cup {n} /\ membership'[n] = r
        /\ n \notin DOMAIN membership /\ \A i \in DOMAIN membership : membership'[i] = ms[i]
    BY <1>3, <1>6, <2>1, RowIsAdded
  <2>4. ASSUME Calm(p)' PROVE ProfileOK(p)'
    <3>1. Calm(p) /\ Quiet(p)
      <4>1. overridden \subseteq DOMAIN membership
        BY <1>1 DEF MemberTypes
      <4>2. \A i \in DOMAIN membership : membership'[i].person = membership[i].person
        BY <1>3, <2>3 DEF Alike
      <4> QED
        BY <1>4, <2>4, <4>1, <4>2 DEF Calm, Quiet, Commits
    <3>2. ProfileOK(p) /\ S = OpenFor(p) /\ k = Len(pf)
      BY <1>1, <1>5, <3>1 DEF IInv, ProfileRows, ProfileOK, OpenAs
    <3>3. Past(pf, k) /\ pf[k].agency = NoAgency
      <4>1. k = Len(profile[p]) /\ IF OpenFor(p) = {} THEN pf = profile[p] ELSE Left(profile[p], k, pf)
        BY <1>5, <3>2
      <4> HIDE DEF k
      <4> QED
        BY <1>1, <3>2, <4>1, LeftIsPast
    <3>4. j = Len(q) /\ Past(q, j) /\ q[j].agency = a
      BY <1>6, <2>1, <3>2, <3>3
    <3>5. OpenFor(p)' = {n}
      <4>1. r.status \in OpenStatus /\ r.person = p
        BY <1>6, <2>1 DEF OpenStatus, MembershipStatus
      <4>2. \A i \in DOMAIN membership : ~(membership'[i].person = p /\ membership'[i].status \in OpenStatus)
        BY <1>3, <2>3, <3>2 DEF OpenFor, OpenMember, OpenStatus
      <4> QED
        BY <2>3, <4>1, <4>2 DEF OpenFor, OpenMember
    <3>6. r.agency = a /\ r.profile = j
      BY <1>6, <2>1
    <3> HIDE DEF n, a, k
    <3> QED
      BY <1>1, <2>1, <2>2, <2>3, <3>4, <3>5, <3>6, ArrivedProfile
  <2>5. \A m \in DOMAIN membership' \ DOMAIN membership : m = n
    BY <2>3
  <2>6. /\ r.person = p /\ Office(r.agency) \in t.about /\ r.profile \in DOMAIN profile'[p]
        /\ r.status \in {"ACTIVE", "PENDING_VERIFICATION"}
        /\ r.seated /\ r.consumed = 1 /\ r.released = 0 /\ SeatOK(r)
    BY <1>1, <1>6, <2>1, <2>2
  <2>7. \A m \in DOMAIN membership' \ DOMAIN membership : m = Len(membership) + 1 /\ membership'[m] = r
    BY <2>3, <2>5
  <2>8. DOMAIN membership \subseteq DOMAIN membership'
    BY <2>3
  <2> HIDE DEF n, a, s
  <2>9. Commits(w) /\ SameSeats /\ UNCHANGED exit /\ overridden' = overridden \cup {i \in S : OpenExits(i) # {}}
    BY <1>4
  <2>10. /\ \A i \in S : i \in DOMAIN membership /\ membership[i].person = p /\ Member(i) \in t.about
         /\ \A i \in DOMAIN membership \ S : membership'[i] = membership[i]
         /\ \A i \in S : /\ Alike(membership[i], membership'[i]) /\ membership'[i].status = "ENDED"
                         /\ Apart(i) => membership[i].status # "ENDED" /\ SeatStays(membership[i], membership'[i])
    BY <1>3, <2>3
  <2> QED
    BY <1>1, <2>2, <2>3, <2>4, <2>6, <2>7, <2>8, <2>9, <2>10 DEF Arrives
<1> QED
  BY <1>7, <1>8

-------------------------------------------------------------------------------
(***************************************************************************)
(* What a step that is about A leaves alone                                *)
(***************************************************************************)
Net(m) == m.consumed - m.released
KeepsRow(A, i) ==
    LET m == membership[i]
        n == membership'[i]
    IN  /\ n.person = m.person /\ n.profile = m.profile /\ n.agency = m.agency
        /\ m.seated => n.seated
        /\ n.status = m.status \/ Human(m.person) \in A
        /\ Apart(i) /\ m.status = "ENDED" => n.status = "ENDED"
        /\ Apart(i) => \/ Member(i) \in A
                       \/ (n.seated <=> m.seated) /\ (SeatHeld(m) => SeatHeld(n))
        /\ Net(n) <= Net(m) \/ Office(m.agency) \in A
KeepsMembers(A) ==
    /\ membership' \in Seq(MemberRow) /\ DOMAIN membership \subseteq DOMAIN membership'
    /\ \A i \in DOMAIN membership : KeepsRow(A, i)
    /\ \A i \in DOMAIN membership' \ DOMAIN membership :
        LET n == membership'[i]
        IN  /\ Human(n.person) \in A /\ Office(n.agency) \in A /\ n.seated
            /\ n.profile \in DOMAIN profile'[n.person]
KeepsExits(A) ==
    /\ exit' \in Seq(ExitRow) /\ DOMAIN exit \subseteq DOMAIN exit'
    /\ \A x \in DOMAIN exit :
        /\ exit'[x].member = exit[x].member
        /\ exit'[x] = exit[x] \/ Human(membership[exit[x].member].person) \in A
    /\ \A x \in DOMAIN exit' \ DOMAIN exit : exit'[x].member \in DOMAIN membership
KeepsProfiles(A) ==
    /\ profile' \in [Person -> Seq(ProfileRow)] /\ verified' \in [Person -> BOOLEAN]
    /\ \A p \in Person : /\ Len(profile'[p]) >= Len(profile[p])
                         /\ profile'[p] = profile[p] \/ Human(p) \in A
KeepsSeats(A) ==
    /\ SeatTypes'
    /\ \A a \in Agency : Office(a) \notin A => ledger'[a].base = ledger[a].base /\ Total(a)' >= Total(a)
    /\ DOMAIN order \subseteq DOMAIN order'
    /\ \A o \in DOMAIN order : order'[o] = order[o] \/ Order(o) \in A
KeepsHistory == overridden \subseteq overridden' /\ overridden' \subseteq DOMAIN membership
Keeps(A) == KeepsMembers(A) /\ KeepsExits(A) /\ KeepsProfiles(A) /\ KeepsSeats(A) /\ KeepsHistory

LEMMA SameRow ==
    ASSUME MemberTypes, NEW A, NEW i \in DOMAIN membership, membership'[i] = membership[i]
    PROVE  KeepsRow(A, i)
<1>1. membership[i] \in MemberRow
  BY MemberTyped
<1>2. Net(membership[i]) <= Net(membership[i])
  BY <1>1 DEF MemberRow, Net
<1> QED
  BY <1>2 DEF KeepsRow

LEMMA AlikeRow ==
    ASSUME MemberTypes, NEW A, NEW i \in DOMAIN membership, Alike(membership[i], membership'[i]),
           membership'[i].status = membership[i].status \/ Human(membership[i].person) \in A,
           Apart(i) => membership[i].status # "ENDED" \/ Member(i) \in A,
           Apart(i) /\ membership[i].status = "ENDED" => membership'[i].status = "ENDED"
    PROVE  KeepsRow(A, i)
<1>1. membership[i] \in MemberRow /\ membership'[i] \in MemberRow
  BY MemberTyped DEF Alike
<1>2. Net(membership'[i]) <= Net(membership[i])
  BY <1>1 DEF MemberRow, Net, Alike
<1>3. SeatHeld(membership[i]) => membership[i].status = "ENDED"
  BY DEF SeatHeld
<1> QED
  BY <1>2, <1>3 DEF KeepsRow, Alike

LEMMA SameExits == ASSUME MemberTypes, NEW A, UNCHANGED exit PROVE KeepsExits(A)
BY DEF KeepsExits, MemberTypes

LEMMA SameProfiles == ASSUME MemberTypes, NEW A, UNCHANGED <<profile, verified>> PROVE KeepsProfiles(A)
<1>1. \A p \in Person : Len(profile[p]) \in Nat
  BY DEF MemberTypes
<1>2. profile' = profile /\ verified' = verified
  OBVIOUS
<1>3. \A p \in Person : Len(profile'[p]) >= Len(profile[p])
  BY <1>1, <1>2
<1> QED
  BY <1>2, <1>3 DEF KeepsProfiles, MemberTypes

LEMMA OneProfileKept ==
    ASSUME MemberTypes, NEW A, NEW p, NEW q, OneProfile(p, q), UNCHANGED verified, Human(p) \in A
    PROVE  KeepsProfiles(A)
<1>1. /\ profile \in [Person -> Seq(ProfileRow)] /\ verified' \in [Person -> BOOLEAN]
      /\ profile' = [profile EXCEPT ![p] = q] /\ p \in Person /\ q \in Seq(ProfileRow)
      /\ Len(q) >= Len(profile[p])
  BY DEF MemberTypes, OneProfile
<1>2. \A r \in Person : Len(profile[r]) \in Nat
  BY <1>1
<1>3. profile' \in [Person -> Seq(ProfileRow)] /\ profile'[p] = q /\ \A r \in Person \ {p} : profile'[r] = profile[r]
  BY <1>1
<1>4. \A r \in Person : Len(profile'[r]) >= Len(profile[r])
  BY <1>1, <1>2, <1>3
<1> QED
  BY <1>1, <1>3, <1>4 DEF KeepsProfiles

LEMMA TotalInt == ASSUME SeatTypes, NEW a \in Agency PROVE Total(a) \in Int /\ ledger[a].base \in Int
BY DEF SeatTypes, Total

LEMMA SameSeatsKept == ASSUME SeatTypes, NEW A, SameSeats PROVE KeepsSeats(A)
<1>1. plan' = plan /\ ledger' = ledger /\ order' = order /\ assigned' = assigned
  BY DEF SameSeats, seatVars
<1>2. SeatTypes'
  BY <1>1 DEF SeatTypes
<1>3. \A a \in Agency : Total(a) \in Int /\ Total(a)' = Total(a)
  BY <1>1, TotalInt DEF Total
<1> QED
  BY <1>1, <1>2, <1>3 DEF KeepsSeats

LEMMA SameMembersKept == ASSUME MemberTypes, NEW A, UNCHANGED membership PROVE KeepsMembers(A)
<1>1. membership' \in Seq(MemberRow) /\ DOMAIN membership' = DOMAIN membership
  BY DEF MemberTypes
<1> QED
  BY <1>1, SameRow DEF KeepsMembers

LEMMA SameHistory == ASSUME MemberTypes, UNCHANGED overridden PROVE KeepsHistory
BY DEF MemberTypes, KeepsHistory

LEMMA OneMemberKept ==
    ASSUME MemberTypes, NEW A, NEW i, NEW m, OneMember(i, m), KeepsRow(A, i)
    PROVE  KeepsMembers(A)
<1>1. membership' \in Seq(MemberRow) /\ DOMAIN membership' = DOMAIN membership
  BY DEF OneMember
<1>2. \A j \in DOMAIN membership : KeepsRow(A, j)
  <2> TAKE j \in DOMAIN membership
  <2>1. j # i => membership'[j] = membership[j]
    BY DEF OneMember
  <2> QED
    BY <2>1, SameRow
<1> QED
  BY <1>1, <1>2 DEF KeepsMembers

-------------------------------------------------------------------------------
LEMMA ChangesKeeps ==
    ASSUME IInv, NEW w \in Worker, NEW i, Changes(w, i), NEW A, A = task[w].about PROVE Keeps(A)
<1>0. MemberTypes /\ SeatTypes
  BY DEF IInv
<1>1. PICK m : /\ OneMember(i, m) /\ Alike(membership[i], m)
               /\ Apart(i) /\ SeatOK(membership[i]) => SeatOK(m)
  BY DEF Changes
<1>2. Member(i) \in A /\ Human(membership[i].person) \in A
  BY DEF Changes
<1>3. i \in DOMAIN membership /\ membership'[i] = m
  BY <1>1 DEF OneMember
<1>4. Apart(i) => membership[i].status # "ENDED"
  BY ApartIsStill DEF Changes
<1>5. KeepsRow(A, i)
  BY <1>0, <1>1, <1>2, <1>3, <1>4, AlikeRow
<1>6. KeepsMembers(A)
  BY <1>0, <1>1, <1>5, OneMemberKept
<1>7. KeepsExits(A)
  BY <1>0, <1>2, <1>3 DEF KeepsExits, Changes, ExitsOnly, MemberTypes
<1>8. UNCHANGED verified
  BY DEF Changes, Commits
<1>9. KeepsProfiles(A)
  BY <1>0, <1>2, <1>8, SameProfiles, OneProfileKept DEF Changes, Leaves
<1>10. KeepsSeats(A) /\ KeepsHistory
  BY <1>0, SameSeatsKept, SameHistory DEF Changes
<1> QED
  BY <1>6, <1>7, <1>9, <1>10 DEF Keeps

LEMMA ActivatesKeeps ==
    ASSUME IInv, NEW w \in Worker, Activates(w), NEW A, A = task[w].about PROVE Keeps(A)
<1>0. MemberTypes /\ SeatTypes
  BY DEF IInv
<1>1. \A i \in DOMAIN membership : KeepsRow(A, i)
  <2> TAKE i \in DOMAIN membership
  <2>1. CASE i \in task[w].members
    <3>1. Alike(membership[i], membership'[i]) /\ Human(membership[i].person) \in A
      BY <2>1 DEF Activates
    <3>2. Apart(i) => membership[i].status # "ENDED"
      BY <2>1, ApartIsStill DEF Activates
    <3> QED
      BY <1>0, <3>1, <3>2, AlikeRow
  <2>2. CASE i \notin task[w].members
    BY <1>0, <2>2, SameRow DEF Activates
  <2> QED
    BY <2>1, <2>2
<1>2. KeepsMembers(A)
  BY <1>1 DEF KeepsMembers, Activates
<1>3. KeepsExits(A) /\ KeepsProfiles(A) /\ KeepsSeats(A) /\ KeepsHistory
  BY <1>0, SameExits, SameProfiles, SameSeatsKept, SameHistory DEF Activates, Commits
<1> QED
  BY <1>2, <1>3 DEF Keeps

LEMMA ReturnsKeeps ==
    ASSUME IInv, NEW w \in Worker, NEW i, Returns(w, i), NEW A, A = task[w].about PROVE Keeps(A)
<1>0. MemberTypes /\ SeatTypes
  BY DEF IInv
<1>1. PICK m : /\ OneMember(i, m) /\ Alike(membership[i], m)
               /\ m.status = membership[i].status /\ m.exit = membership[i].exit
  BY DEF Returns
<1>2. Member(i) \in A
  BY DEF Returns
<1>3. i \in DOMAIN membership /\ membership'[i] = m
  BY <1>1 DEF OneMember
<1>5. KeepsRow(A, i)
  BY <1>0, <1>1, <1>2, <1>3, AlikeRow
<1>6. KeepsMembers(A)
  BY <1>0, <1>1, <1>5, OneMemberKept
<1>7. KeepsExits(A) /\ KeepsProfiles(A) /\ KeepsSeats(A) /\ KeepsHistory
  BY <1>0, SameExits, SameProfiles, SameSeatsKept, SameHistory DEF Returns, Commits
<1> QED
  BY <1>6, <1>7 DEF Keeps

LEMMA ArchivesKeeps ==
    ASSUME IInv, NEW w \in Worker, NEW p, Archives(w, p), NEW A, A = task[w].about PROVE Keeps(A)
<1>0. MemberTypes /\ SeatTypes
  BY DEF IInv
<1>1. PICK q : OneProfile(p, q)
  BY DEF Archives
<1>2. KeepsProfiles(A)
  BY <1>0, <1>1, OneProfileKept DEF Archives, Commits
<1>3. KeepsMembers(A) /\ KeepsExits(A) /\ KeepsSeats(A) /\ KeepsHistory
  BY <1>0, SameMembersKept, SameExits, SameSeatsKept, SameHistory DEF Archives
<1> QED
  BY <1>2, <1>3 DEF Keeps

LEMMA ArrivesKeeps ==
    ASSUME IInv, NEW w \in Worker, NEW p, NEW S, Arrives(w, p, S), NEW A, A = task[w].about PROVE Keeps(A)
<1>0. MemberTypes /\ SeatTypes
  BY DEF IInv
<1>1. p \in Person /\ Human(p) \in A /\ Commits(w) /\ SameSeats /\ UNCHANGED exit
  BY DEF Arrives
<1>2. \A i \in DOMAIN membership : KeepsRow(A, i)
  <2> TAKE i \in DOMAIN membership
  <2>1. CASE i \in S
    <3>1. /\ Alike(membership[i], membership'[i]) /\ membership'[i].status = "ENDED"
          /\ Apart(i) => membership[i].status # "ENDED"
          /\ Human(membership[i].person) \in A
      BY <1>1, <2>1 DEF Arrives
    <3> QED
      BY <1>0, <3>1, AlikeRow
  <2>2. CASE i \notin S
    BY <1>0, <2>2, SameRow DEF Arrives
  <2> QED
    BY <2>1, <2>2
<1>3. KeepsMembers(A)
  BY <1>1, <1>2 DEF KeepsMembers, Arrives
<1>4. KeepsProfiles(A)
  BY <1>0, <1>1, OneProfileKept DEF Arrives, Commits
<1>5. KeepsExits(A) /\ KeepsSeats(A)
  BY <1>0, <1>1, SameExits, SameSeatsKept
<1>6. KeepsHistory
  BY <1>0 DEF Arrives, KeepsHistory, MemberTypes
<1> QED
  BY <1>3, <1>4, <1>5, <1>6 DEF Keeps

LEMMA BaseInt ==
    ASSUME NEW s \in PlanSeats \cup {NoPlan} PROVE BaseOf(s) \in Nat
BY SeatsAssumption DEF BaseOf, NoPlan

LEMMA AssignsKeeps ==
    ASSUME IInv, NEW w \in Worker, NEW a, AssignsSeats(w, a), NEW A, A = task[w].about PROVE Keeps(A)
<1> DEFINE s == task[w].seats
           b == ledger[a].base - TakenBack(task[w].base) + BaseOf(s)
<1>0. MemberTypes /\ SeatTypes /\ a \in Agency /\ Office(a) \in A
  BY DEF IInv, AssignsSeats
<1>1. s \in PlanSeats \cup {NoPlan} /\ task[w].base \in Int /\ BaseOf(s) \in Nat
  BY BaseInt DEF AssignsSeats
<1>2. b \in Int
  BY <1>0, <1>1, TotalInt DEF TakenBack
<1>3. ledger' = [ledger EXCEPT ![a].base = b] /\ plan' = [plan EXCEPT ![a] = s] /\ order' = order
      /\ assigned' = assigned + 1
  BY DEF AssignsSeats
<1> HIDE DEF b, s
<1>4. SeatTypes'
  <2>1. plan' \in [Agency -> PlanSeats \cup {NoPlan}] /\ assigned' \in Nat /\ order' \in Seq(OrderRow)
    BY <1>0, <1>1, <1>3 DEF SeatTypes, s
  <2>2. ledger' \in [Agency -> [base: Int, adjusted: Int, purchased: Int]]
    BY <1>0, <1>2, <1>3 DEF SeatTypes
  <2> QED
    BY <2>1, <2>2 DEF SeatTypes
<1>5. \A c \in Agency : Office(c) \notin A => ledger'[c] = ledger[c]
  BY <1>0, <1>3 DEF SeatTypes
<1>6. \A c \in Agency : Office(c) \notin A => ledger'[c].base = ledger[c].base /\ Total(c)' >= Total(c)
  <2> TAKE c \in Agency
  <2> HAVE Office(c) \notin A
  <2>1. ledger'[c] = ledger[c] /\ Total(c) \in Int
    BY <1>0, <1>5, TotalInt
  <2>2. Total(c)' = Total(c)
    BY <2>1 DEF Total
  <2> QED
    BY <2>1, <2>2
<1>7. KeepsSeats(A)
  BY <1>3, <1>4, <1>6 DEF KeepsSeats
<1>8. \A i \in DOMAIN membership : KeepsRow(A, i)
  <2> TAKE i \in DOMAIN membership
  <2>1. CASE i \in Unseated(a)
    <3>1. membership[i].agency = a /\ membership[i].status # "ENDED"
      BY <2>1 DEF Unseated, Members, OpenMember, OpenStatus
    <3> QED
      BY <1>0, <2>1, <3>1 DEF AssignsSeats, KeepsRow
  <2>2. CASE i \notin Unseated(a)
    BY <1>0, <2>2, SameRow DEF AssignsSeats
  <2> QED
    BY <2>1, <2>2
<1>9. KeepsMembers(A)
  BY <1>8 DEF KeepsMembers, AssignsSeats
<1> QED
  BY <1>0, <1>7, <1>9, SameExits, SameProfiles, SameHistory DEF Keeps, AssignsSeats, Commits

LEMMA SameMemberships ==
    ASSUME IInv, UNCHANGED memberVars, NEW A
    PROVE  KeepsMembers(A) /\ KeepsExits(A) /\ KeepsProfiles(A) /\ KeepsHistory
<1>0. MemberTypes
  BY DEF IInv
<1> QED
  BY <1>0, SameMembersKept, SameExits, SameProfiles, SameHistory DEF memberVars

LEMMA NothingKeeps == ASSUME IInv, UNCHANGED memberVars, SameSeats, NEW A PROVE Keeps(A)
BY SameMemberships, SameSeatsKept DEF Keeps, IInv

LEMMA VerifyKeeps == ASSUME IInv, NEW w \in Worker, NEW p \in Person, Verify(w, p), SameSeats, NEW A PROVE Keeps(A)
<1>0. MemberTypes /\ SeatTypes
  BY DEF IInv
<1>1. /\ UNCHANGED <<membership, exit, profile, overridden>>
      /\ verified' = [verified EXCEPT ![p] = TRUE]
  BY DEF Verify
<1>2. KeepsProfiles(A)
  <2>1. \A q \in Person : Len(profile'[q]) >= Len(profile[q])
    <3>1. \A q \in Person : Len(profile[q]) \in Nat
      BY <1>0 DEF MemberTypes
    <3> QED
      BY <1>1, <3>1
  <2>2. verified' \in [Person -> BOOLEAN]
    BY <1>0, <1>1 DEF MemberTypes
  <2> QED
    BY <1>0, <1>1, <2>1, <2>2 DEF KeepsProfiles, MemberTypes
<1> QED
  BY <1>0, <1>1, <1>2, SameMembersKept, SameExits, SameSeatsKept, SameHistory DEF Keeps

LEMMA ChangeKeeps == ASSUME IInv, NEW w \in Worker, Change(w), NEW A, A = task[w].about PROVE Keeps(A)
<1> DEFINE a == task[w].agency
           d == ledger[a].adjusted + task[w].by
<1>0. MemberTypes /\ SeatTypes /\ task[w].op = "change" /\ Names(task[w])
  BY ReadsOf DEF IInv, Change, Doing
<1>1. a \in Agency /\ Office(a) \in A /\ task[w].by \in Int
  BY <1>0 DEF Names, OfficeOps
<1>2. ledger' = [ledger EXCEPT ![a].adjusted = d] /\ UNCHANGED <<memberVars, plan, order>> /\ assigned' = assigned + 1
  BY DEF Change
<1>3. d \in Int
  BY <1>0, <1>1 DEF SeatTypes
<1> HIDE DEF a, d
<1>4. ledger' \in [Agency -> [base: Int, adjusted: Int, purchased: Int]]
  BY <1>0, <1>1, <1>2, <1>3 DEF SeatTypes
<1>5. \A c \in Agency : Office(c) \notin A => ledger'[c] = ledger[c]
  BY <1>0, <1>1, <1>2 DEF SeatTypes
<1>6. \A c \in Agency : Office(c) \notin A => ledger'[c].base = ledger[c].base /\ Total(c)' >= Total(c)
  <2> TAKE c \in Agency
  <2> HAVE Office(c) \notin A
  <2>1. ledger'[c] = ledger[c] /\ Total(c) \in Int
    BY <1>0, <1>5, TotalInt
  <2>2. Total(c)' = Total(c)
    BY <2>1 DEF Total
  <2> QED
    BY <2>1, <2>2
<1>7. SeatTypes'
  BY <1>0, <1>2, <1>4 DEF SeatTypes
<1> QED
  BY <1>2, <1>6, <1>7, SameMemberships DEF Keeps, KeepsSeats

LEMMA OrderGrows ==
    ASSUME SeatTypes, NEW A, SeatTypes', DOMAIN order \subseteq DOMAIN order',
           \A o \in DOMAIN order : order'[o] = order[o] \/ Order(o) \in A,
           \A a \in Agency : ledger'[a].base = ledger[a].base /\ ledger'[a].adjusted >= ledger[a].adjusted
                             /\ ledger'[a].purchased >= ledger[a].purchased
    PROVE  KeepsSeats(A)
<1>1. \A a \in Agency : Total(a)' >= Total(a)
  BY DEF SeatTypes, Total
<1> QED
  BY <1>1 DEF KeepsSeats

LEMMA SettleTask ==
    ASSUME IInv, NEW w \in Worker, task[w].op = "settle", NEW o, o = task[w].order
    PROVE  /\ o \in DOMAIN order /\ order[o] \in OrderRow /\ Order(o) \in task[w].about
           /\ Order(o) \notin raced => Unsettled(o)
<1>1. Names(task[w]) /\ Reads(task[w]) /\ SeatTypes
  BY ReadsOf DEF IInv
<1>2. o \in DOMAIN order /\ Order(o) \in task[w].about
  BY <1>1 DEF Names
<1>3. Order(o) \notin raced => Unsettled(o)
  BY <1>1 DEF Reads
<1> QED
  BY <1>1, <1>2, <1>3, OrderTyped

LEMMA OrderAnswered ==
    ASSUME IInv, NEW o \in DOMAIN order, NEW s \in {"GRANTED", "REFUSED"},
           order' = [order EXCEPT ![o].status = s]
    PROVE  /\ order' \in Seq(OrderRow) /\ DOMAIN order' = DOMAIN order
           /\ order'[o].agency = order[o].agency /\ order'[o].type = order[o].type /\ order'[o].status = s
           /\ \A x \in DOMAIN order \ {o} : order'[x] = order[x]
<1> DEFINE r == [order[o] EXCEPT !.status = s]
<1>1. order[o] \in OrderRow /\ order \in Seq(OrderRow)
  BY OrderTyped DEF IInv, SeatTypes
<1>2. r \in OrderRow /\ r.agency = order[o].agency /\ r.type = order[o].type /\ r.status = s
  BY <1>1 DEF OrderRow
<1>3. order' = [order EXCEPT ![o] = r]
  BY <1>1
<1> HIDE DEF r
<1> QED
  BY <1>1, <1>2, <1>3, RowChanges

LEMMA GrantKeeps == ASSUME IInv, NEW w \in Worker, Grant(w), NEW A, A = task[w].about PROVE Keeps(A)
<1> DEFINE o == task[w].order
           a == order[o].agency
<1>0. MemberTypes /\ SeatTypes /\ task[w].op = "settle"
  BY DEF IInv, Grant, Doing
<1>1. o \in DOMAIN order /\ order[o] \in OrderRow /\ Order(o) \in A
  BY <1>0, SettleTask
<1>2. a \in Agency
  BY <1>1 DEF OrderRow
<1>3. /\ order' = [order EXCEPT ![o].status = "GRANTED"] /\ UNCHANGED <<memberVars, plan, assigned>>
      /\ ledger' = IF order[o].type = "REQUEST"
                   THEN [ledger EXCEPT ![a].adjusted = @ + PackSeats]
                   ELSE [ledger EXCEPT ![a].purchased = @ + PackSeats]
  BY DEF Grant
<1>4. order' \in Seq(OrderRow) /\ DOMAIN order' = DOMAIN order /\ \A x \in DOMAIN order \ {o} : order'[x] = order[x]
  <2> HIDE DEF o
  <2> QED
    BY <1>1, <1>3, OrderAnswered
<1> HIDE DEF a, o
<1>5. PackSeats \in Nat
  BY SeatsAssumption
<1>6. /\ ledger' \in [Agency -> [base: Int, adjusted: Int, purchased: Int]]
      /\ \A c \in Agency : ledger'[c].base = ledger[c].base /\ ledger'[c].adjusted >= ledger[c].adjusted
                           /\ ledger'[c].purchased >= ledger[c].purchased
  <2>1. CASE order[o].type = "REQUEST"
    <3>1. ledger' = [ledger EXCEPT ![a].adjusted = ledger[a].adjusted + PackSeats]
      BY <1>3, <2>1
    <3> QED
      BY <1>0, <1>2, <1>5, <3>1 DEF SeatTypes
  <2>2. CASE order[o].type # "REQUEST"
    <3>1. ledger' = [ledger EXCEPT ![a].purchased = ledger[a].purchased + PackSeats]
      BY <1>3, <2>2
    <3> QED
      BY <1>0, <1>2, <1>5, <3>1 DEF SeatTypes
  <2> QED
    BY <2>1, <2>2
<1>7. SeatTypes'
  BY <1>0, <1>3, <1>4, <1>6 DEF SeatTypes
<1>8. KeepsSeats(A)
  BY <1>0, <1>1, <1>4, <1>6, <1>7, OrderGrows
<1> QED
  BY <1>3, <1>8, SameMemberships DEF Keeps

LEMMA RefuseKeeps == ASSUME IInv, NEW w \in Worker, Refuse(w), NEW A, A = task[w].about PROVE Keeps(A)
<1> DEFINE o == task[w].order
<1>0. MemberTypes /\ SeatTypes /\ task[w].op = "settle"
  BY DEF IInv, Refuse, Doing
<1>1. o \in DOMAIN order /\ order[o] \in OrderRow /\ Order(o) \in A
  BY <1>0, SettleTask
<1>3. order' = [order EXCEPT ![o].status = "REFUSED"] /\ UNCHANGED <<memberVars, plan, ledger, assigned>>
  BY DEF Refuse
<1> HIDE DEF o
<1>4. order' \in Seq(OrderRow) /\ DOMAIN order' = DOMAIN order /\ \A x \in DOMAIN order \ {o} : order'[x] = order[x]
  BY <1>1, <1>3, OrderAnswered
<1>5. \A c \in Agency : /\ ledger'[c].base = ledger[c].base /\ ledger'[c].adjusted >= ledger[c].adjusted
                        /\ ledger'[c].purchased >= ledger[c].purchased
  BY <1>0, <1>3 DEF SeatTypes
<1>7. SeatTypes'
  BY <1>0, <1>3, <1>4 DEF SeatTypes
<1>8. KeepsSeats(A)
  BY <1>0, <1>1, <1>4, <1>5, <1>7, OrderGrows
<1> QED
  BY <1>3, <1>8, SameMemberships DEF Keeps

LEMMA PlaceOrderKeeps ==
    ASSUME IInv, NEW a \in Agency, NEW type \in {"REQUEST", "PURCHASE"}, PlaceOrder(a, type), NEW A
    PROVE  Keeps(A)
<1> DEFINE r == [agency |-> a, type |-> type, status |-> "PENDING"]
<1>0. MemberTypes /\ SeatTypes
  BY DEF IInv
<1>1. r \in OrderRow
  BY DEF OrderRow
<1>2. order' = Append(order, r) /\ UNCHANGED <<memberVars, plan, ledger, assigned>>
  BY DEF PlaceOrder
<1> HIDE DEF r
<1>3. /\ order' \in Seq(OrderRow) /\ DOMAIN order \subseteq DOMAIN order'
      /\ \A x \in DOMAIN order : order'[x] = order[x]
  BY <1>0, <1>1, <1>2, RowIsAdded DEF SeatTypes
<1>5. \A c \in Agency : /\ ledger'[c].base = ledger[c].base /\ ledger'[c].adjusted >= ledger[c].adjusted
                        /\ ledger'[c].purchased >= ledger[c].purchased
  BY <1>0, <1>2 DEF SeatTypes
<1>7. SeatTypes'
  BY <1>0, <1>2, <1>3 DEF SeatTypes
<1>8. KeepsSeats(A)
  BY <1>0, <1>3, <1>5, <1>7, OrderGrows
<1> QED
  BY <1>2, <1>8, SameMemberships DEF Keeps

-------------------------------------------------------------------------------
(***************************************************************************)
(* What it means for the requests of others                                *)
(***************************************************************************)
LEMMA KeepsTypes == ASSUME IInv, NEW A, Keeps(A) PROVE MemberTypes' /\ SeatTypes'
<1>0. MemberTypes
  BY DEF IInv
<1>1. SeatTypes'
  BY DEF Keeps, KeepsSeats
<1>2. /\ membership' \in Seq(MemberRow) /\ DOMAIN membership \subseteq DOMAIN membership'
      /\ exit' \in Seq(ExitRow) /\ DOMAIN exit \subseteq DOMAIN exit'
      /\ profile' \in [Person -> Seq(ProfileRow)] /\ verified' \in [Person -> BOOLEAN]
  BY DEF Keeps, KeepsMembers, KeepsExits, KeepsProfiles
<1>3. overridden' \subseteq DOMAIN membership'
  BY <1>2 DEF Keeps, KeepsHistory
<1>4. \A p \in Person : /\ Len(profile'[p]) >= Len(profile[p]) /\ Len(profile[p]) \in Nat /\ Len(profile[p]) >= 1
                        /\ Len(profile'[p]) \in Nat
                        /\ DOMAIN profile[p] = 1..Len(profile[p]) /\ DOMAIN profile'[p] = 1..Len(profile'[p])
  BY <1>0, <1>2 DEF Keeps, KeepsProfiles, MemberTypes
<1>5. \A p \in Person : Len(profile'[p]) >= 1 /\ DOMAIN profile[p] \subseteq DOMAIN profile'[p]
  BY <1>4
<1>6. \A i \in DOMAIN membership' : membership'[i].profile \in DOMAIN profile'[membership'[i].person]
  <2> TAKE i \in DOMAIN membership'
  <2>1. CASE i \in DOMAIN membership
    <3>1. membership'[i].person = membership[i].person /\ membership'[i].profile = membership[i].profile
      BY <2>1 DEF Keeps, KeepsMembers, KeepsRow
    <3> QED
      BY <1>0, <1>5, <2>1, <3>1, MemberTyped
  <2>2. CASE i \notin DOMAIN membership
    BY <2>2 DEF Keeps, KeepsMembers
  <2> QED
    BY <2>1, <2>2
<1>7. \A x \in DOMAIN exit' : exit'[x].member \in DOMAIN membership'
  <2> TAKE x \in DOMAIN exit'
  <2>1. CASE x \in DOMAIN exit
    BY <1>0, <1>2, <2>1 DEF Keeps, KeepsExits, MemberTypes
  <2>2. CASE x \notin DOMAIN exit
    BY <1>2, <2>2 DEF Keeps, KeepsExits
  <2> QED
    BY <2>1, <2>2
<1> QED
  BY <1>1, <1>2, <1>3, <1>5, <1>6, <1>7 DEF MemberTypes

LEMMA RowsFinite == ASSUME MemberTypes, NEW a PROVE IsFiniteSet(Members(a)) /\ Members(a) \subseteq DOMAIN membership
<1>1. IsFiniteSet(1..Len(membership)) /\ DOMAIN membership = 1..Len(membership)
  BY FS_Interval DEF MemberTypes
<1> QED
  BY <1>1, FS_Subset DEF Members

LEMMA UsedInt ==
    ASSUME MemberTypes, NEW a
    PROVE  /\ Used(a) \in Int /\ Used(a) = SumOver([i \in DOMAIN membership |-> Net(membership[i])], Members(a))
           /\ \A i \in DOMAIN membership : Net(membership[i]) \in Int
<1>1. \A i \in DOMAIN membership : Net(membership[i]) \in Int
  BY MemberTyped DEF Net, MemberRow
<1>2. Used(a) = SumOver([i \in DOMAIN membership |-> Net(membership[i])], Members(a))
  BY DEF Used, Net
<1>3. SumOver([i \in DOMAIN membership |-> Net(membership[i])], Members(a)) \in Int
  BY <1>1, RowsFinite, SumInt
<1> QED
  BY <1>1, <1>2, <1>3

LEMMA UsedKept ==
    ASSUME IInv, NEW A, Keeps(A), NEW a \in Agency, Office(a) \notin A
    PROVE  Used(a)' <= Used(a) /\ Total(a)' >= Total(a)
           /\ Used(a) \in Int /\ Used(a)' \in Int /\ Total(a) \in Int /\ Total(a)' \in Int
<1> DEFINE f == [i \in DOMAIN membership' |-> Net(membership'[i])]
           g == [i \in DOMAIN membership |-> Net(membership[i])]
<1>0. MemberTypes /\ SeatTypes /\ MemberTypes' /\ SeatTypes'
  BY KeepsTypes DEF IInv
<1>1. Members(a)' = Members(a)
  BY DEF Members, Keeps, KeepsMembers, KeepsRow
<1>2. /\ Used(a) = SumOver(g, Members(a)) /\ Used(a) \in Int
      /\ \A i \in DOMAIN membership : Net(membership[i]) \in Int
  BY <1>0, UsedInt
<1>3. /\ Used(a)' = SumOver(f, Members(a)') /\ Used(a)' \in Int
      /\ \A i \in DOMAIN membership' : Net(membership'[i]) \in Int
  <2>1. (MemberTypes => /\ Used(a) \in Int
                       /\ Used(a) = SumOver([i \in DOMAIN membership |-> Net(membership[i])], Members(a))
                       /\ \A i \in DOMAIN membership : Net(membership[i]) \in Int)'
    BY UsedInt, PTL
  <2> QED
    BY <1>0, <2>1
<1>4. \A i \in Members(a) : f[i] \in Int /\ g[i] \in Int /\ f[i] <= g[i]
  <2> TAKE i \in Members(a)
  <2>1. i \in DOMAIN membership /\ i \in DOMAIN membership' /\ membership[i].agency = a
    BY DEF Members, Keeps, KeepsMembers
  <2>2. Net(membership'[i]) <= Net(membership[i])
    BY <2>1 DEF Keeps, KeepsMembers, KeepsRow
  <2> QED
    BY <1>2, <1>3, <2>1, <2>2
<1> HIDE DEF f, g
<1>5. SumOver(f, Members(a)) <= SumOver(g, Members(a))
  BY <1>0, <1>4, RowsFinite, SumGrows
<1>6. Total(a)' >= Total(a)
  BY DEF Keeps, KeepsSeats
<1>7. Total(a) \in Int /\ Total(a)' \in Int
  BY <1>0 DEF Total, SeatTypes
<1> QED
  BY <1>1, <1>2, <1>3, <1>5, <1>6, <1>7

LEMMA NamesKept ==
    ASSUME IInv, NEW A, Keeps(A), NEW t, Names(t) PROVE Names(t)'
<1>0. MemberTypes
  BY DEF IInv
<1>1. DOMAIN membership \subseteq DOMAIN membership' /\ DOMAIN exit \subseteq DOMAIN exit'
      /\ DOMAIN order \subseteq DOMAIN order'
  BY DEF Keeps, KeepsMembers, KeepsExits, KeepsSeats
<1>2. \A i \in DOMAIN membership : membership'[i].person = membership[i].person
                                   /\ membership'[i].profile = membership[i].profile
  BY DEF Keeps, KeepsMembers, KeepsRow
<1>3. \A x \in DOMAIN exit : exit'[x].member = exit[x].member /\ exit[x].member \in DOMAIN membership
                             /\ OfExit(x)' = OfExit(x)
  <2>1. \A x \in DOMAIN exit : exit'[x].member = exit[x].member /\ exit[x].member \in DOMAIN membership
    BY <1>0 DEF Keeps, KeepsExits, MemberTypes
  <2> QED
    BY <1>2, <2>1 DEF OfExit
<1>4. \A p \in Person : DOMAIN profile[p] \subseteq DOMAIN profile'[p]
  <2>1. \A p \in Person : /\ Len(profile'[p]) >= Len(profile[p]) /\ profile[p] \in Seq(ProfileRow)
                          /\ profile'[p] \in Seq(ProfileRow)
    BY <1>0 DEF Keeps, KeepsProfiles, MemberTypes
  <2>2. \A p \in Person : /\ Len(profile[p]) \in Nat /\ Len(profile'[p]) \in Nat
                          /\ DOMAIN profile[p] = 1..Len(profile[p]) /\ DOMAIN profile'[p] = 1..Len(profile'[p])
    BY <2>1
  <2> QED
    BY <2>1, <2>2
<1>5. /\ t.op \in SeatOps
      /\ t.op = "idle" => t = Idle
      /\ t.op \in PersonOps => t.person \in Person /\ Human(t.person) \in t.about
      /\ t.op \in OfficeOps => t.agency \in Agency /\ Office(t.agency) \in t.about
      /\ t.op \in {"expire", "complete"} => t.seated \in BOOLEAN
      /\ t.op = "join" => t.status \in {"ACTIVE", "PENDING_VERIFICATION"}
      /\ t.op = "assign" => t.seats \in PlanSeats \cup {NoPlan} /\ t.base \in Int
      /\ t.op = "change" => t.by \in Int
  BY DEF Names
<1>6. t.op \in {"archive", "join", "override"} => t.profile \in DOMAIN profile'[t.person]
  BY <1>4 DEF Names, PersonOps
<1>7. t.op \in MemberOps => t.member \in DOMAIN membership' /\ Member(t.member) \in t.about
  BY <1>1 DEF Names
<1>8. t.op \in {"expire", "request"} => Human(membership'[t.member].person) \in t.about
  BY <1>2 DEF Names, MemberOps
<1>9. t.op = "activate" =>
        /\ t.members \subseteq DOMAIN membership'
        /\ \A i \in t.members : Human(membership'[i].person) \in t.about
  BY <1>1, <1>2 DEF Names
<1>10. t.op \in ExitOps => t.x \in DOMAIN exit' /\ OfExit(t.x)' \subseteq t.about
  BY <1>1, <1>3 DEF Names
<1>11. t.op = "override" =>
        /\ t.to \in Agency \cup {NoAgency} /\ Office(t.to) \in t.about
        /\ \A c, d \in t.current : c = d
        /\ \A c \in t.current :
            /\ c.member \in DOMAIN membership' /\ Member(c.member) \in t.about /\ c.seated \in BOOLEAN
            /\ membership'[c.member].person = t.person /\ membership'[c.member].profile = t.profile
  <2> HAVE t.op = "override"
  <2>1. /\ t.to \in Agency \cup {NoAgency} /\ Office(t.to) \in t.about
        /\ \A c, d \in t.current : c = d
    BY Zenon DEF Names
  <2>2. \A c \in t.current :
            /\ c.member \in DOMAIN membership /\ Member(c.member) \in t.about /\ c.seated \in BOOLEAN
            /\ membership[c.member].person = t.person /\ membership[c.member].profile = t.profile
    BY Zenon DEF Names
  <2>3. \A c \in t.current :
            /\ c.member \in DOMAIN membership' /\ Member(c.member) \in t.about /\ c.seated \in BOOLEAN
            /\ membership'[c.member].person = t.person /\ membership'[c.member].profile = t.profile
    BY <1>1, <1>2, <2>2
  <2> QED
    BY <2>1, <2>3
<1>12. t.op = "settle" => t.order \in DOMAIN order' /\ Order(t.order) \in t.about
  BY <1>1 DEF Names
<1> QED
  BY <1>5, <1>6, <1>7, <1>8, <1>9, <1>10, <1>11, <1>12, Zenon DEF Names

LEMMA CalmKept ==
    ASSUME IInv, NEW A, Keeps(A), raced \subseteq raced', NEW B, A \cap B \subseteq raced'
    PROVE  /\ \A p \in Person : Quiet(p)' => Quiet(p)
           /\ \A p \in Person : Quiet(p)' /\ Human(p) \in B =>
                /\ OpenFor(p)' = OpenFor(p) /\ OpenAs(p)' = OpenAs(p) /\ profile'[p] = profile[p]
                /\ \A i \in DOMAIN membership :
                     membership[i].person = p => membership'[i].status = membership[i].status
                /\ \A x \in DOMAIN exit : membership[exit[x].member].person = p => exit'[x] = exit[x]
           /\ \A i \in DOMAIN membership : Apart(i)' => Apart(i)
           /\ \A i \in DOMAIN membership : Apart(i)' /\ Member(i) \in B =>
                /\ membership'[i].seated <=> membership[i].seated
                /\ SeatHeld(membership[i]) => SeatHeld(membership'[i])
<1>0. MemberTypes
  BY DEF IInv
<1>1. \A p \in Person : Quiet(p)' => Quiet(p)
  BY DEF Quiet
<1>2. ASSUME NEW p \in Person, Quiet(p)', Human(p) \in B
      PROVE  /\ OpenFor(p)' = OpenFor(p) /\ OpenAs(p)' = OpenAs(p) /\ profile'[p] = profile[p]
             /\ \A i \in DOMAIN membership :
                  membership[i].person = p => membership'[i].status = membership[i].status
             /\ \A x \in DOMAIN exit : membership[exit[x].member].person = p => exit'[x] = exit[x]
  <2>1. Human(p) \notin A
    BY <1>2 DEF Quiet
  <2>2. profile'[p] = profile[p]
    BY <2>1 DEF Keeps, KeepsProfiles
  <2>3. \A i \in DOMAIN membership :
            /\ membership'[i].person = membership[i].person /\ membership'[i].profile = membership[i].profile
            /\ membership[i].person = p => membership'[i].status = membership[i].status
    BY <2>1 DEF Keeps, KeepsMembers, KeepsRow
  <2>4. /\ DOMAIN membership \subseteq DOMAIN membership'
        /\ \A i \in DOMAIN membership' : membership'[i].person = p => i \in DOMAIN membership
    BY <2>1 DEF Keeps, KeepsMembers
  <2>5. OpenFor(p)' = OpenFor(p)
    BY <2>3, <2>4 DEF OpenFor, OpenMember
  <2>6. OpenAs(p)' = OpenAs(p)
    BY <2>2, <2>3, <2>4, <2>5 DEF OpenAs, OpenFor
  <2>7. \A x \in DOMAIN exit : membership[exit[x].member].person = p => exit'[x] = exit[x]
    BY <2>1 DEF Keeps, KeepsExits
  <2> QED
    BY <2>2, <2>3, <2>5, <2>6, <2>7
<1>3. \A i \in DOMAIN membership : Apart(i)' => Apart(i)
  BY DEF Apart, Keeps, KeepsMembers, KeepsRow, KeepsHistory
<1>4. ASSUME NEW i \in DOMAIN membership, Apart(i)', Member(i) \in B
      PROVE  /\ membership'[i].seated <=> membership[i].seated
             /\ SeatHeld(membership[i]) => SeatHeld(membership'[i])
  <2>1. Member(i) \notin A
    BY <1>4 DEF Apart
  <2> QED
    BY <1>3, <1>4, <2>1 DEF Keeps, KeepsMembers, KeepsRow
<1> QED
  BY <1>1, <1>2, <1>3, <1>4

LEMMA ReadsKept ==
    ASSUME IInv, NEW A, Keeps(A), raced \subseteq raced',
           NEW t, Names(t), Reads(t), A \cap t.about \subseteq raced'
    PROVE  Reads(t)'
<1>0. MemberTypes
  BY DEF IInv
<1>1. \A i \in DOMAIN membership : membership[i].person \in Person /\ membership'[i].person = membership[i].person
  BY <1>0, MemberTyped DEF Keeps, KeepsMembers, KeepsRow
<1>2. \A x \in DOMAIN exit : exit[x].member \in DOMAIN membership /\ exit'[x].member = exit[x].member
  BY <1>0 DEF MemberTypes, Keeps, KeepsExits
<1>a. /\ \A p \in Person : Quiet(p)' => Quiet(p)
      /\ \A p \in Person : Quiet(p)' /\ Human(p) \in t.about =>
            /\ OpenFor(p)' = OpenFor(p) /\ OpenAs(p)' = OpenAs(p) /\ profile'[p] = profile[p]
            /\ \A i \in DOMAIN membership :
                 membership[i].person = p => membership'[i].status = membership[i].status
            /\ \A x \in DOMAIN exit : membership[exit[x].member].person = p => exit'[x] = exit[x]
      /\ \A i \in DOMAIN membership : Apart(i)' => Apart(i)
      /\ \A i \in DOMAIN membership : Apart(i)' /\ Member(i) \in t.about =>
            /\ membership'[i].seated <=> membership[i].seated
            /\ SeatHeld(membership[i]) => SeatHeld(membership'[i])
  BY CalmKept
<1>3. \A i \in DOMAIN membership :
        Quiet(membership[i].person)' /\ Human(membership[i].person) \in t.about
            => Quiet(membership[i].person) /\ membership'[i].status = membership[i].status
  <2> TAKE i \in DOMAIN membership
  <2> HAVE Quiet(membership[i].person)' /\ Human(membership[i].person) \in t.about
  <2>1. PICK p \in Person : p = membership[i].person /\ p = membership'[i].person
    BY <1>1
  <2>2. Quiet(p)' /\ Human(p) \in t.about
    BY <1>1, <2>1 DEF Quiet
  <2>3. Quiet(p) /\ membership'[i].status = membership[i].status
    BY <2>1, <2>2, <1>a
  <2> QED
    BY <2>1, <2>3
<1>4. t.op = "activate" => \A i \in t.members :
        Quiet(membership[i].person)' => membership'[i].status = "PENDING_VERIFICATION"
  BY <1>3 DEF Names, Reads
<1>5. t.op = "expire" /\ Quiet(membership[t.member].person)' =>
        membership'[t.member].status = "PENDING_VERIFICATION"
  BY <1>3 DEF Names, Reads, MemberOps
<1>6. t.op = "request" /\ Quiet(membership[t.member].person)' => membership'[t.member].status = "ACTIVE"
  BY <1>3 DEF Names, Reads, MemberOps
<1>7. t.op = "release" /\ Apart(t.member)' => SeatHeld(membership'[t.member])
  BY <1>a DEF Names, Reads, MemberOps
<1>8. ASSUME t.op \in ExitOps
      PROVE  /\ t.x \in DOMAIN exit /\ exit[t.x].member \in DOMAIN membership
             /\ exit'[t.x].member = exit[t.x].member /\ Member(exit[t.x].member) \in t.about
             /\ Quiet(membership[exit[t.x].member].person)' =>
                    Quiet(membership[exit[t.x].member].person) /\ exit'[t.x] = exit[t.x]
  <2>1. t.x \in DOMAIN exit /\ OfExit(t.x) \subseteq t.about
    BY <1>8 DEF Names
  <2>2. PICK i \in DOMAIN membership : i = exit[t.x].member /\ exit'[t.x].member = i
    BY <1>2, <2>1
  <2>3. PICK p \in Person : p = membership[i].person /\ p = membership'[i].person
    BY <1>1
  <2>4. Human(p) \in t.about /\ Member(i) \in t.about
    BY <2>1, <2>2, <2>3 DEF OfExit
  <2>5. Quiet(p)' => Quiet(p) /\ exit'[t.x] = exit[t.x]
    <3>1. membership[exit[t.x].member].person = p
      BY <2>2, <2>3
    <3>2. Quiet(p)' /\ Human(p) \in t.about => \A x \in DOMAIN exit : membership[exit[x].member].person = p => exit'[x] = exit[x]
      BY <1>a
    <3> QED
      BY <1>a, <2>1, <2>4, <3>1, <3>2
  <2>6. Quiet(membership[exit[t.x].member].person)' <=> Quiet(p)'
    BY <2>2, <2>3 DEF Quiet
  <2> QED
    BY <2>1, <2>2, <2>3, <2>4, <2>5, <2>6
<1>9. t.op \in {"cancel", "decide", "escalate"} /\ Quiet(membership[exit[t.x].member].person)'
        => Undecided(t.x)'
  <2> HAVE t.op \in {"cancel", "decide", "escalate"} /\ Quiet(membership[exit[t.x].member].person)'
  <2>1. t.op \in ExitOps
    BY DEF ExitOps
  <2>2. Undecided(t.x)
    BY <1>8, <2>1, Zenon DEF Reads
  <2> QED
    BY <1>8, <2>1, <2>2 DEF Undecided
<1>10. t.op = "complete" =>
        (Quiet(membership[exit[t.x].member].person)' => exit'[t.x].status = "APPROVED")
  <2> HAVE t.op = "complete"
  <2> HAVE Quiet(membership[exit[t.x].member].person)'
  <2>1. t.op \in ExitOps
    BY DEF ExitOps
  <2>2. exit[t.x].status = "APPROVED"
    BY <1>8, <2>1, Zenon DEF Reads
  <2> QED
    BY <1>8, <2>1, <2>2
<1>11. t.op = "complete" =>
        (Apart(exit[t.x].member)' => t.seated = membership'[exit'[t.x].member].seated)
  <2> HAVE t.op = "complete"
  <2>0. t.op \in ExitOps /\ t.seated \in BOOLEAN
    BY DEF ExitOps, Names
  <2>1. PICK i \in DOMAIN membership : i = exit[t.x].member /\ exit'[t.x].member = i /\ Member(i) \in t.about
    BY <1>8, <2>0
  <2>2. Apart(exit[t.x].member)' <=> Apart(i)'
    BY <2>1 DEF Apart
  <2>3. Apart(i) => t.seated = membership[i].seated
    BY <2>1, Zenon DEF Reads
  <2>4. membership[i].seated \in BOOLEAN /\ membership'[i].seated \in BOOLEAN
    <3>1. membership[i] \in MemberRow /\ membership'[i] \in MemberRow
      BY <1>0, MemberTyped DEF Keeps, KeepsMembers
    <3> QED
      BY <3>1 DEF MemberRow
  <2>5. Apart(i)' => Apart(i) /\ (membership'[i].seated <=> membership[i].seated)
    BY <2>1, <1>a
  <2>6. Apart(i)' => t.seated = membership'[i].seated
    BY <2>0, <2>3, <2>4, <2>5
  <2> QED
    BY <2>1, <2>2, <2>6
<1>12. t.op = "join" =>
        /\ Quiet(t.person)' => OpenFor(t.person)' = {} /\ t.profile = Len(profile'[t.person])
        /\ Office(t.agency) \notin raced' => Total(t.agency)' > Used(t.agency)'
  <2> HAVE t.op = "join"
  <2>1. t.person \in Person /\ Human(t.person) \in t.about /\ t.agency \in Agency /\ Office(t.agency) \in t.about
    BY DEF Names, PersonOps, OfficeOps
  <2>2. /\ Quiet(t.person) => OpenFor(t.person) = {} /\ t.profile = Len(profile[t.person])
        /\ Office(t.agency) \notin raced => Total(t.agency) > Used(t.agency)
    BY Zenon DEF Reads
  <2>3. Quiet(t.person)' => OpenFor(t.person)' = {} /\ t.profile = Len(profile'[t.person])
    BY <2>1, <2>2, <1>a
  <2>4. ASSUME Office(t.agency) \notin raced' PROVE Total(t.agency)' > Used(t.agency)'
    <3>1. Office(t.agency) \notin raced /\ Office(t.agency) \notin A
      BY <2>1, <2>4
    <3>2. PICK a \in Agency : a = t.agency
      BY <2>1
    <3>3. Used(a)' <= Used(a) /\ Total(a)' >= Total(a)
          /\ Used(a) \in Int /\ Used(a)' \in Int /\ Total(a) \in Int /\ Total(a)' \in Int
      BY <3>1, <3>2, UsedKept
    <3>4. Total(a) > Used(a)
      BY <2>2, <3>1, <3>2
    <3>5. Total(a)' > Used(a)'
      BY <3>3, <3>4
    <3> QED
      BY <3>2, <3>5
  <2> QED
    BY <2>3, <2>4
<1>13. t.op = "override" => (Quiet(t.person)' =>
        {c.member : c \in t.current} = OpenAs(t.person)' /\ t.profile = Len(profile'[t.person]))
  <2> HAVE t.op = "override"
  <2> HAVE Quiet(t.person)'
  <2>1. t.person \in Person /\ Human(t.person) \in t.about
    BY DEF Names, PersonOps
  <2>2. Quiet(t.person) /\ OpenAs(t.person)' = OpenAs(t.person) /\ profile'[t.person] = profile[t.person]
    BY <2>1, <1>a
  <2>3. {c.member : c \in t.current} = OpenAs(t.person) /\ t.profile = Len(profile[t.person])
    BY <2>2, Zenon DEF Reads
  <2> QED
    BY <2>2, <2>3
<1>14. t.op = "override" => \A c \in t.current : Apart(c.member)' => c.seated = membership'[c.member].seated
  <2> HAVE t.op = "override"
  <2> TAKE c \in t.current
  <2>1. c.member \in DOMAIN membership /\ Member(c.member) \in t.about /\ c.seated \in BOOLEAN
    BY Zenon DEF Names
  <2>2. PICK i \in DOMAIN membership : i = c.member
    BY <2>1
  <2>3. Apart(i) => c.seated = membership[i].seated
    BY <2>2, Zenon DEF Reads
  <2>4. membership[i].seated \in BOOLEAN /\ membership'[i].seated \in BOOLEAN
    <3>1. membership[i] \in MemberRow /\ membership'[i] \in MemberRow
      BY <1>0, MemberTyped DEF Keeps, KeepsMembers
    <3> QED
      BY <3>1 DEF MemberRow
  <2>5. Apart(i)' => Apart(i) /\ (membership'[i].seated <=> membership[i].seated)
    BY <2>1, <2>2, <1>a
  <2>6. Apart(i)' => c.seated = membership'[i].seated
    BY <2>1, <2>3, <2>4, <2>5
  <2> QED
    BY <2>2, <2>6
<1>15. t.op = "assign" => (Office(t.agency) \notin raced' => t.base = ledger'[t.agency].base)
  <2> HAVE t.op = "assign"
  <2> HAVE Office(t.agency) \notin raced'
  <2>1. t.agency \in Agency /\ Office(t.agency) \in t.about
    BY DEF Names, OfficeOps
  <2>2. Office(t.agency) \notin A /\ Office(t.agency) \notin raced
    BY <2>1
  <2>3. t.base = ledger[t.agency].base
    BY <2>2, Zenon DEF Reads
  <2> QED
    BY <2>1, <2>2, <2>3 DEF Keeps, KeepsSeats
<1>16. t.op = "assign" => \A i \in Unseated(t.agency)' : Apart(i)' => Member(i) \in t.about
  <2> HAVE t.op = "assign"
  <2> TAKE i \in Unseated(t.agency)'
  <2> HAVE Apart(i)'
  <2>1. i \in DOMAIN membership' /\ membership'[i].agency = t.agency /\ membership'[i].status \in OpenStatus
        /\ ~membership'[i].seated
    BY DEF Unseated, Members, OpenMember
  <2>2. i \in DOMAIN membership
    BY <2>1 DEF Keeps, KeepsMembers
  <2>3. /\ membership[i].agency = t.agency /\ ~membership[i].seated
        /\ Apart(i) /\ membership[i].status = "ENDED" => membership'[i].status = "ENDED"
    BY <2>1, <2>2 DEF Keeps, KeepsMembers, KeepsRow
  <2>4. Apart(i)
    BY <2>2, <1>a
  <2>5. membership[i].status \in OpenStatus
    <3>1. membership[i] \in MemberRow
      BY <1>0, <2>2, MemberTyped
    <3> QED
      BY <2>1, <2>3, <2>4, <3>1 DEF MemberRow, OpenStatus
  <2>6. i \in Unseated(t.agency)
    BY <2>2, <2>3, <2>5 DEF Unseated, Members, OpenMember
  <2> QED
    BY <2>4, <2>6, Zenon DEF Reads
<1>17. t.op = "settle" /\ Order(t.order) \notin raced' => Unsettled(t.order)'
  <2> HAVE t.op = "settle" /\ Order(t.order) \notin raced'
  <2>1. t.order \in DOMAIN order /\ Order(t.order) \in t.about
    BY Zenon DEF Names
  <2>2. Order(t.order) \notin raced /\ Order(t.order) \notin A
    BY <2>1
  <2>3. Unsettled(t.order)
    BY <2>2, Zenon DEF Reads
  <2> QED
    BY <2>1, <2>2, <2>3 DEF Keeps, KeepsSeats, Unsettled
<1> QED
  BY <1>4, <1>5, <1>6, <1>7, <1>9, <1>10, <1>11, <1>12, <1>13, <1>14, <1>15, <1>16, <1>17, Zenon DEF Reads

LEMMA NamesAre == ASSUME NEW v, NEW t, task'[v] = t, Names(t)' PROVE Names(task[v])'
BY DEF Names

LEMMA ReadsAre == ASSUME NEW v, NEW t, task'[v] = t, Reads(t)' PROVE Reads(task[v])'
BY DEF Reads

LEMMA IdleTask == Names(Idle) /\ Reads(Idle) /\ Idle.about = {} /\ Names(Idle)' /\ Reads(Idle)'
<1>1. Idle.op = "idle" /\ Idle.about = {}
  BY DEF Idle
<1>2. Names(Idle)
  BY <1>1 DEF Names, SeatOps, MemberOps, ExitOps, PersonOps, OfficeOps
<1>3. Reads(Idle)
  BY <1>1 DEF Reads
<1>4. Names(Idle)'
  BY <1>1 DEF Names, SeatOps, MemberOps, ExitOps, PersonOps, OfficeOps
<1>5. Reads(Idle)'
  BY <1>1 DEF Reads
<1> QED
  BY <1>1, <1>2, <1>3, <1>4, <1>5

LEMMA OtherTask ==
    ASSUME IInv, NEW A, Keeps(A), raced \subseteq raced',
           NEW v \in Worker, task'[v] = task[v], A \cap task[v].about \subseteq raced'
    PROVE  Names(task[v])' /\ Reads(task[v])'
<1>1. PICK t : t = task[v]
  OBVIOUS
<1>2. Names(t) /\ Reads(t)
  BY <1>1, ReadsOf
<1>3. Names(t)'
  BY <1>2, NamesKept
<1>4. Reads(t)'
  <2>1. A \cap t.about \subseteq raced'
    BY <1>1
  <2> QED
    BY <1>2, <2>1, ReadsKept
<1>5. task'[v] = t
  BY <1>1
<1> QED
  BY <1>3, <1>4, <1>5, NamesAre, ReadsAre

\* Whatever of B others are about is noted as raced.
Noted(w, B) == \A v \in Worker \ {w} : B \cap task[v].about \subseteq raced'

\* A step of w, whose task becomes t.
LEMMA TaskSteps ==
    ASSUME IInv, NEW A, Keeps(A), raced \subseteq raced',
           NEW w \in Worker, NEW t, task' = [task EXCEPT ![w] = t], Names(t)', Reads(t)',
           Noted(w, A), Noted(w, t.about)
    PROVE  TasksOK' /\ OneByOne'
<1>1. PICK T : task \in [Worker -> T]
  BY DEF IInv, TasksOK
<1>2. task' \in [Worker -> T \cup {t}] /\ task'[w] = t /\ \A v \in Worker \ {w} : task'[v] = task[v]
  BY <1>1
<1>3. \A v \in Worker \ {w} : Names(task[v])' /\ Reads(task[v])'
  <2> TAKE v \in Worker \ {w}
  <2>1. task'[v] = task[v] /\ A \cap task[v].about \subseteq raced'
    BY <1>2 DEF Noted
  <2> QED
    BY <2>1, OtherTask
<1>4. Names(task[w])' /\ Reads(task[w])'
  BY <1>2, NamesAre, ReadsAre
<1>5. TasksOK'
  <2>1. \E U : task' \in [Worker -> U]
    BY <1>2
  <2>2. \A v \in Worker : (Names(task[v]) /\ Reads(task[v]))'
    BY <1>3, <1>4
  <2> QED
    BY <2>1, <2>2 DEF TasksOK
<1>6. OneByOne'
  <2>1. \A v, u \in Worker : v # u => task[v].about \cap task[u].about \subseteq raced
    BY DEF IInv, OneByOne
  <2>2. \A v, u \in Worker : v # u => task'[v].about \cap task'[u].about \subseteq raced'
    BY <1>2, <2>1 DEF Noted
  <2> QED
    BY <2>2 DEF OneByOne
<1> QED
  BY <1>5, <1>6

LEMMA DoneTasks ==
    ASSUME IInv, NEW w \in Worker, NEW A, A = task[w].about, Keeps(A), Done(w)
    PROVE  TasksOK' /\ OneByOne'
<1>1. task' = [task EXCEPT ![w] = Idle] /\ raced' = raced
  BY DEF Done
<1>2. Noted(w, A) /\ Noted(w, Idle.about)
  BY <1>1, IdleTask DEF IInv, OneByOne, Noted
<1> QED
  BY <1>1, <1>2, IdleTask, TaskSteps

LEMMA BeginTasks ==
    ASSUME IInv, NEW w \in Worker, NEW t, Begin(w, t), NEW A, A = {}, Keeps(A), Names(t), Reads(t)
    PROVE  TasksOK' /\ OneByOne'
<1>1. /\ task' = [task EXCEPT ![w] = t]
      /\ raced' = raced \cup (t.about \cap UNION {task[v].about : v \in Worker})
  BY DEF Begin
<1>2. Noted(w, A) /\ Noted(w, t.about)
  BY <1>1 DEF Noted
<1>3. raced \subseteq raced' /\ A \cap t.about \subseteq raced'
  BY <1>1
<1>4. Names(t)' /\ Reads(t)'
  BY <1>3, NamesKept, ReadsKept
<1> QED
  BY <1>1, <1>2, <1>3, <1>4, TaskSteps

LEMMA BeginActivateTasks ==
    ASSUME IInv, NEW w \in Worker, BeginActivate(w), SameSeats
    PROVE  TasksOK' /\ OneByOne'
<1> DEFINE p == task[w].person
           pending == {i \in OpenFor(p) : membership[i].status = "PENDING_VERIFICATION"}
<1>1. PICK t : t = IF pending = {} THEN Idle
                   ELSE [op |-> "activate", members |-> pending, about |-> task[w].about]
  OBVIOUS
<1>2. task' = [task EXCEPT ![w] = t] /\ UNCHANGED <<memberVars, raced>> /\ task[w].op = "verify"
  BY <1>1 DEF BeginActivate, Doing
<1>3. p \in Person /\ Human(p) \in task[w].about
  BY <1>2, ReadsOf DEF Names, PersonOps
<1>4. \A i \in pending : /\ i \in DOMAIN membership /\ membership[i].person = p
                         /\ membership[i].status = "PENDING_VERIFICATION"
  BY DEF OpenFor
<1> HIDE DEF pending
<1>5. Names(t) /\ Reads(t) /\ t.about \subseteq task[w].about
  <2>1. CASE pending = {}
    BY <1>1, <2>1, IdleTask
  <2>2. CASE pending # {}
    <3>1. t.op = "activate" /\ t.members = pending /\ t.about = task[w].about
      BY <1>1, <2>2
    <3> HIDE DEF p
    <3>2. Names(t)
      BY <1>3, <1>4, <3>1 DEF Names, SeatOps, MemberOps, ExitOps, PersonOps, OfficeOps
    <3>3. Reads(t)
      BY <1>4, <3>1 DEF Reads
    <3> QED
      BY <3>1, <3>2, <3>3
  <2> QED
    BY <2>1, <2>2
<1>6. PICK A : A = {} /\ Keeps(A)
  BY <1>2, NothingKeeps
<1>7. raced' = raced /\ raced \subseteq raced' /\ A \cap t.about \subseteq raced'
  BY <1>2, <1>6
<1>8. Names(t)' /\ Reads(t)'
  BY <1>5, <1>6, <1>7, NamesKept, ReadsKept
<1>9. Noted(w, A) /\ Noted(w, t.about)
  BY <1>5, <1>6, <1>7 DEF IInv, OneByOne, Noted
<1> QED
  BY <1>2, <1>6, <1>7, <1>8, <1>9, TaskSteps

LEMMA SameTasks ==
    ASSUME IInv, NEW A, Keeps(A), A = {}, UNCHANGED <<task, raced>> PROVE TasksOK' /\ OneByOne'
<1>1. \A v \in Worker : Names(task[v])' /\ Reads(task[v])'
  BY OtherTask
<1>2. TasksOK'
  BY <1>1 DEF TasksOK, IInv
<1> QED
  BY <1>2 DEF OneByOne, IInv

-------------------------------------------------------------------------------
(***************************************************************************)
(* Requests that begin                                                     *)
(***************************************************************************)
LEMMA Begins ==
    ASSUME IInv, NEW w \in Worker, NEW t, Begin(w, t), UNCHANGED memberVars, SameSeats, Names(t), Reads(t)
    PROVE  TasksOK' /\ OneByOne'
<1>1. PICK A : A = {} /\ Keeps(A)
  BY NothingKeeps
<1> QED
  BY <1>1, BeginTasks

LEMMA VerifyTasks ==
    ASSUME IInv, NEW w \in Worker, NEW p \in Person, Verify(w, p), SameSeats
    PROVE  TasksOK' /\ OneByOne'
<1>1. PICK t : t = [op |-> "verify", person |-> p, about |-> {Human(p)}]
  OBVIOUS
<1>2. t.op = "verify" /\ t.person = p /\ t.about = {Human(p)}
  BY <1>1
<1>3. Begin(w, t)
  BY <1>1 DEF Verify
<1>4. PICK A : A = {} /\ Keeps(A)
  BY VerifyKeeps
<1>5. Names(t)
  BY <1>2 DEF Names, SeatOps, MemberOps, ExitOps, PersonOps, OfficeOps
<1>6. Reads(t)
  BY <1>2 DEF Reads
<1> QED
  BY <1>3, <1>4, <1>5, <1>6, BeginTasks

LEMMA BeginExpireTasks ==
    ASSUME IInv, NEW w \in Worker, NEW i \in DOMAIN membership, BeginExpire(w, i), SameSeats
    PROVE  TasksOK' /\ OneByOne'
<1>0. MemberTypes
  BY DEF IInv
<1>1. PICK t : t = [op |-> "expire", member |-> i, seated |-> membership[i].seated,
                about |-> {Member(i), Human(membership[i].person)}]
  OBVIOUS
<1>2. t.op = "expire" /\ t.member = i /\ t.about = {Member(i), Human(membership[i].person)} /\ t.seated = membership[i].seated
  BY <1>1
<1>3. Begin(w, t) /\ UNCHANGED memberVars /\ SameSeats
  BY <1>1 DEF BeginExpire
<1>4. membership[i].status = "PENDING_VERIFICATION" /\ membership[i].seated \in BOOLEAN
  BY <1>0, MemberTyped DEF BeginExpire, MemberRow
<1>8. Names(t)
  BY <1>2, <1>4 DEF Names, SeatOps, MemberOps, ExitOps, PersonOps, OfficeOps
<1>9. Reads(t)
  BY <1>2, <1>4 DEF Reads
<1> QED
  BY <1>3, <1>8, <1>9, Begins

LEMMA BeginRequestTasks ==
    ASSUME IInv, NEW w \in Worker, NEW i \in DOMAIN membership, BeginRequest(w, i), SameSeats
    PROVE  TasksOK' /\ OneByOne'
<1>0. MemberTypes
  BY DEF IInv
<1>1. PICK t : t = [op |-> "request", member |-> i, own |-> Own(i),
                about |-> {Member(i), Human(membership[i].person)}]
  OBVIOUS
<1>2. t.op = "request" /\ t.member = i /\ t.about = {Member(i), Human(membership[i].person)}
  BY <1>1
<1>3. Begin(w, t) /\ UNCHANGED memberVars /\ SameSeats
  BY <1>1 DEF BeginRequest
<1>4. membership[i].status = "ACTIVE" /\ membership[i].seated \in BOOLEAN
  BY <1>0, MemberTyped DEF BeginRequest, MemberRow
<1>8. Names(t)
  BY <1>2, <1>4 DEF Names, SeatOps, MemberOps, ExitOps, PersonOps, OfficeOps
<1>9. Reads(t)
  BY <1>2, <1>4 DEF Reads
<1> QED
  BY <1>3, <1>8, <1>9, Begins

LEMMA BeginReleaseTasks ==
    ASSUME IInv, NEW w \in Worker, NEW i \in DOMAIN membership, BeginRelease(w, i), SameSeats
    PROVE  TasksOK' /\ OneByOne'
<1>0. MemberTypes
  BY DEF IInv
<1>1. PICK t : t = [op |-> "release", member |-> i, about |-> {Member(i)}]
  OBVIOUS
<1>2. t.op = "release" /\ t.member = i /\ t.about = {Member(i)}
  BY <1>1
<1>3. Begin(w, t) /\ UNCHANGED memberVars /\ SameSeats
  BY <1>1 DEF BeginRelease
<1>4. SeatHeld(membership[i])
  BY DEF BeginRelease
<1>8. Names(t)
  BY <1>2 DEF Names, SeatOps, MemberOps, ExitOps, PersonOps, OfficeOps
<1>9. Reads(t)
  BY <1>2, <1>4 DEF Reads
<1> QED
  BY <1>3, <1>8, <1>9, Begins

LEMMA BeginCancelTasks ==
    ASSUME IInv, NEW w \in Worker, NEW x \in DOMAIN exit, BeginCancel(w, x), SameSeats
    PROVE  TasksOK' /\ OneByOne'
<1>0. MemberTypes
  BY DEF IInv
<1>1. PICK t : t = [op |-> "cancel", x |-> x, about |-> OfExit(x)]
  OBVIOUS
<1>2. t.op = "cancel" /\ t.x = x /\ t.about = OfExit(x)
  BY <1>1
<1>3. Begin(w, t) /\ UNCHANGED memberVars /\ SameSeats
  BY <1>1 DEF BeginCancel
<1>4. Undecided(x)
  BY DEF BeginCancel
<1>8. Names(t)
  BY <1>2, <1>4 DEF Names, SeatOps, MemberOps, ExitOps, PersonOps, OfficeOps
<1>9. Reads(t)
  BY <1>2, <1>4 DEF Reads
<1> QED
  BY <1>3, <1>8, <1>9, Begins

LEMMA BeginDecideTasks ==
    ASSUME IInv, NEW w \in Worker, NEW x \in DOMAIN exit, BeginDecide(w, x), SameSeats
    PROVE  TasksOK' /\ OneByOne'
<1>0. MemberTypes
  BY DEF IInv
<1>1. PICK t : t = [op |-> "decide", x |-> x, handOver |-> exit[x].status = "PENDING_AGENCY" /\ exit[x].review,
                about |-> OfExit(x)]
  OBVIOUS
<1>2. t.op = "decide" /\ t.x = x /\ t.about = OfExit(x)
  BY <1>1
<1>3. Begin(w, t) /\ UNCHANGED memberVars /\ SameSeats
  BY <1>1 DEF BeginDecide
<1>4. Undecided(x)
  BY DEF BeginDecide
<1>8. Names(t)
  BY <1>2, <1>4 DEF Names, SeatOps, MemberOps, ExitOps, PersonOps, OfficeOps
<1>9. Reads(t)
  BY <1>2, <1>4 DEF Reads
<1> QED
  BY <1>3, <1>8, <1>9, Begins

LEMMA BeginEscalateTasks ==
    ASSUME IInv, NEW w \in Worker, NEW x \in DOMAIN exit, BeginEscalate(w, x), SameSeats
    PROVE  TasksOK' /\ OneByOne'
<1>0. MemberTypes
  BY DEF IInv
<1>1. PICK t : t = [op |-> "escalate", x |-> x, about |-> OfExit(x)]
  OBVIOUS
<1>2. t.op = "escalate" /\ t.x = x /\ t.about = OfExit(x)
  BY <1>1
<1>3. Begin(w, t) /\ UNCHANGED memberVars /\ SameSeats
  BY <1>1 DEF BeginEscalate
<1>4. Undecided(x)
  BY DEF BeginEscalate, Undecided
<1>8. Names(t)
  BY <1>2, <1>4 DEF Names, SeatOps, MemberOps, ExitOps, PersonOps, OfficeOps
<1>9. Reads(t)
  BY <1>2, <1>4 DEF Reads
<1> QED
  BY <1>3, <1>8, <1>9, Begins

LEMMA BeginCompleteTasks ==
    ASSUME IInv, NEW w \in Worker, NEW x \in DOMAIN exit, BeginComplete(w, x), SameSeats
    PROVE  TasksOK' /\ OneByOne'
<1>0. MemberTypes
  BY DEF IInv
<1>1. PICK t : t = [op |-> "complete", x |-> x, about |-> OfExit(x),
                seated |-> membership[exit[x].member].seated]
  OBVIOUS
<1>2. t.op = "complete" /\ t.x = x /\ t.about = OfExit(x) /\ t.seated = membership[exit[x].member].seated
  BY <1>1
<1>3. Begin(w, t) /\ UNCHANGED memberVars /\ SameSeats
  BY <1>1 DEF BeginComplete
<1>4. exit[x].status = "APPROVED" /\ membership[exit[x].member].seated \in BOOLEAN
  BY <1>0, ExitTyped, MemberTyped DEF BeginComplete, MemberRow
<1>8. Names(t)
  BY <1>2, <1>4 DEF Names, SeatOps, MemberOps, ExitOps, PersonOps, OfficeOps
<1>9. Reads(t)
  BY <1>2, <1>4 DEF Reads
<1> QED
  BY <1>3, <1>8, <1>9, Begins

LEMMA BeginArchiveTasks ==
    ASSUME IInv, NEW w \in Worker, NEW p \in Person, NEW k \in DOMAIN profile[p], BeginArchive(w, p, k), SameSeats
    PROVE  TasksOK' /\ OneByOne'
<1>0. MemberTypes
  BY DEF IInv
<1>1. PICK t : t = [op |-> "archive", person |-> p, profile |-> k, about |-> {Human(p)}]
  OBVIOUS
<1>2. t.op = "archive" /\ t.person = p /\ t.profile = k /\ t.about = {Human(p)}
  BY <1>1
<1>3. Begin(w, t) /\ UNCHANGED memberVars /\ SameSeats
  BY <1>1 DEF BeginArchive
<1>8. Names(t)
  BY <1>2 DEF Names, SeatOps, MemberOps, ExitOps, PersonOps, OfficeOps
<1>9. Reads(t)
  BY <1>2 DEF Reads
<1> QED
  BY <1>3, <1>8, <1>9, Begins

LEMMA BeginJoinTasks ==
    ASSUME IInv, NEW w \in Worker, NEW p \in Person, NEW a \in Agency, BeginJoin(w, p, a)
    PROVE  TasksOK' /\ OneByOne'
<1>0. MemberTypes
  BY DEF IInv
<1>1. PICK t : t = [op |-> "join", person |-> p, profile |-> Len(profile[p]), agency |-> a,
                status |-> IF verified[p] THEN "ACTIVE" ELSE "PENDING_VERIFICATION",
                about |-> {Human(p), Office(a)}]
  OBVIOUS
<1>2. t.op = "join" /\ t.person = p /\ t.profile = Len(profile[p]) /\ t.agency = a
      /\ t.status \in {"ACTIVE", "PENDING_VERIFICATION"} /\ t.about = {Human(p), Office(a)}
  BY <1>1
<1>3. Begin(w, t) /\ UNCHANGED memberVars /\ SameSeats
  BY <1>1 DEF BeginJoin, SameSeats
<1>4. OpenFor(p) = {} /\ Total(a) > Used(a)
  <2>1. Available(a) >= 1 /\ OpenFor(p) = {}
    BY DEF BeginJoin, Accepts, HasRoom
  <2>2. Available(a) # 0
    BY <2>1
  <2> QED
    BY <2>1, <2>2 DEF Available
<1>5. Len(profile[p]) \in DOMAIN profile[p]
  <2>1. profile[p] \in Seq(ProfileRow) /\ Len(profile[p]) >= 1
    BY <1>0 DEF MemberTypes
  <2>2. Len(profile[p]) \in Nat /\ DOMAIN profile[p] = 1..Len(profile[p])
    BY <2>1
  <2> QED
    BY <2>1, <2>2
<1>8. Names(t)
  BY <1>2, <1>5 DEF Names, SeatOps, MemberOps, ExitOps, PersonOps, OfficeOps
<1>9. Reads(t)
  BY <1>2, <1>4 DEF Reads
<1> QED
  BY <1>3, <1>8, <1>9, Begins

LEMMA BeginOverrideTasks ==
    ASSUME IInv, NEW w \in Worker, NEW p \in Person, NEW a \in Agency \cup {NoAgency}, BeginOverride(w, p, a)
    PROVE  TasksOK' /\ OneByOne'
<1>0. MemberTypes
  BY DEF IInv
<1>1. PICK t : t = [op |-> "override", person |-> p, profile |-> Len(profile[p]), to |-> a,
                current |-> {[member |-> i, seated |-> membership[i].seated] : i \in OpenAs(p)},
                about |-> {Human(p), Office(a)} \cup {Member(i) : i \in OpenAs(p)}]
  OBVIOUS
<1>2. t.op = "override" /\ t.person = p /\ t.profile = Len(profile[p]) /\ t.to = a
      /\ t.current = {[member |-> i, seated |-> membership[i].seated] : i \in OpenAs(p)}
      /\ t.about = {Human(p), Office(a)} \cup {Member(i) : i \in OpenAs(p)}
  BY <1>1
<1>3. Begin(w, t) /\ UNCHANGED memberVars /\ SameSeats
  BY <1>1 DEF BeginOverride, SameSeats
<1>5. Len(profile[p]) \in DOMAIN profile[p]
  <2>1. profile[p] \in Seq(ProfileRow) /\ Len(profile[p]) >= 1
    BY <1>0 DEF MemberTypes
  <2>2. Len(profile[p]) \in Nat /\ DOMAIN profile[p] = 1..Len(profile[p])
    BY <2>1
  <2> QED
    BY <2>1, <2>2
<1>6. \A c \in t.current : c.member \in OpenAs(p) /\ c.seated = membership[c.member].seated
                           /\ c = [member |-> c.member, seated |-> membership[c.member].seated]
  BY <1>2
<1>7. \A i \in OpenAs(p) : /\ i \in DOMAIN membership /\ Member(i) \in t.about /\ membership[i].seated \in BOOLEAN
                           /\ membership[i].person = p /\ membership[i].profile = Len(profile[p])
  <2> TAKE i \in OpenAs(p)
  <2>1. i \in DOMAIN membership /\ membership[i].person = p /\ membership[i].profile = Len(profile[p])
    BY DEF OpenAs, OpenFor
  <2>2. membership[i].seated \in BOOLEAN
    BY <1>0, <2>1, MemberTyped DEF MemberRow
  <2> QED
    BY <1>2, <2>1, <2>2
<1>10. \A i, j \in OpenAs(p) : i = j
  <2>1. \A i, j \in DOMAIN membership :
            membership[i].person = membership[j].person
            /\ {membership[i].status, membership[j].status} \subseteq OpenStatus => i = j
    BY DEF IInv, UniqueOpen
  <2> QED
    BY <2>1 DEF OpenAs, OpenFor, OpenMember
<1>11. \A c, d \in t.current : c = d
  <2> TAKE c, d \in t.current
  <2>1. c.member = d.member
    BY <1>6, <1>10
  <2> QED
    BY <1>6, <2>1
<1>12. {c.member : c \in t.current} = OpenAs(p)
  <2>1. \A i \in OpenAs(p) : \E c \in t.current : c.member = i
    <3> TAKE i \in OpenAs(p)
    <3>1. [member |-> i, seated |-> membership[i].seated] \in t.current
      BY <1>2
    <3> QED
      BY <3>1
  <2> QED
    BY <1>6, <2>1
<1>8. Names(t)
  BY <1>2, <1>5, <1>6, <1>7, <1>11 DEF Names, SeatOps, MemberOps, ExitOps, PersonOps, OfficeOps
<1>9. Reads(t)
  BY <1>2, <1>6, <1>12 DEF Reads
<1> QED
  BY <1>3, <1>8, <1>9, Begins

LEMMA BeginAssignTasks ==
    ASSUME IInv, NEW w \in Worker, NEW a \in Agency, NEW s \in PlanSeats \cup {NoPlan}, BeginAssign(w, a, s)
    PROVE  TasksOK' /\ OneByOne'
<1>0. MemberTypes
  BY DEF IInv
<1>1. PICK t : t = [op |-> "assign", agency |-> a, seats |-> s, base |-> ledger[a].base,
                about |-> {Office(a)} \cup {Member(i) : i \in Unseated(a)}]
  OBVIOUS
<1>2. t.op = "assign" /\ t.agency = a /\ t.seats = s /\ t.base = ledger[a].base
      /\ t.about = {Office(a)} \cup {Member(i) : i \in Unseated(a)}
  BY <1>1
<1>3. Begin(w, t) /\ UNCHANGED memberVars /\ SameSeats
  BY <1>1 DEF BeginAssign, SameSeats
<1>4. ledger[a].base \in Int
  BY TotalInt DEF IInv
<1>8. Names(t)
  BY <1>2, <1>4 DEF Names, SeatOps, MemberOps, ExitOps, PersonOps, OfficeOps
<1>9. Reads(t)
  BY <1>2 DEF Reads
<1> QED
  BY <1>3, <1>8, <1>9, Begins

LEMMA BeginChangeTasks ==
    ASSUME IInv, NEW w \in Worker, NEW a \in Agency, NEW d \in {-1, 1}, BeginChange(w, a, d)
    PROVE  TasksOK' /\ OneByOne'
<1>0. MemberTypes
  BY DEF IInv
<1>1. PICK t : t = [op |-> "change", agency |-> a, by |-> d, about |-> {Office(a)}]
  OBVIOUS
<1>2. t.op = "change" /\ t.agency = a /\ t.by = d /\ t.about = {Office(a)}
  BY <1>1
<1>3. Begin(w, t) /\ UNCHANGED memberVars /\ SameSeats
  BY <1>1 DEF BeginChange, SameSeats
<1>8. Names(t)
  BY <1>2 DEF Names, SeatOps, MemberOps, ExitOps, PersonOps, OfficeOps
<1>9. Reads(t)
  BY <1>2 DEF Reads
<1> QED
  BY <1>3, <1>8, <1>9, Begins

LEMMA BeginSettleTasks ==
    ASSUME IInv, NEW w \in Worker, NEW o \in DOMAIN order, BeginSettle(w, o)
    PROVE  TasksOK' /\ OneByOne'
<1>0. MemberTypes
  BY DEF IInv
<1>1. PICK t : t = [op |-> "settle", order |-> o, about |-> {Order(o)}]
  OBVIOUS
<1>2. t.op = "settle" /\ t.order = o /\ t.about = {Order(o)}
  BY <1>1
<1>3. Begin(w, t) /\ UNCHANGED memberVars /\ SameSeats
  BY <1>1 DEF BeginSettle, SameSeats
<1>4. Unsettled(o)
  BY DEF BeginSettle
<1>8. Names(t)
  BY <1>2 DEF Names, SeatOps, MemberOps, ExitOps, PersonOps, OfficeOps
<1>9. Reads(t)
  BY <1>2, <1>4 DEF Reads
<1> QED
  BY <1>3, <1>8, <1>9, Begins

-------------------------------------------------------------------------------
(***************************************************************************)
(* The seats of memberships                                                *)
(***************************************************************************)
LEMMA SeatRowsKept ==
    ASSUME IInv, NEW A, Keeps(A), raced \subseteq raced',
           \A i \in DOMAIN membership : Apart(i) /\ SeatOK(membership[i]) => SeatOK(membership'[i]),
           \A i \in DOMAIN membership' \ DOMAIN membership : SeatOK(membership'[i])
    PROVE  SeatRows'
<1> SUFFICES ASSUME NEW i \in DOMAIN membership', Apart(i)' PROVE SeatOK(membership'[i])
  BY DEF SeatRows, SeatOK, Expired
<1>1. ASSUME i \in DOMAIN membership PROVE SeatOK(membership'[i])
  <2>1. Apart(i)
    BY <1>1 DEF Apart, Keeps, KeepsMembers, KeepsRow, KeepsHistory
  <2> QED
    BY <1>1, <2>1 DEF IInv, SeatRows
<1> QED
  BY <1>1

LEMMA SameSeatRows ==
    ASSUME IInv, NEW A, Keeps(A), raced \subseteq raced', UNCHANGED membership
    PROVE  SeatRows'
<1>1. \A i \in DOMAIN membership : SeatOK(membership[i]) => SeatOK(membership'[i])
  OBVIOUS
<1>2. DOMAIN membership' \ DOMAIN membership = {}
  OBVIOUS
<1> QED
  BY <1>1, <1>2, SeatRowsKept

LEMMA ChangesSeats ==
    ASSUME IInv, NEW w \in Worker, NEW i, Changes(w, i) PROVE SeatRows'
<1>1. PICK m : OneMember(i, m) /\ (Apart(i) /\ SeatOK(membership[i]) => SeatOK(m))
  BY DEF Changes
<1>2. \A j \in DOMAIN membership : Apart(j) /\ SeatOK(membership[j]) => SeatOK(membership'[j])
  BY <1>1 DEF OneMember
<1>3. DOMAIN membership' \ DOMAIN membership = {} /\ raced' = raced
  BY <1>1 DEF OneMember, Changes, Commits
<1>4. PICK A : A = task[w].about /\ Keeps(A)
  BY ChangesKeeps
<1> QED
  BY <1>2, <1>3, <1>4, SeatRowsKept

LEMMA ActivatesSeats == ASSUME IInv, NEW w \in Worker, Activates(w) PROVE SeatRows'
<1>2. ASSUME NEW j \in DOMAIN membership, Apart(j), SeatOK(membership[j]) PROVE SeatOK(membership'[j])
  <2>1. CASE j \in task[w].members
    <3>1. membership[j].status # "ENDED"
      BY <1>2, <2>1, ApartIsStill DEF Activates
    <3> QED
      BY <1>2, <2>1, <3>1 DEF Activates, SeatStays
  <2>2. CASE j \notin task[w].members
    BY <1>2, <2>2 DEF Activates
  <2> QED
    BY <2>1, <2>2
<1>3. DOMAIN membership' \ DOMAIN membership = {} /\ raced' = raced
  BY DEF Activates, Commits
<1>4. PICK A : A = task[w].about /\ Keeps(A)
  BY ActivatesKeeps
<1> QED
  BY <1>2, <1>3, <1>4, SeatRowsKept

LEMMA ReturnsSeats == ASSUME IInv, NEW w \in Worker, NEW i, Returns(w, i) PROVE SeatRows'
<1>1. PICK m : OneMember(i, m) /\ (Apart(i) /\ SeatOK(membership[i]) => SeatOK(m))
  BY DEF Returns
<1>2. \A j \in DOMAIN membership : Apart(j) /\ SeatOK(membership[j]) => SeatOK(membership'[j])
  BY <1>1 DEF OneMember
<1>3. DOMAIN membership' \ DOMAIN membership = {} /\ raced' = raced
  BY <1>1 DEF OneMember, Returns, Commits
<1>4. PICK A : A = task[w].about /\ Keeps(A)
  BY ReturnsKeeps
<1> QED
  BY <1>2, <1>3, <1>4, SeatRowsKept

LEMMA ArrivesSeats ==
    ASSUME IInv, NEW w \in Worker, NEW p, NEW S, Arrives(w, p, S) PROVE SeatRows'
<1>2. ASSUME NEW j \in DOMAIN membership, Apart(j), SeatOK(membership[j]) PROVE SeatOK(membership'[j])
  <2>1. CASE j \in S
    BY <1>2, <2>1 DEF Arrives, SeatStays
  <2>2. CASE j \notin S
    BY <1>2, <2>2 DEF Arrives
  <2> QED
    BY <2>1, <2>2
<1>3. \A j \in DOMAIN membership' \ DOMAIN membership : SeatOK(membership'[j])
  BY DEF Arrives
<1>4. PICK A : A = task[w].about /\ Keeps(A)
  BY ArrivesKeeps
<1>5. raced' = raced
  BY DEF Arrives, Commits
<1> QED
  BY <1>2, <1>3, <1>4, <1>5, SeatRowsKept

LEMMA AssignsRows == ASSUME IInv, NEW w \in Worker, NEW a, AssignsSeats(w, a) PROVE SeatRows'
<1>2. \A j \in DOMAIN membership : Apart(j) /\ SeatOK(membership[j]) => SeatOK(membership'[j])
  BY DEF AssignsSeats
<1>3. DOMAIN membership' \ DOMAIN membership = {} /\ raced' = raced
  BY DEF AssignsSeats, Commits
<1>4. PICK A : A = task[w].about /\ Keeps(A)
  BY AssignsKeeps
<1> QED
  BY <1>2, <1>3, <1>4, SeatRowsKept

-------------------------------------------------------------------------------
(***************************************************************************)
(* The exit requests of memberships                                        *)
(***************************************************************************)
SameRequest(i) ==
    /\ membership'[i].status = membership[i].status /\ membership'[i].exit = membership[i].exit
    /\ OpenExits(i)' = OpenExits(i) /\ \A x \in OpenExits(i) : exit'[x] = exit[x]

LEMMA RequestRowsKept ==
    ASSUME IInv, NEW A, Keeps(A), raced \subseteq raced',
           \A i \in DOMAIN membership : Still(i) /\ i \notin overridden' => SameRequest(i) \/ RequestOK(i)',
           \A i \in DOMAIN membership' \ DOMAIN membership : membership'[i].status \notin Leaving
    PROVE  RequestRows'
<1> SUFFICES ASSUME NEW i \in DOMAIN membership', Still(i)' PROVE RequestOK(i)'
  BY DEF RequestRows
<1>1. ASSUME i \in DOMAIN membership PROVE RequestOK(i)'
  <2>1. Still(i) /\ i \notin overridden'
    BY <1>1 DEF Still, Quiet, Keeps, KeepsMembers, KeepsRow, KeepsHistory
  <2>2. RequestOK(i)
    BY <1>1, <2>1 DEF IInv, RequestRows
  <2>3. CASE SameRequest(i)
    BY <2>2, <2>3 DEF RequestOK, SameRequest
  <2> QED
    BY <1>1, <2>1, <2>3
<1>2. ASSUME i \notin DOMAIN membership PROVE RequestOK(i)'
  <2>1. \A x \in DOMAIN exit' : exit'[x].member \in DOMAIN membership
    <3> TAKE x \in DOMAIN exit'
    <3>1. CASE x \in DOMAIN exit
      BY <3>1 DEF Keeps, KeepsExits, IInv, MemberTypes
    <3>2. CASE x \notin DOMAIN exit
      BY <3>2 DEF Keeps, KeepsExits
    <3> QED
      BY <3>1, <3>2
  <2>2. OpenExits(i)' = {}
    BY <1>2, <2>1 DEF OpenExits
  <2> QED
    BY <1>2, <2>2 DEF RequestOK
<1> QED
  BY <1>1, <1>2

LEMMA SameRequests ==
    ASSUME IInv, NEW A, Keeps(A), raced \subseteq raced', UNCHANGED exit,
           DOMAIN membership' = DOMAIN membership,
           \A i \in DOMAIN membership :
               membership'[i].status = membership[i].status /\ membership'[i].exit = membership[i].exit
    PROVE  RequestRows'
<1>1. \A i \in DOMAIN membership : SameRequest(i)
  BY DEF SameRequest, OpenExits
<1> QED
  BY <1>1, RequestRowsKept

LEMMA ChangesRequests == ASSUME IInv, NEW w \in Worker, NEW i, Changes(w, i) PROVE RequestRows'
<1>1. PICK m : OneMember(i, m)
  BY DEF Changes
<1>2. \A j \in DOMAIN membership : j # i => SameRequest(j)
  <2> TAKE j \in DOMAIN membership
  <2> HAVE j # i
  <2>1. membership'[j] = membership[j]
    BY <1>1 DEF OneMember
  <2>2. ExitsOnly(i)
    BY DEF Changes
  <2>3. OpenExits(j)' = OpenExits(j) /\ \A x \in OpenExits(j) : exit'[x] = exit[x]
    BY <2>2 DEF OpenExits, ExitsOnly
  <2> QED
    BY <2>1, <2>3 DEF SameRequest
<1>3. Still(i) => RequestOK(i)'
  BY DEF Changes
<1>4. DOMAIN membership' \ DOMAIN membership = {} /\ raced' = raced
  BY <1>1 DEF OneMember, Changes, Commits
<1>5. PICK A : A = task[w].about /\ Keeps(A)
  BY ChangesKeeps
<1>6. \A j \in DOMAIN membership : Still(j) => SameRequest(j) \/ RequestOK(j)'
  <2> TAKE j \in DOMAIN membership
  <2>1. CASE j = i
    <3>1. (j = i) /\ Still(j) => RequestOK(j)'
      BY <1>3 DEF RequestOK, OpenExits
    <3> QED
      BY <2>1, <3>1
  <2> QED
    BY <1>2, <2>1
<1> QED
  BY <1>4, <1>5, <1>6, RequestRowsKept

LEMMA ActivatesRequests == ASSUME IInv, NEW w \in Worker, Activates(w) PROVE RequestRows'
<1>1. \A j \in DOMAIN membership : Still(j) => SameRequest(j) \/ RequestOK(j)'
  <2> TAKE j \in DOMAIN membership
  <2> HAVE Still(j)
  <2>1. CASE j \in task[w].members
    <3>1. membership[j].status = "PENDING_VERIFICATION" /\ membership'[j].status = "ACTIVE" /\ exit' = exit
      BY <2>1 DEF Activates, Still
    <3>2. OpenExits(j) = {}
      BY <3>1 DEF IInv, RequestRows, RequestOK, Leaving
    <3>3. OpenExits(j)' = {}
      BY <3>1, <3>2 DEF OpenExits
    <3> QED
      BY <3>1, <3>3 DEF RequestOK, Leaving
  <2>2. CASE j \notin task[w].members
    BY <2>2 DEF Activates, SameRequest, OpenExits
  <2> QED
    BY <2>1, <2>2
<1>2. DOMAIN membership' \ DOMAIN membership = {} /\ raced' = raced
  BY DEF Activates, Commits
<1>3. PICK A : A = task[w].about /\ Keeps(A)
  BY ActivatesKeeps
<1> QED
  BY <1>1, <1>2, <1>3, RequestRowsKept

LEMMA ReturnsRequests == ASSUME IInv, NEW w \in Worker, NEW i, Returns(w, i) PROVE RequestRows'
<1>1. PICK m : OneMember(i, m) /\ m.status = membership[i].status /\ m.exit = membership[i].exit
  BY DEF Returns
<1>2. DOMAIN membership' = DOMAIN membership /\ raced' = raced /\ UNCHANGED exit
  BY <1>1 DEF OneMember, Returns, Commits
<1>3. \A j \in DOMAIN membership :
        membership'[j].status = membership[j].status /\ membership'[j].exit = membership[j].exit
  BY <1>1 DEF OneMember
<1>4. PICK A : A = task[w].about /\ Keeps(A)
  BY ReturnsKeeps
<1> QED
  BY <1>2, <1>3, <1>4, SameRequests

LEMMA AssignsRequests == ASSUME IInv, NEW w \in Worker, NEW a, AssignsSeats(w, a) PROVE RequestRows'
<1>2. DOMAIN membership' = DOMAIN membership /\ raced' = raced /\ UNCHANGED exit
  BY DEF AssignsSeats, Commits
<1>3. \A j \in DOMAIN membership :
        membership'[j].status = membership[j].status /\ membership'[j].exit = membership[j].exit
  BY DEF AssignsSeats
<1>4. PICK A : A = task[w].about /\ Keeps(A)
  BY AssignsKeeps
<1> QED
  BY <1>2, <1>3, <1>4, SameRequests

LEMMA ArrivesRequests ==
    ASSUME IInv, NEW w \in Worker, NEW p, NEW S, Arrives(w, p, S) PROVE RequestRows'
<1>1. \A j \in DOMAIN membership : Still(j) /\ j \notin overridden' => SameRequest(j) \/ RequestOK(j)'
  <2> TAKE j \in DOMAIN membership
  <2> HAVE Still(j) /\ j \notin overridden'
  <2>1. CASE j \in S
    <3>1. OpenExits(j) = {} /\ membership'[j].status = "ENDED" /\ exit' = exit
      BY <2>1 DEF Arrives
    <3>2. OpenExits(j)' = {}
      BY <3>1 DEF OpenExits
    <3> QED
      BY <3>1, <3>2 DEF RequestOK, Leaving
  <2>2. CASE j \notin S
    BY <2>2 DEF Arrives, SameRequest, OpenExits
  <2> QED
    BY <2>1, <2>2
<1>2. \A j \in DOMAIN membership' \ DOMAIN membership : membership'[j].status \notin Leaving
  BY DEF Arrives, Leaving
<1>3. PICK A : A = task[w].about /\ Keeps(A)
  BY ArrivesKeeps
<1>4. raced' = raced
  BY DEF Arrives, Commits
<1> QED
  BY <1>1, <1>2, <1>3, <1>4, RequestRowsKept

-------------------------------------------------------------------------------
(***************************************************************************)
(* The profiles of people                                                  *)
(***************************************************************************)
SameProfile(p) ==
    /\ profile'[p] = profile[p] /\ OpenFor(p)' = OpenFor(p)
    /\ \A i \in OpenFor(p) : /\ membership'[i].profile = membership[i].profile
                             /\ membership'[i].agency = membership[i].agency

LEMMA ProfileRowsKept ==
    ASSUME IInv, NEW A, Keeps(A), raced \subseteq raced',
           \A p \in Person : Calm(p) /\ Calm(p)' => SameProfile(p) \/ ProfileOK(p)'
    PROVE  ProfileRows'
<1> SUFFICES ASSUME NEW p \in Person, Calm(p)' PROVE ProfileOK(p)'
  BY DEF ProfileRows
<1>1. Calm(p)
  <2>1. \A i \in overridden : i \in DOMAIN membership /\ i \in overridden' /\ membership'[i].person = membership[i].person
    BY DEF IInv, MemberTypes, Keeps, KeepsHistory, KeepsMembers, KeepsRow
  <2> QED
    BY <2>1 DEF Calm, Quiet
<1>2. ProfileOK(p)
  BY <1>1 DEF IInv, ProfileRows
<1>3. CASE SameProfile(p)
  <2>1. /\ Len(profile'[p]) = Len(profile[p]) /\ OpenFor(p)' = OpenFor(p)
        /\ {membership'[i].agency : i \in OpenFor(p)'} = {membership[i].agency : i \in OpenFor(p)}
    BY <1>3 DEF SameProfile
  <2> QED
    BY <1>2, <1>3, <2>1 DEF SameProfile, ProfileOK
<1> QED
  BY <1>1, <1>3

\* The person's rows are as they were.
LEMMA ProfileAsWas ==
    ASSUME NEW p, profile'[p] = profile[p], DOMAIN membership \subseteq DOMAIN membership',
           \A i \in DOMAIN membership :
               /\ membership'[i].person = membership[i].person
               /\ membership[i].person = p =>
                    /\ membership'[i].profile = membership[i].profile
                    /\ membership'[i].agency = membership[i].agency
                    /\ (membership'[i].status \in OpenStatus) <=> (membership[i].status \in OpenStatus),
           \A i \in DOMAIN membership' \ DOMAIN membership : membership'[i].person # p
    PROVE  SameProfile(p)
BY DEF SameProfile, OpenFor, OpenMember

LEMMA AsWas ==
    ASSUME IInv, NEW A, Keeps(A), raced \subseteq raced', UNCHANGED profile, DOMAIN membership' = DOMAIN membership,
           \A i \in DOMAIN membership : membership'[i].status = membership[i].status
    PROVE  ProfileRows'
<1>1. \A p \in Person : SameProfile(p)
  BY ProfileAsWas DEF Keeps, KeepsMembers, KeepsRow
<1> QED
  BY <1>1, ProfileRowsKept

LEMMA OnlyOpen ==
    ASSUME IInv, NEW i \in DOMAIN membership, membership[i].status # "ENDED", NEW p, p = membership[i].person
    PROVE  OpenFor(p) = {i}
<1>1. membership[i].status \in OpenStatus
  BY MemberTyped DEF IInv, MemberRow, OpenStatus
<1>2. \A j \in DOMAIN membership : membership[j].person = p /\ membership[j].status \in OpenStatus => j = i
  BY <1>1 DEF IInv, UniqueOpen
<1> QED
  BY <1>1, <1>2 DEF OpenFor, OpenMember

LEMMA ChangesProfiles == ASSUME IInv, NEW w \in Worker, NEW i, Changes(w, i) PROVE ProfileRows'
<1>0. MemberTypes
  BY DEF IInv
<1>1. PICK m : OneMember(i, m) /\ Alike(membership[i], m)
  BY DEF Changes
<1>2. PICK p : p = membership[i].person
  OBVIOUS
<1>3. /\ i \in DOMAIN membership /\ DOMAIN membership' = DOMAIN membership
      /\ membership'[i] = m /\ \A j \in DOMAIN membership \ {i} : membership'[j] = membership[j]
      /\ m.person = p /\ m.profile = membership[i].profile /\ m.agency = membership[i].agency
  BY <1>1, <1>2 DEF OneMember, Alike
<1>4. p \in Person /\ raced' = raced
  BY <1>0, <1>2, <1>3, MemberTyped DEF Changes, Commits
<1>5. ASSUME NEW q \in Person, q # p PROVE SameProfile(q)
  <2>1. profile'[q] = profile[q]
    BY <1>0, <1>2, <1>5 DEF Changes, Leaves, OneProfile, MemberTypes
  <2> QED
    BY <1>2, <1>3, <1>5, <2>1, ProfileAsWas
<1>6. ASSUME Calm(p) PROVE SameProfile(p) \/ ProfileOK(p)'
  <2>1. Still(i)
    BY <1>2, <1>3, <1>6 DEF Calm, Still
  <2>2. membership[i].status # "ENDED" /\ IF membership'[i].status = "ENDED" THEN Leaves(i) ELSE UNCHANGED profile
    BY <2>1 DEF Changes
  <2>3. OpenFor(p) = {i} /\ ProfileOK(p)
    BY <1>2, <1>3, <1>4, <1>6, <2>2, OnlyOpen DEF IInv, ProfileRows
  <2>4. CASE membership'[i].status = "ENDED"
    <3> DEFINE k == Len(profile[p])
    <3>1. membership[i].profile = k
      BY <2>3 DEF ProfileOK
    <3>2. PICK q : OneProfile(p, q) /\ Left(profile[p], k, q)
      BY <1>2, <2>2, <2>4, <3>1 DEF Leaves
    <3>3. Past(q, k) /\ q[k].agency = NoAgency
      BY <1>0, <1>4, <2>3, <3>2, LeftIsPast
    <3>4. profile'[p] = q /\ Len(q) = k
      BY <1>0, <1>4, <3>2 DEF OneProfile, Left, MemberTypes
    <3>5. OpenFor(p)' = {}
      BY <1>3, <2>3, <2>4 DEF OpenFor, OpenMember, OpenStatus
    <3> HIDE DEF k
    <3> QED
      BY <3>3, <3>4, <3>5 DEF ProfileOK, Past
  <2>5. CASE membership'[i].status # "ENDED"
    <3>1. UNCHANGED profile
      BY <2>2, <2>5
    <3>2. m.status \in OpenStatus /\ membership[i].status \in OpenStatus
      BY <1>1, <1>3, <2>3, <2>5 DEF Alike, MemberRow, OpenStatus, OpenFor, OpenMember
    <3>3. \A j \in DOMAIN membership :
            /\ membership'[j].person = membership[j].person
            /\ membership[j].person = p =>
                 /\ membership'[j].profile = membership[j].profile
                 /\ membership'[j].agency = membership[j].agency
                 /\ (membership'[j].status \in OpenStatus) <=> (membership[j].status \in OpenStatus)
      BY <1>2, <1>3, <3>2
    <3>4. profile'[p] = profile[p] /\ DOMAIN membership' = DOMAIN membership
      BY <1>3, <3>1
    <3> QED
      BY <3>3, <3>4, ProfileAsWas
  <2> QED
    BY <2>4, <2>5
<1>7. PICK A : A = task[w].about /\ Keeps(A)
  BY ChangesKeeps
<1>8. \A q \in Person : Calm(q) /\ Calm(q)' => SameProfile(q) \/ ProfileOK(q)'
  <2> TAKE q \in Person
  <2>1. CASE q = p
    <3>1. q = p /\ Calm(q) => SameProfile(q) \/ ProfileOK(q)'
      BY <1>6 DEF ProfileOK, OpenFor, OpenMember, SameProfile
    <3> QED
      BY <2>1, <3>1
  <2> QED
    BY <1>5, <2>1
<1> QED
  BY <1>4, <1>7, <1>8, ProfileRowsKept

LEMMA ActivatesProfiles == ASSUME IInv, NEW w \in Worker, Activates(w) PROVE ProfileRows'
<1>1. ASSUME NEW p \in Person, Calm(p) PROVE SameProfile(p)
  <2>1. \A i \in DOMAIN membership :
            /\ membership'[i].person = membership[i].person
            /\ membership[i].person = p =>
                 /\ membership'[i].profile = membership[i].profile
                 /\ membership'[i].agency = membership[i].agency
                 /\ (membership'[i].status \in OpenStatus) <=> (membership[i].status \in OpenStatus)
    <3> TAKE i \in DOMAIN membership
    <3>1. CASE i \in task[w].members
      <4>1. Alike(membership[i], membership'[i]) /\ membership'[i].status = "ACTIVE"
        BY <3>1 DEF Activates
      <4>2. membership[i].person = p => membership[i].status = "PENDING_VERIFICATION"
        BY <1>1, <3>1 DEF Activates, Calm
      <4> QED
        BY <4>1, <4>2 DEF Alike, OpenStatus, MembershipStatus
    <3>2. CASE i \notin task[w].members
      BY <3>2 DEF Activates
    <3> QED
      BY <3>1, <3>2
  <2>2. profile'[p] = profile[p] /\ DOMAIN membership' = DOMAIN membership
    BY DEF Activates
  <2> QED
    BY <2>1, <2>2, ProfileAsWas
<1>2. PICK A : A = task[w].about /\ Keeps(A)
  BY ActivatesKeeps
<1>3. raced' = raced
  BY DEF Activates, Commits
<1> QED
  BY <1>1, <1>2, <1>3, ProfileRowsKept

LEMMA ReturnsProfiles == ASSUME IInv, NEW w \in Worker, NEW i, Returns(w, i) PROVE ProfileRows'
<1>1. PICK m : OneMember(i, m) /\ m.status = membership[i].status
  BY DEF Returns
<1>2. DOMAIN membership' = DOMAIN membership /\ raced' = raced /\ UNCHANGED profile
  BY <1>1 DEF OneMember, Returns, Commits
<1>3. \A j \in DOMAIN membership : membership'[j].status = membership[j].status
  BY <1>1 DEF OneMember
<1>4. PICK A : A = task[w].about /\ Keeps(A)
  BY ReturnsKeeps
<1> QED
  BY <1>2, <1>3, <1>4, AsWas

LEMMA AssignsProfiles == ASSUME IInv, NEW w \in Worker, NEW a, AssignsSeats(w, a) PROVE ProfileRows'
<1>2. DOMAIN membership' = DOMAIN membership /\ raced' = raced /\ UNCHANGED profile
  BY DEF AssignsSeats, Commits
<1>3. \A j \in DOMAIN membership : membership'[j].status = membership[j].status
  BY DEF AssignsSeats
<1>4. PICK A : A = task[w].about /\ Keeps(A)
  BY AssignsKeeps
<1> QED
  BY <1>2, <1>3, <1>4, AsWas

LEMMA ArchivesProfiles == ASSUME IInv, NEW w \in Worker, NEW p, Archives(w, p) PROVE ProfileRows'
<1>0. MemberTypes
  BY DEF IInv
<1>1. PICK q : /\ OneProfile(p, q) /\ Len(q) = Len(profile[p])
               /\ \A k \in DOMAIN profile[p] :
                    q[k].agency = profile[p][k].agency /\ (profile[p][k].archived => q[k].archived)
  BY DEF Archives
<1>2. /\ p \in Person /\ profile'[p] = q /\ \A r \in Person \ {p} : profile'[r] = profile[r]
      /\ UNCHANGED membership /\ raced' = raced
  BY <1>0, <1>1 DEF OneProfile, MemberTypes, Archives, Commits
<1>3. \A r \in Person : r # p => SameProfile(r)
  BY <1>2 DEF SameProfile, OpenFor, OpenMember
<1>4. ASSUME Calm(p) PROVE ProfileOK(p)'
  <2> DEFINE last == Len(profile[p])
  <2>1. last \in Nat /\ last >= 1 /\ DOMAIN profile[p] = 1..last
    BY <1>0, <1>2 DEF MemberTypes
  <2>2. ProfileOK(p) /\ Len(profile'[p]) = last /\ OpenFor(p)' = OpenFor(p)
    BY <1>1, <1>2, <1>4 DEF IInv, ProfileRows, OpenFor, OpenMember
  <2>3. \A k \in 1..last : profile'[p][k].agency = profile[p][k].agency
                           /\ (profile[p][k].archived => profile'[p][k].archived)
    BY <1>1, <1>2, <2>1
  <2>4. \A k \in 1..(last - 1) : profile'[p][k].archived /\ profile'[p][k].agency = NoAgency
    <3>1. \A k \in 1..(last - 1) : profile[p][k].archived /\ profile[p][k].agency = NoAgency
      BY <2>2 DEF ProfileOK
    <3>2. \A k \in 1..(last - 1) : k \in 1..last
      BY <2>1
    <3> QED
      BY <2>3, <3>1, <3>2
  <2>5. profile'[p][last].agency = profile[p][last].agency
    BY <2>1, <2>3
  <2>6. /\ \A i \in OpenFor(p) : membership[i].profile = last
        /\ {profile[p][last].agency} \ {NoAgency} = {membership[i].agency : i \in OpenFor(p)}
    BY <2>2 DEF ProfileOK
  <2>7. /\ \A i \in OpenFor(p)' : membership'[i].profile = last
        /\ {profile'[p][last].agency} \ {NoAgency} = {membership'[i].agency : i \in OpenFor(p)'}
    <3>1. membership' = membership /\ OpenFor(p)' = OpenFor(p)
      BY <1>2, <2>2
    <3>2. {membership'[i].agency : i \in OpenFor(p)'} = {membership[i].agency : i \in OpenFor(p)}
      BY <3>1
    <3>3. \A i \in OpenFor(p)' : membership'[i].profile = last
      BY <2>6, <3>1
    <3> QED
      BY <2>5, <2>6, <3>2, <3>3
  <2> HIDE DEF last
  <2> QED
    BY <2>2, <2>4, <2>7 DEF ProfileOK
<1>5. \A r \in Person : Calm(r) => SameProfile(r) \/ ProfileOK(r)'
  <2> TAKE r \in Person
  <2>1. r = p /\ Calm(r) => ProfileOK(r)'
    BY <1>4 DEF ProfileOK, OpenFor, OpenMember
  <2> QED
    BY <1>3, <2>1
<1>6. PICK A : A = task[w].about /\ Keeps(A)
  BY ArchivesKeeps
<1> QED
  BY <1>2, <1>5, <1>6, ProfileRowsKept

LEMMA ArrivesProfiles ==
    ASSUME IInv, NEW w \in Worker, NEW p, NEW S, Arrives(w, p, S) PROVE ProfileRows'
<1>0. MemberTypes
  BY DEF IInv
<1>1. p \in Person /\ raced' = raced /\ (Calm(p)' => ProfileOK(p)')
  BY DEF Arrives, Commits
<1>2. PICK q : OneProfile(p, q)
  BY DEF Arrives
<1>3. ASSUME NEW r \in Person, r # p PROVE SameProfile(r)
  <2>1. profile'[r] = profile[r]
    BY <1>0, <1>1, <1>2, <1>3 DEF OneProfile, MemberTypes
  <2>2. /\ DOMAIN membership \subseteq DOMAIN membership'
        /\ \A i \in DOMAIN membership' \ DOMAIN membership : membership'[i].person # r
    BY <1>3 DEF Arrives
  <2>3. \A i \in DOMAIN membership :
            /\ membership'[i].person = membership[i].person
            /\ membership[i].person = r => membership'[i] = membership[i]
    BY <1>3 DEF Arrives, Alike
  <2>4. \A i \in DOMAIN membership : membership[i].person = r =>
            /\ membership'[i].profile = membership[i].profile
            /\ membership'[i].agency = membership[i].agency
            /\ (membership'[i].status \in OpenStatus) <=> (membership[i].status \in OpenStatus)
    BY <2>3
  <2> QED
    BY <2>1, <2>2, <2>3, <2>4, ProfileAsWas
<1>4. \A r \in Person : Calm(r) /\ Calm(r)' => SameProfile(r) \/ ProfileOK(r)'
  <2> TAKE r \in Person
  <2>1. r = p /\ Calm(r)' => ProfileOK(r)'
    BY <1>1 DEF ProfileOK, OpenFor, OpenMember, Calm, Quiet
  <2> QED
    BY <1>3, <2>1
<1>5. PICK A : A = task[w].about /\ Keeps(A)
  BY ArrivesKeeps
<1> QED
  BY <1>1, <1>4, <1>5, ProfileRowsKept

-------------------------------------------------------------------------------
(***************************************************************************)
(* The ledger                                                              *)
(***************************************************************************)
Granted(a) == {o \in Purchases(a) : order[o].status = "GRANTED"}

LEMMA LedgerStays ==
    ASSUME IInv, UNCHANGED <<plan, raced>>,
           \A a \in Agency :
               /\ ledger'[a].base = ledger[a].base
               /\ ledger'[a].purchased = ledger[a].purchased
               /\ Purchases(a) \subseteq Purchases(a)'
               /\ (\A o \in Purchases(a) : Order(o) \notin raced) => Granted(a)' = Granted(a)
    PROVE  LedgerAddsUp'
<1> SUFFICES ASSUME NEW a \in Agency
             PROVE  /\ Office(a) \notin raced' => ledger'[a].base = BaseOf(plan'[a])
                    /\ (\A o \in Purchases(a)' : Order(o) \notin raced') =>
                           ledger'[a].purchased = PackSeats * Cardinality(Granted(a)')
  BY DEF LedgerAddsUp, Granted
<1>1. /\ Office(a) \notin raced => ledger[a].base = BaseOf(plan[a])
      /\ (\A o \in Purchases(a) : Order(o) \notin raced) =>
             ledger[a].purchased = PackSeats * Cardinality(Granted(a))
  BY DEF IInv, LedgerAddsUp, Granted
<1>2. raced' = raced /\ plan' = plan
  OBVIOUS
<1>3. (\A o \in Purchases(a)' : Order(o) \notin raced') => \A o \in Purchases(a) : Order(o) \notin raced
  BY <1>2
<1> QED
  BY <1>1, <1>2, <1>3

LEMMA SameLedger == ASSUME IInv, SameSeats, raced \subseteq raced' PROVE LedgerAddsUp'
<1>1. plan' = plan /\ ledger' = ledger /\ order' = order
  BY DEF SameSeats, seatVars
<1>2. \A a \in Agency : Purchases(a)' = Purchases(a)
                        /\ {o \in Purchases(a)' : order'[o].status = "GRANTED"} = {o \in Purchases(a) : order[o].status = "GRANTED"}
  BY <1>1 DEF Purchases
<1> QED
  BY <1>1, <1>2 DEF IInv, LedgerAddsUp

LEMMA ChangeLedger == ASSUME IInv, NEW w \in Worker, Change(w) PROVE LedgerAddsUp'
<1>1. /\ ledger' = [ledger EXCEPT ![task[w].agency].adjusted = @ + task[w].by]
      /\ UNCHANGED <<plan, order, raced>>
  BY DEF Change, Done
<1>2. \A a \in Agency : ledger'[a].base = ledger[a].base /\ ledger'[a].purchased = ledger[a].purchased
  BY <1>1 DEF IInv, SeatTypes
<1>3. \A a \in Agency : Purchases(a)' = Purchases(a) /\ Granted(a)' = Granted(a)
  BY <1>1 DEF Purchases, Granted
<1> QED
  BY <1>1, <1>2, <1>3, LedgerStays

LEMMA PlaceOrderLedger ==
    ASSUME IInv, NEW a \in Agency, NEW type \in {"REQUEST", "PURCHASE"}, PlaceOrder(a, type)
    PROVE  LedgerAddsUp'
<1> DEFINE r == [agency |-> a, type |-> type, status |-> "PENDING"]
<1>1. r \in OrderRow /\ r.status = "PENDING" /\ order \in Seq(OrderRow)
  BY DEF OrderRow, IInv, SeatTypes
<1>2. order' = Append(order, r) /\ UNCHANGED <<plan, ledger, raced>>
  BY DEF PlaceOrder
<1> HIDE DEF r
<1>3. /\ DOMAIN order' = DOMAIN order \cup {Len(order) + 1} /\ order'[Len(order) + 1] = r
      /\ \A o \in DOMAIN order : order'[o] = order[o]
  BY <1>1, <1>2, RowIsAdded
<1>4. \A c \in Agency : Purchases(c) \subseteq Purchases(c)' /\ Granted(c)' = Granted(c)
  BY <1>1, <1>3 DEF Purchases, Granted
<1> QED
  BY <1>2, <1>4, LedgerStays

LEMMA RefuseLedger == ASSUME IInv, NEW w \in Worker, Refuse(w) PROVE LedgerAddsUp'
<1>1. PICK o : o = task[w].order
  OBVIOUS
<1>2. task[w].op = "settle" /\ order' = [order EXCEPT ![o].status = "REFUSED"] /\ UNCHANGED <<plan, ledger, raced>>
  BY <1>1 DEF Refuse, Doing, Done
<1>3. o \in DOMAIN order /\ (Order(o) \notin raced => Unsettled(o))
  BY <1>1, <1>2, SettleTask
<1>4. /\ DOMAIN order' = DOMAIN order
      /\ order'[o].agency = order[o].agency /\ order'[o].type = order[o].type /\ order'[o].status = "REFUSED"
      /\ \A x \in DOMAIN order \ {o} : order'[x] = order[x]
  BY <1>2, <1>3, OrderAnswered
<1>5. \A a \in Agency : Purchases(a)' = Purchases(a)
  BY <1>4 DEF Purchases
<1>6. ASSUME NEW a \in Agency, \A x \in Purchases(a) : Order(x) \notin raced PROVE Granted(a)' = Granted(a)
  <2>1. o \in Purchases(a) => order[o].status = "PENDING"
    BY <1>3, <1>6 DEF Unsettled
  <2>2. \A x \in Purchases(a) : (order'[x].status = "GRANTED") <=> (order[x].status = "GRANTED")
    BY <1>4, <2>1 DEF Purchases
  <2> QED
    BY <1>5, <2>2 DEF Granted
<1> QED
  BY <1>2, <1>5, <1>6, LedgerStays

LEMMA OneFactorMore == ASSUME NEW x \in Nat, NEW y \in Nat PROVE x * (y + 1) = x * y + x
OBVIOUS

LEMMA GrantedFinite == ASSUME SeatTypes, NEW a PROVE IsFiniteSet(Granted(a))
<1>1. IsFiniteSet(1..Len(order)) /\ DOMAIN order = 1..Len(order)
  BY FS_Interval DEF SeatTypes
<1> QED
  BY <1>1, FS_Subset DEF Granted, Purchases

LEMMA GrantLedger == ASSUME IInv, NEW w \in Worker, Grant(w) PROVE LedgerAddsUp'
<1>0. SeatTypes
  BY DEF IInv
<1> DEFINE o == task[w].order
           c == order[o].agency
<1>3. /\ task[w].op = "settle" /\ order' = [order EXCEPT ![o].status = "GRANTED"] /\ UNCHANGED <<plan, raced>>
      /\ ledger' = IF order[o].type = "REQUEST"
                   THEN [ledger EXCEPT ![c].adjusted = @ + PackSeats]
                   ELSE [ledger EXCEPT ![c].purchased = @ + PackSeats]
  BY DEF Grant, Doing, Done
<1>1. o = task[w].order
  OBVIOUS
<1>2. c = order[o].agency
  OBVIOUS
<1> HIDE DEF o, c
<1>4. o \in DOMAIN order /\ order[o] \in OrderRow /\ (Order(o) \notin raced => Unsettled(o))
  BY <1>1, <1>3, SettleTask
<1>5. /\ DOMAIN order' = DOMAIN order
      /\ order'[o].agency = c /\ order'[o].type = order[o].type /\ order'[o].status = "GRANTED"
      /\ \A x \in DOMAIN order \ {o} : order'[x] = order[x]
  BY <1>2, <1>3, <1>4, OrderAnswered
<1>6. c \in Agency /\ order[o].type \in {"REQUEST", "PURCHASE"}
  BY <1>2, <1>4 DEF OrderRow
<1>7. \A a \in Agency : Purchases(a)' = Purchases(a)
  BY <1>2, <1>5 DEF Purchases
<1>8. \A a \in Agency : ledger'[a].base = ledger[a].base
  BY <1>0, <1>3 DEF SeatTypes
<1>9. \A a \in Agency : o \notin Purchases(a) =>
        Granted(a)' = Granted(a) /\ ledger'[a].purchased = ledger[a].purchased
  <2> TAKE a \in Agency
  <2> HAVE o \notin Purchases(a)
  <2>1. Granted(a)' = Granted(a)
    BY <1>5, <1>7 DEF Granted, Purchases
  <2>2. c # a \/ order[o].type = "REQUEST"
    BY <1>2, <1>4, <1>6 DEF Purchases
  <2>3. ledger'[a].purchased = ledger[a].purchased
    BY <1>0, <1>3, <1>6, <2>2 DEF SeatTypes
  <2> QED
    BY <2>1, <2>3
<1>10. \A a \in Agency : o \in Purchases(a) /\ Order(o) \notin raced =>
        /\ Cardinality(Granted(a)') = Cardinality(Granted(a)) + 1 /\ Cardinality(Granted(a)) \in Nat
        /\ ledger'[a].purchased = ledger[a].purchased + PackSeats
  <2> TAKE a \in Agency
  <2> HAVE o \in Purchases(a) /\ Order(o) \notin raced
  <2>1. o \notin Granted(a) /\ a = c /\ order[o].type = "PURCHASE"
    BY <1>2, <1>4 DEF Granted, Purchases, Unsettled
  <2>2. Granted(a)' = Granted(a) \cup {o}
    BY <1>5, <1>7 DEF Granted, Purchases
  <2>3. Cardinality(Granted(a) \cup {o}) = Cardinality(Granted(a)) + 1 /\ Cardinality(Granted(a)) \in Nat
    BY <1>0, <2>1, GrantedFinite, FS_AddElement, FS_CardinalityType
  <2>4. ledger'[a].purchased = ledger[a].purchased + PackSeats
    BY <1>0, <1>3, <1>6, <2>1 DEF SeatTypes
  <2> QED
    BY <2>2, <2>3, <2>4
<1> SUFFICES ASSUME NEW a \in Agency
             PROVE  /\ Office(a) \notin raced' => ledger'[a].base = BaseOf(plan'[a])
                    /\ (\A x \in Purchases(a)' : Order(x) \notin raced') =>
                           ledger'[a].purchased = PackSeats * Cardinality(Granted(a)')
  BY DEF LedgerAddsUp, Granted
<1>11. /\ Office(a) \notin raced => ledger[a].base = BaseOf(plan[a])
       /\ (\A x \in Purchases(a) : Order(x) \notin raced) =>
              ledger[a].purchased = PackSeats * Cardinality(Granted(a))
  BY DEF IInv, LedgerAddsUp, Granted
<1>12. ASSUME \A x \in Purchases(a) : Order(x) \notin raced
       PROVE  ledger'[a].purchased = PackSeats * Cardinality(Granted(a)')
  <2>1. CASE o \in Purchases(a)
    <3>1. /\ Cardinality(Granted(a)') = Cardinality(Granted(a)) + 1 /\ Cardinality(Granted(a)) \in Nat
          /\ ledger'[a].purchased = PackSeats * Cardinality(Granted(a)) + PackSeats
      BY <1>10, <1>11, <1>12, <2>1
    <3> QED
      BY <3>1, OneFactorMore, SeatsAssumption
  <2>2. CASE o \notin Purchases(a)
    BY <1>9, <1>11, <1>12, <2>2
  <2> QED
    BY <2>1, <2>2
<1>13. raced' = raced /\ plan' = plan
  BY <1>3
<1> QED
  BY <1>7, <1>8, <1>11, <1>12, <1>13

LEMMA AssignsLedger == ASSUME IInv, NEW w \in Worker, NEW a, AssignsSeats(w, a) PROVE LedgerAddsUp'
<1> DEFINE s == task[w].seats
           b == ledger[a].base - TakenBack(task[w].base) + BaseOf(s)
<1>0. SeatTypes
  BY DEF IInv
<1>1. /\ a \in Agency /\ s \in PlanSeats \cup {NoPlan} /\ (Office(a) \notin raced => task[w].base = ledger[a].base)
      /\ ledger' = [ledger EXCEPT ![a].base = b] /\ plan' = [plan EXCEPT ![a] = s]
      /\ UNCHANGED <<order, raced>>
  BY DEF AssignsSeats, Commits
<1>2. Office(a) \notin raced => b = BaseOf(s)
  <2> HAVE Office(a) \notin raced
  <2>1. task[w].base = ledger[a].base /\ ledger[a].base = BaseOf(plan[a])
    BY <1>1 DEF IInv, LedgerAddsUp
  <2>2. BaseOf(plan[a]) \in Nat /\ BaseOf(s) \in Nat
    BY <1>0, <1>1, BaseInt DEF SeatTypes
  <2> HIDE DEF s
  <2> QED
    BY <2>1, <2>2 DEF TakenBack
<1> HIDE DEF b, s
<1>3. /\ Office(a) \notin raced => ledger'[a].base = BaseOf(plan'[a])
      /\ \A c \in Agency \ {a} : ledger'[c].base = ledger[c].base /\ plan'[c] = plan[c]
      /\ \A c \in Agency : ledger'[c].purchased = ledger[c].purchased
  BY <1>0, <1>1, <1>2 DEF SeatTypes
<1>4. \A c \in Agency : Purchases(c)' = Purchases(c) /\ Granted(c)' = Granted(c)
  BY <1>1 DEF Purchases, Granted
<1> SUFFICES ASSUME NEW c \in Agency
             PROVE  /\ Office(c) \notin raced' => ledger'[c].base = BaseOf(plan'[c])
                    /\ (\A x \in Purchases(c)' : Order(x) \notin raced') =>
                           ledger'[c].purchased = PackSeats * Cardinality(Granted(c)')
  BY DEF LedgerAddsUp, Granted
<1>5. /\ Office(c) \notin raced => ledger[c].base = BaseOf(plan[c])
      /\ (\A x \in Purchases(c) : Order(x) \notin raced) =>
             ledger[c].purchased = PackSeats * Cardinality(Granted(c))
  BY DEF IInv, LedgerAddsUp, Granted
<1>6. raced' = raced
  BY <1>1
<1> QED
  BY <1>3, <1>4, <1>5, <1>6

-------------------------------------------------------------------------------
(***************************************************************************)
(* Every step                                                              *)
(***************************************************************************)
Commit(w) == /\ \E A : A = task[w].about /\ Keeps(A)
             /\ Done(w) /\ SeatRows' /\ RequestRows' /\ ProfileRows' /\ LedgerAddsUp'

LEMMA CommitDone == ASSUME NEW w, Commits(w) PROVE Done(w) /\ raced \subseteq raced' /\ raced' = raced
BY DEF Commits, Done

LEMMA ChangesCommits == ASSUME IInv, NEW w \in Worker, NEW i, Changes(w, i) PROVE Commit(w)
<1>1. Commits(w) /\ SameSeats
  BY DEF Changes
<1> QED
  BY <1>1, CommitDone, ChangesKeeps, ChangesSeats, ChangesRequests, ChangesProfiles, SameLedger DEF Commit

LEMMA ActivatesCommits == ASSUME IInv, NEW w \in Worker, Activates(w) PROVE Commit(w)
<1>1. Commits(w) /\ SameSeats
  BY DEF Activates
<1> QED
  BY <1>1, CommitDone, ActivatesKeeps, ActivatesSeats, ActivatesRequests, ActivatesProfiles, SameLedger DEF Commit

LEMMA ReturnsCommits == ASSUME IInv, NEW w \in Worker, NEW i, Returns(w, i) PROVE Commit(w)
<1>1. Commits(w) /\ SameSeats
  BY DEF Returns
<1> QED
  BY <1>1, CommitDone, ReturnsKeeps, ReturnsSeats, ReturnsRequests, ReturnsProfiles, SameLedger DEF Commit

LEMMA ArrivesCommits == ASSUME IInv, NEW w \in Worker, NEW p, NEW S, Arrives(w, p, S) PROVE Commit(w)
<1>1. Commits(w) /\ SameSeats
  BY DEF Arrives
<1> QED
  BY <1>1, CommitDone, ArrivesKeeps, ArrivesSeats, ArrivesRequests, ArrivesProfiles, SameLedger DEF Commit

LEMMA AssignsCommits == ASSUME IInv, NEW w \in Worker, NEW a, AssignsSeats(w, a) PROVE Commit(w)
<1>1. Commits(w)
  BY DEF AssignsSeats
<1> QED
  BY <1>1, CommitDone, AssignsKeeps, AssignsRows, AssignsRequests, AssignsProfiles, AssignsLedger DEF Commit

LEMMA ArchivesCommits == ASSUME IInv, NEW w \in Worker, NEW p, Archives(w, p) PROVE Commit(w)
<1>1. Commits(w) /\ SameSeats /\ UNCHANGED <<membership, exit>>
  BY DEF Archives
<1>2. PICK A : A = task[w].about /\ Keeps(A)
  BY ArchivesKeeps
<1>3. SeatRows' /\ RequestRows'
  BY <1>1, <1>2, CommitDone, SameSeatRows, SameRequests
<1> QED
  BY <1>1, <1>2, <1>3, CommitDone, ArchivesProfiles, SameLedger DEF Commit

\* No membership, exit request or profile changes.
LEMMA RecordsStay ==
    ASSUME IInv, NEW A, Keeps(A), UNCHANGED <<membership, exit, profile>>, raced \subseteq raced'
    PROVE  SeatRows' /\ RequestRows' /\ ProfileRows'
BY SameSeatRows, SameRequests, AsWas

LEMMA CapacityAlone ==
    ASSUME NEW w \in Worker, Change(w) \/ Grant(w) \/ Refuse(w) PROVE Done(w) /\ UNCHANGED memberVars
<1>1. Change(w) => Done(w) /\ UNCHANGED memberVars
  BY DEF Change
<1>2. ASSUME Grant(w) PROVE Done(w) /\ UNCHANGED memberVars
  <2>1. Done(w)
    BY <1>2, Zenon DEF Grant
  <2>2. UNCHANGED <<memberVars, plan, assigned>>
    BY <1>2, Zenon DEF Grant
  <2> QED
    BY <2>1, <2>2
<1>3. Refuse(w) => Done(w) /\ UNCHANGED memberVars
  BY DEF Refuse
<1> QED
  BY <1>1, <1>2, <1>3

LEMMA CapacityCommits ==
    ASSUME IInv, NEW w \in Worker, Change(w) \/ Grant(w) \/ Refuse(w) PROVE Commit(w)
<1>1. PICK A : A = task[w].about /\ Keeps(A)
  BY ChangeKeeps, GrantKeeps, RefuseKeeps
<1>2. Done(w) /\ UNCHANGED <<membership, exit, profile>> /\ raced \subseteq raced'
  BY CapacityAlone DEF Done, memberVars
<1>3. LedgerAddsUp'
  BY ChangeLedger, GrantLedger, RefuseLedger
<1> QED
  BY <1>1, <1>2, <1>3, RecordsStay DEF Commit

LEMMA GiveUpCommits == ASSUME IInv, NEW w \in Worker, GiveUp(w), SameSeats PROVE Commit(w)
<1>1. PICK A : A = task[w].about /\ Keeps(A)
  BY NothingKeeps DEF GiveUp
<1>2. Done(w) /\ UNCHANGED <<membership, exit, profile>> /\ raced \subseteq raced'
  BY DEF GiveUp, Done, memberVars
<1> QED
  BY <1>1, <1>2, RecordsStay, SameLedger DEF Commit

LEMMA CommitKeepsInv ==
    ASSUME IInv, NEW w \in Worker, Commit(w), UniqueOpen(membership, exit)' PROVE IInv'
<1>1. PICK A : A = task[w].about /\ Keeps(A)
  BY DEF Commit
<1>2. MemberTypes' /\ SeatTypes' /\ TasksOK' /\ OneByOne'
  BY <1>1, KeepsTypes, DoneTasks DEF Commit
<1> QED
  BY <1>2 DEF IInv, Commit

\* The rows are as they were: a request begins or a plan's totals change.
LEMMA StaysKeepsInv ==
    ASSUME IInv, NEW A, Keeps(A), UNCHANGED <<membership, exit, profile>>, raced \subseteq raced',
           TasksOK' /\ OneByOne', LedgerAddsUp'
    PROVE  IInv'
<1>1. MemberTypes' /\ SeatTypes' /\ SeatRows' /\ RequestRows' /\ ProfileRows'
  BY KeepsTypes, RecordsStay
<1>2. UniqueOpen(membership, exit)'
  BY DEF IInv, UniqueOpen
<1> QED
  BY <1>1, <1>2 DEF IInv

LEMMA BegunKeepsInv ==
    ASSUME IInv, UNCHANGED memberVars, SameSeats, raced \subseteq raced', TasksOK' /\ OneByOne' PROVE IInv'
<1>1. PICK A : A = {} /\ Keeps(A)
  BY NothingKeeps
<1>2. UNCHANGED <<membership, exit, profile>>
  BY DEF memberVars
<1> QED
  BY <1>1, <1>2, SameLedger, StaysKeepsInv

BeginsOne(w) ==
    /\ UNCHANGED memberVars /\ SameSeats /\ raced \subseteq raced' /\ TasksOK' /\ OneByOne'

LEMMA MemberBegins ==
    ASSUME IInv, SameSeats, NEW w \in Worker,
           \/ \E p \in Person : \E k \in DOMAIN profile[p] : BeginArchive(w, p, k)
           \/ BeginActivate(w)
           \/ \E i \in DOMAIN membership :
                BeginExpire(w, i) \/ BeginRelease(w, i) \/ BeginRequest(w, i)
           \/ \E x \in DOMAIN exit :
                BeginCancel(w, x) \/ BeginDecide(w, x) \/ BeginEscalate(w, x) \/ BeginComplete(w, x)
    PROVE  BeginsOne(w)
<1>1. TasksOK' /\ OneByOne'
  BY BeginArchiveTasks, BeginActivateTasks, BeginExpireTasks, BeginReleaseTasks, BeginRequestTasks,
     BeginCancelTasks, BeginDecideTasks, BeginEscalateTasks, BeginCompleteTasks
<1>2. UNCHANGED memberVars /\ raced \subseteq raced'
  BY DEF BeginArchive, BeginActivate, BeginExpire, BeginRelease, BeginRequest,
         BeginCancel, BeginDecide, BeginEscalate, BeginComplete, Begin
<1> QED
  BY <1>1, <1>2 DEF BeginsOne

LEMMA SeatBegins ==
    ASSUME IInv, NEW w \in Worker,
           \/ \E p \in Person :
                \/ \E a \in Agency : BeginJoin(w, p, a)
                \/ \E a \in Agency \cup {NoAgency} : BeginOverride(w, p, a)
           \/ \E a \in Agency :
                \/ \E s \in PlanSeats \cup {NoPlan} : BeginAssign(w, a, s)
                \/ \E d \in {-1, 1} : BeginChange(w, a, d)
           \/ \E o \in DOMAIN order : BeginSettle(w, o)
    PROVE  BeginsOne(w)
<1>1. TasksOK' /\ OneByOne'
  BY BeginJoinTasks, BeginOverrideTasks, BeginAssignTasks, BeginChangeTasks, BeginSettleTasks
<1>2. UNCHANGED <<memberVars, seatVars>> /\ raced \subseteq raced'
  BY DEF BeginJoin, BeginOverride, BeginAssign, BeginChange, BeginSettle, Begin
<1> QED
  BY <1>1, <1>2 DEF BeginsOne, SameSeats

\* Of the commits only the arrivals add a membership.
Arrival(w) == \E p, S : Arrives(w, p, S)
LEMMA MemberCommits ==
    ASSUME IInv, SameSeats, NEW w \in Worker,
           \/ Activate(w) \/ Expire(w) \/ Cancel(w) \/ Decline(w) \/ Escalate(w) \/ Release(w) \/ Archive(w)
           \/ \E rule \in ReleaseRules :
                \/ Complete(w, rule)
                \/ \E option \in Option :
                    \/ Approve(w, option, rule)
                    \/ \E type \in {"LEAVE", "REMOVAL"}, review \in BOOLEAN :
                           Request(w, type, option, review, rule)
           \/ \E option \in Option : HandOver(w, option)
           \/ GiveUp(w)
    PROVE  Commit(w) /\ DOMAIN membership' = DOMAIN membership
<1> DEFINE Same == DOMAIN membership' = DOMAIN membership
<1>0. \A i : Changes(w, i) => Same
  BY DEF Changes, OneMember
<1>1. CASE Activate(w)
  BY <1>1, ActivateActivates, ActivatesCommits DEF Activates
<1>2. CASE Expire(w)
  <2>1. PICK i : i = task[w].member
    OBVIOUS
  <2> QED
    BY <1>0, <1>2, <2>1, ExpireChanges, ChangesCommits
<1>3. ASSUME Cancel(w) \/ Decline(w) \/ Escalate(w) \/ \E rule \in ReleaseRules : Complete(w, rule)
      PROVE  Commit(w) /\ Same
  <2>1. PICK i : i = exit[task[w].x].member
    OBVIOUS
  <2>2. Changes(w, i)
    BY <1>3, <2>1, CancelChanges, DeclineChanges, EscalateChanges, CompleteChanges
  <2> QED
    BY <1>0, <2>2, ChangesCommits
<1>4. CASE Release(w)
  <2>1. PICK i : i = task[w].member
    OBVIOUS
  <2>2. Returns(w, i)
    BY <1>4, <2>1, ReleaseReturns
  <2>3. Same
    BY <2>2 DEF Returns, OneMember
  <2> QED
    BY <2>2, <2>3, ReturnsCommits
<1>5. CASE Archive(w)
  <2>1. PICK p : p = task[w].person
    OBVIOUS
  <2>2. Archives(w, p)
    BY <1>5, <2>1, ArchiveArchives
  <2>3. Same
    BY <2>2 DEF Archives
  <2> QED
    BY <2>2, <2>3, ArchivesCommits
<1>6. ASSUME \/ \E option \in Option, rule \in ReleaseRules : Approve(w, option, rule)
             \/ \E option \in Option : HandOver(w, option)
      PROVE  Commit(w) /\ Same
  <2>1. PICK i : i = exit[task[w].x].member
    OBVIOUS
  <2>2. Changes(w, i)
    BY <1>6, <2>1, ApproveChanges, HandOverChanges
  <2> QED
    BY <1>0, <2>2, ChangesCommits
<1>7. ASSUME NEW type \in {"LEAVE", "REMOVAL"}, NEW option \in Option, NEW review \in BOOLEAN,
             NEW rule \in ReleaseRules, Request(w, type, option, review, rule)
      PROVE  Commit(w) /\ Same
  <2>1. PICK i : i = task[w].member
    OBVIOUS
  <2>2. PICK x : x = Len(exit) + 1
    OBVIOUS
  <2>3. Changes(w, i)
    BY <1>7, <2>1, <2>2, RequestChanges
  <2> QED
    BY <1>0, <2>3, ChangesCommits
<1>8. CASE GiveUp(w)
  <2>1. Same
    BY <1>8 DEF GiveUp, memberVars
  <2> QED
    BY <1>8, <2>1, GiveUpCommits
<1> QED
  BY <1>1, <1>2, <1>3, <1>4, <1>5, <1>6, <1>7, <1>8

LEMMA Arrivals ==
    ASSUME IInv, NEW w \in Worker, NEW fresh,
           Join(w, fresh) \/ \E rule \in ReleaseRules : Override(w, fresh, rule)
    PROVE  Commit(w) /\ Arrival(w)
<1>1. PICK p : p = task[w].person
  OBVIOUS
<1>2. PICK S : S = EndedBy(task[w])
  OBVIOUS
<1>3. Join(w, fresh) => Arrives(w, p, {})
  BY <1>1, JoinArrives
<1>4. ASSUME NEW rule \in ReleaseRules, Override(w, fresh, rule) PROVE Arrives(w, p, S)
  BY <1>1, <1>2, <1>4, OverrideArrives
<1>5. Arrival(w)
  BY <1>3, <1>4 DEF Arrival
<1> QED
  BY <1>5, ArrivesCommits DEF Arrival

LEMMA SeatCommits ==
    ASSUME IInv, NEW w \in Worker, Assign(w) \/ Change(w) \/ Grant(w) \/ Refuse(w)
    PROVE  Commit(w) /\ DOMAIN membership' = DOMAIN membership
<1>1. CASE Assign(w)
  <2>1. PICK a : a = task[w].agency
    OBVIOUS
  <2>2. AssignsSeats(w, a)
    BY <1>1, <2>1, AssignAssigns
  <2>3. DOMAIN membership' = DOMAIN membership
    BY <2>2 DEF AssignsSeats
  <2> QED
    BY <2>2, <2>3, AssignsCommits
<1>2. ASSUME Change(w) \/ Grant(w) \/ Refuse(w) PROVE DOMAIN membership' = DOMAIN membership
  <2>1. UNCHANGED memberVars
    BY <1>2, CapacityAlone
  <2> QED
    BY <2>1 DEF memberVars
<1> QED
  BY <1>1, <1>2, CapacityCommits

LEMMA StepIs ==
    ASSUME IInv, [Next]_vars
    PROVE  \/ \E w \in Worker : Commit(w) /\ UniqueOpen(membership, exit)'
                                /\ (Arrival(w) \/ DOMAIN membership' = DOMAIN membership)
           \/ \E w \in Worker : BeginsOne(w)
           \/ \E w \in Worker, p \in Person : Verify(w, p) /\ SameSeats
           \/ \E a \in Agency, type \in {"REQUEST", "PURCHASE"} : PlaceOrder(a, type)
           \/ UNCHANGED vars
<1>1. CASE MemberNext /\ UNCHANGED seatVars /\ UniqueOpen(membership', exit')
  <2>1. SameSeats
    BY <1>1 DEF SameSeats
  <2>2. PICK w \in Worker :
            \/ \E p \in Person : Verify(w, p) \/ \E k \in DOMAIN profile[p] : BeginArchive(w, p, k)
            \/ BeginActivate(w) \/ Activate(w)
            \/ \E i \in DOMAIN membership :
                BeginExpire(w, i) \/ BeginRelease(w, i) \/ BeginRequest(w, i)
            \/ \E x \in DOMAIN exit :
                BeginCancel(w, x) \/ BeginDecide(w, x) \/ BeginEscalate(w, x) \/ BeginComplete(w, x)
            \/ Expire(w) \/ Cancel(w) \/ Decline(w) \/ Escalate(w) \/ Release(w) \/ Archive(w)
            \/ \E rule \in ReleaseRules :
                \/ Complete(w, rule)
                \/ \E option \in Option :
                    \/ Approve(w, option, rule)
                    \/ \E type \in {"LEAVE", "REMOVAL"}, review \in BOOLEAN :
                           Request(w, type, option, review, rule)
            \/ \E option \in Option : HandOver(w, option)
            \/ GiveUp(w)
    BY <1>1 DEF MemberNext
  <2>3. UniqueOpen(membership, exit)'
    BY <1>1 DEF UniqueOpen
  <2> QED
    BY <2>1, <2>2, <2>3, MemberBegins, MemberCommits
<1>2. CASE SeatNext /\ UniqueOpen(membership', exit')
  <2>1. UniqueOpen(membership, exit)'
    BY <1>2 DEF UniqueOpen
  <2> QED
    BY <1>2, <2>1, SeatBegins, SeatCommits, Arrivals DEF SeatNext
<1> QED
  BY <1>1, <1>2 DEF Next

LEMMA Inductive == ASSUME IInv, [Next]_vars PROVE IInv'
<1>1. ASSUME NEW w \in Worker, Commit(w), UniqueOpen(membership, exit)' PROVE IInv'
  BY <1>1, CommitKeepsInv
<1>2. ASSUME NEW w \in Worker, BeginsOne(w) PROVE IInv'
  BY <1>2, BegunKeepsInv DEF BeginsOne
<1>3. ASSUME NEW w \in Worker, NEW p \in Person, Verify(w, p), SameSeats PROVE IInv'
  <2>1. PICK A : A = {} /\ Keeps(A)
    BY <1>3, VerifyKeeps
  <2>2. UNCHANGED <<membership, exit, profile>> /\ raced \subseteq raced'
    BY <1>3 DEF Verify, Begin
  <2>3. TasksOK' /\ OneByOne'
    BY <1>3, VerifyTasks
  <2> QED
    BY <1>3, <2>1, <2>2, <2>3, SameLedger, StaysKeepsInv
<1>4. ASSUME NEW a \in Agency, NEW type \in {"REQUEST", "PURCHASE"}, PlaceOrder(a, type) PROVE IInv'
  <2>1. PICK A : A = {} /\ Keeps(A)
    BY <1>4, PlaceOrderKeeps
  <2>2. UNCHANGED <<membership, exit, profile>> /\ UNCHANGED <<task, raced>> /\ raced \subseteq raced'
    BY <1>4 DEF PlaceOrder, memberVars
  <2>3. TasksOK' /\ OneByOne'
    BY <2>1, <2>2, SameTasks
  <2> QED
    BY <1>4, <2>1, <2>2, <2>3, PlaceOrderLedger, StaysKeepsInv
<1>5. CASE UNCHANGED vars
  <2>1. UNCHANGED memberVars /\ SameSeats /\ UNCHANGED <<task, raced>> /\ raced \subseteq raced'
    BY <1>5 DEF vars, SameSeats
  <2>2. PICK A : A = {} /\ Keeps(A)
    BY <2>1, NothingKeeps
  <2>3. TasksOK' /\ OneByOne'
    BY <2>1, <2>2, SameTasks
  <2> QED
    BY <2>1, <2>3, BegunKeepsInv
<1> QED
  BY <1>1, <1>2, <1>3, <1>4, <1>5, StepIs

-------------------------------------------------------------------------------
(***************************************************************************)
(* The first state                                                         *)
(***************************************************************************)
LEMMA FirstMember ==
    ASSUME NEW p \in Person, NEW a \in Agency, NEW m, m = NewMember(p, 1, a, "ACTIVE", 0)
    PROVE  /\ m \in MemberRow /\ m.person = p /\ m.profile = 1 /\ m.agency = a /\ m.status = "ACTIVE"
           /\ SeatOK(m)
<1>1. /\ m.person = p /\ m.profile = 1 /\ m.agency = a /\ m.status = "ACTIVE" /\ m.consumed = 0
      /\ m.released = 0 /\ m.rule = "none" /\ m.returned = FALSE /\ m.seated = (0 > 0)
  BY Zenon DEF NewMember
<1>2. m \in MemberRow
  <2>1. NoExit \in Nat /\ 1 \in Nat /\ 0 \in Nat /\ "ACTIVE" \in MembershipStatus /\ (0 > 0) \in BOOLEAN
    BY DEF NoExit, MembershipStatus
  <2> QED
    BY <2>1, Zenon DEF MemberRow, NewMember
<1>3. ~m.seated
  <2>1. ~(0 > 0)
    OBVIOUS
  <2> QED
    BY <1>1, <2>1, Zenon
<1> QED
  BY <1>1, <1>2, <1>3 DEF SeatOK, Expired

LEMMA FirstProfile ==
    ASSUME NEW a \in Agency \cup {NoAgency}, NEW q, q = NewProfile(a)
    PROVE  q \in ProfileRow /\ <<q>> \in Seq(ProfileRow) /\ q.agency = a
<1>1. "LISTED" \in {"LISTED", "FORMER", "ARCHIVED", "INDEPENDENT"} /\ FALSE \in BOOLEAN
  OBVIOUS
<1>2. q \in ProfileRow
  BY <1>1, Zenon DEF NewProfile, ProfileRow
<1>3. q.agency = a
  BY DEF NewProfile
<1> QED
  BY <1>2, <1>3

LEMMA FirstFreelancer ==
    ASSUME NEW q, q = Freelancer
    PROVE  q \in ProfileRow /\ <<q>> \in Seq(ProfileRow) /\ q.agency = NoAgency
<1>1. q \in ProfileRow /\ q.agency = NoAgency
  BY DEF Freelancer, ProfileRow
<1> QED
  BY <1>1

\* The profiles of everyone, each with one that is of agency Of[p].
FirstProfiles(Of) ==
    \A p \in Person : /\ Len(profile[p]) = 1 /\ DOMAIN profile[p] = {1} /\ profile[p][1].agency = Of[p]
LEMMA OneElement ==
    ASSUME NEW r, NEW q, r = <<q>> PROVE Len(r) = 1 /\ DOMAIN r = {1} /\ r[1] = q
OBVIOUS

Enters(p, a) == profile[p] = <<NewProfile(a)>> \/ (a = NoAgency /\ profile[p] = <<Freelancer>>)
LEMMA ProfilesBegin ==
    ASSUME NEW Of \in [Person -> Agency \cup {NoAgency}], profile = [p \in Person |-> profile[p]],
           \A p \in Person : Enters(p, Of[p])
    PROVE  profile \in [Person -> Seq(ProfileRow)] /\ FirstProfiles(Of)
<1>1. \A p \in Person : /\ profile[p] \in Seq(ProfileRow) /\ profile[p][1].agency = Of[p]
                        /\ Len(profile[p]) = 1 /\ DOMAIN profile[p] = {1}
  <2> TAKE p \in Person
  <2>1. PICK q : q \in {NewProfile(Of[p]), Freelancer} /\ profile[p] = <<q>>
                /\ (q = Freelancer => q = NewProfile(Of[p]) \/ Of[p] = NoAgency)
    BY DEF Enters
  <2>2. q.agency = Of[p] /\ <<q>> \in Seq(ProfileRow)
    BY <2>1, FirstProfile, FirstFreelancer
  <2>3. profile[p] = <<q>>
    BY <2>1
  <2>4. Len(profile[p]) = 1 /\ DOMAIN profile[p] = {1} /\ profile[p][1] = q
    BY <2>3, OneElement, Zenon
  <2> QED
    BY <2>2, <2>3, <2>4, Zenon
<1>2. FirstProfiles(Of)
  BY <1>1, Zenon DEF FirstProfiles
<1>3. profile \in [Person -> Seq(ProfileRow)]
  BY <1>1, Zenon
<1> QED
  BY <1>2, <1>3

\* The one membership there may be, or none.
LEMMA FirstRows ==
    ASSUME Init
    PROVE  \E Of \in [Person -> Agency \cup {NoAgency}] :
            /\ profile \in [Person -> Seq(ProfileRow)] /\ FirstProfiles(Of)
            /\ membership \in Seq(MemberRow)
            /\ \A i, j \in DOMAIN membership : i = j
            /\ \A i \in DOMAIN membership :
                /\ membership[i].status = "ACTIVE" /\ SeatOK(membership[i]) /\ membership[i].profile = 1
                /\ membership[i].person \in Person
                /\ membership[i].agency \in Agency
            /\ \A p \in Person : {Of[p]} \ {NoAgency} = {membership[i].agency : i \in OpenFor(p)}
<1>1. CASE membership = <<>> /\ profile \in [Person -> {<<NewProfile(NoAgency)>>, <<Freelancer>>}]
  <2>1. PICK Of : Of = [p \in Person |-> NoAgency]
    OBVIOUS
  <2>2. /\ Of \in [Person -> Agency \cup {NoAgency}] /\ profile = [p \in Person |-> profile[p]]
        /\ \A p \in Person : Enters(p, Of[p])
    <3>1. \A p \in Person : Of[p] = NoAgency /\ profile[p] \in {<<NewProfile(NoAgency)>>, <<Freelancer>>}
      BY <1>1, <2>1
    <3> QED
      BY <1>1, <2>1, <3>1 DEF Enters
  <2>3. profile \in [Person -> Seq(ProfileRow)] /\ FirstProfiles(Of)
    BY <2>2, ProfilesBegin
  <2>4. membership \in Seq(MemberRow) /\ DOMAIN membership = {}
    BY <1>1
  <2>5. \A p \in Person : OpenFor(p) = {}
    BY <2>4 DEF OpenFor
  <2>6. \A p \in Person : {Of[p]} \ {NoAgency} = {membership[i].agency : i \in OpenFor(p)}
    BY <2>1, <2>5
  <2> QED
    BY <2>2, <2>3, <2>4, <2>6
<1>2. ASSUME NEW p \in Person, NEW a \in Agency,
             membership = <<NewMember(p, 1, a, "ACTIVE", 0)>>,
             profile = [q \in Person |-> <<NewProfile(IF p = q THEN a ELSE NoAgency)>>]
      PROVE  \E Of \in [Person -> Agency \cup {NoAgency}] :
            /\ profile \in [Person -> Seq(ProfileRow)] /\ FirstProfiles(Of)
            /\ membership \in Seq(MemberRow)
            /\ \A i, j \in DOMAIN membership : i = j
            /\ \A i \in DOMAIN membership :
                /\ membership[i].status = "ACTIVE" /\ SeatOK(membership[i]) /\ membership[i].profile = 1
                /\ membership[i].person \in Person
                /\ membership[i].agency \in Agency
            /\ \A q \in Person : {Of[q]} \ {NoAgency} = {membership[i].agency : i \in OpenFor(q)}
  <2>1. PICK Of : Of = [q \in Person |-> IF p = q THEN a ELSE NoAgency]
    OBVIOUS
  <2>2. /\ Of \in [Person -> Agency \cup {NoAgency}] /\ profile = [q \in Person |-> profile[q]]
        /\ \A q \in Person : Enters(q, Of[q])
    BY <1>2, <2>1 DEF Enters
  <2>3. profile \in [Person -> Seq(ProfileRow)] /\ FirstProfiles(Of)
    BY <2>2, ProfilesBegin
  <2>4. PICK m : m = NewMember(p, 1, a, "ACTIVE", 0)
    OBVIOUS
  <2>5. /\ m \in MemberRow /\ m.person = p /\ m.profile = 1 /\ m.agency = a /\ m.status = "ACTIVE"
        /\ SeatOK(m)
    BY <2>4, FirstMember
  <2>6. membership = <<m>>
    BY <1>2, <2>4
  <2>7. membership \in Seq(MemberRow) /\ DOMAIN membership = {1} /\ membership[1] = m
    BY <2>5, <2>6
  <2>8. OpenFor(p) = {1} /\ \A q \in Person \ {p} : OpenFor(q) = {}
    BY <2>5, <2>7 DEF OpenFor, OpenMember, OpenStatus, MembershipStatus
  <2>9. \A q \in Person : {Of[q]} \ {NoAgency} = {membership[i].agency : i \in OpenFor(q)}
    <3> TAKE q \in Person
    <3>1. CASE q = p
      <4>1. {membership[i].agency : i \in OpenFor(q)} = {a} /\ a # NoAgency /\ Of[q] = a
        BY <2>1, <2>5, <2>7, <2>8, <3>1, MembershipAssumption
      <4> QED
        BY <4>1
    <3>2. CASE q # p
      BY <2>1, <2>8, <3>2
    <3> QED
      BY <3>1, <3>2
  <2> QED
    BY <2>2, <2>3, <2>5, <2>7, <2>9
<1> QED
  BY <1>1, <1>2 DEF Init

LEMMA FirstLedger == ASSUME Init PROVE SeatTypes /\ LedgerAddsUp
<1>1. /\ plan \in [Agency -> PlanSeats \cup {NoPlan}] /\ order = <<>> /\ assigned = 0
      /\ ledger = [a \in Agency |-> [base |-> IF plan[a] = NoPlan THEN 0 ELSE plan[a],
                                     adjusted |-> 0, purchased |-> 0]]
  BY DEF Init
<1>2. \A a \in Agency : BaseOf(plan[a]) \in Nat
  BY <1>1, BaseInt
<1>3. \A a \in Agency : ledger[a] = [base |-> BaseOf(plan[a]), adjusted |-> 0, purchased |-> 0]
  BY <1>1 DEF BaseOf
<1>4. ledger \in [Agency -> [base: Int, adjusted: Int, purchased: Int]]
  <2>1. ledger = [a \in Agency |-> ledger[a]] /\ 0 \in Int
    BY <1>1
  <2>2. \A a \in Agency : BaseOf(plan[a]) \in Int
    BY <1>2
  <2>3. \A a \in Agency : ledger[a] \in [base: Int, adjusted: Int, purchased: Int]
    <3> TAKE a \in Agency
    <3>1. PICK b : b = BaseOf(plan[a])
      OBVIOUS
    <3>2. b \in Int /\ ledger[a] = [base |-> b, adjusted |-> 0, purchased |-> 0]
      BY <1>3, <2>2, <3>1
    <3> QED
      BY <3>2
  <2> QED
    BY <2>1, <2>3
<1>5. SeatTypes
  BY <1>1, <1>4 DEF SeatTypes
<1>6. ASSUME NEW a \in Agency
      PROVE  /\ ledger[a].base = BaseOf(plan[a])
             /\ ledger[a].purchased
                   = PackSeats * Cardinality({o \in Purchases(a) : order[o].status = "GRANTED"})
  <2>1. Purchases(a) = {}
    BY <1>1 DEF Purchases
  <2>2. Cardinality({o \in Purchases(a) : order[o].status = "GRANTED"}) = 0
    BY <2>1, FS_EmptySet
  <2>3. PackSeats * 0 = 0
    BY SeatsAssumption
  <2>4. PICK b : b = BaseOf(plan[a])
    OBVIOUS
  <2>5. ledger[a] = [base |-> b, adjusted |-> 0, purchased |-> 0]
    BY <1>3, <2>4, Zenon
  <2>6. ledger[a].base = b /\ ledger[a].purchased = 0
    BY <2>5
  <2> QED
    BY <2>2, <2>3, <2>4, <2>6
<1> QED
  BY <1>5, <1>6 DEF LedgerAddsUp

LEMMA InitInv == ASSUME Init PROVE IInv
<1>1. /\ exit = <<>> /\ raced = {} /\ overridden = {} /\ verified \in [Person -> BOOLEAN]
      /\ task = [w \in Worker |-> Idle]
  BY DEF Init, MemberInit
<1>2. PICK Of \in [Person -> Agency \cup {NoAgency}] :
            /\ profile \in [Person -> Seq(ProfileRow)] /\ FirstProfiles(Of)
            /\ membership \in Seq(MemberRow)
            /\ \A i, j \in DOMAIN membership : i = j
            /\ \A i \in DOMAIN membership :
                /\ membership[i].status = "ACTIVE" /\ SeatOK(membership[i]) /\ membership[i].profile = 1
                /\ membership[i].person \in Person
                /\ membership[i].agency \in Agency
            /\ \A p \in Person : {Of[p]} \ {NoAgency} = {membership[i].agency : i \in OpenFor(p)}
  BY FirstRows
<1>3. exit \in Seq(ExitRow) /\ DOMAIN exit = {}
  BY <1>1
<1>4. MemberTypes
  BY <1>1, <1>2, <1>3 DEF MemberTypes, FirstProfiles
<1>5. UniqueOpen(membership, exit)
  BY <1>2, <1>3 DEF UniqueOpen
<1>6. TasksOK
  <2>1. task \in [Worker -> {Idle}]
    BY <1>1
  <2>2. \A w \in Worker : Names(task[w]) /\ Reads(task[w])
    BY <2>1, IdleTask
  <2> QED
    BY <2>1, <2>2 DEF TasksOK
<1>7. OneByOne
  BY <1>1, IdleTask DEF OneByOne
<1>8. SeatRows
  BY <1>2 DEF SeatRows
<1>9. RequestRows
  <2>1. \A i : OpenExits(i) = {}
    BY <1>3 DEF OpenExits
  <2>2. "ACTIVE" \notin Leaving
    BY DEF Leaving
  <2> QED
    BY <1>2, <2>1, <2>2 DEF RequestRows, RequestOK
<1>10. ProfileRows
  <2> SUFFICES ASSUME NEW p \in Person PROVE ProfileOK(p)
    BY DEF ProfileRows
  <2>1. Len(profile[p]) = 1 /\ profile[p][1].agency = Of[p]
    BY <1>2 DEF FirstProfiles
  <2>2. \A i \in OpenFor(p) : membership[i].profile = 1
    BY <1>2 DEF OpenFor
  <2>3. 1..(1 - 1) = {}
    OBVIOUS
  <2> QED
    BY <1>2, <2>1, <2>2, <2>3 DEF ProfileOK
<1> QED
  BY <1>4, <1>5, <1>6, <1>7, <1>8, <1>9, <1>10, FirstLedger DEF IInv

\* Whatever requests are in flight: every row is of its type, what a request has read is
\* still so until another request about the same rows began, and the seats, exit requests
\* and profiles of whatever only one request was about agree with the memberships.
THEOREM SeatsInvariant == Spec => []IInv
<1>1. Init => IInv
  BY InitInv
<1>2. IInv /\ [Next]_vars => IInv'
  BY Inductive
<1> QED
  BY <1>1, <1>2, PTL DEF Spec

-------------------------------------------------------------------------------
(***************************************************************************)
(* What follows of the records                                             *)
(***************************************************************************)

\* A membership that takes a seat consumed one and gives back at most one: a RELEASED
\* entry is there exactly when the membership says its seat was returned, which is never
\* while it is open, and at once when the agency's rule is IMMEDIATE.
THEOREM SeatsAreCounted == Spec => []SeatAccounts
<1>1. IInv => SeatAccounts
  BY DEF IInv, SeatRows, SeatOK, SeatAccounts
<1> QED
  BY <1>1, SeatsInvariant, PTL

\* The base of an agency's totals is that of its plan however often plans replaced one
\* another, and every purchase that was granted added its seats once.
THEOREM TotalsAddUp == Spec => []LedgerAddsUp
<1>1. IInv => LedgerAddsUp
  BY DEF IInv
<1> QED
  BY <1>1, SeatsInvariant, PTL

LEMMA RecordsAgree == ASSUME IInv PROVE RecordsFollowMembership
<1>1. RequestsFollow
  <2>1. \A i \in DOMAIN membership : Apart(i) => RequestOK(i)
    BY ApartIsStill DEF IInv, RequestRows
  <2> QED
    BY <2>1, Zenon DEF RequestsFollow, RequestOK, Leaving
<1>2. ProfilesFollow
  <2>1. \A p \in Person : Human(p) \notin raced /\ (\A i \in overridden : membership[i].person # p) => ProfileOK(p)
    BY DEF IInv, ProfileRows, Calm, Quiet
  <2> QED
    BY <2>1, Zenon DEF ProfilesFollow, ProfileOK
<1> QED
  BY <1>1, <1>2 DEF RecordsFollowMembership

\* In whatever order people join, leave, are removed, are archived and join again, a
\* membership waits for an exit exactly while it has an open request, which it names, and
\* a person's profile in use is of the agency they are an open member of.
THEOREM RecordsStayTogether == Spec => []RecordsFollowMembership
<1>1. IInv => RecordsFollowMembership
  BY RecordsAgree
<1> QED
  BY <1>1, SeatsInvariant, PTL

\* Every step of the specification is one of those above and changes rows as Keeps says.
LEMMA NextKeeps == ASSUME IInv, [Next]_vars PROVE \E A : Keeps(A)
<1>1. ASSUME NEW w \in Worker, Commit(w) PROVE \E A : Keeps(A)
  BY <1>1 DEF Commit
<1>2. ASSUME NEW w \in Worker, BeginsOne(w) PROVE \E A : Keeps(A)
  BY <1>2, NothingKeeps DEF BeginsOne
<1>3. ASSUME NEW w \in Worker, NEW p \in Person, Verify(w, p), SameSeats PROVE \E A : Keeps(A)
  BY <1>3, VerifyKeeps
<1>4. ASSUME NEW a \in Agency, NEW type \in {"REQUEST", "PURCHASE"}, PlaceOrder(a, type) PROVE \E A : Keeps(A)
  BY <1>4, PlaceOrderKeeps
<1>5. CASE UNCHANGED vars
  <2>1. UNCHANGED memberVars /\ SameSeats
    BY <1>5 DEF vars, SameSeats
  <2> QED
    BY <2>1, NothingKeeps
<1> QED
  BY <1>1, <1>2, <1>3, <1>4, <1>5, StepIs

LEMMA EndedStays ==
    ASSUME IInv, [Next]_vars, NEW i \in DOMAIN membership, ~OpenMember(i), Apart(i)
    PROVE  membership'[i].status = "ENDED"
<1>1. PICK A : Keeps(A)
  BY NextKeeps
<1>2. membership[i].status = "ENDED"
  BY MemberTyped DEF IInv, MemberRow, OpenMember, OpenStatus
<1> QED
  BY <1>1, <1>2 DEF Keeps, KeepsMembers, KeepsRow

\* No step of any request opens a membership again that has ended: one that expired, was
\* left, was removed from or was overridden stays as it is, and joining again adds a row.
THEOREM EndedForGood == Spec => EndedIsFinal
<1>1. IInv /\ [Next]_vars =>
        [\A i \in DOMAIN membership :
            ~OpenMember(i) /\ Apart(i) => membership'[i].status = "ENDED"]_vars
  BY EndedStays
<1> QED
  BY <1>1, SeatsInvariant, PTL DEF Spec, EndedIsFinal

-------------------------------------------------------------------------------
(***************************************************************************)
(* Seats and those who hold them                                           *)
(***************************************************************************)
Settled(a) == \A i \in Members(a) : Apart(i) /\ ~Expired(membership[i])

\* A member's entries sum up to nothing or to one, and to one when they hold a seat.
LEMMA SeatNets ==
    ASSUME IInv, NEW a, Settled(a), NEW i \in Members(a)
    PROVE  Net(membership[i]) \in Nat /\ (i \in Holders(a) => Net(membership[i]) = 1)
<1> DEFINE m == membership[i]
<1>1. i \in DOMAIN membership /\ Apart(i) /\ ~Expired(m)
  BY DEF Settled, Members
<1>2. SeatOK(m) /\ m \in MemberRow
  BY <1>1, MemberTyped DEF IInv, SeatRows
<1>3. m.consumed = (IF m.seated THEN 1 ELSE 0) /\ m.released = (IF m.returned THEN 1 ELSE 0)
  BY <1>1, <1>2, Zenon DEF SeatOK
<1>4. (m.returned => m.seated) /\ m.seated \in BOOLEAN /\ m.returned \in BOOLEAN
  BY <1>2 DEF SeatOK, MemberRow
<1>5. Net(m) \in Nat
  BY <1>3, <1>4 DEF Net
<1>6. ASSUME i \in Holders(a) PROVE Net(m) = 1
  <2>1. m.seated /\ (OpenMember(i) \/ SeatHeld(m))
    BY <1>6 DEF Holders
  <2>2. ~m.returned
    BY <1>2, <2>1, Zenon DEF SeatOK, SeatHeld, OpenMember, OpenStatus
  <2> QED
    BY <1>3, <2>1, <2>2 DEF Net
<1> QED
  BY <1>5, <1>6

\* There are no more seat holders than seats used.
LEMMA HoldersUse ==
    ASSUME IInv, NEW a, Settled(a)
    PROVE  IsFiniteSet(Holders(a)) /\ Cardinality(Holders(a)) \in Nat /\ Cardinality(Holders(a)) <= Used(a)
<1> DEFINE f == [i \in DOMAIN membership |-> Net(membership[i])]
<1>1. MemberTypes
  BY DEF IInv
<1>2. IsFiniteSet(Members(a)) /\ Members(a) \subseteq DOMAIN membership
  BY <1>1, RowsFinite
<1>3. Holders(a) \in SUBSET Members(a)
  BY DEF Holders
<1>4. IsFiniteSet(Holders(a)) /\ Cardinality(Holders(a)) \in Nat
  BY <1>2, <1>3, FS_Subset, FS_CardinalityType
<1>5. (\A i \in Members(a) : f[i] \in Nat) /\ \A i \in Holders(a) : f[i] = 1
  BY <1>2, <1>3, SeatNets
<1>6. Used(a) = SumOver(f, Members(a))
  BY <1>1, UsedInt
<1> HIDE DEF f
<1>7. SumOver(f, Holders(a)) = Cardinality(Holders(a))
  BY <1>4, <1>5, SumOnes
<1>8. SumOver(f, Holders(a)) <= SumOver(f, Members(a))
  BY <1>2, <1>3, <1>5, SumSubset
<1> QED
  BY <1>4, <1>6, <1>7, <1>8

\* Whoever arrives holds one seat more; those who leave meanwhile hold none they did not hold.
LEMMA OneMoreHolder ==
    ASSUME IInv, NEW w \in Worker, NEW p, NEW S, Arrives(w, p, S), NEW a, Settled(a)
    PROVE  Holders(a)' \subseteq Holders(a) \cup {Len(membership) + 1}
<1> SUFFICES ASSUME NEW i \in Holders(a)', i # Len(membership) + 1 PROVE i \in Holders(a)
  OBVIOUS
<1> DEFINE m == membership[i]
           n == membership'[i]
<1>1. /\ i \in DOMAIN membership' /\ n.agency = a /\ n.seated
      /\ n.status \in OpenStatus \/ SeatHeld(n)
  BY DEF Holders, Members, OpenMember
<1>2. i \in DOMAIN membership
  BY <1>1 DEF Arrives
<1>3. CASE i \in S
  <2>1. Alike(m, n) /\ (Apart(i) => m.status # "ENDED")
    BY <1>3 DEF Arrives
  <2>2. m.agency = a /\ m.seated
    BY <1>1, <2>1 DEF Alike
  <2>3. i \in Members(a) /\ Apart(i)
    BY <1>2, <2>2 DEF Members, Settled
  <2>4. OpenMember(i)
    BY <1>2, <2>1, <2>3, MemberTyped DEF IInv, MemberRow, OpenMember, OpenStatus
  <2> QED
    BY <2>2, <2>3, <2>4 DEF Holders
<1>4. CASE i \notin S
  <2>1. n = m
    BY <1>2, <1>4 DEF Arrives
  <2>2. i \in Members(a)
    BY <1>1, <1>2, <2>1 DEF Members
  <2>3. ~Expired(m)
    BY <2>2 DEF Settled
  <2>4. m.seated /\ (OpenMember(i) \/ SeatHeld(m))
    BY <1>1, <2>1 DEF OpenMember
  <2> QED
    BY <2>2, <2>3, <2>4 DEF Holders
<1> QED
  BY <1>3, <1>4

\* A request that was let in read more seats than were used, and while it alone was about
\* the agency there still are.
LEMMA JoinHasRoom ==
    ASSUME IInv, NEW w \in Worker, NEW a \in Agency, Doing(w, "join"), task[w].agency = a, Office(a) \notin raced
    PROVE  Total(a) > Used(a)
<1>1. Reads(task[w]) /\ task[w].op = "join"
  BY ReadsOf DEF Doing
<1> QED
  BY <1>1, Zenon DEF Reads

LEMMA JoinFits ==
    ASSUME IInv, [Next]_vars, NEW w \in Worker, NEW a \in Agency, Joins(w, a), Office(a) \notin raced, Settled(a)
    PROVE  Cardinality(Holders(a)') <= Total(a)'
<1>0. MemberTypes /\ SeatTypes
  BY DEF IInv
<1>1. Doing(w, "join") /\ task[w].agency = a /\ Len(membership') > Len(membership)
  BY DEF Joins
<1>2. DOMAIN membership' # DOMAIN membership
  <2>1. PICK A : Keeps(A)
    BY NextKeeps
  <2>2. membership \in Seq(MemberRow) /\ membership' \in Seq(MemberRow)
    BY <1>0, <2>1 DEF MemberTypes, Keeps, KeepsMembers
  <2>3. /\ Len(membership) \in Nat /\ DOMAIN membership = 1..Len(membership)
        /\ Len(membership') \in Nat /\ DOMAIN membership' = 1..Len(membership')
    BY <2>2
  <2>4. Len(membership') \in 1..Len(membership') /\ Len(membership') \notin 1..Len(membership)
    BY <1>1, <2>3
  <2> QED
    BY <2>3, <2>4, Zenon
<1>3. PICK v \in Worker : Arrival(v)
  <2>1. \A v \in Worker : ~BeginsOne(v)
    BY <1>2 DEF BeginsOne, memberVars
  <2>2. \A v \in Worker, p \in Person : ~Verify(v, p)
    BY <1>2 DEF Verify
  <2>3. \A b \in Agency, type \in {"REQUEST", "PURCHASE"} : ~PlaceOrder(b, type)
    BY <1>2 DEF PlaceOrder, memberVars
  <2>4. ~UNCHANGED vars
    BY <1>2 DEF vars, memberVars
  <2> QED
    BY <1>2, <2>1, <2>2, <2>3, <2>4, StepIs
<1>4. PICK p, S : Arrives(v, p, S)
  BY <1>3 DEF Arrival
<1>5. Holders(a)' \subseteq Holders(a) \cup {Len(membership) + 1}
  BY <1>4, OneMoreHolder
<1>6. Total(a)' = Total(a)
  BY <1>4 DEF Arrives, SameSeats, seatVars, Total
<1>7. Total(a) \in Int /\ Used(a) \in Int /\ Total(a) > Used(a)
  <2>1. Total(a) \in Int
    BY <1>0 DEF Total, SeatTypes
  <2> QED
    BY <1>0, <1>1, <2>1, UsedInt, JoinHasRoom
<1>8. IsFiniteSet(Holders(a)) /\ Cardinality(Holders(a)) \in Nat /\ Cardinality(Holders(a)) <= Used(a)
  BY HoldersUse
<1>9. PICK H : H = Holders(a)
  OBVIOUS
<1>10. PICK n : n = Len(membership) + 1
  OBVIOUS
<1>11. IsFiniteSet(H \cup {n}) /\ Cardinality(H \cup {n}) \in Nat /\ Cardinality(H \cup {n}) <= Cardinality(H) + 1
  <2>1. CASE n \in H
    <3>1. H \cup {n} = H
      BY <2>1
    <3> QED
      BY <1>8, <1>9, <3>1
  <2>2. CASE n \notin H
    BY <1>8, <1>9, <2>2, FS_AddElement
  <2> QED
    BY <2>1, <2>2
<1>12. PICK K : K = Holders(a)'
  OBVIOUS
<1>13. Cardinality(K) \in Nat /\ Cardinality(K) <= Cardinality(H \cup {n})
  BY <1>5, <1>9, <1>10, <1>11, <1>12, FS_Subset, FS_CardinalityType
<1> QED
  BY <1>6, <1>7, <1>8, <1>9, <1>11, <1>12, <1>13

\* A join by invitation never leaves an agency with more seat holders than seats, as long as
\* no other request about the agency itself is in flight beside it: no exit, return of a seat,
\* activation or expiry between its check and its commit adds a holder it did not count.
THEOREM JoinsNeverOverbook == Spec => NoOverbooking
<1>1. IInv /\ [Next]_vars =>
        [\A w \in Worker, a \in Agency :
            /\ Joins(w, a)
            /\ Office(a) \notin raced
            /\ \A i \in Members(a) : Apart(i) /\ ~Expired(membership[i])
            => Cardinality(Holders(a)') <= Total(a)']_vars
  BY JoinFits DEF Settled
<1> QED
  BY <1>1, SeatsInvariant, PTL DEF Spec, NoOverbooking

-------------------------------------------------------------------------------
(***************************************************************************)
(* Outbox: the events, the notifications and the jobs                      *)
(***************************************************************************)
JobRow == [status: JobStatus, tries: Nat, stale: BOOLEAN]
EventRow == [state: {"NONE", "NEW", "PROCESSED"}, tries: 0..EventTries]
MailTask == [op: {"mail"}, j: Mail]
JobsTask == [op: {"jobs"}, todo: SUBSET Job]
RecordTask == [op: {"record"}, todo: SUBSET Job, j: Job, ok: BOOLEAN]
EventsTask == [op: {"events"}, todo: SUBSET Event, wrote: SUBSET DedupeKey, done: SUBSET Event,
               failed: SUBSET Event]

\* The events a process has claimed, its row locks.
Batch(w) == IF Working(w, "events") THEN work[w].todo \cup work[w].done \cup work[w].failed ELSE {}
Wrote(w) == IF Working(w, "events") THEN work[w].wrote ELSE {}

\* The dedupeKeys for which ToldOnce promises something.
Sole(d) == ~overlapped \/ OfOneEvent(d[1])

\* Somebody was told, or is in a batch that wrote D, whatever the period.
ToldOf(k, D) == \E d \in DedupeKey : d[1] = k /\ (notices[d] > 0 \/ d \in D)

(***************************************************************************)
(* The inductive invariant                                                 *)
(***************************************************************************)

\* Batches do not share events, and hold events that still wait.
BatchesOK ==
    /\ \A w \in Process, e \in Event : e \in Batch(w) =>
           event[e].state = "NEW" /\ event[e].tries < EventTries
    /\ \A v, w \in Process, e \in Event : e \in Batch(v) /\ e \in Batch(w) => v = w
    /\ ~overlapped => \A v, w \in Process : Working(v, "events") /\ Working(w, "events") => v = w

\* A batch wrote what its events ask for, and all of it for those that are done.  A key
\* of which ToldOnce speaks is in one batch at most, and only the first time.
WritesOK ==
    /\ \A w \in Process, d \in DedupeKey : d \in Wrote(w) =>
           /\ \E e \in Batch(w) : d[1] \in KeysOf[e]
           /\ Sole(d) => notices[d] = 0
    /\ \A w \in Process : Working(w, "events") => \A e \in work[w].done :
           \A k \in KeysOf[e] : ToldOf(k, work[w].wrote)
    /\ \A e \in Event : event[e].state = "PROCESSED" => \A k \in KeysOf[e] : ToldOf(k, {})

\* The mails of a notification exist as soon as it does.
MailsOK ==
    \A j \in Job \ Mail : job[j].status = "NONE" <=> notices[Origin[j][1]] < Origin[j][2]

\* A job that was never taken away from its process is held by one process at most,
\* which runs it or is about to, and is claimed again only after it failed.
JobOK(j) ==
    /\ job[j].tries <= JobTries
    /\ job[j].status = "PENDING" => job[j].tries = 0
    /\ \A w \in Process : j \in Holds(w) =>
           job[j].status = (IF Working(w, "mail") THEN "PENDING" ELSE "RUNNING")
    /\ \A v, w \in Process : j \in Holds(v) /\ j \in Holds(w) => v = w
JobsOK ==
    /\ \A j \in Job : job[j].status = "NONE" => job[j].tries = 0 /\ \A w \in Process : j \notin Holds(w)
    /\ \A j \in Job \ retaken : JobOK(j)
    /\ \A w \in Process : Working(w, "record") => work[w].j \notin work[w].todo

-------------------------------------------------------------------------------
(***************************************************************************)
(* Types                                                                   *)
(***************************************************************************)
LEMMA Kinds ==
    ASSUME TypeOK, NEW w \in Process
    PROVE  /\ Working(w, "mail") => work[w] \in MailTask /\ work[w].j \in Job
           /\ Working(w, "jobs") => work[w] \in JobsTask
           /\ Working(w, "record") => work[w] \in RecordTask
           /\ Working(w, "events") => work[w] \in EventsTask
           /\ work[w] = NoWork => /\ ~Working(w, "mail") /\ ~Working(w, "jobs")
                                /\ ~Working(w, "record") /\ ~Working(w, "events")
           /\ work[w] = NoWork \/ Working(w, "mail") \/ Working(w, "jobs") \/ Working(w, "record")
                 \/ Working(w, "events")
  <1>1. work[w] \in {NoWork} \cup MailTask \cup JobsTask \cup RecordTask \cup EventsTask
    BY DEF TypeOK, Task, JobTask, MailTask, JobsTask, RecordTask, EventsTask
  <1>2. NoWork.op = "idle"
    BY DEF NoWork
  <1>3. Mail \subseteq Job
    BY JobQueueAssumption
  <1>4. QED
    BY <1>1, <1>2, <1>3 DEF Working, MailTask, JobsTask, RecordTask, EventsTask

LEMMA TaskTypes ==
    {NoWork} \cup MailTask \cup JobsTask \cup RecordTask \cup EventsTask = Task
  BY DEF Task, JobTask, MailTask, JobsTask, RecordTask, EventsTask

\* One process goes on, the others keep their tasks.
LEMMA ProceedType ==
    ASSUME TypeOK, NEW w \in Process, NEW t \in Task, Proceed(w, t)
    PROVE  /\ work' \in [Process -> Task] /\ work'[w] = t
           /\ \A v \in Process \ {w} : /\ work'[v] = work[v] /\ Holds(v)' = Holds(v)
                                       /\ Batch(v)' = Batch(v) /\ Wrote(v)' = Wrote(v)
                                       /\ \A op : Working(v, op)' <=> Working(v, op)
  <1>1. work \in [Process -> Task]
    BY DEF TypeOK
  <1>2. work' \in [Process -> Task] /\ work'[w] = t
    BY <1>1 DEF Proceed
  <1>3. ASSUME NEW v \in Process \ {w}
        PROVE  /\ work'[v] = work[v] /\ Holds(v)' = Holds(v)
               /\ Batch(v)' = Batch(v) /\ Wrote(v)' = Wrote(v)
               /\ \A op : Working(v, op)' <=> Working(v, op)
    <2>1. work'[v] = work[v]
      BY <1>1 DEF Proceed
    <2>2. QED
      BY <2>1 DEF Holds, Batch, Wrote, Working
  <1>4. QED  BY <1>2, <1>3

LEMMA EnqueuedRows ==
    ASSUME TypeOK, NEW J \in SUBSET Job, job' = Enqueued(J)
    PROVE  /\ job' \in [Job -> JobRow]
           /\ \A j \in Job : /\ job'[j].status = IF j \in J THEN "PENDING" ELSE job[j].status
                             /\ job'[j].tries = job[j].tries
                             /\ j \notin J => job'[j] = job[j]
  <1>1. job \in [Job -> JobRow]
    BY DEF TypeOK, JobTypeOK, JobRow
  <1>2. ASSUME NEW j \in Job
        PROVE  /\ job'[j] \in JobRow /\ job'[j].tries = job[j].tries
               /\ job'[j].status = IF j \in J THEN "PENDING" ELSE job[j].status
               /\ j \notin J => job'[j] = job[j]
    <2>1. job[j] \in JobRow /\ job'[j] = IF j \in J THEN [job[j] EXCEPT !.status = "PENDING"] ELSE job[j]
      BY <1>1 DEF Enqueued
    <2>2. QED  BY <2>1 DEF JobRow, JobStatus
  <1>3. QED  BY <1>2 DEF Enqueued

LEMMA ClaimedRows ==
    ASSUME TypeOK, NEW w \in Process, NEW J \in SUBSET Job, Claim(w, J)
    PROVE  /\ job' \in [Job -> JobRow]
           /\ \A j \in Job : IF j \in J
                THEN job'[j].status = "RUNNING" /\ job'[j].tries = job[j].tries + 1
                ELSE job'[j] = job[j]
           /\ retaken' \subseteq Job /\ retaken \subseteq retaken'
           /\ \A j \in J \ retaken' : /\ job[j].status # "RUNNING"
                                      /\ \A v \in Process \ {w} : j \notin Holds(v)
  <1>1. job \in [Job -> JobRow] /\ retaken \subseteq Job
    BY DEF TypeOK, JobTypeOK, JobRow
  <1>2. ASSUME NEW j \in Job
        PROVE  /\ job'[j] \in JobRow
               /\ IF j \in J THEN job'[j].status = "RUNNING" /\ job'[j].tries = job[j].tries + 1
                  ELSE job'[j] = job[j]
    <2>1. job[j] \in JobRow /\ job'[j] = IF j \in J
            THEN [status |-> "RUNNING", tries |-> job[j].tries + 1, stale |-> FALSE] ELSE job[j]
      BY <1>1 DEF Claim
    <2>2. QED  BY <2>1 DEF JobRow, JobStatus
  <1>3. QED  BY <1>1, <1>2 DEF Claim

LEMMA RecordedRows ==
    ASSUME TypeOK, NEW i \in Job, NEW status \in JobStatus, Record(i, status)
    PROVE  /\ job' \in [Job -> JobRow]
           /\ job'[i].status = status /\ job'[i].tries = job[i].tries
           /\ \A j \in Job \ {i} : job'[j] = job[j]
  <1>1. job \in [Job -> JobRow]
    BY DEF TypeOK, JobTypeOK, JobRow
  <1> DEFINE row == [job[i] EXCEPT !.status = status, !.stale = FALSE]
  <1>2. job' = [job EXCEPT ![i] = row]
    BY <1>1 DEF Record, JobRow
  <1>3. row \in JobRow /\ row.status = status /\ row.tries = job[i].tries
    BY <1>1 DEF JobRow
  <1> HIDE DEF row
  <1>4. QED  BY <1>1, <1>2, <1>3

-------------------------------------------------------------------------------
(***************************************************************************)
(* Jobs                                                                    *)
(***************************************************************************)

\* Steps of the job table leave the batches of events alone.
LEMMA EventsUntouched ==
    ASSUME BatchesOK, WritesOK, UNCHANGED outbox,
           \A v \in Process : Working(v, "events") \/ Working(v, "events")' => work'[v] = work[v]
    PROVE  BatchesOK' /\ WritesOK'
  <1>1. \A v \in Process : /\ Working(v, "events")' <=> Working(v, "events")
                           /\ Batch(v)' = Batch(v) /\ Wrote(v)' = Wrote(v)
                           /\ Working(v, "events") => work'[v] = work[v]
    BY DEF Working, Batch, Wrote
  <1>2. (\A d : Sole(d)' <=> Sole(d)) /\ \A k, D : ToldOf(k, D)' <=> ToldOf(k, D)
    BY DEF Sole, ToldOf, outbox
  <1>3. event' = event /\ notices' = notices /\ overlapped' = overlapped
    BY DEF outbox
  <1>4. BatchesOK'
    BY <1>1, <1>3 DEF BatchesOK
  <1>5. WritesOK'
    BY <1>1, <1>2, <1>3 DEF WritesOK
  <1>6. QED  BY <1>4, <1>5

\* A process that holds nothing claims jobs nobody else holds or runs.
LEMMA ClaimDueOK ==
    ASSUME TypeOK, JobsOK, NEW w \in Process, NEW J \in SUBSET Job, ClaimDue(w, J)
    PROVE  /\ JobsOK' /\ work' \in [Process -> Task] /\ job' \in [Job -> JobRow] /\ retaken' \subseteq Job
           /\ \A j \in Job : job'[j].status = "NONE" <=> job[j].status = "NONE"
           /\ ~Working(w, "events") /\ ~Working(w, "events")'
           /\ \A j \in Job : j \notin retaken' /\ job[j].status = "COMPLETED" => job'[j] = job[j]
  <1> DEFINE t == [op |-> "jobs", todo |-> J]
  <1>1. work[w] = NoWork /\ (\A j \in J : Claimable(j)) /\ Claim(w, J) /\ Proceed(w, t)
    BY DEF ClaimDue
  <1>2. t \in Task
    BY TaskTypes DEF JobsTask
  <1> HIDE DEF t
  <1>3. work'[w] = t /\ work' \in [Process -> Task]
    BY <1>1, <1>2, ProceedType
  <1>4. Holds(w)' = J /\ ~Working(w, "mail")' /\ ~Working(w, "record")' /\ ~Working(w, "events")'
    BY <1>3 DEF Holds, Working, t
  <1>5. Holds(w) = {} /\ ~Working(w, "events")
    BY <1>1, Kinds DEF Holds
  <1>6. \A v \in Process \ {w} : /\ work'[v] = work[v] /\ Holds(v)' = Holds(v)
                                 /\ \A op : Working(v, op)' <=> Working(v, op)
    BY <1>1, <1>2, ProceedType
  <1>7. /\ job' \in [Job -> JobRow] /\ retaken' \subseteq Job /\ retaken \subseteq retaken'
        /\ \A j \in Job : IF j \in J
                THEN job'[j].status = "RUNNING" /\ job'[j].tries = job[j].tries + 1
                ELSE job'[j] = job[j]
        /\ \A j \in J \ retaken' : /\ job[j].status # "RUNNING"
                                   /\ \A v \in Process \ {w} : j \notin Holds(v)
    BY <1>1, ClaimedRows
  <1>8. \A j \in J : job[j].status # "NONE" /\ job[j].status # "COMPLETED"
    BY <1>1 DEF Claimable
  <1>9. ASSUME NEW j \in Job \ retaken'  PROVE JobOK(j)'
    <2>1. JobOK(j)
      BY <1>7, <1>9 DEF JobsOK
    <2>2. CASE j \in J
      <3>1. job[j].tries < JobTries /\ job[j].tries \in Nat
        <4>1. job[j].tries \in Nat
          BY DEF TypeOK, JobTypeOK
        <4>2. QED  BY <1>1, <1>7, <1>9, <2>1, <2>2, <4>1, JobQueueAssumption DEF Claimable, JobOK
      <3>2. job'[j].tries <= JobTries
        BY <1>7, <2>2, <3>1, JobQueueAssumption
      <3>3. QED
        BY <1>4, <1>6, <1>7, <1>9, <2>2, <3>2 DEF JobOK
    <2>3. CASE j \notin J
      BY <1>4, <1>6, <1>7, <2>1, <2>3 DEF JobOK
    <2>4. QED  BY <2>2, <2>3
  <1>10. \A j \in Job : job'[j].status = "NONE" => job'[j].tries = 0 /\ \A v \in Process : j \notin Holds(v)'
    BY <1>4, <1>6, <1>7, <1>8 DEF JobsOK
  <1>11. \A v \in Process : Working(v, "record")' => work'[v].j \notin work'[v].todo
    BY <1>4, <1>6 DEF JobsOK
  <1>12. JobsOK'
    BY <1>9, <1>10, <1>11 DEF JobsOK
  <1>13. QED  BY <1>3, <1>4, <1>5, <1>7, <1>8, <1>12

LEMMA RequestMailOK ==
    ASSUME TypeOK, JobsOK, NEW w \in Process, NEW m \in Mail, RequestMail(w, m)
    PROVE  /\ JobsOK' /\ work' \in [Process -> Task] /\ job' \in [Job -> JobRow] /\ retaken' = retaken
           /\ \A j \in Job \ Mail : job'[j].status = "NONE" <=> job[j].status = "NONE"
           /\ ~Working(w, "events") /\ ~Working(w, "events")'
           /\ \A j \in Job : j \notin retaken' /\ job[j].status = "COMPLETED" => job'[j] = job[j]
  <1> DEFINE t == [op |-> "mail", j |-> m]
  <1>0. m \in Job
    BY JobQueueAssumption
  <1>1. work[w] = NoWork /\ job[m].status = "NONE" /\ job' = Enqueued({m}) /\ Proceed(w, t) /\ retaken' = retaken
    BY DEF RequestMail
  <1>2. t \in Task
    BY TaskTypes DEF MailTask
  <1> HIDE DEF t
  <1>3. work'[w] = t /\ work' \in [Process -> Task]
    BY <1>1, <1>2, ProceedType
  <1>4. Holds(w)' = {m} /\ Working(w, "mail")' /\ ~Working(w, "record")' /\ ~Working(w, "events")'
    BY <1>3 DEF Holds, Working, t
  <1>5. ~Working(w, "events")
    BY <1>1, Kinds
  <1>6. \A v \in Process \ {w} : /\ work'[v] = work[v] /\ Holds(v)' = Holds(v)
                                 /\ \A op : Working(v, op)' <=> Working(v, op)
    BY <1>1, <1>2, ProceedType
  <1>7. /\ job' \in [Job -> JobRow]
        /\ \A j \in Job : /\ job'[j].status = IF j = m THEN "PENDING" ELSE job[j].status
                          /\ job'[j].tries = job[j].tries
                          /\ j # m => job'[j] = job[j]
    <2>1. {m} \in SUBSET Job
      BY <1>0
    <2>2. /\ job' \in [Job -> JobRow]
          /\ \A j \in Job : /\ job'[j].status = IF j \in {m} THEN "PENDING" ELSE job[j].status
                            /\ job'[j].tries = job[j].tries
                            /\ j \notin {m} => job'[j] = job[j]
      BY <1>1, <2>1, EnqueuedRows
    <2>3. QED  BY <2>2
  <1>8. job[m].tries = 0 /\ \A v \in Process : m \notin Holds(v)
    BY <1>0, <1>1 DEF JobsOK
  <1>9. ASSUME NEW j \in Job \ retaken'  PROVE JobOK(j)'
    <2>1. JobOK(j)
      BY <1>1, <1>9 DEF JobsOK
    <2>2. CASE j = m
      BY <1>4, <1>6, <1>7, <1>8, <2>1, <2>2 DEF JobOK
    <2>3. CASE j # m
      BY <1>4, <1>6, <1>7, <2>1, <2>3 DEF JobOK
    <2>4. QED  BY <2>2, <2>3
  <1>10. \A j \in Job : job'[j].status = "NONE" => job'[j].tries = 0 /\ \A v \in Process : j \notin Holds(v)'
    BY <1>4, <1>6, <1>7 DEF JobsOK
  <1>11. \A v \in Process : Working(v, "record")' => work'[v].j \notin work'[v].todo
    BY <1>4, <1>6 DEF JobsOK
  <1>12. JobsOK'
    BY <1>9, <1>10, <1>11 DEF JobsOK
  <1>13. \A j \in Job \ Mail : job'[j].status = "NONE" <=> job[j].status = "NONE"
    BY <1>7
  <1>14. \A j \in Job : job[j].status = "COMPLETED" => job'[j] = job[j]
    BY <1>1, <1>7
  <1>15. QED  BY <1>1, <1>3, <1>4, <1>5, <1>7, <1>12, <1>13, <1>14

\* The outcome of a job the process holds, which it lets go of.
LEMMA RecordOK ==
    ASSUME TypeOK, JobsOK, NEW w \in Process, NEW i \in Holds(w), i \in Job,
           NEW status \in {"COMPLETED", "FAILED"}, Record(i, status),
           NEW t \in Task, Proceed(w, t), retaken' = retaken, ~Working(w, "events"),
           Holds(w)' = Holds(w) \ {i}, Working(w, "mail") => Holds(w)' = {},
           ~Working(w, "mail")', ~Working(w, "record")', ~Working(w, "events")'
    PROVE  /\ JobsOK' /\ work' \in [Process -> Task] /\ job' \in [Job -> JobRow]
           /\ \A j \in Job : job'[j].status = "NONE" <=> job[j].status = "NONE"
           /\ \A j \in Job : j \notin retaken' /\ job[j].status = "COMPLETED" => job'[j] = job[j]
  <1>1. /\ work' \in [Process -> Task]
        /\ \A v \in Process \ {w} : /\ work'[v] = work[v] /\ Holds(v)' = Holds(v)
                                    /\ \A op : Working(v, op)' <=> Working(v, op)
    BY ProceedType
  <1>2. /\ job' \in [Job -> JobRow]
        /\ job'[i].status = status /\ job'[i].tries = job[i].tries
        /\ \A j \in Job \ {i} : job'[j] = job[j]
    BY RecordedRows DEF JobStatus
  <1>3. job[i].status # "NONE"
    BY DEF JobsOK
  <1>4. ASSUME NEW j \in Job \ retaken'  PROVE JobOK(j)'
    <2>1. JobOK(j)
      BY <1>4 DEF JobsOK
    <2>2. CASE j = i
      <3>1. \A v \in Process : j \notin Holds(v)'
        BY <1>1, <2>1, <2>2 DEF JobOK
      <3>2. QED  BY <1>2, <2>1, <2>2, <3>1 DEF JobOK
    <2>3. CASE j # i
      BY <1>1, <1>2, <2>1, <2>3 DEF JobOK
    <2>4. QED  BY <2>2, <2>3
  <1>5. \A j \in Job : job'[j].status = "NONE" => job'[j].tries = 0 /\ \A v \in Process : j \notin Holds(v)'
    BY <1>1, <1>2 DEF JobsOK
  <1>6. \A v \in Process : Working(v, "record")' => work'[v].j \notin work'[v].todo
    BY <1>1 DEF JobsOK
  <1>7. JobsOK'
    BY <1>4, <1>5, <1>6 DEF JobsOK
  <1>8. i \notin retaken => job[i].status # "COMPLETED"
    BY DEF JobsOK, JobOK
  <1>9. QED  BY <1>1, <1>2, <1>3, <1>7, <1>8

LEMMA MailUnconfiguredOK ==
    ASSUME TypeOK, JobsOK, NEW w \in Process, MailUnconfigured(w)
    PROVE  /\ JobsOK' /\ work' \in [Process -> Task] /\ job' \in [Job -> JobRow] /\ retaken' = retaken
           /\ \A j \in Job : job'[j].status = "NONE" <=> job[j].status = "NONE"
           /\ ~Working(w, "events") /\ ~Working(w, "events")'
           /\ \A j \in Job : j \notin retaken' /\ job[j].status = "COMPLETED" => job'[j] = job[j]
  <1>1. Working(w, "mail") /\ Record(work[w].j, "FAILED") /\ Proceed(w, NoWork) /\ retaken' = retaken
    BY DEF MailUnconfigured, Finish
  <1>2. NoWork \in Task
    BY DEF Task
  <1>3. work'[w] = NoWork
    BY <1>1, <1>2, ProceedType
  <1>4. Holds(w)' = {} /\ ~Working(w, "mail")' /\ ~Working(w, "record")' /\ ~Working(w, "events")'
    BY <1>3 DEF Holds, Working, NoWork
  <1>5. Holds(w) = {work[w].j} /\ work[w].j \in Job /\ ~Working(w, "events")
    BY <1>1, Kinds DEF Holds, Working
  <1>6. QED
    BY <1>1, <1>2, <1>4, <1>5, RecordOK

LEMMA ClaimByIdOK ==
    ASSUME TypeOK, JobsOK, NEW w \in Process, ClaimById(w)
    PROVE  /\ JobsOK' /\ work' \in [Process -> Task] /\ job' \in [Job -> JobRow] /\ retaken' \subseteq Job
           /\ \A j \in Job : job'[j].status = "NONE" <=> job[j].status = "NONE"
           /\ ~Working(w, "events") /\ ~Working(w, "events")'
           /\ \A j \in Job : j \notin retaken' /\ job[j].status = "COMPLETED" => job'[j] = job[j]
  <1> DEFINE t == [op |-> "jobs", todo |-> {work[w].j}]
  <1>0. Working(w, "mail") /\ Claim(w, {work[w].j}) /\ Proceed(w, t)
    BY DEF ClaimById
  <1>1. work[w].j \in Job /\ Holds(w) = {work[w].j} /\ ~Working(w, "events")
    BY <1>0, Kinds DEF Holds, Working
  <1>2. PICK i \in Job : i = work[w].j
    BY <1>1
  <1>3. Claim(w, {i}) /\ Proceed(w, t) /\ t = [op |-> "jobs", todo |-> {i}] /\ Holds(w) = {i}
    BY <1>0, <1>1, <1>2
  <1>4. t \in Task
    BY <1>3, TaskTypes DEF JobsTask
  <1> HIDE DEF t
  <1>5. work'[w] = t /\ work' \in [Process -> Task]
    BY <1>3, <1>4, ProceedType
  <1>6. Holds(w)' = {i} /\ ~Working(w, "mail")' /\ ~Working(w, "record")' /\ ~Working(w, "events")'
    BY <1>3, <1>5 DEF Holds, Working
  <1>7. \A v \in Process \ {w} : /\ work'[v] = work[v] /\ Holds(v)' = Holds(v)
                                 /\ \A op : Working(v, op)' <=> Working(v, op)
    BY <1>3, <1>4, ProceedType
  <1>8. /\ job' \in [Job -> JobRow] /\ retaken' \subseteq Job /\ retaken \subseteq retaken'
        /\ job'[i].status = "RUNNING" /\ job'[i].tries = job[i].tries + 1
        /\ \A j \in Job \ {i} : job'[j] = job[j]
        /\ i \notin retaken' => /\ job[i].status # "RUNNING"
                                /\ \A v \in Process \ {w} : i \notin Holds(v)
    BY <1>3, ClaimedRows
  <1>9. job[i].status # "NONE"
    BY <1>3 DEF JobsOK
  <1>10. i \notin retaken => job[i].status = "PENDING" /\ job[i].tries = 0
    BY <1>0, <1>3 DEF JobsOK, JobOK
  <1>11. ASSUME NEW j \in Job \ retaken'  PROVE JobOK(j)'
    <2>1. JobOK(j)
      BY <1>8, <1>11 DEF JobsOK
    <2>2. CASE j = i
      <3>1. job'[j].tries <= JobTries
        BY <1>8, <1>10, <1>11, <2>2, JobQueueAssumption
      <3>2. QED  BY <1>6, <1>7, <1>8, <1>11, <2>2, <3>1 DEF JobOK
    <2>3. CASE j # i
      BY <1>6, <1>7, <1>8, <2>1, <2>3 DEF JobOK
    <2>4. QED  BY <2>2, <2>3
  <1>12. \A j \in Job : job'[j].status = "NONE" => job'[j].tries = 0 /\ \A v \in Process : j \notin Holds(v)'
    BY <1>6, <1>7, <1>8 DEF JobsOK
  <1>13. \A v \in Process : Working(v, "record")' => work'[v].j \notin work'[v].todo
    BY <1>6, <1>7 DEF JobsOK
  <1>14. JobsOK'
    BY <1>11, <1>12, <1>13 DEF JobsOK
  <1>15. \A j \in Job : j \notin retaken' /\ job[j].status = "COMPLETED" => job'[j] = job[j]
    BY <1>8, <1>10
  <1>16. QED  BY <1>1, <1>5, <1>6, <1>8, <1>9, <1>14, <1>15

LEMMA SendOK ==
    ASSUME TypeOK, JobsOK, NEW w \in Process, Send(w)
    PROVE  /\ JobsOK' /\ work' \in [Process -> Task] /\ ~Working(w, "events") /\ ~Working(w, "events")'
  <1>1. PICK i \in work[w].todo, ok \in BOOLEAN :
          Proceed(w, [op |-> "record", todo |-> work[w].todo \ {i}, j |-> i, ok |-> ok])
    BY DEF Send
  <1> DEFINE t == [op |-> "record", todo |-> work[w].todo \ {i}, j |-> i, ok |-> ok]
  <1>2. Working(w, "jobs") /\ work[w] \in JobsTask /\ ~Working(w, "events") /\ ~Working(w, "mail")
    BY Kinds DEF Send, Working
  <1>3. t \in Task
    BY <1>2, TaskTypes DEF JobsTask, RecordTask
  <1>4. Proceed(w, t)
    BY <1>1
  <1>5. Holds(w) = work[w].todo
    BY <1>2 DEF Holds
  <1>6. t.op = "record" /\ t.j = i /\ t.todo = work[w].todo \ {i}
    OBVIOUS
  <1> HIDE DEF t
  <1>7. work'[w] = t /\ work' \in [Process -> Task]
    BY <1>3, <1>4, ProceedType
  <1>8. /\ Holds(w)' = Holds(w) /\ Working(w, "record")' /\ ~Working(w, "mail")' /\ ~Working(w, "events")'
        /\ work'[w].j \notin work'[w].todo
    BY <1>5, <1>6, <1>7 DEF Holds, Working
  <1>9. \A v \in Process \ {w} : /\ work'[v] = work[v] /\ Holds(v)' = Holds(v)
                                 /\ \A op : Working(v, op)' <=> Working(v, op)
    BY <1>3, <1>4, ProceedType
  <1>10. job' = job /\ retaken' = retaken
    BY DEF Send, queue
  <1>11. \A v \in Process : Holds(v)' = Holds(v) /\ (Working(v, "mail")' <=> Working(v, "mail"))
    BY <1>2, <1>8, <1>9
  <1>12. \A j \in Job \ retaken' : JobOK(j)'
    BY <1>10, <1>11 DEF JobsOK, JobOK
  <1>13. \A v \in Process : Working(v, "record")' => work'[v].j \notin work'[v].todo
    BY <1>8, <1>9 DEF JobsOK
  <1>14. JobsOK'
    BY <1>10, <1>11, <1>12, <1>13 DEF JobsOK
  <1>15. QED  BY <1>2, <1>7, <1>8, <1>14

LEMMA RecordOutcomeOK ==
    ASSUME TypeOK, JobsOK, NEW w \in Process, RecordOutcome(w)
    PROVE  /\ JobsOK' /\ work' \in [Process -> Task] /\ job' \in [Job -> JobRow] /\ retaken' = retaken
           /\ \A j \in Job : job'[j].status = "NONE" <=> job[j].status = "NONE"
           /\ ~Working(w, "events") /\ ~Working(w, "events")'
           /\ \A j \in Job : j \notin retaken' /\ job[j].status = "COMPLETED" => job'[j] = job[j]
  <1> DEFINE t == IF work[w].todo = {} THEN NoWork ELSE [op |-> "jobs", todo |-> work[w].todo]
  <1>1. Working(w, "record") /\ Proceed(w, t) /\ retaken' = retaken
        /\ (Record(work[w].j, "COMPLETED") \/ Record(work[w].j, "FAILED"))
    BY DEF RecordOutcome
  <1>2. work[w] \in RecordTask /\ ~Working(w, "events") /\ ~Working(w, "mail")
    BY <1>1, Kinds DEF Working
  <1>3. t \in Task
    BY <1>2, TaskTypes DEF RecordTask, JobsTask
  <1>4. work'[w] = t
    BY <1>1, <1>3, ProceedType
  <1>5. Holds(w)' = work[w].todo /\ ~Working(w, "mail")' /\ ~Working(w, "record")' /\ ~Working(w, "events")'
    <2>1. CASE work[w].todo = {}
      BY <1>4, <2>1 DEF Holds, Working, NoWork
    <2>2. CASE work[w].todo # {}
      BY <1>4, <2>2 DEF Holds, Working
    <2>3. QED  BY <2>1, <2>2
  <1>6. Holds(w) = work[w].todo \cup {work[w].j} /\ work[w].j \in Job
    BY <1>1, <1>2 DEF Holds, Working, RecordTask
  <1>7. Holds(w)' = Holds(w) \ {work[w].j}
    BY <1>1, <1>5, <1>6 DEF JobsOK
  <1>8. PICK i \in Job : i = work[w].j
    BY <1>6
  <1>9. i \in Holds(w) /\ Holds(w)' = Holds(w) \ {i} /\ (Record(i, "COMPLETED") \/ Record(i, "FAILED"))
    BY <1>1, <1>6, <1>7, <1>8
  <1> HIDE DEF t
  <1>10. QED
    BY <1>1, <1>2, <1>3, <1>5, <1>9, RecordOK

LEMMA CrashOK ==
    ASSUME TypeOK, JobsOK, NEW w \in Process, Finish(w), UNCHANGED queue
    PROVE  JobsOK' /\ work' \in [Process -> Task] /\ work'[w] = NoWork
  <1>1. NoWork \in Task /\ Proceed(w, NoWork)
    BY DEF Task, Finish
  <1>2. work'[w] = NoWork /\ work' \in [Process -> Task]
    BY <1>1, ProceedType
  <1>3. Holds(w)' = {} /\ ~Working(w, "mail")' /\ ~Working(w, "record")' /\ ~Working(w, "events")'
    BY <1>2 DEF Holds, Working, NoWork
  <1>4. \A v \in Process \ {w} : /\ work'[v] = work[v] /\ Holds(v)' = Holds(v)
                                 /\ \A op : Working(v, op)' <=> Working(v, op)
    BY <1>1, ProceedType
  <1>5. job' = job /\ retaken' = retaken
    BY DEF queue
  <1>6. \A j \in Job \ retaken' : JobOK(j)'
    BY <1>3, <1>4, <1>5 DEF JobsOK, JobOK
  <1>7. JobsOK'
    BY <1>3, <1>4, <1>5, <1>6 DEF JobsOK
  <1>8. QED  BY <1>2, <1>7

LEMMA LockAgesOK ==
    ASSUME TypeOK, JobsOK, NEW i \in Job, LockAges(i)
    PROVE  /\ JobsOK' /\ job' \in [Job -> JobRow] /\ work' = work /\ retaken' = retaken
           /\ \A j \in Job : job'[j].status = "NONE" <=> job[j].status = "NONE"
           /\ \A j \in Job : j \notin retaken' /\ job[j].status = "COMPLETED" => job'[j] = job[j]
  <1>1. job \in [Job -> JobRow]
    BY DEF TypeOK, JobTypeOK, JobRow
  <1> DEFINE row == [job[i] EXCEPT !.stale = TRUE]
  <1>2. job' = [job EXCEPT ![i] = row] /\ job[i].status = "RUNNING" /\ work' = work /\ retaken' = retaken
    BY DEF LockAges
  <1>3. row \in JobRow /\ row.status = job[i].status /\ row.tries = job[i].tries
    BY <1>1 DEF JobRow
  <1> HIDE DEF row
  <1>4. /\ job' \in [Job -> JobRow]
        /\ \A j \in Job : job'[j].status = job[j].status /\ job'[j].tries = job[j].tries
        /\ \A j \in Job : job[j].status = "COMPLETED" => job'[j] = job[j]
    BY <1>1, <1>2, <1>3
  <1>5. \A v \in Process : Holds(v)' = Holds(v) /\ \A op : Working(v, op)' <=> Working(v, op)
    BY <1>2 DEF Holds, Working
  <1>6. \A j \in Job \ retaken' : JobOK(j)'
    BY <1>2, <1>4, <1>5 DEF JobsOK, JobOK
  <1>7. JobsOK'
    BY <1>2, <1>4, <1>5, <1>6 DEF JobsOK
  <1>8. QED  BY <1>2, <1>4, <1>7

\* What every step of the job table leaves in order.
JobStepOK ==
    /\ JobsOK' /\ TypeOK' /\ BatchesOK' /\ WritesOK'
    /\ \A j \in Job \ Mail : job'[j].status = "NONE" <=> job[j].status = "NONE"
    /\ \A j \in Job : j \notin retaken' /\ job[j].status = "COMPLETED" => job'[j] = job[j]

LEMMA JobNextOK ==
    ASSUME TypeOK, JobsOK, BatchesOK, WritesOK, JobNext, UNCHANGED outbox
    PROVE  JobStepOK
  <1>0. Mail \subseteq Job /\ faults' \in 0..MaxFaults /\ job \in [Job -> JobRow] /\ retaken \subseteq Job
    <2>1. faults' = faults \/ (faults < MaxFaults /\ faults' = faults + 1)
      BY DEF JobNext, ClaimDue, RequestMail, JobSteps, MailUnconfigured, ClaimById, Send, RecordOutcome,
             Crash, LockAges, Fault
    <2>2. faults' \in 0..MaxFaults
      BY <2>1, JobQueueAssumption DEF TypeOK, JobTypeOK
    <2>3. QED  BY <2>2, JobQueueAssumption DEF TypeOK, JobTypeOK, JobRow
  <1>1. ASSUME NEW w \in Process, JobsOK', work' \in [Process -> Task], job' \in [Job -> JobRow],
               retaken' \subseteq Job, ~Working(w, "events"), ~Working(w, "events")',
               \E t : Proceed(w, t)
        PROVE  JobsOK' /\ TypeOK' /\ BatchesOK' /\ WritesOK'
    <2>1. \A v \in Process : Working(v, "events") \/ Working(v, "events")' => work'[v] = work[v]
      <3>1. \A v \in Process \ {w} : work'[v] = work[v]
        BY <1>1 DEF Proceed, TypeOK
      <3>2. QED  BY <1>1, <3>1
    <2>2. BatchesOK' /\ WritesOK'
      BY <2>1, EventsUntouched
    <2>3. TypeOK'
      BY <1>0, <1>1 DEF TypeOK, JobTypeOK, JobRow, outbox
    <2>4. QED  BY <1>1, <2>2, <2>3
  <1>2. ASSUME NEW w \in Process, NEW J \in SUBSET Job, ClaimDue(w, J)  PROVE JobStepOK
    BY <1>1, <1>2, ClaimDueOK DEF ClaimDue, JobStepOK
  <1>3. ASSUME NEW w \in Process, NEW m \in Mail, RequestMail(w, m)  PROVE JobStepOK
    BY <1>0, <1>1, <1>3, RequestMailOK DEF RequestMail, JobStepOK
  <1>4. ASSUME NEW w \in Process, MailUnconfigured(w)  PROVE JobStepOK
    BY <1>0, <1>1, <1>4, MailUnconfiguredOK DEF MailUnconfigured, Finish, JobStepOK
  <1>5. ASSUME NEW w \in Process, ClaimById(w)  PROVE JobStepOK
    BY <1>1, <1>5, ClaimByIdOK DEF ClaimById, JobStepOK
  <1>6. ASSUME NEW w \in Process, Send(w)  PROVE JobStepOK
    <2>1. job' = job /\ retaken' = retaken /\ \E t : Proceed(w, t)
      BY <1>6 DEF Send, queue
    <2>2. QED  BY <1>0, <1>1, <1>6, <2>1, SendOK DEF JobStepOK
  <1>7. ASSUME NEW w \in Process, RecordOutcome(w)  PROVE JobStepOK
    BY <1>0, <1>1, <1>7, RecordOutcomeOK DEF RecordOutcome, JobStepOK
  <1>8. ASSUME NEW w \in Process, Crash(w)  PROVE JobStepOK
    <2>1. Finish(w) /\ UNCHANGED queue /\ job' = job /\ retaken' = retaken
      BY <1>8 DEF Crash, queue
    <2>2. JobsOK' /\ work' \in [Process -> Task] /\ work'[w] = NoWork
      BY <2>1, CrashOK
    <2>3. CASE ~Working(w, "events")
      <3>1. ~Working(w, "events")'
        BY <2>2 DEF Working, NoWork
      <3>2. QED  BY <1>0, <1>1, <2>1, <2>2, <2>3, <3>1 DEF Finish, JobStepOK
    <2>4. CASE Working(w, "events")
      <3>1. TypeOK'
        BY <1>0, <2>1, <2>2 DEF TypeOK, JobTypeOK, JobRow, outbox
      <3>2. Batch(w)' = {} /\ Wrote(w)' = {} /\ ~Working(w, "events")'
        BY <2>2 DEF Batch, Wrote, Working, NoWork
      <3>3. \A v \in Process \ {w} : /\ work'[v] = work[v] /\ Batch(v)' = Batch(v) /\ Wrote(v)' = Wrote(v)
                                     /\ Working(v, "events")' <=> Working(v, "events")
        BY <2>1, ProceedType DEF Finish, Task
      <3>4. event' = event /\ notices' = notices /\ overlapped' = overlapped
        BY DEF outbox
      <3>5. BatchesOK'
        BY <3>2, <3>3, <3>4 DEF BatchesOK
      <3>6. (\A d : Sole(d)' <=> Sole(d)) /\ \A k, D : ToldOf(k, D)' <=> ToldOf(k, D)
        BY <3>4 DEF Sole, ToldOf
      <3>7. WritesOK'
        BY <3>2, <3>3, <3>4, <3>6 DEF WritesOK
      <3>8. QED  BY <2>1, <2>2, <3>1, <3>5, <3>7 DEF JobStepOK
    <2>5. QED  BY <2>3, <2>4
  <1>9. ASSUME NEW j \in Job, LockAges(j)  PROVE JobStepOK
    <2>1. /\ JobsOK' /\ job' \in [Job -> JobRow] /\ work' = work /\ retaken' = retaken
          /\ \A i \in Job : job'[i].status = "NONE" <=> job[i].status = "NONE"
          /\ \A i \in Job : i \notin retaken' /\ job[i].status = "COMPLETED" => job'[i] = job[i]
      BY <1>9, LockAgesOK
    <2>2. TypeOK'
      BY <1>0, <2>1 DEF TypeOK, JobTypeOK, JobRow, outbox
    <2>3. BatchesOK' /\ WritesOK'
      BY <2>1, EventsUntouched
    <2>4. QED  BY <2>1, <2>2, <2>3 DEF JobStepOK
  <1>10. QED
    BY <1>2, <1>3, <1>4, <1>5, <1>6, <1>7, <1>8, <1>9 DEF JobNext, JobSteps

-------------------------------------------------------------------------------
(***************************************************************************)
(* Events                                                                  *)
(***************************************************************************)

\* Two batches in flight never write the same key, when it is one that ToldOnce is about.
LEMMA SoleWriter ==
    ASSUME TypeOK, BatchesOK, WritesOK, NEW d \in DedupeKey, Sole(d),
           NEW v \in Process, NEW w \in Process, d \in Wrote(v), d \in Wrote(w)
    PROVE  v = w
  <1>1. Working(v, "events") /\ Working(w, "events")
    BY DEF Wrote
  <1>2. CASE ~overlapped
    BY <1>1, <1>2 DEF BatchesOK
  <1>3. CASE OfOneEvent(d[1])
    <2> DEFINE S == {e \in Event : d[1] \in KeysOf[e]}
    <2>1. IsFiniteSet(S)
      BY OutboxAssumption, FS_Subset
    <2>2. PICK e : S = {e}
      BY <1>3, <2>1, FS_Singleton DEF OfOneEvent
    <2>3. Batch(v) \subseteq Event /\ Batch(w) \subseteq Event
      BY <1>1, Kinds DEF Batch, EventsTask
    <2>4. e \in Batch(v) /\ e \in Batch(w) /\ e \in Event
      BY <2>2, <2>3 DEF WritesOK
    <2>5. QED  BY <2>4 DEF BatchesOK
  <1>4. QED  BY <1>2, <1>3 DEF Sole

\* A step of a batch leaves the jobs alone, but for those it creates.
LEMMA JobsUntouched ==
    ASSUME TypeOK, JobsOK, NEW w \in Process, NEW t \in Task, Proceed(w, t), retaken' = retaken,
           work[w] = NoWork \/ Working(w, "events"), t = NoWork \/ t.op = "events",
           NEW J \in SUBSET Job, job' = Enqueued(J), \A j \in J : job[j].status = "NONE"
    PROVE  /\ JobsOK' /\ work' \in [Process -> Task] /\ job' \in [Job -> JobRow]
           /\ \A j \in Job : job'[j].status = IF j \in J THEN "PENDING" ELSE job[j].status
           /\ \A j \in Job : job[j].status = "COMPLETED" => job'[j] = job[j]
  <1>1. /\ work' \in [Process -> Task] /\ work'[w] = t
        /\ \A v \in Process \ {w} : /\ work'[v] = work[v] /\ Holds(v)' = Holds(v)
                                    /\ \A op : Working(v, op)' <=> Working(v, op)
    BY ProceedType
  <1>2. Holds(w) = {} /\ ~Working(w, "mail") /\ ~Working(w, "record")
    BY Kinds DEF Holds, Working
  <1>3. Holds(w)' = {} /\ ~Working(w, "mail")' /\ ~Working(w, "record")'
    BY <1>1 DEF Holds, Working, NoWork
  <1>4. /\ job' \in [Job -> JobRow]
        /\ \A j \in Job : /\ job'[j].status = IF j \in J THEN "PENDING" ELSE job[j].status
                          /\ job'[j].tries = job[j].tries
                          /\ j \notin J => job'[j] = job[j]
    BY EnqueuedRows
  <1>5. \A v \in Process : Holds(v)' = Holds(v) /\ (Working(v, "mail")' <=> Working(v, "mail"))
    BY <1>1, <1>2, <1>3
  <1>6. ASSUME NEW j \in Job \ retaken'  PROVE JobOK(j)'
    <2>1. JobOK(j)
      BY <1>6 DEF JobsOK
    <2>2. CASE j \in J
      <3>1. job[j].tries = 0 /\ \A v \in Process : j \notin Holds(v)
        BY <2>2 DEF JobsOK
      <3>2. QED  BY <1>4, <1>5, <2>1, <2>2, <3>1 DEF JobOK
    <2>3. CASE j \notin J
      BY <1>4, <1>5, <2>1, <2>3 DEF JobOK
    <2>4. QED  BY <2>2, <2>3
  <1>7. \A j \in Job : job'[j].status = "NONE" => job'[j].tries = 0 /\ \A v \in Process : j \notin Holds(v)'
    BY <1>4, <1>5 DEF JobsOK
  <1>8. \A v \in Process : Working(v, "record")' => work'[v].j \notin work'[v].todo
    BY <1>1, <1>3 DEF JobsOK
  <1>9. JobsOK'
    BY <1>6, <1>7, <1>8 DEF JobsOK
  <1>10. QED  BY <1>1, <1>4, <1>9

LEMMA NothingEnqueued ==
    ASSUME TypeOK, job' = job
    PROVE  job' = Enqueued({})
  BY DEF TypeOK, JobTypeOK, Enqueued

OutboxInv == TypeOK /\ JobsOK /\ BatchesOK /\ WritesOK /\ MailsOK /\ ToldOnce
\* The rows and tasks are what they were, whatever the time.
LEMMA RowsAsTheyWere ==
    ASSUME OutboxInv, period' \in 0..MaxPeriod, UNCHANGED <<job, work, retaken, faults, event, notices, overlapped>>
    PROVE  OutboxInv' /\ \A j \in Job : job'[j] = job[j]
  <1>1. /\ \A v \in Process : /\ Holds(v)' = Holds(v) /\ Batch(v)' = Batch(v) /\ Wrote(v)' = Wrote(v)
                              /\ \A op : Working(v, op)' <=> Working(v, op)
        /\ \A d : Sole(d)' <=> Sole(d)
        /\ \A k, D : ToldOf(k, D)' <=> ToldOf(k, D)
    BY DEF Holds, Batch, Wrote, Working, Sole, ToldOf
  <1>2. TypeOK' /\ MailsOK' /\ ToldOnce'
    BY DEF OutboxInv, TypeOK, JobTypeOK, MailsOK, ToldOnce
  <1>3. JobsOK'
    BY <1>1 DEF OutboxInv, JobsOK, JobOK
  <1>4. BatchesOK' /\ WritesOK'
    BY <1>1 DEF OutboxInv, BatchesOK, WritesOK
  <1>5. QED
    BY <1>2, <1>3, <1>4 DEF OutboxInv

\* What every step keeps.
StepOK ==
    /\ OutboxInv'
    /\ \A j \in Job : j \notin retaken' /\ job[j].status = "COMPLETED" => job'[j] = job[j]

LEMMA PublishEventOK ==
    ASSUME OutboxInv, NEW e \in Event, PublishEvent(e)
    PROVE  StepOK
  <1> USE DEF OutboxInv
  <1>1. /\ event \in [Event -> EventRow] /\ event[e].state = "NONE"
        /\ work' = work /\ job' = job /\ retaken' = retaken /\ faults' = faults
        /\ notices' = notices /\ period' = period /\ overlapped' = overlapped
    BY DEF PublishEvent, TypeOK, EventRow, queue
  <1> DEFINE row == [event[e] EXCEPT !.state = "NEW"]
  <1>2. event' = [event EXCEPT ![e] = row]
    BY DEF PublishEvent
  <1>3. row \in EventRow /\ row.state = "NEW"
    BY <1>1 DEF EventRow
  <1> HIDE DEF row
  <1>4. event' \in [Event -> EventRow] /\ event'[e].state = "NEW" /\ \A f \in Event \ {e} : event'[f] = event[f]
    BY <1>1, <1>2, <1>3
  <1>5. \A v \in Process : /\ Holds(v)' = Holds(v) /\ Batch(v)' = Batch(v) /\ Wrote(v)' = Wrote(v)
                           /\ \A op : Working(v, op)' <=> Working(v, op)
    BY <1>1 DEF Holds, Batch, Wrote, Working
  <1>6. TypeOK'
    BY <1>1, <1>4 DEF TypeOK, JobTypeOK, EventRow
  <1>7. JobsOK'
    BY <1>1, <1>5 DEF JobsOK, JobOK
  <1>8. \A v \in Process : e \notin Batch(v)
    BY <1>1 DEF BatchesOK
  <1>9. BatchesOK'
    BY <1>1, <1>4, <1>5, <1>8 DEF BatchesOK
  <1>10. (\A d : Sole(d)' <=> Sole(d)) /\ (ToldOnce' <=> ToldOnce)
    BY <1>1 DEF Sole, ToldOnce
  <1>14. \A k, D : ToldOf(k, D)' <=> ToldOf(k, D)
    BY <1>1 DEF ToldOf
  <1>11. WritesOK'
    BY <1>1, <1>4, <1>5, <1>10, <1>14 DEF WritesOK
  <1>12. MailsOK'
    BY <1>1 DEF MailsOK
  <1>13. QED
    BY <1>1, <1>6, <1>7, <1>9, <1>10, <1>11, <1>12 DEF StepOK

LEMMA ClaimBatchOK ==
    ASSUME OutboxInv, NEW w \in Process, ClaimBatch(w)
    PROVE  StepOK
  <1> USE DEF OutboxInv
  <1> DEFINE todo == Waiting \ LockedRows
             t == [op |-> "events", todo |-> todo, wrote |-> {}, done |-> {}, failed |-> {}]
  <1>1. /\ work[w] = NoWork /\ Proceed(w, t)
        /\ job' = job /\ retaken' = retaken /\ faults' = faults /\ event' = event /\ notices' = notices
        /\ period' = period
        /\ overlapped' = (overlapped \/ \E v \in Process : Working(v, "events"))
    BY DEF ClaimBatch, queue
  <1>2. /\ todo \subseteq Event
        /\ \A e \in todo : event[e].state = "NEW" /\ event[e].tries < EventTries
        /\ \A v \in Process : Batch(v) \cap todo = {}
    BY DEF Waiting, LockedRows, Batch
  <1> HIDE DEF todo
  <1>3. t \in EventsTask /\ t \in Task
    BY <1>2, TaskTypes DEF EventsTask
  <1>4. t.op = "events" /\ t.todo = todo /\ t.wrote = {} /\ t.done = {} /\ t.failed = {}
    OBVIOUS
  <1> HIDE DEF t
  <1>5. /\ JobsOK' /\ work' \in [Process -> Task]
        /\ \A j \in Job : job[j].status = "COMPLETED" => job'[j] = job[j]
    BY <1>1, <1>3, <1>4, NothingEnqueued, JobsUntouched
  <1>6. /\ work'[w] = t
        /\ \A v \in Process \ {w} : /\ work'[v] = work[v] /\ Batch(v)' = Batch(v) /\ Wrote(v)' = Wrote(v)
                                    /\ \A op : Working(v, op)' <=> Working(v, op)
    BY <1>1, <1>3, ProceedType
  <1>7. Batch(w)' = todo /\ Wrote(w)' = {} /\ Working(w, "events")'
    BY <1>4, <1>6 DEF Batch, Wrote, Working
  <1>8. TypeOK'
    BY <1>1, <1>5 DEF TypeOK, JobTypeOK
  <1>9. ~overlapped' => ~overlapped /\ \A v \in Process : ~Working(v, "events")
    BY <1>1 DEF TypeOK
  <1>10. BatchesOK'
    BY <1>1, <1>2, <1>6, <1>7, <1>9 DEF BatchesOK
  <1>11. (\A d : Sole(d)' => Sole(d)) /\ \A k, D : ToldOf(k, D)' <=> ToldOf(k, D)
    BY <1>1, <1>9 DEF Sole, ToldOf
  <1>12. WritesOK'
    BY <1>1, <1>4, <1>6, <1>7, <1>11 DEF WritesOK
  <1>13. MailsOK'
    BY <1>1 DEF MailsOK
  <1>14. ToldOnce'
    BY <1>1, <1>9 DEF ToldOnce
  <1>15. QED
    BY <1>5, <1>8, <1>10, <1>12, <1>13, <1>14 DEF StepOK

\* What a handler looks for are dedupeKeys of its event.
LEMMA HandlerKeys ==
    ASSUME TypeOK, NEW e \in Event
    PROVE  \A d \in DedupeKeysOf(e) : d \in DedupeKey /\ d[1] \in KeysOf[e]
  <1> SUFFICES ASSUME NEW k \in KeysOf[e]
               PROVE  LET d == <<k, IF k \in Timed THEN period ELSE 0>> IN d \in DedupeKey /\ d[1] = k
    BY DEF DedupeKeysOf
  <1>1. k \in Key /\ period \in 0..MaxPeriod
    BY OutboxAssumption DEF TypeOK
  <1>2. CASE k \in Timed
    BY <1>1, <1>2 DEF DedupeKey
  <1>3. CASE k \notin Timed
    BY <1>1, <1>3 DEF DedupeKey
  <1>4. QED  BY <1>2, <1>3

\* A handler ends, well or not.
LEMMA HandledOK ==
    ASSUME OutboxInv, NEW w \in Process, Working(w, "events"), NEW e \in work[w].todo,
           NEW D \in SUBSET Missing(w, e), NEW t \in EventsTask, Proceed(w, t),
           t.todo = work[w].todo \ {e}, t.wrote = work[w].wrote \cup D,
           \/ t.done = work[w].done \cup {e} /\ t.failed = work[w].failed /\ D = Missing(w, e)
           \/ t.done = work[w].done /\ t.failed = work[w].failed \cup {e},
           UNCHANGED <<queue, faults, outbox>>
    PROVE  StepOK
  <1> USE DEF OutboxInv
  <1>0. work[w] \in EventsTask /\ t \in Task /\ t.op = "events" /\ e \in Event
    <2>1. work[w] \in EventsTask
      BY Kinds
    <2>2. QED  BY <2>1, TaskTypes DEF EventsTask
  <1>1. /\ job' = job /\ retaken' = retaken /\ faults' = faults /\ event' = event /\ notices' = notices
        /\ period' = period /\ overlapped' = overlapped
    BY DEF queue, outbox
  <1>2. /\ JobsOK' /\ work' \in [Process -> Task]
        /\ \A j \in Job : job[j].status = "COMPLETED" => job'[j] = job[j]
    BY <1>0, <1>1, NothingEnqueued, JobsUntouched
  <1>3. /\ work'[w] = t
        /\ \A v \in Process \ {w} : /\ work'[v] = work[v] /\ Batch(v)' = Batch(v) /\ Wrote(v)' = Wrote(v)
                                    /\ \A op : Working(v, op)' <=> Working(v, op)
    BY <1>0, ProceedType
  <1>4. Batch(w)' = Batch(w) /\ Wrote(w)' = Wrote(w) \cup D /\ Working(w, "events")' /\ e \in Batch(w)
    BY <1>0, <1>3 DEF Batch, Wrote, Working
  <1>5. TypeOK'
    BY <1>1, <1>2 DEF TypeOK, JobTypeOK
  <1>6. BatchesOK'
    BY <1>1, <1>3, <1>4 DEF BatchesOK
  <1>7. (\A d : Sole(d)' <=> Sole(d)) /\ (ToldOnce' <=> ToldOnce) /\ MailsOK'
    BY <1>1 DEF Sole, ToldOnce, MailsOK
  <1>13. \A k, W : ToldOf(k, W)' <=> ToldOf(k, W)
    BY <1>1 DEF ToldOf
  <1>8. \A d \in D : d \in DedupeKey /\ d[1] \in KeysOf[e] /\ notices[d] = 0
    BY <1>0, HandlerKeys DEF Missing
  <1>9. ASSUME NEW v \in Process, NEW d \in DedupeKey, d \in Wrote(v)'
        PROVE  (\E f \in Batch(v)' : d[1] \in KeysOf[f]) /\ (Sole(d)' => notices'[d] = 0)
    <2>1. CASE v = w /\ d \in D
      BY <1>1, <1>4, <1>8, <2>1
    <2>2. CASE v # w \/ d \in Wrote(w)
      <3>1. d \in Wrote(v) /\ Batch(v)' = Batch(v)
        BY <1>3, <1>4, <1>9, <2>2
      <3>2. QED  BY <1>1, <1>7, <3>1 DEF WritesOK
    <2>3. QED  BY <1>4, <1>9, <2>1, <2>2
  <1>10. ASSUME NEW v \in Process, Working(v, "events")', NEW f \in work'[v].done, NEW k \in KeysOf[f]
         PROVE  ToldOf(k, work[v].wrote)'
    <2>1. CASE v # w
      BY <1>1, <1>3, <1>10, <1>13, <2>1 DEF WritesOK
    <2>2. CASE v = w /\ f \in work[w].done
      <3>1. ToldOf(k, work[w].wrote)
        BY <1>10, <2>2 DEF WritesOK
      <3>2. ToldOf(k, t.wrote)
        BY <3>1 DEF ToldOf
      <3>3. QED  BY <1>3, <1>13, <2>2, <3>2
    <2>3. CASE v = w /\ f \notin work[w].done
      <3>1. f = e /\ D = Missing(w, e)
        BY <1>3, <1>10, <2>3
      <3> DEFINE d == <<k, IF k \in Timed THEN period ELSE 0>>
      <3>2. d \in DedupeKeysOf(e) /\ d[1] = k
        <4>1. k \in KeysOf[e]
          BY <1>10, <3>1
        <4>2. QED  BY <4>1 DEF DedupeKeysOf
      <3> HIDE DEF d
      <3>3. d \in DedupeKey /\ notices[d] \in Nat
        BY <1>0, <3>2, HandlerKeys DEF TypeOK
      <3>4. notices[d] > 0 \/ d \in work[w].wrote \cup D
        BY <3>1, <3>2, <3>3 DEF Missing
      <3>5. ToldOf(k, t.wrote)
        BY <3>2, <3>3, <3>4 DEF ToldOf
      <3>6. QED  BY <1>3, <1>13, <2>3, <3>5
    <2>4. QED  BY <2>1, <2>2, <2>3
  <1>14. \A f \in Event : event'[f].state = "PROCESSED" => \A k \in KeysOf[f] : ToldOf(k, {})'
    BY <1>1, <1>13 DEF WritesOK
  <1>11. WritesOK'
    BY <1>9, <1>10, <1>14 DEF WritesOK
  <1>12. QED
    BY <1>2, <1>5, <1>6, <1>7, <1>11 DEF StepOK

LEMMA HandleEventOK ==
    ASSUME OutboxInv, NEW w \in Process, HandleEvent(w)
    PROVE  StepOK
  <1>1. Working(w, "events") /\ work[w] \in EventsTask
    BY Kinds DEF HandleEvent, OutboxInv
  <1>2. PICK e \in work[w].todo :
          Proceed(w, [work[w] EXCEPT !.todo = @ \ {e}, !.done = @ \cup {e}, !.wrote = @ \cup Missing(w, e)])
    BY DEF HandleEvent
  <1> DEFINE todo == work[w].todo \ {e}
             done == work[w].done \cup {e}
             D == Missing(w, e)
             wrote == work[w].wrote \cup D
             t == [work[w] EXCEPT !.todo = todo, !.done = done, !.wrote = wrote]
  <1>3. Proceed(w, t)
    BY <1>2
  <1>4. todo \subseteq Event /\ done \subseteq Event /\ wrote \subseteq DedupeKey /\ D \subseteq Missing(w, e)
    <2>1. e \in Event /\ D \subseteq DedupeKey
      BY <1>1, HandlerKeys DEF EventsTask, Missing, OutboxInv
    <2>2. QED  BY <1>1, <2>1 DEF EventsTask
  <1> HIDE DEF todo, done, wrote
  <1>5. t \in EventsTask /\ t.todo = todo /\ t.done = done /\ t.wrote = wrote /\ t.failed = work[w].failed
    BY <1>1, <1>4 DEF EventsTask
  <1> HIDE DEF t
  <1>6. UNCHANGED <<queue, faults, outbox>>
    BY DEF HandleEvent
  <1>7. t.todo = work[w].todo \ {e} /\ t.wrote = work[w].wrote \cup D
        /\ t.done = work[w].done \cup {e} /\ t.failed = work[w].failed /\ D = Missing(w, e)
    BY <1>5 DEF todo, done, wrote
  <1> HIDE DEF D
  <1>8. QED
    BY <1>1, <1>3, <1>4, <1>5, <1>6, <1>7, HandledOK

LEMMA FailEventOK ==
    ASSUME OutboxInv, NEW w \in Process, FailEvent(w)
    PROVE  StepOK
  <1>1. Working(w, "events") /\ work[w] \in EventsTask
    BY Kinds DEF FailEvent, OutboxInv
  <1>9. PICK e \in work[w].todo : \E D \in SUBSET Missing(w, e) :
          Proceed(w, [work[w] EXCEPT !.todo = @ \ {e}, !.failed = @ \cup {e}, !.wrote = @ \cup D])
    BY DEF FailEvent
  <1>2. PICK D \in SUBSET Missing(w, e) :
          Proceed(w, [work[w] EXCEPT !.todo = @ \ {e}, !.failed = @ \cup {e}, !.wrote = @ \cup D])
    BY <1>9
  <1> DEFINE todo == work[w].todo \ {e}
             failed == work[w].failed \cup {e}
             wrote == work[w].wrote \cup D
             t == [work[w] EXCEPT !.todo = todo, !.failed = failed, !.wrote = wrote]
  <1>3. Proceed(w, t)
    BY <1>2
  <1>4. todo \subseteq Event /\ failed \subseteq Event /\ wrote \subseteq DedupeKey
    <2>1. e \in Event /\ D \subseteq DedupeKey
      BY <1>1, HandlerKeys DEF EventsTask, Missing, OutboxInv
    <2>2. QED  BY <1>1, <2>1 DEF EventsTask
  <1> HIDE DEF todo, failed, wrote
  <1>5. t \in EventsTask /\ t.todo = todo /\ t.failed = failed /\ t.wrote = wrote /\ t.done = work[w].done
    BY <1>1, <1>4 DEF EventsTask
  <1> HIDE DEF t
  <1>6. UNCHANGED <<queue, faults, outbox>>
    BY DEF FailEvent
  <1>7. t.todo = work[w].todo \ {e} /\ t.wrote = work[w].wrote \cup D
        /\ t.failed = work[w].failed \cup {e} /\ t.done = work[w].done
    BY <1>5 DEF todo, failed, wrote
  <1>8. QED
    BY <1>1, <1>3, <1>5, <1>6, <1>7, HandledOK

LEMMA AbortBatchOK ==
    ASSUME OutboxInv, NEW w \in Process, AbortBatch(w)
    PROVE  StepOK
  <1> USE DEF OutboxInv
  <1>1. /\ Working(w, "events") /\ Proceed(w, NoWork) /\ faults < MaxFaults /\ faults' = faults + 1
        /\ job' = job /\ retaken' = retaken /\ event' = event /\ notices' = notices
        /\ period' = period /\ overlapped' = overlapped
    BY DEF AbortBatch, Fault, Finish, queue
  <1>2. NoWork \in Task
    BY DEF Task
  <1>3. /\ JobsOK' /\ work' \in [Process -> Task]
        /\ \A j \in Job : job[j].status = "COMPLETED" => job'[j] = job[j]
    BY <1>1, <1>2, NothingEnqueued, JobsUntouched
  <1>4. /\ work'[w] = NoWork
        /\ \A v \in Process \ {w} : /\ work'[v] = work[v] /\ Batch(v)' = Batch(v) /\ Wrote(v)' = Wrote(v)
                                    /\ \A op : Working(v, op)' <=> Working(v, op)
    BY <1>1, <1>2, ProceedType
  <1>5. Batch(w)' = {} /\ Wrote(w)' = {} /\ ~Working(w, "events")'
    BY <1>4 DEF Batch, Wrote, Working, NoWork
  <1>6. TypeOK'
    <2>1. faults' \in 0..MaxFaults
      BY <1>1, JobQueueAssumption DEF TypeOK, JobTypeOK
    <2>2. QED  BY <1>1, <1>3, <2>1 DEF TypeOK, JobTypeOK
  <1>7. BatchesOK'
    BY <1>1, <1>4, <1>5 DEF BatchesOK
  <1>8. /\ \A d : Sole(d)' <=> Sole(d)
        /\ \A k, D : ToldOf(k, D)' <=> ToldOf(k, D)
        /\ ToldOnce' /\ MailsOK'
    BY <1>1 DEF Sole, ToldOf, ToldOnce, MailsOK
  <1>9. WritesOK'
    BY <1>1, <1>4, <1>5, <1>8 DEF WritesOK
  <1>10. QED
    BY <1>3, <1>6, <1>7, <1>8, <1>9 DEF StepOK

\* The notifications of a batch appear with the new state of its events, and their mails.
LEMMA CommitBatchOK ==
    ASSUME OutboxInv, NEW w \in Process, CommitBatch(w)
    PROVE  StepOK
  <1> USE DEF OutboxInv
  <1> DEFINE t == work[w]
             J == UNION {MailsOf(d, notices[d] + 1) : d \in t.wrote}
  <1>1. /\ Working(w, "events") /\ Proceed(w, NoWork) /\ retaken' = retaken /\ faults' = faults
        /\ period' = period /\ overlapped' = overlapped /\ job' = Enqueued(J)
        /\ event' = [e \in Event |-> AfterBatch(t, e)]
        /\ notices' = [d \in DedupeKey |-> IF d \in t.wrote THEN notices[d] + 1 ELSE notices[d]]
    BY DEF CommitBatch, Finish
  <1>2. t \in EventsTask /\ NoWork \in Task
    BY <1>1, Kinds DEF Task
  <1>3. Wrote(w) = t.wrote /\ t.done \subseteq Batch(w) /\ t.failed \subseteq Batch(w) /\ t.wrote \subseteq DedupeKey
    BY <1>1, <1>2 DEF Wrote, Batch, EventsTask
  <1> HIDE DEF t
  <1>4. J \subseteq Job \ Mail
    BY DEF MailsOf
  <1>5. \A j \in Job \ Mail : /\ Origin[j] \in DedupeKey \X (Nat \ {0})
                              /\ j \in J <=> /\ Origin[j][1] \in t.wrote
                                             /\ Origin[j][2] = notices[Origin[j][1]] + 1
    <2>1. \A j \in Job \ Mail : Origin[j] \in DedupeKey \X (Nat \ {0})
      BY OutboxAssumption
    <2>2. QED  BY <2>1 DEF MailsOf
  <1> HIDE DEF J
  <1>6. \A d \in DedupeKey : /\ notices[d] \in Nat
                             /\ notices'[d] = IF d \in t.wrote THEN notices[d] + 1 ELSE notices[d]
    BY <1>1 DEF TypeOK
  <1>7. \A j \in J : job[j].status = "NONE"
    <2>1. SUFFICES ASSUME NEW j \in J  PROVE notices[Origin[j][1]] < Origin[j][2]
      BY <1>4 DEF MailsOK
    <2>2. Origin[j][1] \in DedupeKey /\ Origin[j][2] = notices[Origin[j][1]] + 1
      BY <1>4, <1>5
    <2>3. QED  BY <1>6, <2>2
  <1>8. /\ JobsOK' /\ work' \in [Process -> Task] /\ job' \in [Job -> JobRow]
        /\ \A j \in Job : job'[j].status = IF j \in J THEN "PENDING" ELSE job[j].status
        /\ \A j \in Job : job[j].status = "COMPLETED" => job'[j] = job[j]
    BY <1>1, <1>2, <1>4, <1>7, JobsUntouched
  <1>9. /\ work'[w] = NoWork
        /\ \A v \in Process \ {w} : /\ work'[v] = work[v] /\ Batch(v)' = Batch(v) /\ Wrote(v)' = Wrote(v)
                                    /\ \A op : Working(v, op)' <=> Working(v, op)
    BY <1>1, <1>2, ProceedType
  <1>10. Batch(w)' = {} /\ Wrote(w)' = {} /\ ~Working(w, "events")'
    BY <1>9 DEF Batch, Wrote, Working, NoWork
  <1>11. ASSUME NEW e \in Event
         PROVE  /\ event'[e] \in EventRow
                /\ e \notin Batch(w) => event'[e] = event[e]
                /\ event'[e].state = "PROCESSED" => event[e].state = "PROCESSED" \/ e \in t.done
    <2>1. event[e] \in EventRow /\ event'[e] = AfterBatch(t, e) /\ EventTries \in Nat
      BY <1>1, OutboxAssumption DEF TypeOK, EventRow
    <2>2. CASE e \in t.done
      <3>1. event'[e] = [event[e] EXCEPT !.state = "PROCESSED"]
        BY <2>1, <2>2 DEF AfterBatch
      <3>2. QED  BY <1>3, <2>1, <2>2, <3>1 DEF EventRow
    <2>3. CASE e \notin t.done /\ e \in t.failed
      <3> DEFINE tries == event[e].tries + 1
      <3>1. event'[e] = [event[e] EXCEPT !.tries = tries]
        BY <2>1, <2>3 DEF AfterBatch
      <3>2. tries \in 0..EventTries
        <4>1. event[e].tries < EventTries
          BY <1>3, <2>3 DEF BatchesOK
        <4>2. QED  BY <2>1, <4>1 DEF EventRow
      <3> HIDE DEF tries
      <3>3. QED  BY <1>3, <2>1, <2>3, <3>1, <3>2 DEF EventRow
    <2>4. CASE e \notin t.done /\ e \notin t.failed
      BY <2>1, <2>4 DEF AfterBatch
    <2>5. QED  BY <2>2, <2>3, <2>4
  <1>12. TypeOK'
    <2>1. event' \in [Event -> EventRow]
      BY <1>1, <1>11
    <2>2. notices' \in [DedupeKey -> Nat]
      BY <1>1, <1>6
    <2>3. QED
      BY <1>1, <1>8, <2>1, <2>2 DEF TypeOK, JobTypeOK, JobRow, EventRow
  <1>13. BatchesOK'
    BY <1>1, <1>9, <1>10, <1>11 DEF BatchesOK
  <1>14. \A d : Sole(d)' <=> Sole(d)
    BY <1>1 DEF Sole
  <1>15. ASSUME NEW v \in Process, NEW d \in DedupeKey, d \in Wrote(v)'
         PROVE  (\E f \in Batch(v)' : d[1] \in KeysOf[f]) /\ (Sole(d)' => notices'[d] = 0)
    <2>1. v # w /\ d \in Wrote(v) /\ Batch(v)' = Batch(v)
      BY <1>9, <1>10, <1>15
    <2>2. Sole(d) => d \notin t.wrote
      BY <1>3, <2>1, SoleWriter
    <2>3. QED  BY <1>6, <1>14, <2>1, <2>2 DEF WritesOK
  <1>22. \A k, D : /\ ToldOf(k, D) => ToldOf(k, D)'
                   /\ ToldOf(k, t.wrote) => ToldOf(k, {})'
    <2> SUFFICES ASSUME NEW d \in DedupeKey
                 PROVE  /\ notices[d] > 0 => notices'[d] > 0
                        /\ d \in t.wrote => notices'[d] > 0
      BY DEF ToldOf
    <2>1. QED  BY <1>6
  <1>16. ASSUME NEW v \in Process, Working(v, "events")', NEW f \in work'[v].done, NEW k \in KeysOf[f]
         PROVE  ToldOf(k, work[v].wrote)'
    <2>1. v # w /\ Working(v, "events") /\ work'[v] = work[v]
      BY <1>9, <1>10, <1>16
    <2>2. ToldOf(k, work[v].wrote)
      BY <1>16, <2>1 DEF WritesOK
    <2>3. QED  BY <1>22, <2>1, <2>2
  <1>17. ASSUME NEW e \in Event, event'[e].state = "PROCESSED", NEW k \in KeysOf[e]
         PROVE  ToldOf(k, {})'
    <2>1. ToldOf(k, {}) \/ ToldOf(k, t.wrote)
      BY <1>1, <1>11, <1>17 DEF WritesOK, t
    <2>2. QED  BY <1>22, <2>1
  <1>18. WritesOK'
    BY <1>15, <1>16, <1>17 DEF WritesOK
  <1>19. MailsOK'
    <2> SUFFICES ASSUME NEW j \in Job \ Mail
                 PROVE  job'[j].status = "NONE" <=> notices'[Origin[j][1]] < Origin[j][2]
      BY DEF MailsOK
    <2> DEFINE k == Origin[j][1]
               n == Origin[j][2]
    <2>1. k \in DedupeKey /\ n \in Nat /\ (j \in J <=> k \in t.wrote /\ n = notices[k] + 1)
      BY <1>5
    <2>2. job[j].status = "NONE" <=> notices[k] < n
      BY DEF MailsOK
    <2>3. job'[j].status = "NONE" <=> job[j].status = "NONE" /\ j \notin J
      BY <1>8
    <2> HIDE DEF k, n
    <2>4. notices'[k] < n <=> notices[k] < n /\ j \notin J
      BY <1>6, <2>1
    <2>5. QED  BY <2>2, <2>3, <2>4 DEF k, n
  <1>20. ToldOnce'
    <2> SUFFICES ASSUME NEW d \in DedupeKey, Sole(d)  PROVE notices'[d] <= 1
      BY <1>14 DEF ToldOnce, Sole
    <2>1. notices[d] <= 1
      BY DEF ToldOnce, Sole
    <2>2. d \in t.wrote => notices[d] = 0
      BY <1>3 DEF WritesOK
    <2>3. QED  BY <1>6, <2>1, <2>2
  <1>21. QED
    BY <1>8, <1>12, <1>13, <1>18, <1>19, <1>20 DEF StepOK

\* Time alone changes no row.
LEMMA PassPeriodOK ==
    ASSUME OutboxInv, PassPeriod
    PROVE  StepOK
  <1> USE DEF OutboxInv
  <1>1. /\ job' = job /\ work' = work /\ retaken' = retaken /\ faults' = faults /\ event' = event
        /\ notices' = notices /\ overlapped' = overlapped /\ period' \in 0..MaxPeriod
    BY OutboxAssumption DEF PassPeriod, TypeOK, queue
  <1>2. QED
    BY <1>1, RowsAsTheyWere DEF StepOK

-------------------------------------------------------------------------------
(***************************************************************************)
(* Theorems                                                                *)
(***************************************************************************)
LEMMA InitOK ==
    ASSUME OutboxInit
    PROVE  OutboxInv
  <1>1. /\ \A w \in Process : work[w] = NoWork
        /\ \A j \in Job : job[j] = [status |-> "NONE", tries |-> 0, stale |-> FALSE]
        /\ \A d \in DedupeKey : notices[d] = 0
        /\ \A e \in Event : event[e].state = "NONE"
    BY DEF OutboxInit, JobInit
  <1>2. \A w \in Process : /\ Holds(w) = {} /\ Batch(w) = {} /\ Wrote(w) = {}
                           /\ \A op \in {"mail", "jobs", "record", "events"} : ~Working(w, op)
    BY <1>1 DEF Holds, Batch, Wrote, Working, NoWork
  <1>3. TypeOK
    <2>1. work \in [Process -> Task] /\ job \in [Job -> [status: JobStatus, tries: Nat, stale: BOOLEAN]]
      BY DEF OutboxInit, JobInit, Task, JobStatus
    <2>2. 0 \in 0..EventTries /\ 0 \in 0..MaxFaults /\ 0 \in 0..MaxPeriod
      BY OutboxAssumption, JobQueueAssumption
    <2>3. event \in [Event -> [state: {"NONE", "NEW", "PROCESSED"}, tries: 0..EventTries]]
      BY <2>2 DEF OutboxInit
    <2>4. QED
      BY <2>1, <2>2, <2>3 DEF OutboxInit, JobInit, TypeOK, JobTypeOK
  <1>4. JobsOK
    BY <1>1, <1>2, JobQueueAssumption DEF JobsOK, JobOK
  <1>5. BatchesOK /\ WritesOK
    BY <1>1, <1>2 DEF BatchesOK, WritesOK
  <1>6. MailsOK
    <2> SUFFICES ASSUME NEW j \in Job \ Mail
                 PROVE  job[j].status = "NONE" /\ notices[Origin[j][1]] < Origin[j][2]
      BY DEF MailsOK
    <2>1. Origin[j][1] \in DedupeKey /\ Origin[j][2] \in Nat \ {0}
      BY OutboxAssumption
    <2>2. QED  BY <1>1, <2>1
  <1>7. ToldOnce
    BY <1>1 DEF ToldOnce
  <1>8. QED
    BY <1>3, <1>4, <1>5, <1>6, <1>7 DEF OutboxInv

LEMMA NextOK ==
    ASSUME OutboxInv, [OutboxNext]_outboxVars
    PROVE  StepOK
  <1>1. CASE UNCHANGED outboxVars
    <2>1. UNCHANGED <<job, work, retaken, faults, event, notices, overlapped>> /\ period' \in 0..MaxPeriod
      BY <1>1 DEF outboxVars, OutboxInv, TypeOK
    <2>2. QED
      BY <2>1, RowsAsTheyWere DEF StepOK
  <1>2. CASE JobNext /\ UNCHANGED outbox
    <2>1. JobStepOK
      BY <1>2, JobNextOK DEF OutboxInv
    <2>2. MailsOK' /\ ToldOnce'
      BY <1>2, <2>1 DEF OutboxInv, JobStepOK, MailsOK, ToldOnce, outbox
    <2>3. QED
      BY <2>1, <2>2 DEF JobStepOK, StepOK, OutboxInv
  <1>3. ASSUME NEW w \in Process, EventSteps(w)  PROVE StepOK
    BY <1>3, HandleEventOK, FailEventOK, CommitBatchOK DEF EventSteps
  <1>4. QED
    BY <1>1, <1>2, <1>3, PublishEventOK, ClaimBatchOK, AbortBatchOK, PassPeriodOK DEF OutboxNext

\* Batches in flight share no event and write what their events ask for; a job that was never
\* taken away from its process is held by one at most (claimBatch, claimDue).
THEOREM OutboxInvariant == OutboxSpec => []OutboxInv
  <1>1. OutboxInit => OutboxInv
    BY InitOK
  <1>2. OutboxInv /\ [OutboxNext]_outboxVars => OutboxInv'
    BY NextOK DEF StepOK
  <1>3. QED
    BY <1>1, <1>2, PTL DEF OutboxSpec

\* The rows and tasks have their types; an event is never tried more than its tries.
THEOREM TypeCorrect == OutboxSpec => []TypeOK
  <1>1. OutboxInv => TypeOK
    BY DEF OutboxInv
  <1>2. QED
    BY <1>1, OutboxInvariant, PTL

\* For any number of workers, events and faults: nobody is told twice under the same
\* dedupeKey, however often the event is tried; under a fixed one, never twice, under one
\* with the time of the try in it, once a period (claimBatch, notifyUser).
THEOREM NobodyIsToldTwice == OutboxSpec => []ToldOnce
  <1>1. OutboxInv => ToldOnce
    BY DEF OutboxInv
  <1>2. QED
    BY <1>1, OutboxInvariant, PTL

\* An event is marked as processed only when everybody it concerns was told, and the
\* mails of the first notification exist (runWorkerOnce).
THEOREM ProcessedMeansTold == OutboxSpec => []ProcessedIsTold
  <1>1. OutboxInv => ProcessedIsTold
    <2> SUFFICES ASSUME OutboxInv, NEW e \in Event, event[e].state = "PROCESSED", NEW k \in KeysOf[e]
                 PROVE  \E d \in DedupeKey : /\ d[1] = k /\ notices[d] > 0
                                             /\ \A j \in MailsOf(d, 1) : job[j].status # "NONE"
      BY DEF ProcessedIsTold
    <2>1. ToldOf(k, {})
      BY DEF OutboxInv, WritesOK
    <2>2. PICK d \in DedupeKey : d[1] = k /\ notices[d] > 0
      BY <2>1 DEF ToldOf
    <2>3. notices[d] \in Nat
      BY DEF OutboxInv, TypeOK
    <2>4. ASSUME NEW j \in MailsOf(d, 1)  PROVE job[j].status # "NONE"
      <3>1. j \in Job \ Mail /\ Origin[j][1] = d /\ Origin[j][2] = 1
        BY DEF MailsOf
      <3>2. ~(notices[Origin[j][1]] < Origin[j][2])
        BY <2>2, <2>3, <3>1
      <3>3. QED  BY <3>1, <3>2 DEF OutboxInv, MailsOK
    <2>5. QED  BY <2>2, <2>4
  <1>2. QED
    BY <1>1, OutboxInvariant, PTL

\* A job that was never taken away from its process is tried no more than its tries
\* (claimDue, claimById).
THEOREM TriesBounded == OutboxSpec => []TriesAreBounded
  <1>1. OutboxInv => TriesAreBounded
    BY DEF OutboxInv, JobsOK, JobOK, TriesAreBounded
  <1>2. QED
    BY <1>1, OutboxInvariant, PTL

\* A message that was delivered and recorded stays so, unless two processes had the job
\* at once (claimDue, complete, fail).
THEOREM DeliveredIsFinal == OutboxSpec => DeliveredStaysDelivered
  <1>1. OutboxInv /\ [OutboxNext]_outboxVars =>
          [\A j \in Job : j \notin retaken' /\ job[j].status = "COMPLETED" => job'[j] = job[j]]_outboxVars
    BY NextOK DEF StepOK
  <1>2. QED
    BY <1>1, OutboxInvariant, PTL DEF OutboxSpec, DeliveredStaysDelivered
===============================================================================
