-------------------------------- MODULE Placement --------------------------------
(***************************************************************************)
(* The placements of one agent, their deposits, invoices and payments:     *)
(* placement.service.ts, billing.service.ts and state/placement.ts, on top *)
(* of the holds of Reservation.  One placement per client stands for the   *)
(* rows of that pair: findOpenForPair never creates a second open one, and *)
(* a closed one is not followed here by another.                           *)
(*                                                                         *)
(* As in Reservation, a request loads, then commits.  A payment has a step *)
(* more: its transaction adds up the payments it can see before it writes  *)
(* what they amount to.                                                    *)
(***************************************************************************)
EXTENDS Reservation, Sums

CONSTANTS
    Required,       \* what the deposit policies ask for, in minor units
    Payments,       \* amounts of single payments
    MaxInvoices     \* bound: invoices issued for one deposit

ASSUME PlacementAssumption ==
    /\ Required \subseteq Nat \ {0}
    /\ Payments \subseteq Nat \ {0}
    /\ MaxInvoices \in Nat

VARIABLES
    placement,      \* Placement.status and whether the checklist and the start date are set
    deposit,        \* Deposit: status and requiredAmount
    invoice,        \* the deposit's Invoice rows with the sum of their payments
    everSettled     \* history: the clients whose deposit was once PAID or WAIVED

billing == <<deposit, invoice, everSettled>>
vars == <<hold, availability, lastFree, task, overlapped, placement, deposit, invoice, everSettled>>

OPEN_PLACEMENT_STATUSES ==
    {"SELECTED", "AWAITING_AGREEMENT", "AWAITING_DEPOSIT", "DEPLOYMENT_PREP", "ACTIVE", "PAUSED"}
PlacementStatus == OPEN_PLACEMENT_STATUSES \cup {"NONE", "COMPLETED", "CANCELLED"}
DepositStatus == {"NONE", "PENDING", "PARTIALLY_PAID", "PAID", "WAIVED"}
InvoiceStatus == {"ISSUED", "PAID", "VOID"}
Settled == {"PAID", "WAIVED"}

\* PLACEMENT_TRANSITIONS that transitionPlacement may make.  A caller who may
\* activate can also "resume" a placement that is only being prepared; the page
\* offers Resume on a paused one.
Transitions ==
    {<<"DEPLOYMENT_PREP", "ACTIVE">>, <<"ACTIVE", "PAUSED">>, <<"PAUSED", "ACTIVE">>,
     <<"ACTIVE", "COMPLETED">>, <<"PAUSED", "COMPLETED">>} \cup (OPEN_PLACEMENT_STATUSES \X {"CANCELLED"})

Issued(c) == {i \in DOMAIN invoice[c] : invoice[c][i].status = "ISSUED"}
NewInvoice(amount) == [amount |-> amount, status |-> "ISSUED", paid |-> 0]
Voided(c, I) ==
    [i \in DOMAIN invoice[c] |->
        IF i \in I THEN [invoice[c][i] EXCEPT !.status = "VOID"] ELSE invoice[c][i]]

\* Payments count unless their invoice is void.
PaidTowards(rows) ==
    SumOver([i \in DOMAIN rows |-> rows[i].paid],
            {i \in DOMAIN rows : rows[i].status # "VOID"})
DepositStatusFor(sum, required) ==
    IF sum >= required THEN "PAID" ELSE IF sum > 0 THEN "PARTIALLY_PAID" ELSE "PENDING"

Task ==
    {Idle} \cup HoldTask
    \cup [op: {"select"}, c: Client, held: BOOLEAN]
    \cup [op: {"accept", "activate"}, c: Client]
    \cup [op: {"approve"}, c: Client, amount: Required]
    \cup [op: {"prepare"}, c: Client, ready: BOOLEAN]
    \cup [op: {"move"}, c: Client, to: PlacementStatus]
    \cup [op: {"void"}, c: Client, i: Nat]
    \cup [op: {"pay"}, c: Client, i: Nat, amount: Payments]
    \cup [op: {"tallied"}, c: Client, i: Nat, amount: Payments, full: BOOLEAN,
          was: DepositStatus, now: DepositStatus]
    \cup [op: {"waive"}, c: Client, issued: SUBSET Nat]
    \cup [op: {"recalculate"}, c: Client, amount: Required, issued: SUBSET Nat]

TypeOK ==
    /\ HoldTypeOK
    /\ task \in [Worker -> Task]
    /\ overlapped \in BOOLEAN
    /\ placement \in [Client -> [status: PlacementStatus, ready: BOOLEAN]]
    /\ deposit \in [Client -> [status: DepositStatus, required: Nat]]
    /\ invoice \in [Client -> Seq([amount: Required, status: InvoiceStatus, paid: Nat])]
    /\ everSettled \subseteq Client

Init ==
    /\ HoldInit
    /\ task = [w \in Worker |-> Idle]
    /\ overlapped = FALSE
    /\ placement = [c \in Client |-> [status |-> "NONE", ready |-> FALSE]]
    /\ deposit = [c \in Client |-> [status |-> "NONE", required |-> 0]]
    /\ invoice = [c \in Client |-> <<>>]
    /\ everSettled = {}

SetStatus(c, status) == placement' = [placement EXCEPT ![c].status = status]

-------------------------------------------------------------------------------
(***************************************************************************)
(* Selection, approval and agreement                                       *)
(***************************************************************************)

\* recordClientDecision SELECTED: the placement and the hold, in one transaction.
BeginSelect(w, c) ==
    /\ placement[c].status \in OPEN_PLACEMENT_STATUSES \cup {"NONE"}
    /\ HeldFor(c)
    /\ Begin(w, [op |-> "select", c |-> c, held |-> ActiveHolds # {}])
    /\ UNCHANGED <<holdVars, placement, billing>>
CommitSelect(w) ==
    LET c == task[w].c IN
    /\ Doing(w, "select")
    /\ IF placement[c].status \in OPEN_PLACEMENT_STATUSES
         THEN UNCHANGED placement
         ELSE SetStatus(c, "SELECTED")
    /\ IF task[w].held
         THEN UNCHANGED holdVars
         ELSE AddHold(c) /\ SetAvailability("RESERVED")
    /\ Done(w)
    /\ UNCHANGED billing

\* approvePlacement: the deposit, unique per placement, and its first invoice.
BeginApprove(w, c, amount) ==
    /\ placement[c].status = "SELECTED"
    /\ Begin(w, [op |-> "approve", c |-> c, amount |-> amount])
    /\ UNCHANGED <<holdVars, placement, billing>>
CommitApprove(w) ==
    LET c == task[w].c IN
    /\ Doing(w, "approve")
    /\ deposit[c].status = "NONE"
    /\ SetStatus(c, "AWAITING_AGREEMENT")
    /\ deposit' = [deposit EXCEPT ![c] = [status |-> "PENDING", required |-> task[w].amount]]
    /\ invoice' = [invoice EXCEPT ![c] = Append(@, NewInvoice(task[w].amount))]
    /\ Done(w)
    /\ UNCHANGED <<holdVars, everSettled>>

\* acceptServiceAgreement and recordSignedAgreement.
BeginAccept(w, c) ==
    /\ placement[c].status = "AWAITING_AGREEMENT"
    /\ Begin(w, [op |-> "accept", c |-> c])
    /\ UNCHANGED <<holdVars, placement, billing>>
CommitAccept(w) ==
    /\ Doing(w, "accept")
    /\ SetStatus(task[w].c, "AWAITING_DEPOSIT")
    /\ Done(w)
    /\ UNCHANGED <<holdVars, billing>>

-------------------------------------------------------------------------------
(***************************************************************************)
(* Billing                                                                 *)
(***************************************************************************)

\* Its one caller passes the change of the deposit's status; the placement moves
\* only from AWAITING_DEPOSIT.
OnDepositSettled(c) ==
    /\ everSettled' = everSettled \cup {c}
    /\ IF placement[c].status = "AWAITING_DEPOSIT"
         THEN SetStatus(c, "DEPLOYMENT_PREP")
         ELSE UNCHANGED placement
\* Mutant of NowSettled: a part-payment counts.
NowPaidTowards(was, now) == now # "PENDING" /\ was # now
NowSettled(was, now) == now = "PAID" /\ was # "PAID"

\* Mutant of Covered: any payment settles an invoice.
HasPayment(row) == row.paid > 0
Covered(row) == row.paid >= row.amount

\* recordPayment and recordProviderPayment.
BeginPay(w, c, i, amount) ==
    /\ i \in Issued(c)
    /\ Begin(w, [op |-> "pay", c |-> c, i |-> i, amount |-> amount])
    /\ UNCHANGED <<holdVars, placement, billing>>
\* A covered invoice is marked as paid before the deposit's invoices are summed, even one
\* that was voided meanwhile.
WithPayment(c, i, amount) ==
    LET row == [invoice[c][i] EXCEPT !.paid = @ + amount] IN
    [invoice[c] EXCEPT ![i] = IF Covered(row) THEN [row EXCEPT !.status = "PAID"] ELSE row]
TallyPayment(w) ==
    LET t == task[w]
        rows == WithPayment(t.c, t.i, t.amount)
        dep == deposit[t.c]
    IN
    /\ Doing(w, "pay")
    /\ Proceed(w, [op |-> "tallied", c |-> t.c, i |-> t.i, amount |-> t.amount,
                   full |-> Covered(rows[t.i]),
                   was |-> dep.status,
                   now |-> IF dep.status = "WAIVED" THEN "WAIVED"
                           ELSE DepositStatusFor(PaidTowards(rows), dep.required)])
    /\ UNCHANGED <<holdVars, placement, billing>>
CommitPayment(w) ==
    LET t == task[w] IN
    /\ Doing(w, "tallied")
    /\ invoice' = [invoice EXCEPT ![t.c][t.i].paid = @ + t.amount,
                                  ![t.c][t.i].status = IF t.full THEN "PAID" ELSE @]
    /\ deposit' = IF t.was = "WAIVED" THEN deposit
                  ELSE [deposit EXCEPT ![t.c].status = t.now]
    /\ IF NowSettled(t.was, t.now)
         THEN OnDepositSettled(t.c)
         ELSE UNCHANGED <<placement, everSettled>>
    /\ Done(w)
    /\ UNCHANGED holdVars

\* waiveDeposit voids the invoices that were open when it read them.
BeginWaive(w, c) ==
    /\ deposit[c].status \in {"PENDING", "PARTIALLY_PAID"}
    /\ Begin(w, [op |-> "waive", c |-> c, issued |-> Issued(c)])
    /\ UNCHANGED <<holdVars, placement, billing>>
CommitWaive(w) ==
    LET c == task[w].c IN
    /\ Doing(w, "waive")
    /\ deposit' = [deposit EXCEPT ![c].status = "WAIVED"]
    /\ invoice' = [invoice EXCEPT ![c] = Voided(c, task[w].issued)]
    /\ OnDepositSettled(c)
    /\ Done(w)
    /\ UNCHANGED holdVars

\* changeDepositPolicy: "Only an unpaid deposit can be recalculated".
Recalculable == {"PENDING"}
BeginRecalculate(w, c, amount) ==
    /\ deposit[c].status \in Recalculable
    /\ Len(invoice[c]) < MaxInvoices
    /\ Begin(w, [op |-> "recalculate", c |-> c, amount |-> amount, issued |-> Issued(c)])
    /\ UNCHANGED <<holdVars, placement, billing>>
CommitRecalculate(w) ==
    LET c == task[w].c IN
    /\ Doing(w, "recalculate")
    /\ Len(invoice[c]) < MaxInvoices
    /\ deposit' = [deposit EXCEPT ![c].required = task[w].amount]
    /\ invoice' = [invoice EXCEPT ![c] = Append(Voided(c, task[w].issued), NewInvoice(task[w].amount))]
    /\ Done(w)
    /\ UNCHANGED <<holdVars, placement, everSettled>>

\* Mutant of Voidable: a paid invoice can be voided.
AnyInvoice(c) == DOMAIN invoice[c]

\* voidInvoice: "A paid invoice cannot be voided".
Voidable(c) == {i \in DOMAIN invoice[c] : invoice[c][i].status # "PAID"}
BeginVoid(w, c, i) ==
    /\ i \in Voidable(c)
    /\ Begin(w, [op |-> "void", c |-> c, i |-> i])
    /\ UNCHANGED <<holdVars, placement, billing>>
CommitVoid(w) ==
    /\ Doing(w, "void")
    /\ invoice' = [invoice EXCEPT ![task[w].c] = Voided(task[w].c, {task[w].i})]
    /\ Done(w)
    /\ UNCHANGED <<holdVars, placement, deposit, everSettled>>

-------------------------------------------------------------------------------
(***************************************************************************)
(* Deployment                                                              *)
(***************************************************************************)

\* setChecklistItem, until the required items are done, or one is undone.
BeginPrepare(w, c, ready) ==
    /\ placement[c].status = "DEPLOYMENT_PREP"
    /\ Begin(w, [op |-> "prepare", c |-> c, ready |-> ready])
    /\ UNCHANGED <<holdVars, placement, billing>>
CommitPrepare(w) ==
    /\ Doing(w, "prepare")
    /\ placement' = [placement EXCEPT ![task[w].c].ready = task[w].ready]
    /\ Done(w)
    /\ UNCHANGED <<holdVars, billing>>

\* activatePlacement converts whatever hold the agent has.
BeginActivate(w, c) ==
    /\ placement[c].status = "DEPLOYMENT_PREP"
    /\ deposit[c].status \in Settled
    /\ placement[c].ready
    /\ Begin(w, [op |-> "activate", c |-> c])
    /\ UNCHANGED <<holdVars, placement, billing>>
CommitActivate(w) ==
    /\ Doing(w, "activate")
    /\ SetStatus(task[w].c, "ACTIVE")
    /\ SetAvailability("PLACED")
    /\ EndHolds(ActiveHolds, "CONVERTED")
    /\ Done(w)
    /\ UNCHANGED billing

\* transitionPlacement: pause, resume, complete, cancel.  An end releases
\* whatever hold the agent has and frees the agent.
Ends == {"COMPLETED", "CANCELLED"}
\* Mutant of FreeAgent: only a placed agent is freed.
FreePlacedAgent ==
    /\ EndHolds(ActiveHolds, "RELEASED")
    /\ IF availability = "PLACED" THEN SetAvailability("AVAILABLE") ELSE KeepAvailability
FreeAgent ==
    /\ EndHolds(ActiveHolds, "RELEASED")
    /\ IF availability \in Blocked THEN SetAvailability("AVAILABLE") ELSE KeepAvailability
BeginMove(w, c, to) ==
    /\ <<placement[c].status, to>> \in Transitions
    /\ Begin(w, [op |-> "move", c |-> c, to |-> to])
    /\ UNCHANGED <<holdVars, placement, billing>>
CommitMove(w) ==
    /\ Doing(w, "move")
    /\ SetStatus(task[w].c, task[w].to)
    /\ IF task[w].to \in Ends THEN FreeAgent ELSE UNCHANGED holdVars
    /\ Done(w)
    /\ UNCHANGED billing

-------------------------------------------------------------------------------
Pipeline(w) ==
    \/ \E c \in Client :
        \/ BeginSelect(w, c) \/ BeginAccept(w, c) \/ BeginActivate(w, c)
        \/ \E amount \in Required : BeginApprove(w, c, amount)
        \/ \E ready \in BOOLEAN : BeginPrepare(w, c, ready)
        \/ \E to \in PlacementStatus : BeginMove(w, c, to)
    \/ CommitSelect(w) \/ CommitAccept(w) \/ CommitActivate(w)
    \/ CommitApprove(w) \/ CommitPrepare(w) \/ CommitMove(w)

Billing(w) ==
    \/ \E c \in Client :
        \/ BeginWaive(w, c)
        \/ \E amount \in Required : BeginRecalculate(w, c, amount)
        \/ \E i \in DOMAIN invoice[c] :
            \/ BeginVoid(w, c, i)
            \/ \E amount \in Payments : BeginPay(w, c, i, amount)
    \/ CommitWaive(w) \/ CommitRecalculate(w) \/ CommitVoid(w)
    \/ TallyPayment(w) \/ CommitPayment(w)

Next ==
    \/ \E w \in Worker : Pipeline(w) \/ Billing(w)
    \/ HoldNext /\ UNCHANGED <<placement, deposit, invoice, everSettled>>

Spec == Init /\ [][Next]_vars

-------------------------------------------------------------------------------
Deployed == {"DEPLOYMENT_PREP", "ACTIVE", "PAUSED"}

\* INV-C5: whatever overlaps, no placement gets past AWAITING_DEPOSIT unless its
\* deposit was settled; and as long as requests follow one another the deposit of
\* a placement that is prepared or deployed is still PAID or WAIVED.
SettledBeforeDeployment ==
    \A c \in Client : placement[c].status \in Deployed =>
        /\ c \in everSettled
        /\ ~overlapped => deposit[c].status \in {"PAID", "WAIVED"}

\* Whatever overlaps, an invoice that says PAID has payments for its amount
\* (recordPayment adds them up in its own transaction).
PaidInvoiceIsCovered ==
    \A c \in Client : \A i \in DOMAIN invoice[c] :
        invoice[c][i].status = "PAID" => invoice[c][i].paid >= invoice[c][i].amount

\* While requests follow one another, part-payments, recalculations and voided
\* invoices in any order leave at most one open invoice, for what the deposit
\* asks, and none once the deposit is settled, and a PAID deposit is covered by
\* payments that still count.
BillsAgree ==
    ~overlapped => \A c \in Client :
        /\ \A i, j \in Issued(c) : i = j
        /\ \A i \in Issued(c) : invoice[c][i].amount = deposit[c].required
        /\ deposit[c].status \in Settled => Issued(c) = {}
        /\ deposit[c].status = "PAID" => PaidTowards(invoice[c]) >= deposit[c].required

\* While requests follow one another, an agent nobody can set free by hand (a bulk
\* change refuses RESERVED and PLACED) has a hold that will end or a placement.
BlockedForAReason ==
    ~overlapped =>
        /\ availability = "RESERVED" => ActiveHolds # {}
        /\ availability = "PLACED" =>
               \E c \in Client : placement[c].status \in {"ACTIVE", "PAUSED"}

\* "Full payment settles the deposit and moves the placement to deployment prep":
\* no placement still waits for a deposit that is settled.
SettlementMovesPlacement ==
    \A c \in Client : ~(placement[c].status = "AWAITING_DEPOSIT" /\ deposit[c].status \in Settled)
===============================================================================
