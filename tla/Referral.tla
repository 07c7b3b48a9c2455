-------------------------------- MODULE Referral --------------------------------
(***************************************************************************)
(* The commissions of one referrer, the adjustments to them and the        *)
(* payouts that take them: commission.service.ts, payout.service.ts and    *)
(* referral.repository.ts.  Every query is per referrer, so one is enough. *)
(*                                                                         *)
(* Transactions run at READ COMMITTED and take no lock of their own: what  *)
(* a transaction read may be out of date when it writes.  Each transaction *)
(* is a worker; its reads are steps that fill its task, and its writes,    *)
(* which others see when it commits, are one step.                         *)
(***************************************************************************)
EXTENDS CoachShare, Sums, Sequences, FiniteSets

CONSTANTS
    Commission,     \* the sales to referred buyers, one commission each
    Paid,           \* what the buyer paid, minor units
    RateBps,        \* commissionRateBps
    RefundParts,    \* amounts of part-refunds
    Manual,         \* amounts of manual adjustments
    MaxManual,      \* bound: manual adjustments
    MinimumPayout,  \* minimumPayoutMinor
    Payout,         \* bound: payout rows that may be created
    Worker          \* transactions in flight at once

None == "none"

ASSUME ReferralAssumption ==
    /\ IsFiniteSet(Commission)
    /\ None \notin Commission \cup Payout
    /\ Paid \in [Commission -> Nat \ {0}]
    /\ RateBps \in 0..BpsBase
    /\ RefundParts \subseteq Nat \ {0}
    /\ Manual \subseteq Int
    /\ MaxManual \in Nat
    /\ MinimumPayout \in Nat

VARIABLES
    commission,     \* Commission rows: status and payoutId
    sale,           \* the enrolments: refunded in all, and ended by a refund
    adjustments,    \* CommissionAdjustment rows
    payout,         \* Payout rows
    task,           \* what each transaction in flight has read
    paidOut,        \* history: the payouts that paid for a commission
    overlapped      \* history: two transactions have been in flight at once

vars == <<commission, sale, adjustments, payout, task, paidOut, overlapped>>

CommissionStatus == {"NONE", "ON_HOLD", "PAYABLE", "PAID", "REVERSED"}
PayoutStatus == {"NONE", "REQUESTED", "APPROVED", "PAID", "REJECTED"}
OpenPayout == {"REQUESTED", "APPROVED"}

\* commissionAmount of commissionBase: never above the price, rounded down.
CommissionAmount(c) == (Paid[c] * RateBps) \div BpsBase

SumAmounts(S) == SumOver([c \in Commission |-> CommissionAmount(c)], S)
SumAdjustments(I) == SumOver([i \in DOMAIN adjustments |-> adjustments[i].amount], I)

\* partialRefundTotal: both part-refunds and refunds after a payout count.
TakenBack(c) ==
    -SumAdjustments({i \in DOMAIN adjustments :
        /\ adjustments[i].c = c
        /\ adjustments[i].kind = "REFUND"
        /\ adjustments[i].amount < 0})

Adjustment(c, kind, amount) ==
    [c |-> c, kind |-> kind, amount |-> amount, payout |-> None]

Idle == [op |-> "idle"]
Task ==
    {Idle}
    \cup [op: {"refund"}, c: Commission, refunded: Nat]
    \cup [op: {"part"}, c: Commission, part: Nat, total: Nat, taken: Int,
          found: BOOLEAN]
    \cup [op: {"reverse"}, c: Commission, refund: BOOLEAN, was: CommissionStatus,
          open: Payout \cup {None}]
    \cup [op: {"shrink"}, c: Commission, refund: BOOLEAN, was: CommissionStatus,
          open: Payout \cup {None}, amount: Int]
    \cup [op: {"request"}]
    \cup [op: {"payable"}, cs: SUBSET Commission]
    \cup [op: {"claim"}, cs: SUBSET Commission, as: SUBSET Nat]
    \cup [op: {"decision"}, p: Payout, was: PayoutStatus]

TypeOK ==
    /\ commission \in [Commission -> [status: CommissionStatus,
                                      payout: Payout \cup {None}]]
    /\ sale \in [Commission -> [refunded: Nat, ended: BOOLEAN]]
    /\ adjustments \in Seq([c: Commission \cup {None}, kind: {"REFUND", "MANUAL"},
                            amount: Int, payout: Payout \cup {None}])
    /\ payout \in [Payout -> [status: PayoutStatus, amount: Nat]]
    /\ task \in [Worker -> Task]
    /\ paidOut \in [Commission -> SUBSET Payout]
    /\ overlapped \in BOOLEAN

Init ==
    /\ commission = [c \in Commission |-> [status |-> "NONE", payout |-> None]]
    /\ sale = [c \in Commission |-> [refunded |-> 0, ended |-> FALSE]]
    /\ adjustments = <<>>
    /\ payout = [p \in Payout |-> [status |-> "NONE", amount |-> 0]]
    /\ task = [w \in Worker |-> Idle]
    /\ paidOut = [c \in Commission |-> {}]
    /\ overlapped = FALSE

-------------------------------------------------------------------------------
Begin(w, t) ==
    /\ task[w] = Idle
    /\ task' = [task EXCEPT ![w] = t]
    /\ overlapped' = (overlapped \/ \E v \in Worker : task[v] # Idle)
Proceed(w, t) == task' = [task EXCEPT ![w] = t] /\ UNCHANGED overlapped
Done(w) == Proceed(w, Idle)
Doing(w, op) == task[w].op = op

\* Row locks.  A refund holds its enrolment from its first write on, a reversal
\* its commission; another transaction that writes the row waits.
SaleLocked(c) ==
    \E w \in Worker : \/ Doing(w, "part") /\ task[w].c = c
                      \/ task[w].op \in {"reverse", "shrink"}
                            /\ task[w].refund /\ task[w].c = c
Locked(c) == \E w \in Worker : Doing(w, "shrink") /\ task[w].c = c

-------------------------------------------------------------------------------
(***************************************************************************)
(* Sales and holds                                                         *)
(***************************************************************************)

\* recordCommissionForPayment: one row per sale; a hold of zero days is payable
\* at once.
RecordCommission(c) ==
    /\ commission[c].status = "NONE"
    /\ CommissionAmount(c) > 0
    /\ \E s \in {"ON_HOLD", "PAYABLE"} :
        commission' = [commission EXCEPT ![c].status = s]
    /\ UNCHANGED <<sale, adjustments, payout, task, paidOut, overlapped>>

\* Mutant of Due: the hold ends for every row whose date has passed.
DatePassed(c) == commission[c].status \in {"ON_HOLD", "REVERSED"}

Due(c) == commission[c].status = "ON_HOLD"

\* releaseDue, one row of it.
ReleaseHold(c) ==
    /\ Due(c) /\ ~Locked(c)
    /\ commission' = [commission EXCEPT ![c].status = "PAYABLE"]
    /\ UNCHANGED <<sale, adjustments, payout, task, paidOut, overlapped>>

-------------------------------------------------------------------------------
(***************************************************************************)
(* Refunds                                                                 *)
(***************************************************************************)

\* recordCourseRefund: what staff see, read outside the transaction.
ReadSale(w, c) ==
    /\ commission[c].status # "NONE" /\ ~sale[c].ended
    /\ Begin(w, [op |-> "refund", c |-> c, refunded |-> sale[c].refunded])
    /\ UNCHANGED <<commission, sale, adjustments, payout, paidOut>>

\* addPartialRefund, then the commission and what was taken off it before.
BeginPart(w) ==
    /\ Doing(w, "refund")
    /\ LET c == task[w].c IN
        /\ ~SaleLocked(c) /\ ~sale[c].ended
        /\ \E part \in RefundParts :
            /\ task[w].refunded + part < Paid[c]
            /\ sale[c].refunded + part <= Paid[c]
            /\ Proceed(w, [op |-> "part", c |-> c, part |-> part,
                           total |-> task[w].refunded + part,
                           taken |-> TakenBack(c),
                           found |-> commission[c].status # "REVERSED"])
    /\ UNCHANGED <<commission, sale, adjustments, payout, paidOut>>

\* Mutant of StillToTake: every part-refund takes the share of the total again.
TakeWholeShare(c, total, taken) == ProportionalShare(CommissionAmount(c), total, Paid[c])

StillToTake(c, total, taken) ==
    ProportionalShare(CommissionAmount(c), total, Paid[c]) - taken

\* reduceCommissionForPartialRefund
CommitPart(w) ==
    /\ Doing(w, "part")
    /\ LET t == task[w]
           delta == StillToTake(t.c, t.total, t.taken)
       IN
        /\ sale' = [sale EXCEPT ![t.c].refunded = @ + t.part]
        /\ adjustments' = IF t.found /\ delta > 0
                          THEN Append(adjustments, Adjustment(t.c, "REFUND", -delta))
                          ELSE adjustments
    /\ Done(w)
    /\ UNCHANGED <<commission, payout, paidOut>>

\* findBySource, findCommission: the row with the status of its payout.
ReadCommission(c, refund) ==
    LET p == commission[c].payout IN
    [op |-> "reverse", c |-> c, refund |-> refund, was |-> commission[c].status,
     open |-> IF p # None /\ payout[p].status \in OpenPayout THEN p ELSE None]

\* refundEnrollment, then reverseCommissionForSource.
BeginRefundAll(w) ==
    /\ Doing(w, "refund")
    /\ ~SaleLocked(task[w].c) /\ ~sale[task[w].c].ended
    /\ Proceed(w, ReadCommission(task[w].c, TRUE))
    /\ UNCHANGED <<commission, sale, adjustments, payout, paidOut>>

\* reverseCommissionManually
BeginManual(w, c) ==
    /\ commission[c].status \notin {"NONE", "REVERSED"}
    /\ Begin(w, ReadCommission(c, FALSE))
    /\ UNCHANGED <<commission, sale, adjustments, payout, paidOut>>

\* What a refund leaves of the sale.
EndedSale(c, refund) ==
    IF refund THEN [sale EXCEPT ![c] = [refunded |-> Paid[c], ended |-> TRUE]]
    ELSE sale

\* A commission that was already reversed only ends the sale.
AlreadyReversed(w) ==
    /\ Doing(w, "reverse") /\ task[w].was = "REVERSED"
    /\ sale' = EndedSale(task[w].c, task[w].refund)
    /\ Done(w)
    /\ UNCHANGED <<commission, adjustments, payout, paidOut>>

\* reverseTx takes the commission's row and reads the payout it is part of.
MarkReversed(w) ==
    /\ Doing(w, "reverse") /\ task[w].was # "REVERSED"
    /\ ~Locked(task[w].c)
    /\ LET t == task[w] IN
        Proceed(w, [op |-> "shrink", c |-> t.c, refund |-> t.refund,
                    was |-> t.was, open |-> t.open,
                    amount |-> IF t.open = None THEN 0 ELSE payout[t.open].amount])
    /\ UNCHANGED <<commission, sale, adjustments, payout, paidOut>>

\* Mutant of ReversalAdjustment: part-refunds are not made up for.
ReversalIgnoringParts(c, was, prior) ==
    IF was = "PAID" THEN <<Adjustment(c, "REFUND", -CommissionAmount(c))>> ELSE <<>>

\* After a payout the balance takes what is left of the commission; before, the
\* earlier part-refunds are undone with the commission itself.
ReversalAdjustment(c, was, prior) ==
    IF was = "PAID"
    THEN <<Adjustment(c, "REFUND", prior - CommissionAmount(c))>>
    ELSE IF prior > 0 THEN <<Adjustment(c, "MANUAL", prior)>> ELSE <<>>

\* Mutant of ShrinkPayout: the payout keeps the amount of what left it.
KeepAmount(p, amount) == payout

\* An open payout loses the commission, or is rejected when nothing is left.
ShrinkPayout(p, amount) ==
    IF p = None THEN payout
    ELSE IF amount <= 0
    THEN [payout EXCEPT ![p] = [status |-> "REJECTED", amount |-> 0]]
    ELSE [payout EXCEPT ![p].amount = amount]

\* The writes of reverseTx, unconditional by id.
CommitReversal(w) ==
    /\ Doing(w, "shrink")
    /\ LET t == task[w] IN
        /\ commission' = [commission EXCEPT
               ![t.c] = [status |-> "REVERSED", payout |-> None]]
        /\ adjustments' = adjustments
               \o ReversalAdjustment(t.c, t.was, TakenBack(t.c))
        /\ payout' = ShrinkPayout(t.open, t.amount - CommissionAmount(t.c))
        /\ sale' = EndedSale(t.c, t.refund)
    /\ Done(w)
    /\ UNCHANGED paidOut

-------------------------------------------------------------------------------
(***************************************************************************)
(* Balance and payouts                                                     *)
(***************************************************************************)

\* adjustReferrerBalance
AdjustBalance(amount) ==
    /\ Cardinality({i \in DOMAIN adjustments : adjustments[i].c = None}) < MaxManual
    /\ adjustments' = Append(adjustments, Adjustment(None, "MANUAL", amount))
    /\ UNCHANGED <<commission, sale, payout, task, paidOut, overlapped>>

\* requestPayout: refuses while a payout is open, ...
BeginRequest(w) ==
    /\ \A p \in Payout : payout[p].status \notin OpenPayout
    /\ Begin(w, [op |-> "request"])
    /\ UNCHANGED <<commission, sale, adjustments, payout, paidOut>>

PayableUnassigned ==
    {c \in Commission : commission[c].status = "PAYABLE" /\ commission[c].payout = None}

Unsettled == {i \in DOMAIN adjustments : adjustments[i].payout = None}

\* ... reads the payable commissions, ...
ReadPayable(w) ==
    /\ Doing(w, "request")
    /\ Proceed(w, [op |-> "payable", cs |-> PayableUnassigned])
    /\ UNCHANGED <<commission, sale, adjustments, payout, paidOut>>

\* ... then the adjustments, ...
ReadAdjustments(w) ==
    /\ Doing(w, "payable")
    /\ Proceed(w, [op |-> "claim", cs |-> task[w].cs, as |-> Unsettled])
    /\ UNCHANGED <<commission, sale, adjustments, payout, paidOut>>

\* Mutant of AllClaimed: the counts of claimed rows are not compared.
ClaimedUnchecked(cs, as) == TRUE

\* The claims found every row as it was read.
AllClaimed(cs, as) == cs \subseteq PayableUnassigned /\ as \subseteq Unsettled

\* ... and claims them; a claim that misses a row rolls everything back.
ClaimPayout(w) ==
    /\ Doing(w, "claim")
    /\ LET cs == task[w].cs
           as == task[w].as
           total == SumAmounts(cs) + SumAdjustments(as)
       IN
        /\ total > 0 /\ total >= MinimumPayout
        /\ \A c \in cs : ~Locked(c)
        /\ AllClaimed(cs, as)
        /\ \E p \in Payout :
            /\ payout[p].status = "NONE"
            /\ payout' = [payout EXCEPT ![p] = [status |-> "REQUESTED", amount |-> total]]
            /\ commission' = [c \in Commission |->
                   IF c \in cs \cap PayableUnassigned
                   THEN [commission[c] EXCEPT !.payout = p] ELSE commission[c]]
            /\ adjustments' = [i \in DOMAIN adjustments |->
                   IF i \in as \cap Unsettled
                   THEN [adjustments[i] EXCEPT !.payout = p] ELSE adjustments[i]]
    /\ Done(w)
    /\ UNCHANGED <<sale, paidOut>>

ClaimedBy(p) ==
    {c \in Commission : commission[c].payout = p /\ commission[c].status = "PAYABLE"}

SettledBy(p) == {i \in DOMAIN adjustments : adjustments[i].payout = p}

\* loadPayout
ReadPayout(w, p) ==
    /\ payout[p].status # "NONE"
    /\ Begin(w, [op |-> "decision", p |-> p, was |-> payout[p].status])
    /\ UNCHANGED <<commission, sale, adjustments, payout, paidOut>>

\* approvePayout
Approve(w) ==
    /\ Doing(w, "decision") /\ task[w].was = "REQUESTED"
    /\ payout' = [payout EXCEPT ![task[w].p].status = "APPROVED"]
    /\ Done(w)
    /\ UNCHANGED <<commission, sale, adjustments, paidOut>>

\* markPayoutPaid
MarkPaid(w) ==
    /\ Doing(w, "decision") /\ task[w].was = "APPROVED"
    /\ LET p == task[w].p IN
        /\ \A c \in ClaimedBy(p) : ~Locked(c)
        /\ payout' = [payout EXCEPT ![p].status = "PAID"]
        /\ commission' = [c \in Commission |->
               IF c \in ClaimedBy(p) THEN [commission[c] EXCEPT !.status = "PAID"]
               ELSE commission[c]]
        /\ paidOut' = [c \in Commission |->
               IF c \in ClaimedBy(p) THEN paidOut[c] \cup {p} ELSE paidOut[c]]
    /\ Done(w)
    /\ UNCHANGED <<sale, adjustments>>

Decidable == OpenPayout

\* rejectPayout, releasePayoutClaims
Reject(w) ==
    /\ Doing(w, "decision") /\ task[w].was \in Decidable
    /\ LET p == task[w].p IN
        /\ \A c \in ClaimedBy(p) : ~Locked(c)
        /\ commission' = [c \in Commission |->
               IF c \in ClaimedBy(p) THEN [commission[c] EXCEPT !.payout = None]
               ELSE commission[c]]
        /\ adjustments' = [i \in DOMAIN adjustments |->
               IF i \in SettledBy(p) THEN [adjustments[i] EXCEPT !.payout = None]
               ELSE adjustments[i]]
        /\ payout' = [payout EXCEPT ![p].status = "REJECTED"]
    /\ Done(w)
    /\ UNCHANGED <<sale, paidOut>>

\* A transaction rolls back, or staff think better of it.
Abort(w) ==
    /\ task[w] # Idle
    /\ Done(w)
    /\ UNCHANGED <<commission, sale, adjustments, payout, paidOut>>

Refunds(w) ==
    \/ \E c \in Commission : ReadSale(w, c) \/ BeginManual(w, c)
    \/ BeginPart(w) \/ CommitPart(w) \/ BeginRefundAll(w)
    \/ AlreadyReversed(w) \/ MarkReversed(w) \/ CommitReversal(w)

Payouts(w) ==
    \/ BeginRequest(w) \/ ReadPayable(w) \/ ReadAdjustments(w) \/ ClaimPayout(w)
    \/ \E p \in Payout : ReadPayout(w, p)
    \/ Approve(w) \/ MarkPaid(w) \/ Reject(w)

Next ==
    \/ \E c \in Commission : RecordCommission(c) \/ ReleaseHold(c)
    \/ \E amount \in Manual : AdjustBalance(amount)
    \/ \E w \in Worker : Refunds(w) \/ Payouts(w) \/ Abort(w)

Spec == Init /\ [][Next]_vars

-------------------------------------------------------------------------------
(***************************************************************************)
(* Properties.  What balances only while transactions follow one another   *)
(* says ~overlapped.                                                       *)
(***************************************************************************)

\* However transactions overlap, a reversed commission is never released, paid
\* or claimed again, and a paid one can only be reversed (releaseDue,
\* claimCommissions and markPayoutCommissionsPaid against reverseTx).  "This
\* payout is already closed": one at a time, paid and rejected are final too.
ClosedStaysClosed ==
    [][/\ \A c \in Commission :
           /\ commission[c].status = "REVERSED" => commission'[c] = commission[c]
           /\ commission[c].status = "PAID" => commission'[c].status \in {"PAID", "REVERSED"}
       /\ \A p \in Payout : ~overlapped /\ payout[p].status \in {"PAID", "REJECTED"} =>
           payout'[p] = payout[p]
      ]_vars

\* "claiming by id and checking the count rolls the whole request back": a new
\* payout is worth exactly the commissions and adjustments it holds, whoever
\* else requested, reversed or refunded between its reads and its claims.
RequestsHoldWhatTheyAsk ==
    [][\A p \in Payout :
        payout[p].status = "NONE" /\ payout'[p].status = "REQUESTED" =>
            payout'[p].amount = SumAmounts(ClaimedBy(p))' + SumAdjustments(SettledBy(p))'
      ]_vars

\* "repeated part-refunds never take more than their share", also when several
\* are decided from the same stale amount; decided one after another they take
\* exactly the share of the commission that went back of the sale, whatever the
\* amounts and the order (reduceCommissionForPartialRefund).
PartRefundsTakeTheirShare ==
    \A c \in Commission : commission[c].status # "REVERSED" =>
        LET share == ProportionalShare(CommissionAmount(c), sale[c].refunded, Paid[c]) IN
            /\ TakenBack(c) <= share
            /\ ~overlapped => TakenBack(c) = share

\* A reversed commission leaves nothing behind: what was paid out for it and
\* every adjustment to it, before and after the payout, cancel out (reverseTx).
ReversalNetsOut ==
    \A c \in Commission : ~overlapped /\ commission[c].status = "REVERSED" =>
        SumAdjustments({i \in DOMAIN adjustments : adjustments[i].c = c})
            + (IF paidOut[c] # {} THEN CommissionAmount(c) ELSE 0) = 0

\* An open payout is worth the commissions and adjustments it holds, also after
\* some of them left it, and what was sent is what the commissions paid out
\* and the adjustments settled by it were worth.
PayoutsAddUp == ~overlapped =>
    /\ \A p \in Payout : payout[p].status \in OpenPayout =>
           payout[p].amount = SumAmounts(ClaimedBy(p)) + SumAdjustments(SettledBy(p))
    /\ LET sent == {p \in Payout : payout[p].status = "PAID"} IN
           SumOver([p \in Payout |-> payout[p].amount], sent)
             = SumAmounts({c \in Commission : paidOut[c] # {}})
                 + SumAdjustments({i \in DOMAIN adjustments : adjustments[i].payout \in sent})

(***************************************************************************)
(* What comments and documents promise and the code does not keep          *)
(***************************************************************************)

\* "Every included commission was reversed", "rejecting releases everything back
\* to the member": a rejected payout holds no payable commission and no
\* adjustment.
RejectedHoldsNothing ==
    \A p \in Payout : payout[p].status = "REJECTED" =>
        ClaimedBy(p) = {} /\ SettledBy(p) = {}
===============================================================================
