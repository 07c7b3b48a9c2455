-------------------------------- MODULE Wallet --------------------------------
(***************************************************************************)
(* The Coach Wallet: src/src/server/services/wallet.service.ts over        *)
(* src/src/server/repositories/wallet.repository.ts.                       *)
(*                                                                         *)
(* Every operation is one database transaction.  Those that change a       *)
(* coach's money take the coach's advisory lock first, so they are atomic  *)
(* with respect to each other and are single actions here.  Two writers do *)
(* not take it: settlement, which records an earning, and the maintenance  *)
(* pass, which releases holds.  A withdrawal request computes its amount   *)
(* from two statements with a snapshot each, so it is split into a step    *)
(* per statement and the two unlocked writers may run in between.          *)
(***************************************************************************)
EXTENDS CoachShare, Sums, FiniteSets

CONSTANTS
    Coach,              \* users with the COACH role
    Sale,               \* course enrolments that may be paid
    CoachOf,            \* the owner coach of the course sold
    SaleAmount,         \* what the buyer paid, minor units
    Fees,               \* gateway fees that may be reported
    Rates,              \* share rates staff may set, basis points
    RefundParts,        \* amounts of the part-refunds staff may record
    Adjustments,        \* signed amounts of the manual adjustments
    AdjustmentLimit,    \* bound: manual adjustments stay within +/- this
    MinimumWithdrawal,  \* setting coachWallet.minimumWithdrawalMinor
    MaxWithdrawals      \* bound: withdrawal rows per coach

ASSUME WalletAssumption ==
    /\ IsFiniteSet(Sale)
    /\ CoachOf \in [Sale -> Coach]
    /\ SaleAmount \in [Sale -> Nat \ {0}]
    /\ Fees \subseteq Nat
    /\ Rates \subseteq 0..BpsBase
    /\ RefundParts \subseteq Nat \ {0}
    /\ Adjustments \subseteq Int \ {0}
    /\ AdjustmentLimit \in Nat
    /\ MinimumWithdrawal \in Nat
    /\ MaxWithdrawals \in Nat

VARIABLES
    earning,        \* CoachEarning, one row per sale at most
    holdOver,       \* sales whose availableAt has passed
    saleEntries,    \* per sale, the sum of the ledger entries that name it
    payoutEntries,  \* per withdrawal, the sum of the ledger entries that name it
    adjusted,       \* per coach, the sum of the ADJUSTMENT entries
    withdrawal,     \* CoachWithdrawal rows; <<c, n>> is coach c's n-th
    requestAt,      \* how far a withdrawal request of the coach has got
    seen,           \* the amount that request has computed so far
    shareBps,       \* the rate in force: special deal or global setting
    payoutDetails   \* coaches with a payout account on file

vars == <<earning, holdOver, saleEntries, payoutEntries, adjusted, withdrawal,
          requestAt, seen, shareBps, payoutDetails>>

Withdrawal == Coach \X (1..MaxWithdrawals)

EarningStatus ==
    {"NONE", "PENDING_FEE", "ON_HOLD", "AVAILABLE", "WITHDRAWN", "REVERSED"}
WithdrawalStatus == {"NONE", "REQUESTED", "APPROVED", "PAID", "REJECTED"}

\* Amounts that are NULL in the row (the fee is not known) are 0 here.
Earning == [status: EarningStatus, bps: Nat, fee: Nat, coach: Int,
            refunded: Nat, reversed: Int, absorbed: Int, paidAt: Nat]

NoEarning == [status |-> "NONE", bps |-> 0, fee |-> 0, coach |-> 0,
              refunded |-> 0, reversed |-> 0, absorbed |-> 0, paidAt |-> 0]

TypeOK ==
    /\ earning \in [Sale -> Earning]
    /\ holdOver \subseteq Sale
    /\ saleEntries \in [Sale -> Int]
    /\ payoutEntries \in [Withdrawal -> Int]
    /\ adjusted \in [Coach -> Int]
    /\ withdrawal \in
           [Withdrawal -> [status: WithdrawalStatus, amount: Nat]]
    /\ requestAt \in [Coach -> {"idle", "locked", "total", "available"}]
    /\ seen \in [Coach -> Int]
    /\ shareBps \in [Coach -> Nat]
    /\ payoutDetails \subseteq Coach

Init ==
    /\ earning = [s \in Sale |-> NoEarning]
    /\ holdOver = {}
    /\ saleEntries = [s \in Sale |-> 0]
    /\ payoutEntries = [w \in Withdrawal |-> 0]
    /\ adjusted = [c \in Coach |-> 0]
    /\ withdrawal = [w \in Withdrawal |-> [status |-> "NONE", amount |-> 0]]
    /\ requestAt = [c \in Coach |-> "idle"]
    /\ seen = [c \in Coach |-> 0]
    /\ shareBps \in [Coach -> Rates]
    /\ payoutDetails = {}

-------------------------------------------------------------------------------
(***************************************************************************)
(* Balances, always computed from the rows.                                *)
(***************************************************************************)
SalesOf(c) == {s \in Sale : CoachOf[s] = c}
WithdrawalsOf(c) == {c} \X (1..MaxWithdrawals)

LedgerTotal(c) ==
    SumOver(saleEntries, SalesOf(c)) + SumOver(payoutEntries, WithdrawalsOf(c))
        + adjusted[c]

\* What an earning is still worth to the coach.
Worth(s) == earning[s].coach - earning[s].reversed

OnHoldTotal(c) ==
    SumOver([s \in Sale |-> Worth(s)],
            {s \in SalesOf(c) : earning[s].status = "ON_HOLD"})

Available(c) == LedgerTotal(c) - OnHoldTotal(c)

OpenStatus == {"REQUESTED", "APPROVED"}

\* Mutant of HasOpenWithdrawal: an approved request no longer counts.
HasRequestedWithdrawal(c) ==
    \E w \in WithdrawalsOf(c) : withdrawal[w].status = "REQUESTED"

HasOpenWithdrawal(c) ==
    \E w \in WithdrawalsOf(c) : withdrawal[w].status \in OpenStatus

\* Mutant of Unlocked: the other operations do not take the lock.
NeverLocked(c) == TRUE

\* pg_advisory_xact_lock: held by a request until it commits or rolls back.
\* A locked operation waits for it.
Unlocked(c) == requestAt[c] = "idle"

RateFor(c) ==
    IF shareBps[c] <= MaxCoachShareBps THEN shareBps[c] ELSE MaxCoachShareBps
-------------------------------------------------------------------------------
(***************************************************************************)
(* Sales                                                                   *)
(***************************************************************************)

\* Status of an earning whose amounts are known.
HoldStatus(over) == IF over THEN "AVAILABLE" ELSE "ON_HOLD"

Recorded == {s \in Sale : earning[s].status # "NONE"}

RecordedWithFee(s, fee, over) ==
    LET c == CoachPart(SaleAmount[s], fee, RateFor(CoachOf[s])) IN
    /\ earning' = [earning EXCEPT ![s] =
           [@ EXCEPT !.status = HoldStatus(over), !.fee = fee, !.coach = c,
                     !.bps = RateFor(CoachOf[s]),
                     !.paidAt = Cardinality(Recorded) + 1]]
    /\ saleEntries' = [saleEntries EXCEPT ![s] = @ + c]

\* Mutant of RecordedPendingFee: a share is credited before the fee is known.
RecordedEstimate(s) ==
    /\ earning' = [earning EXCEPT ![s] =
           [@ EXCEPT !.status = "PENDING_FEE", !.bps = RateFor(CoachOf[s]),
                     !.paidAt = Cardinality(Recorded) + 1]]
    /\ saleEntries' = [saleEntries EXCEPT
           ![s] = @ + CoachPart(SaleAmount[s], 0, RateFor(CoachOf[s]))]

RecordedPendingFee(s) ==
    /\ earning' = [earning EXCEPT ![s] =
           [@ EXCEPT !.status = "PENDING_FEE", !.bps = RateFor(CoachOf[s]),
                     !.paidAt = Cardinality(Recorded) + 1]]
    /\ UNCHANGED saleEntries

\* recordEarningForPaymentTx: settlement of a paid enrolment.  It takes no
\* lock; a second call for the enrolment finds the row and changes nothing.
\* The hold is over at once only when both settings windows are zero days.
RecordEarning(s) ==
    /\ earning[s].status = "NONE"
    /\ \E over \in BOOLEAN :
        /\ holdOver' = IF over THEN holdOver \cup {s} ELSE holdOver
        /\ \/ RecordedPendingFee(s)
           \/ \E fee \in Fees : /\ fee <= SaleAmount[s]
                               /\ RecordedWithFee(s, fee, over)
    /\ UNCHANGED <<payoutEntries, adjusted, withdrawal, requestAt, seen,
                   shareBps, payoutDetails>>

\* Time passes availableAt = paidAt + refund window + buffer.
HoldEnds(s) ==
    /\ earning[s].status # "NONE"
    /\ s \notin holdOver
    /\ holdOver' = holdOver \cup {s}
    /\ UNCHANGED <<earning, saleEntries, payoutEntries, adjusted, withdrawal,
                   requestAt, seen, shareBps, payoutDetails>>

\* Mutant of LockedRate: the rate in force when the fee arrives.
CurrentRate(s) == RateFor(CoachOf[s])

\* The rate the split of a sale uses: the one kept in its row.
LockedRate(s) == earning[s].bps

\* setFeeTx: staff enter the real fee, or a settlement report names it.
SetFee(s) ==
    /\ Unlocked(CoachOf[s])
    /\ earning[s].status = "PENDING_FEE"
    /\ \E fee \in Fees :
        LET e == earning[s]
            c == CoachPart(SaleAmount[s], fee, LockedRate(s))
            full == e.refunded >= SaleAmount[s]
            reversed == IF full THEN c
                        ELSE ProportionalShare(c, e.refunded, SaleAmount[s])
        IN
        /\ fee <= SaleAmount[s]
        /\ earning' = [earning EXCEPT ![s] =
               [e EXCEPT !.status = IF full THEN "REVERSED"
                                    ELSE HoldStatus(s \in holdOver),
                         !.fee = fee, !.coach = c, !.reversed = reversed,
                         !.absorbed =
                             ProportionalShare(fee, e.refunded, SaleAmount[s])]]
        /\ saleEntries' = [saleEntries EXCEPT
               ![s] = @ + IF full THEN 0 ELSE c - reversed]
    /\ UNCHANGED <<holdOver, payoutEntries, adjusted, withdrawal, requestAt,
                   seen, shareBps, payoutDetails>>

\* Mutant of Due: every earning past its date, whatever its status.
PastDate == {s \in holdOver : earning[s].status # "NONE"}

\* Earnings the maintenance pass may release.
Due == {s \in holdOver : earning[s].status = "ON_HOLD"}

\* releaseDueEarnings: one conditional UPDATE over all coaches, no lock.
ReleaseDue ==
    /\ Due # {}
    /\ earning' = [s \in Sale |->
           IF s \in Due THEN [earning[s] EXCEPT !.status = "AVAILABLE"]
                        ELSE earning[s]]
    /\ UNCHANGED <<holdOver, saleEntries, payoutEntries, adjusted, withdrawal,
                   requestAt, seen, shareBps, payoutDetails>>

\* Mutant of StillToReverse: forgets what earlier refunds took back.
ReverseWholeShare(part, refunded, sale, before) ==
    ProportionalShare(part, refunded, sale)

\* How much of a share a refund takes back, given what it took before.
StillToReverse(part, refunded, sale, before) ==
    LET target == ProportionalShare(part, refunded, sale)
    IN  IF target > before THEN target - before ELSE 0

Remaining(s) == SaleAmount[s] - earning[s].refunded

\* reverseEarningForRefundTx: a refund or chargeback of delta, part or whole.
\* While the fee is unknown only a whole refund is accepted.
ReverseEarning(s, delta) ==
    LET e == earning[s]
        refunded == e.refunded + delta
        full == refunded >= SaleAmount[s]
        dc == StillToReverse(e.coach, refunded, SaleAmount[s], e.reversed)
        df == StillToReverse(e.fee, refunded, SaleAmount[s], e.absorbed)
    IN
    /\ Unlocked(CoachOf[s])
    /\ e.status \notin {"NONE", "REVERSED"}
    /\ delta \in 1..Remaining(s)
    /\ e.status = "PENDING_FEE" => full
    /\ earning' = [earning EXCEPT ![s] =
           [e EXCEPT !.status = IF full THEN "REVERSED" ELSE @,
                     !.refunded = refunded, !.reversed = @ + dc,
                     !.absorbed = @ + df]]
    /\ saleEntries' = [saleEntries EXCEPT ![s] = @ - dc]
    /\ UNCHANGED <<holdOver, payoutEntries, adjusted, withdrawal, requestAt,
                   seen, shareBps, payoutDetails>>

-------------------------------------------------------------------------------
(***************************************************************************)
(* Withdrawals                                                             *)
(***************************************************************************)

\* saveWalletPayoutDetails
SavePayoutDetails(c) ==
    /\ payoutDetails' = payoutDetails \cup {c}
    /\ UNCHANGED <<earning, holdOver, saleEntries, payoutEntries, adjusted,
                   withdrawal, requestAt, seen, shareBps>>

RequestStep(c, from, to, amount) ==
    /\ requestAt[c] = from
    /\ requestAt' = [requestAt EXCEPT ![c] = to]
    /\ seen' = [seen EXCEPT ![c] = amount]

\* requestWithdrawal takes the lock and makes its checks.
BeginRequest(c) ==
    /\ c \in payoutDetails
    /\ ~HasOpenWithdrawal(c)
    /\ RequestStep(c, "idle", "locked", 0)
    /\ UNCHANGED <<earning, holdOver, saleEntries, payoutEntries, adjusted,
                   withdrawal, shareBps, payoutDetails>>

\* balanceFor: the ledger is summed first, then the earnings on hold.
ReadLedgerTotal(c) ==
    /\ RequestStep(c, "locked", "total", LedgerTotal(c))
    /\ UNCHANGED <<earning, holdOver, saleEntries, payoutEntries, adjusted,
                   withdrawal, shareBps, payoutDetails>>

ReadOnHold(c) ==
    /\ RequestStep(c, "total", "available", seen[c] - OnHoldTotal(c))
    /\ UNCHANGED <<earning, holdOver, saleEntries, payoutEntries, adjusted,
                   withdrawal, shareBps, payoutDetails>>

\* There is something to withdraw, and it is at or above the minimum.
Payable(c) == seen[c] \in Nat \ {0} /\ seen[c] >= MinimumWithdrawal

\* The whole available balance is asked for and leaves the ledger at once.
CreateWithdrawal(c) ==
    /\ Payable(c)
    /\ \E w \in WithdrawalsOf(c) :
        /\ withdrawal[w].status = "NONE"
        /\ withdrawal' = [withdrawal EXCEPT ![w] =
               [status |-> "REQUESTED", amount |-> seen[c]]]
        /\ payoutEntries' = [payoutEntries EXCEPT ![w] = @ - seen[c]]
    /\ RequestStep(c, "available", "idle", 0)
    /\ UNCHANGED <<earning, holdOver, saleEntries, adjusted, shareBps,
                   payoutDetails>>

\* The balance is too small, or the transaction is lost: it rolls back.
AbandonRequest(c) ==
    /\ requestAt[c] # "idle"
    /\ RequestStep(c, requestAt[c], "idle", 0)
    /\ UNCHANGED <<earning, holdOver, saleEntries, payoutEntries, adjusted,
                   withdrawal, shareBps, payoutDetails>>

AvailableSales(c) == {s \in SalesOf(c) : earning[s].status = "AVAILABLE"}

\* The n-th sale paid, if it is an available earning of the coach that what is
\* left of the amount still covers whole.
Covered(c, n, left) ==
    {s \in AvailableSales(c) : earning[s].paidAt = n /\ Worth(s) \in 1..left}

\* What is left of the amount once the first n sales have been looked at.
LeftAfter(c, amount) ==
    LET left[n \in 0..Cardinality(Sale)] ==
            IF n = 0 THEN amount
            ELSE left[n - 1] - SumOver([s \in Sale |-> Worth(s)],
                                       Covered(c, n, left[n - 1]))
    IN  left

\* Mutant of MarkWithdrawnUpTo: the amount is not counted down.
MarkAllAvailable(c, amount) == AvailableSales(c)

\* markWithdrawnUpTo: oldest available earnings first, each marked while what
\* is left of the amount still covers it whole.
MarkWithdrawnUpTo(c, amount) ==
    LET left == LeftAfter(c, amount)
    IN  UNION {Covered(c, n, left[n - 1]) : n \in 1..Cardinality(Sale)}

\* decideWithdrawal, outcome APPROVED
ApproveWithdrawal(w) ==
    /\ Unlocked(w[1])
    /\ withdrawal[w].status = "REQUESTED"
    /\ withdrawal' = [withdrawal EXCEPT ![w].status = "APPROVED"]
    /\ UNCHANGED <<earning, holdOver, saleEntries, payoutEntries, adjusted,
                   requestAt, seen, shareBps, payoutDetails>>

\* decideWithdrawal, outcome PAID
PayWithdrawal(w) ==
    /\ Unlocked(w[1])
    /\ withdrawal[w].status \in OpenStatus
    /\ withdrawal' = [withdrawal EXCEPT ![w].status = "PAID"]
    /\ LET marked == MarkWithdrawnUpTo(w[1], withdrawal[w].amount) IN
        earning' = [s \in Sale |->
            IF s \in marked THEN [earning[s] EXCEPT !.status = "WITHDRAWN"]
                            ELSE earning[s]]
    /\ UNCHANGED <<holdOver, saleEntries, payoutEntries, adjusted, requestAt,
                   seen, shareBps, payoutDetails>>

\* decideWithdrawal, outcome REJECTED: the amount goes back to the ledger.
RejectWithdrawal(w) ==
    /\ Unlocked(w[1])
    /\ withdrawal[w].status \in OpenStatus
    /\ withdrawal' = [withdrawal EXCEPT ![w].status = "REJECTED"]
    /\ payoutEntries' = [payoutEntries EXCEPT ![w] = @ + withdrawal[w].amount]
    /\ UNCHANGED <<earning, holdOver, saleEntries, adjusted, requestAt, seen,
                   shareBps, payoutDetails>>

-------------------------------------------------------------------------------
(***************************************************************************)
(* Staff                                                                   *)
(***************************************************************************)

\* adjustWallet
AdjustWallet(c) ==
    /\ Unlocked(c)
    /\ \E a \in Adjustments :
        /\ adjusted[c] + a \in -AdjustmentLimit..AdjustmentLimit
        /\ adjusted' = [adjusted EXCEPT ![c] = @ + a]
    /\ UNCHANGED <<earning, holdOver, saleEntries, payoutEntries, withdrawal,
                   requestAt, seen, shareBps, payoutDetails>>

\* setCoachShareOverride, clearCoachShareOverride, updateWalletSettings: the
\* rate that new sales of this coach will get.  No lock.
SetCoachShare(c) ==
    /\ \E bps \in Rates : shareBps' = [shareBps EXCEPT ![c] = bps]
    /\ UNCHANGED <<earning, holdOver, saleEntries, payoutEntries, adjusted,
                   withdrawal, requestAt, seen, payoutDetails>>

-------------------------------------------------------------------------------
RefundDeltas(s) == RefundParts \cup {Remaining(s)}

Next ==
    \/ \E s \in Sale :
        \/ RecordEarning(s)
        \/ HoldEnds(s)
        \/ SetFee(s)
        \/ \E delta \in RefundDeltas(s) : ReverseEarning(s, delta)
    \/ ReleaseDue
    \/ \E c \in Coach :
        \/ SavePayoutDetails(c)
        \/ BeginRequest(c)
        \/ ReadLedgerTotal(c)
        \/ ReadOnHold(c)
        \/ CreateWithdrawal(c)
        \/ AbandonRequest(c)
        \/ AdjustWallet(c)
        \/ SetCoachShare(c)
    \/ \E w \in Withdrawal :
        \/ ApproveWithdrawal(w)
        \/ PayWithdrawal(w)
        \/ RejectWithdrawal(w)

Spec == Init /\ [][Next]_vars
-------------------------------------------------------------------------------
(***************************************************************************)
(* Properties                                                              *)
(***************************************************************************)

\* The gateway fee of the sale is known and its parts have been computed; a
\* sale refunded whole while its fee was unknown never gets there.
FeeKnown(s) ==
    \/ earning[s].status \in {"ON_HOLD", "AVAILABLE", "WITHDRAWN"}
    \/ earning[s].status = "REVERSED" /\ earning[s].coach # 0

\* The append-only ledger and the rows it was written beside never drift
\* apart: what the ledger holds for a sale is what the coach was credited
\* minus what refunds took back, and what it holds for a withdrawal is the
\* amount taken out, or nothing once the withdrawal was declined.
LedgerMatchesRows ==
    /\ \A s \in Sale : saleEntries[s] = Worth(s)
    /\ \A w \in Withdrawal :
          payoutEntries[w] =
              IF withdrawal[w].status \in {"REQUESTED", "APPROVED", "PAID"}
              THEN -withdrawal[w].amount ELSE 0

\* A coach never has two withdrawals in progress, whatever the order of
\* requests and staff decisions ("one open request per coach").
AtMostOneOpenWithdrawal ==
    \A v, w \in Withdrawal :
        /\ v[1] = w[1]
        /\ withdrawal[v].status \in OpenStatus
        /\ withdrawal[w].status \in OpenStatus
        => v = w

\* A series of part-refunds takes back exactly what one refund of the same
\* total would: neither the coach's part nor the absorbed fee drifts through
\* rounding, and a coach never gives back more than was credited.
RefundsTelescope ==
    \A s \in Sale :
        LET e == earning[s] IN
        e.status # "NONE" =>
            /\ e.reversed = ProportionalShare(e.coach, e.refunded, SaleAmount[s])
            /\ e.absorbed = ProportionalShare(e.fee, e.refunded, SaleAmount[s])
            /\ e.reversed \in 0..e.coach

\* The split of a sale is the one at the rate in force when it was paid, even
\* when the fee that makes it computable arrives after the rate was changed,
\* and the parts add up to the net of the sale with at most the capped share
\* going to the coach.
SplitLockedAtSale ==
    \A s \in Sale :
        LET e == earning[s] IN
        e.coach # 0 =>
            /\ e.coach = CoachPart(SaleAmount[s], e.fee, e.bps)
            /\ e.bps <= MaxCoachShareBps
            /\ BpsBase * e.coach <= MaxCoachShareBps * (SaleAmount[s] - e.fee)

\* Earnings marked withdrawn are covered by money actually paid out.
WithdrawnIsPaid ==
    \A c \in Coach :
        SumOver([s \in Sale |-> Worth(s)],
                {s \in SalesOf(c) : earning[s].status = "WITHDRAWN"})
          <= SumOver([w \in Withdrawal |-> withdrawal[w].amount],
                     {w \in WithdrawalsOf(c) : withdrawal[w].status = "PAID"})

\* Mutant of PlatformNet: the absorbed gateway fee is left out.
PlatformNetBeforeFee(s) ==
    LET e == earning[s]
        platform == PlatformPart(SaleAmount[s], e.fee, e.bps)
    IN  platform - ProportionalShare(platform, e.refunded, SaleAmount[s])

\* platformRevenueReport, one sale, before the affiliate commission (which
\* the report subtracts and the platform pays out, so it cancels).
PlatformNet(s) ==
    LET e == earning[s]
        platform == PlatformPart(SaleAmount[s], e.fee, e.bps)
    IN  platform - ProportionalShare(platform, e.refunded, SaleAmount[s])
            - e.absorbed

\* The revenue report agrees with the money: what is left of the sale after
\* refunds goes to the gateway, the coach and the platform, and rounding
\* makes the report at most two minor units too high per sale, none once the
\* sale is refunded whole.
RevenueReconciles ==
    \A s \in Sale :
        LET e == earning[s]
            left == SaleAmount[s] - e.refunded - e.fee - Worth(s)
        IN  FeeKnown(s) =>
                /\ PlatformNet(s) - left \in 0..2
                /\ e.refunded = SaleAmount[s] => PlatformNet(s) = left

\* The states an earning may move through; a reversed one never comes back,
\* although the pass that releases holds runs beside refunds without a lock.
EarningMoves ==
    {<<"NONE", "PENDING_FEE">>, <<"NONE", "ON_HOLD">>, <<"NONE", "AVAILABLE">>,
     <<"PENDING_FEE", "ON_HOLD">>, <<"PENDING_FEE", "AVAILABLE">>,
     <<"PENDING_FEE", "REVERSED">>, <<"ON_HOLD", "AVAILABLE">>,
     <<"ON_HOLD", "REVERSED">>, <<"AVAILABLE", "WITHDRAWN">>,
     <<"AVAILABLE", "REVERSED">>, <<"WITHDRAWN", "REVERSED">>}

EarningLifecycle ==
    [][\A s \in Sale :
         earning'[s].status # earning[s].status =>
             <<earning[s].status, earning'[s].status>> \in EarningMoves]_vars

\* The wallet implements the account it promises: although a request adds up
\* its amount from two snapshots while sales and releases go on, it never
\* takes more than what is available when it commits.
AmountIn(c, statuses) ==
    SumOver([w \in Withdrawal |-> withdrawal[w].amount],
            {w \in WithdrawalsOf(c) : withdrawal[w].status \in statuses})

Promise == INSTANCE Account WITH
    Holder <- Coach,
    available <- [c \in Coach |-> Available(c)],
    outstanding <- [c \in Coach |-> AmountIn(c, OpenStatus)],
    paidOut <- [c \in Coach |-> AmountIn(c, {"PAID"})]

ImplementsAccount == Promise!Spec
===============================================================================
