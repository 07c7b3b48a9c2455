----------------------------- MODULE WalletProofs -----------------------------
(***************************************************************************)
(* Theorems about Wallet for every set of coaches and sales, every amount, *)
(* fee, rate and bound.                                                    *)
(***************************************************************************)
EXTENDS Wallet, MoneyProofs, TLAPS

LEMMA StillToReverseType ==
    ASSUME NEW sale \in Nat \ {0}, NEW part \in Int, NEW refunded \in Nat,
           NEW before \in Int
    PROVE  StillToReverse(part, refunded, sale, before) \in Int
  BY ProportionalShareType DEF StillToReverse

\* The rank given to a new earning is a natural number.
LEMMA RankType == Cardinality(Recorded) + 1 \in Nat
  <1>1. IsFiniteSet(Recorded)
    BY WalletAssumption, FS_Subset DEF Recorded
  <1>2. QED
    BY <1>1, FS_CardinalityType

LEMMA RateType ==
    ASSUME TypeOK, NEW c \in Coach
    PROVE  RateFor(c) \in Nat
  BY DEF TypeOK, RateFor, MaxCoachShareBps

\* The three ways the operations rewrite an earning's row keep it well-typed.
LEMMA StatusUpdate ==
    ASSUME NEW e \in Earning, NEW status \in EarningStatus
    PROVE  [e EXCEPT !.status = status] \in Earning
  BY DEF Earning

LEMMA SplitUpdate ==
    ASSUME NEW e \in Earning, NEW status \in EarningStatus, NEW fee \in Nat,
           NEW c \in Int, NEW r \in Int, NEW a \in Int
    PROVE  [e EXCEPT !.status = status, !.fee = fee, !.coach = c,
                     !.reversed = r, !.absorbed = a] \in Earning
  BY DEF Earning

LEMMA RefundUpdate ==
    ASSUME NEW e \in Earning, NEW status \in EarningStatus,
           NEW refunded \in Nat, NEW dc \in Int, NEW df \in Int
    PROVE  [e EXCEPT !.status = status, !.refunded = refunded,
                     !.reversed = @ + dc, !.absorbed = @ + df] \in Earning
  <1> DEFINE r == e.reversed + dc
             a == e.absorbed + df
  <1>1. r \in Int /\ a \in Int
    BY DEF Earning
  <1> HIDE DEF r, a
  <1>2. [e EXCEPT !.status = status, !.refunded = refunded,
                  !.reversed = r, !.absorbed = a] \in Earning
    BY <1>1 DEF Earning
  <1>3. QED
    BY <1>2 DEF r, a

-------------------------------------------------------------------------------
(***************************************************************************)
(* Balances as sums over the rows of a coach.                              *)
(***************************************************************************)
\* What rows worth f, payouts p and adjustments a leave a coach: both balances have
\* this form.
Balance(f, p, a, c) == SumOver(f, SalesOf(c)) + SumOver(p, WithdrawalsOf(c)) + a[c]

LEMMA RowsFinite == ASSUME NEW c \in Coach
                    PROVE /\ IsFiniteSet(SalesOf(c)) /\ SalesOf(c) \subseteq Sale
                          /\ IsFiniteSet(WithdrawalsOf(c)) /\ WithdrawalsOf(c) \subseteq Withdrawal
<1>1. IsFiniteSet(SalesOf(c)) /\ SalesOf(c) \subseteq Sale
  BY WalletAssumption, FS_Subset DEF SalesOf
<1>2. IsFiniteSet({c}) /\ IsFiniteSet(1..MaxWithdrawals)
  <2>1. 1 \in Int /\ MaxWithdrawals \in Int
    BY WalletAssumption
  <2>2. IsFiniteSet({c})
    BY FS_Singleton
  <2>3. IsFiniteSet(1..MaxWithdrawals)
    BY <2>1, FS_Interval
  <2> QED
    BY <2>2, <2>3
<1>3. IsFiniteSet(WithdrawalsOf(c))
  BY <1>2, FS_Product DEF WithdrawalsOf
<1> QED
  BY <1>1, <1>3 DEF WithdrawalsOf, Withdrawal

LEMMA BalanceType ==
    ASSUME NEW c \in Coach, NEW f \in [Sale -> Int], NEW p \in [Withdrawal -> Int],
           NEW a \in [Coach -> Int]
    PROVE /\ SumOver(f, SalesOf(c)) \in Int /\ SumOver(p, WithdrawalsOf(c)) \in Int
          /\ Balance(f, p, a, c) \in Int
<1>1. SumOver(f, SalesOf(c)) \in Int
  BY RowsFinite, SumInt
<1>2. SumOver(p, WithdrawalsOf(c)) \in Int
  BY RowsFinite, SumInt
<1> QED
  BY <1>1, <1>2 DEF Balance

\* Rows that are worth more leave more.
LEMMA BalanceGrows ==
    ASSUME NEW c \in Coach, NEW f \in [Sale -> Int], NEW g \in [Sale -> Int],
           NEW p \in [Withdrawal -> Int], NEW a \in [Coach -> Int],
           \A s \in SalesOf(c) : f[s] <= g[s]
    PROVE Balance(f, p, a, c) <= Balance(g, p, a, c)
<1>1. SumOver(f, SalesOf(c)) <= SumOver(g, SalesOf(c))
  BY RowsFinite, SumGrows
<1> QED
  BY <1>1, BalanceType DEF Balance

\* What changes nothing of a coach leaves the balance alone.
LEMMA BalanceSame ==
    ASSUME NEW c \in Coach, NEW f \in [Sale -> Int], NEW g \in [Sale -> Int],
           NEW p \in [Withdrawal -> Int], NEW q \in [Withdrawal -> Int],
           NEW a \in [Coach -> Int], NEW b \in [Coach -> Int],
           \A s \in SalesOf(c) : f[s] = g[s],
           \A w \in WithdrawalsOf(c) : p[w] = q[w], a[c] = b[c]
    PROVE Balance(f, p, a, c) = Balance(g, q, b, c)
<1>1. SumOver(f, SalesOf(c)) = SumOver(g, SalesOf(c))
  BY RowsFinite, SumSame
<1>2. SumOver(p, WithdrawalsOf(c)) = SumOver(q, WithdrawalsOf(c))
  BY RowsFinite, SumSame
<1> QED
  BY <1>1, <1>2 DEF Balance

\* One payout row changes.
LEMMA BalancePayout ==
    ASSUME NEW c \in Coach, NEW f \in [Sale -> Int],
           NEW p \in [Withdrawal -> Int], NEW q \in [Withdrawal -> Int],
           NEW a \in [Coach -> Int], NEW v \in WithdrawalsOf(c),
           \A w \in WithdrawalsOf(c) \ {v} : p[w] = q[w]
    PROVE Balance(f, q, a, c) = Balance(f, p, a, c) - p[v] + q[v]
<1>1. SumOver(q, WithdrawalsOf(c)) = SumOver(p, WithdrawalsOf(c)) - p[v] + q[v]
  BY RowsFinite, SumChange
<1>2. p[v] \in Int /\ q[v] \in Int /\ a[c] \in Int
  BY RowsFinite
<1> QED
  BY <1>1, <1>2, BalanceType DEF Balance

\* What is not on hold of a sale, and a withdrawal's amount while it counts.
FreeOf == [s \in Sale |-> IF earning[s].status = "ON_HOLD" THEN 0 ELSE Worth(s)]
HeldOf == [s \in Sale |-> IF earning[s].status = "ON_HOLD" THEN Worth(s) ELSE 0]
CountedIn(statuses) ==
    [w \in Withdrawal |-> IF withdrawal[w].status \in statuses THEN withdrawal[w].amount ELSE 0]

LEMMA WorthType == ASSUME TypeOK, NEW s \in Sale PROVE Worth(s) \in Int
BY DEF TypeOK, Worth, Earning

LEMMA FreeType == ASSUME TypeOK PROVE FreeOf \in [Sale -> Int] /\ HeldOf \in [Sale -> Int]
<1>1. \A s \in Sale : Worth(s) \in Int
  BY WorthType
<1> QED
  BY <1>1 DEF FreeOf, HeldOf

LEMMA OnHoldIs == ASSUME TypeOK, NEW c \in Coach
                  PROVE OnHoldTotal(c) = SumOver(HeldOf, SalesOf(c))
<1> DEFINE f == [s \in Sale |-> Worth(s)]
           R == {s \in SalesOf(c) : earning[s].status = "ON_HOLD"}
<1>1. \A s \in SalesOf(c) : f[s] \in Int /\ HeldOf[s] = IF s \in R THEN f[s] ELSE 0
  BY WorthType, RowsFinite DEF HeldOf
<1>2. R \in SUBSET SalesOf(c)
  OBVIOUS
<1>3. OnHoldTotal(c) = SumOver(f, R)
  BY DEF OnHoldTotal
<1> HIDE DEF f, R
<1> QED
  BY <1>1, <1>2, <1>3, RowsFinite, SumFilter

LEMMA AvailableIs == ASSUME TypeOK, LedgerMatchesRows, NEW c \in Coach
                     PROVE /\ Available(c) = Balance(FreeOf, payoutEntries, adjusted, c)
                           /\ LedgerTotal(c) = Balance(saleEntries, payoutEntries, adjusted, c)
                           /\ Available(c) \in Int /\ LedgerTotal(c) \in Int
                           /\ OnHoldTotal(c) \in Int
<1>1. \A s \in SalesOf(c) : /\ FreeOf[s] \in Int /\ HeldOf[s] \in Int
                            /\ saleEntries[s] = FreeOf[s] + HeldOf[s]
  BY WorthType, RowsFinite DEF FreeOf, HeldOf, LedgerMatchesRows
<1>2. SumOver(saleEntries, SalesOf(c)) = SumOver(FreeOf, SalesOf(c)) + SumOver(HeldOf, SalesOf(c))
  BY <1>1, RowsFinite, SumPlus
<1>3. LedgerTotal(c) = Balance(saleEntries, payoutEntries, adjusted, c)
  BY DEF LedgerTotal, Balance
<1>4. OnHoldTotal(c) = SumOver(HeldOf, SalesOf(c))
  BY OnHoldIs
<1>5. /\ saleEntries \in [Sale -> Int] /\ payoutEntries \in [Withdrawal -> Int]
      /\ adjusted \in [Coach -> Int]
  BY DEF TypeOK
<1>6. /\ SumOver(FreeOf, SalesOf(c)) \in Int /\ SumOver(HeldOf, SalesOf(c)) \in Int
      /\ SumOver(payoutEntries, WithdrawalsOf(c)) \in Int /\ adjusted[c] \in Int
      /\ LedgerTotal(c) \in Int
  BY <1>3, <1>5, FreeType, BalanceType
<1>7. Available(c) = Balance(FreeOf, payoutEntries, adjusted, c)
  BY <1>2, <1>3, <1>4, <1>6 DEF Available, Balance
<1> QED
  BY <1>3, <1>4, <1>6, <1>7 DEF Balance

LEMMA AmountIs == ASSUME TypeOK, NEW c \in Coach, NEW statuses
                  PROVE /\ AmountIn(c, statuses) = SumOver(CountedIn(statuses), WithdrawalsOf(c))
                        /\ CountedIn(statuses) \in [Withdrawal -> Nat]
<1> DEFINE f == [w \in Withdrawal |-> withdrawal[w].amount]
           R == {w \in WithdrawalsOf(c) : withdrawal[w].status \in statuses}
           g == CountedIn(statuses)
<1>1. \A w \in Withdrawal : withdrawal[w].amount \in Nat
  BY DEF TypeOK
<1>2. g \in [Withdrawal -> Nat]
  BY <1>1 DEF CountedIn
<1>3. \A w \in WithdrawalsOf(c) : f[w] \in Int /\ g[w] = IF w \in R THEN f[w] ELSE 0
  BY <1>1, RowsFinite DEF CountedIn
<1>4. R \in SUBSET WithdrawalsOf(c)
  OBVIOUS
<1>5. AmountIn(c, statuses) = SumOver(f, R)
  BY DEF AmountIn
<1>6. SumOver(f, R) = SumOver(g, WithdrawalsOf(c))
  <2> HIDE DEF f, R, g
  <2> QED
    BY <1>3, <1>4, RowsFinite, SumFilter
<1> QED
  BY <1>2, <1>5, <1>6

-------------------------------------------------------------------------------
\* Every variable keeps its type: no operation writes a status, a fee or a
\* counter outside its column's range, whatever the amounts.
THEOREM TypeCorrect == Spec => []TypeOK
<1>1. Init => TypeOK
  <2>1. NoEarning \in Earning
    BY DEF NoEarning, Earning, EarningStatus
  <2>2. Rates \subseteq Nat
    BY WalletAssumption DEF BpsBase
  <2>3. ASSUME Init
        PROVE  shareBps \in [Coach -> Nat]
    BY <2>2, <2>3 DEF Init
  <2>4. QED
    BY <2>1, <2>3 DEF Init, TypeOK, WithdrawalStatus
<1>2. TypeOK /\ [Next]_vars => TypeOK'
  <2> SUFFICES ASSUME TypeOK, [Next]_vars
               PROVE  TypeOK'
    OBVIOUS
  <2> USE WalletAssumption
  <2>0. Rates \subseteq Nat
    BY DEF BpsBase
  <2>1. ASSUME NEW s \in Sale, RecordEarning(s)
        PROVE  TypeOK'
    <3>0. /\ RateFor(CoachOf[s]) \in Nat
          /\ Cardinality(Recorded) + 1 \in Nat
          /\ earning[s] \in Earning
      BY RateType, RankType DEF TypeOK
    <3>1. CASE RecordedPendingFee(s)
      <4>1. [earning[s] EXCEPT !.status = "PENDING_FEE",
                               !.bps = RateFor(CoachOf[s]),
                               !.paidAt = Cardinality(Recorded) + 1] \in Earning
        BY <3>0 DEF Earning, EarningStatus
      <4>2. earning' \in [Sale -> Earning]
        BY <3>1, <4>1 DEF TypeOK, RecordedPendingFee
      <4>3. QED
        BY <2>1, <3>1, <4>2 DEF TypeOK, RecordEarning, RecordedPendingFee
    <3>2. ASSUME NEW fee \in Fees, NEW over \in BOOLEAN,
                 RecordedWithFee(s, fee, over)
          PROVE  TypeOK'
      <4>1. CoachPart(SaleAmount[s], fee, RateFor(CoachOf[s])) \in Int
        BY <3>0, CoachPartType
      <4>2. HoldStatus(over) \in EarningStatus
        BY DEF HoldStatus, EarningStatus
      <4> DEFINE c == CoachPart(SaleAmount[s], fee, RateFor(CoachOf[s]))
                 row == [earning[s] EXCEPT
                            !.status = HoldStatus(over), !.fee = fee,
                            !.coach = c, !.bps = RateFor(CoachOf[s]),
                            !.paidAt = Cardinality(Recorded) + 1]
      <4>5. /\ earning' = [earning EXCEPT ![s] = row]
            /\ saleEntries' = [saleEntries EXCEPT ![s] = @ + c]
        BY <3>2 DEF RecordedWithFee
      <4>6. row \in Earning
        <5> HIDE DEF c
        <5>1. QED
          BY <3>0, <4>1, <4>2 DEF Earning, c
      <4> HIDE DEF row, c
      <4>3. /\ earning' \in [Sale -> Earning]
            /\ saleEntries' \in [Sale -> Int]
        BY <4>1, <4>5, <4>6 DEF TypeOK, c
      <4>4. QED
        BY <2>1, <4>3 DEF TypeOK, RecordEarning
    <3>3. QED
      BY <2>1, <3>1, <3>2 DEF RecordEarning
  <2>2. ASSUME NEW s \in Sale, HoldEnds(s)
        PROVE  TypeOK'
    BY <2>2 DEF TypeOK, HoldEnds
  <2>3. ASSUME NEW s \in Sale, SetFee(s)
        PROVE  TypeOK'
    <3>1. PICK fee \in Fees : SetFee(s)!3!(fee)
      BY <2>3 DEF SetFee
    <3> DEFINE e == earning[s]
               c == CoachPart(SaleAmount[s], fee, LockedRate(s))
               full == e.refunded >= SaleAmount[s]
               reversed == IF full THEN c
                           ELSE ProportionalShare(c, e.refunded, SaleAmount[s])
    <3>2. /\ e \in Earning
          /\ fee \in Nat
          /\ SaleAmount[s] \in Nat \ {0}
      BY DEF TypeOK
    <3>3. c \in Int
      BY <3>2, CoachPartType DEF LockedRate, Earning
    <3>4. /\ reversed \in Int
          /\ ProportionalShare(fee, e.refunded, SaleAmount[s]) \in Int
      <4>1. e.refunded \in Nat
        BY <3>2 DEF Earning
      <4> HIDE DEF c, full
      <4>2. ProportionalShare(c, e.refunded, SaleAmount[s]) \in Int
        BY <3>2, <3>3, <4>1, ProportionalShareType
      <4>3. ProportionalShare(fee, e.refunded, SaleAmount[s]) \in Int
        BY <3>2, <4>1, ProportionalShareType
      <4>4. QED
        BY <3>3, <4>2, <4>3
    <3>5. HoldStatus(s \in holdOver) \in EarningStatus
      BY DEF HoldStatus, EarningStatus
    <3>6. /\ earning' = [earning EXCEPT ![s] =
               [e EXCEPT !.status = IF full THEN "REVERSED"
                                    ELSE HoldStatus(s \in holdOver),
                         !.fee = fee, !.coach = c, !.reversed = reversed,
                         !.absorbed =
                             ProportionalShare(fee, e.refunded, SaleAmount[s])]]
          /\ saleEntries' = [saleEntries EXCEPT
               ![s] = @ + IF full THEN 0 ELSE c - reversed]
      BY <3>1
    <3> HIDE DEF c, full, reversed
    <3>7. earning' \in [Sale -> Earning]
      <4>1. (IF full THEN "REVERSED" ELSE HoldStatus(s \in holdOver))
              \in EarningStatus
        BY <3>5 DEF EarningStatus
      <4>2. QED
        BY <3>2, <3>3, <3>4, <3>6, <4>1, SplitUpdate DEF TypeOK
    <3>8. saleEntries' \in [Sale -> Int]
      BY <3>3, <3>4, <3>6 DEF TypeOK
    <3>9. QED
      BY <2>3, <3>7, <3>8 DEF TypeOK, SetFee
  <2>4. ASSUME NEW s \in Sale, NEW delta \in RefundDeltas(s),
               ReverseEarning(s, delta)
        PROVE  TypeOK'
    <3> DEFINE e == earning[s]
               refunded == e.refunded + delta
               full == refunded >= SaleAmount[s]
               dc == StillToReverse(e.coach, refunded, SaleAmount[s], e.reversed)
               df == StillToReverse(e.fee, refunded, SaleAmount[s], e.absorbed)
    <3>1. /\ e \in Earning
          /\ SaleAmount[s] \in Nat \ {0}
          /\ delta \in 1..(SaleAmount[s] - e.refunded)
          /\ refunded \in Nat
      <4>1. e \in Earning /\ SaleAmount[s] \in Nat \ {0}
        BY DEF TypeOK
      <4>2. delta \in 1..(SaleAmount[s] - e.refunded)
        BY <2>4 DEF ReverseEarning, Remaining
      <4>3. e.refunded \in Nat
        BY <4>1 DEF Earning
      <4>4. QED
        BY <4>1, <4>2, <4>3
    <3>2. /\ dc \in Int
          /\ df \in Int
      <4>1. /\ e.coach \in Int /\ e.fee \in Int
            /\ e.reversed \in Int /\ e.absorbed \in Int
        BY <3>1 DEF Earning
      <4> HIDE DEF refunded
      <4>2. QED
        BY <3>1, <4>1, StillToReverseType
    <3>3. /\ earning' = [earning EXCEPT ![s] =
               [e EXCEPT !.status = IF full THEN "REVERSED" ELSE @,
                         !.refunded = refunded, !.reversed = @ + dc,
                         !.absorbed = @ + df]]
          /\ saleEntries' = [saleEntries EXCEPT ![s] = @ - dc]
      BY <2>4 DEF ReverseEarning
    <3> HIDE DEF full, refunded, dc, df
    <3>4. earning' \in [Sale -> Earning]
      <4> DEFINE status == IF full THEN "REVERSED" ELSE e.status
      <4>1. status \in EarningStatus
        BY <3>1 DEF Earning, EarningStatus
      <4> HIDE DEF status
      <4>2. [e EXCEPT !.status = status, !.refunded = refunded,
                      !.reversed = @ + dc, !.absorbed = @ + df] \in Earning
        BY <3>1, <3>2, <4>1, RefundUpdate
      <4>3. QED
        BY <3>3, <4>2 DEF TypeOK, status
    <3>5. saleEntries' \in [Sale -> Int]
      BY <3>2, <3>3 DEF TypeOK
    <3>6. QED
      BY <2>4, <3>4, <3>5 DEF TypeOK, ReverseEarning
  <2>5. CASE ReleaseDue
    <3>1. "AVAILABLE" \in EarningStatus
      BY DEF EarningStatus
    <3>2. QED
      BY <2>5, <3>1, StatusUpdate DEF TypeOK, ReleaseDue
  <2>6. ASSUME NEW c \in Coach,
               \/ SavePayoutDetails(c) \/ BeginRequest(c)
               \/ ReadLedgerTotal(c) \/ ReadOnHold(c) \/ AbandonRequest(c)
        PROVE  TypeOK'
    <3>1. /\ LedgerTotal(c) \in Int /\ seen[c] - OnHoldTotal(c) \in Int
      <4>1. /\ saleEntries \in [Sale -> Int] /\ payoutEntries \in [Withdrawal -> Int]
            /\ adjusted \in [Coach -> Int] /\ seen[c] \in Int
        BY DEF TypeOK
      <4>2. OnHoldTotal(c) \in Int
        BY OnHoldIs, FreeType, RowsFinite, SumInt
      <4>3. LedgerTotal(c) \in Int
        BY <4>1, BalanceType DEF LedgerTotal, Balance
      <4> QED
        BY <4>1, <4>2, <4>3
    <3> QED
      BY <2>6, <3>1
      DEF TypeOK, SavePayoutDetails, BeginRequest, ReadLedgerTotal, ReadOnHold,
          AbandonRequest, RequestStep
  <2>7. ASSUME NEW c \in Coach, CreateWithdrawal(c)
        PROVE  TypeOK'
    <3>1. seen[c] \in Nat
      BY <2>7 DEF CreateWithdrawal, Payable
    <3>2. PICK w \in WithdrawalsOf(c) :
             /\ withdrawal' = [withdrawal EXCEPT ![w] =
                    [status |-> "REQUESTED", amount |-> seen[c]]]
             /\ payoutEntries' = [payoutEntries EXCEPT ![w] = @ - seen[c]]
      BY <2>7 DEF CreateWithdrawal
    <3>3. w \in Withdrawal
      BY <3>2 DEF WithdrawalsOf, Withdrawal
    <3>4. /\ withdrawal' \in
                [Withdrawal -> [status: WithdrawalStatus, amount: Nat]]
          /\ payoutEntries' \in [Withdrawal -> Int]
      BY <3>1, <3>2, <3>3 DEF TypeOK, WithdrawalStatus
    <3>5. QED
      BY <2>7, <3>4 DEF TypeOK, CreateWithdrawal, RequestStep
  <2>8. ASSUME NEW c \in Coach, AdjustWallet(c)
        PROVE  TypeOK'
    BY <2>8 DEF TypeOK, AdjustWallet
  <2>9. ASSUME NEW c \in Coach, SetCoachShare(c)
        PROVE  TypeOK'
    BY <2>0, <2>9 DEF TypeOK, SetCoachShare
  <2>10. ASSUME NEW w \in Withdrawal, ApproveWithdrawal(w)
         PROVE  TypeOK'
    BY <2>10 DEF TypeOK, ApproveWithdrawal, WithdrawalStatus
  <2>11. ASSUME NEW w \in Withdrawal, PayWithdrawal(w)
         PROVE  TypeOK'
    <3>1. earning' \in [Sale -> Earning]
      <4>1. "WITHDRAWN" \in EarningStatus
        BY DEF EarningStatus
      <4>2. QED
        BY <2>11, <4>1, StatusUpdate DEF TypeOK, PayWithdrawal
    <3>2. QED
      BY <2>11, <3>1 DEF TypeOK, PayWithdrawal, WithdrawalStatus
  <2>12. ASSUME NEW w \in Withdrawal, RejectWithdrawal(w)
         PROVE  TypeOK'
    BY <2>12 DEF TypeOK, RejectWithdrawal, WithdrawalStatus
  <2>13. CASE UNCHANGED vars
    BY <2>13 DEF TypeOK, vars
  <2>14. QED
    BY <2>1, <2>2, <2>3, <2>4, <2>5, <2>6, <2>7, <2>8, <2>9, <2>10, <2>11,
       <2>12, <2>13
    DEF Next
<1>3. QED
  BY <1>1, <1>2, PTL DEF Spec

-------------------------------------------------------------------------------
\* A withdrawal row belongs to one coach.
LEMMA WithdrawalOwner ==
    /\ \A w \in Withdrawal : w[1] \in Coach /\ w \in WithdrawalsOf(w[1])
    /\ \A c \in Coach : \A w \in WithdrawalsOf(c) : w \in Withdrawal /\ w[1] = c
  BY DEF Withdrawal, WithdrawalsOf

\* While a request of a coach is between its check and its insert, the coach
\* has no open withdrawal: staff decisions wait for the lock it holds.
RequestExcludesOpen ==
    \A c \in Coach : requestAt[c] # "idle" => ~HasOpenWithdrawal(c)

OneOpenInv == AtMostOneOpenWithdrawal /\ RequestExcludesOpen

\* The check is made before the amount is computed and the row inserted, so the
\* invariant needs to say that nothing opens a withdrawal in between.
LEMMA OneOpenInvariant == Spec => []OneOpenInv
<1>1. Init => OneOpenInv
  BY DEF Init, OneOpenInv, AtMostOneOpenWithdrawal, RequestExcludesOpen, OpenStatus
<1>2. TypeOK /\ OneOpenInv /\ [Next]_vars => OneOpenInv'
  <2> SUFFICES ASSUME TypeOK, OneOpenInv, [Next]_vars
               PROVE  OneOpenInv'
    OBVIOUS
  <2> USE DEF OneOpenInv
  <2>1. CASE UNCHANGED <<withdrawal, requestAt>>
    BY <2>1
    DEF AtMostOneOpenWithdrawal, RequestExcludesOpen, HasOpenWithdrawal, WithdrawalsOf
  <2>2. ASSUME NEW c \in Coach,
               \/ BeginRequest(c) \/ ReadLedgerTotal(c) \/ ReadOnHold(c)
               \/ AbandonRequest(c)
        PROVE  OneOpenInv'
    <3>1. UNCHANGED withdrawal
      BY <2>2 DEF BeginRequest, ReadLedgerTotal, ReadOnHold, AbandonRequest
    <3>2. requestAt'[c] # "idle" => ~HasOpenWithdrawal(c)
      BY <2>2
      DEF BeginRequest, ReadLedgerTotal, ReadOnHold, AbandonRequest, RequestStep,
          RequestExcludesOpen, TypeOK
    <3>3. \A d \in Coach : d # c => requestAt'[d] = requestAt[d]
      BY <2>2
      DEF BeginRequest, ReadLedgerTotal, ReadOnHold, AbandonRequest, RequestStep,
          TypeOK
    <3>4. QED
      BY <3>1, <3>2, <3>3
      DEF AtMostOneOpenWithdrawal, RequestExcludesOpen, HasOpenWithdrawal
  <2>3. ASSUME NEW c \in Coach, CreateWithdrawal(c)
        PROVE  OneOpenInv'
    <3>1. ~HasOpenWithdrawal(c)
      BY <2>3 DEF CreateWithdrawal, RequestStep, RequestExcludesOpen
    <3>2. PICK w \in WithdrawalsOf(c) :
             withdrawal' = [withdrawal EXCEPT ![w] =
                               [status |-> "REQUESTED", amount |-> seen[c]]]
      BY <2>3 DEF CreateWithdrawal
    <3>3. w \in Withdrawal /\ w[1] = c
      BY <3>2, WithdrawalOwner
    <3>4. \A v \in Withdrawal : v # w => withdrawal'[v] = withdrawal[v]
      BY <3>2, <3>3 DEF TypeOK
    <3>5. AtMostOneOpenWithdrawal'
      BY <3>1, <3>3, <3>4, WithdrawalOwner
      DEF AtMostOneOpenWithdrawal, HasOpenWithdrawal
    <3>6. /\ requestAt'[c] = "idle"
          /\ \A d \in Coach : d # c => requestAt'[d] = requestAt[d]
      BY <2>3 DEF CreateWithdrawal, RequestStep, TypeOK
    <3>7. \A d \in Coach : d # c => (HasOpenWithdrawal(d)' => HasOpenWithdrawal(d))
      BY <3>3, <3>4, WithdrawalOwner DEF HasOpenWithdrawal
    <3>8. RequestExcludesOpen'
      BY <3>6, <3>7 DEF RequestExcludesOpen
    <3>9. QED
      BY <3>5, <3>8
  <2>4. ASSUME NEW w \in Withdrawal,
               ApproveWithdrawal(w) \/ PayWithdrawal(w) \/ RejectWithdrawal(w)
        PROVE  OneOpenInv'
    <3>1. /\ withdrawal[w].status \in OpenStatus
          /\ \A v \in Withdrawal : v # w => withdrawal'[v] = withdrawal[v]
          /\ UNCHANGED requestAt
      BY <2>4
      DEF ApproveWithdrawal, PayWithdrawal, RejectWithdrawal, OpenStatus, TypeOK
    <3>2. \A v \in Withdrawal : withdrawal'[v].status \in OpenStatus
                                   => withdrawal[v].status \in OpenStatus
      BY <3>1
    <3>3. AtMostOneOpenWithdrawal'
      BY <3>2 DEF AtMostOneOpenWithdrawal
    <3>4. RequestExcludesOpen'
      BY <3>1, <3>2, WithdrawalOwner DEF RequestExcludesOpen, HasOpenWithdrawal
    <3>5. QED
      BY <3>3, <3>4
  <2>5. ASSUME NEW s \in Sale,
               \/ RecordEarning(s) \/ HoldEnds(s) \/ SetFee(s)
               \/ \E delta \in RefundDeltas(s) : ReverseEarning(s, delta)
        PROVE  UNCHANGED <<withdrawal, requestAt>>
    BY <2>5 DEF RecordEarning, HoldEnds, SetFee, ReverseEarning
  <2>6. ASSUME NEW c \in Coach,
               SavePayoutDetails(c) \/ AdjustWallet(c) \/ SetCoachShare(c)
        PROVE  UNCHANGED <<withdrawal, requestAt>>
    BY <2>6 DEF SavePayoutDetails, AdjustWallet, SetCoachShare
  <2>7. ASSUME ReleaseDue \/ UNCHANGED vars
        PROVE  UNCHANGED <<withdrawal, requestAt>>
    BY <2>7 DEF ReleaseDue, vars
  <2>8. QED
    BY <2>1, <2>2, <2>3, <2>4, <2>5, <2>6, <2>7 DEF Next
<1>3. QED
  BY <1>1, <1>2, TypeCorrect, PTL DEF Spec

\* A coach never has two withdrawals in progress.
THEOREM OneOpenWithdrawal == Spec => []AtMostOneOpenWithdrawal
<1>1. OneOpenInv => AtMostOneOpenWithdrawal
  BY DEF OneOpenInv
<1>2. QED
  BY <1>1, OneOpenInvariant, PTL

-------------------------------------------------------------------------------
\* An earning whose amounts are not known has credited and taken back nothing.
Uncredited ==
    \A s \in Sale : earning[s].status \in {"NONE", "PENDING_FEE"} =>
        /\ earning[s].coach = 0
        /\ earning[s].fee = 0
        /\ earning[s].reversed = 0
        /\ earning[s].absorbed = 0
        /\ earning[s].refunded = 0

LedgerInv == LedgerMatchesRows /\ Uncredited

\* Only available earnings of the coach are marked.
LEMMA MarkedAreAvailable ==
    \A c, amount : MarkWithdrawnUpTo(c, amount) \subseteq AvailableSales(c)
BY DEF MarkWithdrawnUpTo, Covered

\* What the operations on one sale and on one withdrawal leave alone.
LEMMA SaleFrame ==
    ASSUME NEW s \in Sale,
           \/ RecordEarning(s) \/ HoldEnds(s) \/ SetFee(s)
           \/ \E delta \in RefundDeltas(s) : ReverseEarning(s, delta)
    PROVE  UNCHANGED <<withdrawal, payoutEntries, requestAt>>
  BY DEF RecordEarning, HoldEnds, SetFee, ReverseEarning

LEMMA CoachFrame ==
    ASSUME NEW c \in Coach,
           \/ SavePayoutDetails(c) \/ BeginRequest(c) \/ ReadLedgerTotal(c)
           \/ ReadOnHold(c) \/ CreateWithdrawal(c) \/ AbandonRequest(c)
           \/ AdjustWallet(c) \/ SetCoachShare(c)
    PROVE  UNCHANGED <<earning, saleEntries>>
  BY DEF SavePayoutDetails, BeginRequest, ReadLedgerTotal, ReadOnHold,
         CreateWithdrawal, AbandonRequest, AdjustWallet, SetCoachShare

\* Ledger and rows agree, and earnings without a fee are worth nothing.
LEMMA LedgerInvariant == Spec => []LedgerInv
<1> USE WalletAssumption
<1>1. Init => LedgerInv
  BY DEF Init, LedgerInv, LedgerMatchesRows, Uncredited, Worth, NoEarning
<1>2. TypeOK /\ LedgerInv /\ [Next]_vars => LedgerInv'
  <2> SUFFICES ASSUME TypeOK, LedgerInv, [Next]_vars
               PROVE  LedgerInv'
    OBVIOUS
  <2> DEFINE Clean(e) == e.status \in {"NONE", "PENDING_FEE"} =>
                            /\ e.coach = 0
                            /\ e.fee = 0
                            /\ e.reversed = 0
                            /\ e.absorbed = 0
                            /\ e.refunded = 0
             RowOK(e, n) == n = e.coach - e.reversed /\ Clean(e)
             RowsOK == \A s \in Sale : RowOK(earning[s], saleEntries[s])
             PayoutOK(w) == payoutEntries[w] =
                 IF withdrawal[w].status \in {"REQUESTED", "APPROVED", "PAID"}
                 THEN -withdrawal[w].amount ELSE 0
  <2>0. /\ \A s \in Sale : RowOK(earning[s], saleEntries[s])
                           /\ earning[s] \in Earning
        /\ \A w \in Withdrawal : PayoutOK(w)
    BY DEF LedgerInv, LedgerMatchesRows, Uncredited, TypeOK, Worth
  <2>1. ASSUME NEW s \in Sale, RecordEarning(s)
        PROVE  RowsOK'
    <3>1. earning[s].coach = 0 /\ earning[s].reversed = 0 /\ saleEntries[s] = 0
      BY <2>0, <2>1 DEF RecordEarning, Worth
    <3>2. CASE RecordedPendingFee(s)
      <4> DEFINE row == [earning[s] EXCEPT
                            !.status = "PENDING_FEE", !.bps = RateFor(CoachOf[s]),
                            !.paidAt = Cardinality(Recorded) + 1]
      <4>1. RowOK(row, 0)
        BY <2>0, <2>1, <3>1 DEF RecordEarning, Earning
      <4>2. earning' = [earning EXCEPT ![s] = row] /\ saleEntries' = saleEntries
        BY <3>2 DEF RecordedPendingFee
      <4> HIDE DEF row, RowOK
      <4>3. QED
        BY <2>0, <3>1, <4>1, <4>2 DEF TypeOK
    <3>3. ASSUME NEW fee \in Fees, NEW over \in BOOLEAN,
                 RecordedWithFee(s, fee, over)
          PROVE  RowsOK'
      <4> DEFINE c == CoachPart(SaleAmount[s], fee, RateFor(CoachOf[s]))
      <4>1. c \in Int
        BY RateType, CoachPartType
      <4>2. /\ earning' = [earning EXCEPT ![s] =
                 [@ EXCEPT !.status = HoldStatus(over), !.fee = fee, !.coach = c,
                           !.bps = RateFor(CoachOf[s]),
                           !.paidAt = Cardinality(Recorded) + 1]]
            /\ saleEntries' = [saleEntries EXCEPT ![s] = @ + c]
        BY <3>3 DEF RecordedWithFee
      <4>3. HoldStatus(over) \notin {"NONE", "PENDING_FEE"}
        BY DEF HoldStatus
      <4> HIDE DEF c
      <4>4. QED
        BY <2>0, <3>1, <4>1, <4>2, <4>3 DEF Worth, TypeOK, Earning
    <3>4. QED
      BY <2>1, <3>2, <3>3 DEF RecordEarning
  <2>2. ASSUME NEW s \in Sale, SetFee(s)
        PROVE  RowsOK'
    <3>1. PICK fee \in Fees : SetFee(s)!3!(fee)
      BY <2>2 DEF SetFee
    <3> DEFINE e == earning[s]
               c == CoachPart(SaleAmount[s], fee, LockedRate(s))
               full == e.refunded >= SaleAmount[s]
               reversed == IF full THEN c
                           ELSE ProportionalShare(c, e.refunded, SaleAmount[s])
               status == IF full THEN "REVERSED" ELSE HoldStatus(s \in holdOver)
    <3>2. saleEntries[s] = 0 /\ e.refunded \in Nat
      BY <2>0, <2>2 DEF SetFee, Worth, Earning
    <3>3. c \in Int
      BY <2>0, CoachPartType DEF LockedRate, Earning
    <3>4. reversed \in Int
      BY <3>2, <3>3, ProportionalShareType
    <3>5. /\ earning' = [earning EXCEPT ![s] =
               [e EXCEPT !.status = status, !.fee = fee, !.coach = c,
                         !.reversed = reversed,
                         !.absorbed =
                             ProportionalShare(fee, e.refunded, SaleAmount[s])]]
          /\ saleEntries' = [saleEntries EXCEPT
               ![s] = @ + IF full THEN 0 ELSE c - reversed]
      BY <3>1
    <3>6. status \notin {"NONE", "PENDING_FEE"}
      BY DEF HoldStatus
    <3>7. full => reversed = c
      OBVIOUS
    <3> HIDE DEF c, full, reversed, status
    <3>8. QED
      BY <2>0, <3>2, <3>3, <3>4, <3>5, <3>6, <3>7 DEF Worth, TypeOK, Earning
  <2>3. ASSUME NEW s \in Sale, NEW delta \in RefundDeltas(s),
               ReverseEarning(s, delta)
        PROVE  RowsOK'
    <3> DEFINE e == earning[s]
               refunded == e.refunded + delta
               full == refunded >= SaleAmount[s]
               dc == StillToReverse(e.coach, refunded, SaleAmount[s], e.reversed)
               df == StillToReverse(e.fee, refunded, SaleAmount[s], e.absorbed)
               status == IF full THEN "REVERSED" ELSE e.status
    <3>1. e.coach \in Int /\ e.reversed \in Int /\ e.fee \in Int
          /\ e.absorbed \in Int /\ e.refunded \in Nat
      BY <2>0 DEF Earning
    <3>2. refunded \in Nat
      BY <2>3, <3>1 DEF ReverseEarning, Remaining
    <3>3. dc \in Int
      <4> HIDE DEF refunded
      <4>1. QED
        BY <3>1, <3>2, StillToReverseType
    <3>4. status \notin {"NONE", "PENDING_FEE"}
      BY <2>3 DEF ReverseEarning
    <3>5. /\ earning' = [earning EXCEPT ![s] =
               [e EXCEPT !.status = status, !.refunded = refunded,
                         !.reversed = @ + dc, !.absorbed = @ + df]]
          /\ saleEntries' = [saleEntries EXCEPT ![s] = @ - dc]
      BY <2>3 DEF ReverseEarning
    <3> HIDE DEF refunded, full, dc, df, status
    <3>6. QED
      BY <2>0, <3>1, <3>2, <3>3, <3>4, <3>5 DEF Worth, TypeOK, Earning
  <2>4. ASSUME UNCHANGED <<earning, saleEntries>>
        PROVE  RowsOK'
    <3> HIDE DEF RowOK
    <3>1. QED
      BY <2>0, <2>4
  <2>5. ASSUME UNCHANGED saleEntries,
               \A s \in Sale :
                   \/ earning'[s] = earning[s]
                   \/ /\ earning[s].status \in {"ON_HOLD", "AVAILABLE"}
                      /\ \E status \in {"AVAILABLE", "WITHDRAWN"} :
                            earning'[s] = [earning[s] EXCEPT !.status = status]
        PROVE  RowsOK'
    <3>1. ASSUME NEW r \in Sale
          PROVE  RowOK(earning'[r], saleEntries[r])
      <4>1. CASE earning'[r] = earning[r]
        BY <2>0, <4>1
      <4>2. ASSUME NEW status \in {"AVAILABLE", "WITHDRAWN"},
                   earning[r].status \in {"ON_HOLD", "AVAILABLE"},
                   earning'[r] = [earning[r] EXCEPT !.status = status]
            PROVE  RowOK(earning'[r], saleEntries[r])
        BY <2>0, <4>2 DEF Earning
      <4>3. QED
        BY <2>5, <4>1, <4>2
    <3> HIDE DEF RowOK
    <3>2. QED
      BY <2>5, <3>1
  <2>6. ASSUME ReleaseDue
        PROVE  RowsOK'
    BY <2>5, <2>6 DEF ReleaseDue, Due
  <2>7. ASSUME NEW w \in Withdrawal, PayWithdrawal(w)
        PROVE  RowsOK'
    BY <2>5, <2>7, MarkedAreAvailable DEF PayWithdrawal, AvailableSales
  <2>8. ASSUME NEW s \in Sale, HoldEnds(s)
        PROVE  UNCHANGED <<earning, saleEntries>>
    BY <2>8 DEF HoldEnds
  <2>9. ASSUME NEW w \in Withdrawal, ApproveWithdrawal(w) \/ RejectWithdrawal(w)
        PROVE  UNCHANGED <<earning, saleEntries>>
    BY <2>9 DEF ApproveWithdrawal, RejectWithdrawal
  <2>10. RowsOK'
    <3>1. CASE UNCHANGED vars
      BY <2>4, <3>1 DEF vars
    <3>2. CASE Next
      BY <2>1, <2>2, <2>3, <2>4, <2>6, <2>7, <2>8, <2>9, <3>2, CoachFrame DEF Next
    <3>3. QED
      BY <3>1, <3>2
  <2>11. ASSUME NEW w \in Withdrawal,
                \/ ApproveWithdrawal(w) \/ PayWithdrawal(w) \/ RejectWithdrawal(w)
         PROVE  \A v \in Withdrawal : PayoutOK(v)'
    BY <2>0, <2>11
    DEF ApproveWithdrawal, PayWithdrawal, RejectWithdrawal, OpenStatus, TypeOK
  <2>12. ASSUME NEW c \in Coach, CreateWithdrawal(c)
         PROVE  \A v \in Withdrawal : PayoutOK(v)'
    <3>1. PICK w \in WithdrawalsOf(c) :
             /\ withdrawal[w].status = "NONE"
             /\ withdrawal' = [withdrawal EXCEPT ![w] =
                    [status |-> "REQUESTED", amount |-> seen[c]]]
             /\ payoutEntries' = [payoutEntries EXCEPT ![w] = @ - seen[c]]
      BY <2>12 DEF CreateWithdrawal
    <3>2. w \in Withdrawal /\ seen[c] \in Nat
      BY <2>12, <3>1, WithdrawalOwner DEF CreateWithdrawal, Payable
    <3>3. QED
      BY <2>0, <3>1, <3>2 DEF TypeOK
  <2>13. ASSUME UNCHANGED <<withdrawal, payoutEntries>>
         PROVE  \A v \in Withdrawal : PayoutOK(v)'
    BY <2>0, <2>13
  <2>14. ASSUME NEW c \in Coach,
                \/ SavePayoutDetails(c) \/ BeginRequest(c) \/ ReadLedgerTotal(c)
                \/ ReadOnHold(c) \/ AbandonRequest(c) \/ AdjustWallet(c)
                \/ SetCoachShare(c)
         PROVE  UNCHANGED <<withdrawal, payoutEntries>>
    BY <2>14
    DEF SavePayoutDetails, BeginRequest, ReadLedgerTotal, ReadOnHold,
        AbandonRequest, AdjustWallet, SetCoachShare
  <2>15. ASSUME ReleaseDue \/ UNCHANGED vars
         PROVE  UNCHANGED <<withdrawal, payoutEntries>>
    BY <2>15 DEF ReleaseDue, vars
  <2>16. \A v \in Withdrawal : PayoutOK(v)'
    BY <2>11, <2>12, <2>13, <2>14, <2>15, SaleFrame DEF Next
  <2>17. QED
    BY <2>10, <2>16 DEF LedgerInv, LedgerMatchesRows, Uncredited, Worth
<1>3. QED
  BY <1>1, <1>2, TypeCorrect, PTL DEF Spec

\* The append-only ledger always agrees with the rows it is written beside.
THEOREM LedgerAgrees == Spec => []LedgerMatchesRows
<1>1. LedgerInv => LedgerMatchesRows
  BY DEF LedgerInv
<1>2. QED
  BY <1>1, LedgerInvariant, PTL

-------------------------------------------------------------------------------
\* An earning only moves forward, and a reversed one never comes back.
THEOREM EarningsMoveForward == Spec => EarningLifecycle
<1> DEFINE Moves == \A s \in Sale :
              earning'[s].status # earning[s].status =>
                  <<earning[s].status, earning'[s].status>> \in EarningMoves
<1>1. TypeOK /\ [Next]_vars => [Moves]_vars
  <2> SUFFICES ASSUME TypeOK, Next
               PROVE  Moves
    OBVIOUS
  <2>0. \A s \in Sale : earning[s] \in Earning
    BY DEF TypeOK
  <2>1. ASSUME NEW s \in Sale, RecordEarning(s)
        PROVE  Moves
    <3>1. CASE RecordedPendingFee(s)
      BY <2>0, <2>1, <3>1
      DEF RecordEarning, RecordedPendingFee, EarningMoves, TypeOK, Earning
    <3>2. ASSUME NEW fee \in Fees, NEW over \in BOOLEAN,
                 RecordedWithFee(s, fee, over)
          PROVE  Moves
      <4> DEFINE row == [earning[s] EXCEPT
                  !.status = HoldStatus(over), !.fee = fee,
                  !.coach = CoachPart(SaleAmount[s], fee, RateFor(CoachOf[s])),
                  !.bps = RateFor(CoachOf[s]), !.paidAt = Cardinality(Recorded) + 1]
      <4>1. earning' = [earning EXCEPT ![s] = row]
        BY <3>2 DEF RecordedWithFee
      <4>2. row.status \in {"ON_HOLD", "AVAILABLE"}
        BY <2>0 DEF HoldStatus, Earning
      <4> HIDE DEF row
      <4>3. QED
        BY <2>1, <4>1, <4>2 DEF RecordEarning, EarningMoves, TypeOK
    <3>3. QED
      BY <2>1, <3>1, <3>2 DEF RecordEarning
  <2>2. ASSUME NEW s \in Sale, SetFee(s)
        PROVE  Moves
    <3>1. PICK fee \in Fees : SetFee(s)!3!(fee)
      BY <2>2 DEF SetFee
    <3>2. \E row : /\ earning' = [earning EXCEPT ![s] = row]
                   /\ row.status \in {"REVERSED", "ON_HOLD", "AVAILABLE"}
      <4> DEFINE e == earning[s]
                 c == CoachPart(SaleAmount[s], fee, LockedRate(s))
                 full == e.refunded >= SaleAmount[s]
                 row == [e EXCEPT
                     !.status = IF full THEN "REVERSED"
                                ELSE HoldStatus(s \in holdOver),
                     !.fee = fee, !.coach = c,
                     !.reversed = IF full THEN c
                         ELSE ProportionalShare(c, e.refunded, SaleAmount[s]),
                     !.absorbed = ProportionalShare(fee, e.refunded, SaleAmount[s])]
      <4>1. earning' = [earning EXCEPT ![s] = row]
        BY <3>1
      <4>2. row.status \in {"REVERSED", "ON_HOLD", "AVAILABLE"}
        <5> HIDE DEF c, full
        <5>1. QED
          BY <2>0 DEF HoldStatus, Earning
      <4>3. QED
        BY <4>1, <4>2
    <3>3. QED
      BY <2>2, <3>2 DEF SetFee, EarningMoves, TypeOK
  <2>3. ASSUME NEW s \in Sale, NEW delta \in RefundDeltas(s),
               ReverseEarning(s, delta)
        PROVE  Moves
    <3>1. earning[s].status \in {"PENDING_FEE", "ON_HOLD", "AVAILABLE", "WITHDRAWN"}
      BY <2>0, <2>3 DEF ReverseEarning, Earning, EarningStatus
    <3>2. \E row : /\ earning' = [earning EXCEPT ![s] = row]
                   /\ row.status \in {"REVERSED", earning[s].status}
      <4> DEFINE e == earning[s]
                 refunded == e.refunded + delta
                 full == refunded >= SaleAmount[s]
                 dc == StillToReverse(e.coach, refunded, SaleAmount[s], e.reversed)
                 df == StillToReverse(e.fee, refunded, SaleAmount[s], e.absorbed)
                 row == [e EXCEPT !.status = IF full THEN "REVERSED" ELSE @,
                                  !.refunded = refunded, !.reversed = @ + dc,
                                  !.absorbed = @ + df]
      <4>1. earning' = [earning EXCEPT ![s] = row]
        BY <2>3 DEF ReverseEarning
      <4>2. row.status \in {"REVERSED", e.status}
        <5> DEFINE r == e.reversed + dc
                   a == e.absorbed + df
        <5> HIDE DEF full, refunded, r, a
        <5>1. [e EXCEPT !.status = IF full THEN "REVERSED" ELSE e.status,
                        !.refunded = refunded, !.reversed = r,
                        !.absorbed = a].status \in {"REVERSED", e.status}
          BY <2>0 DEF Earning
        <5>2. QED
          BY <5>1 DEF r, a
      <4>3. QED
        BY <4>1, <4>2
    <3>3. QED
      BY <3>1, <3>2 DEF EarningMoves, TypeOK
  <2>4. CASE ReleaseDue
    BY <2>0, <2>4 DEF ReleaseDue, Due, EarningMoves, Earning
  <2>5. ASSUME NEW w \in Withdrawal, PayWithdrawal(w)
        PROVE  Moves
    BY <2>0, <2>5, MarkedAreAvailable DEF PayWithdrawal, AvailableSales, EarningMoves, Earning
  <2>6. ASSUME UNCHANGED earning
        PROVE  Moves
    BY <2>6
  <2>7. ASSUME NEW s \in Sale, HoldEnds(s)
        PROVE  UNCHANGED earning
    BY <2>7 DEF HoldEnds
  <2>8. ASSUME NEW w \in Withdrawal, ApproveWithdrawal(w) \/ RejectWithdrawal(w)
        PROVE  UNCHANGED earning
    BY <2>8 DEF ApproveWithdrawal, RejectWithdrawal
  <2>9. QED
    BY <2>1, <2>2, <2>3, <2>4, <2>5, <2>6, <2>7, <2>8, CoachFrame DEF Next
<1>2. QED
  BY <1>1, TypeCorrect, PTL DEF Spec, EarningLifecycle

-------------------------------------------------------------------------------
(***************************************************************************)
(* Rounding.  Shares are rounded down at every refund, so that a series of *)
(* part-refunds could drift from one refund of their total.                *)
(***************************************************************************)

\* What a further refund takes back brings the total to the share of the
\* total refunded, whatever the parts were.
LEMMA Telescope ==
    ASSUME NEW part \in Nat, NEW sale \in Nat \ {0}, NEW r \in Nat, NEW q \in Nat,
           r <= q
    PROVE  LET before == ProportionalShare(part, r, sale)
           IN  before + StillToReverse(part, q, sale, before)
                 = ProportionalShare(part, q, sale)
  <1> DEFINE before == ProportionalShare(part, r, sale)
             after == ProportionalShare(part, q, sale)
  <1>1. before \in Nat /\ after \in Nat /\ before <= after
    BY ShareBounds, ShareMonotone
  <1>2. StillToReverse(part, q, sale, before)
          = IF after > before THEN after - before ELSE 0
    BY DEF StillToReverse
  <1> HIDE DEF before, after
  <1>3. before + StillToReverse(part, q, sale, before) = after
    BY <1>1, <1>2
  <1>4. QED
    BY <1>3 DEF before, after

-------------------------------------------------------------------------------
\* The row of a sale that was recorded: the split is the one at the rate kept
\* in it, or nothing yet, and the reversed parts are shares of the total
\* refunded.
GoodRow(e, sale) ==
    e.status # "NONE" =>
        /\ e.bps \in 0..MaxCoachShareBps
        /\ e.fee \in 0..sale
        /\ e.refunded \in 0..sale
        /\ e.coach \in {0, CoachPart(sale, e.fee, e.bps)}
        /\ e.reversed = ProportionalShare(e.coach, e.refunded, sale)
        /\ e.absorbed = ProportionalShare(e.fee, e.refunded, sale)

GoodRows == \A s \in Sale : GoodRow(earning[s], SaleAmount[s])

LEMMA GoodRowsInvariant == Spec => []GoodRows
<1> USE WalletAssumption
<1>1. Init => GoodRows
  BY DEF Init, GoodRows, GoodRow, NoEarning
<1>2. TypeOK /\ Uncredited /\ GoodRows /\ [Next]_vars => GoodRows'
  <2> SUFFICES ASSUME TypeOK, Uncredited, GoodRows, [Next]_vars
               PROVE  GoodRows'
    OBVIOUS
  <2>0. \A s \in Sale : earning[s] \in Earning /\ GoodRow(earning[s], SaleAmount[s])
    BY DEF TypeOK, GoodRows
  <2>1. ASSUME NEW s \in Sale, NEW row, GoodRow(row, SaleAmount[s]),
               earning' = [earning EXCEPT ![s] = row]
        PROVE  GoodRows'
    BY <2>0, <2>1 DEF GoodRows, TypeOK
  <2>2. ASSUME NEW s \in Sale, RecordEarning(s)
        PROVE  GoodRows'
    <3>1. RateFor(CoachOf[s]) \in 0..MaxCoachShareBps
      <4> DEFINE rate == shareBps[CoachOf[s]]
      <4>1. rate \in Nat
        BY DEF TypeOK
      <4>2. RateFor(CoachOf[s]) = IF rate <= 8000 THEN rate ELSE 8000
        BY DEF RateFor, MaxCoachShareBps
      <4> HIDE DEF rate
      <4>3. (IF rate <= 8000 THEN rate ELSE 8000) \in 0..8000
        BY <4>1
      <4>4. QED
        BY <4>2, <4>3 DEF MaxCoachShareBps
    <3>2. /\ earning[s].refunded = 0 /\ earning[s].fee = 0 /\ earning[s].coach = 0
          /\ earning[s].reversed = 0 /\ earning[s].absorbed = 0
      BY <2>2 DEF Uncredited, RecordEarning
    <3>3. CASE RecordedPendingFee(s)
      <4> DEFINE row == [earning[s] EXCEPT
                            !.status = "PENDING_FEE", !.bps = RateFor(CoachOf[s]),
                            !.paidAt = Cardinality(Recorded) + 1]
      <4>1. earning' = [earning EXCEPT ![s] = row]
        BY <3>3 DEF RecordedPendingFee
      <4>2. GoodRow(row, SaleAmount[s])
        BY <2>0, <3>1, <3>2, ZeroShare DEF GoodRow, Earning
      <4>3. QED
        BY <2>1, <4>1, <4>2
    <3>4. ASSUME NEW fee \in Fees, NEW over \in BOOLEAN, fee <= SaleAmount[s],
                 RecordedWithFee(s, fee, over)
          PROVE  GoodRows'
      <4> DEFINE c == CoachPart(SaleAmount[s], fee, RateFor(CoachOf[s]))
                 row == [earning[s] EXCEPT
                            !.status = HoldStatus(over), !.fee = fee,
                            !.coach = c, !.bps = RateFor(CoachOf[s]),
                            !.paidAt = Cardinality(Recorded) + 1]
      <4>1. earning' = [earning EXCEPT ![s] = row]
        BY <3>4 DEF RecordedWithFee
      <4>2. c \in Nat /\ fee \in 0..SaleAmount[s]
        BY <3>1, <3>4, CoachPartBounds
      <4>3. /\ ProportionalShare(c, 0, SaleAmount[s]) = 0
            /\ ProportionalShare(fee, 0, SaleAmount[s]) = 0
        BY <4>2, ZeroShare
      <4>4. GoodRow(row, SaleAmount[s])
        <5> DEFINE rate == RateFor(CoachOf[s])
                   rank == Cardinality(Recorded) + 1
        <5>1. c = CoachPart(SaleAmount[s], fee, rate)
          OBVIOUS
        <5> HIDE DEF c, rate, rank
        <5>2. GoodRow([earning[s] EXCEPT !.status = HoldStatus(over), !.fee = fee,
                            !.coach = c, !.bps = rate, !.paidAt = rank],
                      SaleAmount[s])
          BY <2>0, <3>1, <3>2, <4>2, <4>3, <5>1 DEF GoodRow, Earning, rate
        <5>3. QED
          BY <5>2 DEF rate, rank
      <4>5. QED
        BY <2>1, <4>1, <4>4
    <3>5. QED
      BY <2>2, <3>3, <3>4 DEF RecordEarning
  <2>3. ASSUME NEW s \in Sale, SetFee(s)
        PROVE  GoodRows'
    <3>1. PICK fee \in Fees : SetFee(s)!3!(fee)
      BY <2>3 DEF SetFee
    <3> DEFINE e == earning[s]
               sale == SaleAmount[s]
               c == CoachPart(sale, fee, e.bps)
               full == e.refunded >= sale
               reversed == IF full THEN c ELSE ProportionalShare(c, e.refunded, sale)
               absorbed == ProportionalShare(fee, e.refunded, sale)
               status == IF full THEN "REVERSED" ELSE HoldStatus(s \in holdOver)
               row == [e EXCEPT !.status = status, !.fee = fee, !.coach = c,
                                !.reversed = reversed, !.absorbed = absorbed]
    <3>2. earning' = [earning EXCEPT ![s] = row]
      BY <3>1 DEF LockedRate
    <3>3. /\ fee \in 0..sale
          /\ e.bps \in 0..MaxCoachShareBps
          /\ e.refunded \in 0..sale
      BY <2>0, <2>3, <3>1 DEF GoodRow, SetFee
    <3>4. reversed = ProportionalShare(c, e.refunded, sale)
      BY DEF ProportionalShare
    <3>5. GoodRow(row, sale)
      <4> HIDE DEF c, reversed, absorbed, status
      <4>1. GoodRow([e EXCEPT !.status = status, !.fee = fee, !.coach = c,
                              !.reversed = reversed, !.absorbed = absorbed], sale)
        BY <2>0, <3>3, <3>4 DEF GoodRow, Earning, c, absorbed
      <4>2. QED
        BY <4>1
    <3>6. QED
      BY <2>1, <3>2, <3>5
  <2>4. ASSUME NEW s \in Sale, NEW delta \in RefundDeltas(s),
               ReverseEarning(s, delta)
        PROVE  GoodRows'
    <3> DEFINE e == earning[s]
               sale == SaleAmount[s]
               refunded == e.refunded + delta
               status == IF refunded >= sale THEN "REVERSED" ELSE e.status
               r == e.reversed + StillToReverse(e.coach, refunded, sale, e.reversed)
               a == e.absorbed + StillToReverse(e.fee, refunded, sale, e.absorbed)
               row == [e EXCEPT !.status = status, !.refunded = refunded,
                                !.reversed = r, !.absorbed = a]
    <3>1. earning' = [earning EXCEPT ![s] = row]
      BY <2>4 DEF ReverseEarning
    <3>2. /\ e.status # "NONE"
          /\ e.bps \in 0..MaxCoachShareBps
          /\ e.fee \in 0..sale
          /\ e.refunded \in 0..sale
          /\ e.coach \in {0, CoachPart(sale, e.fee, e.bps)}
          /\ e.reversed = ProportionalShare(e.coach, e.refunded, sale)
          /\ e.absorbed = ProportionalShare(e.fee, e.refunded, sale)
      BY <2>0, <2>4 DEF GoodRow, ReverseEarning
    <3>3. refunded \in 0..sale /\ e.refunded <= refunded
      BY <2>4, <3>2 DEF ReverseEarning, Remaining
    <3>4. e.coach \in Nat
      BY <3>2, CoachPartBounds
    <3>5. /\ r = ProportionalShare(e.coach, refunded, sale)
          /\ a = ProportionalShare(e.fee, refunded, sale)
      <4> HIDE DEF refunded
      <4>1. QED
        BY <3>2, <3>3, <3>4, Telescope
    <3>6. GoodRow(row, sale)
      <4> HIDE DEF refunded, r, a, status
      <4>1. GoodRow([e EXCEPT !.status = status, !.refunded = refunded,
                              !.reversed = r, !.absorbed = a], sale)
        BY <2>0, <3>2, <3>3, <3>5 DEF GoodRow, Earning
      <4>2. QED
        BY <4>1
    <3>7. QED
      BY <2>1, <3>1, <3>6
  <2>5. ASSUME \A s \in Sale :
                   \/ earning'[s] = earning[s]
                   \/ /\ earning[s].status # "NONE"
                      /\ \E status \in EarningStatus :
                            earning'[s] = [earning[s] EXCEPT !.status = status]
        PROVE  GoodRows'
    <3>1. ASSUME NEW s \in Sale, NEW status \in EarningStatus,
                 earning[s].status # "NONE"
          PROVE  GoodRow([earning[s] EXCEPT !.status = status], SaleAmount[s])
      BY <2>0, <3>1 DEF GoodRow, Earning
    <3>2. QED
      <4>1. ASSUME NEW s \in Sale
            PROVE  GoodRow(earning'[s], SaleAmount[s])
        <5>1. CASE earning'[s] = earning[s]
          BY <2>0, <5>1
        <5>2. ASSUME earning[s].status # "NONE", NEW status \in EarningStatus,
                     earning'[s] = [earning[s] EXCEPT !.status = status]
              PROVE  GoodRow(earning'[s], SaleAmount[s])
          BY <3>1, <5>2
        <5>3. QED
          BY <2>5, <5>1, <5>2
      <4>2. QED
        BY <4>1 DEF GoodRows
  <2>6. CASE ReleaseDue
    BY <2>5, <2>6 DEF ReleaseDue, Due, EarningStatus
  <2>7. ASSUME NEW w \in Withdrawal, PayWithdrawal(w)
        PROVE  GoodRows'
    BY <2>5, <2>7, MarkedAreAvailable DEF PayWithdrawal, AvailableSales, EarningStatus
  <2>8. ASSUME UNCHANGED earning
        PROVE  GoodRows'
    BY <2>5, <2>8
  <2>9. ASSUME NEW s \in Sale, HoldEnds(s)
        PROVE  UNCHANGED earning
    BY <2>9 DEF HoldEnds
  <2>10. ASSUME NEW w \in Withdrawal, ApproveWithdrawal(w) \/ RejectWithdrawal(w)
         PROVE  UNCHANGED earning
    BY <2>10 DEF ApproveWithdrawal, RejectWithdrawal
  <2>11. ASSUME UNCHANGED vars
         PROVE  UNCHANGED earning
    BY <2>11 DEF vars
  <2>12. QED
    BY <2>2, <2>3, <2>4, <2>6, <2>7, <2>8, <2>9, <2>10, <2>11, CoachFrame DEF Next
<1>3. LedgerInv => Uncredited
  BY DEF LedgerInv
<1>4. QED
  BY <1>1, <1>2, <1>3, TypeCorrect, LedgerInvariant, PTL DEF Spec

\* Part-refunds telescope, for every amount, fee, rate and sequence of parts.
THEOREM RefundsTakeBackTheirShare == Spec => []RefundsTelescope
<1>1. TypeOK /\ GoodRows => RefundsTelescope
  <2> SUFFICES ASSUME TypeOK, GoodRows, NEW s \in Sale, earning[s].status # "NONE"
               PROVE  LET e == earning[s] IN
                      /\ e.reversed = ProportionalShare(e.coach, e.refunded, SaleAmount[s])
                      /\ e.absorbed = ProportionalShare(e.fee, e.refunded, SaleAmount[s])
                      /\ e.reversed \in 0..e.coach
    BY DEF RefundsTelescope
  <2> DEFINE e == earning[s]
  <2>1. GoodRow(e, SaleAmount[s])
    BY DEF GoodRows
  <2>2. e.coach \in Nat
    BY <2>1, WalletAssumption, CoachPartBounds DEF GoodRow
  <2>3. e.reversed \in 0..e.coach
    <3>1. e.refunded \in Nat /\ SaleAmount[s] \in Nat \ {0}
      BY WalletAssumption, <2>1 DEF GoodRow
    <3>2. ProportionalShare(e.coach, e.refunded, SaleAmount[s]) \in 0..e.coach
      BY <2>2, <3>1, ShareBounds
    <3>3. QED
      BY <2>1, <3>2 DEF GoodRow
  <2>4. QED
    BY <2>1, <2>3 DEF GoodRow
<1>2. QED
  BY <1>1, TypeCorrect, GoodRowsInvariant, PTL

\* The split of a sale stays the one at the rate in force when it was paid.
THEOREM SplitStaysLocked == Spec => []SplitLockedAtSale
<1>1. GoodRows /\ LedgerInv => SplitLockedAtSale
  <2> SUFFICES ASSUME GoodRows, LedgerInv, NEW s \in Sale, earning[s].coach # 0
               PROVE  LET e == earning[s] IN
                      /\ e.coach = CoachPart(SaleAmount[s], e.fee, e.bps)
                      /\ e.bps <= MaxCoachShareBps
                      /\ BpsBase * e.coach <= MaxCoachShareBps * (SaleAmount[s] - e.fee)
    BY DEF SplitLockedAtSale
  <2>1. /\ earning[s].status # "NONE"
        /\ GoodRow(earning[s], SaleAmount[s])
    BY DEF GoodRows, LedgerInv, Uncredited
  <2>2. QED
    BY <2>1, WalletAssumption, CoachPartBounds DEF GoodRow
<1>2. QED
  BY <1>1, GoodRowsInvariant, LedgerInvariant, PTL

-------------------------------------------------------------------------------
\* Three parts that make up a whole lose less than two units and a bit when each is
\* rounded down.
LEMMA ThreeShares ==
    ASSUME NEW n \in Nat \ {0}, NEW p \in Nat, NEW c \in Nat, NEW f \in Nat, p + c + f = n,
           NEW r \in Nat, r < n
    PROVE LET part(x) == ProportionalShare(x, r, n)
          IN  r - (part(p) + part(c) + part(f)) \in 0..2
<1> DEFINE a == (p * r) \div n
           b == (c * r) \div n
           d == (f * r) \div n
<1>1. /\ p * r \in Nat /\ c * r \in Nat /\ f * r \in Nat
      /\ p * r + c * r + f * r = n * r
  OBVIOUS
<1>2. /\ a \in Nat /\ n * a <= p * r /\ p * r < n * a + n
      /\ b \in Nat /\ n * b <= c * r /\ c * r < n * b + n
      /\ d \in Nat /\ n * d <= f * r /\ f * r < n * d + n
  <2>1. ASSUME NEW x \in Nat PROVE x \div n \in Nat /\ n * (x \div n) <= x /\ x < n * (x \div n) + n
    OBVIOUS
  <2> QED
    BY <1>1, <2>1
<1>8. /\ ProportionalShare(p, r, n) = a /\ ProportionalShare(c, r, n) = b
      /\ ProportionalShare(f, r, n) = d
  BY DEF ProportionalShare
<1> HIDE DEF a, b, d
<1> DEFINE lost == r - (a + b + d)
<1>3. lost \in Int
  BY <1>2
<1>4. n * lost = n * r - (n * a + n * b + n * d)
  BY <1>2
<1>5. n * lost >= 0 /\ n * lost < 3 * n
  <2>1. n * a \in Int /\ n * b \in Int /\ n * d \in Int /\ n * r \in Int
    BY <1>2
  <2> QED
    BY <1>1, <1>2, <1>4, <2>1
<1> HIDE DEF lost
<1>6. lost >= 0
  <2>1. ASSUME lost <= -1 PROVE n * lost <= -n
    BY <1>3, <2>1
  <2>2. n * lost \in Int
    BY <1>3
  <2> QED
    BY <1>3, <1>5, <2>1, <2>2
<1>7. lost <= 2
  <2>1. ASSUME lost >= 3 PROVE n * lost >= 3 * n
    BY <1>3, <2>1
  <2>2. n * lost \in Int
    BY <1>3
  <2> QED
    BY <1>3, <1>5, <2>1, <2>2
<1> QED
  BY <1>3, <1>6, <1>7, <1>8 DEF lost

\* A sale whose fee is known has been split.
SplitRow(e, sale) ==
    e.status \in {"ON_HOLD", "AVAILABLE", "WITHDRAWN"} => e.coach = CoachPart(sale, e.fee, e.bps)
SplitRows == \A s \in Sale : SplitRow(earning[s], SaleAmount[s])

LEMMA SplitInvariant == Spec => []SplitRows
<1>1. Init => SplitRows
  BY DEF Init, SplitRows, SplitRow, NoEarning
<1>2. TypeOK /\ SplitRows /\ [Next]_vars => SplitRows'
  <2> SUFFICES ASSUME TypeOK, SplitRows, [Next]_vars
               PROVE  SplitRows'
    OBVIOUS
  <2>0. \A s \in Sale : earning[s] \in Earning /\ SplitRow(earning[s], SaleAmount[s])
    BY DEF TypeOK, SplitRows
  <2>1. ASSUME NEW s \in Sale, NEW row, SplitRow(row, SaleAmount[s]),
               earning' = [earning EXCEPT ![s] = row]
        PROVE  SplitRows'
    BY <2>0, <2>1 DEF SplitRows, TypeOK
  <2>2. ASSUME NEW s \in Sale, RecordEarning(s)
        PROVE  SplitRows'
    <3>1. CASE RecordedPendingFee(s)
      <4> DEFINE row == [earning[s] EXCEPT
                            !.status = "PENDING_FEE", !.bps = RateFor(CoachOf[s]),
                            !.paidAt = Cardinality(Recorded) + 1]
      <4>1. earning' = [earning EXCEPT ![s] = row]
        BY <3>1 DEF RecordedPendingFee
      <4>2. SplitRow(row, SaleAmount[s])
        BY <2>0 DEF SplitRow, Earning
      <4> QED
        BY <2>1, <4>1, <4>2
    <3>2. ASSUME NEW fee \in Fees, NEW over \in BOOLEAN, RecordedWithFee(s, fee, over)
          PROVE  SplitRows'
      <4> DEFINE rate == RateFor(CoachOf[s])
                 rank == Cardinality(Recorded) + 1
                 c == CoachPart(SaleAmount[s], fee, rate)
                 row == [earning[s] EXCEPT !.status = HoldStatus(over), !.fee = fee,
                            !.coach = c, !.bps = rate, !.paidAt = rank]
      <4>1. earning' = [earning EXCEPT ![s] = row]
        BY <3>2 DEF RecordedWithFee
      <4>2. SplitRow(row, SaleAmount[s])
        <5>1. c = CoachPart(SaleAmount[s], fee, rate)
          OBVIOUS
        <5> HIDE DEF c, rate, rank
        <5>2. row.coach = c /\ row.fee = fee /\ row.bps = rate
          BY <2>0 DEF Earning
        <5> QED
          BY <5>1, <5>2 DEF SplitRow
      <4> QED
        BY <2>1, <4>1, <4>2
    <3> QED
      BY <2>2, <3>1, <3>2 DEF RecordEarning
  <2>3. ASSUME NEW s \in Sale, SetFee(s)
        PROVE  SplitRows'
    <3>1. PICK fee \in Fees : SetFee(s)!3!(fee)
      BY <2>3 DEF SetFee
    <3> DEFINE e == earning[s]
               sale == SaleAmount[s]
               c == CoachPart(sale, fee, e.bps)
               full == e.refunded >= sale
               reversed == IF full THEN c ELSE ProportionalShare(c, e.refunded, sale)
               absorbed == ProportionalShare(fee, e.refunded, sale)
               status == IF full THEN "REVERSED" ELSE HoldStatus(s \in holdOver)
               row == [e EXCEPT !.status = status, !.fee = fee, !.coach = c,
                                !.reversed = reversed, !.absorbed = absorbed]
    <3>2. earning' = [earning EXCEPT ![s] = row]
      BY <3>1 DEF LockedRate
    <3>3. SplitRow(row, sale)
      <4>1. c = CoachPart(sale, fee, e.bps)
        OBVIOUS
      <4> HIDE DEF c, reversed, absorbed, status
      <4>2. row.coach = c /\ row.fee = fee /\ row.bps = e.bps
        BY <2>0 DEF Earning
      <4> QED
        BY <4>1, <4>2 DEF SplitRow
    <3> QED
      BY <2>1, <3>2, <3>3
  <2>4. ASSUME NEW s \in Sale, NEW delta \in RefundDeltas(s), ReverseEarning(s, delta)
        PROVE  SplitRows'
    <3> DEFINE e == earning[s]
               sale == SaleAmount[s]
               refunded == e.refunded + delta
               status == IF refunded >= sale THEN "REVERSED" ELSE e.status
               r == e.reversed + StillToReverse(e.coach, refunded, sale, e.reversed)
               a == e.absorbed + StillToReverse(e.fee, refunded, sale, e.absorbed)
               row == [e EXCEPT !.status = status, !.refunded = refunded,
                                !.reversed = r, !.absorbed = a]
    <3>1. earning' = [earning EXCEPT ![s] = row]
      BY <2>4 DEF ReverseEarning
    <3>2. SplitRow(row, sale)
      <4>1. status \in {"REVERSED", e.status}
        OBVIOUS
      <4> HIDE DEF refunded, r, a, status
      <4>2. /\ row.status = status /\ row.coach = e.coach
            /\ row.fee = e.fee /\ row.bps = e.bps
        BY <2>0 DEF Earning
      <4> QED
        BY <2>0, <4>1, <4>2 DEF SplitRow
    <3> QED
      BY <2>1, <3>1, <3>2
  <2>5. CASE ReleaseDue
    <3>1. \A s \in Sale : SplitRow([earning[s] EXCEPT !.status = "AVAILABLE"], SaleAmount[s])
                             \/ earning[s].status # "ON_HOLD"
      BY <2>0 DEF SplitRow, Earning
    <3> QED
      BY <2>0, <2>5, <3>1 DEF ReleaseDue, Due, SplitRows
  <2>6. ASSUME NEW w \in Withdrawal, PayWithdrawal(w)
        PROVE  SplitRows'
    <3>1. \A s \in Sale : SplitRow([earning[s] EXCEPT !.status = "WITHDRAWN"], SaleAmount[s])
                             \/ earning[s].status # "AVAILABLE"
      BY <2>0 DEF SplitRow, Earning
    <3> QED
      BY <2>0, <2>6, <3>1, MarkedAreAvailable DEF PayWithdrawal, AvailableSales, SplitRows
  <2>7. ASSUME UNCHANGED earning
        PROVE  SplitRows'
    BY <2>0, <2>7 DEF SplitRows
  <2>8. ASSUME NEW s \in Sale, HoldEnds(s)
        PROVE  UNCHANGED earning
    BY <2>8 DEF HoldEnds
  <2>9. ASSUME NEW w \in Withdrawal, ApproveWithdrawal(w) \/ RejectWithdrawal(w)
         PROVE  UNCHANGED earning
    BY <2>9 DEF ApproveWithdrawal, RejectWithdrawal
  <2>10. ASSUME UNCHANGED vars
         PROVE  UNCHANGED earning
    BY <2>10 DEF vars
  <2> QED
    BY <2>2, <2>3, <2>4, <2>5, <2>6, <2>7, <2>8, <2>9, <2>10, CoachFrame DEF Next
<1> QED
  BY <1>1, <1>2, TypeCorrect, PTL DEF Spec

\* The revenue report is at most two minor units of a sale too high, by rounding, whatever
\* the price, the fee, the rate and the refunds, and exact once the sale is refunded whole.
THEOREM RevenueAgrees == Spec => []RevenueReconciles
<1>1. GoodRows /\ LedgerInv /\ SplitRows => RevenueReconciles
  <2> SUFFICES ASSUME GoodRows, LedgerInv, SplitRows, NEW s \in Sale, FeeKnown(s)
               PROVE  LET e == earning[s]
                          left == SaleAmount[s] - e.refunded - e.fee - Worth(s)
                      IN  /\ PlatformNet(s) - left \in 0..2
                          /\ e.refunded = SaleAmount[s] => PlatformNet(s) = left
    BY DEF RevenueReconciles
  <2> DEFINE e == earning[s]
             n == SaleAmount[s]
             p == PlatformPart(n, e.fee, e.bps)
             left == n - e.refunded - e.fee - Worth(s)
  <2>1. e.status # "NONE" /\ e.coach = CoachPart(n, e.fee, e.bps)
    BY DEF FeeKnown, SplitRows, SplitRow, GoodRows, GoodRow
  <2>2. /\ e.bps \in 0..MaxCoachShareBps /\ e.fee \in 0..n /\ e.refunded \in 0..n
        /\ e.reversed = ProportionalShare(e.coach, e.refunded, n)
        /\ e.absorbed = ProportionalShare(e.fee, e.refunded, n)
    BY <2>1 DEF GoodRows, GoodRow
  <2>3. n \in Nat \ {0}
    BY WalletAssumption
  <2>4. /\ e.coach \in Nat
        /\ 10000 * e.coach <= 8000 * (n - e.fee)
    <3>1. /\ CoachPart(n, e.fee, e.bps) \in Nat
          /\ BpsBase * CoachPart(n, e.fee, e.bps) <= MaxCoachShareBps * (n - e.fee)
      BY <2>2, <2>3, CoachPartBounds
    <3> QED
      BY <2>1, <3>1 DEF BpsBase, MaxCoachShareBps
  <2>5. p = n - e.fee - e.coach
    BY <2>1, <2>2, <2>3, <2>4 DEF PlatformPart
  <2>6. p \in Nat /\ e.fee \in Nat /\ e.refunded \in Nat /\ p + e.coach + e.fee = n
    BY <2>2, <2>3, <2>4, <2>5
  <2>7. PlatformNet(s) = p - ProportionalShare(p, e.refunded, n) - e.absorbed
    BY DEF PlatformNet
  <2>8. left = n - e.refunded - e.fee - (e.coach - e.reversed)
    BY DEF Worth
  <2> HIDE DEF p, left
  <2>9. CASE e.refunded = n
    <3>1. ProportionalShare(p, n, n) = p /\ ProportionalShare(e.coach, n, n) = e.coach
          /\ ProportionalShare(e.fee, n, n) = e.fee
      BY <2>3 DEF ProportionalShare
    <3>2. PlatformNet(s) = p - p - e.fee /\ left = n - n - e.fee - (e.coach - e.coach)
      BY <2>2, <2>7, <2>8, <2>9, <3>1
    <3>3. PlatformNet(s) = left /\ PlatformNet(s) - left = 0
      BY <2>3, <2>4, <2>6, <3>2
    <3> QED
      BY <3>3 DEF left
  <2>10. CASE e.refunded # n
    <3> DEFINE pr == ProportionalShare(p, e.refunded, n)
               cr == ProportionalShare(e.coach, e.refunded, n)
               fr == ProportionalShare(e.fee, e.refunded, n)
    <3>1. e.refunded < n
      BY <2>2, <2>3, <2>10
    <3>3. e.refunded - (pr + cr + fr) \in 0..2
      BY <2>3, <2>4, <2>6, <3>1, ThreeShares
    <3>4. pr \in Int /\ cr \in Int /\ fr \in Int
      <4>1. p \in Int /\ e.coach \in Int /\ e.fee \in Int
        BY <2>4, <2>6
      <4> HIDE DEF e, n
      <4> QED
        BY ONLY <2>3, <2>6, <4>1, ProportionalShareType
    <3>5. PlatformNet(s) = p - pr - fr /\ left = n - e.refunded - e.fee - (e.coach - cr)
      BY <2>2, <2>7, <2>8
    <3> HIDE DEF pr, cr, fr
    <3>6. PlatformNet(s) - left = e.refunded - (pr + cr + fr)
      BY <2>3, <2>4, <2>5, <2>6, <3>4, <3>5
    <3> QED
      BY <2>10, <3>3, <3>6 DEF left
  <2> QED
    BY <2>9, <2>10
<1> QED
  BY <1>1, GoodRowsInvariant, LedgerInvariant, SplitInvariant, PTL

-------------------------------------------------------------------------------
(***************************************************************************)
(* The account.                                                            *)
(***************************************************************************)

RowsInv == TypeOK /\ LedgerInv /\ GoodRows

LEMMA RowsInvariant == Spec => []RowsInv
BY TypeCorrect, LedgerInvariant, GoodRowsInvariant, PTL DEF RowsInv

\* A coach never owes for a sale.
LEMMA WorthNat == RowsInv => \A s \in Sale : Worth(s) \in Nat
<1> SUFFICES ASSUME RowsInv, NEW s \in Sale PROVE Worth(s) \in Nat
  OBVIOUS
<1> DEFINE e == earning[s]
<1>1. GoodRow(e, SaleAmount[s]) /\ Worth(s) = e.coach - e.reversed
  BY DEF RowsInv, GoodRows, Worth
<1>2. CASE e.status = "NONE"
  BY <1>1, <1>2 DEF RowsInv, LedgerInv, Uncredited
<1>3. CASE e.status # "NONE"
  <2>1. /\ SaleAmount[s] \in Nat \ {0} /\ e.bps \in 0..MaxCoachShareBps
        /\ e.fee \in 0..SaleAmount[s] /\ e.refunded \in Nat
        /\ e.coach \in {0, CoachPart(SaleAmount[s], e.fee, e.bps)}
        /\ e.reversed = ProportionalShare(e.coach, e.refunded, SaleAmount[s])
    BY <1>1, <1>3, WalletAssumption DEF GoodRow
  <2>2. e.coach \in Nat
    BY <2>1, CoachPartBounds
  <2>3. e.reversed \in 0..e.coach
    BY <2>1, <2>2, ShareBounds
  <2> QED
    BY <1>1, <2>2, <2>3
<1> QED
  BY <1>2, <1>3

\* What a withdrawal asks for is something.
AmountsOK == \A w \in Withdrawal : withdrawal[w].status # "NONE" => withdrawal[w].amount \in Nat \ {0}

LEMMA AmountsInvariant == Spec => []AmountsOK
<1>1. Init => AmountsOK
  BY DEF Init, AmountsOK
<1>2. TypeOK /\ AmountsOK /\ [Next]_vars => AmountsOK'
  <2> SUFFICES ASSUME TypeOK, AmountsOK, [Next]_vars
               PROVE  AmountsOK'
    OBVIOUS
  <2>1. ASSUME UNCHANGED withdrawal PROVE AmountsOK'
    BY <2>1 DEF AmountsOK
  <2>2. ASSUME NEW c \in Coach, CreateWithdrawal(c) PROVE AmountsOK'
    BY <2>2, WithdrawalOwner DEF CreateWithdrawal, Payable, AmountsOK, TypeOK
  <2>3. ASSUME NEW w \in Withdrawal,
               ApproveWithdrawal(w) \/ PayWithdrawal(w) \/ RejectWithdrawal(w)
        PROVE  AmountsOK'
    BY <2>3 DEF ApproveWithdrawal, PayWithdrawal, RejectWithdrawal, OpenStatus, AmountsOK, TypeOK
  <2>4. ASSUME NEW c \in Coach,
               \/ SavePayoutDetails(c) \/ BeginRequest(c) \/ ReadLedgerTotal(c)
               \/ ReadOnHold(c) \/ AbandonRequest(c) \/ AdjustWallet(c) \/ SetCoachShare(c)
        PROVE  UNCHANGED withdrawal
    BY <2>4 DEF SavePayoutDetails, BeginRequest, ReadLedgerTotal, ReadOnHold,
                AbandonRequest, AdjustWallet, SetCoachShare
  <2>5. ASSUME ReleaseDue \/ UNCHANGED vars PROVE UNCHANGED withdrawal
    BY <2>5 DEF ReleaseDue, vars
  <2> QED
    BY <2>1, <2>2, <2>3, <2>4, <2>5, SaleFrame DEF Next
<1> QED
  BY <1>1, <1>2, TypeCorrect, PTL DEF Spec

\* The balances of every coach, as sums of their rows.
LEMMA Balances ==
    RowsInv => /\ FreeOf \in [Sale -> Int] /\ saleEntries \in [Sale -> Int]
               /\ payoutEntries \in [Withdrawal -> Int] /\ adjusted \in [Coach -> Int]
               /\ \A c \in Coach :
                     /\ Available(c) = Balance(FreeOf, payoutEntries, adjusted, c)
                     /\ LedgerTotal(c) = Balance(saleEntries, payoutEntries, adjusted, c)
                     /\ Available(c) = LedgerTotal(c) - OnHoldTotal(c)
                     /\ Available(c) \in Int /\ LedgerTotal(c) \in Int /\ OnHoldTotal(c) \in Int
<1> SUFFICES ASSUME RowsInv PROVE Balances!2
  OBVIOUS
<1>1. TypeOK /\ LedgerMatchesRows
  BY DEF RowsInv, LedgerInv
<1>2. \A c \in Coach : Available(c) = LedgerTotal(c) - OnHoldTotal(c)
  BY DEF Available
<1> QED
  BY <1>1, <1>2, FreeType, AvailableIs DEF TypeOK

LEMMA NextBalances == ASSUME RowsInv' PROVE Balances!2'
<1>1. (RowsInv => Balances!2)'
  BY Balances, PTL
<1> QED
  BY <1>1

LEMMA NextWorth == ASSUME RowsInv' PROVE \A s \in Sale : Worth(s)' \in Nat
<1>1. (RowsInv => \A s \in Sale : Worth(s) \in Nat)'
  BY WorthNat, PTL
<1> QED
  BY <1>1

\* A step of a sale that has no share yet, of the release pass, or of nothing: no coach
\* can take less.
LEMMA NoneLess ==
    ASSUME RowsInv, RowsInv', UNCHANGED <<payoutEntries, adjusted>>,
           \A s \in Sale : Worth(s) <= Worth(s)' /\ FreeOf[s] <= FreeOf'[s],
           NEW c \in Coach
    PROVE Available(c) <= Available(c)' /\ LedgerTotal(c) <= LedgerTotal(c)'
<1>1. \A s \in Sale : saleEntries[s] <= saleEntries'[s]
  BY DEF RowsInv, LedgerInv, LedgerMatchesRows
<1>2. SalesOf(c) \subseteq Sale
  BY RowsFinite
<1>3. Balance(FreeOf, payoutEntries, adjusted, c) <= Balance(FreeOf', payoutEntries, adjusted, c)
  BY <1>2, Balances, NextBalances, BalanceGrows
<1>4. Balance(saleEntries, payoutEntries, adjusted, c)
        <= Balance(saleEntries', payoutEntries, adjusted, c)
  BY <1>1, <1>2, Balances, NextBalances, BalanceGrows
<1>5. payoutEntries' = payoutEntries /\ adjusted' = adjusted
  OBVIOUS
<1> QED
  BY <1>3, <1>4, <1>5, Balances, NextBalances

\* Sales that are recorded, or get their fee: what was not known is now worth something.
LEMMA FreshSale ==
    ASSUME RowsInv, RowsInv', NEW s \in Sale, RecordEarning(s) \/ HoldEnds(s) \/ SetFee(s)
    PROVE /\ UNCHANGED <<payoutEntries, adjusted, withdrawal, requestAt, seen>>
          /\ \A t \in Sale : Worth(t) <= Worth(t)' /\ FreeOf[t] <= FreeOf'[t]
<1>1. UNCHANGED <<payoutEntries, adjusted, withdrawal, requestAt, seen>>
  BY DEF RecordEarning, HoldEnds, SetFee
<1>2. \A t \in Sale : Worth(t) \in Nat /\ Worth(t)' \in Nat
  BY WorthNat, NextWorth
<1>3. ASSUME NEW t \in Sale, earning'[t] = earning[t]
      PROVE Worth(t) <= Worth(t)' /\ FreeOf[t] <= FreeOf'[t]
  <2>1. Worth(t)' = Worth(t)
    BY <1>3 DEF Worth
  <2>2. FreeOf'[t] = FreeOf[t]
    BY <1>3, <2>1 DEF FreeOf
  <2>3. FreeOf[t] \in Int
    BY Balances
  <2> QED
    BY <1>2, <2>1, <2>2, <2>3
<1>4. CASE HoldEnds(s)
  BY <1>1, <1>3, <1>4 DEF HoldEnds
<1>5. CASE RecordEarning(s) \/ SetFee(s)
  <2>1. earning[s].status \in {"NONE", "PENDING_FEE"}
    BY <1>5 DEF RecordEarning, SetFee
  <2>2. Worth(s) = 0 /\ FreeOf[s] = 0
    BY <2>1 DEF RowsInv, LedgerInv, Uncredited, Worth, FreeOf
  <2>3. FreeOf'[s] >= 0
    <3>1. FreeOf'[s] = IF earning'[s].status = "ON_HOLD" THEN 0 ELSE Worth(s)'
      BY DEF FreeOf
    <3> QED
      BY <3>1, <1>2
  <2>4. Worth(s) <= Worth(s)' /\ FreeOf[s] <= FreeOf'[s]
    BY <1>2, <2>2, <2>3
  <2>5. \A t \in Sale : t # s => earning'[t] = earning[t]
    BY <1>5 DEF RecordEarning, RecordedPendingFee, RecordedWithFee, SetFee, RowsInv, TypeOK
  <2> QED
    BY <1>1, <1>3, <2>4, <2>5
<1> QED
  BY <1>4, <1>5

\* The release pass and the marking of paid earnings move nothing but a status.
LEMMA StatusesMove ==
    ASSUME RowsInv, RowsInv', ReleaseDue \/ \E w \in Withdrawal : PayWithdrawal(w)
    PROVE /\ UNCHANGED <<payoutEntries, adjusted, requestAt, seen>>
          /\ \A t \in Sale : Worth(t) <= Worth(t)' /\ FreeOf[t] <= FreeOf'[t]
          /\ ~ ReleaseDue => \A t \in Sale : FreeOf'[t] = FreeOf[t] /\ Worth(t)' = Worth(t)
<1>0. \A t \in Sale : earning[t] \in Earning /\ Worth(t) \in Nat
  BY WorthNat DEF RowsInv, TypeOK
<1>1. ASSUME NEW t \in Sale
      PROVE \/ earning'[t] = earning[t]
            \/ /\ ReleaseDue /\ earning[t].status = "ON_HOLD"
               /\ earning'[t] = [earning[t] EXCEPT !.status = "AVAILABLE"]
            \/ /\ ~ ReleaseDue /\ earning[t].status = "AVAILABLE"
               /\ earning'[t] = [earning[t] EXCEPT !.status = "WITHDRAWN"]
  <2>1. CASE ReleaseDue
    BY <2>1 DEF ReleaseDue, Due
  <2>2. ASSUME NEW w \in Withdrawal, PayWithdrawal(w), ~ ReleaseDue
        PROVE \/ earning'[t] = earning[t]
              \/ /\ earning[t].status = "AVAILABLE"
                 /\ earning'[t] = [earning[t] EXCEPT !.status = "WITHDRAWN"]
    BY <2>2, MarkedAreAvailable DEF PayWithdrawal, AvailableSales
  <2> QED
    BY <2>1, <2>2
<1>2. ASSUME NEW t \in Sale
      PROVE /\ Worth(t)' = Worth(t)
            /\ \/ earning'[t].status = earning[t].status
               \/ ReleaseDue /\ earning[t].status = "ON_HOLD"
               \/ earning[t].status = "AVAILABLE" /\ earning'[t].status = "WITHDRAWN"
  BY <1>0, <1>1 DEF Worth, Earning
<1>3. ASSUME NEW t \in Sale
      PROVE /\ FreeOf[t] <= FreeOf'[t]
            /\ ~ ReleaseDue => FreeOf'[t] = FreeOf[t]
  <2>1. /\ FreeOf[t] = IF earning[t].status = "ON_HOLD" THEN 0 ELSE Worth(t)
        /\ FreeOf'[t] = IF earning'[t].status = "ON_HOLD" THEN 0 ELSE Worth(t)
    BY <1>2 DEF FreeOf
  <2> QED
    BY <2>1, <1>0, <1>2
<1>4. UNCHANGED <<payoutEntries, adjusted, requestAt, seen>>
  BY DEF ReleaseDue, PayWithdrawal
<1> QED
  BY <1>0, <1>2, <1>3, <1>4

\* A refund takes from its coach alone, and nothing that is still on hold.
LEMMA RefundTakes ==
    ASSUME RowsInv, RowsInv', NEW s \in Sale, NEW delta \in RefundDeltas(s),
           ReverseEarning(s, delta)
    PROVE /\ UNCHANGED <<payoutEntries, adjusted, withdrawal, requestAt, seen>>
          /\ Unlocked(CoachOf[s])
          /\ FreeOf'[s] <= FreeOf[s]
          /\ \A t \in Sale \ {s} : Worth(t)' = Worth(t) /\ FreeOf'[t] = FreeOf[t]
<1> DEFINE e == earning[s]
           sale == SaleAmount[s]
           refunded == e.refunded + delta
           full == refunded >= sale
           dc == StillToReverse(e.coach, refunded, sale, e.reversed)
           df == StillToReverse(e.fee, refunded, sale, e.absorbed)
           status == IF full THEN "REVERSED" ELSE e.status
           r == e.reversed + dc
           a == e.absorbed + df
<1>1. /\ UNCHANGED <<payoutEntries, adjusted, withdrawal, requestAt, seen>>
      /\ Unlocked(CoachOf[s]) /\ e.status \notin {"NONE", "REVERSED"}
      /\ delta \in 1..Remaining(s)
      /\ earning' = [earning EXCEPT ![s] =
            [e EXCEPT !.status = status, !.refunded = refunded, !.reversed = r, !.absorbed = a]]
  BY DEF ReverseEarning
<1>2. e \in Earning /\ e.coach \in Int /\ e.reversed \in Int /\ e.refunded \in Nat
      /\ sale \in Nat \ {0} /\ e.fee \in Nat /\ e.absorbed \in Int
  BY WalletAssumption DEF RowsInv, TypeOK, Earning
<1>3. refunded \in Nat
  BY <1>1, <1>2 DEF Remaining
<1>4. dc \in Nat
  <2>1. ProportionalShare(e.coach, refunded, sale) \in Int
    BY <1>2, <1>3, ProportionalShareType
  <2>2. dc = IF ProportionalShare(e.coach, refunded, sale) > e.reversed
             THEN ProportionalShare(e.coach, refunded, sale) - e.reversed ELSE 0
    BY DEF StillToReverse
  <2> HIDE DEF dc
  <2> QED
    BY <1>2, <2>1, <2>2
<1>5. /\ earning'[s].status = status /\ earning'[s].coach = e.coach
      /\ earning'[s].reversed = r /\ earning'[s].refunded = refunded
      /\ \A t \in Sale \ {s} : earning'[t] = earning[t]
  <2> HIDE DEF status, r, a, refunded
  <2> QED
    BY <1>1, <1>2 DEF RowsInv, TypeOK, Earning
<1>6. Worth(s)' = e.coach - r /\ Worth(s) = e.coach - e.reversed
  BY <1>5 DEF Worth
<1>7. Worth(s) \in Nat /\ Worth(s)' \in Nat
  BY WorthNat, NextWorth
<1>8. r = e.reversed + dc
  OBVIOUS
<1> HIDE DEF dc, r, a
<1>9. Worth(s)' <= Worth(s)
  BY <1>2, <1>4, <1>6, <1>8
<1>10. full => Worth(s)' = 0
  <2>1. ASSUME full PROVE Worth(s)' = 0
    <3>1. GoodRow(earning'[s], sale)
      BY DEF RowsInv, GoodRows
    <3>2. r = ProportionalShare(e.coach, refunded, sale)
      BY <1>5, <2>1, <3>1 DEF GoodRow
    <3>3. r = e.coach
      BY <2>1, <3>2 DEF ProportionalShare
    <3> QED
      BY <1>2, <1>6, <3>3
  <2> QED
    BY <2>1
<1>11. /\ FreeOf[s] = IF e.status = "ON_HOLD" THEN 0 ELSE Worth(s)
       /\ FreeOf'[s] = IF status = "ON_HOLD" THEN 0 ELSE Worth(s)'
  BY <1>5 DEF FreeOf
<1>12. status \in {e.status, "REVERSED"} /\ (status # e.status => full)
  OBVIOUS
<1> HIDE DEF status, full, e
<1>13. FreeOf'[s] <= FreeOf[s]
  BY <1>7, <1>9, <1>10, <1>11, <1>12
<1>14. ASSUME NEW t \in Sale \ {s} PROVE Worth(t)' = Worth(t) /\ FreeOf'[t] = FreeOf[t]
  <2>1. Worth(t)' = Worth(t)
    BY <1>5 DEF Worth
  <2> QED
    BY <1>5, <2>1 DEF FreeOf
<1> QED
  BY <1>1, <1>13, <1>14

\* What is counted of a coach's withdrawals.
LEMMA Counted ==
    TypeOK => /\ \A statuses : CountedIn(statuses) \in [Withdrawal -> Nat]
              /\ \A c \in Coach : \A statuses :
                    AmountIn(c, statuses) = SumOver(CountedIn(statuses), WithdrawalsOf(c))
<1>1. TypeOK => \A statuses : CountedIn(statuses) \in [Withdrawal -> Nat]
  BY DEF TypeOK, CountedIn
<1> QED
  BY <1>1, AmountIs

LEMMA NextCounted == ASSUME TypeOK' PROVE Counted!2'
<1>1. (TypeOK => Counted!2)'
  BY Counted, PTL
<1> QED
  BY <1>1

LEMMA SameAmount ==
    ASSUME TypeOK, TypeOK', NEW c \in Coach, NEW statuses,
           \A w \in WithdrawalsOf(c) : CountedIn(statuses)'[w] = CountedIn(statuses)[w]
    PROVE AmountIn(c, statuses)' = AmountIn(c, statuses)
<1>1. /\ AmountIn(c, statuses) = SumOver(CountedIn(statuses), WithdrawalsOf(c))
      /\ AmountIn(c, statuses)' = SumOver(CountedIn(statuses)', WithdrawalsOf(c))
      /\ CountedIn(statuses) \in [Withdrawal -> Nat]
      /\ CountedIn(statuses)' \in [Withdrawal -> Nat]
  BY Counted, NextCounted
<1>2. \A w \in WithdrawalsOf(c) : CountedIn(statuses)'[w] \in Int
  BY <1>1, RowsFinite
<1> QED
  BY <1>1, <1>2, RowsFinite, SumSame

LEMMA AmountChanges ==
    ASSUME TypeOK, TypeOK', NEW c \in Coach, NEW statuses, NEW v \in WithdrawalsOf(c),
           \A w \in WithdrawalsOf(c) \ {v} : CountedIn(statuses)'[w] = CountedIn(statuses)[w]
    PROVE AmountIn(c, statuses)'
            = AmountIn(c, statuses) - CountedIn(statuses)[v] + CountedIn(statuses)'[v]
<1>1. /\ AmountIn(c, statuses) = SumOver(CountedIn(statuses), WithdrawalsOf(c))
      /\ AmountIn(c, statuses)' = SumOver(CountedIn(statuses)', WithdrawalsOf(c))
      /\ CountedIn(statuses) \in [Withdrawal -> Nat]
      /\ CountedIn(statuses)' \in [Withdrawal -> Nat]
  BY Counted, NextCounted
<1> DEFINE f == CountedIn(statuses)
           g == CountedIn(statuses)'
<1>2. \A w \in WithdrawalsOf(c) : f[w] \in Int /\ g[w] \in Int
  BY <1>1, RowsFinite
<1>3. \A w \in WithdrawalsOf(c) \ {v} : f[w] = g[w]
  OBVIOUS
<1>4. IsFiniteSet(WithdrawalsOf(c))
  BY RowsFinite
<1> HIDE DEF f, g
<1>5. SumOver(g, WithdrawalsOf(c)) = SumOver(f, WithdrawalsOf(c)) - f[v] + g[v]
  BY <1>2, <1>3, <1>4, SumChange
<1> QED
  BY <1>1, <1>5 DEF f, g

\* A coach without an open withdrawal has nothing outstanding, one with an open withdrawal
\* has that amount outstanding.
LEMMA Outstanding ==
    ASSUME TypeOK, AtMostOneOpenWithdrawal, NEW c \in Coach
    PROVE /\ ~ HasOpenWithdrawal(c) => AmountIn(c, OpenStatus) = 0
          /\ \A w \in WithdrawalsOf(c) : withdrawal[w].status \in OpenStatus
                => AmountIn(c, OpenStatus) = withdrawal[w].amount
<1> DEFINE f == CountedIn(OpenStatus)
<1>1. /\ AmountIn(c, OpenStatus) = SumOver(f, WithdrawalsOf(c))
      /\ f \in [Withdrawal -> Nat]
  BY Counted
<1>2. IsFiniteSet(WithdrawalsOf(c)) /\ WithdrawalsOf(c) \subseteq Withdrawal
  BY RowsFinite
<1>3. ASSUME ~ HasOpenWithdrawal(c) PROVE AmountIn(c, OpenStatus) = 0
  <2>1. \A w \in WithdrawalsOf(c) : f[w] = 0
    BY <1>2, <1>3 DEF HasOpenWithdrawal, CountedIn
  <2> HIDE DEF f
  <2> QED
    BY <1>1, <1>2, <2>1, SumZero
<1>4. ASSUME NEW w \in WithdrawalsOf(c), withdrawal[w].status \in OpenStatus
      PROVE AmountIn(c, OpenStatus) = withdrawal[w].amount
  <2>1. \A v \in WithdrawalsOf(c) \ {w} : f[v] = 0
    BY <1>2, <1>4, WithdrawalOwner DEF AtMostOneOpenWithdrawal, CountedIn
  <2>2. f[w] = withdrawal[w].amount /\ f[w] \in Nat
    BY <1>1, <1>2, <1>4 DEF CountedIn
  <2>3. \A v \in WithdrawalsOf(c) : f[v] \in Int
    BY <1>1, <1>2
  <2> HIDE DEF f
  <2>4. SumOver(f, WithdrawalsOf(c) \ {w}) = 0
    BY <1>2, <2>1, FS_RemoveElement, SumZero
  <2>5. SumOver(f, WithdrawalsOf(c)) = f[w] + SumOver(f, WithdrawalsOf(c) \ {w})
    BY <1>2, <2>3, SumRemove
  <2> QED
    BY <1>1, <2>2, <2>4, <2>5
<1> QED
  BY <1>3, <1>4

\* What a request has computed is still there to be taken.
SeenOK ==
    \A c \in Coach :
        /\ requestAt[c] = "total" => seen[c] <= LedgerTotal(c)
        /\ requestAt[c] = "available" => seen[c] <= Available(c)

\* A step that leaves a coach no less keeps what was read for that coach good.
LEMMA SeenStays ==
    ASSUME RowsInv, RowsInv', SeenOK, NEW c \in Coach,
           requestAt'[c] = requestAt[c], seen'[c] = seen[c],
           requestAt[c] # "idle" => /\ Available(c) <= Available(c)'
                                    /\ LedgerTotal(c) <= LedgerTotal(c)'
    PROVE /\ requestAt'[c] = "total" => seen'[c] <= LedgerTotal(c)'
          /\ requestAt'[c] = "available" => seen'[c] <= Available(c)'
<1>1. /\ Available(c) \in Int /\ LedgerTotal(c) \in Int
      /\ Available(c)' \in Int /\ LedgerTotal(c)' \in Int
  BY Balances, NextBalances
<1>2. seen[c] \in Int
  BY DEF RowsInv, TypeOK
<1>3. /\ requestAt[c] = "total" => seen[c] <= LedgerTotal(c)
      /\ requestAt[c] = "available" => seen[c] <= Available(c)
  BY DEF SeenOK
<1> QED
  BY <1>1, <1>2, <1>3

\* Rows of one coach that no step of another touches.
LEMMA OthersSame ==
    ASSUME RowsInv, RowsInv', NEW c \in Coach,
           \A s \in SalesOf(c) : Worth(s)' = Worth(s) /\ FreeOf'[s] = FreeOf[s],
           \A w \in WithdrawalsOf(c) : payoutEntries'[w] = payoutEntries[w],
           adjusted'[c] = adjusted[c]
    PROVE Available(c)' = Available(c) /\ LedgerTotal(c)' = LedgerTotal(c)
<1>1. \A s \in SalesOf(c) : saleEntries'[s] = saleEntries[s]
  BY RowsFinite DEF RowsInv, LedgerInv, LedgerMatchesRows
<1>2. Balance(FreeOf, payoutEntries, adjusted, c) = Balance(FreeOf', payoutEntries', adjusted', c)
  BY Balances, NextBalances, BalanceSame
<1>3. Balance(saleEntries, payoutEntries, adjusted, c)
        = Balance(saleEntries', payoutEntries', adjusted', c)
  BY <1>1, Balances, NextBalances, BalanceSame
<1> QED
  BY <1>2, <1>3, Balances, NextBalances

\* A payout row of the coach changes, and nothing else.
LEMMA PayoutMoves ==
    ASSUME RowsInv, RowsInv', NEW c \in Coach, NEW v \in WithdrawalsOf(c),
           \A s \in SalesOf(c) : FreeOf'[s] = FreeOf[s],
           \A w \in WithdrawalsOf(c) \ {v} : payoutEntries'[w] = payoutEntries[w],
           UNCHANGED adjusted
    PROVE Available(c)' = Available(c) - payoutEntries[v] + payoutEntries'[v]
<1>1. Balance(FreeOf', payoutEntries, adjusted, c) = Balance(FreeOf, payoutEntries, adjusted, c)
  BY Balances, NextBalances, BalanceSame
<1>2. Balance(FreeOf', payoutEntries', adjusted, c)
        = Balance(FreeOf', payoutEntries, adjusted, c) - payoutEntries[v] + payoutEntries'[v]
  BY Balances, NextBalances, BalancePayout
<1>3. adjusted' = adjusted
  OBVIOUS
<1> QED
  BY <1>1, <1>2, <1>3, Balances, NextBalances

AmountsStay ==
    \A c \in Coach : /\ AmountIn(c, OpenStatus)' = AmountIn(c, OpenStatus)
                     /\ AmountIn(c, {"PAID"})' = AmountIn(c, {"PAID"})

LEMMA AsCredit ==
    ASSUME RowsInv, RowsInv', AmountsStay, \A c \in Coach : Available(c) <= Available(c)'
    PROVE Promise!Next
<1>1. \A c \in Coach : Available(c) \in Int /\ Available(c)' \in Int
  BY Balances, NextBalances
<1>2. \A c \in Coach : Available(c)' >= Available(c)
  BY <1>1
<1>3. Promise!Credit
  BY <1>2 DEF AmountsStay, Promise!Credit
<1> QED
  BY <1>3 DEF Promise!Next

LEMMA AsDebit ==
    ASSUME RowsInv, RowsInv', AmountsStay, NEW c \in Coach, Available(c)' <= Available(c),
           \A d \in Coach \ {c} : Available(d)' = Available(d)
    PROVE Promise!Next
<1>1. \A d \in Coach : Available(d) \in Int /\ Available(d)' \in Int
  BY Balances, NextBalances
<1>2. CASE Available(c)' = Available(c)
  <2>1. \A d \in Coach : Available(d)' = Available(d)
    BY <1>2
  <2> QED
    BY <1>1, <2>1, AsCredit
<1>3. CASE Available(c)' # Available(c)
  <2>1. Available(c)' < Available(c)
    BY <1>1, <1>3
  <2>2. Promise!Debit(c)
    BY <2>1 DEF AmountsStay, Promise!Debit
  <2> QED
    BY <2>2 DEF Promise!Next
<1> QED
  BY <1>2, <1>3

LEMMA AsWithdraw ==
    ASSUME NEW c \in Coach, NEW n, AmountIn(c, OpenStatus) = 0, n \in 1..Available(c),
           AmountIn(c, OpenStatus)' = n, Available(c)' = Available(c) - n,
           \A d \in Coach \ {c} : /\ AmountIn(d, OpenStatus)' = AmountIn(d, OpenStatus)
                                  /\ Available(d)' = Available(d),
           \A d \in Coach : AmountIn(d, {"PAID"})' = AmountIn(d, {"PAID"})
    PROVE Promise!Next
<1>1. Promise!Withdraw(c)
  BY DEF Promise!Withdraw
<1> QED
  BY <1>1 DEF Promise!Next

LEMMA AsPayOut ==
    ASSUME NEW c \in Coach, AmountIn(c, OpenStatus) > 0, AmountIn(c, OpenStatus)' = 0,
           AmountIn(c, {"PAID"})' = AmountIn(c, {"PAID"}) + AmountIn(c, OpenStatus),
           \A d \in Coach \ {c} : /\ AmountIn(d, OpenStatus)' = AmountIn(d, OpenStatus)
                                  /\ AmountIn(d, {"PAID"})' = AmountIn(d, {"PAID"}),
           \A d \in Coach : Available(d)' = Available(d)
    PROVE Promise!Next
<1>1. Promise!PayOut(c)
  BY DEF Promise!PayOut
<1> QED
  BY <1>1 DEF Promise!Next

LEMMA AsReturn ==
    ASSUME NEW c \in Coach, AmountIn(c, OpenStatus) > 0, AmountIn(c, OpenStatus)' = 0,
           Available(c)' = Available(c) + AmountIn(c, OpenStatus),
           \A d \in Coach \ {c} : /\ AmountIn(d, OpenStatus)' = AmountIn(d, OpenStatus)
                                  /\ Available(d)' = Available(d),
           \A d \in Coach : AmountIn(d, {"PAID"})' = AmountIn(d, {"PAID"})
    PROVE Promise!Next
<1>1. Promise!Return(c)
  BY DEF Promise!Return
<1> QED
  BY <1>1 DEF Promise!Next

Accounted == SeenOK' /\ Promise!Next

LEMMA SameWithdrawals ==
    ASSUME RowsInv, UNCHANGED withdrawal PROVE AmountsStay
BY DEF AmountsStay, AmountIn

LEMMA QuietStep ==
    ASSUME RowsInv, RowsInv', SeenOK, AmountsStay,
           UNCHANGED <<payoutEntries, adjusted, requestAt, seen>>,
           \A s \in Sale : Worth(s) <= Worth(s)' /\ FreeOf[s] <= FreeOf'[s]
    PROVE Accounted
<1>1. \A c \in Coach : Available(c) <= Available(c)' /\ LedgerTotal(c) <= LedgerTotal(c)'
  BY NoneLess
<1>2. ASSUME NEW c \in Coach
      PROVE /\ requestAt'[c] = "total" => seen'[c] <= LedgerTotal(c)'
            /\ requestAt'[c] = "available" => seen'[c] <= Available(c)'
  <2>1. requestAt'[c] = requestAt[c] /\ seen'[c] = seen[c]
    OBVIOUS
  <2> QED
    BY <1>1, <2>1, SeenStays
<1>3. SeenOK'
  BY <1>2 DEF SeenOK
<1>4. Promise!Next
  BY <1>1, AsCredit
<1> QED
  BY <1>3, <1>4 DEF Accounted

LEMMA SaleStep ==
    ASSUME RowsInv, RowsInv', SeenOK, NEW s \in Sale,
           RecordEarning(s) \/ HoldEnds(s) \/ SetFee(s)
    PROVE Accounted
<1>1. /\ UNCHANGED <<payoutEntries, adjusted, withdrawal, requestAt, seen>>
      /\ \A t \in Sale : Worth(t) <= Worth(t)' /\ FreeOf[t] <= FreeOf'[t]
  BY FreshSale
<1> QED
  BY <1>1, SameWithdrawals, QuietStep

LEMMA ReleaseStep == ASSUME RowsInv, RowsInv', SeenOK, ReleaseDue PROVE Accounted
<1>1. UNCHANGED withdrawal
  BY DEF ReleaseDue
<1> QED
  BY <1>1, StatusesMove, SameWithdrawals, QuietStep

\* A step that changes the available balance of one coach who is not in a request.
LEMMA LockedStep ==
    ASSUME RowsInv, RowsInv', SeenOK, NEW c \in Coach, Unlocked(c),
           UNCHANGED <<requestAt, seen>>,
           \A d \in Coach \ {c} : Available(d)' = Available(d) /\ LedgerTotal(d)' = LedgerTotal(d)
    PROVE SeenOK'
<1>1. ASSUME NEW d \in Coach
      PROVE /\ requestAt'[d] = "total" => seen'[d] <= LedgerTotal(d)'
            /\ requestAt'[d] = "available" => seen'[d] <= Available(d)'
  <2>1. requestAt[d] # "idle" => /\ Available(d) <= Available(d)'
                                 /\ LedgerTotal(d) <= LedgerTotal(d)'
    BY Balances DEF Unlocked
  <2> QED
    BY <2>1, SeenStays
<1> QED
  BY <1>1 DEF SeenOK

LEMMA RefundStep ==
    ASSUME RowsInv, RowsInv', SeenOK, NEW s \in Sale, NEW delta \in RefundDeltas(s),
           ReverseEarning(s, delta)
    PROVE Accounted
<1> DEFINE c == CoachOf[s]
<1>1. /\ UNCHANGED <<payoutEntries, adjusted, withdrawal, requestAt, seen>>
      /\ Unlocked(c)
      /\ FreeOf'[s] <= FreeOf[s]
      /\ \A t \in Sale \ {s} : Worth(t)' = Worth(t) /\ FreeOf'[t] = FreeOf[t]
  BY RefundTakes
<1>2. c \in Coach
  BY WalletAssumption
<1>3. ASSUME NEW d \in Coach \ {c}
      PROVE Available(d)' = Available(d) /\ LedgerTotal(d)' = LedgerTotal(d)
  <2>1. SalesOf(d) \subseteq Sale \ {s}
    BY DEF SalesOf
  <2> QED
    BY <1>1, <2>1, OthersSame
<1>4. Available(c)' <= Available(c)
  <2>1. \A t \in SalesOf(c) : FreeOf'[t] <= FreeOf[t]
    <3>1. \A t \in SalesOf(c) : FreeOf'[t] \in Int /\ FreeOf[t] \in Int /\ t \in Sale
      BY <1>2, Balances, NextBalances, RowsFinite
    <3> QED
      BY <1>1, <3>1
  <2>2. Balance(FreeOf', payoutEntries, adjusted, c) <= Balance(FreeOf, payoutEntries, adjusted, c)
    BY <1>2, <2>1, Balances, NextBalances, BalanceGrows
  <2>3. payoutEntries' = payoutEntries /\ adjusted' = adjusted
    BY <1>1
  <2> QED
    BY <1>2, <2>2, <2>3, Balances, NextBalances
<1>5. SeenOK'
  BY <1>1, <1>2, <1>3, LockedStep
<1>6. Promise!Next
  BY <1>1, <1>2, <1>3, <1>4, SameWithdrawals, AsDebit
<1> QED
  BY <1>5, <1>6 DEF Accounted

LEMMA AdjustStep ==
    ASSUME RowsInv, RowsInv', SeenOK, NEW c \in Coach, AdjustWallet(c)
    PROVE Accounted
<1>1. /\ UNCHANGED <<payoutEntries, earning, saleEntries, withdrawal, requestAt, seen>>
      /\ Unlocked(c)
      /\ \A d \in Coach \ {c} : adjusted'[d] = adjusted[d]
  BY DEF AdjustWallet, RowsInv, TypeOK
<1>2. \A s \in Sale : Worth(s)' = Worth(s) /\ FreeOf'[s] = FreeOf[s]
  BY <1>1 DEF Worth, FreeOf
<1>3. ASSUME NEW d \in Coach, adjusted'[d] = adjusted[d]
      PROVE Available(d)' = Available(d) /\ LedgerTotal(d)' = LedgerTotal(d)
  BY <1>1, <1>2, <1>3, RowsFinite, OthersSame
<1>4. SeenOK'
  BY <1>1, <1>3, LockedStep
<1>5. Available(c) \in Int /\ Available(c)' \in Int
  BY Balances, NextBalances
<1>6. ASSUME Available(c)' <= Available(c) PROVE Promise!Next
  BY <1>1, <1>3, <1>6, SameWithdrawals, AsDebit
<1>7. ASSUME Available(c) <= Available(c)' PROVE Promise!Next
  <2>1. \A d \in Coach : Available(d) <= Available(d)'
    BY <1>1, <1>3, <1>7, Balances
  <2> QED
    BY <1>1, <2>1, SameWithdrawals, AsCredit
<1>8. Promise!Next
  BY <1>5, <1>6, <1>7
<1> QED
  BY <1>4, <1>8 DEF Accounted

\* The two reads of a request, its beginning and its end: nobody's money moves.
LEMMA ReadStep ==
    ASSUME RowsInv, RowsInv', SeenOK, NEW c \in Coach,
           \/ SavePayoutDetails(c) \/ BeginRequest(c) \/ ReadLedgerTotal(c) \/ ReadOnHold(c)
           \/ AbandonRequest(c) \/ SetCoachShare(c)
    PROVE Accounted
<1>1. /\ UNCHANGED <<payoutEntries, earning, saleEntries, withdrawal, adjusted>>
      /\ \A d \in Coach \ {c} : requestAt'[d] = requestAt[d] /\ seen'[d] = seen[d]
  BY DEF SavePayoutDetails, BeginRequest, ReadLedgerTotal, ReadOnHold, AbandonRequest,
         SetCoachShare, RequestStep, RowsInv, TypeOK
<1>2. \A d \in Coach : Available(d)' = Available(d) /\ LedgerTotal(d)' = LedgerTotal(d)
  BY <1>1 DEF Available, LedgerTotal, OnHoldTotal, Worth
<1>3. \A d \in Coach : /\ Available(d) = LedgerTotal(d) - OnHoldTotal(d)
                       /\ Available(d) \in Int /\ LedgerTotal(d) \in Int /\ OnHoldTotal(d) \in Int
  BY Balances
<1>4. /\ requestAt'[c] = "total" => seen'[c] <= LedgerTotal(c)
      /\ requestAt'[c] = "available" => seen'[c] <= Available(c)
  <2>1. CASE SavePayoutDetails(c) \/ SetCoachShare(c)
    BY <2>1 DEF SavePayoutDetails, SetCoachShare, SeenOK
  <2>2. CASE BeginRequest(c) \/ AbandonRequest(c)
    BY <2>2 DEF BeginRequest, AbandonRequest, RequestStep, RowsInv, TypeOK
  <2>3. CASE ReadLedgerTotal(c)
    <3>1. requestAt'[c] = "total" /\ seen'[c] = LedgerTotal(c)
      BY <2>3 DEF ReadLedgerTotal, RequestStep, RowsInv, TypeOK
    <3> QED
      BY <1>3, <3>1
  <2>4. CASE ReadOnHold(c)
    <3>1. /\ requestAt[c] = "total" /\ requestAt'[c] = "available"
          /\ seen'[c] = seen[c] - OnHoldTotal(c)
      BY <2>4 DEF ReadOnHold, RequestStep, RowsInv, TypeOK
    <3>2. seen[c] <= LedgerTotal(c) /\ seen[c] \in Int
      BY <3>1 DEF SeenOK, RowsInv, TypeOK
    <3> QED
      BY <1>3, <3>1, <3>2
  <2> QED
    BY <2>1, <2>2, <2>3, <2>4
<1>5. SeenOK'
  <2>1. ASSUME NEW d \in Coach
        PROVE /\ requestAt'[d] = "total" => seen'[d] <= LedgerTotal(d)'
              /\ requestAt'[d] = "available" => seen'[d] <= Available(d)'
    BY <1>1, <1>2, <1>4 DEF SeenOK
  <2> QED
    BY <2>1 DEF SeenOK
<1>6. Promise!Next
  <2>1. \A d \in Coach : Available(d) <= Available(d)'
    BY <1>2, <1>3
  <2> QED
    BY <1>1, <2>1, SameWithdrawals, AsCredit
<1> QED
  BY <1>5, <1>6 DEF Accounted

\* A step that writes one withdrawal of a coach.
LEMMA OneWithdrawal ==
    ASSUME RowsInv, RowsInv', NEW v \in Withdrawal,
           \A w \in Withdrawal \ {v} : withdrawal'[w] = withdrawal[w],
           NEW d \in Coach, d # v[1], NEW statuses
    PROVE AmountIn(d, statuses)' = AmountIn(d, statuses)
<1>1. \A w \in WithdrawalsOf(d) : w \in Withdrawal /\ withdrawal'[w] = withdrawal[w]
  BY WithdrawalOwner
<1>2. \A w \in WithdrawalsOf(d) : CountedIn(statuses)'[w] = CountedIn(statuses)[w]
  BY <1>1 DEF CountedIn
<1> QED
  BY <1>2, SameAmount DEF RowsInv

LEMMA WrittenAmount ==
    ASSUME RowsInv, RowsInv', NEW c \in Coach, NEW v \in WithdrawalsOf(c),
           \A w \in Withdrawal \ {v} : withdrawal'[w] = withdrawal[w], NEW statuses
    PROVE LET was == IF withdrawal[v].status \in statuses THEN withdrawal[v].amount ELSE 0
              now == IF withdrawal'[v].status \in statuses THEN withdrawal'[v].amount ELSE 0
          IN  AmountIn(c, statuses)' = AmountIn(c, statuses) - was + now
<1> DEFINE was == IF withdrawal[v].status \in statuses THEN withdrawal[v].amount ELSE 0
           now == IF withdrawal'[v].status \in statuses THEN withdrawal'[v].amount ELSE 0
<1>1. \A w \in WithdrawalsOf(c) : w \in Withdrawal
  BY WithdrawalOwner
<1>2. \A w \in WithdrawalsOf(c) \ {v} : CountedIn(statuses)'[w] = CountedIn(statuses)[w]
  BY <1>1 DEF CountedIn
<1>3. CountedIn(statuses)[v] = was /\ CountedIn(statuses)'[v] = now
  BY <1>1 DEF CountedIn
<1> HIDE DEF was, now
<1>4. AmountIn(c, statuses)' = AmountIn(c, statuses) - was + now
  BY <1>2, <1>3, AmountChanges DEF RowsInv
<1> QED
  BY <1>4 DEF was, now

LEMMA AmountType == ASSUME RowsInv, NEW c \in Coach, NEW statuses
                    PROVE AmountIn(c, statuses) \in Nat
<1>1. /\ AmountIn(c, statuses) = SumOver(CountedIn(statuses), WithdrawalsOf(c))
      /\ CountedIn(statuses) \in [Withdrawal -> Nat]
  BY Counted DEF RowsInv
<1> QED
  BY <1>1, RowsFinite, SumNat

LEMMA CreateStep ==
    ASSUME RowsInv, RowsInv', OneOpenInv, SeenOK, NEW c \in Coach, CreateWithdrawal(c)
    PROVE Accounted
<1>1. PICK v \in WithdrawalsOf(c) :
        /\ withdrawal[v].status = "NONE"
        /\ withdrawal' = [withdrawal EXCEPT ![v] = [status |-> "REQUESTED", amount |-> seen[c]]]
        /\ payoutEntries' = [payoutEntries EXCEPT ![v] = @ - seen[c]]
  BY DEF CreateWithdrawal
<1>2. v \in Withdrawal /\ v[1] = c
  BY WithdrawalOwner
<1>3. /\ requestAt[c] = "available" /\ seen[c] \in Nat \ {0}
      /\ UNCHANGED <<earning, saleEntries, adjusted>>
      /\ requestAt'[c] = "idle"
      /\ \A d \in Coach \ {c} : requestAt'[d] = requestAt[d] /\ seen'[d] = seen[d]
  BY DEF CreateWithdrawal, Payable, RequestStep, RowsInv, TypeOK
<1> DEFINE n == seen[c]
<1>4. /\ withdrawal'[v] = [status |-> "REQUESTED", amount |-> n]
      /\ \A w \in Withdrawal \ {v} : withdrawal'[w] = withdrawal[w]
      /\ payoutEntries'[v] = payoutEntries[v] - n
      /\ \A w \in Withdrawal \ {v} : payoutEntries'[w] = payoutEntries[w]
  BY <1>1, <1>2 DEF RowsInv, TypeOK
<1>5. \A s \in Sale : Worth(s)' = Worth(s) /\ FreeOf'[s] = FreeOf[s]
  BY <1>3 DEF Worth, FreeOf
<1>6. /\ AmountIn(c, OpenStatus) = 0 /\ n \in 1..Available(c)
  <2>1. ~ HasOpenWithdrawal(c)
    BY <1>3 DEF OneOpenInv, RequestExcludesOpen
  <2>2. AmountIn(c, OpenStatus) = 0
    BY <2>1, Outstanding DEF RowsInv, OneOpenInv
  <2>3. n <= Available(c) /\ Available(c) \in Int
    BY <1>3, Balances DEF SeenOK
  <2> QED
    BY <1>3, <2>2, <2>3
<1>7. AmountIn(c, OpenStatus)' = n
  <2>1. /\ withdrawal[v].status \notin OpenStatus /\ withdrawal'[v].status \in OpenStatus
        /\ withdrawal'[v].amount = n
    BY <1>1, <1>4 DEF OpenStatus
  <2>2. AmountIn(c, OpenStatus)' = AmountIn(c, OpenStatus) - 0 + n
    BY <1>4, <2>1, WrittenAmount
  <2> QED
    BY <1>3, <1>6, <2>2
<1>8. AmountIn(c, {"PAID"})' = AmountIn(c, {"PAID"})
  <2>1. withdrawal[v].status \notin {"PAID"} /\ withdrawal'[v].status \notin {"PAID"}
    BY <1>1, <1>4
  <2>2. AmountIn(c, {"PAID"})' = AmountIn(c, {"PAID"}) - 0 + 0
    BY <1>4, <2>1, WrittenAmount
  <2> QED
    BY <2>2, AmountType
<1>9. Available(c)' = Available(c) - n
  <2>1. \A w \in WithdrawalsOf(c) \ {v} : payoutEntries'[w] = payoutEntries[w]
    BY <1>4, WithdrawalOwner
  <2>2. \A s \in SalesOf(c) : FreeOf'[s] = FreeOf[s]
    BY <1>5, RowsFinite
  <2>3. Available(c)' = Available(c) - payoutEntries[v] + payoutEntries'[v]
    BY <1>3, <2>1, <2>2, PayoutMoves
  <2>4. Available(c) \in Int /\ payoutEntries[v] \in Int
    BY <1>2, Balances
  <2> QED
    BY <1>3, <1>4, <2>3, <2>4
<1>10. ASSUME NEW d \in Coach \ {c}
       PROVE /\ AmountIn(d, OpenStatus)' = AmountIn(d, OpenStatus)
             /\ AmountIn(d, {"PAID"})' = AmountIn(d, {"PAID"})
             /\ Available(d)' = Available(d) /\ LedgerTotal(d)' = LedgerTotal(d)
  <2>1. \A w \in WithdrawalsOf(d) : payoutEntries'[w] = payoutEntries[w]
    BY <1>2, <1>4, WithdrawalOwner
  <2>2. Available(d)' = Available(d) /\ LedgerTotal(d)' = LedgerTotal(d)
    BY <1>3, <1>5, <2>1, RowsFinite, OthersSame
  <2> QED
    BY <1>2, <1>4, <2>2, OneWithdrawal
<1>11. Promise!Next
  <2> HIDE DEF n
  <2> QED
    BY <1>6, <1>7, <1>8, <1>9, <1>10, AsWithdraw
<1>12. SeenOK'
  <2>1. ASSUME NEW d \in Coach \ {c}
        PROVE /\ requestAt'[d] = "total" => seen'[d] <= LedgerTotal(d)'
              /\ requestAt'[d] = "available" => seen'[d] <= Available(d)'
    BY <1>3, <1>10 DEF SeenOK
  <2> QED
    BY <1>3, <2>1 DEF SeenOK
<1> QED
  BY <1>11, <1>12 DEF Accounted

LEMMA ApproveStep ==
    ASSUME RowsInv, RowsInv', SeenOK, NEW v \in Withdrawal, ApproveWithdrawal(v)
    PROVE Accounted
<1>1. /\ UNCHANGED <<payoutEntries, adjusted, requestAt, seen, earning, saleEntries>>
      /\ withdrawal[v].status = "REQUESTED"
      /\ withdrawal'[v].status = "APPROVED" /\ withdrawal'[v].amount = withdrawal[v].amount
      /\ \A w \in Withdrawal \ {v} : withdrawal'[w] = withdrawal[w]
  BY DEF ApproveWithdrawal, RowsInv, TypeOK
<1>2. \A w \in Withdrawal : /\ CountedIn(OpenStatus)'[w] = CountedIn(OpenStatus)[w]
                            /\ CountedIn({"PAID"})'[w] = CountedIn({"PAID"})[w]
  BY <1>1 DEF CountedIn, OpenStatus
<1>3. AmountsStay
  BY <1>2, RowsFinite, SameAmount DEF AmountsStay, RowsInv
<1>4. \A s \in Sale : Worth(s)' = Worth(s) /\ FreeOf'[s] = FreeOf[s]
  BY <1>1 DEF Worth, FreeOf
<1>5. \A s \in Sale : Worth(s) \in Nat /\ FreeOf[s] \in Int
  BY WorthNat, Balances
<1>6. \A s \in Sale : Worth(s) <= Worth(s)' /\ FreeOf[s] <= FreeOf'[s]
  BY <1>4, <1>5
<1> QED
  BY <1>1, <1>3, <1>6, QuietStep

\* Either outcome of a decision that ends a withdrawal.
LEMMA Decided ==
    ASSUME RowsInv, RowsInv', OneOpenInv, AmountsOK, NEW v \in Withdrawal,
           PayWithdrawal(v) \/ RejectWithdrawal(v)
    PROVE LET c == v[1]
              n == withdrawal[v].amount
          IN  /\ c \in Coach /\ v \in WithdrawalsOf(c) /\ Unlocked(c)
              /\ UNCHANGED <<adjusted, requestAt, seen>>
              /\ n \in Nat \ {0} /\ AmountIn(c, OpenStatus) = n /\ AmountIn(c, OpenStatus)' = 0
              /\ withdrawal[v].status \in OpenStatus
              /\ \A w \in Withdrawal \ {v} : withdrawal'[w] = withdrawal[w]
              /\ \A s \in Sale : Worth(s)' = Worth(s) /\ FreeOf'[s] = FreeOf[s]
              /\ \A d \in Coach \ {c} :
                    /\ AmountIn(d, OpenStatus)' = AmountIn(d, OpenStatus)
                    /\ AmountIn(d, {"PAID"})' = AmountIn(d, {"PAID"})
<1> DEFINE c == v[1]
           n == withdrawal[v].amount
<1>1. c \in Coach /\ v \in WithdrawalsOf(c)
  BY WithdrawalOwner
<1>2. /\ Unlocked(c) /\ withdrawal[v].status \in OpenStatus
      /\ UNCHANGED <<adjusted, requestAt, seen>>
      /\ withdrawal'[v].status \notin OpenStatus
      /\ \A w \in Withdrawal \ {v} : withdrawal'[w] = withdrawal[w]
  BY DEF PayWithdrawal, RejectWithdrawal, OpenStatus, RowsInv, TypeOK
<1>3. n \in Nat \ {0}
  BY <1>2 DEF AmountsOK, OpenStatus
<1>4. AmountIn(c, OpenStatus) = n
  BY <1>1, <1>2, Outstanding DEF RowsInv, OneOpenInv
<1>5. AmountIn(c, OpenStatus)' = 0
  <2>1. AmountIn(c, OpenStatus)' = AmountIn(c, OpenStatus) - n + 0
    BY <1>1, <1>2, WrittenAmount
  <2> QED
    BY <1>3, <1>4, <2>1
<1>6. \A s \in Sale : Worth(s)' = Worth(s) /\ FreeOf'[s] = FreeOf[s]
  <2>1. CASE PayWithdrawal(v)
    <3>1. ~ ReleaseDue
      BY <1>2 DEF ReleaseDue
    <3> QED
      BY <2>1, <3>1, StatusesMove
  <2>2. CASE RejectWithdrawal(v)
    BY <2>2 DEF RejectWithdrawal, Worth, FreeOf
  <2> QED
    BY <2>1, <2>2
<1>7. \A d \in Coach \ {c} : /\ AmountIn(d, OpenStatus)' = AmountIn(d, OpenStatus)
                             /\ AmountIn(d, {"PAID"})' = AmountIn(d, {"PAID"})
  BY <1>2, OneWithdrawal
<1> QED
  BY <1>1, <1>2, <1>3, <1>4, <1>5, <1>6, <1>7

LEMMA PayStep ==
    ASSUME RowsInv, RowsInv', OneOpenInv, AmountsOK, SeenOK, NEW v \in Withdrawal,
           PayWithdrawal(v)
    PROVE Accounted
<1> DEFINE c == v[1]
           n == withdrawal[v].amount
<1>1. /\ c \in Coach /\ v \in WithdrawalsOf(c)
      /\ UNCHANGED <<adjusted, requestAt, seen>>
      /\ n \in Nat \ {0} /\ AmountIn(c, OpenStatus) = n /\ AmountIn(c, OpenStatus)' = 0
      /\ withdrawal[v].status \in OpenStatus
      /\ \A w \in Withdrawal \ {v} : withdrawal'[w] = withdrawal[w]
      /\ \A s \in Sale : Worth(s)' = Worth(s) /\ FreeOf'[s] = FreeOf[s]
      /\ \A d \in Coach \ {c} : /\ AmountIn(d, OpenStatus)' = AmountIn(d, OpenStatus)
                                /\ AmountIn(d, {"PAID"})' = AmountIn(d, {"PAID"})
  BY Decided
<1>2. UNCHANGED payoutEntries /\ withdrawal'[v].status = "PAID" /\ withdrawal'[v].amount = n
  BY DEF PayWithdrawal, RowsInv, TypeOK
<1>3. \A d \in Coach : Available(d)' = Available(d) /\ LedgerTotal(d)' = LedgerTotal(d)
  BY <1>1, <1>2, RowsFinite, OthersSame
<1>4. AmountIn(c, {"PAID"})' = AmountIn(c, {"PAID"}) + AmountIn(c, OpenStatus)
  <2>1. withdrawal[v].status \notin {"PAID"} /\ withdrawal'[v].status \in {"PAID"}
    BY <1>1, <1>2 DEF OpenStatus
  <2>2. AmountIn(c, {"PAID"})' = AmountIn(c, {"PAID"}) - 0 + n
    BY <1>1, <1>2, <2>1, WrittenAmount
  <2>3. AmountIn(c, {"PAID"}) \in Nat
    BY <1>1, AmountType
  <2> QED
    BY <1>1, <2>2, <2>3
<1>5. AmountIn(c, OpenStatus) > 0
  BY <1>1
<1>6. Promise!Next
  <2> HIDE DEF c, n
  <2> QED
    BY <1>1, <1>3, <1>4, <1>5, AsPayOut
<1>7. SeenOK'
  BY <1>1, <1>3 DEF SeenOK
<1> QED
  BY <1>6, <1>7 DEF Accounted

LEMMA RejectStep ==
    ASSUME RowsInv, RowsInv', OneOpenInv, AmountsOK, SeenOK, NEW v \in Withdrawal,
           RejectWithdrawal(v)
    PROVE Accounted
<1> DEFINE c == v[1]
           n == withdrawal[v].amount
<1>1. /\ c \in Coach /\ v \in WithdrawalsOf(c) /\ Unlocked(c)
      /\ UNCHANGED <<adjusted, requestAt, seen>>
      /\ n \in Nat \ {0} /\ AmountIn(c, OpenStatus) = n /\ AmountIn(c, OpenStatus)' = 0
      /\ withdrawal[v].status \in OpenStatus
      /\ \A w \in Withdrawal \ {v} : withdrawal'[w] = withdrawal[w]
      /\ \A s \in Sale : Worth(s)' = Worth(s) /\ FreeOf'[s] = FreeOf[s]
      /\ \A d \in Coach \ {c} : /\ AmountIn(d, OpenStatus)' = AmountIn(d, OpenStatus)
                                /\ AmountIn(d, {"PAID"})' = AmountIn(d, {"PAID"})
  BY Decided
<1>2. /\ withdrawal'[v].status = "REJECTED"
      /\ payoutEntries'[v] = payoutEntries[v] + n
      /\ \A w \in Withdrawal \ {v} : payoutEntries'[w] = payoutEntries[w]
  BY DEF RejectWithdrawal, RowsInv, TypeOK
<1>3. Available(c)' = Available(c) + AmountIn(c, OpenStatus)
  <2>1. \A w \in WithdrawalsOf(c) \ {v} : payoutEntries'[w] = payoutEntries[w]
    BY <1>2, WithdrawalOwner
  <2>2. \A s \in SalesOf(c) : FreeOf'[s] = FreeOf[s]
    BY <1>1, RowsFinite
  <2>3. Available(c)' = Available(c) - payoutEntries[v] + payoutEntries'[v]
    BY <1>1, <2>1, <2>2, PayoutMoves
  <2>4. Available(c) \in Int /\ payoutEntries[v] \in Int
    BY <1>1, Balances
  <2> QED
    BY <1>1, <1>2, <2>3, <2>4
<1>4. ASSUME NEW d \in Coach \ {c}
      PROVE Available(d)' = Available(d) /\ LedgerTotal(d)' = LedgerTotal(d)
  <2>1. \A w \in WithdrawalsOf(d) : payoutEntries'[w] = payoutEntries[w]
    BY <1>2, WithdrawalOwner
  <2> QED
    BY <1>1, <2>1, RowsFinite, OthersSame
<1>5. AmountIn(c, {"PAID"})' = AmountIn(c, {"PAID"})
  <2>1. withdrawal[v].status \notin {"PAID"} /\ withdrawal'[v].status \notin {"PAID"}
    BY <1>1, <1>2 DEF OpenStatus
  <2>2. AmountIn(c, {"PAID"})' = AmountIn(c, {"PAID"}) - 0 + 0
    BY <1>1, <2>1, WrittenAmount
  <2> QED
    BY <1>1, <2>2, AmountType
<1>6. AmountIn(c, OpenStatus) > 0
  BY <1>1
<1>7. Promise!Next
  <2> HIDE DEF c, n
  <2> QED
    BY <1>1, <1>3, <1>4, <1>5, <1>6, AsReturn
<1>8. SeenOK'
  BY <1>1, <1>4, LockedStep
<1> QED
  BY <1>7, <1>8 DEF Accounted

\* Every step of the wallet is one of the account, or changes nothing there.
LEMMA EveryStep ==
    ASSUME RowsInv, RowsInv', OneOpenInv, AmountsOK, SeenOK, Next PROVE Accounted
BY SaleStep, RefundStep, ReleaseStep, ReadStep, CreateStep, AdjustStep, ApproveStep, PayStep,
   RejectStep DEF Next

LEMMA SeenInvariant == Spec => []SeenOK
<1>1. Init => SeenOK
  BY DEF Init, SeenOK
<1>2. RowsInv /\ RowsInv' /\ OneOpenInv /\ AmountsOK /\ SeenOK /\ [Next]_vars => SeenOK'
  <2> SUFFICES ASSUME RowsInv, RowsInv', OneOpenInv, AmountsOK, SeenOK, [Next]_vars
               PROVE  SeenOK'
    OBVIOUS
  <2>1. CASE Next
    BY <2>1, EveryStep DEF Accounted
  <2>2. CASE UNCHANGED vars
    BY <2>2 DEF vars, SeenOK, LedgerTotal, Available, OnHoldTotal, Worth
  <2> QED
    BY <2>1, <2>2
<1> QED
  BY <1>1, <1>2, RowsInvariant, OneOpenInvariant, AmountsInvariant, PTL DEF Spec

\* requestWithdrawal takes its amount from two snapshots while settlement and the release
\* pass go on, and yet the wallet is the account it promises: a withdrawal never takes more
\* than is available when it commits, and is paid or returned whole.
THEOREM IsAnAccount == Spec => ImplementsAccount
<1>1. Init => Promise!Init
  <2> SUFFICES ASSUME Init PROVE Promise!Init
    OBVIOUS
  <2>1. ASSUME NEW c \in Coach
        PROVE Available(c) = 0 /\ AmountIn(c, OpenStatus) = 0 /\ AmountIn(c, {"PAID"}) = 0
    <3>1. \A s \in SalesOf(c) : saleEntries[s] = 0
      BY RowsFinite DEF Init
    <3>2. \A w \in WithdrawalsOf(c) : payoutEntries[w] = 0
      BY RowsFinite DEF Init
    <3>3. LedgerTotal(c) = 0
      <4>1. SumOver(saleEntries, SalesOf(c)) = 0 /\ SumOver(payoutEntries, WithdrawalsOf(c)) = 0
        BY <3>1, <3>2, RowsFinite, SumZero
      <4> QED
        BY <4>1 DEF LedgerTotal, Init
    <3>4. OnHoldTotal(c) = 0
      <4>1. {s \in SalesOf(c) : earning[s].status = "ON_HOLD"} = {}
        BY RowsFinite DEF Init, NoEarning
      <4> QED
        BY <4>1, SumEmpty DEF OnHoldTotal
    <3>5. ASSUME NEW statuses, "NONE" \notin statuses PROVE AmountIn(c, statuses) = 0
      <4>1. {w \in WithdrawalsOf(c) : withdrawal[w].status \in statuses} = {}
        BY <3>5, RowsFinite DEF Init
      <4> QED
        BY <4>1, SumEmpty DEF AmountIn
    <3> QED
      BY <3>3, <3>4, <3>5 DEF Available, OpenStatus
  <2> QED
    BY <2>1 DEF Promise!Init
<1>2. RowsInv /\ RowsInv' /\ OneOpenInv /\ AmountsOK /\ SeenOK /\ [Next]_vars
        => [Promise!Next]_(Promise!account)
  <2> SUFFICES ASSUME RowsInv, RowsInv', OneOpenInv, AmountsOK, SeenOK, [Next]_vars
               PROVE  [Promise!Next]_(Promise!account)
    OBVIOUS
  <2>1. CASE Next
    BY <2>1, EveryStep DEF Accounted
  <2>2. CASE UNCHANGED vars
    BY <2>2 DEF vars, Promise!account, LedgerTotal, Available, OnHoldTotal, Worth, AmountIn
  <2> QED
    BY <2>1, <2>2
<1> QED
  BY <1>1, <1>2, RowsInvariant, OneOpenInvariant, AmountsInvariant, SeenInvariant, PTL
  DEF Spec, ImplementsAccount, Promise!Spec

-------------------------------------------------------------------------------
(***************************************************************************)
(* The sales a payout marks withdrawn.                                     *)
(***************************************************************************)
\* The function that starts at a and gets each value from the one before it.
Follows(left, N, a, G) == left = [n \in 0..N |-> IF n = 0 THEN a ELSE G[<<n, left[n - 1]>>]]

\* A function defined from its value one earlier exists.
LEMMA StepsExist ==
    ASSUME NEW a \in Int, NEW G, \A n \in Nat : \A x \in Int : G[<<n, x>>] \in Int, NEW N \in Nat
    PROVE \E left \in [0..N -> Int] : Follows(left, N, a, G)
<1> DEFINE Bad == {n \in Nat : ~ \E left \in [0..n -> Int] : Follows(left, n, a, G)}
<1> SUFFICES ASSUME Bad # {} PROVE FALSE
  BY DEF Bad
<1>1. PICK m \in Bad : \A n \in Bad : m <= n
  BY LeastNumber, Bad \subseteq Nat
<1>2. m \in Nat /\ ~ \E left \in [0..m -> Int] : Follows(left, m, a, G)
  BY <1>1
<1>3. CASE m = 0
  <2> DEFINE left == [n \in 0..0 |-> a]
  <2>1. left \in [0..m -> Int] /\ Follows(left, m, a, G)
    BY <1>3 DEF Follows
  <2> QED
    BY <1>2, <2>1
<1>4. CASE m # 0
  <2>1. m - 1 \in Nat /\ m - 1 \notin Bad
    BY <1>1, <1>2, <1>4
  <2>2. PICK old \in [0..(m - 1) -> Int] : Follows(old, m - 1, a, G)
    BY <2>1
  <2> DEFINE left == [n \in 0..m |-> IF n = m THEN G[<<m, old[m - 1]>>] ELSE old[n]]
  <2>3. old[m - 1] \in Int /\ G[<<m, old[m - 1]>>] \in Int
    BY <1>2, <2>1, <2>2
  <2>4. left \in [0..m -> Int]
    BY <1>2, <2>2, <2>3
  <2>5. ASSUME NEW n \in 0..m
        PROVE left[n] = IF n = 0 THEN a ELSE G[<<n, left[n - 1]>>]
    <3>1. CASE n = m
      <4>1. n - 1 \in 0..m /\ n - 1 # m /\ left[n - 1] = old[m - 1] /\ n # 0
        BY <1>2, <1>4, <2>1, <3>1
      <4>2. left[n] = G[<<m, old[m - 1]>>]
        BY <3>1
      <4> QED
        BY <3>1, <4>1, <4>2
    <3>2. CASE n # m
      <4>1. n \in 0..(m - 1) /\ left[n] = old[n] /\ (n # 0 => n - 1 \in 0..(m - 1) /\ left[n - 1] = old[n - 1])
        BY <1>2, <3>2
      <4>2. old[n] = IF n = 0 THEN a ELSE G[<<n, old[n - 1]>>]
        BY <2>2, <4>1 DEF Follows
      <4> QED
        BY <4>1, <4>2
    <3> QED
      BY <3>1, <3>2
  <2> HIDE DEF left
  <2>6. left = [n \in 0..m |-> IF n = 0 THEN a ELSE G[<<n, left[n - 1]>>]]
    <3>1. left = [n \in 0..m |-> left[n]]
      BY <2>4
    <3> QED
      BY <2>5, <3>1
  <2> QED
    BY <1>2, <2>4, <2>6 DEF Follows
<1> QED
  BY <1>3, <1>4

\* The order in which the sales were paid.
Ranked ==
    /\ \A s \in Recorded : earning[s].paidAt \in 1..Cardinality(Recorded)
    /\ \A s, t \in Recorded : earning[s].paidAt = earning[t].paidAt => s = t

WorthOf == [s \in Sale |-> Worth(s)]

\* What is left of an amount, sale by sale.
LEMMA LeftIs ==
    ASSUME RowsInv, NEW c \in Coach, NEW amount \in Nat
    PROVE LET left == LeftAfter(c, amount)
          IN  /\ left[0] = amount
              /\ \A n \in 1..Cardinality(Sale) :
                    left[n] = left[n - 1] - SumOver(WorthOf, Covered(c, n, left[n - 1]))
<1> DEFINE N == Cardinality(Sale)
           G == [p \in Nat \X Int |-> p[2] - SumOver(WorthOf, Covered(c, p[1], p[2]))]
           Is(left) == left = [n \in 0..N |-> IF n = 0 THEN amount
                         ELSE left[n - 1] - SumOver(WorthOf, Covered(c, n, left[n - 1]))]
           left == LeftAfter(c, amount)
<1>1. N \in Nat
  BY WalletAssumption, FS_CardinalityType
<1>2. ASSUME NEW n \in Nat, NEW x \in Int PROVE SumOver(WorthOf, Covered(c, n, x)) \in Int
  <2>1. Covered(c, n, x) \subseteq Sale
    BY RowsFinite DEF Covered, AvailableSales
  <2>2. IsFiniteSet(Covered(c, n, x)) /\ \A s \in Covered(c, n, x) : WorthOf[s] \in Int
    BY <2>1, WalletAssumption, FS_Subset, WorthNat DEF WorthOf
  <2> QED
    BY <2>2, SumInt
<1>3. \A n \in Nat : \A x \in Int : G[<<n, x>>] \in Int
  BY <1>2
<1>4. \A n \in Nat : \A x \in Int : G[<<n, x>>] = x - SumOver(WorthOf, Covered(c, n, x))
  OBVIOUS
<1> HIDE DEF G
<1>5. PICK old \in [0..N -> Int] : Follows(old, N, amount, G)
  <2>1. amount \in Int
    OBVIOUS
  <2> HIDE DEF N
  <2>2. \E old \in [0..N -> Int] : Follows(old, N, amount, G)
    BY <1>1, <1>3, <2>1, StepsExist
  <2> QED
    BY <2>2
<1>6. Is(old)
  <2>1. \A n \in 0..N : n # 0 => G[<<n, old[n - 1]>>]
                            = old[n - 1] - SumOver(WorthOf, Covered(c, n, old[n - 1]))
    <3>1. \A n \in 0..N : n # 0 => n \in Nat /\ n - 1 \in 0..N /\ old[n - 1] \in Int
      BY <1>1
    <3> QED
      BY <1>4, <3>1
  <2> QED
    BY <1>5, <2>1 DEF Follows
<1>7. left = CHOOSE l : Is(l)
  BY DEF LeftAfter, WorthOf
<1>8. Is(left)
  <2> HIDE DEF Is, left
  <2> QED
    BY <1>6, <1>7
<1>9. left[0] = amount
  BY <1>1, <1>8
<1>10. ASSUME NEW n \in 1..N
       PROVE left[n] = left[n - 1] - SumOver(WorthOf, Covered(c, n, left[n - 1]))
  <2>1. n \in 0..N /\ n # 0
    BY <1>1
  <2> HIDE DEF left
  <2> QED
    BY <1>8, <2>1
<1> HIDE DEF left
<1> QED
  BY <1>9, <1>10 DEF left

\* One look at a sale marks at most that sale, and never more than what is left.
LEMMA CoveredFits ==
    ASSUME RowsInv, Ranked, NEW c \in Coach, NEW n \in Nat, NEW left \in Nat
    PROVE /\ Covered(c, n, left) \subseteq Sale /\ IsFiniteSet(Covered(c, n, left))
          /\ SumOver(WorthOf, Covered(c, n, left)) \in 0..left
<1> DEFINE C == Covered(c, n, left)
<1>1. C \subseteq Sale /\ IsFiniteSet(C) /\ \A s \in C : WorthOf[s] \in Nat
  <2>1. C \subseteq Sale
    BY RowsFinite DEF Covered, AvailableSales
  <2> QED
    BY <2>1, WalletAssumption, FS_Subset, WorthNat DEF WorthOf
<1>2. CASE C = {}
  <2>1. SumOver(WorthOf, {}) = 0
    BY SumEmpty
  <2>2. SumOver(WorthOf, C) = 0
    BY <1>2, <2>1
  <2> QED
    BY <1>1, <2>2
<1>3. CASE C # {}
  <2>1. PICK s \in C : TRUE
    BY <1>3
  <2>2. C \ {s} = {}
    BY <1>1, <2>1 DEF Ranked, Covered, AvailableSales, Recorded
  <2>3. WorthOf[s] \in 1..left
    BY <1>1, <2>1 DEF Covered, WorthOf
  <2>4. \A t \in C : WorthOf[t] \in Int
    BY <1>1
  <2> HIDE DEF C
  <2>5. SumOver(WorthOf, C) = WorthOf[s] + SumOver(WorthOf, C \ {s})
    BY <1>1, <2>1, <2>4, SumRemove
  <2>6. SumOver(WorthOf, C \ {s}) = 0
    BY <2>2, SumEmpty
  <2>7. SumOver(WorthOf, C) \in 0..left
    BY <2>3, <2>5, <2>6
  <2> QED
    BY <1>1, <2>7 DEF C
<1> QED
  BY <1>2, <1>3

\* The sales marked by a payout are worth no more than what was paid out.
LEMMA MarkedFits ==
    ASSUME RowsInv, Ranked, NEW c \in Coach, NEW amount \in Nat
    PROVE SumOver(WorthOf, MarkWithdrawnUpTo(c, amount)) <= amount
<1> DEFINE N == Cardinality(Sale)
           left == LeftAfter(c, amount)
           Taken(n) == UNION {Covered(c, k, left[k - 1]) : k \in 1..n}
           Fine(n) == /\ left[n] \in 0..amount
                      /\ Taken(n) \subseteq Sale
                      /\ SumOver(WorthOf, Taken(n)) = amount - left[n]
           Bad == {n \in 0..N : ~ Fine(n)}
<1>1. N \in Nat
  BY WalletAssumption, FS_CardinalityType
<1>2. /\ left[0] = amount
      /\ \A n \in 1..N : left[n] = left[n - 1] - SumOver(WorthOf, Covered(c, n, left[n - 1]))
  BY LeftIs
<1> HIDE DEF left, N
<1>3. Fine(0)
  <2>1. Taken(0) = {}
    OBVIOUS
  <2>2. SumOver(WorthOf, {}) = 0
    BY SumEmpty
  <2> HIDE DEF Taken
  <2> QED
    BY <1>2, <2>1, <2>2
<1>4. ASSUME NEW n \in 1..N, Fine(n - 1) PROVE Fine(n)
  <2> DEFINE C == Covered(c, n, left[n - 1])
             old == Taken(n - 1)
  <2>1. n \in Nat /\ n - 1 \in Nat /\ left[n - 1] \in Nat /\ left[n - 1] <= amount
    BY <1>1, <1>4
  <2>2. /\ C \subseteq Sale /\ IsFiniteSet(C) /\ SumOver(WorthOf, C) \in 0..left[n - 1]
    <3> HIDE DEF Taken
    <3> QED
      BY <2>1, CoveredFits
  <2>3. Taken(n) = old \cup C
    <3>1. 1..n = (1..(n - 1)) \cup {n}
      BY <2>1
    <3> QED
      BY <3>1
  <2>4. old \cap C = {}
    <3>1. \A s \in old : earning[s].paidAt \in 1..(n - 1)
      BY DEF Covered
    <3>2. \A s \in C : earning[s].paidAt = n
      BY DEF Covered
    <3>3. n \notin 1..(n - 1)
      BY <2>1
    <3> QED
      BY <3>1, <3>2, <3>3
  <2>5. old \subseteq Sale /\ IsFiniteSet(old) /\ SumOver(WorthOf, old) = amount - left[n - 1]
    BY <1>4, WalletAssumption, FS_Subset
  <2>6. left[n] = left[n - 1] - SumOver(WorthOf, C)
    BY <1>2
  <2>7. \A s \in old \cup C : WorthOf[s] \in Int
    BY <2>2, <2>5, WorthNat DEF WorthOf
  <2> HIDE DEF old, C, Taken
  <2>8. SumOver(WorthOf, old \cup C) = SumOver(WorthOf, old) + SumOver(WorthOf, C)
    BY <2>2, <2>4, <2>5, <2>7, SumUnion
  <2>9. left[n] \in 0..amount /\ SumOver(WorthOf, old \cup C) = amount - left[n]
    BY <2>1, <2>2, <2>5, <2>6, <2>8
  <2> QED
    BY <2>2, <2>3, <2>5, <2>9
<1>5. Bad = {}
  <2> SUFFICES ASSUME Bad # {} PROVE FALSE
    OBVIOUS
  <2>1. Bad \subseteq Nat
    BY <1>1
  <2> HIDE DEF Fine
  <2>2. PICK m \in Bad : \A n \in Bad : m <= n
    BY <2>1, LeastNumber
  <2>3. m \in 1..N /\ ~ Fine(m)
    BY <1>1, <1>3, <2>2
  <2>4. m - 1 \in 0..N /\ m - 1 \notin Bad
    BY <1>1, <2>2, <2>3
  <2>5. Fine(m - 1)
    BY <2>4
  <2> QED
    BY <1>4, <2>3, <2>5
<1>6. Fine(N)
  <2> HIDE DEF Fine
  <2> QED
    BY <1>1, <1>5
<1>7. MarkWithdrawnUpTo(c, amount) = Taken(N)
  BY DEF MarkWithdrawnUpTo, left, N
<1> QED
  BY <1>6, <1>7

\* A recorded sale keeps its place in the order of payment.
LEMMA PlacesStay ==
    ASSUME TypeOK, [Next]_vars, NEW t \in Sale,
           \A s \in Sale : RecordEarning(s) => s # t
    PROVE /\ earning'[t].paidAt = earning[t].paidAt
          /\ earning'[t].status = "NONE" <=> earning[t].status = "NONE"
<1>1. earning[t] \in Earning
  BY DEF TypeOK
<1>2. CASE earning'[t] = earning[t]
  BY <1>2
<1>3. ASSUME NEW s \in Sale, RecordEarning(s) PROVE earning'[t] = earning[t]
  BY <1>3 DEF RecordEarning, RecordedWithFee, RecordedPendingFee, TypeOK
<1>4. ASSUME NEW s \in Sale, SetFee(s)
      PROVE /\ earning'[t].paidAt = earning[t].paidAt
            /\ earning'[t].status = "NONE" <=> earning[t].status = "NONE"
  <2>1. CASE s # t
    <3>1. earning'[t] = earning[t]
      BY <1>4, <2>1 DEF SetFee, TypeOK
    <3> QED
      BY <3>1
  <2>2. CASE s = t
    BY <1>1, <1>4, <2>2 DEF SetFee, TypeOK, HoldStatus, Earning
  <2> QED
    BY <2>1, <2>2
<1>5. ASSUME NEW s \in Sale, NEW delta \in RefundDeltas(s), ReverseEarning(s, delta)
      PROVE /\ earning'[t].paidAt = earning[t].paidAt
            /\ earning'[t].status = "NONE" <=> earning[t].status = "NONE"
  <2>1. CASE s # t
    <3>1. earning'[t] = earning[t]
      BY <1>5, <2>1 DEF ReverseEarning, TypeOK
    <3> QED
      BY <3>1
  <2>2. CASE s = t
    BY <1>1, <1>5, <2>2 DEF ReverseEarning, TypeOK, Earning
  <2> QED
    BY <2>1, <2>2
<1>6. ASSUME ReleaseDue
      PROVE /\ earning'[t].paidAt = earning[t].paidAt
            /\ earning'[t].status = "NONE" <=> earning[t].status = "NONE"
  BY <1>1, <1>6 DEF ReleaseDue, Due, Earning
<1>7. ASSUME NEW w \in Withdrawal, PayWithdrawal(w)
      PROVE /\ earning'[t].paidAt = earning[t].paidAt
            /\ earning'[t].status = "NONE" <=> earning[t].status = "NONE"
  BY <1>1, <1>7, MarkedAreAvailable DEF PayWithdrawal, AvailableSales, Earning
<1>8. ASSUME NEW w \in Withdrawal, ApproveWithdrawal(w) \/ RejectWithdrawal(w)
      PROVE earning'[t] = earning[t]
  BY <1>8 DEF ApproveWithdrawal, RejectWithdrawal
<1>9. ASSUME NEW s \in Sale, HoldEnds(s) PROVE earning'[t] = earning[t]
  BY <1>9 DEF HoldEnds
<1>10. ASSUME UNCHANGED vars PROVE earning'[t] = earning[t]
  BY <1>10 DEF vars
<1>11. ASSUME NEW c \in Coach,
              \/ SavePayoutDetails(c) \/ BeginRequest(c) \/ ReadLedgerTotal(c)
              \/ ReadOnHold(c) \/ CreateWithdrawal(c) \/ AbandonRequest(c)
              \/ AdjustWallet(c) \/ SetCoachShare(c)
       PROVE earning'[t] = earning[t]
  BY <1>11, CoachFrame
<1> QED
  BY <1>2, <1>3, <1>4, <1>5, <1>6, <1>7, <1>8, <1>9, <1>10, <1>11 DEF Next

LEMMA RankedInvariant == Spec => []Ranked
<1>1. Init => Ranked
  BY DEF Init, Ranked, Recorded, NoEarning
<1>2. TypeOK /\ Ranked /\ [Next]_vars => Ranked'
  <2> SUFFICES ASSUME TypeOK, Ranked, [Next]_vars PROVE Ranked'
    OBVIOUS
  <2>0. Recorded \subseteq Sale /\ IsFiniteSet(Recorded) /\ Cardinality(Recorded) \in Nat
    BY WalletAssumption, FS_Subset, FS_CardinalityType DEF Recorded
  <2>1. ASSUME NEW s \in Sale, RecordEarning(s) PROVE Ranked'
    <3>1. /\ s \notin Recorded
          /\ earning'[s].status # "NONE"
          /\ earning'[s].paidAt = Cardinality(Recorded) + 1
      <4>1. earning[s].status = "NONE" /\ earning[s] \in Earning
        BY <2>1 DEF RecordEarning, TypeOK
      <4>2. CASE RecordedPendingFee(s)
        BY <4>1, <4>2 DEF RecordedPendingFee, Recorded, TypeOK, Earning
      <4>3. ASSUME NEW fee, NEW over, RecordedWithFee(s, fee, over)
            PROVE /\ earning'[s].status # "NONE"
                  /\ earning'[s].paidAt = Cardinality(Recorded) + 1
        BY <4>1, <4>3 DEF RecordedWithFee, HoldStatus, TypeOK, Earning
      <4> QED
        BY <2>1, <4>1, <4>2, <4>3 DEF RecordEarning, Recorded
    <3>2. \A t \in Sale \ {s} : earning'[t] = earning[t]
      BY <2>1 DEF RecordEarning, RecordedWithFee, RecordedPendingFee, TypeOK
    <3>3. Recorded' = Recorded \cup {s}
      BY <3>1, <3>2 DEF Recorded
    <3>4. Cardinality(Recorded') = Cardinality(Recorded) + 1
      BY <2>0, <3>1, <3>3, FS_AddElement
    <3>5. \A t \in Recorded : /\ earning'[t].paidAt = earning[t].paidAt
                              /\ earning'[t].paidAt \in 1..Cardinality(Recorded)
      BY <3>1, <3>2 DEF Recorded, Ranked
    <3>6. \A t \in Recorded' : earning'[t].paidAt \in 1..Cardinality(Recorded')
      BY <2>0, <3>1, <3>3, <3>4, <3>5
    <3>7. \A t, u \in Recorded' : earning'[t].paidAt = earning'[u].paidAt => t = u
      BY <2>0, <3>1, <3>3, <3>5 DEF Ranked
    <3> QED
      BY <3>6, <3>7 DEF Ranked
  <2>2. CASE \A s \in Sale : ~ RecordEarning(s)
    <3>1. \A t \in Sale : /\ earning'[t].paidAt = earning[t].paidAt
                          /\ earning'[t].status = "NONE" <=> earning[t].status = "NONE"
      BY <2>2, PlacesStay
    <3>2. Recorded' = Recorded
      BY <3>1 DEF Recorded
    <3> QED
      BY <2>0, <3>1, <3>2 DEF Ranked
  <2> QED
    BY <2>1, <2>2
<1> QED
  BY <1>1, <1>2, TypeCorrect, PTL DEF Spec

\* What the sales already marked withdrawn are worth, row by row.
WithdrawnOf ==
    [s \in Sale |-> IF earning[s].status = "WITHDRAWN" THEN Worth(s) ELSE 0]

PaidCovers ==
    \A c \in Coach : SumOver(WithdrawnOf, SalesOf(c)) <= AmountIn(c, {"PAID"})

LEMMA WithdrawnRows ==
    RowsInv => /\ WithdrawnOf \in [Sale -> Nat]
               /\ PaidCovers = WithdrawnIsPaid
<1> SUFFICES ASSUME RowsInv PROVE WithdrawnRows!2
  OBVIOUS
<1>1. WithdrawnOf \in [Sale -> Nat]
  BY WorthNat DEF WithdrawnOf
<1>2. ASSUME NEW c \in Coach
      PROVE /\ SumOver(WithdrawnOf, SalesOf(c))
                 = SumOver(WorthOf, {s \in SalesOf(c) : earning[s].status = "WITHDRAWN"})
            /\ AmountIn(c, {"PAID"})
                 = SumOver([w \in Withdrawal |-> withdrawal[w].amount],
                           {w \in WithdrawalsOf(c) : withdrawal[w].status = "PAID"})
  <2> DEFINE R == {s \in SalesOf(c) : earning[s].status = "WITHDRAWN"}
  <2>1. IsFiniteSet(SalesOf(c)) /\ SalesOf(c) \subseteq Sale /\ R \in SUBSET SalesOf(c)
    BY RowsFinite
  <2>2. \A s \in SalesOf(c) : /\ WorthOf[s] \in Int
                              /\ WithdrawnOf[s] = IF s \in R THEN WorthOf[s] ELSE 0
    BY <2>1, WorthNat DEF WithdrawnOf, WorthOf
  <2> HIDE DEF R
  <2>3. SumOver(WorthOf, R) = SumOver(WithdrawnOf, SalesOf(c))
    BY <2>1, <2>2, SumFilter
  <2>4. {w \in WithdrawalsOf(c) : withdrawal[w].status = "PAID"}
          = {w \in WithdrawalsOf(c) : withdrawal[w].status \in {"PAID"}}
    OBVIOUS
  <2> QED
    BY <2>3, <2>4 DEF R, AmountIn
<1>3. PaidCovers = WithdrawnIsPaid
  BY <1>2 DEF PaidCovers, WithdrawnIsPaid, WorthOf
<1> QED
  BY <1>1, <1>3

LEMMA NextWithdrawnRows == ASSUME RowsInv' PROVE WithdrawnRows!2'
<1>1. (RowsInv => WithdrawnRows!2)'
  BY WithdrawnRows, PTL
<1> QED
  BY <1>1

\* Nothing more is marked withdrawn, and nothing less was paid.
NoneMarked ==
    /\ \A t \in Sale : WithdrawnOf'[t] <= WithdrawnOf[t]
    /\ \A w \in Withdrawal : CountedIn({"PAID"})'[w] = CountedIn({"PAID"})[w]

\* No other step than a payout marks a sale.
LEMMA OnlyPayoutsMark ==
    ASSUME RowsInv, RowsInv', [Next]_vars, \A w \in Withdrawal : ~ PayWithdrawal(w)
    PROVE NoneMarked
<1>0. /\ \A t \in Sale : earning[t] \in Earning /\ Worth(t) \in Nat /\ Worth(t)' \in Nat
      /\ WithdrawnOf \in [Sale -> Nat] /\ WithdrawnOf' \in [Sale -> Nat]
  BY WorthNat, NextWorth, WithdrawnRows, NextWithdrawnRows DEF RowsInv, TypeOK
<1>1. ASSUME NEW t \in Sale, earning'[t] = earning[t] PROVE WithdrawnOf'[t] <= WithdrawnOf[t]
  BY <1>0, <1>1 DEF WithdrawnOf, Worth
<1>2. ASSUME NEW t \in Sale, earning'[t].status # "WITHDRAWN"
      PROVE WithdrawnOf'[t] <= WithdrawnOf[t]
  BY <1>0, <1>2 DEF WithdrawnOf
<1>3. ASSUME UNCHANGED withdrawal
      PROVE \A w \in Withdrawal : CountedIn({"PAID"})'[w] = CountedIn({"PAID"})[w]
  BY <1>3 DEF CountedIn
<1>4. ASSUME UNCHANGED earning PROVE \A t \in Sale : WithdrawnOf'[t] <= WithdrawnOf[t]
  BY <1>1, <1>4
<1>5. ASSUME NEW s \in Sale, RecordEarning(s) \/ SetFee(s)
      PROVE NoneMarked
  <2>1. earning'[s].status # "WITHDRAWN" /\ UNCHANGED withdrawal
    <3>1. CASE SetFee(s)
      BY <1>0, <3>1 DEF SetFee, HoldStatus, RowsInv, TypeOK, Earning
    <3>2. CASE RecordEarning(s)
      <4>1. CASE RecordedPendingFee(s)
        BY <1>0, <3>2, <4>1 DEF RecordEarning, RecordedPendingFee, RowsInv, TypeOK, Earning
      <4>2. ASSUME NEW fee, NEW over, RecordedWithFee(s, fee, over)
            PROVE earning'[s].status # "WITHDRAWN"
        BY <1>0, <4>2 DEF RecordedWithFee, HoldStatus, RowsInv, TypeOK, Earning
      <4> QED
        BY <3>2, <4>1, <4>2 DEF RecordEarning
    <3> QED
      BY <1>5, <3>1, <3>2
  <2>2. \A t \in Sale \ {s} : earning'[t] = earning[t]
    BY <1>5 DEF RecordEarning, RecordedWithFee, RecordedPendingFee, SetFee, RowsInv, TypeOK
  <2> QED
    BY <1>1, <1>2, <1>3, <2>1, <2>2 DEF NoneMarked
<1>6. ASSUME NEW s \in Sale, NEW delta \in RefundDeltas(s), ReverseEarning(s, delta)
      PROVE NoneMarked
  <2>1. /\ UNCHANGED withdrawal /\ FreeOf'[s] <= FreeOf[s]
        /\ \A t \in Sale \ {s} : Worth(t)' = Worth(t)
    BY <1>6, RefundTakes
  <2>2. ASSUME NEW t \in Sale \ {s} PROVE WithdrawnOf'[t] <= WithdrawnOf[t]
    <3>1. earning'[t] = earning[t]
      BY <1>6 DEF ReverseEarning, RowsInv, TypeOK
    <3> QED
      BY <1>1, <3>1
  <2>3. ASSUME earning'[s].status = "WITHDRAWN" PROVE WithdrawnOf'[s] <= WithdrawnOf[s]
    <3>1. earning[s].status = "WITHDRAWN"
      BY <1>0, <1>6, <2>3 DEF ReverseEarning, RowsInv, TypeOK, Earning
    <3>2. FreeOf[s] = WithdrawnOf[s] /\ FreeOf'[s] = WithdrawnOf'[s]
      BY <2>3, <3>1 DEF FreeOf, WithdrawnOf
    <3> QED
      BY <2>1, <3>2
  <2> QED
    BY <1>2, <1>3, <2>1, <2>2, <2>3 DEF NoneMarked
<1>7. ASSUME ReleaseDue PROVE NoneMarked
  <2>1. ASSUME NEW t \in Sale
        PROVE earning'[t] = earning[t] \/ earning'[t].status # "WITHDRAWN"
    BY <1>0, <1>7 DEF ReleaseDue, Due, Earning
  <2>2. UNCHANGED withdrawal
    BY <1>7 DEF ReleaseDue
  <2> QED
    BY <1>1, <1>2, <1>3, <2>1, <2>2 DEF NoneMarked
<1>8. ASSUME NEW w \in Withdrawal, ApproveWithdrawal(w) \/ RejectWithdrawal(w)
      PROVE NoneMarked
  <2>1. /\ UNCHANGED earning
        /\ withdrawal[w].status # "PAID" /\ withdrawal'[w].status # "PAID"
        /\ \A v \in Withdrawal \ {w} : withdrawal'[v] = withdrawal[v]
    BY <1>8 DEF ApproveWithdrawal, RejectWithdrawal, OpenStatus, RowsInv, TypeOK
  <2>2. \A v \in Withdrawal : CountedIn({"PAID"})'[v] = CountedIn({"PAID"})[v]
    BY <2>1 DEF CountedIn
  <2> QED
    BY <1>4, <2>1, <2>2 DEF NoneMarked
<1>9. ASSUME NEW c \in Coach, CreateWithdrawal(c) PROVE NoneMarked
  <2>1. UNCHANGED earning
    BY <1>9 DEF CreateWithdrawal
  <2>2. PICK w \in WithdrawalsOf(c) :
          /\ withdrawal[w].status = "NONE"
          /\ withdrawal' = [withdrawal EXCEPT ![w] = [status |-> "REQUESTED", amount |-> seen[c]]]
    BY <1>9 DEF CreateWithdrawal
  <2>3. /\ withdrawal'[w].status # "PAID"
        /\ \A v \in Withdrawal \ {w} : withdrawal'[v] = withdrawal[v]
    BY <2>2, RowsFinite DEF RowsInv, TypeOK
  <2>4. \A v \in Withdrawal : CountedIn({"PAID"})'[v] = CountedIn({"PAID"})[v]
    BY <2>2, <2>3 DEF CountedIn
  <2> QED
    BY <1>4, <2>1, <2>4 DEF NoneMarked
<1>10. ASSUME NEW c \in Coach,
              \/ SavePayoutDetails(c) \/ BeginRequest(c) \/ ReadLedgerTotal(c)
              \/ ReadOnHold(c) \/ AbandonRequest(c) \/ AdjustWallet(c) \/ SetCoachShare(c)
       PROVE NoneMarked
  <2>1. UNCHANGED <<earning, withdrawal>>
    BY <1>10 DEF SavePayoutDetails, BeginRequest, ReadLedgerTotal, ReadOnHold,
                 AbandonRequest, AdjustWallet, SetCoachShare
  <2> QED
    BY <1>3, <1>4, <2>1 DEF NoneMarked
<1>11. ASSUME NEW s \in Sale, HoldEnds(s) PROVE NoneMarked
  <2>1. UNCHANGED <<earning, withdrawal>>
    BY <1>11 DEF HoldEnds
  <2> QED
    BY <1>3, <1>4, <2>1 DEF NoneMarked
<1>12. ASSUME UNCHANGED vars PROVE NoneMarked
  <2>1. UNCHANGED <<earning, withdrawal>>
    BY <1>12 DEF vars
  <2> QED
    BY <1>3, <1>4, <2>1 DEF NoneMarked
<1> QED
  BY <1>5, <1>6, <1>7, <1>8, <1>9, <1>10, <1>11, <1>12 DEF Next

\* A payout marks sales worth at most the amount it pays.
LEMMA PayoutMarks ==
    ASSUME RowsInv, RowsInv', OneOpenInv, AmountsOK, Ranked, PaidCovers, NEW v \in Withdrawal,
           PayWithdrawal(v)
    PROVE PaidCovers'
<1> DEFINE c == v[1]
           n == withdrawal[v].amount
           M == MarkWithdrawnUpTo(c, n)
           marked == [s \in Sale |-> IF s \in M THEN Worth(s) ELSE 0]
<1>1. /\ c \in Coach /\ v \in WithdrawalsOf(c) /\ n \in Nat
      /\ withdrawal[v].status \in OpenStatus
      /\ \A w \in Withdrawal \ {v} : withdrawal'[w] = withdrawal[w]
      /\ \A s \in Sale : Worth(s)' = Worth(s)
      /\ \A d \in Coach \ {c} : AmountIn(d, {"PAID"})' = AmountIn(d, {"PAID"})
  BY Decided
<1>2. /\ withdrawal'[v].status = "PAID" /\ withdrawal'[v].amount = n
      /\ earning' = [s \in Sale |-> IF s \in M THEN [earning[s] EXCEPT !.status = "WITHDRAWN"]
                                    ELSE earning[s]]
  BY DEF PayWithdrawal, RowsInv, TypeOK
<1>3. /\ M \subseteq SalesOf(c) /\ M \subseteq Sale
      /\ \A s \in M : earning[s].status = "AVAILABLE"
  BY <1>1, MarkedAreAvailable, RowsFinite DEF AvailableSales
<1>4. /\ WithdrawnOf \in [Sale -> Nat] /\ WithdrawnOf' \in [Sale -> Nat]
      /\ \A s \in Sale : Worth(s) \in Nat /\ earning[s] \in Earning
  BY WithdrawnRows, NextWithdrawnRows, WorthNat DEF RowsInv, TypeOK
<1>5. SumOver(WorthOf, M) <= n
  BY <1>1, MarkedFits
<1> HIDE DEF M, c, n
<1>6. ASSUME NEW s \in Sale PROVE WithdrawnOf'[s] = WithdrawnOf[s] + marked[s]
  <2>1. CASE s \in M
    <3>1. earning'[s].status = "WITHDRAWN"
      BY <1>2, <1>4, <2>1 DEF Earning
    <3>2. WithdrawnOf'[s] = Worth(s) /\ WithdrawnOf[s] = 0 /\ marked[s] = Worth(s)
      BY <1>1, <1>3, <2>1, <3>1 DEF WithdrawnOf
    <3> QED
      BY <1>4, <3>2
  <2>2. CASE s \notin M
    <3>1. earning'[s] = earning[s]
      BY <1>2, <2>2
    <3>2. WithdrawnOf'[s] = WithdrawnOf[s] /\ marked[s] = 0
      BY <1>1, <2>2, <3>1 DEF WithdrawnOf
    <3> QED
      BY <1>4, <3>2
  <2> QED
    BY <2>1, <2>2
<1>7. marked \in [Sale -> Nat]
  BY <1>4
<1>8. ASSUME NEW d \in Coach
      PROVE /\ SumOver(WithdrawnOf', SalesOf(d))
                 = SumOver(WithdrawnOf, SalesOf(d)) + SumOver(marked, SalesOf(d))
            /\ SumOver(WithdrawnOf, SalesOf(d)) \in Int /\ SumOver(marked, SalesOf(d)) \in Int
  <2>1. IsFiniteSet(SalesOf(d)) /\ SalesOf(d) \subseteq Sale
    BY RowsFinite
  <2>2. \A s \in SalesOf(d) : /\ WithdrawnOf[s] \in Int /\ marked[s] \in Int
                              /\ WithdrawnOf'[s] = WithdrawnOf[s] + marked[s]
    BY <1>4, <1>6, <1>7, <2>1
  <2> HIDE DEF marked
  <2>3. SumOver(WithdrawnOf', SalesOf(d))
          = SumOver(WithdrawnOf, SalesOf(d)) + SumOver(marked, SalesOf(d))
    BY <2>1, <2>2, SumPlus
  <2>4. SumOver(WithdrawnOf, SalesOf(d)) \in Int /\ SumOver(marked, SalesOf(d)) \in Int
    BY <2>1, <2>2, SumInt
  <2> QED
    BY <2>3, <2>4
<1>9. SumOver(marked, SalesOf(c)) <= n
  <2>1. IsFiniteSet(SalesOf(c)) /\ SalesOf(c) \subseteq Sale /\ M \in SUBSET SalesOf(c)
    BY <1>1, <1>3, RowsFinite
  <2>2. \A s \in SalesOf(c) : /\ WorthOf[s] \in Int
                              /\ marked[s] = IF s \in M THEN WorthOf[s] ELSE 0
    BY <1>4, <2>1 DEF WorthOf
  <2> HIDE DEF marked
  <2>3. SumOver(WorthOf, M) = SumOver(marked, SalesOf(c))
    BY <2>1, <2>2, SumFilter
  <2> QED
    BY <1>5, <2>3
<1>10. ASSUME NEW d \in Coach \ {c} PROVE SumOver(marked, SalesOf(d)) = 0
  <2>1. IsFiniteSet(SalesOf(d)) /\ SalesOf(d) \subseteq Sale
    BY RowsFinite
  <2>2. \A s \in SalesOf(d) : marked[s] = 0
    BY <1>3, <2>1 DEF SalesOf
  <2> HIDE DEF marked
  <2> QED
    BY <2>1, <2>2, SumZero
<1>11. AmountIn(c, {"PAID"})' = AmountIn(c, {"PAID"}) + n
  <2>1. withdrawal[v].status \notin {"PAID"} /\ withdrawal'[v].status \in {"PAID"}
    BY <1>1, <1>2 DEF OpenStatus
  <2>2. AmountIn(c, {"PAID"})' = AmountIn(c, {"PAID"}) - 0 + n
    BY <1>1, <1>2, <2>1, WrittenAmount
  <2>3. AmountIn(c, {"PAID"}) \in Nat
    BY <1>1, AmountType
  <2> QED
    BY <1>1, <2>2, <2>3
<1>12. ASSUME NEW d \in Coach
       PROVE SumOver(WithdrawnOf', SalesOf(d)) <= AmountIn(d, {"PAID"})'
  <2>1. SumOver(WithdrawnOf, SalesOf(d)) <= AmountIn(d, {"PAID"}) /\ AmountIn(d, {"PAID"}) \in Nat
    BY AmountType DEF PaidCovers
  <2> HIDE DEF marked
  <2>2. CASE d = c
    BY <1>1, <1>8, <1>9, <1>11, <2>1, <2>2
  <2>3. CASE d # c
    BY <1>1, <1>8, <1>10, <2>1, <2>3
  <2> QED
    BY <2>2, <2>3
<1> QED
  BY <1>12 DEF PaidCovers

LEMMA CoverStays ==
    ASSUME RowsInv, RowsInv', PaidCovers, NoneMarked PROVE PaidCovers'
<1>1. /\ WithdrawnOf \in [Sale -> Nat] /\ WithdrawnOf' \in [Sale -> Nat]
      /\ \A t \in Sale : WithdrawnOf'[t] <= WithdrawnOf[t]
  BY WithdrawnRows, NextWithdrawnRows DEF NoneMarked
<1>2. ASSUME NEW c \in Coach
      PROVE SumOver(WithdrawnOf', SalesOf(c)) <= AmountIn(c, {"PAID"})'
  <2>1. IsFiniteSet(SalesOf(c)) /\ SalesOf(c) \subseteq Sale
    BY RowsFinite
  <2>2. \A s \in SalesOf(c) : /\ WithdrawnOf'[s] \in Int /\ WithdrawnOf[s] \in Int
                              /\ WithdrawnOf'[s] <= WithdrawnOf[s]
    BY <1>1, <2>1
  <2>3. /\ SumOver(WithdrawnOf', SalesOf(c)) <= SumOver(WithdrawnOf, SalesOf(c))
        /\ SumOver(WithdrawnOf', SalesOf(c)) \in Int /\ SumOver(WithdrawnOf, SalesOf(c)) \in Int
    BY <2>1, <2>2, SumGrows, SumInt
  <2>4. AmountIn(c, {"PAID"})' = AmountIn(c, {"PAID"})
    BY RowsFinite, SameAmount DEF NoneMarked, RowsInv
  <2>5. AmountIn(c, {"PAID"}) \in Nat /\ SumOver(WithdrawnOf, SalesOf(c)) <= AmountIn(c, {"PAID"})
    BY AmountType DEF PaidCovers
  <2> QED
    BY <2>3, <2>4, <2>5
<1> QED
  BY <1>2 DEF PaidCovers

\* Earnings marked withdrawn are covered by money actually paid out (the marking loop of
\* markWithdrawnUpTo stops at the amount of the withdrawal, whatever was refunded before).
THEOREM WithdrawnCovered == Spec => []WithdrawnIsPaid
<1>1. Init /\ RowsInv => PaidCovers
  <2> SUFFICES ASSUME Init, RowsInv, NEW c \in Coach
               PROVE SumOver(WithdrawnOf, SalesOf(c)) <= AmountIn(c, {"PAID"})
    BY DEF PaidCovers
  <2>1. \A s \in SalesOf(c) : WithdrawnOf[s] = 0
    BY RowsFinite DEF Init, NoEarning, WithdrawnOf
  <2>2. SumOver(WithdrawnOf, SalesOf(c)) = 0
    BY <2>1, RowsFinite, SumZero
  <2> QED
    BY <2>2, AmountType
<1>2. RowsInv /\ RowsInv' /\ OneOpenInv /\ AmountsOK /\ Ranked /\ PaidCovers /\ [Next]_vars
        => PaidCovers'
  BY PayoutMarks, OnlyPayoutsMark, CoverStays
<1>3. RowsInv /\ PaidCovers => WithdrawnIsPaid
  BY WithdrawnRows
<1> QED
  BY <1>1, <1>2, <1>3, RowsInvariant, OneOpenInvariant, AmountsInvariant, RankedInvariant,
     PTL DEF Spec
===============================================================================
