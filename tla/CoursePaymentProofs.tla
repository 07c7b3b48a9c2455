-------------------------- MODULE CoursePaymentProofs --------------------------
(***************************************************************************)
(* Theorems about CoursePayment, for any number of enrolments, codes,      *)
(* checkouts and requests in flight.                                       *)
(***************************************************************************)
EXTENDS CoursePayment, FiniteSetTheorems, TLAPS

EnrolmentStatus == {"NONE", "PENDING", "PAID", "WAIVED", "NOT_REQUIRED", "REFUNDED"}
EnrolmentRow == [status: EnrolmentStatus, price: Nat, paid: Nat, refunded: Nat]
RedemptionRow == {NoRedemption} \cup [status: Live, code: Code]
NoAttempt == [status |-> "NONE", amount |-> 0, e |-> "none"]
AttemptRow ==
    {NoAttempt} \cup [status: AttemptStatus \ {"NONE"}, amount: Nat, e: Enrolment]
Task ==
    {Idle}
    \cup [op: {"apply"}, e: Enrolment, code: Code]
    \cup [op: {"remove"}, e: Enrolment]
    \cup [op: {"pay", "checkout"}, e: Enrolment, price: Nat]
    \cup [op: {"refund"}, e: Enrolment, paid: Nat, refunded: Nat]
    \cup [op: {"create", "flag"}, a: Attempt]
    \cup [op: {"reconcile"}, a: Attempt, price: Nat]
    \cup [op: {"decide"}, a: Attempt, price: Nat, answer: GatewayState]

RowsTyped ==
    /\ enrolment \in [Enrolment -> EnrolmentRow]
    /\ redemption \in [Enrolment -> RedemptionRow]
    /\ settled \in [Enrolment -> 0..2]
    /\ coded \subseteq Enrolment
MoneyTyped ==
    /\ attempt \in [Attempt -> AttemptRow]
    /\ gateway \in [Attempt -> GatewayState]
    /\ task \in [Worker -> Task]
    /\ settledBy \subseteq Attempt
    /\ flagged \subseteq Attempt
    /\ crashes \in 0..MaxCrashes
TypeOK == RowsTyped /\ MoneyTyped

(***************************************************************************)
(* The inductive invariant                                                 *)
(***************************************************************************)

\* One enrolment: its use of a code, its price and, until a code is involved, how often
\* it was settled and what was given back.
UseOK(e) ==
    /\ enrolment[e].status = "NONE" => redemption[e] = NoRedemption
    /\ redemption[e] # NoRedemption => e \in coded
PriceOK(e) ==
    /\ enrolment[e].status # "NONE" => enrolment[e].price = Costs(redemption[e])
    /\ redemption[e].status = "RESERVED" => enrolment[e].status = "PENDING"
OnceOK(e) ==
    settled[e] = IF enrolment[e].status \in {"PAID", "WAIVED", "REFUNDED"} THEN 1 ELSE 0
RefundOK(e) ==
    /\ enrolment[e].refunded <= enrolment[e].paid
    /\ enrolment[e].refunded > 0 => enrolment[e].status \in {"PAID", "REFUNDED"}
    /\ enrolment[e].status = "REFUNDED" => enrolment[e].refunded = enrolment[e].paid
RowOK(e) == UseOK(e) /\ PriceOK(e) /\ (e \notin coded => OnceOK(e) /\ RefundOK(e))
RowsOK == \A e \in Enrolment : RowOK(e)

\* The limits of the codes.
UsesOfLearner(c, l) == {f \in LiveUses(c) : LearnerOf[f] = l}
LimitsOK ==
    \A c \in Code :
        /\ Cardinality(LiveUses(c)) <= MaxUses[c]
        /\ \A e \in LiveUses(c) : Cardinality(UsesOfLearner(c, LearnerOf[e])) <= UsesPerLearner[c]

\* A checkout that is being created is known to nobody else: the gateway has none yet, so
\* nobody has been told that it was paid.
CheckoutsOK ==
    /\ \A a \in Attempt : attempt[a].status \in Final => gateway[a] # "none"
    /\ \A a \in Attempt : attempt[a].status = "NONE" => gateway[a] = "none"
    /\ \A w \in Worker :
        /\ task[w].op \in {"create", "reconcile", "decide"} => attempt[task[w].a].status # "NONE"
        /\ task[w].op = "create" => gateway[task[w].a] = "none"
        /\ task[w].op = "decide" /\ task[w].answer # "none" => gateway[task[w].a] # "none"
    /\ \A v, w \in Worker :
        Doing(v, "create") /\ Doing(w, "create") /\ task[v].a = task[w].a => v = w

IInv ==
    /\ TypeOK
    /\ RowsOK
    /\ LimitsOK
    /\ CheckoutsOK
    /\ MaxCrashes = 0 => UnsettledMoneyIsFlagged

-------------------------------------------------------------------------------
(***************************************************************************)
(* Enrolments and codes                                                    *)
(***************************************************************************)

\* What a step leaves behind of enrolments and uses of codes.
ConsumedStays ==
    \A e \in Enrolment : redemption[e].status = "CONSUMED" => redemption'[e] = redemption[e]
EnrolmentsAgree == RowsTyped' /\ RowsOK' /\ LimitsOK' /\ ConsumedStays

\* A step that writes the row of one enrolment.
OneRow(e) ==
    /\ RowsTyped'
    /\ \A f \in Enrolment \ {e} :
        /\ enrolment'[f] = enrolment[f] /\ redemption'[f] = redemption[f]
        /\ settled'[f] = settled[f] /\ (f \in coded' <=> f \in coded)

LEMMA OtherRows ==
    ASSUME IInv, NEW e \in Enrolment, OneRow(e), RowOK(e)' PROVE RowsOK'
<1> SUFFICES ASSUME NEW CONSTANT f \in Enrolment, f # e PROVE RowOK(f)'
  BY DEF RowsOK
<1>1. RowOK(f)
  BY DEF IInv, RowsOK
<1>2. /\ enrolment'[f] = enrolment[f] /\ redemption'[f] = redemption[f]
      /\ settled'[f] = settled[f] /\ (f \in coded' <=> f \in coded)
  BY DEF OneRow
<1> QED
  BY <1>1, <1>2 DEF RowOK, UseOK, PriceOK, Costs, OnceOK, RefundOK

LEMMA FewerUses ==
    ASSUME IInv, \A c \in Code : LiveUses(c)' \subseteq LiveUses(c) PROVE LimitsOK'
<1>1. \A c \in Code : IsFiniteSet(LiveUses(c))
  BY CoursePaymentAssumption, FS_Subset DEF LiveUses
<1>2. ASSUME NEW CONSTANT c \in Code PROVE Cardinality(LiveUses(c)') <= MaxUses[c]
  <2>1. Cardinality(LiveUses(c)') <= Cardinality(LiveUses(c))
    BY <1>1, FS_Subset
  <2>2. Cardinality(LiveUses(c)') \in Nat /\ Cardinality(LiveUses(c)) \in Nat
    BY <1>1, FS_Subset, FS_CardinalityType
  <2>3. Cardinality(LiveUses(c)) <= MaxUses[c] /\ MaxUses[c] \in Nat
    BY CoursePaymentAssumption DEF IInv, LimitsOK
  <2> QED
    BY <2>1, <2>2, <2>3
<1>3. ASSUME NEW CONSTANT c \in Code, NEW CONSTANT e, e \in LiveUses(c)'
      PROVE  Cardinality(UsesOfLearner(c, LearnerOf[e])') <= UsesPerLearner[c]
  <2> DEFINE U == UsesOfLearner(c, LearnerOf[e])
  <2>1. U' \subseteq U /\ IsFiniteSet(U)
    BY <1>1, FS_Subset DEF UsesOfLearner
  <2>2. Cardinality(U') <= Cardinality(U) /\ Cardinality(U') \in Nat /\ Cardinality(U) \in Nat
    BY <2>1, FS_Subset, FS_CardinalityType
  <2>3. Cardinality(U) <= UsesPerLearner[c] /\ UsesPerLearner[c] \in Nat
    BY <1>3, CoursePaymentAssumption DEF IInv, LimitsOK
  <2> HIDE DEF U
  <2>4. Cardinality(U') <= UsesPerLearner[c]
    BY <2>2, <2>3
  <2> QED
    BY <2>4 DEF U
<1> QED
  BY <1>2, <1>3 DEF LimitsOK

\* The rows of enrolments and codes are left alone.
LEMMA RowsStay ==
    ASSUME IInv, UNCHANGED <<enrolment, redemption, settled, coded>> PROVE EnrolmentsAgree
<1>1. RowsTyped' /\ ConsumedStays
  BY DEF IInv, TypeOK, RowsTyped, ConsumedStays
<1>2. RowsOK'
  BY DEF IInv, RowsOK, RowOK, UseOK, PriceOK, Costs, OnceOK, RefundOK
<1>3. LimitsOK'
  BY FewerUses DEF LiveUses
<1> QED
  BY <1>1, <1>2, <1>3 DEF EnrolmentsAgree
\* A row that is written and keeps its use of a code.
LEMMA SameUse ==
    ASSUME IInv, NEW e \in Enrolment, OneRow(e), RowOK(e)', UNCHANGED redemption
    PROVE  EnrolmentsAgree
<1>1. RowsOK' /\ RowsTyped'
  BY OtherRows DEF OneRow
<1>2. LimitsOK'
  BY FewerUses DEF LiveUses
<1> QED
  BY <1>1, <1>2 DEF EnrolmentsAgree, ConsumedStays

LEMMA RowTyped ==
    ASSUME IInv, NEW e \in Enrolment
    PROVE  /\ enrolment[e] \in EnrolmentRow /\ redemption[e] \in RedemptionRow
           /\ settled[e] \in 0..2 /\ RowOK(e)
BY DEF IInv, TypeOK, RowsTyped, RowsOK

\* What the writes below make of a row.
Priced(r, s, x) == [r EXCEPT !.status = s, !.price = x]
LEMMA PricedRow ==
    ASSUME NEW r \in EnrolmentRow, NEW s \in EnrolmentStatus, NEW x \in Nat
    PROVE  /\ Priced(r, s, x) \in EnrolmentRow
           /\ Priced(r, s, x).status = s /\ Priced(r, s, x).price = x
           /\ Priced(r, s, x).paid = r.paid /\ Priced(r, s, x).refunded = r.refunded
BY DEF Priced, EnrolmentRow

Paid(r, s, x) == [r EXCEPT !.status = s, !.paid = x]
LEMMA PaidRow ==
    ASSUME NEW r \in EnrolmentRow, NEW s \in EnrolmentStatus, NEW x \in Nat
    PROVE  /\ Paid(r, s, x) \in EnrolmentRow
           /\ Paid(r, s, x).status = s /\ Paid(r, s, x).paid = x
           /\ Paid(r, s, x).price = r.price /\ Paid(r, s, x).refunded = r.refunded
BY DEF Paid, EnrolmentRow

Refunded(r, s, x) == [r EXCEPT !.status = s, !.refunded = x]
LEMMA RefundedRow ==
    ASSUME NEW r \in EnrolmentRow, NEW s \in EnrolmentStatus, NEW x \in Nat
    PROVE  /\ Refunded(r, s, x) \in EnrolmentRow
           /\ Refunded(r, s, x).status = s /\ Refunded(r, s, x).refunded = x
           /\ Refunded(r, s, x).price = r.price /\ Refunded(r, s, x).paid = r.paid
BY DEF Refunded, EnrolmentRow

LEMMA EnrolsPlain ==
    ASSUME IInv, NEW e \in Enrolment, enrolment[e].status = "NONE",
           enrolment' = [enrolment EXCEPT ![e].status = "PENDING", ![e].price = ListPrice],
           UNCHANGED <<redemption, settled, coded>>
    PROVE  EnrolmentsAgree
<1> DEFINE r == enrolment[e]
           n == enrolment'[e]
<1>1. r \in EnrolmentRow /\ RowOK(e)
  BY RowTyped
<1>2. n = Priced(r, "PENDING", ListPrice)
  BY <1>1 DEF IInv, TypeOK, RowsTyped, EnrolmentRow, Priced
<1>3. n \in EnrolmentRow /\ n.status = "PENDING" /\ n.price = ListPrice
      /\ n.paid = r.paid /\ n.refunded = r.refunded
  <2>1. "PENDING" \in EnrolmentStatus /\ ListPrice \in Nat
    BY CoursePaymentAssumption DEF EnrolmentStatus
  <2> HIDE DEF r, n
  <2> QED
    BY <1>1, <1>2, <2>1, PricedRow
<1>4. OneRow(e)
  BY <1>3 DEF OneRow, RowsTyped, IInv, TypeOK
<1>5. redemption[e] = NoRedemption
  BY <1>1 DEF RowOK, UseOK
<1>6. UseOK(e)' /\ PriceOK(e)'
  BY <1>3, <1>5 DEF UseOK, PriceOK, Costs, NoRedemption
<1>7. e \notin coded => OnceOK(e)' /\ RefundOK(e)'
  <2>1. e \notin coded => settled[e] = 0 /\ r.refunded <= r.paid /\ ~(r.refunded > 0)
    BY <1>1 DEF RowOK, OnceOK, RefundOK
  <2> QED
    BY <1>3, <2>1 DEF OnceOK, RefundOK
<1>8. RowOK(e)'
  BY <1>6, <1>7 DEF RowOK
<1> QED
  BY <1>4, <1>8, SameUse

LEMMA Redeems ==
    ASSUME IInv, NEW e \in Enrolment, NEW c \in Code, Redeem(e, c), UNCHANGED settled
    PROVE  EnrolmentsAgree
<1> DEFINE r == enrolment[e]
           n == enrolment'[e]
           free == PriceWith[c] = 0
           u == [status |-> IF free THEN "CONSUMED" ELSE "RESERVED", code |-> c]
<1>1. r \in EnrolmentRow /\ PriceWith[c] \in Nat
  BY RowTyped, CoursePaymentAssumption
<1>2. /\ redemption' = [redemption EXCEPT ![e] = u]
      /\ enrolment' = [enrolment EXCEPT ![e].price = PriceWith[c],
                                        ![e].status = IF free THEN "NOT_REQUIRED" ELSE "PENDING"]
      /\ coded' = coded \cup {e} /\ MayUse(c, e) /\ redemption[e].status # "CONSUMED"
  BY DEF Redeem
<1>3. n = [r EXCEPT !.price = PriceWith[c], !.status = IF free THEN "NOT_REQUIRED" ELSE "PENDING"]
  BY <1>2 DEF IInv, TypeOK, RowsTyped
<1>4. n \in EnrolmentRow /\ n.price = PriceWith[c]
      /\ n.status = IF free THEN "NOT_REQUIRED" ELSE "PENDING"
  BY <1>1, <1>3 DEF EnrolmentRow, EnrolmentStatus
<1>5. u \in RedemptionRow /\ u.code = c /\ u.status = (IF free THEN "CONSUMED" ELSE "RESERVED")
      /\ u # NoRedemption
  BY DEF RedemptionRow, Live, NoRedemption
<1> HIDE DEF u
<1>6. /\ \A f \in Enrolment : redemption'[f] = IF f = e THEN u ELSE redemption[f]
      /\ redemption' \in [Enrolment -> RedemptionRow]
  BY <1>2, <1>5 DEF IInv, TypeOK, RowsTyped
<1>7. OneRow(e)
  <2>1. enrolment' \in [Enrolment -> EnrolmentRow]
    BY <1>2, <1>4 DEF IInv, TypeOK, RowsTyped
  <2>2. \A f \in Enrolment \ {e} : enrolment'[f] = enrolment[f]
    BY <1>2 DEF IInv, TypeOK, RowsTyped
  <2> QED
    BY <1>2, <1>6, <2>1, <2>2 DEF OneRow, RowsTyped, IInv, TypeOK
<1>8. RowOK(e)'
  <2>1. UseOK(e)' /\ e \in coded'
    BY <1>2, <1>4 DEF UseOK
  <2>2. PriceOK(e)'
    BY <1>4, <1>5, <1>6 DEF PriceOK, Costs
  <2> QED
    BY <2>1, <2>2 DEF RowOK
<1>9. ConsumedStays
  BY <1>2, <1>6 DEF ConsumedStays
<1>10. LimitsOK'
  <2> DEFINE O == UsesByOthers(c, e)
             L(l) == {f \in O : LearnerOf[f] = l}
  <2>1. LiveUses(c)' = O \cup {e} /\ e \notin O /\ O \subseteq LiveUses(c)
    BY <1>5, <1>6 DEF LiveUses, UsesByOthers, Live
  <2>2. \A d \in Code : d # c => LiveUses(d)' \subseteq LiveUses(d)
    BY <1>5, <1>6 DEF LiveUses
  <2>3. IsFiniteSet(O) /\ IsFiniteSet(LiveUses(c)) /\ \A d \in Code : IsFiniteSet(LiveUses(d))
    BY CoursePaymentAssumption, FS_Subset DEF LiveUses, UsesByOthers
  <2>4. Cardinality(O) < MaxUses[c] /\ Cardinality(L(LearnerOf[e])) < UsesPerLearner[c]
    BY <1>2 DEF MayUse
  <2>5. MaxUses[c] \in Nat /\ UsesPerLearner[c] \in Nat
    BY CoursePaymentAssumption
  <2> HIDE DEF O
  <2>6. Cardinality(LiveUses(c)') <= MaxUses[c]
    <3>1. Cardinality(O \cup {e}) = Cardinality(O) + 1 /\ Cardinality(O) \in Nat
      BY <2>1, <2>3, FS_AddElement, FS_CardinalityType
    <3> QED
      BY <2>1, <2>4, <2>5, <3>1
  <2>7. ASSUME NEW CONSTANT f, f \in LiveUses(c)'
        PROVE  Cardinality(UsesOfLearner(c, LearnerOf[f])') <= UsesPerLearner[c]
    <3> DEFINE l == LearnerOf[f]
    <3>1. IsFiniteSet(L(l))
      BY <2>3, FS_Subset
    <3>2. CASE l = LearnerOf[e]
      <4>1. UsesOfLearner(c, l)' = L(l) \cup {e} /\ e \notin L(l)
        BY <2>1, <3>2 DEF UsesOfLearner
      <4>2. Cardinality(L(l) \cup {e}) = Cardinality(L(l)) + 1 /\ Cardinality(L(l)) \in Nat
        BY <3>1, <4>1, FS_AddElement, FS_CardinalityType
      <4> QED
        BY <2>4, <2>5, <3>2, <4>1, <4>2
    <3>3. CASE l # LearnerOf[e]
      <4>1. UsesOfLearner(c, l)' = L(l) /\ f \in LiveUses(c)
        BY <2>1, <2>7, <3>3 DEF UsesOfLearner
      <4>2. L(l) \subseteq UsesOfLearner(c, l) /\ IsFiniteSet(UsesOfLearner(c, l))
        BY <2>1, <2>3, FS_Subset DEF UsesOfLearner
      <4>3. Cardinality(L(l)) <= Cardinality(UsesOfLearner(c, l))
            /\ Cardinality(L(l)) \in Nat /\ Cardinality(UsesOfLearner(c, l)) \in Nat
        BY <3>1, <4>2, FS_Subset, FS_CardinalityType
      <4>4. Cardinality(UsesOfLearner(c, l)) <= UsesPerLearner[c]
        BY <4>1 DEF IInv, LimitsOK
      <4> HIDE DEF L
      <4> QED
        BY <2>5, <4>1, <4>3, <4>4
    <3> QED
      BY <3>2, <3>3
  <2>8. ASSUME NEW CONSTANT d \in Code, d # c PROVE Cardinality(LiveUses(d)') <= MaxUses[d]
    <3>1. Cardinality(LiveUses(d)') <= Cardinality(LiveUses(d))
          /\ Cardinality(LiveUses(d)') \in Nat /\ Cardinality(LiveUses(d)) \in Nat
      BY <2>2, <2>3, <2>8, FS_Subset, FS_CardinalityType
    <3>2. Cardinality(LiveUses(d)) <= MaxUses[d] /\ MaxUses[d] \in Nat
      BY CoursePaymentAssumption DEF IInv, LimitsOK
    <3> QED
      BY <3>1, <3>2
  <2>9. ASSUME NEW CONSTANT d \in Code, d # c, NEW CONSTANT f, f \in LiveUses(d)'
        PROVE  Cardinality(UsesOfLearner(d, LearnerOf[f])') <= UsesPerLearner[d]
    <3> DEFINE U == UsesOfLearner(d, LearnerOf[f])
    <3>1. U' \subseteq U /\ IsFiniteSet(U) /\ f \in LiveUses(d)
      BY <2>2, <2>3, <2>9, FS_Subset DEF UsesOfLearner
    <3>2. Cardinality(U') <= Cardinality(U) /\ Cardinality(U') \in Nat /\ Cardinality(U) \in Nat
      BY <3>1, FS_Subset, FS_CardinalityType
    <3>3. Cardinality(U) <= UsesPerLearner[d] /\ UsesPerLearner[d] \in Nat
      BY <3>1, CoursePaymentAssumption DEF IInv, LimitsOK
    <3> HIDE DEF U
    <3>4. Cardinality(U') <= UsesPerLearner[d]
      BY <3>2, <3>3
    <3> QED
      BY <3>4 DEF U
  <2>10. ASSUME NEW CONSTANT d \in Code
         PROVE  /\ Cardinality(LiveUses(d)') <= MaxUses[d]
                /\ \A f \in LiveUses(d)' :
                      Cardinality(UsesOfLearner(d, LearnerOf[f])') <= UsesPerLearner[d]
    BY <2>6, <2>7, <2>8, <2>9
  <2> QED
    BY <2>10 DEF LimitsOK
<1> QED
  BY <1>7, <1>8, <1>9, <1>10, OtherRows DEF EnrolmentsAgree, OneRow
LEMMA Releases ==
    ASSUME IInv, NEW e \in Enrolment, Release(e), UNCHANGED <<settled, coded>>
    PROVE  EnrolmentsAgree
<1> DEFINE r == enrolment[e]
           n == enrolment'[e]
<1>1. r \in EnrolmentRow /\ RowOK(e)
  BY RowTyped
<1>2. /\ redemption[e].status = "RESERVED"
      /\ redemption' = [redemption EXCEPT ![e] = NoRedemption]
      /\ enrolment' = [enrolment EXCEPT ![e].price = ListPrice, ![e].status = "PENDING"]
  BY DEF Release, Releasable
<1>3. n = Priced(r, "PENDING", ListPrice)
  BY <1>1, <1>2 DEF IInv, TypeOK, RowsTyped, EnrolmentRow, Priced
<1>4. n \in EnrolmentRow /\ n.status = "PENDING" /\ n.price = ListPrice
  <2>1. "PENDING" \in EnrolmentStatus /\ ListPrice \in Nat
    BY CoursePaymentAssumption DEF EnrolmentStatus
  <2> HIDE DEF r, n
  <2> QED
    BY <1>1, <1>3, <2>1, PricedRow
<1>5. /\ \A f \in Enrolment : redemption'[f] = IF f = e THEN NoRedemption ELSE redemption[f]
      /\ redemption' \in [Enrolment -> RedemptionRow]
  BY <1>2 DEF IInv, TypeOK, RowsTyped, RedemptionRow
<1>6. OneRow(e)
  <2>1. enrolment' \in [Enrolment -> EnrolmentRow]
        /\ \A f \in Enrolment \ {e} : enrolment'[f] = enrolment[f]
    BY <1>2, <1>4 DEF IInv, TypeOK, RowsTyped
  <2> QED
    BY <1>2, <1>5, <2>1 DEF OneRow, RowsTyped, IInv, TypeOK
<1>7. e \in coded
  BY <1>1, <1>2 DEF RowOK, UseOK, NoRedemption
<1>8. RowOK(e)'
  <2>1. UseOK(e)'
    BY <1>5 DEF UseOK
  <2>2. PriceOK(e)'
    BY <1>4, <1>5 DEF PriceOK, Costs, NoRedemption
  <2> QED
    BY <1>7, <2>1, <2>2 DEF RowOK
<1>9. ConsumedStays
  BY <1>2, <1>5 DEF ConsumedStays
<1>10. LimitsOK'
  <2>1. \A c \in Code : LiveUses(c)' \subseteq LiveUses(c)
    BY <1>5 DEF LiveUses, NoRedemption, Live
  <2> QED
    BY <2>1, FewerUses
<1> QED
  BY <1>6, <1>8, <1>9, <1>10, OtherRows DEF EnrolmentsAgree, OneRow

LEMMA Settles ==
    ASSUME IInv, NEW e \in Enrolment, NEW status \in {"PAID", "WAIVED"}, NEW amount \in Nat,
           Unpaid(e), Settle(e, status, amount), UNCHANGED coded
    PROVE  EnrolmentsAgree
<1> DEFINE r == enrolment[e]
           n == enrolment'[e]
           u == redemption[e]
           v == redemption'[e]
<1>1. r \in EnrolmentRow /\ u \in RedemptionRow /\ settled[e] \in 0..2 /\ RowOK(e)
      /\ r.status = "PENDING"
  BY RowTyped DEF Unpaid
<1>2. /\ enrolment' = [enrolment EXCEPT ![e].status = status, ![e].paid = amount]
      /\ redemption' = [redemption EXCEPT ![e].status = AfterConsume(@)]
      /\ settled' = [settled EXCEPT ![e] = IF @ < 2 THEN @ + 1 ELSE @]
  BY DEF Settle
<1>3. n = Paid(r, status, amount)
  BY <1>1, <1>2 DEF IInv, TypeOK, RowsTyped, EnrolmentRow, Paid
<1>4. n \in EnrolmentRow /\ n.status = status /\ n.paid = amount /\ n.price = r.price
      /\ n.refunded = r.refunded
  <2>1. status \in EnrolmentStatus
    BY DEF EnrolmentStatus
  <2> HIDE DEF r, n
  <2> QED
    BY <1>1, <1>3, <2>1, PaidRow
<1>5. v \in RedemptionRow /\ v.status # "RESERVED" /\ v.code = u.code
      /\ (v.status = "NONE" <=> u.status = "NONE") /\ (v = NoRedemption <=> u = NoRedemption)
      /\ (u.status # "RESERVED" => v = u) /\ (v.status \in Live <=> u.status \in Live)
  <2>1. v = [u EXCEPT !.status = AfterConsume(u.status)]
    BY <1>2 DEF IInv, TypeOK, RowsTyped
  <2> HIDE DEF u, v
  <2>2. CASE u = NoRedemption
    BY <2>1, <2>2 DEF NoRedemption, AfterConsume, RedemptionRow, Live
  <2>3. CASE u \in [status: Live, code: Code]
    BY <2>1, <2>3 DEF NoRedemption, AfterConsume, RedemptionRow, Live
  <2> QED
    BY <1>1, <2>2, <2>3 DEF RedemptionRow
<1>6. \A f \in Enrolment \ {e} : redemption'[f] = redemption[f] /\ enrolment'[f] = enrolment[f]
                                 /\ settled'[f] = settled[f]
  BY <1>2 DEF IInv, TypeOK, RowsTyped
<1>7. OneRow(e)
  <2>1. enrolment' \in [Enrolment -> EnrolmentRow]
    BY <1>2, <1>4 DEF IInv, TypeOK, RowsTyped
  <2>2. redemption' \in [Enrolment -> RedemptionRow]
    BY <1>2, <1>5 DEF IInv, TypeOK, RowsTyped
  <2>3. settled' \in [Enrolment -> 0..2]
    BY <1>1, <1>2 DEF IInv, TypeOK, RowsTyped
  <2> QED
    BY <1>6, <2>1, <2>2, <2>3 DEF OneRow, RowsTyped, IInv, TypeOK
<1>8. UseOK(e)'
  BY <1>1, <1>4, <1>5 DEF RowOK, UseOK
<1>9. PriceOK(e)'
  <2>1. r.price = Costs(u)
    BY <1>1 DEF RowOK, PriceOK
  <2>2. Costs(v) = Costs(u)
    BY <1>5 DEF Costs
  <2> QED
    BY <1>4, <1>5, <2>1, <2>2 DEF PriceOK
<1>10. ASSUME e \notin coded PROVE OnceOK(e)' /\ RefundOK(e)'
  <2>1. settled[e] = 0 /\ r.refunded <= r.paid /\ ~(r.refunded > 0)
    BY <1>1, <1>10 DEF RowOK, OnceOK, RefundOK
  <2>2. settled'[e] = 1
    BY <1>2, <2>1 DEF IInv, TypeOK, RowsTyped
  <2>3. n.refunded = 0 /\ n.refunded <= n.paid
    BY <1>1, <1>4, <2>1 DEF EnrolmentRow
  <2> QED
    BY <1>4, <2>2, <2>3 DEF OnceOK, RefundOK
<1>11. RowOK(e)'
  BY <1>8, <1>9, <1>10 DEF RowOK
<1>12. LimitsOK'
  <2>1. \A c \in Code : LiveUses(c)' \subseteq LiveUses(c)
    BY <1>5, <1>6 DEF LiveUses
  <2> QED
    BY <2>1, FewerUses
<1>13. ConsumedStays
  BY <1>5, <1>6 DEF ConsumedStays
<1> QED
  BY <1>7, <1>11, <1>12, <1>13, OtherRows DEF EnrolmentsAgree, OneRow

\* A part of a payment or all of it goes back.
LEMMA Refunds ==
    ASSUME IInv, NEW e \in Enrolment, NEW status \in {"PAID", "REFUNDED"}, NEW amount \in Nat,
           enrolment[e].status = "PAID", amount <= enrolment[e].paid,
           status = "REFUNDED" => amount = enrolment[e].paid,
           enrolment' = [enrolment EXCEPT ![e].status = status, ![e].refunded = amount],
           UNCHANGED <<redemption, settled, coded>>
    PROVE  EnrolmentsAgree
<1> DEFINE r == enrolment[e]
           n == enrolment'[e]
<1>1. r \in EnrolmentRow /\ RowOK(e)
  BY RowTyped
<1>2. n = Refunded(r, status, amount)
  BY <1>1 DEF IInv, TypeOK, RowsTyped, EnrolmentRow, Refunded
<1>3. n \in EnrolmentRow /\ n.status = status /\ n.refunded = amount /\ n.price = r.price
      /\ n.paid = r.paid
  <2>1. status \in EnrolmentStatus
    BY DEF EnrolmentStatus
  <2> HIDE DEF r, n
  <2> QED
    BY <1>1, <1>2, <2>1, RefundedRow
<1>4. OneRow(e)
  BY <1>3 DEF OneRow, RowsTyped, IInv, TypeOK
<1>5. UseOK(e)' /\ PriceOK(e)'
  BY <1>1, <1>3 DEF RowOK, UseOK, PriceOK, Costs
<1>6. e \notin coded => OnceOK(e)' /\ RefundOK(e)'
  BY <1>1, <1>3 DEF RowOK, OnceOK, RefundOK
<1>7. RowOK(e)'
  BY <1>5, <1>6 DEF RowOK
<1> QED
  BY <1>4, <1>7, SameUse
LEMMA TaskShape ==
    ASSUME TypeOK, NEW w \in Worker
    PROVE
       /\ Doing(w, "apply") => task[w].e \in Enrolment /\ task[w].code \in Code
       /\ Doing(w, "remove") => task[w].e \in Enrolment
       /\ Doing(w, "pay") \/ Doing(w, "checkout") => task[w].e \in Enrolment /\ task[w].price \in Nat
       /\ Doing(w, "refund") => task[w].e \in Enrolment /\ task[w].paid \in Nat
                                /\ task[w].refunded \in Nat
       /\ Doing(w, "create") \/ Doing(w, "flag") => task[w].a \in Attempt
       /\ Doing(w, "reconcile") \/ Doing(w, "decide") => task[w].a \in Attempt /\ task[w].price \in Nat
       /\ Doing(w, "decide") => task[w].answer \in GatewayState
<1>1. task[w] \in Task
  BY DEF TypeOK, MoneyTyped
<1> QED
  BY <1>1 DEF Doing, Task, Idle

LEMMA AttemptShape ==
    ASSUME TypeOK, NEW a \in Attempt, attempt[a].status # "NONE"
    PROVE  attempt[a].amount \in Nat /\ attempt[a].e \in Enrolment
           /\ attempt[a].status \in AttemptStatus
<1>1. attempt[a] \in AttemptRow
  BY DEF TypeOK, MoneyTyped
<1> QED
  BY <1>1 DEF AttemptRow, NoAttempt

LEMMA EnrolmentSide == ASSUME IInv, Next PROVE EnrolmentsAgree
<1>0. TypeOK
  BY DEF IInv
<1>1. ASSUME NEW e \in Enrolment, Enrol(e) PROVE EnrolmentsAgree
  BY <1>1, EnrolsPlain, Redeems DEF Enrol
<1>2. ASSUME NEW e \in Enrolment, ReleaseStale(e) PROVE EnrolmentsAgree
  BY <1>2, Releases DEF ReleaseStale
<1>3. ASSUME NEW w \in Worker, ApplyCode(w) PROVE EnrolmentsAgree
  BY <1>0, <1>3, TaskShape, Redeems DEF ApplyCode
<1>4. ASSUME NEW w \in Worker, RemoveCode(w) PROVE EnrolmentsAgree
  BY <1>0, <1>4, TaskShape, Releases DEF RemoveCode
<1>5. ASSUME NEW w \in Worker, RecordPayment(w) PROVE EnrolmentsAgree
  <2>1. task[w].e \in Enrolment /\ task[w].price \in Nat /\ Unpaid(task[w].e) /\ UNCHANGED coded
    BY <1>0, <1>5, TaskShape DEF RecordPayment
  <2>2. enrolment[task[w].e].paid \in Nat
    BY <2>1, RowTyped DEF EnrolmentRow
  <2>3. CASE Settle(task[w].e, "PAID", task[w].price)
    BY <2>1, <2>3, Settles
  <2>4. CASE Settle(task[w].e, "WAIVED", enrolment[task[w].e].paid)
    <3>1. PICK n \in Nat : n = enrolment[task[w].e].paid
      BY <2>2
    <3> QED
      BY <2>1, <2>4, <3>1, Settles
  <2> QED
    BY <1>5, <2>3, <2>4 DEF RecordPayment
<1>6. ASSUME NEW w \in Worker, PaidMatch(w) PROVE EnrolmentsAgree
  <2> DEFINE a == task[w].a
             e == attempt[a].e
  <2>1. a \in Attempt
    BY <1>0, <1>6, TaskShape DEF PaidMatch, Answered
  <2>2. CASE UNCHANGED <<enrolment, redemption, settled, coded>>
    BY <2>2, RowsStay
  <2>3. CASE /\ attempt[a].status \in SettleableFrom
             /\ Unpaid(e) /\ Settle(e, "PAID", attempt[a].amount) /\ UNCHANGED coded
    <3>1. e \in Enrolment /\ attempt[a].amount \in Nat
      BY <1>0, <2>1, <2>3, AttemptShape DEF SettleableFrom
    <3> QED
      BY <2>3, <3>1, Settles
  <2>4. CASE attempt[a].status \notin SettleableFrom
    BY <1>6, <2>2, <2>4 DEF PaidMatch
  <2>5. CASE attempt[a].status \in SettleableFrom /\ Unpaid(e)
    BY <1>6, <2>3, <2>5 DEF PaidMatch
  <2>6. CASE attempt[a].status \in SettleableFrom /\ ~Unpaid(e)
    BY <1>6, <2>2, <2>6 DEF PaidMatch
  <2> QED
    BY <2>4, <2>5, <2>6
<1>7. ASSUME NEW w \in Worker, RefundPart(w) PROVE EnrolmentsAgree
  <2> DEFINE e == task[w].e
             r == enrolment[e]
  <2>1. e \in Enrolment /\ r \in EnrolmentRow
    BY <1>0, <1>7, TaskShape, RowTyped DEF RefundPart
  <2>2. PICK part \in RefundParts :
          /\ r.status = "PAID" /\ r.paid >= r.refunded + part
          /\ enrolment' = [enrolment EXCEPT ![e].refunded = @ + part]
    BY <1>7 DEF RefundPart, Refundable
  <2>3. r.refunded + part \in Nat /\ r.refunded + part <= r.paid
    BY <2>1, <2>2, CoursePaymentAssumption DEF EnrolmentRow
  <2>4. PICK n \in Nat : n = r.refunded + part
    BY <2>3
  <2>5. enrolment' = [enrolment EXCEPT ![e].status = "PAID", ![e].refunded = n]
    BY <2>1, <2>2, <2>4 DEF EnrolmentRow, IInv, TypeOK, RowsTyped
  <2>6. UNCHANGED <<redemption, settled, coded>>
    BY <1>7 DEF RefundPart
  <2> QED
    BY <2>1, <2>2, <2>3, <2>4, <2>5, <2>6, Refunds
<1>8. ASSUME NEW w \in Worker, RefundAll(w) PROVE EnrolmentsAgree
  <2> DEFINE e == task[w].e
  <2>1. e \in Enrolment /\ enrolment[e].paid \in Nat
    BY <1>0, <1>8, TaskShape, RowTyped DEF RefundAll, EnrolmentRow
  <2>2. PICK n \in Nat : n = enrolment[e].paid
    BY <2>1
  <2>3. /\ enrolment[e].status = "PAID"
        /\ enrolment' = [enrolment EXCEPT ![e].status = "REFUNDED", ![e].refunded = n]
        /\ UNCHANGED <<redemption, settled, coded>>
    BY <1>8, <2>2 DEF RefundAll
  <2>4. n <= enrolment[e].paid /\ "REFUNDED" \in {"PAID", "REFUNDED"}
    BY <2>2
  <2> HIDE DEF e
  <2> QED
    BY <2>1, <2>2, <2>3, <2>4, Refunds
<1>9. ASSUME NEW w \in Worker, Requests(w) PROVE EnrolmentsAgree
  BY <1>9, RowsStay DEF Requests, ReadForCode, ReadForRemoval, ReadForPayment, ReadForCheckout,
     ReadForRefund, Reconcile, Webhook, BeginReconcile, RefundReported
<1>10. ASSUME NEW w \in Worker,
              \/ CreateAttempt(w) \/ CreateCheckout(w) \/ AskGateway(w) \/ FlagProblem(w) \/ GiveUp(w)
              \/ NotPaidYet(w) \/ NotPaid(w) \/ RefundedAtGateway(w) \/ PaidMismatch(w)
       PROVE  EnrolmentsAgree
  BY <1>10, RowsStay DEF CreateAttempt, CreateCheckout, AskGateway, FlagProblem, GiveUp,
     NotPaidYet, NotPaid, RefundedAtGateway, PaidMismatch
<1>11. ASSUME NEW a \in Attempt, GatewayStep(a) PROVE EnrolmentsAgree
  BY <1>11, RowsStay DEF GatewayStep
<1> QED
  BY <1>1, <1>2, <1>3, <1>4, <1>5, <1>6, <1>7, <1>8, <1>9, <1>10, <1>11 DEF Next, Steps, Decide

-------------------------------------------------------------------------------
(***************************************************************************)
(* Checkouts and requests                                                  *)
(***************************************************************************)

FinalStays == \A a \in Attempt : attempt[a].status \in Final => attempt'[a] = attempt[a]
AttemptsAdvance ==
    /\ attempt' \in [Attempt -> AttemptRow]
    /\ \A a \in Attempt : attempt[a].status # "NONE" => attempt'[a].status # "NONE"
    /\ FinalStays
NothingDecided ==
    \A a \in Attempt : attempt'[a].status \in Final => attempt[a].status \in Final
MoneyAgrees ==
    /\ MoneyTyped' /\ CheckoutsOK' /\ FinalStays
    /\ MaxCrashes = 0 => UnsettledMoneyIsFlagged'

LEMMA AttemptsStay ==
    ASSUME IInv, UNCHANGED attempt PROVE AttemptsAdvance /\ NothingDecided
BY DEF IInv, TypeOK, MoneyTyped, AttemptsAdvance, NothingDecided, FinalStays

LEMMA RowMoves ==
    ASSUME NEW r \in AttemptRow, NEW status \in AttemptStatus \ {"NONE"}, r.status # "NONE"
    PROVE  /\ [r EXCEPT !.status = status] \in AttemptRow
           /\ [r EXCEPT !.status = status].status = status
<1>1. r \in [status: AttemptStatus \ {"NONE"}, amount: Nat, e: Enrolment]
  BY DEF AttemptRow, NoAttempt
<1> QED
  BY <1>1 DEF AttemptRow

LEMMA OpenCancelled ==
    ASSUME IInv, NEW e, CancelOpenAttempts(e) PROVE AttemptsAdvance /\ NothingDecided
<1>1. \A a \in Attempt : attempt[a] \in AttemptRow
  BY DEF IInv, TypeOK, MoneyTyped
<1>2. ASSUME NEW a \in Attempt
      PROVE  /\ attempt'[a] \in AttemptRow
             /\ attempt'[a] = attempt[a] \/ (attempt[a].status \in NotYetFinal /\ attempt'[a].status = "CANCELLED")
  <2>1. CASE attempt[a].e = e /\ attempt[a].status \in NotYetFinal
    <3>1. attempt'[a] = [attempt[a] EXCEPT !.status = "CANCELLED"]
      BY <2>1 DEF CancelOpenAttempts
    <3>2. attempt[a].status # "NONE" /\ "CANCELLED" \in AttemptStatus \ {"NONE"}
      BY <2>1 DEF NotYetFinal, AttemptStatus
    <3> QED
      BY <1>1, <2>1, <3>1, <3>2, RowMoves
  <2>2. CASE ~(attempt[a].e = e /\ attempt[a].status \in NotYetFinal)
    BY <1>1, <2>2 DEF CancelOpenAttempts
  <2> QED
    BY <2>1, <2>2
<1>3. attempt' \in [Attempt -> AttemptRow]
  BY <1>2 DEF CancelOpenAttempts
<1> QED
  BY <1>2, <1>3 DEF AttemptsAdvance, NothingDecided, FinalStays, NotYetFinal, Final

LEMMA AttemptMoves ==
    ASSUME IInv, NEW a \in Attempt, NEW from, from \subseteq SettleableFrom,
           NEW to \in AttemptStatus \ {"NONE"}, Transition(a, from, to)
    PROVE  /\ AttemptsAdvance
           /\ \A b \in Attempt \ {a} : attempt'[b] = attempt[b]
           /\ attempt[a].status \notin from => attempt' = attempt
           /\ attempt[a].status \in from => attempt'[a].status = to
<1>1. \A b \in Attempt : attempt[b] \in AttemptRow
  BY DEF IInv, TypeOK, MoneyTyped
<1>2. CASE attempt[a].status \in from
  <2> DEFINE r == attempt[a]
             n == [r EXCEPT !.status = to]
  <2>1. r.status # "NONE" /\ r.status \notin Final
    BY <1>2 DEF SettleableFrom, Final
  <2>2. n \in AttemptRow /\ n.status = to
    BY <1>1, <2>1, RowMoves
  <2>3. attempt' = [attempt EXCEPT ![a] = n]
    BY <1>2 DEF Transition
  <2> HIDE DEF n
  <2>4. \A b \in Attempt : attempt'[b] = IF b = a THEN n ELSE attempt[b]
    BY <2>3 DEF IInv, TypeOK, MoneyTyped
  <2>5. attempt' \in [Attempt -> AttemptRow]
    BY <2>2, <2>3 DEF IInv, TypeOK, MoneyTyped
  <2> QED
    BY <1>2, <2>1, <2>2, <2>4, <2>5 DEF AttemptsAdvance, FinalStays
<1>3. CASE attempt[a].status \notin from
  BY <1>3, AttemptsStay DEF Transition
<1> QED
  BY <1>2, <1>3
\* What grows, whoever is at work.
MoneyGrows ==
    /\ AttemptsAdvance
    /\ gateway' \in [Attempt -> GatewayState]
    /\ \A a \in Attempt : gateway[a] # "none" => gateway'[a] # "none"
    /\ settledBy \subseteq settledBy' /\ settledBy' \subseteq Attempt
    /\ flagged \subseteq flagged' /\ flagged' \subseteq Attempt
    /\ crashes' \in 0..MaxCrashes
\* What a task may rely on when it is taken up.
Informed(t) ==
    /\ t.op \in {"create", "reconcile", "decide"} => attempt'[t.a].status # "NONE"
    /\ t.op = "create" => gateway'[t.a] = "none" /\ attempt[t.a].status = "NONE"
    /\ t.op = "decide" /\ t.answer # "none" => gateway'[t.a] # "none"

\* One request goes on to t.  It alone may make a checkout known, the one it creates; what
\* is decided had been seen at the gateway, and made an enrolment paid or is to be reported.
LEMMA RequestMoves ==
    ASSUME IInv, MoneyGrows, NEW w \in Worker, NEW t \in Task,
           task' = [task EXCEPT ![w] = t], Informed(t),
           \A a \in Attempt : gateway[a] = "none" /\ gateway'[a] # "none" =>
                                  Doing(w, "create") /\ task[w].a = a,
           \A a \in Attempt : attempt'[a].status \in Final /\ attempt[a].status \notin Final =>
                                  /\ gateway[a] # "none"
                                  /\ a \in settledBy' \/ (t.op = "flag" /\ t.a = a),
           MaxCrashes = 0 /\ Doing(w, "flag") => task[w].a \in flagged'
    PROVE  MoneyAgrees
<1>0. TypeOK /\ CheckoutsOK
  BY DEF IInv
<1>1. \A v \in Worker : task'[v] = IF v = w THEN t ELSE task[v]
  BY <1>0 DEF TypeOK, MoneyTyped
<1>2. MoneyTyped'
  BY <1>0, <1>1 DEF TypeOK, MoneyTyped, MoneyGrows, AttemptsAdvance
<1>3. \A a \in Attempt : attempt'[a].status \in Final => gateway'[a] # "none"
  BY <1>0 DEF CheckoutsOK, MoneyGrows, AttemptsAdvance, FinalStays
<1>4. \A v \in Worker : task[v].op \in {"create", "reconcile", "decide"} => task[v].a \in Attempt
  BY <1>0, TaskShape DEF Doing
<1>5. ASSUME NEW v \in Worker
      PROVE  /\ task'[v].op \in {"create", "reconcile", "decide"} => attempt'[task'[v].a].status # "NONE"
             /\ task'[v].op = "create" => gateway'[task'[v].a] = "none"
             /\ task'[v].op = "decide" /\ task'[v].answer # "none" => gateway'[task'[v].a] # "none"
  <2>1. CASE v = w
    BY <1>1, <2>1 DEF Informed
  <2>2. CASE v # w
    <3>1. task'[v] = task[v]
      BY <1>1, <2>2
    <3>2. task[v].op \in {"create", "reconcile", "decide"} => attempt'[task[v].a].status # "NONE"
      BY <1>0, <1>4 DEF CheckoutsOK, MoneyGrows, AttemptsAdvance
    <3>3. task[v].op = "create" => gateway'[task[v].a] = "none"
      BY <1>0, <1>4, <2>2 DEF CheckoutsOK, Doing
    <3>4. task[v].op = "decide" /\ task[v].answer # "none" => gateway'[task[v].a] # "none"
      BY <1>0, <1>4 DEF CheckoutsOK, MoneyGrows
    <3> QED
      BY <3>1, <3>2, <3>3, <3>4
  <2> QED
    BY <2>1, <2>2
<1>6. ASSUME NEW u \in Worker, NEW v \in Worker, task'[u].op = "create", task'[v].op = "create",
             task'[u].a = task'[v].a
      PROVE  u = v
  <2>1. CASE u # w /\ v # w
    BY <1>0, <1>1, <1>6, <2>1 DEF CheckoutsOK, Doing
  <2>2. CASE u = w \/ v = w
    BY <1>0, <1>1, <1>6, <2>2 DEF CheckoutsOK, Informed
  <2> QED
    BY <2>1, <2>2
<1>7. CheckoutsOK'
  <2>1. \A a \in Attempt : attempt'[a].status = "NONE" => gateway'[a] = "none"
    BY <1>0 DEF CheckoutsOK, MoneyGrows, AttemptsAdvance, Doing
  <2> QED
    BY <1>3, <1>5, <1>6, <2>1 DEF CheckoutsOK, Doing
<1>8. ASSUME MaxCrashes = 0 PROVE UnsettledMoneyIsFlagged'
  <2> SUFFICES ASSUME NEW CONSTANT a \in Attempt, attempt'[a].status \in Final
               PROVE  \/ a \in settledBy' \cup flagged'
                      \/ \E v \in Worker : task'[v].op = "flag" /\ task'[v].a = a
    BY DEF UnsettledMoneyIsFlagged, Doing
  <2>1. CASE attempt[a].status \notin Final
    BY <1>1, <2>1
  <2>2. CASE attempt[a].status \in Final
    <3>1. \/ a \in settledBy \cup flagged
          \/ \E v \in Worker : task[v].op = "flag" /\ task[v].a = a
      BY <1>8, <2>2 DEF IInv, UnsettledMoneyIsFlagged, Doing
    <3>2. CASE a \in settledBy \cup flagged
      BY <3>2 DEF MoneyGrows
    <3>3. ASSUME NEW v \in Worker, task[v].op = "flag", task[v].a = a
          PROVE  a \in flagged' \/ (task'[v].op = "flag" /\ task'[v].a = a)
      BY <1>1, <1>8, <3>3 DEF Doing
    <3> QED
      BY <3>1, <3>2, <3>3
  <2> QED
    BY <2>1, <2>2
<1> QED
  BY <1>2, <1>7, <1>8 DEF MoneyAgrees, MoneyGrows, AttemptsAdvance

\* No request moves: the gateway's side, and transactions of one step.
LEMMA NobodyMoves ==
    ASSUME IInv, MoneyGrows, NothingDecided, UNCHANGED task,
           \A a \in Attempt : gateway[a] = "none" => gateway'[a] = "none"
    PROVE  MoneyAgrees
<1>0. TypeOK /\ CheckoutsOK
  BY DEF IInv
<1>1. MoneyTyped'
  BY <1>0 DEF TypeOK, MoneyTyped, MoneyGrows, AttemptsAdvance
<1>2. \A v \in Worker : task[v].op \in {"create", "reconcile", "decide"} => task[v].a \in Attempt
  BY <1>0, TaskShape DEF Doing
<1>3. \A a \in Attempt : attempt'[a].status \in Final => gateway'[a] # "none"
  BY <1>0 DEF CheckoutsOK, MoneyGrows, NothingDecided
<1>4. ASSUME NEW v \in Worker
      PROVE  /\ task[v].op \in {"create", "reconcile", "decide"} => attempt'[task[v].a].status # "NONE"
             /\ task[v].op = "create" => gateway'[task[v].a] = "none"
             /\ task[v].op = "decide" /\ task[v].answer # "none" => gateway'[task[v].a] # "none"
  BY <1>0, <1>2 DEF CheckoutsOK, MoneyGrows, AttemptsAdvance
<1>5. CheckoutsOK'
  <2>1. \A a \in Attempt : attempt'[a].status = "NONE" => gateway'[a] = "none"
    BY <1>0 DEF CheckoutsOK, MoneyGrows, AttemptsAdvance
  <2> QED
    BY <1>0, <1>3, <1>4, <2>1 DEF CheckoutsOK, Doing
<1>6. ASSUME MaxCrashes = 0 PROVE UnsettledMoneyIsFlagged'
  BY <1>6 DEF IInv, UnsettledMoneyIsFlagged, Doing, MoneyGrows, NothingDecided
<1> QED
  BY <1>1, <1>5, <1>6 DEF MoneyAgrees, MoneyGrows, AttemptsAdvance

\* A request moves and the gateway does not, nor is anything decided.
LEMMA QuietlyMoves ==
    ASSUME IInv, NEW w \in Worker, NEW t \in Task, task' = [task EXCEPT ![w] = t],
           AttemptsAdvance, NothingDecided, Informed(t),
           UNCHANGED <<gateway, settledBy>>, crashes' \in 0..MaxCrashes,
           flagged \subseteq flagged', flagged' \subseteq Attempt,
           MaxCrashes = 0 /\ Doing(w, "flag") => task[w].a \in flagged'
    PROVE  MoneyAgrees
<1>1. MoneyGrows
  BY DEF IInv, TypeOK, MoneyTyped, MoneyGrows
<1> QED
  BY <1>1, RequestMoves DEF NothingDecided

LEMMA IdleTask == Idle \in Task /\ Informed(Idle)
BY DEF Idle, Task, Informed
LEMMA RequestsMoney == ASSUME IInv, NEW w \in Worker, Requests(w) PROVE MoneyAgrees
<1>0. TypeOK /\ crashes \in 0..MaxCrashes /\ flagged \subseteq Attempt
  BY DEF IInv, TypeOK, MoneyTyped
<1>1. ASSUME NEW t \in Task, Informed(t), Begin(w, t),
             UNCHANGED <<attempt, gateway, settledBy, flagged, crashes>>
      PROVE  MoneyAgrees
  <2>1. task' = [task EXCEPT ![w] = t] /\ ~Doing(w, "flag")
    BY <1>1 DEF Begin, Doing, Idle
  <2> QED
    BY <1>0, <1>1, <2>1, AttemptsStay, QuietlyMoves
<1>2. ASSUME NEW e \in Enrolment, NEW c \in Code, ReadForCode(w, e, c) PROVE MoneyAgrees
  <2> DEFINE t == [op |-> "apply", e |-> e, code |-> c]
  <2>1. t \in Task /\ Informed(t)
    BY DEF Task, Informed
  <2>2. Begin(w, t) /\ UNCHANGED <<attempt, gateway, settledBy, flagged, crashes>>
    BY <1>2 DEF ReadForCode
  <2> HIDE DEF t
  <2> QED
    BY <1>1, <2>1, <2>2
<1>3. ASSUME NEW e \in Enrolment, ReadForRemoval(w, e) PROVE MoneyAgrees
  <2> DEFINE t == [op |-> "remove", e |-> e]
  <2>1. t \in Task /\ Informed(t)
    BY DEF Task, Informed
  <2>2. Begin(w, t) /\ UNCHANGED <<attempt, gateway, settledBy, flagged, crashes>>
    BY <1>3 DEF ReadForRemoval
  <2> HIDE DEF t
  <2> QED
    BY <1>1, <2>1, <2>2
<1>4. ASSUME NEW e \in Enrolment, ReadForPayment(w, e) \/ ReadForCheckout(w, e) PROVE MoneyAgrees
  <2>1. PICK n \in Nat : n = enrolment[e].price
    BY RowTyped DEF EnrolmentRow
  <2>2. PICK op \in {"pay", "checkout"} :
          /\ Begin(w, [op |-> op, e |-> e, price |-> n])
          /\ UNCHANGED <<attempt, gateway, settledBy, flagged, crashes>>
    BY <1>4, <2>1 DEF ReadForPayment, ReadForCheckout
  <2> DEFINE t == [op |-> op, e |-> e, price |-> n]
  <2>3. t \in Task
    BY DEF Task
  <2>4. Informed(t)
    BY DEF Informed
  <2> HIDE DEF t
  <2>5. Begin(w, t)
    BY <2>2 DEF t
  <2> QED
    BY <1>1, <2>2, <2>3, <2>4, <2>5
<1>5. ASSUME NEW e \in Enrolment, ReadForRefund(w, e) PROVE MoneyAgrees
  <2>1. PICK p \in Nat, r \in Nat : p = enrolment[e].paid /\ r = enrolment[e].refunded
    BY RowTyped DEF EnrolmentRow
  <2> DEFINE t == [op |-> "refund", e |-> e, paid |-> p, refunded |-> r]
  <2>2. t \in Task /\ Informed(t)
    BY DEF Task, Informed
  <2>3. Begin(w, t) /\ UNCHANGED <<attempt, gateway, settledBy, flagged, crashes>>
    BY <1>5, <2>1 DEF ReadForRefund
  <2> HIDE DEF t
  <2> QED
    BY <1>1, <2>2, <2>3
<1>6. ASSUME NEW a \in Attempt, attempt[a].status # "NONE", BeginReconcile(w, a) PROVE MoneyAgrees
  <2>1. attempt[a].e \in Enrolment
    BY <1>0, <1>6, AttemptShape
  <2>2. PICK n \in Nat : n = enrolment[attempt[a].e].price
    BY <2>1, RowTyped DEF EnrolmentRow
  <2> DEFINE t == [op |-> "reconcile", a |-> a, price |-> n]
  <2>3. t \in Task
    BY DEF Task
  <2>4. Begin(w, t) /\ UNCHANGED <<attempt, gateway, settledBy, flagged, crashes>>
    BY <1>6, <2>2 DEF BeginReconcile
  <2>5. Informed(t)
    BY <1>6, <2>4 DEF Informed
  <2> HIDE DEF t
  <2> QED
    BY <1>1, <2>3, <2>4, <2>5
<1>7. ASSUME NEW a \in Attempt, RefundReported(w, a) PROVE MoneyAgrees
  <2> DEFINE t == [op |-> "flag", a |-> a]
  <2>1. t \in Task /\ Informed(t)
    BY DEF Task, Informed
  <2>2. Begin(w, t) /\ UNCHANGED <<attempt, gateway, settledBy, flagged, crashes>>
    BY <1>7 DEF RefundReported
  <2> HIDE DEF t
  <2> QED
    BY <1>1, <2>1, <2>2
<1> QED
  BY <1>2, <1>3, <1>4, <1>5, <1>6, <1>7 DEF Requests, Reconcile, Webhook, Reconcilable, NotYetFinal

LEMMA DecideMoney == ASSUME IInv, NEW w \in Worker, Decide(w) PROVE MoneyAgrees
<1> DEFINE a == task[w].a
<1>0. TypeOK /\ crashes \in 0..MaxCrashes /\ flagged \subseteq Attempt /\ settledBy \subseteq Attempt
  BY DEF IInv, TypeOK, MoneyTyped
<1>1. Doing(w, "decide") /\ a \in Attempt /\ ~Doing(w, "flag")
  BY <1>0, TaskShape DEF Decide, NotPaidYet, NotPaid, RefundedAtGateway, PaidMismatch, PaidMatch,
     Answered, Doing
<1>2. task[w].answer # "none" => gateway[a] # "none"
  BY <1>1 DEF IInv, CheckoutsOK, Doing
<1>3. /\ UNCHANGED gateway /\ UNCHANGED flagged /\ UNCHANGED crashes
  BY DEF Decide, NotPaidYet, NotPaid, RefundedAtGateway, PaidMismatch, PaidMatch
<1> DEFINE flag == [op |-> "flag", a |-> a]
<1>4. flag \in Task /\ Informed(flag) /\ flag.op = "flag" /\ flag.a = a
  BY <1>1 DEF Task, Informed
<1> HIDE DEF flag
\* Something other than a settlement or a mismatch is written, or nothing.
<1>5. ASSUME NEW t \in {Idle, flag}, task' = [task EXCEPT ![w] = t], AttemptsAdvance, NothingDecided,
             UNCHANGED settledBy
      PROVE  MoneyAgrees
  <2>1. t \in Task /\ Informed(t)
    BY <1>4, <1>5, IdleTask
  <2> QED
    BY <1>0, <1>1, <1>3, <1>5, <2>1, QuietlyMoves
\* The attempt becomes final: the enrolment was paid by it, or it is to be reported.
<1>6. ASSUME NEW t \in {Idle, flag}, task' = [task EXCEPT ![w] = t], task[w].answer # "none",
             NEW to \in {"PAID", "MISMATCH"}, Transition(a, SettleableFrom, to),
             settledBy \subseteq settledBy', settledBy' \subseteq Attempt,
             attempt[a].status \in SettleableFrom => a \in settledBy' \/ t = flag
      PROVE  MoneyAgrees
  <2>1. t \in Task /\ Informed(t)
    BY <1>4, <1>6, IdleTask
  <2>2. to \in AttemptStatus \ {"NONE"}
    BY DEF AttemptStatus
  <2>3. /\ AttemptsAdvance
        /\ \A b \in Attempt \ {a} : attempt'[b] = attempt[b]
        /\ attempt[a].status \notin SettleableFrom => attempt' = attempt
    BY <1>1, <1>6, <2>2, AttemptMoves
  <2>4. MoneyGrows
    BY <1>0, <1>3, <1>6, <2>3 DEF MoneyGrows, TypeOK, MoneyTyped
  <2>5. \A b \in Attempt : attempt'[b].status \in Final /\ attempt[b].status \notin Final =>
          /\ gateway[b] # "none"
          /\ b \in settledBy' \/ (t.op = "flag" /\ t.a = b)
    BY <1>2, <1>4, <1>6, <2>3
  <2> QED
    BY <1>1, <1>3, <1>6, <2>1, <2>4, <2>5, RequestMoves
<1>7. CASE NotPaidYet(w)
  BY <1>5, <1>7, AttemptsStay DEF NotPaidYet, Done, Proceed
<1>8. ASSUME NEW to \in {"FAILED", "EXPIRED", "CANCELLED"}, Transition(a, NotYetFinal, to)
      PROVE  AttemptsAdvance /\ NothingDecided
  <2>1. NotYetFinal \subseteq SettleableFrom /\ to \in AttemptStatus \ {"NONE"} /\ to \notin Final
    BY DEF NotYetFinal, SettleableFrom, AttemptStatus, Final
  <2>2. /\ AttemptsAdvance
        /\ \A b \in Attempt \ {a} : attempt'[b] = attempt[b]
        /\ attempt[a].status \notin NotYetFinal => attempt' = attempt
        /\ attempt[a].status \in NotYetFinal => attempt'[a].status = to
    BY <1>1, <1>8, <2>1, AttemptMoves
  <2> QED
    BY <2>1, <2>2 DEF NothingDecided
<1>9. CASE NotPaid(w)
  <2>1. StatusFor(task[w].answer) \in {"FAILED", "EXPIRED", "CANCELLED"}
    BY <1>9 DEF NotPaid, Answered, StatusFor
  <2>2. AttemptsAdvance /\ NothingDecided
    BY <1>8, <1>9, <2>1 DEF NotPaid
  <2> QED
    BY <1>5, <1>9, <2>2 DEF NotPaid, Done, Proceed
<1>10. CASE RefundedAtGateway(w)
  <2>1. AttemptsAdvance /\ NothingDecided
    BY <1>8, <1>10 DEF RefundedAtGateway
  <2>2. task' = [task EXCEPT ![w] = flag] \/ task' = [task EXCEPT ![w] = Idle]
    BY <1>10 DEF RefundedAtGateway, Done, Proceed, flag
  <2>3. UNCHANGED settledBy
    BY <1>10 DEF RefundedAtGateway
  <2> QED
    BY <1>5, <2>1, <2>2, <2>3
<1>11. CASE PaidMismatch(w)
  <2>1. task[w].answer # "none" /\ Transition(a, SettleableFrom, "MISMATCH") /\ UNCHANGED settledBy
    BY <1>11 DEF PaidMismatch, Answered
  <2>2. CASE attempt[a].status \in SettleableFrom
    <3>1. task' = [task EXCEPT ![w] = flag]
      BY <1>11, <2>2 DEF PaidMismatch, AfterClaim, Proceed, flag
    <3> QED
      BY <1>0, <1>6, <2>1, <3>1
  <2>3. CASE attempt[a].status \notin SettleableFrom
    <3>1. task' = [task EXCEPT ![w] = Idle]
      BY <1>11, <2>3 DEF PaidMismatch, Done, Proceed
    <3> QED
      BY <1>0, <1>6, <2>1, <2>3, <3>1
  <2> QED
    BY <2>2, <2>3
<1>12. CASE PaidMatch(w)
  <2>1. task[w].answer # "none"
    BY <1>12 DEF PaidMatch, Answered
  <2>2. CASE attempt[a].status \notin SettleableFrom
    <3>1. task' = [task EXCEPT ![w] = Idle] /\ UNCHANGED attempt /\ UNCHANGED settledBy
      BY <1>12, <2>2 DEF PaidMatch, Done, Proceed
    <3> QED
      BY <1>5, <3>1, AttemptsStay
  <2>3. CASE attempt[a].status \in SettleableFrom /\ Unpaid(attempt[a].e)
    <3>1. task' = [task EXCEPT ![w] = Idle] /\ Transition(a, SettleableFrom, "PAID")
          /\ settledBy' = settledBy \cup {a}
      BY <1>12, <2>3 DEF PaidMatch, AfterClaim, Proceed
    <3> QED
      BY <1>0, <1>1, <1>6, <2>1, <3>1
  <2>4. CASE attempt[a].status \in SettleableFrom /\ ~Unpaid(attempt[a].e)
    <3>1. task' = [task EXCEPT ![w] = flag] /\ Transition(a, SettleableFrom, "PAID")
          /\ UNCHANGED settledBy
      BY <1>12, <2>4 DEF PaidMatch, AfterClaim, Proceed, flag
    <3> QED
      BY <1>0, <1>6, <2>1, <3>1
  <2> QED
    BY <2>2, <2>3, <2>4
<1> QED
  BY <1>7, <1>9, <1>10, <1>11, <1>12 DEF Decide
LEMMA StepsMoney == ASSUME IInv, NEW w \in Worker, Steps(w) PROVE MoneyAgrees
<1> DEFINE a == task[w].a
<1>0. TypeOK /\ crashes \in 0..MaxCrashes /\ flagged \subseteq Attempt /\ settledBy \subseteq Attempt
  BY DEF IInv, TypeOK, MoneyTyped
<1>1. ASSUME Done(w), AttemptsAdvance, NothingDecided, ~Doing(w, "flag"),
             UNCHANGED <<gateway, settledBy, flagged, crashes>>
      PROVE  MoneyAgrees
  <2>1. task' = [task EXCEPT ![w] = Idle]
    BY <1>1 DEF Done, Proceed
  <2> QED
    BY <1>0, <1>1, <2>1, IdleTask, QuietlyMoves
<1>2. CASE ApplyCode(w)
  BY <1>1, <1>2, OpenCancelled DEF ApplyCode, Redeem, Doing
<1>3. CASE RemoveCode(w)
  BY <1>1, <1>3, OpenCancelled DEF RemoveCode, Release, Doing
<1>4. CASE RecordPayment(w) \/ RefundPart(w) \/ RefundAll(w)
  BY <1>1, <1>4, AttemptsStay DEF RecordPayment, RefundPart, RefundAll, Doing
<1>5. CASE CreateAttempt(w)
  <2>1. PICK b \in Attempt :
          /\ attempt[b].status = "NONE"
          /\ attempt' = [attempt EXCEPT ![b] =
                 [status |-> "CREATED", amount |-> task[w].price, e |-> task[w].e]]
          /\ Proceed(w, [op |-> "create", a |-> b])
    BY <1>5 DEF CreateAttempt
  <2>2. task[w].e \in Enrolment /\ task[w].price \in Nat /\ ~Doing(w, "flag")
    BY <1>0, <1>5, TaskShape DEF CreateAttempt, Doing
  <2>3. /\ gateway[b] = "none" /\ UNCHANGED <<gateway, settledBy, flagged, crashes>>
    BY <1>5, <2>1 DEF CreateAttempt, IInv, CheckoutsOK
  <2> DEFINE n == [status |-> "CREATED", amount |-> task[w].price, e |-> task[w].e]
             t == [op |-> "create", a |-> b]
  <2>4. n \in AttemptRow /\ n.status = "CREATED"
    BY <2>2 DEF AttemptRow, AttemptStatus
  <2> HIDE DEF n
  <2>5. /\ \A d \in Attempt : attempt'[d] = IF d = b THEN n ELSE attempt[d]
        /\ attempt' \in [Attempt -> AttemptRow]
    BY <1>0, <2>1, <2>4 DEF n, TypeOK, MoneyTyped
  <2>6. AttemptsAdvance /\ NothingDecided
    BY <2>1, <2>4, <2>5 DEF AttemptsAdvance, NothingDecided, FinalStays, Final
  <2>7. t \in Task /\ Informed(t)
    BY <2>1, <2>3, <2>4, <2>5 DEF Task, Informed
  <2>8. task' = [task EXCEPT ![w] = t]
    BY <2>1 DEF Proceed
  <2> HIDE DEF t
  <2> QED
    BY <1>0, <2>2, <2>3, <2>6, <2>7, <2>8, QuietlyMoves
<1>6. CASE CreateCheckout(w)
  <2>1. a \in Attempt /\ attempt[a].status # "NONE" /\ gateway[a] = "none" /\ Doing(w, "create")
    BY <1>0, <1>6, TaskShape DEF CreateCheckout, IInv, CheckoutsOK, Doing
  <2>2. attempt[a].status \notin Final
    BY <2>1 DEF IInv, CheckoutsOK
  <2>3. PICK status \in {"PENDING", "FAILED"} : attempt' = [attempt EXCEPT ![a].status = status]
    BY <1>6 DEF CreateCheckout
  <2> DEFINE n == [attempt[a] EXCEPT !.status = status]
  <2>4. n \in AttemptRow /\ n.status = status
    <3>1. attempt[a] \in AttemptRow /\ status \in AttemptStatus \ {"NONE"}
      BY <1>0, <2>1 DEF TypeOK, MoneyTyped, AttemptStatus
    <3> QED
      BY <2>1, <3>1, RowMoves
  <2>5. attempt' = [attempt EXCEPT ![a] = n]
    BY <2>3
  <2> HIDE DEF n
  <2>6. /\ \A d \in Attempt : attempt'[d] = IF d = a THEN n ELSE attempt[d]
        /\ attempt' \in [Attempt -> AttemptRow]
    BY <1>0, <2>1, <2>4, <2>5 DEF TypeOK, MoneyTyped
  <2>7. AttemptsAdvance /\ NothingDecided
    BY <2>2, <2>4, <2>6 DEF AttemptsAdvance, NothingDecided, FinalStays, Final
  <2>8. /\ gateway' \in [Attempt -> GatewayState]
        /\ \A d \in Attempt : d # a => gateway'[d] = gateway[d]
    BY <1>0, <1>6, <2>1 DEF CreateCheckout, TypeOK, MoneyTyped, GatewayState
  <2>9. /\ UNCHANGED settledBy /\ UNCHANGED flagged /\ UNCHANGED crashes
        /\ task' = [task EXCEPT ![w] = Idle]
    BY <1>6 DEF CreateCheckout, Done, Proceed
  <2>10. MoneyGrows
    BY <1>0, <2>1, <2>7, <2>8, <2>9 DEF MoneyGrows
  <2>11. ~Doing(w, "flag")
    BY <2>1 DEF Doing
  <2> QED
    BY <2>1, <2>7, <2>8, <2>9, <2>10, <2>11, IdleTask, RequestMoves DEF NothingDecided
<1>7. CASE AskGateway(w)
  <2>1. a \in Attempt /\ task[w].price \in Nat /\ attempt[a].status # "NONE" /\ ~Doing(w, "flag")
    BY <1>0, <1>7, TaskShape DEF AskGateway, IInv, CheckoutsOK, Doing
  <2>2. PICK answer \in Captured(gateway[a]) :
          /\ gateway' = [gateway EXCEPT ![a] = answer]
          /\ Proceed(w, [op |-> "decide", a |-> a, price |-> task[w].price, answer |-> answer])
    BY <1>7 DEF AskGateway
  <2>3. answer \in GatewayState /\ (answer = "none" <=> gateway[a] = "none")
    BY <1>0, <2>1, <2>2 DEF Captured, GatewayState, TypeOK, MoneyTyped
  <2>4. /\ gateway' \in [Attempt -> GatewayState]
        /\ \A d \in Attempt : gateway'[d] = IF d = a THEN answer ELSE gateway[d]
    BY <1>0, <2>2, <2>3 DEF TypeOK, MoneyTyped
  <2>5. /\ UNCHANGED attempt /\ UNCHANGED settledBy /\ UNCHANGED flagged /\ UNCHANGED crashes
    BY <1>7 DEF AskGateway
  <2> DEFINE t == [op |-> "decide", a |-> a, price |-> task[w].price, answer |-> answer]
  <2>6. t \in Task /\ Informed(t)
    BY <2>1, <2>3, <2>4, <2>5 DEF Task, Informed
  <2>7. task' = [task EXCEPT ![w] = t]
    BY <2>2 DEF Proceed
  <2> HIDE DEF t
  <2>8. AttemptsAdvance /\ NothingDecided
    BY <2>5, AttemptsStay
  <2>9. MoneyGrows
    BY <1>0, <2>3, <2>4, <2>5, <2>8 DEF MoneyGrows
  <2> QED
    BY <2>1, <2>3, <2>4, <2>5, <2>6, <2>7, <2>8, <2>9, RequestMoves DEF NothingDecided
<1>8. CASE FlagProblem(w)
  <2>1. a \in Attempt /\ flagged' = flagged \cup {a} /\ task' = [task EXCEPT ![w] = Idle]
        /\ UNCHANGED <<attempt, gateway, settledBy, crashes>>
    BY <1>0, <1>8, TaskShape DEF FlagProblem, Done, Proceed
  <2> QED
    BY <1>0, <2>1, IdleTask, AttemptsStay, QuietlyMoves
<1>9. CASE GiveUp(w)
  <2>1. task' = [task EXCEPT ![w] = Idle] /\ UNCHANGED <<attempt, gateway, settledBy, flagged>>
    BY <1>9 DEF GiveUp, Done, Proceed
  <2>2. crashes' \in 0..MaxCrashes /\ (Doing(w, "flag") => MaxCrashes # 0)
    BY <1>0, <1>9, CoursePaymentAssumption DEF GiveUp
  <2> QED
    BY <1>0, <2>1, <2>2, IdleTask, AttemptsStay, QuietlyMoves
<1>10. CASE Decide(w)
  BY <1>10, DecideMoney
<1> QED
  BY <1>2, <1>3, <1>4, <1>5, <1>6, <1>7, <1>8, <1>9, <1>10 DEF Steps

LEMMA MoneySide == ASSUME IInv, Next PROVE MoneyAgrees
<1>0. TypeOK /\ crashes \in 0..MaxCrashes /\ flagged \subseteq Attempt /\ settledBy \subseteq Attempt
  BY DEF IInv, TypeOK, MoneyTyped
<1>1. ASSUME AttemptsAdvance, NothingDecided, UNCHANGED <<gateway, task, settledBy, flagged, crashes>>
      PROVE  MoneyAgrees
  <2>1. MoneyGrows
    BY <1>0, <1>1 DEF MoneyGrows, TypeOK, MoneyTyped
  <2> QED
    BY <1>1, <2>1, NobodyMoves
<1>2. ASSUME NEW e \in Enrolment, Enrol(e) \/ ReleaseStale(e) PROVE MoneyAgrees
  BY <1>1, <1>2, AttemptsStay, OpenCancelled DEF Enrol, ReleaseStale, Redeem, Release
<1>3. ASSUME NEW a \in Attempt, GatewayStep(a) PROVE MoneyAgrees
  <2>1. PICK s \in GatewayState :
          <<gateway[a], s>> \in GatewayMoves /\ gateway' = [gateway EXCEPT ![a] = s]
    BY <1>3 DEF GatewayStep
  <2>2. gateway[a] # "none" /\ s # "none"
    BY <2>1 DEF GatewayMoves
  <2>3. /\ gateway' \in [Attempt -> GatewayState]
        /\ \A d \in Attempt : gateway'[d] = IF d = a THEN s ELSE gateway[d]
    BY <1>0, <2>1 DEF TypeOK, MoneyTyped
  <2>4. UNCHANGED attempt /\ UNCHANGED task /\ UNCHANGED settledBy /\ UNCHANGED flagged
        /\ UNCHANGED crashes
    BY <1>3 DEF GatewayStep
  <2>5. AttemptsAdvance /\ NothingDecided
    BY <2>4, AttemptsStay
  <2>6. MoneyGrows
    BY <1>0, <2>2, <2>3, <2>4, <2>5 DEF MoneyGrows
  <2> QED
    BY <2>2, <2>3, <2>4, <2>5, <2>6, NobodyMoves
<1> QED
  BY <1>2, <1>3, RequestsMoney, StepsMoney DEF Next

-------------------------------------------------------------------------------
(***************************************************************************)
(* The theorems                                                            *)
(***************************************************************************)

LEMMA InitIInv == Init => IInv
<1> SUFFICES ASSUME Init PROVE IInv
  OBVIOUS
<1>1. RowsTyped
  BY DEF Init, RowsTyped, EnrolmentRow, EnrolmentStatus, RedemptionRow
<1>2. MoneyTyped
  BY CoursePaymentAssumption DEF Init, MoneyTyped, AttemptRow, NoAttempt, GatewayState, Task
<1>3. RowsOK
  BY DEF Init, RowsOK, RowOK, UseOK, PriceOK, OnceOK, RefundOK, NoRedemption
<1>4. LimitsOK
  <2>1. \A c \in Code : LiveUses(c) = {}
    BY DEF Init, LiveUses, NoRedemption, Live
  <2> QED
    BY <2>1, FS_EmptySet, CoursePaymentAssumption DEF LimitsOK
<1>5. CheckoutsOK
  BY DEF Init, CheckoutsOK, Final, Idle, Doing
<1>6. UnsettledMoneyIsFlagged
  BY DEF Init, UnsettledMoneyIsFlagged, Final
<1> QED
  BY <1>1, <1>2, <1>3, <1>4, <1>5, <1>6 DEF IInv, TypeOK

LEMMA StepIInv == IInv /\ [Next]_vars => IInv'
<1> SUFFICES ASSUME IInv, [Next]_vars PROVE IInv'
  OBVIOUS
<1>1. CASE UNCHANGED vars
  <2>1. EnrolmentsAgree
    BY <1>1, RowsStay DEF vars
  <2>2. MoneyAgrees
    <3>1. AttemptsAdvance /\ NothingDecided
      BY <1>1, AttemptsStay DEF vars
    <3>2. MoneyGrows
      BY <1>1, <3>1 DEF vars, IInv, TypeOK, MoneyTyped, MoneyGrows
    <3> QED
      BY <1>1, <3>1, <3>2, NobodyMoves DEF vars
  <2> QED
    BY <2>1, <2>2 DEF IInv, TypeOK, EnrolmentsAgree, MoneyAgrees
<1>2. CASE Next
  BY <1>2, EnrolmentSide, MoneySide DEF IInv, TypeOK, EnrolmentsAgree, MoneyAgrees
<1> QED
  BY <1>1, <1>2

\* The invariant behind the theorems below.
THEOREM Invariant == Spec => []IInv
BY InitIInv, StepIInv, PTL DEF Spec

\* Rows, checkouts, tasks and histories keep their types.
THEOREM TypeCorrect == Spec => []TypeOK
<1>1. IInv => TypeOK
  BY DEF IInv
<1> QED
  BY <1>1, Invariant, PTL

\* An enrolment without a code is settled once, by whoever comes first of staff, webhooks,
\* return pages and maintenance passes (settleEnrollmentPaymentTx), however many there are.
THEOREM SettledOnlyOnce == Spec => []SettledOnce
<1>1. IInv => SettledOnce
  BY DEF IInv, RowsOK, RowOK, OnceOK, SettledOnce
<1> QED
  BY <1>1, Invariant, PTL

\* Refunds that staff record at the same time never give back more than was paid
\* (addPartialRefund, refundEnrollment).
THEOREM RefundsStayWithinPaid == Spec => []RefundWithinPaid
<1>1. IInv => RefundWithinPaid
  BY DEF IInv, RowsOK, RowOK, RefundOK, RefundWithinPaid
<1> QED
  BY <1>1, Invariant, PTL

\* A code is never used more often than it allows, in all and by a learner, an enrolment
\* costs what its code makes it cost, and a use is reserved only while the payment is
\* pending (evaluatePromo, applyPromoTx, releaseTx, consumePromoTx).
THEOREM CodesHonoured == Spec => []CodesAreHonoured
<1>1. IInv => CodesAreHonoured
  BY DEF IInv, RowsOK, RowOK, PriceOK, LimitsOK, UsesOfLearner, CodesAreHonoured
<1> QED
  BY <1>1, Invariant, PTL

\* Money that reached the gateway and did not pay for an enrolment is reported to staff or
\* about to be, as long as no process is lost between the commit and the report
\* (settleConfirmedPayment, flagProblem).
THEOREM UnsettledMoneyFlagged ==
    ASSUME MaxCrashes = 0
    PROVE  Spec => []UnsettledMoneyIsFlagged
<1>1. IInv => UnsettledMoneyIsFlagged
  BY DEF IInv
<1> QED
  BY <1>1, Invariant, PTL

\* An attempt that was found paid or mismatched is not touched again, and a consumed use
\* of a code is never given back, however late a request decides (transition, releaseTx).
THEOREM DecisionsStay == Spec => DecidedStaysDecided
<1> DEFINE A == /\ \A a \in Attempt : attempt[a].status \in Final => attempt'[a] = attempt[a]
                /\ \A e \in Enrolment :
                     redemption[e].status = "CONSUMED" => redemption'[e] = redemption[e]
<1>1. IInv /\ [Next]_vars => [A]_vars
  BY EnrolmentSide, MoneySide DEF EnrolmentsAgree, ConsumedStays, MoneyAgrees, FinalStays
<1>2. Spec => [][A]_vars
  BY <1>1, Invariant, PTL DEF Spec
<1> QED
  BY <1>2 DEF DecidedStaysDecided
===============================================================================
