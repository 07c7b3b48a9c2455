----------------------------- MODULE CoursePayment -----------------------------
(***************************************************************************)
(* Paying for a course: enrolment, promo codes, online checkouts, staff     *)
(* payments and refunds.  academy.service.ts, online-payment.service.ts,    *)
(* maya-payment.service.ts, paypal-payment.service.ts, promo.service.ts.    *)
(*                                                                         *)
(* A request reads rows, calls a gateway or checks its input, and commits   *)
(* in a transaction later; nothing it read is locked meanwhile.  Each       *)
(* request is a worker, whose task holds what it has read so far; every     *)
(* action is one statement, one transaction or one gateway call.            *)
(***************************************************************************)
EXTENDS Naturals, FiniteSets

CONSTANTS
    Enrolment,      \* learners' enrolments
    LearnerOf,      \* the learner of an enrolment
    ListPrice,      \* the course price at enrolment, minor units
    Code,           \* promo codes
    PriceWith,      \* what an enrolment costs with a code; 0 is free
    MaxUses,        \* maxRedemptions of a code
    UsesPerLearner, \* perLearnerLimit of a code
    Attempt,        \* online payment rows that may be created
    RefundParts,    \* amounts of the part-refunds staff may record
    Worker,         \* requests and maintenance passes in flight at once
    MaxCrashes      \* bound: processes lost between two statements

ASSUME CoursePaymentAssumption ==
    /\ IsFiniteSet(Enrolment)
    /\ ListPrice \in Nat \ {0}
    /\ PriceWith \in [Code -> 0..ListPrice]
    /\ MaxUses \in [Code -> Nat \ {0}]
    /\ UsesPerLearner \in [Code -> Nat \ {0}]
    /\ RefundParts \subseteq Nat \ {0}
    /\ MaxCrashes \in Nat

VARIABLES
    enrolment,      \* CourseEnrollment rows
    redemption,     \* the live PromoRedemption of an enrolment, if any
    attempt,        \* OnlinePayment rows
    gateway,        \* the gateway's state of the checkout of an attempt
    task,           \* what each request in flight has read
    settled,        \* history: how often an enrolment became paid or waived, up to 2
    coded,          \* history: enrolments that ever had a promo code
    settledBy,      \* history: attempts that made an enrolment paid
    flagged,        \* attempts reported to staff as a problem
    crashes

vars == <<enrolment, redemption, attempt, gateway, task, settled, coded, settledBy,
          flagged, crashes>>

AttemptStatus == {"NONE", "CREATED", "PENDING", "PAID", "FAILED", "EXPIRED",
                  "CANCELLED", "MISMATCH"}
\* "paid_other" is a payment whose amount, currency or reference, as the gateway
\* reports it, is not what was asked for.
GatewayState == {"none", "open", "approved", "paid", "paid_other", "failed",
                 "expired", "cancelled", "refunded"}

Idle == [op |-> "idle"]
NoRedemption == [status |-> "NONE", code |-> "none"]

Init ==
    /\ enrolment = [e \in Enrolment |-> [status |-> "NONE", price |-> 0,
                                         paid |-> 0, refunded |-> 0]]
    /\ redemption = [e \in Enrolment |-> NoRedemption]
    /\ attempt = [a \in Attempt |-> [status |-> "NONE", amount |-> 0, e |-> "none"]]
    /\ gateway = [a \in Attempt |-> "none"]
    /\ task = [w \in Worker |-> Idle]
    /\ settled = [e \in Enrolment |-> 0]
    /\ coded = {}
    /\ settledBy = {}
    /\ flagged = {}
    /\ crashes = 0

-------------------------------------------------------------------------------
\* A worker takes up a request, moves on with it, or is done with it.
Begin(w, t) == task[w] = Idle /\ task' = [task EXCEPT ![w] = t]
Proceed(w, t) == task' = [task EXCEPT ![w] = t]
Done(w) == Proceed(w, Idle)

Doing(w, op) == task[w].op = op

\* Mutant of NotYetFinal: the transition does not look at the status.
AnyStatus == AttemptStatus \ {"NONE"}

NotYetFinal == {"CREATED", "PENDING"}
SettleableFrom == {"CREATED", "PENDING", "FAILED", "EXPIRED", "CANCELLED"}

\* cancelOpenForEnrollment: attempts made for the old price.
CancelOpenAttempts(e) ==
    attempt' = [a \in Attempt |->
        IF attempt[a].e = e /\ attempt[a].status \in NotYetFinal
        THEN [attempt[a] EXCEPT !.status = "CANCELLED"]
        ELSE attempt[a]]

-------------------------------------------------------------------------------
(***************************************************************************)
(* Promo codes                                                             *)
(***************************************************************************)
Live == {"RESERVED", "CONSUMED"}

UsesByOthers(c, e) ==
    {f \in Enrolment \ {e} : redemption[f].status \in Live /\ redemption[f].code = c}

\* Mutant of MayUse: one use too many.
MayUseOneMore(c, e) ==
    /\ Cardinality(UsesByOthers(c, e)) <= MaxUses[c]
    /\ Cardinality({f \in UsesByOthers(c, e) : LearnerOf[f] = LearnerOf[e]})
         < UsesPerLearner[c]

\* evaluatePromo under the code's lock.  Its other conditions (dates, courses,
\* currency, minimum) refuse a code whatever the payment does; refusing is
\* the worker giving up.
MayUse(c, e) ==
    /\ Cardinality(UsesByOthers(c, e)) < MaxUses[c]
    /\ Cardinality({f \in UsesByOthers(c, e) : LearnerOf[f] = LearnerOf[e]})
         < UsesPerLearner[c]

\* applyPromoTx.  It trusts the caller that the enrolment is unpaid.
Redeem(e, c) ==
    /\ MayUse(c, e)
    /\ redemption[e].status # "CONSUMED"
    /\ LET free == PriceWith[c] = 0 IN
        /\ redemption' = [redemption EXCEPT ![e] =
               [status |-> IF free THEN "CONSUMED" ELSE "RESERVED", code |-> c]]
        /\ enrolment' = [enrolment EXCEPT
               ![e].price = PriceWith[c],
               ![e].status = IF free THEN "NOT_REQUIRED" ELSE "PENDING"]
    /\ CancelOpenAttempts(e)
    /\ coded' = coded \cup {e}

\* enrol, without and with a code: one transaction either way.
Enrol(e) ==
    /\ enrolment[e].status = "NONE"
    /\ \/ /\ enrolment' = [enrolment EXCEPT ![e].status = "PENDING",
                                            ![e].price = ListPrice]
          /\ UNCHANGED <<redemption, attempt, coded>>
       \/ \E c \in Code : Redeem(e, c)
    /\ UNCHANGED <<gateway, task, settled, settledBy, flagged, crashes>>

\* applyPromoToEnrollment: ownPendingEnrollment, before the transaction.
ReadForCode(w, e, c) ==
    /\ enrolment[e].status = "PENDING"
    /\ Begin(w, [op |-> "apply", e |-> e, code |-> c])
    /\ UNCHANGED <<enrolment, redemption, attempt, gateway, settled, coded, settledBy,
                   flagged, crashes>>

ApplyCode(w) ==
    /\ Doing(w, "apply")
    /\ Redeem(task[w].e, task[w].code)
    /\ Done(w)
    /\ UNCHANGED <<gateway, settled, settledBy, flagged, crashes>>

Releasable(e) == redemption[e].status = "RESERVED"

\* releaseTx
Release(e) ==
    /\ Releasable(e)
    /\ redemption' = [redemption EXCEPT ![e] = NoRedemption]
    /\ enrolment' = [enrolment EXCEPT ![e].price = ListPrice,
                                      ![e].status = "PENDING"]
    /\ CancelOpenAttempts(e)

\* removePromoFromEnrollment
ReadForRemoval(w, e) ==
    /\ enrolment[e].status = "PENDING"
    /\ Begin(w, [op |-> "remove", e |-> e])
    /\ UNCHANGED <<enrolment, redemption, attempt, gateway, settled, coded, settledBy,
                   flagged, crashes>>

RemoveCode(w) ==
    /\ Doing(w, "remove")
    /\ Release(task[w].e)
    /\ Done(w)
    /\ UNCHANGED <<gateway, settled, coded, settledBy, flagged, crashes>>

\* releaseStaleReservations: checks and releases in one transaction.
ReleaseStale(e) ==
    /\ enrolment[e].status = "PENDING"
    /\ Release(e)
    /\ UNCHANGED <<gateway, task, settled, coded, settledBy, flagged, crashes>>

-------------------------------------------------------------------------------
(***************************************************************************)
(* Settlement                                                              *)
(***************************************************************************)

\* Mutant of Unpaid: the update is not conditional on the status.
EverUnpaid(e) == enrolment[e].status # "NONE"

\* recordPaymentIfPending changes a row only if this holds when it runs.
Unpaid(e) == enrolment[e].status = "PENDING"

\* consumePromoTx: a use that was reserved is consumed.
AfterConsume(use) == IF use = "RESERVED" THEN "CONSUMED" ELSE use

\* settleEnrollmentPaymentTx
Settle(e, status, amount) ==
    /\ enrolment' = [enrolment EXCEPT ![e].status = status, ![e].paid = amount]
    /\ redemption' = [redemption EXCEPT ![e].status = AfterConsume(@)]
    /\ settled' = [settled EXCEPT ![e] = IF @ < 2 THEN @ + 1 ELSE @]

\* recordCoursePayment: the price staff see, then the transaction.  Staff enter
\* what was paid, at least the price; a waiver enters no amount.
ReadForPayment(w, e) ==
    /\ enrolment[e].status = "PENDING"
    /\ Begin(w, [op |-> "pay", e |-> e, price |-> enrolment[e].price])
    /\ UNCHANGED <<enrolment, redemption, attempt, gateway, settled, coded, settledBy,
                   flagged, crashes>>

RecordPayment(w) ==
    /\ Doing(w, "pay")
    /\ Unpaid(task[w].e)
    /\ \/ Settle(task[w].e, "PAID", task[w].price)
       \/ Settle(task[w].e, "WAIVED", enrolment[task[w].e].paid)
    /\ Done(w)
    /\ UNCHANGED <<attempt, gateway, coded, settledBy, flagged, crashes>>

-------------------------------------------------------------------------------
(***************************************************************************)
(* Online payments, Maya and PayPal                                        *)
(***************************************************************************)

\* startMayaCheckout, startPayPalCheckout: read, insert the row, call the
\* gateway, update the row.  An open attempt may be returned instead.
ReadForCheckout(w, e) ==
    /\ enrolment[e].status = "PENDING"
    /\ enrolment[e].price > 0
    /\ Begin(w, [op |-> "checkout", e |-> e, price |-> enrolment[e].price])
    /\ UNCHANGED <<enrolment, redemption, attempt, gateway, settled, coded, settledBy,
                   flagged, crashes>>

CreateAttempt(w) ==
    /\ Doing(w, "checkout")
    /\ \E a \in Attempt :
        /\ attempt[a].status = "NONE"
        /\ attempt' = [attempt EXCEPT ![a] =
               [status |-> "CREATED", amount |-> task[w].price, e |-> task[w].e]]
        /\ Proceed(w, [op |-> "create", a |-> a])
    /\ UNCHANGED <<enrolment, redemption, gateway, settled, coded, settledBy, flagged,
                   crashes>>

\* The update does not look at what has become of the row since.
CreateCheckout(w) ==
    /\ Doing(w, "create")
    /\ LET a == task[w].a IN
        \/ /\ gateway' = [gateway EXCEPT ![a] = "open"]
           /\ attempt' = [attempt EXCEPT ![a].status = "PENDING"]
        \/ /\ attempt' = [attempt EXCEPT ![a].status = "FAILED"]
           /\ UNCHANGED gateway
    /\ Done(w)
    /\ UNCHANGED <<enrolment, redemption, settled, coded, settledBy, flagged, crashes>>

\* What a learner and a gateway may do with a checkout.  Maya takes the money
\* when the learner pays, also after a first card failed; PayPal has an order
\* approved first, takes the money when it is captured, and may hold a capture
\* for review before it lets it through.
GatewayMoves ==
    {<<"open", "paid">>, <<"open", "failed">>, <<"open", "expired">>,
     <<"open", "cancelled">>, <<"open", "approved">>, <<"failed", "paid">>,
     <<"approved", "paid">>, <<"approved", "failed">>, <<"paid", "refunded">>,
     <<"open", "paid_other">>}

GatewayStep(a) ==
    /\ \E s \in GatewayState :
        /\ <<gateway[a], s>> \in GatewayMoves
        /\ gateway' = [gateway EXCEPT ![a] = s]
    /\ UNCHANGED <<enrolment, redemption, attempt, task, settled, coded, settledBy,
                   flagged, crashes>>

\* Mutant of Reconcilable: attempts that are pending are forgotten.
ReconcilableOnceCreated(a) == attempt[a].status = "CREATED"

\* The maintenance pass and the return page look at these attempts.
Reconcilable(a) == attempt[a].status \in NotYetFinal

BeginReconcile(w, a) ==
    /\ Begin(w, [op |-> "reconcile", a |-> a,
                 price |-> enrolment[attempt[a].e].price])
    /\ UNCHANGED <<enrolment, redemption, attempt, gateway, settled, coded, settledBy,
                   flagged, crashes>>

\* reconcilePendingOnlinePayments, reconcilePendingPayPalPayments,
\* reconcileMyCourse, reconcileMyPayPalPayment: the row and its enrolment are
\* read before the gateway is asked.
Reconcile(w, a) == Reconcilable(a) /\ BeginReconcile(w, a)

\* handleMayaWebhook, handlePayPalWebhook: for an attempt in any status that
\* is not settled, any number of times.
Webhook(w, a) ==
    /\ gateway[a] \notin {"none", "open"}
    /\ attempt[a].status \notin {"NONE", "PAID", "MISMATCH"}
    /\ BeginReconcile(w, a)

\* A capture takes the money, is declined, or is held for review.
Captured(state) ==
    IF state = "approved" THEN {"paid", "failed", "approved"} ELSE {state}

\* paymentsByReference; getOrder, and captureOrder for an approved order.
AskGateway(w) ==
    /\ Doing(w, "reconcile")
    /\ LET a == task[w].a IN
        \E answer \in Captured(gateway[a]) :
            /\ gateway' = [gateway EXCEPT ![a] = answer]
            /\ Proceed(w, [op |-> "decide", a |-> a, price |-> task[w].price,
                           answer |-> answer])
    /\ UNCHANGED <<enrolment, redemption, attempt, settled, coded, settledBy, flagged,
                   crashes>>

Answered(w, answers) == Doing(w, "decide") /\ task[w].answer \in answers

\* The row moves to a status only from the given statuses.
Transition(a, from, to) ==
    attempt' = IF attempt[a].status \in from
               THEN [attempt EXCEPT ![a].status = to]
               ELSE attempt

\* Maya's word for a refunded payment is not one of the three it looks for.
NotPaidYet(w) ==
    /\ Answered(w, {"none", "open", "approved", "refunded"})
    /\ Done(w)
    /\ UNCHANGED <<enrolment, redemption, attempt, gateway, settled, coded, settledBy,
                   flagged, crashes>>

StatusFor(answer) ==
    [failed |-> "FAILED", expired |-> "EXPIRED", cancelled |-> "CANCELLED"][answer]

NotPaid(w) ==
    /\ Answered(w, {"failed", "expired", "cancelled"})
    /\ Transition(task[w].a, NotYetFinal, StatusFor(task[w].answer))
    /\ Done(w)
    /\ UNCHANGED <<enrolment, redemption, gateway, settled, coded, settledBy, flagged,
                   crashes>>

\* PayPal only: paid and refunded before it was confirmed.
RefundedAtGateway(w) ==
    /\ Answered(w, {"refunded"})
    /\ LET a == task[w].a IN
        /\ Transition(a, NotYetFinal, "FAILED")
        /\ IF attempt[a].status \in NotYetFinal
           THEN Proceed(w, [op |-> "flag", a |-> a])
           ELSE Done(w)
    /\ UNCHANGED <<enrolment, redemption, gateway, settled, coded, settledBy, flagged,
                   crashes>>

\* The gateway reports what was asked for, and that is still the price that was
\* read before the gateway was asked.
Matches(w) ==
    /\ task[w].answer = "paid"
    /\ attempt[task[w].a].amount = task[w].price

\* Mutant of AfterClaim: money for a settled enrolment is kept quiet about.
AfterClaimDone(a, settles) == Idle

\* What is left to do once the attempt is marked paid.
AfterClaim(a, settles) == IF settles THEN Idle ELSE [op |-> "flag", a |-> a]

\* settleConfirmedPayment, money that is not what was asked for.
PaidMismatch(w) ==
    /\ Answered(w, {"paid", "paid_other"})
    /\ ~Matches(w)
    /\ LET a == task[w].a IN
        /\ Transition(a, SettleableFrom, "MISMATCH")
        /\ IF attempt[a].status \in SettleableFrom
           THEN Proceed(w, AfterClaim(a, FALSE))
           ELSE Done(w)
    /\ UNCHANGED <<enrolment, redemption, gateway, settled, coded, settledBy, flagged,
                   crashes>>

\* settleConfirmedPayment, the transaction that claims the attempt.
PaidMatch(w) ==
    /\ Answered(w, {"paid", "paid_other"})
    /\ Matches(w)
    /\ LET a == task[w].a
           e == attempt[a].e
       IN
        IF attempt[a].status \notin SettleableFrom
        THEN /\ Done(w)
             /\ UNCHANGED <<enrolment, redemption, attempt, settled, coded, settledBy>>
        ELSE /\ Transition(a, SettleableFrom, "PAID")
             /\ Proceed(w, AfterClaim(a, Unpaid(e)))
             /\ IF Unpaid(e)
                THEN /\ Settle(e, "PAID", attempt[a].amount)
                     /\ settledBy' = settledBy \cup {a}
                     /\ UNCHANGED coded
                ELSE UNCHANGED <<enrolment, redemption, settled, coded, settledBy>>
    /\ UNCHANGED <<gateway, flagged, crashes>>

\* handlePayPalWebhook: money of a settled payment went back at the gateway.
\* Staff are told; they record the refund themselves.
RefundReported(w, a) ==
    /\ attempt[a].status = "PAID"
    /\ gateway[a] = "refunded"
    /\ a \notin flagged
    /\ Begin(w, [op |-> "flag", a |-> a])
    /\ UNCHANGED <<enrolment, redemption, attempt, gateway, settled, coded, settledBy,
                   flagged, crashes>>

\* flagProblem, after the commit: audit entry and event for staff.
FlagProblem(w) ==
    /\ Doing(w, "flag")
    /\ flagged' = flagged \cup {task[w].a}
    /\ Done(w)
    /\ UNCHANGED <<enrolment, redemption, attempt, gateway, settled, coded, settledBy,
                   crashes>>

-------------------------------------------------------------------------------
(***************************************************************************)
(* Refunds                                                                 *)
(***************************************************************************)

\* recordCourseRefund: what staff see, then the transaction.
ReadForRefund(w, e) ==
    /\ enrolment[e].status = "PAID"
    /\ Begin(w, [op |-> "refund", e |-> e, paid |-> enrolment[e].paid,
                 refunded |-> enrolment[e].refunded])
    /\ UNCHANGED <<enrolment, redemption, attempt, gateway, settled, coded, settledBy,
                   flagged, crashes>>

\* Mutant of Refundable: addPartialRefund trusts the amount checked earlier.
RefundableAsRead(e, part) == enrolment[e].status = "PAID"

\* addPartialRefund checks again when it runs.
Refundable(e, part) ==
    /\ enrolment[e].status = "PAID"
    /\ enrolment[e].paid >= enrolment[e].refunded + part

RefundPart(w) ==
    /\ Doing(w, "refund")
    /\ \E part \in RefundParts :
        /\ task[w].refunded + part < task[w].paid
        /\ Refundable(task[w].e, part)
        /\ enrolment' = [enrolment EXCEPT ![task[w].e].refunded = @ + part]
    /\ Done(w)
    /\ UNCHANGED <<redemption, attempt, gateway, settled, coded, settledBy, flagged, crashes>>

RefundAll(w) ==
    /\ Doing(w, "refund")
    /\ LET e == task[w].e IN
        /\ enrolment[e].status = "PAID"
        /\ enrolment' = [enrolment EXCEPT ![e].status = "REFUNDED",
                                          ![e].refunded = enrolment[e].paid]
    /\ Done(w)
    /\ UNCHANGED <<redemption, attempt, gateway, settled, coded, settledBy, flagged, crashes>>

-------------------------------------------------------------------------------
\* A request fails or is refused before it has changed anything more, or the
\* process dies after the commit and before it has told staff.
GiveUp(w) ==
    /\ task[w] # Idle
    /\ Doing(w, "flag") => crashes < MaxCrashes
    /\ crashes' = IF Doing(w, "flag") THEN crashes + 1 ELSE crashes
    /\ Done(w)
    /\ UNCHANGED <<enrolment, redemption, attempt, gateway, settled, coded, settledBy,
                   flagged>>

Requests(w) ==
    \/ \E e \in Enrolment :
        \/ \E c \in Code : ReadForCode(w, e, c)
        \/ ReadForRemoval(w, e)
        \/ ReadForPayment(w, e)
        \/ ReadForCheckout(w, e)
        \/ ReadForRefund(w, e)
    \/ \E a \in Attempt : Reconcile(w, a) \/ Webhook(w, a) \/ RefundReported(w, a)

\* The reconciliation steps: a pass that has started goes on.
Decide(w) ==
    \/ NotPaidYet(w) \/ NotPaid(w) \/ RefundedAtGateway(w)
    \/ PaidMismatch(w) \/ PaidMatch(w)

Steps(w) ==
    \/ ApplyCode(w) \/ RemoveCode(w) \/ RecordPayment(w)
    \/ CreateAttempt(w) \/ CreateCheckout(w)
    \/ AskGateway(w) \/ Decide(w) \/ FlagProblem(w)
    \/ RefundPart(w) \/ RefundAll(w)
    \/ GiveUp(w)

Next ==
    \/ \E e \in Enrolment : Enrol(e) \/ ReleaseStale(e)
    \/ \E a \in Attempt : GatewayStep(a)
    \/ \E w \in Worker : Requests(w) \/ Steps(w)

Spec == Init /\ [][Next]_vars

\* The maintenance pass comes round to every open attempt, a gateway that is
\* asked again and again answers in the end, and a request ends.
Asks(a) == \E w \in Worker : AskGateway(w) /\ task[w].a = a
Decides(a) == \E w \in Worker : Decide(w) /\ task[w].a = a

FairSpec ==
    /\ Spec
    /\ \A a \in Attempt :
        /\ SF_vars(\E w \in Worker : Reconcile(w, a))
        /\ SF_vars(Asks(a))
        /\ SF_vars(Decides(a))
    /\ \A w \in Worker : WF_vars(Steps(w))

-------------------------------------------------------------------------------
(***************************************************************************)
(* Properties                                                              *)
(***************************************************************************)

Final == {"PAID", "MISMATCH"}

\* An enrolment is settled once, whoever settles it (staff, a webhook, the
\* return page, the maintenance pass, in any overlap), and it is settled
\* exactly when its status says so (settleEnrollmentPaymentTx).  A code that is
\* applied from a stale read can make a paid enrolment unpaid again.
SettledOnce ==
    \A e \in Enrolment \ coded :
        settled[e] = IF enrolment[e].status \in {"PAID", "WAIVED", "REFUNDED"}
                     THEN 1 ELSE 0

\* Money that reached the gateway and did not make an enrolment paid, because
\* it is the wrong amount or came second, is reported to staff or is about to
\* be (settleConfirmedPayment, flagProblem).
UnsettledMoneyIsFlagged ==
    \A a \in Attempt : attempt[a].status \in Final =>
        \/ a \in settledBy \cup flagged
        \/ \E w \in Worker : Doing(w, "flag") /\ task[w].a = a

\* Part-refunds and full refunds that staff record at the same time never give
\* back more than was paid, and only a refund of everything ends the enrolment
\* (addPartialRefund, refundEnrollment).
RefundWithinPaid ==
    \A e \in Enrolment \ coded : LET r == enrolment[e] IN
        /\ r.refunded <= r.paid
        /\ r.refunded > 0 => r.status \in {"PAID", "REFUNDED"}
        /\ r.status = "REFUNDED" => r.refunded = r.paid

LiveUses(c) == {e \in Enrolment : redemption[e].status \in Live /\ redemption[e].code = c}
Costs(r) == IF r.status = "NONE" THEN ListPrice ELSE PriceWith[r.code]

\* However applying, removing, replacing, expiring and paying overlap, a code is never
\* used more often than allowed, in all or by one learner (evaluatePromo under
\* lockCode), what an enrolment costs is what its live code makes it cost, and a use is
\* reserved only while the payment is pending: a removal or a stale reservation can
\* never raise the price of something already settled.
CodesAreHonoured ==
    /\ \A c \in Code :
        /\ Cardinality(LiveUses(c)) <= MaxUses[c]
        /\ \A e \in LiveUses(c) :
            Cardinality({f \in LiveUses(c) : LearnerOf[f] = LearnerOf[e]}) <= UsesPerLearner[c]
    /\ \A e \in Enrolment : LET r == redemption[e] IN
        /\ enrolment[e].status # "NONE" => enrolment[e].price = Costs(r)
        /\ r.status = "RESERVED" => enrolment[e].status = "PENDING"

\* However late a request decides on an answer it got earlier, an attempt that
\* was found paid or mismatched is not touched again (transition); and "a
\* consumed use is never given back", not by a removal that was started before
\* the payment, nor by the pass over stale reservations (releaseTx).
DecidedStaysDecided ==
    [][/\ \A a \in Attempt : attempt[a].status \in Final => attempt'[a] = attempt[a]
       /\ \A e \in Enrolment :
            redemption[e].status = "CONSUMED" => redemption'[e] = redemption[e]]_vars

\* An open attempt the gateway has taken money for does not stay open: the
\* maintenance pass finds it even if every webhook is lost.
PaidAttemptIsDecided ==
    \A a \in Attempt :
        (gateway[a] \in {"paid", "paid_other"} /\ attempt[a].status \in NotYetFinal)
            ~> (attempt[a].status \notin NotYetFinal \/ gateway[a] = "refunded")
===============================================================================
