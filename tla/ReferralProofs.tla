----------------------------- MODULE ReferralProofs -----------------------------
(***************************************************************************)
(* What holds of Referral for any number of sales, payouts and             *)
(* transactions in flight.  What is final, and what a request holds, does  *)
(* not depend on what the sums of amounts are: the first invariant leaves  *)
(* amounts untyped (\E A).  The sums follow, part by part of the state.    *)
(***************************************************************************)
EXTENDS Referral, MoneyProofs, TLAPS

CommissionRow == [status: CommissionStatus, payout: Payout \cup {None}]
AdjustmentRow(A) ==
    [c: Commission \cup {None}, kind: {"REFUND", "MANUAL"}, amount: A, payout: Payout \cup {None}]
PayoutRow(A) == [status: PayoutStatus, amount: A]

CommissionsTyped == commission \in [Commission -> CommissionRow]
AdjustmentsTyped == \E A : adjustments \in Seq(AdjustmentRow(A))
PayoutsTyped == \E A : payout \in [Payout -> PayoutRow(A)]

\* A row that names a payout names one that was requested.
Requested(p) == p # None => payout[p].status # "NONE"
CommissionsOK ==
    \A c \in Commission :
        /\ commission[c].status = "REVERSED" => commission[c].payout = None
        /\ Requested(commission[c].payout)
AdjustmentsOK == \A i \in DOMAIN adjustments : Requested(adjustments[i].payout)

\* What a transaction refers to exists; while transactions follow one another, what it
\* has read of a payout is what there is.
Refers(t) ==
    /\ t.op \in {"refund", "part", "reverse", "shrink"} => t.c \in Commission
    /\ t.op \in {"reverse", "shrink"} => t.open \in Payout \cup {None}
    /\ t.op = "decision" => t.p \in Payout
Current(t) ==
    /\ t.op \in {"reverse", "shrink"} /\ t.open # None => payout[t.open].status \in OpenPayout
    /\ t.op = "decision" => payout[t.p].status = t.was
TasksOK ==
    /\ \E T : task \in [Worker -> T]
    /\ \A w \in Worker : Refers(task[w])
OneByOne ==
    ~overlapped =>
        /\ \A v, w \in Worker : task[v] # Idle /\ task[w] # Idle => v = w
        /\ \A w \in Worker : Current(task[w])

IInv ==
    /\ CommissionsTyped /\ AdjustmentsTyped /\ PayoutsTyped
    /\ overlapped \in BOOLEAN
    /\ CommissionsOK /\ AdjustmentsOK /\ TasksOK /\ OneByOne

-------------------------------------------------------------------------------
(***************************************************************************)
(* What a step does to the rows                                            *)
(***************************************************************************)

\* A closed commission stays closed, and an open one may become part of a payout that
\* is requested.
CommissionsMove ==
    /\ CommissionsTyped'
    /\ \A c \in Commission :
        /\ commission[c].status = "REVERSED" => commission'[c] = commission[c]
        /\ commission[c].status = "PAID" => commission'[c].status \in {"PAID", "REVERSED"}
        /\ commission'[c].status = "REVERSED" => commission'[c].payout = None
        /\ commission'[c].payout \in {None, commission[c].payout}
            \/ payout'[commission'[c].payout].status # "NONE"
AdjustmentsMove ==
    /\ AdjustmentsTyped'
    /\ \A i \in DOMAIN adjustments' :
        \/ adjustments'[i].payout = None
        \/ i \in DOMAIN adjustments /\ adjustments'[i].payout = adjustments[i].payout
        \/ payout'[adjustments'[i].payout].status # "NONE"
PayoutsMove ==
    /\ PayoutsTyped'
    /\ \A p \in Payout : payout[p].status # "NONE" => payout'[p].status # "NONE"

LEMMA CommissionsStay == ASSUME IInv, UNCHANGED commission PROVE CommissionsMove
BY DEF IInv, CommissionsMove, CommissionsTyped, CommissionsOK

LEMMA AdjustmentsStay == ASSUME IInv, UNCHANGED adjustments PROVE AdjustmentsMove
BY DEF IInv, AdjustmentsMove, AdjustmentsTyped

LEMMA PayoutsStay == ASSUME IInv, UNCHANGED payout PROVE PayoutsMove
BY DEF IInv, PayoutsMove, PayoutsTyped

\* One commission changes its status, or is reversed.
LEMMA StatusMoves ==
    ASSUME IInv, NEW c \in Commission, NEW s \in CommissionStatus \ {"REVERSED"},
           commission[c].status \notin {"REVERSED", "PAID"},
           commission' = [commission EXCEPT ![c].status = s]
    PROVE  CommissionsMove
BY DEF IInv, CommissionsMove, CommissionsTyped, CommissionsOK, CommissionRow

LEMMA Reverses ==
    ASSUME IInv, NEW c \in Commission,
           commission' = [commission EXCEPT ![c] = [status |-> "REVERSED", payout |-> None]]
    PROVE  CommissionsMove
<1>1. [status |-> "REVERSED", payout |-> None] \in CommissionRow
  BY DEF CommissionRow, CommissionStatus
<1>2. commission[c].status = "REVERSED" => commission[c] = [status |-> "REVERSED", payout |-> None]
  BY DEF IInv, CommissionsTyped, CommissionsOK, CommissionRow
<1> QED
  BY <1>1, <1>2 DEF IInv, CommissionsMove, CommissionsTyped, CommissionsOK

\* An adjustment is added.
LEMMA AdjustmentAdded ==
    ASSUME IInv, NEW c \in Commission \cup {None}, NEW kind \in {"REFUND", "MANUAL"}, NEW amount,
           adjustments' = Append(adjustments, Adjustment(c, kind, amount))
    PROVE  AdjustmentsMove
<1>1. PICK A : adjustments \in Seq(AdjustmentRow(A))
  BY DEF IInv, AdjustmentsTyped
<1> DEFINE B == A \cup {amount}
           row == Adjustment(c, kind, amount)
<1>2. row \in AdjustmentRow(B) /\ row.payout = None
  BY DEF Adjustment, AdjustmentRow
<1>3. AdjustmentRow(A) \subseteq AdjustmentRow(B)
  BY DEF AdjustmentRow
<1> HIDE DEF B, row
<1>4. adjustments \in Seq(AdjustmentRow(B))
  BY <1>1, <1>3
<1>5. adjustments' \in Seq(AdjustmentRow(B))
  BY <1>2, <1>4 DEF row
<1>6. \A i \in DOMAIN adjustments' : \/ i \in DOMAIN adjustments /\ adjustments'[i] = adjustments[i]
                                     \/ adjustments'[i] = row
  BY <1>2, <1>4 DEF row
<1> QED
  BY <1>2, <1>5, <1>6 DEF AdjustmentsMove, AdjustmentsTyped

\* Adjustments are claimed for a payout, or released.
LEMMA AdjustmentsClaimed ==
    ASSUME IInv, NEW I, NEW p \in Payout \cup {None}, p # None => payout'[p].status # "NONE",
           adjustments' = [i \in DOMAIN adjustments |->
               IF i \in I THEN [adjustments[i] EXCEPT !.payout = p] ELSE adjustments[i]]
    PROVE  AdjustmentsMove
<1>1. PICK A : adjustments \in Seq(AdjustmentRow(A))
  BY DEF IInv, AdjustmentsTyped
<1>2. DOMAIN adjustments = 1..Len(adjustments) /\ Len(adjustments) \in Nat
        /\ \A i \in DOMAIN adjustments : adjustments[i] \in AdjustmentRow(A)
  BY <1>1
<1>3. \A r \in AdjustmentRow(A) :
        /\ [r EXCEPT !.payout = p] \in AdjustmentRow(A)
        /\ [r EXCEPT !.payout = p].payout = p
  BY DEF AdjustmentRow
<1>4. DOMAIN adjustments' = DOMAIN adjustments
        /\ \A i \in DOMAIN adjustments : adjustments'[i] \in AdjustmentRow(A)
  BY <1>2, <1>3
<1>5. adjustments' \in Seq(AdjustmentRow(A))
  BY <1>2, <1>4
<1>6. \A i \in DOMAIN adjustments : adjustments'[i].payout \in {p, adjustments[i].payout}
  BY <1>2, <1>3
<1> QED
  BY <1>4, <1>5, <1>6 DEF AdjustmentsMove, AdjustmentsTyped

\* One payout is given a status, or another amount.
LEMMA PayoutChanges ==
    ASSUME IInv, NEW p \in Payout, NEW s \in PayoutStatus, NEW amount,
           s # "NONE" \/ s = payout[p].status,
           payout' = [payout EXCEPT ![p] = [status |-> s, amount |-> amount]]
    PROVE  PayoutsMove /\ \A q \in Payout \ {p} : payout'[q] = payout[q]
<1>1. PICK A : payout \in [Payout -> PayoutRow(A)]
  BY DEF IInv, PayoutsTyped
<1>2. payout' \in [Payout -> PayoutRow(A \cup {amount})]
  BY <1>1 DEF PayoutRow
<1> QED
  BY <1>1, <1>2 DEF PayoutsMove, PayoutsTyped

\* The same of a payout whose other field stays.
LEMMA FieldChanges ==
    ASSUME IInv, NEW p \in Payout
    PROVE  /\ \A s : [payout EXCEPT ![p].status = s]
                       = [payout EXCEPT ![p] = [status |-> s, amount |-> payout[p].amount]]
           /\ \A a : [payout EXCEPT ![p].amount = a]
                       = [payout EXCEPT ![p] = [status |-> payout[p].status, amount |-> a]]
           /\ payout[p].status \in PayoutStatus
<1>1. PICK A : payout \in [Payout -> PayoutRow(A)]
  BY DEF IInv, PayoutsTyped
<1>2. payout[p] \in PayoutRow(A)
  BY <1>1
<1>3. /\ \A s : [payout[p] EXCEPT !.status = s] = [status |-> s, amount |-> payout[p].amount]
      /\ \A a : [payout[p] EXCEPT !.amount = a] = [status |-> payout[p].status, amount |-> a]
  BY <1>2 DEF PayoutRow
<1> QED
  BY <1>1, <1>2, <1>3 DEF PayoutRow

LEMMA ReversalAdjusts ==
    ASSUME IInv, NEW c \in Commission, NEW was, NEW prior,
           adjustments' = adjustments \o ReversalAdjustment(c, was, prior)
    PROVE  AdjustmentsMove
<1>1. PICK A : adjustments \in Seq(AdjustmentRow(A))
  BY DEF IInv, AdjustmentsTyped
<1>2. \A r : adjustments \o <<r>> = Append(adjustments, r)
  BY <1>1
<1>3. adjustments \o << >> = adjustments
  BY <1>1
<1>4. CASE was = "PAID"
  BY <1>2, <1>4, AdjustmentAdded DEF ReversalAdjustment
<1>5. CASE was # "PAID" /\ prior > 0
  BY <1>2, <1>5, AdjustmentAdded DEF ReversalAdjustment
<1>6. CASE was # "PAID" /\ ~(prior > 0)
  BY <1>3, <1>6, AdjustmentsStay DEF ReversalAdjustment
<1> QED
  BY <1>4, <1>5, <1>6

LEMMA PayoutShrinks ==
    ASSUME IInv, NEW p \in Payout \cup {None}, NEW amount, payout' = ShrinkPayout(p, amount)
    PROVE  PayoutsMove /\ \A q \in Payout \ {p} : payout'[q] = payout[q]
<1>1. CASE p = None
  BY <1>1, PayoutsStay DEF ShrinkPayout
<1>2. CASE p # None /\ amount <= 0
  BY <1>2, PayoutChanges DEF ShrinkPayout, PayoutStatus
<1>3. CASE p # None /\ ~(amount <= 0)
  <2>1. payout' = [payout EXCEPT ![p].amount = amount]
    BY <1>3 DEF ShrinkPayout
  <2>2. payout' = [payout EXCEPT ![p] = [status |-> payout[p].status, amount |-> amount]]
    BY <1>3, <2>1, FieldChanges
  <2>3. payout[p].status \in PayoutStatus
    BY <1>3, FieldChanges
  <2> QED
    BY <1>3, <2>2, <2>3, PayoutChanges
<1> QED
  BY <1>1, <1>2, <1>3

LEMMA PayoutDecided ==
    ASSUME IInv, NEW p \in Payout, NEW s \in PayoutStatus \ {"NONE"},
           payout' = [payout EXCEPT ![p].status = s]
    PROVE  PayoutsMove /\ \A q \in Payout \ {p} : payout'[q] = payout[q]
<1>1. payout' = [payout EXCEPT ![p] = [status |-> s, amount |-> payout[p].amount]]
  BY FieldChanges
<1> QED
  BY <1>1, PayoutChanges

\* Commissions are claimed for a payout, paid with it, or released.
LEMMA CommissionsClaimed ==
    ASSUME IInv, NEW cs, NEW p \in Payout \cup {None}, p # None => payout'[p].status # "NONE",
           \A c \in Commission \cap cs : commission[c].status = "PAYABLE",
           commission' = [c \in Commission |->
               IF c \in cs THEN [commission[c] EXCEPT !.payout = p] ELSE commission[c]]
    PROVE  CommissionsMove
<1>1. \A c \in Commission : commission[c] \in CommissionRow
  BY DEF IInv, CommissionsTyped
<1>2. \A r \in CommissionRow :
        /\ [r EXCEPT !.payout = p] \in CommissionRow
        /\ [r EXCEPT !.payout = p].payout = p /\ [r EXCEPT !.payout = p].status = r.status
  BY DEF CommissionRow
<1>3. CommissionsTyped'
  BY <1>1, <1>2 DEF CommissionsTyped
<1> QED
  BY <1>1, <1>2, <1>3 DEF IInv, CommissionsOK, CommissionsMove

LEMMA CommissionsPaid ==
    ASSUME IInv, NEW p,
           commission' = [c \in Commission |->
               IF c \in ClaimedBy(p) THEN [commission[c] EXCEPT !.status = "PAID"]
               ELSE commission[c]]
    PROVE  CommissionsMove
<1>1. \A c \in Commission : commission[c] \in CommissionRow
  BY DEF IInv, CommissionsTyped
<1>2. \A r \in CommissionRow :
        /\ [r EXCEPT !.status = "PAID"] \in CommissionRow
        /\ [r EXCEPT !.status = "PAID"].payout = r.payout
        /\ [r EXCEPT !.status = "PAID"].status = "PAID"
  BY DEF CommissionRow, CommissionStatus
<1>3. CommissionsTyped'
  BY <1>1, <1>2 DEF CommissionsTyped
<1> QED
  BY <1>1, <1>2, <1>3 DEF IInv, CommissionsOK, CommissionsMove, ClaimedBy

LEMMA RowsMove == ASSUME IInv, Next PROVE CommissionsMove /\ AdjustmentsMove /\ PayoutsMove
<1> USE CommissionsStay, AdjustmentsStay, PayoutsStay
<1>1. ASSUME NEW c \in Commission, RecordCommission(c) PROVE CommissionsMove /\ AdjustmentsMove /\ PayoutsMove
  BY <1>1, StatusMoves DEF RecordCommission, CommissionStatus
<1>2. ASSUME NEW c \in Commission, ReleaseHold(c) PROVE CommissionsMove /\ AdjustmentsMove /\ PayoutsMove
  BY <1>2, StatusMoves DEF ReleaseHold, Due, CommissionStatus
<1>3. ASSUME NEW amount, AdjustBalance(amount) PROVE CommissionsMove /\ AdjustmentsMove /\ PayoutsMove
  BY <1>3, AdjustmentAdded DEF AdjustBalance
<1>4. ASSUME NEW w \in Worker, CommitPart(w) PROVE CommissionsMove /\ AdjustmentsMove /\ PayoutsMove
  <2>1. task[w].c \in Commission
    BY <1>4 DEF IInv, TasksOK, Refers, CommitPart, Doing
  <2> QED
    BY <1>4, <2>1, AdjustmentAdded DEF CommitPart
<1>5. ASSUME NEW w \in Worker, CommitReversal(w) PROVE CommissionsMove /\ AdjustmentsMove /\ PayoutsMove
  <2>1. task[w].c \in Commission /\ task[w].open \in Payout \cup {None}
    BY <1>5 DEF IInv, TasksOK, Refers, CommitReversal, Doing
  <2> QED
    BY <1>5, <2>1, Reverses, ReversalAdjusts, PayoutShrinks DEF CommitReversal
<1>6. ASSUME NEW w \in Worker, ClaimPayout(w) PROVE CommissionsMove /\ AdjustmentsMove /\ PayoutsMove
  <2>1. PICK p, amount :
          /\ p \in Payout
          /\ payout' = [payout EXCEPT ![p] = [status |-> "REQUESTED", amount |-> amount]]
          /\ commission' = [c \in Commission |->
                 IF c \in task[w].cs \cap PayableUnassigned
                 THEN [commission[c] EXCEPT !.payout = p] ELSE commission[c]]
          /\ adjustments' = [i \in DOMAIN adjustments |->
                 IF i \in task[w].as \cap Unsettled
                 THEN [adjustments[i] EXCEPT !.payout = p] ELSE adjustments[i]]
    BY <1>6 DEF ClaimPayout
  <2>2. PayoutsMove
    BY <2>1, PayoutChanges DEF PayoutStatus
  <2>3. payout'[p].status = "REQUESTED"
    BY <2>1 DEF IInv, PayoutsTyped
  <2>4. CommissionsMove
    BY <2>1, <2>3, CommissionsClaimed DEF PayableUnassigned
  <2> QED
    BY <2>1, <2>2, <2>3, <2>4, AdjustmentsClaimed
<1>7. ASSUME NEW w \in Worker, Approve(w) \/ MarkPaid(w) \/ Reject(w) PROVE PayoutsMove /\ AdjustmentsMove
  <2>1. task[w].p \in Payout
    BY <1>7 DEF IInv, TasksOK, Refers, Approve, MarkPaid, Reject, Doing
  <2>2. PICK s \in PayoutStatus \ {"NONE"} : payout' = [payout EXCEPT ![task[w].p].status = s]
    BY <1>7 DEF Approve, MarkPaid, Reject, PayoutStatus
  <2>3. PayoutsMove
    BY <2>1, <2>2, PayoutDecided
  <2>4. CASE Approve(w) \/ MarkPaid(w)
    BY <2>3, <2>4 DEF Approve, MarkPaid
  <2>5. CASE Reject(w)
    BY <2>3, <2>5, AdjustmentsClaimed DEF Reject
  <2> QED
    BY <1>7, <2>4, <2>5
<1>8. ASSUME NEW w \in Worker, Approve(w) \/ MarkPaid(w) \/ Reject(w) PROVE CommissionsMove
  <2>1. CASE Approve(w)
    BY <2>1 DEF Approve
  <2>2. CASE MarkPaid(w)
    BY <2>2, CommissionsPaid DEF MarkPaid
  <2>3. CASE Reject(w)
    BY <2>3, CommissionsClaimed DEF Reject, ClaimedBy
  <2> QED
    BY <1>8, <2>1, <2>2, <2>3
<1>9. ASSUME UNCHANGED <<commission, adjustments, payout>> PROVE CommissionsMove /\ AdjustmentsMove /\ PayoutsMove
  BY <1>9
<1> HIDE CommissionsStay, AdjustmentsStay, PayoutsStay
<1>10. ASSUME NEW w \in Worker, Refunds(w) PROVE CommissionsMove /\ AdjustmentsMove /\ PayoutsMove
  BY <1>4, <1>5, <1>9, <1>10
     DEF Refunds, ReadSale, BeginManual, BeginPart, BeginRefundAll, AlreadyReversed, MarkReversed
<1>11. ASSUME NEW w \in Worker, Payouts(w) PROVE CommissionsMove /\ AdjustmentsMove /\ PayoutsMove
  BY <1>6, <1>7, <1>8, <1>9, <1>11 DEF Payouts, BeginRequest, ReadPayable, ReadAdjustments, ReadPayout
<1> QED
  BY <1>1, <1>2, <1>3, <1>9, <1>10, <1>11 DEF Next, Abort

-------------------------------------------------------------------------------
(***************************************************************************)
(* What transactions have read                                             *)
(***************************************************************************)

LEMMA TaskMoves ==
    ASSUME IInv, NEW w \in Worker, NEW t, Refers(t), task' = [task EXCEPT ![w] = t],
           \/ overlapped' = overlapped /\ task[w] # Idle
           \/ overlapped' = (overlapped \/ \E v \in Worker : task[v] # Idle) /\ task[w] = Idle,
           ~overlapped' => Current(t)'
    PROVE  TasksOK' /\ OneByOne' /\ overlapped' \in BOOLEAN
<1>1. PICK T : task \in [Worker -> T]
  BY DEF IInv, TasksOK
<1>2. task' \in [Worker -> T \cup {t}] /\ task'[w] = t
        /\ \A v \in Worker \ {w} : task'[v] = task[v]
  BY <1>1
<1>3. TasksOK'
  BY <1>2 DEF IInv, TasksOK, Refers
<1>4. ASSUME ~overlapped', NEW v \in Worker \ {w} PROVE task'[v] = Idle
  BY <1>2, <1>4 DEF IInv, OneByOne
<1>5. Current(Idle)'
  BY DEF Current, Idle
<1>6. OneByOne'
  <2> SUFFICES ASSUME ~overlapped'
               PROVE  /\ \A u, v \in Worker : task'[u] # Idle /\ task'[v] # Idle => u = v
                      /\ \A v \in Worker : Current(task[v])'
    BY DEF OneByOne
  <2>1. \A u, v \in Worker : task'[u] # Idle /\ task'[v] # Idle => u = v
    BY <1>4
  <2>2. ASSUME NEW v \in Worker PROVE Current(task[v])'
    <3>1. CASE v = w
      BY <1>2, <3>1 DEF Current
    <3>2. CASE v # w
      BY <1>4, <1>5, <3>2 DEF Current
    <3> QED
      BY <3>1, <3>2
  <2> QED
    BY <2>1, <2>2
<1> QED
  BY <1>3, <1>6 DEF IInv

LEMMA Ends ==
    ASSUME IInv, NEW w \in Worker, Done(w), task[w] # Idle
    PROVE  TasksOK' /\ OneByOne' /\ overlapped' \in BOOLEAN
BY TaskMoves DEF Done, Proceed, Refers, Current, Idle

LEMMA TasksMove == ASSUME IInv, Next PROVE TasksOK' /\ OneByOne' /\ overlapped' \in BOOLEAN
<1> DEFINE Goal == TasksOK' /\ OneByOne' /\ overlapped' \in BOOLEAN
<1>1. ASSUME NEW w \in Worker, Done(w), task[w].op # "idle" \/ task[w] # Idle PROVE Goal
  BY <1>1, Ends DEF Idle
<1>2. ASSUME UNCHANGED <<task, overlapped, payout>> PROVE Goal
  BY <1>2 DEF IInv, TasksOK, Refers, OneByOne, Current
<1>3. ASSUME NEW w \in Worker, NEW t, Refers(t), Proceed(w, t), task[w].op # "idle",
             ~overlapped => Current(t), UNCHANGED payout
      PROVE  Goal
  <2>1. Current(t) => Current(t)'
    BY <1>3 DEF Current
  <2>2. task[w] # Idle
    BY <1>3 DEF Idle
  <2> QED
    BY <1>3, <2>1, <2>2, TaskMoves DEF Proceed
<1>4. ASSUME NEW w \in Worker, NEW t, Refers(t), Begin(w, t), Current(t), UNCHANGED payout
      PROVE  Goal
  <2>1. Current(t)'
    BY <1>4 DEF Current
  <2> QED
    BY <1>4, <2>1, TaskMoves DEF Begin
<1>5. ASSUME NEW c \in Commission, NEW refund
      PROVE  Refers(ReadCommission(c, refund)) /\ Current(ReadCommission(c, refund))
  BY DEF IInv, CommissionsTyped, CommissionRow, ReadCommission, Refers, Current
<1>6. ASSUME NEW w \in Worker, NEW c \in Commission, ReadSale(w, c) \/ BeginManual(w, c) PROVE Goal
  <2>1. CASE ReadSale(w, c)
    BY <1>4, <2>1 DEF ReadSale, Refers, Current
  <2>2. CASE BeginManual(w, c)
    <3> DEFINE t == ReadCommission(c, FALSE)
    <3>1. Refers(t) /\ Current(t) /\ Begin(w, t) /\ UNCHANGED payout
      BY <1>5, <2>2 DEF BeginManual
    <3> HIDE DEF t
    <3> QED
      BY <1>4, <3>1
  <2> QED
    BY <1>6, <2>1, <2>2
<1>7. ASSUME NEW w \in Worker, BeginPart(w) \/ BeginRefundAll(w) PROVE Goal
  <2>1. task[w].c \in Commission /\ task[w].op # "idle"
    BY <1>7 DEF IInv, TasksOK, Refers, BeginPart, BeginRefundAll, Doing
  <2>2. CASE BeginPart(w)
    BY <1>3, <2>1, <2>2 DEF BeginPart, Refers, Current
  <2>3. CASE BeginRefundAll(w)
    <3> DEFINE t == ReadCommission(task[w].c, TRUE)
    <3>1. Refers(t) /\ Current(t) /\ Proceed(w, t) /\ UNCHANGED payout
      BY <1>5, <2>1, <2>3 DEF BeginRefundAll
    <3> HIDE DEF t
    <3> QED
      BY <1>3, <2>1, <3>1
  <2> QED
    BY <1>7, <2>2, <2>3
<1>8. ASSUME NEW w \in Worker, MarkReversed(w) PROVE Goal
  <2>1. task[w].op = "reverse"
    BY <1>8 DEF MarkReversed, Doing
  <2>2. Refers(task[w]) /\ (~overlapped => Current(task[w]))
    BY DEF IInv, TasksOK, OneByOne
  <2> DEFINE t == [op |-> "shrink", c |-> task[w].c, refund |-> task[w].refund,
                   was |-> task[w].was, open |-> task[w].open,
                   amount |-> IF task[w].open = None THEN 0 ELSE payout[task[w].open].amount]
  <2>3. Refers(t) /\ (~overlapped => Current(t))
    BY <2>1, <2>2 DEF Refers, Current
  <2>4. Proceed(w, t) /\ UNCHANGED payout
    BY <1>8 DEF MarkReversed
  <2> HIDE DEF t
  <2> QED
    BY <1>3, <2>1, <2>3, <2>4
<1>9. ASSUME NEW w \in Worker, CommitPart(w) \/ AlreadyReversed(w) \/ CommitReversal(w) PROVE Goal
  BY <1>1, <1>9 DEF CommitPart, AlreadyReversed, CommitReversal, Doing
<1>10. ASSUME NEW w \in Worker, BeginRequest(w) \/ \E p \in Payout : ReadPayout(w, p) PROVE Goal
  <2>1. CASE BeginRequest(w)
    BY <1>4, <2>1 DEF BeginRequest, Refers, Current
  <2>2. ASSUME NEW p \in Payout, ReadPayout(w, p) PROVE Goal
    BY <1>4, <2>2 DEF ReadPayout, Refers, Current
  <2> QED
    BY <1>10, <2>1, <2>2
<1>11. ASSUME NEW w \in Worker, ReadPayable(w) \/ ReadAdjustments(w) PROVE Goal
  BY <1>3, <1>11 DEF ReadPayable, ReadAdjustments, Doing, Refers, Current
<1>12. ASSUME NEW w \in Worker, ClaimPayout(w) \/ Approve(w) \/ MarkPaid(w) \/ Reject(w) PROVE Goal
  BY <1>1, <1>12 DEF ClaimPayout, Approve, MarkPaid, Reject, Doing
<1>13. ASSUME NEW c \in Commission, RecordCommission(c) \/ ReleaseHold(c) PROVE Goal
  BY <1>2, <1>13 DEF RecordCommission, ReleaseHold
<1>14. ASSUME NEW amount, AdjustBalance(amount) PROVE Goal
  BY <1>2, <1>14 DEF AdjustBalance
<1>15. ASSUME NEW w \in Worker, Abort(w) PROVE Goal
  BY <1>1, <1>15 DEF Abort
<1> HIDE DEF Goal
<1>16. Goal
  BY <1>6, <1>7, <1>8, <1>9, <1>10, <1>11, <1>12, <1>13, <1>14, <1>15 DEF Next, Refunds, Payouts
<1> QED
  BY <1>16 DEF Goal

-------------------------------------------------------------------------------
LEMMA InitIInv == Init => IInv
<1> SUFFICES ASSUME Init PROVE IInv
  OBVIOUS
<1>1. CommissionsTyped /\ CommissionsOK
  BY DEF Init, CommissionsTyped, CommissionsOK, CommissionRow, CommissionStatus, Requested
<1>2. AdjustmentsTyped /\ AdjustmentsOK
  BY DEF Init, AdjustmentsTyped, AdjustmentsOK
<1>3. PayoutsTyped
  <2>1. payout \in [Payout -> PayoutRow({0})]
    BY DEF Init, PayoutRow, PayoutStatus
  <2> QED
    BY <2>1 DEF PayoutsTyped
<1>4. TasksOK /\ OneByOne
  <2>1. task \in [Worker -> {Idle}]
    BY DEF Init
  <2> QED
    BY <2>1 DEF Init, TasksOK, OneByOne, Refers, Current, Idle
<1> QED
  BY <1>1, <1>2, <1>3, <1>4 DEF IInv, Init

LEMMA StepIInv == IInv /\ [Next]_vars => IInv'
<1> SUFFICES ASSUME IInv, [Next]_vars PROVE IInv'
  OBVIOUS
<1>1. CASE UNCHANGED vars
  BY <1>1 DEF vars, IInv, CommissionsTyped, AdjustmentsTyped, PayoutsTyped, CommissionsOK,
              AdjustmentsOK, Requested, TasksOK, Refers, OneByOne, Current
<1>2. CASE Next
  <2>1. CommissionsMove /\ AdjustmentsMove /\ PayoutsMove
    BY <1>2, RowsMove
  <2>2. CommissionsOK'
    BY <2>1, ReferralAssumption
       DEF IInv, CommissionsMove, CommissionsOK, CommissionsTyped, CommissionRow, PayoutsMove, Requested
  <2>3. AdjustmentsOK'
    <3> SUFFICES ASSUME NEW i \in DOMAIN adjustments', adjustments'[i].payout # None
                 PROVE  payout'[adjustments'[i].payout].status # "NONE"
      BY DEF AdjustmentsOK, Requested
    <3>1. PICK A : adjustments \in Seq(AdjustmentRow(A))
      BY DEF IInv, AdjustmentsTyped
    <3>2. i \in DOMAIN adjustments => adjustments[i].payout \in Payout \cup {None}
      <4>1. i \in DOMAIN adjustments => adjustments[i] \in AdjustmentRow(A)
        BY <3>1
      <4> QED
        BY <4>1 DEF AdjustmentRow
    <3>3. CASE i \in DOMAIN adjustments /\ adjustments'[i].payout = adjustments[i].payout
      BY <2>1, <3>2, <3>3 DEF IInv, AdjustmentsOK, PayoutsMove, Requested
    <3> QED
      BY <2>1, <3>3 DEF AdjustmentsMove
  <2> QED
    BY <1>2, <2>1, <2>2, <2>3, TasksMove DEF IInv, CommissionsMove, AdjustmentsMove, PayoutsMove
<1> QED
  BY <1>1, <1>2

\* The invariant behind the theorems below.
THEOREM Invariant == Spec => []IInv
BY InitIInv, StepIInv, PTL DEF Spec

\* While transactions follow one another, what is decided of a payout is decided of an
\* open one.
LEMMA ClosedPayouts ==
    ASSUME IInv, Next, ~overlapped, NEW p \in Payout, payout[p].status \in {"PAID", "REJECTED"}
    PROVE  payout'[p] = payout[p]
<1>1. ASSUME NEW w \in Worker, CommitReversal(w) PROVE payout'[p] = payout[p]
  <2>1. task[w].open \in Payout \cup {None} /\ task[w].open # p
    BY <1>1, ReferralAssumption
       DEF IInv, TasksOK, Refers, OneByOne, Current, CommitReversal, Doing, OpenPayout
  <2> QED
    BY <1>1, <2>1, PayoutShrinks DEF CommitReversal
<1>2. ASSUME NEW w \in Worker, ClaimPayout(w) PROVE payout'[p] = payout[p]
  <2>1. PICK q, amount :
          /\ q \in Payout
          /\ payout[q].status = "NONE"
          /\ payout' = [payout EXCEPT ![q] = [status |-> "REQUESTED", amount |-> amount]]
    BY <1>2 DEF ClaimPayout
  <2> QED
    BY <2>1, PayoutChanges DEF PayoutStatus
<1>3. ASSUME NEW w \in Worker, Approve(w) \/ MarkPaid(w) \/ Reject(w) PROVE payout'[p] = payout[p]
  <2>1. task[w].p \in Payout /\ task[w].p # p
    BY <1>3 DEF IInv, TasksOK, Refers, OneByOne, Current, Approve, MarkPaid, Reject, Decidable,
                OpenPayout, Doing
  <2>2. PICK s \in PayoutStatus \ {"NONE"} : payout' = [payout EXCEPT ![task[w].p].status = s]
    BY <1>3 DEF Approve, MarkPaid, Reject, PayoutStatus
  <2> QED
    BY <2>1, <2>2, PayoutDecided
<1>4. CASE UNCHANGED payout
  BY <1>4
<1>5. ASSUME NEW w \in Worker, Refunds(w) PROVE payout'[p] = payout[p]
  BY <1>1, <1>4, <1>5
     DEF Refunds, ReadSale, BeginManual, BeginPart, CommitPart, BeginRefundAll, AlreadyReversed, MarkReversed
<1>6. ASSUME NEW w \in Worker, Payouts(w) PROVE payout'[p] = payout[p]
  BY <1>2, <1>3, <1>4, <1>6 DEF Payouts, BeginRequest, ReadPayable, ReadAdjustments, ReadPayout
<1> QED
  BY <1>4, <1>5, <1>6 DEF Next, RecordCommission, ReleaseHold, AdjustBalance, Abort

\* However transactions overlap, a reversed commission is never released, claimed or paid
\* and a paid one only reversed; one at a time, a payout that was paid or rejected is not
\* touched again (releaseDue, claimCommissions, markPayoutPaid, rejectPayout, reverseTx).
THEOREM ClosedIsFinal == Spec => ClosedStaysClosed
<1> DEFINE A ==
      /\ \A c \in Commission :
           /\ commission[c].status = "REVERSED" => commission'[c] = commission[c]
           /\ commission[c].status = "PAID" => commission'[c].status \in {"PAID", "REVERSED"}
      /\ \A p \in Payout : ~overlapped /\ payout[p].status \in {"PAID", "REJECTED"} =>
           payout'[p] = payout[p]
<1>1. IInv /\ [Next]_vars => [A]_vars
  BY RowsMove, ClosedPayouts DEF CommissionsMove
<1>2. Spec => [][A]_vars
  BY <1>1, Invariant, PTL DEF Spec
<1> QED
  BY <1>2 DEF ClosedStaysClosed

\* A payout is requested by a claim only, which finds every row as it was read.
LEMMA RequestHolds ==
    ASSUME IInv, Next, NEW p \in Payout, payout[p].status = "NONE", payout'[p].status = "REQUESTED"
    PROVE  payout'[p].amount = (SumAmounts(ClaimedBy(p)) + SumAdjustments(SettledBy(p)))'
<1>1. ASSUME NEW w \in Worker, CommitReversal(w) PROVE FALSE
  <2>1. task[w].open \in Payout \cup {None}
    BY <1>1 DEF IInv, TasksOK, Refers, CommitReversal, Doing
  <2>2. PICK amount : payout' = ShrinkPayout(task[w].open, amount)
    BY <1>1 DEF CommitReversal
  <2>3. payout'[p].status \in {"NONE", "REJECTED"}
    <3>1. PICK A : payout \in [Payout -> PayoutRow(A)]
      BY DEF IInv, PayoutsTyped
    <3> QED
      BY <2>1, <2>2, <3>1 DEF ShrinkPayout, PayoutRow
  <2> QED
    BY <2>3
<1>2. ASSUME NEW w \in Worker, Approve(w) \/ MarkPaid(w) \/ Reject(w) PROVE FALSE
  <2>1. PICK A : payout \in [Payout -> PayoutRow(A)]
    BY DEF IInv, PayoutsTyped
  <2>2. PICK s \in {"APPROVED", "PAID", "REJECTED"} : payout' = [payout EXCEPT ![task[w].p].status = s]
    BY <1>2 DEF Approve, MarkPaid, Reject
  <2>3. payout'[p].status \in {payout[p].status, s}
    BY <2>1, <2>2 DEF PayoutRow
  <2> QED
    BY <2>3
<1>3. UNCHANGED payout => FALSE
  OBVIOUS
<1>4. PICK w \in Worker : ClaimPayout(w)
  BY <1>1, <1>2, <1>3
     DEF Next, Refunds, Payouts, RecordCommission, ReleaseHold, AdjustBalance, Abort, ReadSale,
         BeginManual, BeginPart, CommitPart, BeginRefundAll, AlreadyReversed, MarkReversed,
         BeginRequest, ReadPayable, ReadAdjustments, ReadPayout
<1> DEFINE cs == task[w].cs
           as == task[w].as
           total == SumAmounts(cs) + SumAdjustments(as)
<1>5. /\ cs \subseteq PayableUnassigned /\ as \subseteq Unsettled
      /\ payout' = [payout EXCEPT ![p] = [status |-> "REQUESTED", amount |-> total]]
      /\ commission' = [c \in Commission |->
             IF c \in cs THEN [commission[c] EXCEPT !.payout = p] ELSE commission[c]]
      /\ adjustments' = [i \in DOMAIN adjustments |->
             IF i \in as THEN [adjustments[i] EXCEPT !.payout = p] ELSE adjustments[i]]
  <2>1. PICK q \in Payout :
          /\ payout' = [payout EXCEPT ![q] = [status |-> "REQUESTED", amount |-> total]]
          /\ commission' = [c \in Commission |->
                 IF c \in cs \cap PayableUnassigned
                 THEN [commission[c] EXCEPT !.payout = q] ELSE commission[c]]
          /\ adjustments' = [i \in DOMAIN adjustments |->
                 IF i \in as \cap Unsettled
                 THEN [adjustments[i] EXCEPT !.payout = q] ELSE adjustments[i]]
    BY <1>4 DEF ClaimPayout
  <2>2. q = p
    BY <2>1 DEF IInv, PayoutsTyped
  <2>3. cs \subseteq PayableUnassigned /\ as \subseteq Unsettled
    BY <1>4 DEF ClaimPayout, AllClaimed
  <2>4. cs \cap PayableUnassigned = cs /\ as \cap Unsettled = as
    BY <2>3
  <2> QED
    BY <2>1, <2>2, <2>3, <2>4
<1>6. payout'[p].amount = total
  BY <1>5 DEF IInv, PayoutsTyped
<1>7. ClaimedBy(p)' = cs
  <2>1. \A c \in Commission : commission[c] \in CommissionRow /\ commission[c].payout # p
    BY ReferralAssumption DEF IInv, CommissionsTyped, CommissionsOK, Requested
  <2>2. \A c \in Commission : commission'[c].payout = p <=> c \in cs
    BY <1>5, <2>1 DEF CommissionRow
  <2>3. \A c \in cs : c \in Commission /\ commission'[c].status = "PAYABLE"
    BY <1>5, <2>1 DEF CommissionRow, PayableUnassigned
  <2> HIDE DEF cs
  <2> QED
    BY <2>2, <2>3 DEF ClaimedBy
<1>8. SettledBy(p)' = as /\ [i \in DOMAIN adjustments' |-> adjustments'[i].amount]
                             = [i \in DOMAIN adjustments |-> adjustments[i].amount]
  <2>1. PICK A : adjustments \in Seq(AdjustmentRow(A))
    BY DEF IInv, AdjustmentsTyped
  <2>2. \A i \in DOMAIN adjustments : adjustments[i] \in AdjustmentRow(A) /\ adjustments[i].payout # p
    BY <2>1, ReferralAssumption DEF IInv, AdjustmentsOK, Requested
  <2>3. DOMAIN adjustments' = DOMAIN adjustments
    BY <1>5
  <2>4. \A i \in DOMAIN adjustments : /\ adjustments'[i].payout = p <=> i \in as
                                      /\ adjustments'[i].amount = adjustments[i].amount
    BY <1>5, <2>2 DEF AdjustmentRow
  <2>5. as \subseteq DOMAIN adjustments
    BY <1>5 DEF Unsettled
  <2> HIDE DEF as
  <2> QED
    BY <2>3, <2>4, <2>5 DEF SettledBy
<1> HIDE DEF cs, as
<1>9. SumAmounts(ClaimedBy(p))' = SumAmounts(cs)
  BY <1>7 DEF SumAmounts
<1>10. SumAdjustments(SettledBy(p))' = SumAdjustments(as)
  BY <1>8 DEF SumAdjustments
<1> QED
  BY <1>6, <1>9, <1>10

\* A new payout is worth exactly the commissions and adjustments it holds, whoever else
\* requested, reversed or refunded between the reads and the claims of its request
\* (requestPayout, claimCommissions, claimAdjustments).
THEOREM RequestsHold == Spec => RequestsHoldWhatTheyAsk
<1> DEFINE A ==
      \A p \in Payout :
        payout[p].status = "NONE" /\ payout'[p].status = "REQUESTED" =>
            payout'[p].amount = SumAmounts(ClaimedBy(p))' + SumAdjustments(SettledBy(p))'
<1>1. IInv /\ [Next]_vars => [A]_vars
  BY RequestHolds
<1>2. Spec => [][A]_vars
  BY <1>1, Invariant, PTL DEF Spec
<1> QED
  BY <1>2 DEF RequestsHoldWhatTheyAsk

-------------------------------------------------------------------------------
(***************************************************************************)
(* Amounts are integers, and a task is one of the records it may be.       *)
(***************************************************************************)
AmountOf == [i \in DOMAIN adjustments |-> adjustments[i].amount]

LEMMA CommissionAmountType == ASSUME NEW c \in Commission PROVE CommissionAmount(c) \in Nat
<1>1. Paid[c] \in Nat /\ RateBps \in Nat
  BY ReferralAssumption DEF BpsBase
<1>2. Paid[c] * RateBps \in Nat
  BY <1>1
<1> QED
  BY <1>2 DEF CommissionAmount, BpsBase

LEMMA SumAmountsType == ASSUME NEW S \in SUBSET Commission
                        PROVE IsFiniteSet(S) /\ SumAmounts(S) \in Nat
<1> DEFINE f == [c \in Commission |-> CommissionAmount(c)]
<1>1. IsFiniteSet(S) /\ \A c \in S : f[c] \in Nat
  BY ReferralAssumption, FS_Subset, CommissionAmountType
<1> HIDE DEF f
<1>2. SumOver(f, S) \in Nat
  BY <1>1, SumNat
<1> QED
  BY <1>1, <1>2 DEF f, SumAmounts

RowsTyped == adjustments \in Seq(AdjustmentRow(Int))

LEMMA RowsFinite == ASSUME RowsTyped
                    PROVE /\ IsFiniteSet(DOMAIN adjustments)
                          /\ Len(adjustments) \in Nat /\ DOMAIN adjustments = 1..Len(adjustments)
                          /\ AmountOf \in [DOMAIN adjustments -> Int]
<1>1. Len(adjustments) \in Nat /\ DOMAIN adjustments = 1..Len(adjustments)
  BY DEF RowsTyped
<1>2. IsFiniteSet(1..Len(adjustments))
  BY <1>1, FS_Interval
<1>3. AmountOf \in [DOMAIN adjustments -> Int]
  <2>1. \A i \in DOMAIN adjustments : adjustments[i] \in AdjustmentRow(Int)
    BY <1>1 DEF RowsTyped
  <2>2. \A i \in DOMAIN adjustments : adjustments[i].amount \in Int
    BY <2>1 DEF AdjustmentRow
  <2> QED
    BY <2>2 DEF AmountOf
<1> QED
  BY <1>1, <1>2, <1>3

LEMMA SumAdjustmentsType == ASSUME RowsTyped, NEW I \in SUBSET DOMAIN adjustments
                            PROVE /\ IsFiniteSet(I) /\ \A i \in I : AmountOf[i] \in Int
                                  /\ SumAdjustments(I) = SumOver(AmountOf, I)
                                  /\ SumAdjustments(I) \in Int
<1>1. IsFiniteSet(I) /\ \A i \in I : AmountOf[i] \in Int
  BY RowsFinite, FS_Subset
<1>2. SumAdjustments(I) = SumOver(AmountOf, I)
  BY DEF SumAdjustments, AmountOf
<1> QED
  BY <1>1, <1>2, SumInt

LEMMA TakenBackType == ASSUME RowsTyped, NEW c PROVE TakenBack(c) \in Int
<1> DEFINE I == {i \in DOMAIN adjustments : /\ adjustments[i].c = c
                                            /\ adjustments[i].kind = "REFUND"
                                            /\ adjustments[i].amount < 0}
<1>1. SumAdjustments(I) \in Int
  <2>1. I \in SUBSET DOMAIN adjustments
    OBVIOUS
  <2> HIDE DEF I
  <2> QED
    BY <2>1, SumAdjustmentsType
<1> QED
  BY <1>1 DEF TakenBack

\* What a transaction keeps in hand.
LEMMA TaskIs ==
    ASSUME NEW t \in Task
    PROVE /\ t.op = "refund" => t.c \in Commission /\ t.refunded \in Nat
          /\ t.op = "part" => /\ t.c \in Commission /\ t.part \in Nat /\ t.total \in Nat
                              /\ t.taken \in Int /\ t.found \in BOOLEAN
          /\ t.op \in {"reverse", "shrink"} =>
                /\ t.c \in Commission /\ t.refund \in BOOLEAN /\ t.was \in CommissionStatus
                /\ t.open \in Payout \cup {None}
          /\ t.op = "shrink" => t.amount \in Int
          /\ t.op \in {"payable", "claim"} => t.cs \in SUBSET Commission
          /\ t.op = "claim" => t.as \in SUBSET Nat
          /\ t.op = "decision" => t.p \in Payout /\ t.was \in PayoutStatus
BY DEF Task, Idle

LEMMA TaskMay ==
    /\ Idle \in Task
    /\ [op |-> "request"] \in Task
    /\ \A c \in Commission :
          /\ \A n \in Nat : [op |-> "refund", c |-> c, refunded |-> n] \in Task
          /\ \A part, total \in Nat : \A taken \in Int : \A found \in BOOLEAN :
                [op |-> "part", c |-> c, part |-> part, total |-> total, taken |-> taken,
                 found |-> found] \in Task
          /\ \A r \in BOOLEAN : \A s \in CommissionStatus : \A p \in Payout \cup {None} :
                /\ [op |-> "reverse", c |-> c, refund |-> r, was |-> s, open |-> p] \in Task
                /\ \A n \in Int : [op |-> "shrink", c |-> c, refund |-> r, was |-> s, open |-> p,
                                   amount |-> n] \in Task
    /\ \A cs \in SUBSET Commission :
          /\ [op |-> "payable", cs |-> cs] \in Task
          /\ \A as \in SUBSET Nat : [op |-> "claim", cs |-> cs, as |-> as] \in Task
    /\ \A p \in Payout : \A s \in PayoutStatus : [op |-> "decision", p |-> p, was |-> s] \in Task
BY DEF Task

LEMMA TypedRows == TypeOK => RowsTyped
BY DEF TypeOK, RowsTyped, AdjustmentRow

LEMMA AdjustmentTyped ==
    \A c \in Commission \cup {None} : \A kind \in {"REFUND", "MANUAL"} : \A n \in Int :
        Adjustment(c, kind, n) \in AdjustmentRow(Int)
BY DEF Adjustment, AdjustmentRow

\* Each part of the state keeps its type.
LEMMA TaskTyped ==
    ASSUME TypeOK, NEW w \in Worker, NEW t \in Task, task' = [task EXCEPT ![w] = t]
    PROVE task' \in [Worker -> Task]
BY DEF TypeOK

LEMMA TasksTyped == ASSUME TypeOK, [Next]_vars PROVE task' \in [Worker -> Task]
<1>1. \A w \in Worker : task[w] \in Task
  BY DEF TypeOK
<1>2. ASSUME NEW w \in Worker, Done(w) PROVE task' \in [Worker -> Task]
  BY <1>2, TaskTyped, TaskMay DEF Done, Proceed
<1>3. UNCHANGED task => task' \in [Worker -> Task]
  BY DEF TypeOK
<1>4. ASSUME NEW c \in Commission, NEW r \in BOOLEAN PROVE ReadCommission(c, r) \in Task
  <2>1. commission[c].status \in CommissionStatus /\ commission[c].payout \in Payout \cup {None}
    BY DEF TypeOK
  <2> QED
    BY <2>1, TaskMay DEF ReadCommission
<1>5. ASSUME NEW w \in Worker, NEW c \in Commission, ReadSale(w, c) \/ BeginManual(w, c)
      PROVE task' \in [Worker -> Task]
  <2>1. CASE ReadSale(w, c)
    <3>1. sale[c].refunded \in Nat
      BY DEF TypeOK
    <3>2. [op |-> "refund", c |-> c, refunded |-> sale[c].refunded] \in Task
      BY <3>1, TaskMay
    <3> QED
      BY <2>1, <3>2, TaskTyped DEF ReadSale, Begin
  <2>2. CASE BeginManual(w, c)
    BY <2>2, <1>4, TaskTyped DEF BeginManual, Begin
  <2> QED
    BY <1>5, <2>1, <2>2
<1>6. ASSUME NEW w \in Worker, BeginPart(w) PROVE task' \in [Worker -> Task]
  <2> DEFINE c == task[w].c
  <2>1. c \in Commission /\ task[w].refunded \in Nat
    BY <1>1, <1>6, TaskIs DEF BeginPart, Doing
  <2>2. PICK part \in RefundParts :
          task' = [task EXCEPT ![w] = [op |-> "part", c |-> c, part |-> part,
                           total |-> task[w].refunded + part,
                           taken |-> TakenBack(c),
                           found |-> commission[c].status # "REVERSED"]]
    BY <1>6 DEF BeginPart, Proceed
  <2>3. part \in Nat /\ task[w].refunded + part \in Nat
    BY <2>1, ReferralAssumption
  <2>4. TakenBack(c) \in Int
    BY TypedRows, TakenBackType
  <2>5. [op |-> "part", c |-> c, part |-> part, total |-> task[w].refunded + part,
         taken |-> TakenBack(c), found |-> commission[c].status # "REVERSED"] \in Task
    <3> DEFINE total == task[w].refunded + part
               taken == TakenBack(c)
               found == commission[c].status # "REVERSED"
    <3>1. total \in Nat /\ taken \in Int /\ found \in BOOLEAN
      BY <2>3, <2>4
    <3> HIDE DEF total, taken, found, c
    <3>2. [op |-> "part", c |-> c, part |-> part, total |-> total, taken |-> taken,
           found |-> found] \in Task
      BY <2>1, <2>3, <3>1, TaskMay
    <3> QED
      BY <3>2 DEF total, taken, found, c
  <2> QED
    BY <2>2, <2>5, TaskTyped
<1>7. ASSUME NEW w \in Worker, BeginRefundAll(w) PROVE task' \in [Worker -> Task]
  BY <1>1, <1>4, <1>7, TaskIs, TaskTyped DEF BeginRefundAll, Proceed, Doing
<1>8. ASSUME NEW w \in Worker, MarkReversed(w) PROVE task' \in [Worker -> Task]
  <2> DEFINE t == task[w]
             n == IF t.open = None THEN 0 ELSE payout[t.open].amount
  <2>1. t.c \in Commission /\ t.refund \in BOOLEAN /\ t.was \in CommissionStatus
        /\ t.open \in Payout \cup {None}
    BY <1>1, <1>8, TaskIs DEF MarkReversed, Doing
  <2>2. n \in Int
    BY <2>1 DEF TypeOK
  <2>3. task' = [task EXCEPT ![w] = [op |-> "shrink", c |-> t.c, refund |-> t.refund,
                    was |-> t.was, open |-> t.open, amount |-> n]]
    BY <1>8 DEF MarkReversed, Proceed
  <2> HIDE DEF n
  <2>4. [op |-> "shrink", c |-> t.c, refund |-> t.refund,
         was |-> t.was, open |-> t.open, amount |-> n] \in Task
    BY <2>1, <2>2, TaskMay
  <2> QED
    BY <2>3, <2>4, TaskTyped
<1>9. ASSUME NEW w \in Worker, BeginRequest(w) \/ ReadPayable(w) \/ ReadAdjustments(w)
      PROVE task' \in [Worker -> Task]
  <2>1. CASE BeginRequest(w)
    BY <2>1, TaskMay, TaskTyped DEF BeginRequest, Begin
  <2>2. CASE ReadPayable(w)
    BY <2>2, TaskMay, TaskTyped DEF ReadPayable, Proceed, PayableUnassigned
  <2>3. CASE ReadAdjustments(w)
    <3>1. task[w].cs \in SUBSET Commission
      BY <1>1, <2>3, TaskIs DEF ReadAdjustments, Doing
    <3>2. Unsettled \in SUBSET Nat
      BY TypedRows, RowsFinite DEF Unsettled
    <3> QED
      BY <2>3, <3>1, <3>2, TaskMay, TaskTyped DEF ReadAdjustments, Proceed
  <2> QED
    BY <1>9, <2>1, <2>2, <2>3
<1>10. ASSUME NEW w \in Worker, NEW p \in Payout, ReadPayout(w, p) PROVE task' \in [Worker -> Task]
  <2>1. payout[p].status \in PayoutStatus
    BY DEF TypeOK
  <2> QED
    BY <1>10, <2>1, TaskMay, TaskTyped DEF ReadPayout, Begin
<1>11. ASSUME NEW w \in Worker, Refunds(w) PROVE task' \in [Worker -> Task]
  BY <1>2, <1>5, <1>6, <1>7, <1>8, <1>11 DEF Refunds, CommitPart, AlreadyReversed, CommitReversal
<1>12. ASSUME NEW w \in Worker, Payouts(w) PROVE task' \in [Worker -> Task]
  BY <1>2, <1>9, <1>10, <1>12 DEF Payouts, ClaimPayout, Approve, MarkPaid, Reject
<1> QED
  BY <1>2, <1>3, <1>11, <1>12 DEF Next, vars, RecordCommission, ReleaseHold, AdjustBalance, Abort

LEMMA SalesTyped ==
    ASSUME TypeOK, [Next]_vars
    PROVE sale' \in [Commission -> [refunded: Nat, ended: BOOLEAN]]
<1>1. \A w \in Worker : task[w] \in Task
  BY DEF TypeOK
<1>2. UNCHANGED sale => sale' \in [Commission -> [refunded: Nat, ended: BOOLEAN]]
  BY DEF TypeOK
<1>3. ASSUME NEW w \in Worker, CommitPart(w)
      PROVE sale' \in [Commission -> [refunded: Nat, ended: BOOLEAN]]
  <2>1. task[w].c \in Commission /\ task[w].part \in Nat
    BY <1>1, <1>3, TaskIs DEF CommitPart, Doing
  <2> DEFINE c == task[w].c
             row == [sale[c] EXCEPT !.refunded = @ + task[w].part]
  <2>2. sale' = [sale EXCEPT ![c] = row]
    BY <1>3 DEF CommitPart
  <2>3. /\ sale \in [Commission -> [refunded: Nat, ended: BOOLEAN]]
        /\ sale[c] \in [refunded: Nat, ended: BOOLEAN]
    BY <2>1 DEF TypeOK
  <2>4. row \in [refunded: Nat, ended: BOOLEAN]
    BY <2>1, <2>3
  <2> HIDE DEF row, c
  <2> QED
    BY <2>2, <2>3, <2>4
<1>4. ASSUME NEW w \in Worker, AlreadyReversed(w) \/ CommitReversal(w)
      PROVE sale' \in [Commission -> [refunded: Nat, ended: BOOLEAN]]
  <2>1. task[w].c \in Commission /\ Paid[task[w].c] \in Nat
    BY <1>1, <1>4, TaskIs, ReferralAssumption DEF AlreadyReversed, CommitReversal, Doing
  <2>2. sale' = EndedSale(task[w].c, task[w].refund)
    BY <1>4 DEF AlreadyReversed, CommitReversal
  <2> QED
    BY <2>1, <2>2 DEF TypeOK, EndedSale
<1> QED
  BY <1>2, <1>3, <1>4
     DEF Next, vars, Refunds, Payouts, RecordCommission, ReleaseHold, AdjustBalance, Abort, ReadSale,
         BeginManual, BeginPart, BeginRefundAll, MarkReversed, BeginRequest, ReadPayable,
         ReadAdjustments, ClaimPayout, ReadPayout, Approve, MarkPaid, Reject

LEMMA AdjustmentsStayTyped == ASSUME TypeOK, [Next]_vars PROVE RowsTyped'
<1>0. RowsTyped /\ \A w \in Worker : task[w] \in Task
  BY TypedRows DEF TypeOK
<1>1. UNCHANGED adjustments => RowsTyped'
  BY <1>0 DEF RowsTyped
<1>2. ASSUME NEW r \in AdjustmentRow(Int), adjustments' = Append(adjustments, r) PROVE RowsTyped'
  BY <1>0, <1>2 DEF RowsTyped
<1>3. ASSUME NEW I, NEW p \in Payout \cup {None},
             adjustments' = [i \in DOMAIN adjustments |->
                 IF i \in I THEN [adjustments[i] EXCEPT !.payout = p] ELSE adjustments[i]]
      PROVE  RowsTyped'
  <2>1. \A r \in AdjustmentRow(Int) : [r EXCEPT !.payout = p] \in AdjustmentRow(Int)
    BY DEF AdjustmentRow
  <2>2. Len(adjustments) \in Nat /\ DOMAIN adjustments = 1..Len(adjustments)
        /\ \A i \in DOMAIN adjustments : adjustments[i] \in AdjustmentRow(Int)
    BY <1>0 DEF RowsTyped
  <2>3. adjustments' \in [1..Len(adjustments) -> AdjustmentRow(Int)]
    BY <1>3, <2>1, <2>2
  <2> QED
    BY <2>2, <2>3 DEF RowsTyped
<1>4. ASSUME NEW amount \in Manual, AdjustBalance(amount) PROVE RowsTyped'
  BY <1>2, <1>4, AdjustmentTyped, ReferralAssumption DEF AdjustBalance
<1>5. ASSUME NEW w \in Worker, CommitPart(w) PROVE RowsTyped'
  <2> DEFINE t == task[w]
             n == StillToTake(t.c, t.total, t.taken)
  <2>1. t.c \in Commission /\ t.total \in Nat /\ t.taken \in Int
    BY <1>0, <1>5, TaskIs DEF CommitPart, Doing
  <2>2. n \in Int
    <3>1. ProportionalShare(CommissionAmount(t.c), t.total, Paid[t.c]) \in Int
      BY <2>1, CommissionAmountType, ProportionalShareType, ReferralAssumption
    <3> QED
      BY <2>1, <3>1 DEF StillToTake
  <2>3. \/ UNCHANGED adjustments
        \/ adjustments' = Append(adjustments, Adjustment(t.c, "REFUND", -n))
    BY <1>5 DEF CommitPart
  <2> HIDE DEF n
  <2>4. Adjustment(t.c, "REFUND", -n) \in AdjustmentRow(Int)
    BY <2>1, <2>2, AdjustmentTyped
  <2> QED
    BY <1>1, <1>2, <2>3, <2>4
<1>6. ASSUME NEW w \in Worker, CommitReversal(w) PROVE RowsTyped'
  <2> DEFINE c == task[w].c
             n == TakenBack(c)
  <2>1. c \in Commission /\ n \in Int /\ CommissionAmount(c) \in Int
    BY <1>0, <1>6, TaskIs, TakenBackType, CommissionAmountType DEF CommitReversal, Doing
  <2>2. adjustments' = adjustments \o ReversalAdjustment(c, task[w].was, n)
    BY <1>6 DEF CommitReversal
  <2> HIDE DEF c, n
  <2>3. ReversalAdjustment(c, task[w].was, n) \in Seq(AdjustmentRow(Int))
    <3>1. n - CommissionAmount(c) \in Int
      BY <2>1
    <3>2. /\ Adjustment(c, "REFUND", n - CommissionAmount(c)) \in AdjustmentRow(Int)
          /\ Adjustment(c, "MANUAL", n) \in AdjustmentRow(Int)
      BY <2>1, <3>1, AdjustmentTyped
    <3> QED
      BY <3>2 DEF ReversalAdjustment
  <2> QED
    BY <1>0, <2>2, <2>3 DEF RowsTyped
<1>7. ASSUME NEW w \in Worker, ClaimPayout(w) PROVE RowsTyped'
  <2> DEFINE I == task[w].as \cap Unsettled
  <2>1. PICK p \in Payout :
          adjustments' = [i \in DOMAIN adjustments |->
              IF i \in I THEN [adjustments[i] EXCEPT !.payout = p] ELSE adjustments[i]]
    BY <1>7 DEF ClaimPayout
  <2> HIDE DEF I
  <2> QED
    BY <1>3, <2>1
<1>8. ASSUME NEW w \in Worker, Reject(w) PROVE RowsTyped'
  BY <1>3, <1>8 DEF Reject
<1> QED
  BY <1>1, <1>4, <1>5, <1>6, <1>7, <1>8
     DEF Next, vars, Refunds, Payouts, RecordCommission, ReleaseHold, Abort, ReadSale,
         BeginManual, BeginPart, AlreadyReversed, BeginRefundAll, MarkReversed, BeginRequest,
         ReadPayable, ReadAdjustments, ReadPayout, Approve, MarkPaid

LEMMA PayoutsStayTyped == ASSUME TypeOK, [Next]_vars PROVE payout' \in [Payout -> PayoutRow(Nat)]
<1>0. payout \in [Payout -> PayoutRow(Nat)] /\ \A w \in Worker : task[w] \in Task
  BY DEF TypeOK, PayoutRow
<1>1. UNCHANGED payout => payout' \in [Payout -> PayoutRow(Nat)]
  BY <1>0
<1>2. ASSUME NEW p \in Payout, NEW s \in PayoutStatus, payout' = [payout EXCEPT ![p].status = s]
      PROVE payout' \in [Payout -> PayoutRow(Nat)]
  <2>1. \A r \in PayoutRow(Nat) : [r EXCEPT !.status = s] \in PayoutRow(Nat)
    BY DEF PayoutRow
  <2> QED
    BY <1>0, <1>2, <2>1
<1>3. ASSUME NEW w \in Worker, Approve(w) \/ MarkPaid(w) \/ Reject(w)
      PROVE payout' \in [Payout -> PayoutRow(Nat)]
  <2>1. task[w].p \in Payout
    BY <1>0, <1>3, TaskIs DEF Approve, MarkPaid, Reject, Doing
  <2> QED
    BY <1>2, <1>3, <2>1 DEF Approve, MarkPaid, Reject, PayoutStatus
<1>4. ASSUME NEW w \in Worker, ClaimPayout(w) PROVE payout' \in [Payout -> PayoutRow(Nat)]
  <2> DEFINE total == SumAmounts(task[w].cs) + SumAdjustments(task[w].as)
  <2>1. task[w].cs \in SUBSET Commission /\ task[w].as \in SUBSET DOMAIN adjustments
    BY <1>0, <1>4, TaskIs DEF ClaimPayout, Doing, AllClaimed, Unsettled
  <2>2. total \in Int
    BY <2>1, SumAmountsType, SumAdjustmentsType, TypedRows
  <2>3. /\ total > 0
        /\ \E p \in Payout : payout' = [payout EXCEPT ![p] = [status |-> "REQUESTED", amount |-> total]]
    BY <1>4 DEF ClaimPayout
  <2> HIDE DEF total
  <2>4. [status |-> "REQUESTED", amount |-> total] \in PayoutRow(Nat)
    BY <2>2, <2>3 DEF PayoutRow, PayoutStatus
  <2> QED
    BY <1>0, <2>3, <2>4
<1>5. ASSUME NEW w \in Worker, CommitReversal(w) PROVE payout' \in [Payout -> PayoutRow(Nat)]
  <2> DEFINE n == task[w].amount - CommissionAmount(task[w].c)
  <2>1. n \in Int /\ task[w].open \in Payout \cup {None}
    <3>1. task[w].amount \in Int /\ task[w].c \in Commission /\ task[w].open \in Payout \cup {None}
      BY <1>0, <1>5, TaskIs DEF CommitReversal, Doing
    <3>2. CommissionAmount(task[w].c) \in Int
      BY <3>1, CommissionAmountType
    <3> QED
      BY <3>1, <3>2
  <2>2. payout' = ShrinkPayout(task[w].open, n)
    BY <1>5 DEF CommitReversal
  <2> HIDE DEF n
  <2>3. [status |-> "REJECTED", amount |-> 0] \in PayoutRow(Nat)
    BY DEF PayoutRow, PayoutStatus
  <2>4. n > 0 => \A r \in PayoutRow(Nat) : [r EXCEPT !.amount = n] \in PayoutRow(Nat)
    BY <2>1 DEF PayoutRow
  <2>5. n > 0 \/ n <= 0
    BY <2>1
  <2> QED
    BY <1>0, <2>1, <2>2, <2>3, <2>4, <2>5 DEF ShrinkPayout
<1> QED
  BY <1>1, <1>3, <1>4, <1>5
     DEF Next, vars, Refunds, Payouts, RecordCommission, ReleaseHold, AdjustBalance, Abort, ReadSale,
         BeginManual, BeginPart, CommitPart, AlreadyReversed, BeginRefundAll, MarkReversed,
         BeginRequest, ReadPayable, ReadAdjustments, ReadPayout

\* Every row keeps its type, through whatever the transactions in flight have read.
THEOREM TypeCorrect == Spec => []TypeOK
<1>1. Init => TypeOK
  <2> SUFFICES ASSUME Init PROVE TypeOK
    OBVIOUS
  <2>1. task \in [Worker -> Task] /\ paidOut \in [Commission -> SUBSET Payout]
    BY TaskMay DEF Init
  <2>2. adjustments \in Seq(AdjustmentRow(Int)) /\ payout \in [Payout -> PayoutRow(Nat)]
    BY DEF Init, PayoutRow, PayoutStatus
  <2>3. commission \in [Commission -> CommissionRow]
        /\ sale \in [Commission -> [refunded: Nat, ended: BOOLEAN]] /\ overlapped \in BOOLEAN
    BY DEF Init, CommissionRow, CommissionStatus
  <2> QED
    BY <2>1, <2>2, <2>3 DEF TypeOK, AdjustmentRow, PayoutRow, CommissionRow
<1>2. IInv /\ IInv' /\ TypeOK /\ [Next]_vars => TypeOK'
  <2> SUFFICES ASSUME IInv, IInv', TypeOK, [Next]_vars PROVE TypeOK'
    OBVIOUS
  <2>1. task' \in [Worker -> Task] /\ RowsTyped' /\ payout' \in [Payout -> PayoutRow(Nat)]
        /\ sale' \in [Commission -> [refunded: Nat, ended: BOOLEAN]]
    BY TasksTyped, AdjustmentsStayTyped, PayoutsStayTyped, SalesTyped
  <2>2. commission' \in [Commission -> CommissionRow] /\ overlapped' \in BOOLEAN
    BY DEF IInv, CommissionsTyped
  <2>3. paidOut' \in [Commission -> SUBSET Payout]
    <3>1. ASSUME NEW w \in Worker, MarkPaid(w) PROVE paidOut' \in [Commission -> SUBSET Payout]
      <4>1. task[w].p \in Payout
        BY <3>1, TaskIs DEF TypeOK, MarkPaid, Doing
      <4> QED
        BY <3>1, <4>1 DEF TypeOK, MarkPaid
    <3>2. UNCHANGED paidOut => paidOut' \in [Commission -> SUBSET Payout]
      BY DEF TypeOK
    <3> QED
      BY <3>1, <3>2
         DEF Next, vars, Refunds, Payouts, RecordCommission, ReleaseHold, AdjustBalance, Abort,
             ReadSale, BeginManual, BeginPart, CommitPart, AlreadyReversed, BeginRefundAll,
             MarkReversed, CommitReversal, BeginRequest, ReadPayable, ReadAdjustments, ClaimPayout,
             ReadPayout, Approve, Reject
  <2> QED
    BY <2>1, <2>2, <2>3 DEF TypeOK, RowsTyped, AdjustmentRow, PayoutRow, CommissionRow
<1> QED
  BY <1>1, <1>2, Invariant, PTL DEF Spec

-------------------------------------------------------------------------------
(***************************************************************************)
(* The adjustments to one commission.                                      *)
(***************************************************************************)
NamedBy(c) == {i \in DOMAIN adjustments : adjustments[i].c = c}
RefundsOf(c) ==
    {i \in DOMAIN adjustments : /\ adjustments[i].c = c
                                /\ adjustments[i].kind = "REFUND"
                                /\ adjustments[i].amount < 0}
Given(c) == SumOver(AmountOf, NamedBy(c))

\* Nothing but part-refunds has been taken off the commission.
OnlyRefunds(c) == NamedBy(c) = RefundsOf(c)

SameFor(c) ==
    /\ Given(c)' = Given(c) /\ TakenBack(c)' = TakenBack(c)
    /\ OnlyRefunds(c) => OnlyRefunds(c)'

LEMMA TakenBackIs ==
    RowsTyped => \A c : /\ TakenBack(c) = - SumOver(AmountOf, RefundsOf(c))
                        /\ SumOver(AmountOf, RefundsOf(c)) \in Int /\ TakenBack(c) \in Int
                        /\ Given(c) \in Int
                        /\ OnlyRefunds(c) => Given(c) = - TakenBack(c)
<1> SUFFICES ASSUME RowsTyped, NEW c
             PROVE /\ TakenBack(c) = - SumOver(AmountOf, RefundsOf(c))
                   /\ SumOver(AmountOf, RefundsOf(c)) \in Int /\ TakenBack(c) \in Int
                   /\ Given(c) \in Int
                   /\ OnlyRefunds(c) => Given(c) = - TakenBack(c)
  OBVIOUS
<1>1. RefundsOf(c) \in SUBSET DOMAIN adjustments /\ NamedBy(c) \in SUBSET DOMAIN adjustments
  BY DEF RefundsOf, NamedBy
<1>2. /\ SumAdjustments(RefundsOf(c)) = SumOver(AmountOf, RefundsOf(c))
      /\ SumAdjustments(RefundsOf(c)) \in Int /\ SumOver(AmountOf, NamedBy(c)) \in Int
  BY <1>1, SumAdjustmentsType
<1>3. TakenBack(c) = - SumAdjustments(RefundsOf(c))
  BY DEF TakenBack, RefundsOf
<1>4. OnlyRefunds(c) => SumOver(AmountOf, NamedBy(c)) = SumOver(AmountOf, RefundsOf(c))
  BY DEF OnlyRefunds
<1> QED
  BY <1>2, <1>3, <1>4 DEF Given

LEMMA NextTakenBackIs == ASSUME RowsTyped' PROVE TakenBackIs!2'
<1>1. (RowsTyped => TakenBackIs!2)'
  BY TakenBackIs, PTL
<1> QED
  BY <1>1

\* Rows that keep their amounts keep their sum.
LEMMA SumKept ==
    ASSUME RowsTyped, RowsTyped', NEW I \in SUBSET DOMAIN adjustments,
           \A i \in I : i \in DOMAIN adjustments' /\ adjustments'[i].amount = adjustments[i].amount
    PROVE SumOver(AmountOf', I) = SumOver(AmountOf, I)
<1>1. IsFiniteSet(I) /\ \A i \in I : AmountOf[i] \in Int
  BY SumAdjustmentsType
<1>2. \A i \in I : AmountOf[i] = AmountOf'[i]
  BY DEF AmountOf
<1> QED
  BY <1>1, <1>2, SumSame

\* Rows that are claimed or released are the same rows.
LEMMA Reassigned ==
    ASSUME RowsTyped, NEW I, NEW p,
           adjustments' = [i \in DOMAIN adjustments |->
               IF i \in I THEN [adjustments[i] EXCEPT !.payout = p] ELSE adjustments[i]]
    PROVE /\ DOMAIN adjustments' = DOMAIN adjustments
          /\ \A i \in DOMAIN adjustments :
                /\ adjustments'[i].c = adjustments[i].c
                /\ adjustments'[i].kind = adjustments[i].kind
                /\ adjustments'[i].amount = adjustments[i].amount
                /\ adjustments'[i].payout = IF i \in I THEN p ELSE adjustments[i].payout
<1>1. \A i \in DOMAIN adjustments : adjustments[i] \in AdjustmentRow(Int)
  BY DEF RowsTyped
<1> QED
  BY <1>1 DEF AdjustmentRow

LEMMA SameRows ==
    ASSUME RowsTyped, RowsTyped', DOMAIN adjustments' = DOMAIN adjustments,
           \A i \in DOMAIN adjustments :
                /\ adjustments'[i].c = adjustments[i].c
                /\ adjustments'[i].kind = adjustments[i].kind
                /\ adjustments'[i].amount = adjustments[i].amount
    PROVE \A c : SameFor(c)
<1> TAKE c
<1>1. NamedBy(c)' = NamedBy(c) /\ RefundsOf(c)' = RefundsOf(c)
  BY DEF NamedBy, RefundsOf
<1>2. AmountOf' = AmountOf
  BY DEF AmountOf
<1>3. /\ TakenBack(c) = - SumOver(AmountOf, RefundsOf(c))
      /\ TakenBack(c)' = - SumOver(AmountOf', RefundsOf(c)')
  BY TakenBackIs, NextTakenBackIs
<1> QED
  BY <1>1, <1>2, <1>3 DEF SameFor, Given, OnlyRefunds

LEMMA Amounts == RowsTyped => \A i \in DOMAIN adjustments : AmountOf[i] \in Int
BY RowsFinite

LEMMA NextAmounts == ASSUME RowsTyped' PROVE \A i \in DOMAIN adjustments' : AmountOf'[i] \in Int
<1>1. (RowsTyped => \A i \in DOMAIN adjustments : AmountOf[i] \in Int)'
  BY Amounts, PTL
<1> QED
  BY <1>1

\* A row is added.
LEMMA RowAdded ==
    ASSUME RowsTyped, RowsTyped', NEW r, adjustments' = Append(adjustments, r)
    PROVE LET n == Len(adjustments) + 1
          IN  /\ n \notin DOMAIN adjustments /\ DOMAIN adjustments' = DOMAIN adjustments \cup {n}
              /\ adjustments'[n] = r /\ r.amount \in Int
              /\ \A i \in DOMAIN adjustments : adjustments'[i] = adjustments[i]
<1> DEFINE n == Len(adjustments) + 1
<1>1. /\ n \notin DOMAIN adjustments /\ DOMAIN adjustments' = DOMAIN adjustments \cup {n}
      /\ adjustments'[n] = r
      /\ \A i \in DOMAIN adjustments : adjustments'[i] = adjustments[i]
  BY DEF RowsTyped
<1>2. adjustments'[n] \in AdjustmentRow(Int)
  BY <1>1 DEF RowsTyped
<1> QED
  BY <1>1, <1>2 DEF AdjustmentRow

LEMMA AddedTo ==
    ASSUME RowsTyped, RowsTyped', NEW r, adjustments' = Append(adjustments, r), NEW c
    PROVE /\ r.c # c => SameFor(c)
          /\ r.c = c => Given(c)' = Given(c) + r.amount
          /\ r.c = c /\ r.kind = "REFUND" /\ r.amount < 0 =>
                /\ TakenBack(c)' = TakenBack(c) - r.amount
                /\ OnlyRefunds(c) => OnlyRefunds(c)'
<1> DEFINE n == Len(adjustments) + 1
<1>1. /\ n \notin DOMAIN adjustments /\ DOMAIN adjustments' = DOMAIN adjustments \cup {n}
      /\ adjustments'[n] = r /\ r.amount \in Int
      /\ \A i \in DOMAIN adjustments : adjustments'[i] = adjustments[i]
  BY RowAdded
<1> HIDE DEF n
<1>2. /\ NamedBy(c)' = NamedBy(c) \cup (IF r.c = c THEN {n} ELSE {})
      /\ RefundsOf(c)' = RefundsOf(c)
            \cup (IF r.c = c /\ r.kind = "REFUND" /\ r.amount < 0 THEN {n} ELSE {})
  BY <1>1 DEF NamedBy, RefundsOf
<1>3. ASSUME NEW I \in SUBSET DOMAIN adjustments
      PROVE /\ SumOver(AmountOf', I) = SumOver(AmountOf, I) /\ SumOver(AmountOf, I) \in Int
            /\ SumOver(AmountOf', I \cup {n}) = r.amount + SumOver(AmountOf, I)
  <2>1. SumOver(AmountOf', I) = SumOver(AmountOf, I)
    BY <1>1, SumKept
  <2>2. IsFiniteSet(I) /\ SumOver(AmountOf, I) \in Int
    BY SumAdjustmentsType
  <2>3. n \notin I /\ \A i \in I \cup {n} : AmountOf'[i] \in Int
    <3>1. I \cup {n} \in SUBSET DOMAIN adjustments'
      BY <1>1
    <3> QED
      BY <1>1, <3>1, NextAmounts
  <2>4. AmountOf'[n] = r.amount
    BY <1>1 DEF AmountOf
  <2>5. SumOver(AmountOf', I \cup {n}) = AmountOf'[n] + SumOver(AmountOf', I)
    BY <2>2, <2>3, SumAdd
  <2> QED
    BY <2>1, <2>2, <2>4, <2>5
<1>4. NamedBy(c) \in SUBSET DOMAIN adjustments /\ RefundsOf(c) \in SUBSET DOMAIN adjustments
  BY DEF NamedBy, RefundsOf
<1>5. /\ TakenBack(c) = - SumOver(AmountOf, RefundsOf(c))
      /\ TakenBack(c)' = - SumOver(AmountOf', RefundsOf(c)')
  BY TakenBackIs, NextTakenBackIs
<1>6. ASSUME r.c # c PROVE SameFor(c)
  <2>1. NamedBy(c)' = NamedBy(c) /\ RefundsOf(c)' = RefundsOf(c)
    BY <1>2, <1>6
  <2> QED
    BY <1>3, <1>4, <1>5, <2>1 DEF SameFor, Given, OnlyRefunds
<1>7. ASSUME r.c = c PROVE Given(c)' = Given(c) + r.amount
  <2>1. NamedBy(c)' = NamedBy(c) \cup {n}
    BY <1>2, <1>7
  <2>2. /\ SumOver(AmountOf', NamedBy(c) \cup {n}) = r.amount + SumOver(AmountOf, NamedBy(c))
        /\ SumOver(AmountOf, NamedBy(c)) \in Int
    BY <1>3, <1>4
  <2> QED
    BY <1>1, <2>1, <2>2 DEF Given
<1>8. ASSUME r.c = c, r.kind = "REFUND", r.amount < 0
      PROVE /\ TakenBack(c)' = TakenBack(c) - r.amount
            /\ OnlyRefunds(c) => OnlyRefunds(c)'
  <2>1. NamedBy(c)' = NamedBy(c) \cup {n} /\ RefundsOf(c)' = RefundsOf(c) \cup {n}
    BY <1>2, <1>8
  <2>2. /\ SumOver(AmountOf', RefundsOf(c) \cup {n}) = r.amount + SumOver(AmountOf, RefundsOf(c))
        /\ SumOver(AmountOf, RefundsOf(c)) \in Int
    BY <1>3, <1>4
  <2>3. TakenBack(c)' = TakenBack(c) - r.amount
    BY <1>1, <1>5, <2>1, <2>2
  <2> QED
    BY <2>1, <2>3 DEF OnlyRefunds
<1> QED
  BY <1>6, <1>7, <1>8

-------------------------------------------------------------------------------
(***************************************************************************)
(* What a step does to one commission, its sale and its adjustments.       *)
(***************************************************************************)
Status(c) == commission[c].status

LEMMA TaskOf ==
    ASSUME TypeOK, NEW w \in Worker
    PROVE /\ task[w] \in Task
          /\ task[w].op \in {"part", "reverse", "shrink", "refund"} => task[w].c \in Commission
BY TaskIs DEF TypeOK

\* A payout is requested in this step.
Granted(p) == payout[p].status = "NONE" /\ payout'[p].status = "REQUESTED"

LEMMA ClaimGrants ==
    ASSUME TypeOK, NEW p \in Payout, NEW n,
           payout' = [payout EXCEPT ![p] = [status |-> "REQUESTED", amount |-> n]]
    PROVE  payout'[p].status = "REQUESTED" /\ payout'[p].amount = n
           /\ \A q \in Payout \ {p} : payout'[q] = payout[q]
BY DEF TypeOK

LEMMA ClaimEffect ==
    ASSUME TypeOK, NEW w \in Worker, ClaimPayout(w)
    PROVE  \E p \in Payout :
             /\ Granted(p) /\ \A q \in Payout \ {p} : payout'[q] = payout[q]
             /\ commission' = [c \in Commission |->
                    IF c \in task[w].cs \cap PayableUnassigned
                    THEN [commission[c] EXCEPT !.payout = p] ELSE commission[c]]
             /\ adjustments' = [i \in DOMAIN adjustments |->
                    IF i \in task[w].as \cap Unsettled
                    THEN [adjustments[i] EXCEPT !.payout = p] ELSE adjustments[i]]
<1> DEFINE total == SumAmounts(task[w].cs) + SumAdjustments(task[w].as)
           Rows(p) == /\ commission' = [c \in Commission |->
                             IF c \in task[w].cs \cap PayableUnassigned
                             THEN [commission[c] EXCEPT !.payout = p] ELSE commission[c]]
                      /\ adjustments' = [i \in DOMAIN adjustments |->
                             IF i \in task[w].as \cap Unsettled
                             THEN [adjustments[i] EXCEPT !.payout = p] ELSE adjustments[i]]
<1>1. PICK p \in Payout :
        /\ payout[p].status = "NONE"
        /\ payout' = [payout EXCEPT ![p] = [status |-> "REQUESTED", amount |-> total]]
        /\ Rows(p)
  BY DEF ClaimPayout
<1> HIDE DEF Rows, total
<1>2. Granted(p) /\ \A q \in Payout \ {p} : payout'[q] = payout[q]
  BY <1>1, ClaimGrants DEF Granted
<1> QED
  BY <1>1, <1>2 DEF Rows

LEMMA StatusSteps ==
    ASSUME TypeOK, [Next]_vars, NEW c \in Commission
    PROVE \/ commission'[c] = commission[c]
          \/ /\ RecordCommission(c) /\ Status(c) = "NONE" /\ Status(c)' \in {"ON_HOLD", "PAYABLE"}
             /\ commission'[c].payout = commission[c].payout
          \/ /\ ReleaseHold(c) /\ Status(c) = "ON_HOLD" /\ Status(c)' = "PAYABLE"
             /\ commission'[c].payout = commission[c].payout
          \/ \E w \in Worker : /\ MarkPaid(w) /\ Status(c) = "PAYABLE" /\ Status(c)' = "PAID"
                               /\ c \in ClaimedBy(task[w].p)
                               /\ commission'[c].payout = commission[c].payout
          \/ \E w \in Worker : /\ CommitReversal(w) /\ task[w].c = c
                               /\ commission'[c] = [status |-> "REVERSED", payout |-> None]
          \/ \E w \in Worker, p \in Payout :
                /\ ClaimPayout(w) /\ c \in PayableUnassigned /\ Status(c)' = "PAYABLE"
                /\ commission'[c].payout = p /\ Granted(p)
          \/ \E w \in Worker : /\ Reject(w) /\ c \in ClaimedBy(task[w].p) /\ Status(c)' = "PAYABLE"
                               /\ commission'[c].payout = None
<1>0. /\ commission \in [Commission -> CommissionRow] /\ commission[c] \in CommissionRow
      /\ \A r \in CommissionRow : \A s, p : /\ [r EXCEPT !.status = s].status = s
                                            /\ [r EXCEPT !.status = s].payout = r.payout
                                            /\ [r EXCEPT !.payout = p].payout = p
                                            /\ [r EXCEPT !.payout = p].status = r.status
  BY DEF TypeOK, CommissionRow
<1>1. ASSUME NEW d \in Commission, RecordCommission(d)
      PROVE \/ commission'[c] = commission[c]
            \/ /\ RecordCommission(c) /\ Status(c) = "NONE" /\ Status(c)' \in {"ON_HOLD", "PAYABLE"}
               /\ commission'[c].payout = commission[c].payout
  <2>1. PICK s \in {"ON_HOLD", "PAYABLE"} : commission' = [commission EXCEPT ![d].status = s]
    BY <1>1 DEF RecordCommission
  <2>2. CASE d = c
    <3>1. commission'[c] = [commission[c] EXCEPT !.status = s]
      BY <1>0, <2>1, <2>2
    <3>2. RecordCommission(c) /\ commission[c].status = "NONE"
      BY <1>1, <2>2 DEF RecordCommission
    <3> QED
      BY <1>0, <3>1, <3>2 DEF Status
  <2>3. CASE d # c
    BY <1>0, <2>1, <2>3
  <2> QED
    BY <2>2, <2>3
<1>2. ASSUME NEW d \in Commission, ReleaseHold(d)
      PROVE \/ commission'[c] = commission[c]
            \/ /\ ReleaseHold(c) /\ Status(c) = "ON_HOLD" /\ Status(c)' = "PAYABLE"
               /\ commission'[c].payout = commission[c].payout
  <2>1. commission' = [commission EXCEPT ![d].status = "PAYABLE"] /\ commission[d].status = "ON_HOLD"
    BY <1>2 DEF ReleaseHold, Due
  <2>2. CASE d = c
    <3>1. commission'[c] = [commission[c] EXCEPT !.status = "PAYABLE"]
      BY <1>0, <2>1, <2>2
    <3> QED
      BY <1>0, <1>2, <2>1, <2>2, <3>1 DEF Status
  <2>3. CASE d # c
    BY <1>0, <2>1, <2>3
  <2> QED
    BY <2>2, <2>3
<1>3. ASSUME NEW w \in Worker, MarkPaid(w)
      PROVE \/ commission'[c] = commission[c]
            \/ /\ MarkPaid(w) /\ Status(c) = "PAYABLE" /\ Status(c)' = "PAID"
               /\ c \in ClaimedBy(task[w].p)
               /\ commission'[c].payout = commission[c].payout
  <2>1. commission'[c] = IF c \in ClaimedBy(task[w].p) THEN [commission[c] EXCEPT !.status = "PAID"]
                         ELSE commission[c]
    BY <1>3 DEF MarkPaid
  <2> QED
    BY <1>0, <1>3, <2>1 DEF ClaimedBy, Status
<1>4. ASSUME NEW w \in Worker, CommitReversal(w)
      PROVE \/ commission'[c] = commission[c]
            \/ /\ CommitReversal(w) /\ task[w].c = c
               /\ commission'[c] = [status |-> "REVERSED", payout |-> None]
  BY <1>0, <1>4 DEF CommitReversal
<1>5. ASSUME NEW w \in Worker, ClaimPayout(w)
      PROVE \/ commission'[c] = commission[c]
            \/ \E p \in Payout :
                 /\ ClaimPayout(w) /\ c \in PayableUnassigned /\ Status(c)' = "PAYABLE"
                 /\ commission'[c].payout = p /\ Granted(p)
  <2>1. PICK p \in Payout :
          /\ Granted(p)
          /\ commission'[c] = IF c \in task[w].cs \cap PayableUnassigned
                              THEN [commission[c] EXCEPT !.payout = p] ELSE commission[c]
    BY <1>5, ClaimEffect
  <2>2. CASE c \in task[w].cs \cap PayableUnassigned
    BY <1>0, <1>5, <2>1, <2>2 DEF PayableUnassigned, Status
  <2> QED
    BY <2>1, <2>2
<1>6. ASSUME NEW w \in Worker, Reject(w)
      PROVE \/ commission'[c] = commission[c]
            \/ /\ Reject(w) /\ c \in ClaimedBy(task[w].p) /\ Status(c)' = "PAYABLE"
               /\ commission'[c].payout = None
  <2>1. commission'[c] = IF c \in ClaimedBy(task[w].p) THEN [commission[c] EXCEPT !.payout = None]
                         ELSE commission[c]
    BY <1>6 DEF Reject
  <2> QED
    BY <1>0, <1>6, <2>1 DEF ClaimedBy, Status
<1>7. UNCHANGED commission => commission'[c] = commission[c]
  OBVIOUS
<1>8. ASSUME NEW w \in Worker, Refunds(w) PROVE UNCHANGED commission \/ CommitReversal(w)
  BY <1>8 DEF Refunds, ReadSale, BeginManual, BeginPart, CommitPart, AlreadyReversed,
              BeginRefundAll, MarkReversed
<1>9. ASSUME NEW w \in Worker, Payouts(w)
      PROVE UNCHANGED commission \/ ClaimPayout(w) \/ MarkPaid(w) \/ Reject(w)
  BY <1>9 DEF Payouts, BeginRequest, ReadPayable, ReadAdjustments, ReadPayout, Approve
<1>10. \/ UNCHANGED commission
       \/ \E d \in Commission : RecordCommission(d) \/ ReleaseHold(d)
       \/ \E w \in Worker : CommitReversal(w) \/ ClaimPayout(w) \/ MarkPaid(w) \/ Reject(w)
  BY <1>8, <1>9 DEF Next, vars, AdjustBalance, Abort
<1> QED
  BY <1>1, <1>2, <1>3, <1>4, <1>5, <1>6, <1>7, <1>10

\* A reversed commission stays so, and a recorded one stays recorded.
LEMMA StatusKept ==
    ASSUME TypeOK, [Next]_vars, NEW c \in Commission
    PROVE /\ Status(c) = "REVERSED" /\ IInv => Status(c)' = "REVERSED"
          /\ Status(c) # "NONE" => Status(c)' # "NONE"
<1>1. ASSUME IInv, Status(c) = "REVERSED" PROVE Status(c)' = "REVERSED"
  <2>1. CASE Next
    BY <1>1, <2>1, RowsMove DEF CommissionsMove, Status
  <2>2. CASE UNCHANGED vars
    BY <1>1, <2>2 DEF vars, Status
  <2> QED
    BY <2>1, <2>2
<1>2. ASSUME Status(c) # "NONE" PROVE Status(c)' # "NONE"
  <2>1. commission'[c] = commission[c] => Status(c)' = Status(c)
    BY DEF Status
  <2>2. commission'[c] = [status |-> "REVERSED", payout |-> None] => Status(c)' = "REVERSED"
    BY DEF Status
  <2> QED
    BY <1>2, <2>1, <2>2, StatusSteps
<1> QED
  BY <1>1, <1>2

LEMMA PartTaken ==
    ASSUME TypeOK, RowsTyped', NEW w \in Worker, CommitPart(w), NEW c, c = task[w].c
    PROVE LET delta == StillToTake(c, task[w].total, task[w].taken)
          IN  /\ c \in Commission /\ delta \in Int
              /\ task[w].found /\ delta > 0 =>
                    /\ TakenBack(c)' = TakenBack(c) + delta
                    /\ OnlyRefunds(c) => OnlyRefunds(c)'
              /\ ~ (task[w].found /\ delta > 0) => SameFor(c)
<1> DEFINE t == task[w]
           delta == StillToTake(c, t.total, t.taken)
           row == Adjustment(c, "REFUND", -delta)
<1>0. RowsTyped
  BY TypedRows
<1>1. c \in Commission /\ t.total \in Nat /\ t.taken \in Int
  BY TaskIs DEF TypeOK, CommitPart, Doing
<1>2. delta \in Int
  <2>1. ProportionalShare(CommissionAmount(c), t.total, Paid[c]) \in Int
    <3>1. CommissionAmount(c) \in Int /\ Paid[c] \in Nat \ {0}
      BY <1>1, CommissionAmountType, ReferralAssumption
    <3> QED
      BY <1>1, <3>1, ProportionalShareType
  <2> QED
    BY <1>1, <2>1 DEF StillToTake
<1>3. adjustments' = IF t.found /\ delta > 0 THEN Append(adjustments, row) ELSE adjustments
  BY DEF CommitPart
<1>4. row.c = c /\ row.kind = "REFUND" /\ row.amount = -delta
  BY DEF Adjustment
<1> HIDE DEF row, delta
<1>5. ASSUME t.found /\ delta > 0
      PROVE TakenBack(c)' = TakenBack(c) + delta /\ (OnlyRefunds(c) => OnlyRefunds(c)')
  <2>1. adjustments' = Append(adjustments, row)
    BY <1>3, <1>5
  <2>2. row.amount < 0
    BY <1>2, <1>4, <1>5
  <2>3. TakenBack(c)' = TakenBack(c) - row.amount /\ (OnlyRefunds(c) => OnlyRefunds(c)')
    BY <1>0, <1>4, <2>1, <2>2, AddedTo
  <2>4. TakenBack(c) \in Int
    BY <1>0, TakenBackType
  <2> QED
    BY <1>2, <1>4, <2>3, <2>4
<1>6. ASSUME ~ (t.found /\ delta > 0) PROVE SameFor(c)
  BY <1>0, <1>3, <1>6, SameRows
<1> QED
  BY <1>1, <1>2, <1>5, <1>6 DEF delta

LEMMA ReversalGiven ==
    ASSUME TypeOK, RowsTyped', NEW w \in Worker, CommitReversal(w), NEW c, c = task[w].c
    PROVE /\ c \in Commission
          /\ task[w].was = "PAID" => Given(c)' = Given(c) + (TakenBack(c) - CommissionAmount(c))
          /\ task[w].was # "PAID" /\ TakenBack(c) > 0 => Given(c)' = Given(c) + TakenBack(c)
          /\ task[w].was # "PAID" /\ ~ (TakenBack(c) > 0) => Given(c)' = Given(c)
<1> DEFINE n == TakenBack(c)
<1>0. RowsTyped
  BY TypedRows
<1>1. c \in Commission /\ n \in Int
  BY <1>0, TaskIs, TakenBackType DEF TypeOK, CommitReversal, Doing
<1>2. adjustments' = adjustments \o ReversalAdjustment(c, task[w].was, n)
  BY DEF CommitReversal
<1>3. (\A r : adjustments \o <<r>> = Append(adjustments, r)) /\ adjustments \o << >> = adjustments
  BY <1>0 DEF RowsTyped
<1>4. \A kind, m : Adjustment(c, kind, m).c = c /\ Adjustment(c, kind, m).amount = m
  BY DEF Adjustment
<1>5. ASSUME task[w].was = "PAID" PROVE Given(c)' = Given(c) + (n - CommissionAmount(c))
  <2> DEFINE r == Adjustment(c, "REFUND", n - CommissionAmount(c))
  <2>1. adjustments' = Append(adjustments, r)
    BY <1>2, <1>3, <1>5 DEF ReversalAdjustment
  <2>2. r.c = c /\ r.amount = n - CommissionAmount(c)
    BY <1>4
  <2> HIDE DEF r
  <2>3. Given(c)' = Given(c) + r.amount
    BY <1>0, <2>1, <2>2, AddedTo
  <2> QED
    BY <2>2, <2>3
<1>6. ASSUME task[w].was # "PAID", n > 0 PROVE Given(c)' = Given(c) + n
  <2> DEFINE r == Adjustment(c, "MANUAL", n)
  <2>1. adjustments' = Append(adjustments, r)
    BY <1>2, <1>3, <1>6 DEF ReversalAdjustment
  <2>2. r.c = c /\ r.amount = n
    BY <1>4
  <2> HIDE DEF r
  <2>3. Given(c)' = Given(c) + r.amount
    BY <1>0, <2>1, <2>2, AddedTo
  <2> QED
    BY <2>2, <2>3
<1>7. ASSUME task[w].was # "PAID", ~ (n > 0) PROVE Given(c)' = Given(c)
  <2>1. adjustments' = adjustments
    BY <1>2, <1>3, <1>7 DEF ReversalAdjustment
  <2> QED
    BY <1>0, <2>1, SameRows DEF SameFor
<1> QED
  BY <1>1, <1>5, <1>6, <1>7

LEMMA AdjustmentSteps ==
    ASSUME TypeOK, RowsTyped', [Next]_vars, NEW c \in Commission
    PROVE SameFor(c) \/ \E w \in Worker : (CommitPart(w) \/ CommitReversal(w)) /\ task[w].c = c
<1>0. RowsTyped
  BY TypedRows
<1>1. ASSUME UNCHANGED adjustments PROVE SameFor(c)
  BY <1>0, <1>1, SameRows
<1>2. ASSUME NEW r, r.c # c, adjustments' = Append(adjustments, r) PROVE SameFor(c)
  BY <1>0, <1>2, AddedTo
<1>3. ASSUME NEW amount, AdjustBalance(amount) PROVE SameFor(c)
  BY <1>2, <1>3, ReferralAssumption DEF AdjustBalance, Adjustment
<1>4. ASSUME NEW w \in Worker, CommitPart(w), task[w].c # c PROVE SameFor(c)
  <2>1. PICK n : \/ adjustments' = adjustments
                 \/ adjustments' = Append(adjustments, Adjustment(task[w].c, "REFUND", n))
    BY <1>4 DEF CommitPart
  <2>2. Adjustment(task[w].c, "REFUND", n).c # c
    BY <1>4 DEF Adjustment
  <2> QED
    BY <1>1, <1>2, <2>1, <2>2
<1>5. ASSUME NEW w \in Worker, CommitReversal(w), task[w].c # c PROVE SameFor(c)
  <2>1. (\A r : adjustments \o <<r>> = Append(adjustments, r)) /\ adjustments \o << >> = adjustments
    BY <1>0 DEF RowsTyped
  <2>2. PICK r : r.c # c /\ (adjustments' = adjustments \/ adjustments' = Append(adjustments, r))
    <3>1. \A kind, m : Adjustment(task[w].c, kind, m).c # c
      BY <1>5 DEF Adjustment
    <3> QED
      BY <1>5, <2>1, <3>1 DEF CommitReversal, ReversalAdjustment
  <2> QED
    BY <1>1, <1>2, <2>2
<1>6. ASSUME NEW I, NEW p, adjustments' = [i \in DOMAIN adjustments |->
                 IF i \in I THEN [adjustments[i] EXCEPT !.payout = p] ELSE adjustments[i]]
      PROVE SameFor(c)
  BY <1>0, <1>6, Reassigned, SameRows
<1>7. ASSUME NEW w \in Worker, ClaimPayout(w) PROVE SameFor(c)
  <2> DEFINE I == task[w].as \cap Unsettled
  <2>1. PICK p : adjustments' = [i \in DOMAIN adjustments |->
                     IF i \in I THEN [adjustments[i] EXCEPT !.payout = p] ELSE adjustments[i]]
    BY <1>7 DEF ClaimPayout
  <2> HIDE DEF I
  <2> QED
    BY <1>6, <2>1
<1>8. ASSUME NEW w \in Worker, Reject(w) PROVE SameFor(c)
  BY <1>6, <1>8 DEF Reject
<1> QED
  BY <1>1, <1>3, <1>4, <1>5, <1>7, <1>8
     DEF Next, vars, Refunds, Payouts, RecordCommission, ReleaseHold, Abort, ReadSale,
         BeginManual, BeginPart, AlreadyReversed, BeginRefundAll, MarkReversed, BeginRequest,
         ReadPayable, ReadAdjustments, ReadPayout, Approve, MarkPaid

LEMMA SaleSteps ==
    ASSUME TypeOK, [Next]_vars, NEW c \in Commission
    PROVE \/ sale'[c] = sale[c]
          \/ \E w \in Worker : /\ CommitPart(w) /\ task[w].c = c
                               /\ sale'[c].refunded = sale[c].refunded + task[w].part
          \/ \E w \in Worker : /\ AlreadyReversed(w) \/ CommitReversal(w)
                               /\ task[w].c = c /\ task[w].refund
                               /\ sale'[c].refunded = Paid[c]
<1>0. sale \in [Commission -> [refunded: Nat, ended: BOOLEAN]]
      /\ sale[c] \in [refunded: Nat, ended: BOOLEAN]
  BY DEF TypeOK
<1>1. ASSUME NEW w \in Worker, CommitPart(w)
      PROVE sale'[c] = sale[c] \/ (task[w].c = c /\ sale'[c].refunded = sale[c].refunded + task[w].part)
  <2>1. sale' = [sale EXCEPT ![task[w].c].refunded = @ + task[w].part]
    BY <1>1 DEF CommitPart
  <2> QED
    BY <1>0, <2>1
<1>2. ASSUME NEW w \in Worker, AlreadyReversed(w) \/ CommitReversal(w)
      PROVE sale'[c] = sale[c] \/ (task[w].c = c /\ task[w].refund /\ sale'[c].refunded = Paid[c])
  <2>1. sale' = EndedSale(task[w].c, task[w].refund)
    BY <1>2 DEF AlreadyReversed, CommitReversal
  <2> QED
    BY <1>0, <2>1 DEF EndedSale
<1>3. UNCHANGED sale => sale'[c] = sale[c]
  OBVIOUS
<1>4. \/ UNCHANGED sale
      \/ \E w \in Worker : CommitPart(w) \/ AlreadyReversed(w) \/ CommitReversal(w)
  BY DEF Next, vars, Refunds, Payouts, RecordCommission, ReleaseHold, AdjustBalance, Abort, ReadSale,
         BeginManual, BeginPart, BeginRefundAll, MarkReversed, BeginRequest, ReadPayable,
         ReadAdjustments, ClaimPayout, ReadPayout, Approve, MarkPaid, Reject
<1> QED
  BY <1>1, <1>2, <1>3, <1>4

-------------------------------------------------------------------------------
(***************************************************************************)
(* What the transactions have read.                                        *)
(***************************************************************************)
HoldsSale(t, c) ==
    \/ t.op = "part" /\ t.c = c
    \/ t.op \in {"reverse", "shrink"} /\ t.refund /\ t.c = c

\* Of one sale, one transaction at a time is past its first write.
Held ==
    \A v, w \in Worker : \A c \in Commission :
        HoldsSale(task[v], c) /\ HoldsSale(task[w], c) => v = w

SalesBounded == \A c \in Commission : sale[c].refunded <= Paid[c]

\* However transactions overlap, this much of what a transaction read is still so.
StillSo(t) ==
    /\ t.op \in {"refund", "part", "reverse", "shrink"} => Status(t.c) # "NONE"
    /\ t.op = "refund" => t.refunded <= sale[t.c].refunded
    /\ t.op = "part" =>
          /\ sale[t.c].refunded + t.part <= Paid[t.c]
          /\ t.total <= sale[t.c].refunded + t.part
          /\ Status(t.c) # "REVERSED" => t.found /\ t.taken = TakenBack(t.c)
    /\ t.op \in {"reverse", "shrink"} => (t.was = "REVERSED" => Status(t.c) = "REVERSED")
    /\ t.op = "shrink" => t.was # "REVERSED"

\* While transactions follow one another, so is the rest.
Fresh(t) ==
    /\ t.op = "refund" => t.refunded = sale[t.c].refunded
    /\ t.op = "part" => /\ t.total = sale[t.c].refunded + t.part
                        /\ Status(t.c) = "REVERSED" => ~t.found
    /\ t.op \in {"reverse", "shrink"} =>
          /\ Status(t.c) = "REVERSED" => t.was = "REVERSED"
          /\ t.was = "PAID" <=> Status(t.c) = "PAID"
          /\ t.open = None =>
                \A p \in Payout : payout[p].status \in OpenPayout => t.c \notin ClaimedBy(p)
          /\ t.open # None => t.c \in ClaimedBy(t.open) /\ payout[t.open].status \in OpenPayout
    /\ t.op = "shrink" /\ t.open # None => t.amount = payout[t.open].amount

\* A commission not yet earned is in no payout, a paid one in a paid payout.
Claims ==
    ~overlapped =>
        \A c \in Commission :
            /\ Status(c) \in {"NONE", "ON_HOLD"} => commission[c].payout = None
            /\ Status(c) = "PAID" => /\ commission[c].payout # None
                                     /\ payout[commission[c].payout].status = "PAID"

Tasks ==
    /\ \A w \in Worker : StillSo(task[w])
    /\ ~overlapped => \A w \in Worker : Fresh(task[w])

TInv == IInv /\ TypeOK /\ Held /\ SalesBounded /\ Tasks /\ Claims

-------------------------------------------------------------------------------
\* A step reads for a transaction, writes and ends it, or is of none.
Background ==
    \/ UNCHANGED vars
    \/ \E c \in Commission : RecordCommission(c) \/ ReleaseHold(c)
    \/ \E amount \in Manual : AdjustBalance(amount)
Reading(w) ==
    \/ \E c \in Commission : ReadSale(w, c) \/ BeginManual(w, c)
    \/ BeginPart(w) \/ BeginRefundAll(w) \/ MarkReversed(w)
    \/ BeginRequest(w) \/ ReadPayable(w) \/ ReadAdjustments(w)
    \/ \E p \in Payout : ReadPayout(w, p)
    \/ Abort(w)
Writing(w) ==
    \/ CommitPart(w) \/ AlreadyReversed(w) \/ CommitReversal(w)
    \/ ClaimPayout(w) \/ Approve(w) \/ MarkPaid(w) \/ Reject(w)

LEMMA Steps ==
    ASSUME [Next]_vars
    PROVE Background \/ \E w \in Worker : Reading(w) \/ Writing(w)
BY DEF Next, Refunds, Payouts, Background, Reading, Writing

LEMMA BackgroundLeaves ==
    ASSUME Background PROVE UNCHANGED <<sale, payout, task, paidOut, overlapped>>
BY DEF Background, vars, RecordCommission, ReleaseHold, AdjustBalance

LEMMA ReadingLeaves ==
    ASSUME NEW w \in Worker, Reading(w)
    PROVE UNCHANGED <<commission, sale, adjustments, payout, paidOut>>
BY DEF Reading, ReadSale, BeginManual, BeginPart, BeginRefundAll, MarkReversed, BeginRequest,
       ReadPayable, ReadAdjustments, ReadPayout, Abort

LEMMA WritingEnds ==
    ASSUME TypeOK, NEW w \in Worker, Writing(w)
    PROVE /\ task' = [task EXCEPT ![w] = Idle] /\ UNCHANGED overlapped
          /\ task[w] # Idle /\ task'[w] = Idle /\ \A v \in Worker \ {w} : task'[v] = task[v]
<1>1. Done(w) /\ task[w].op # "idle"
  BY DEF Writing, CommitPart, AlreadyReversed, CommitReversal, ClaimPayout, Approve, MarkPaid,
         Reject, Doing
<1> QED
  BY <1>1 DEF TypeOK, Done, Proceed, Idle

\* Overlapping is never forgotten.
LEMMA OverlapStays == ASSUME TypeOK, [Next]_vars PROVE overlapped => overlapped'
<1>1. ASSUME NEW w \in Worker, Reading(w) PROVE overlapped => overlapped'
  BY <1>1 DEF Reading, ReadSale, BeginManual, BeginPart, BeginRefundAll, MarkReversed, BeginRequest,
              ReadPayable, ReadAdjustments, ReadPayout, Abort, Begin, Proceed, Done
<1> QED
  BY <1>1, Steps, BackgroundLeaves, WritingEnds

-------------------------------------------------------------------------------
(***************************************************************************)
(* What the transactions not taking the step have read stays so.           *)
(***************************************************************************)
LEMMA SaleGrows ==
    ASSUME TInv, [Next]_vars, NEW c \in Commission
    PROVE /\ sale[c].refunded <= sale'[c].refunded /\ sale'[c].refunded <= Paid[c]
          /\ sale[c].refunded \in Nat /\ Paid[c] \in Nat
<1>1. sale[c].refunded \in Nat /\ Paid[c] \in Nat /\ sale[c].refunded <= Paid[c]
  BY ReferralAssumption DEF TInv, TypeOK, SalesBounded
<1>2. ASSUME NEW w \in Worker, CommitPart(w), task[w].c = c
      PROVE task[w].part \in Nat /\ sale[c].refunded + task[w].part <= Paid[c]
  BY <1>2, TaskIs DEF TInv, TypeOK, Tasks, StillSo, CommitPart, Doing
<1>3. TypeOK
  BY DEF TInv
<1> QED
  BY <1>1, <1>2, <1>3, SaleSteps

LEMMA KeptSo ==
    ASSUME TInv, [Next]_vars, NEW v \in Worker, task'[v] = task[v]
    PROVE StillSo(task[v])'
<1> DEFINE t == task[v]
           c == t.c
<1>0. TypeOK /\ IInv /\ Held /\ StillSo(t) /\ RowsTyped'
  BY AdjustmentsStayTyped DEF TInv, Tasks
<1>1. t.op \in {"refund", "part", "reverse", "shrink"} => c \in Commission
  BY <1>0, TaskOf
<1>2. ASSUME NEW w \in Worker, Writing(w) PROVE w # v \/ t.op = "idle"
  BY <1>0, <1>2, WritingEnds DEF Idle
<1>3. ASSUME t.op \in {"refund", "part", "reverse", "shrink"}
      PROVE Status(c)' # "NONE" /\ (Status(c) = "REVERSED" => Status(c)' = "REVERSED")
  BY <1>0, <1>1, <1>3, StatusKept DEF StillSo
<1>4. ASSUME t.op = "refund" PROVE t.refunded <= sale'[c].refunded
  <2>1. t.refunded \in Nat /\ t.refunded <= sale[c].refunded
    BY <1>0, <1>4, TaskIs DEF TypeOK, StillSo
  <2>2. sale[c].refunded \in Nat /\ sale'[c].refunded \in Nat
    BY <1>0, <1>1, <1>4, SalesTyped DEF TypeOK
  <2> QED
    BY <1>1, <1>4, <2>1, <2>2, SaleGrows
<1>5. ASSUME t.op = "part"
      PROVE /\ sale'[c].refunded = sale[c].refunded
            /\ Status(c)' # "REVERSED" => TakenBack(c)' = TakenBack(c)
  <2>1. c \in Commission /\ HoldsSale(t, c)
    BY <1>1, <1>5 DEF HoldsSale
  <2>2. ASSUME NEW w \in Worker, CommitPart(w), task[w].c = c PROVE FALSE
    <3>1. HoldsSale(task[w], c) /\ w # v
      BY <1>2, <1>5, <2>2 DEF HoldsSale, CommitPart, Doing, Writing
    <3> QED
      BY <1>0, <2>1, <3>1 DEF Held
  <2>3. ASSUME NEW w \in Worker, AlreadyReversed(w) \/ CommitReversal(w), task[w].c = c,
               task[w].refund
        PROVE FALSE
    <3>1. HoldsSale(task[w], c) /\ w # v
      BY <1>2, <1>5, <2>3 DEF HoldsSale, AlreadyReversed, CommitReversal, Doing, Writing
    <3> QED
      BY <1>0, <2>1, <3>1 DEF Held
  <2>4. ASSUME NEW w \in Worker, CommitReversal(w), task[w].c = c PROVE Status(c)' = "REVERSED"
    BY <1>0, <2>1, <2>4 DEF CommitReversal, Status, TypeOK
  <2> QED
    BY <1>0, <2>1, <2>2, <2>3, <2>4, SaleSteps, AdjustmentSteps DEF SameFor
<1>6. ASSUME t.op = "part"
      PROVE /\ sale'[c].refunded + t.part <= Paid[c]
            /\ t.total <= sale'[c].refunded + t.part
            /\ Status(c)' # "REVERSED" => t.found /\ t.taken = TakenBack(c)'
  BY <1>0, <1>3, <1>5, <1>6 DEF StillSo
<1>7. StillSo(t) => /\ t.op \in {"reverse", "shrink"} => (t.was = "REVERSED" => Status(c) = "REVERSED")
                    /\ t.op = "shrink" => t.was # "REVERSED"
  BY DEF StillSo
<1> QED
  BY <1>0, <1>3, <1>4, <1>6, <1>7 DEF StillSo

-------------------------------------------------------------------------------
(***************************************************************************)
(* What a transaction reads is so.                                         *)
(***************************************************************************)
ReadsWell(w, t) ==
    /\ task' = [task EXCEPT ![w] = t]
    /\ \A c \in Commission : HoldsSale(t, c) => HoldsSale(task[w], c) \/ ~SaleLocked(c)
    /\ StillSo(t)
    /\ ~overlapped' => Fresh(t)

LEMMA CommissionRead ==
    ASSUME TInv, NEW c \in Commission, NEW refund, Status(c) # "NONE"
    PROVE LET t == ReadCommission(c, refund)
          IN  /\ t.op = "reverse" /\ t.c = c /\ t.refund = refund
              /\ StillSo(t) /\ (~overlapped => Fresh(t))
<1> DEFINE t == ReadCommission(c, refund)
<1>1. t.op = "reverse" /\ t.c = c /\ t.refund = refund /\ t.was = Status(c)
  BY DEF ReadCommission, Status
<1>2. t.open = LET p == commission[c].payout IN
               IF p # None /\ payout[p].status \in OpenPayout THEN p ELSE None
  BY DEF ReadCommission
<1> HIDE DEF t
<1>3. StillSo(t)
  BY <1>1 DEF StillSo
<1>4. ASSUME ~overlapped PROVE Fresh(t)
  <2>1. Status(c) # "PAYABLE" => /\ commission[c].payout = None
                                 \/ payout[commission[c].payout].status \notin OpenPayout
    BY <1>4 DEF TInv, Claims, IInv, CommissionsOK, TypeOK, CommissionStatus, Status, OpenPayout
  <2>2. t.open # None => c \in ClaimedBy(t.open) /\ payout[t.open].status \in OpenPayout
    BY <1>2, <2>1 DEF ClaimedBy, Status
  <2>3. t.open = None => \A p \in Payout : payout[p].status \in OpenPayout => c \notin ClaimedBy(p)
    BY <1>2, ReferralAssumption DEF ClaimedBy
  <2> QED
    BY <1>1, <2>2, <2>3 DEF Fresh
<1> QED
  BY <1>1, <1>3, <1>4 DEF t

LEMMA ReadingReads == ASSUME TInv, NEW w \in Worker, Reading(w) PROVE \E t : ReadsWell(w, t)
<1>0. TypeOK /\ IInv /\ StillSo(task[w]) /\ (~overlapped => Fresh(task[w]))
  BY DEF TInv, Tasks
<1>1. ASSUME NEW t, t.op \notin {"refund", "part", "reverse", "shrink"},
             task' = [task EXCEPT ![w] = t]
      PROVE ReadsWell(w, t)
  BY <1>1 DEF ReadsWell, HoldsSale, StillSo, Fresh
<1>2. ASSUME NEW c \in Commission, ReadSale(w, c) PROVE \E t : ReadsWell(w, t)
  <2> DEFINE t == [op |-> "refund", c |-> c, refunded |-> sale[c].refunded]
  <2>1. task' = [task EXCEPT ![w] = t] /\ Status(c) # "NONE"
    BY <1>2 DEF ReadSale, Begin, Status
  <2>2. sale[c].refunded \in Nat
    BY <1>0 DEF TypeOK
  <2>3. StillSo(t) /\ Fresh(t) /\ \A d : ~HoldsSale(t, d)
    BY <2>1, <2>2 DEF StillSo, Fresh, HoldsSale
  <2> HIDE DEF t
  <2> QED
    BY <2>1, <2>3 DEF ReadsWell
<1>3. ASSUME NEW c \in Commission, BeginManual(w, c) PROVE \E t : ReadsWell(w, t)
  <2> DEFINE t == ReadCommission(c, FALSE)
  <2>1. /\ Status(c) # "NONE" /\ task' = [task EXCEPT ![w] = t]
        /\ ~overlapped' => ~overlapped
    BY <1>3 DEF BeginManual, Begin, Status
  <2>2. StillSo(t) /\ (~overlapped => Fresh(t)) /\ t.op = "reverse" /\ t.refund = FALSE
    BY <2>1, CommissionRead
  <2> HIDE DEF t
  <2>3. \A d : ~HoldsSale(t, d)
    BY <2>2 DEF HoldsSale
  <2> QED
    BY <2>1, <2>2, <2>3 DEF ReadsWell
<1>4. ASSUME BeginPart(w) PROVE \E t : ReadsWell(w, t)
  <2> DEFINE s == task[w]
             c == s.c
  <2>1. s.op = "refund" /\ c \in Commission /\ s.refunded \in Nat
    BY <1>0, <1>4, TaskIs DEF TypeOK, BeginPart, Doing
  <2>2. PICK part \in RefundParts :
          /\ sale[c].refunded + part <= Paid[c]
          /\ task' = [task EXCEPT ![w] = [op |-> "part", c |-> c, part |-> part,
                           total |-> s.refunded + part, taken |-> TakenBack(c),
                           found |-> commission[c].status # "REVERSED"]]
          /\ UNCHANGED overlapped /\ ~SaleLocked(c)
    BY <1>4 DEF BeginPart, Proceed
  <2> DEFINE t == [op |-> "part", c |-> c, part |-> part, total |-> s.refunded + part,
                   taken |-> TakenBack(c), found |-> commission[c].status # "REVERSED"]
  <2>3. /\ t.op = "part" /\ t.c = c /\ t.part = part /\ t.total = s.refunded + part
        /\ t.taken = TakenBack(c) /\ (t.found <=> Status(c) # "REVERSED")
    BY DEF Status
  <2>4. task' = [task EXCEPT ![w] = t]
    BY <2>2
  <2> HIDE DEF t
  <2>5. part \in Nat /\ sale[c].refunded \in Nat
    BY <1>0, <2>1, ReferralAssumption DEF TypeOK
  <2>6. /\ Status(c) # "NONE" /\ s.refunded <= sale[c].refunded
        /\ ~overlapped => s.refunded = sale[c].refunded
    BY <1>0, <2>1 DEF StillSo, Fresh
  <2>7. /\ s.refunded + part <= sale[c].refunded + part
        /\ ~overlapped => s.refunded + part = sale[c].refunded + part
    BY <2>1, <2>5, <2>6
  <2> HIDE DEF c
  <2>8. StillSo(t)
    BY <2>2, <2>3, <2>6, <2>7 DEF StillSo
  <2>9. ~overlapped => Fresh(t)
    BY <2>3, <2>7 DEF Fresh
  <2>10. \A d : HoldsSale(t, d) => d = c
    BY <2>3 DEF HoldsSale
  <2> QED
    BY <2>2, <2>4, <2>8, <2>9, <2>10 DEF ReadsWell
<1>5. ASSUME BeginRefundAll(w) PROVE \E t : ReadsWell(w, t)
  <2> DEFINE c == task[w].c
             t == ReadCommission(c, TRUE)
  <2>1. task[w].op = "refund" /\ c \in Commission
    BY <1>0, <1>5, TaskIs DEF TypeOK, BeginRefundAll, Doing
  <2>2. Status(c) # "NONE" /\ task' = [task EXCEPT ![w] = t] /\ UNCHANGED overlapped /\ ~SaleLocked(c)
    BY <1>0, <1>5, <2>1 DEF StillSo, BeginRefundAll, Proceed
  <2> HIDE DEF c
  <2>3. StillSo(t) /\ (~overlapped => Fresh(t)) /\ t.op = "reverse" /\ t.c = c
    <3>1. c \in Commission /\ Status(c) # "NONE"
      BY <2>1, <2>2
    <3> QED
      BY <3>1, CommissionRead, Zenon
  <2> HIDE DEF t
  <2>4. \A d : HoldsSale(t, d) => d = c
    BY <2>3 DEF HoldsSale
  <2> QED
    BY <2>2, <2>3, <2>4 DEF ReadsWell
<1>6. ASSUME MarkReversed(w) PROVE \E t : ReadsWell(w, t)
  <2> DEFINE s == task[w]
             n == IF s.open = None THEN 0 ELSE payout[s.open].amount
             t == [op |-> "shrink", c |-> s.c, refund |-> s.refund, was |-> s.was,
                   open |-> s.open, amount |-> n]
  <2>1. s.op = "reverse" /\ s.was # "REVERSED"
    BY <1>6 DEF MarkReversed, Doing
  <2>2. task' = [task EXCEPT ![w] = t] /\ UNCHANGED overlapped
    BY <1>6 DEF MarkReversed, Proceed
  <2>3. /\ t.op = "shrink" /\ t.c = s.c /\ t.refund = s.refund /\ t.was = s.was
        /\ t.open = s.open /\ (s.open # None => t.amount = payout[s.open].amount)
    OBVIOUS
  <2> HIDE DEF t
  <2>4. StillSo(t)
    BY <1>0, <2>1, <2>3 DEF StillSo
  <2>5. Fresh(s) => Fresh(t)
    BY <2>1, <2>3 DEF Fresh
  <2>6. \A d : HoldsSale(t, d) => HoldsSale(s, d)
    BY <2>1, <2>3 DEF HoldsSale
  <2> QED
    BY <1>0, <2>2, <2>4, <2>5, <2>6 DEF ReadsWell
<1>7. ASSUME BeginRequest(w) \/ ReadPayable(w) \/ ReadAdjustments(w) \/ Abort(w)
             \/ \E p \in Payout : ReadPayout(w, p)
      PROVE \E t : ReadsWell(w, t)
  <2>1. \E t : t.op \notin {"refund", "part", "reverse", "shrink"} /\ task' = [task EXCEPT ![w] = t]
    BY <1>7 DEF BeginRequest, ReadPayable, ReadAdjustments, Abort, ReadPayout, Begin, Proceed,
                Done, Idle
  <2> QED
    BY <1>1, <2>1
<1> QED
  BY <1>2, <1>3, <1>4, <1>5, <1>6, <1>7 DEF Reading

-------------------------------------------------------------------------------
LEMMA HeldStep == ASSUME TInv, [Next]_vars PROVE Held'
<1>0. task \in [Worker -> Task] /\ Held
  BY DEF TInv, TypeOK
<1>1. UNCHANGED task => Held'
  BY <1>0 DEF Held, HoldsSale
<1>2. ASSUME NEW w \in Worker, Writing(w) PROVE Held'
  <2>1. \A c : ~HoldsSale(Idle, c)
    BY DEF HoldsSale, Idle
  <2> QED
    BY <1>0, <1>2, <2>1, WritingEnds DEF TInv, Held, HoldsSale
<1>3. ASSUME NEW w \in Worker, NEW t, ReadsWell(w, t) PROVE Held'
  <2>1. \A v \in Worker : task'[v] = IF v = w THEN t ELSE task[v]
    BY <1>0, <1>3 DEF ReadsWell
  <2>2. ASSUME NEW c \in Commission, NEW v \in Worker, HoldsSale(t, c), HoldsSale(task[v], c)
        PROVE v = w
    <3>1. SaleLocked(c)
      BY <2>2 DEF SaleLocked, HoldsSale, Doing
    <3> QED
      BY <1>0, <1>3, <2>2, <3>1 DEF ReadsWell, Held
  <2> SUFFICES ASSUME NEW u \in Worker, NEW v \in Worker, NEW c \in Commission,
                      HoldsSale(task'[u], c), HoldsSale(task'[v], c)
               PROVE u = v
    BY DEF Held, HoldsSale
  <2> QED
    BY <1>0, <2>1, <2>2 DEF Held
<1> QED
  BY <1>1, <1>2, <1>3, Steps, BackgroundLeaves, ReadingReads

LEMMA StillSoStep == ASSUME TInv, [Next]_vars PROVE \A w \in Worker : StillSo(task[w])'
<1>0. task \in [Worker -> Task] /\ TypeOK
  BY DEF TInv, TypeOK
<1>1. UNCHANGED task => \A w \in Worker : StillSo(task[w])'
  BY KeptSo
<1>2. ASSUME NEW w \in Worker, Writing(w) PROVE \A v \in Worker : StillSo(task[v])'
  <2>1. StillSo(task[w])'
    BY <1>0, <1>2, WritingEnds DEF StillSo, Idle
  <2>2. \A v \in Worker \ {w} : StillSo(task[v])'
    BY <1>0, <1>2, WritingEnds, KeptSo
  <2> QED
    BY <2>1, <2>2
<1>3. ASSUME NEW w \in Worker, Reading(w), NEW t, ReadsWell(w, t)
      PROVE \A v \in Worker : StillSo(task[v])'
  <2>1. \A v \in Worker : task'[v] = IF v = w THEN t ELSE task[v]
    BY <1>0, <1>3 DEF ReadsWell
  <2>2. StillSo(task[w])'
    BY <1>3, <2>1, ReadingLeaves DEF ReadsWell, StillSo, Status, TakenBack, SumAdjustments
  <2>3. \A v \in Worker \ {w} : StillSo(task[v])'
    BY <2>1, KeptSo
  <2> QED
    BY <2>2, <2>3
<1> QED
  BY <1>1, <1>2, <1>3, Steps, BackgroundLeaves, ReadingReads

LEMMA BackgroundKeeps ==
    ASSUME TInv, [Next]_vars, Background, ~overlapped
    PROVE /\ \A c \in Commission :
                /\ Status(c)' = "REVERSED" <=> Status(c) = "REVERSED"
                /\ Status(c)' = "PAID" <=> Status(c) = "PAID"
          /\ \A p \in Payout : ClaimedBy(p)' = ClaimedBy(p)
<1>0. TypeOK
  BY DEF TInv
<1>1. ASSUME NEW c \in Commission
      PROVE \/ commission'[c] = commission[c]
            \/ /\ Status(c) \in {"NONE", "ON_HOLD"} /\ Status(c)' \in {"ON_HOLD", "PAYABLE"}
               /\ commission'[c].payout = commission[c].payout
  <2>1. ASSUME NEW w \in Worker, Writing(w) PROVE FALSE
    BY <1>0, <2>1, WritingEnds, BackgroundLeaves
  <2>2. \A w \in Worker : ~MarkPaid(w) /\ ~CommitReversal(w) /\ ~ClaimPayout(w) /\ ~Reject(w)
    BY <2>1 DEF Writing
  <2> QED
    BY <1>0, <2>2, StatusSteps
<1>2. \A c \in Commission : Status(c) \in {"NONE", "ON_HOLD"} => commission[c].payout = None
  BY DEF TInv, Claims
<1>3. ASSUME NEW c \in Commission
      PROVE /\ Status(c)' = "REVERSED" <=> Status(c) = "REVERSED"
            /\ Status(c)' = "PAID" <=> Status(c) = "PAID"
            /\ \A p \in Payout : /\ commission'[c].payout = p /\ commission'[c].status = "PAYABLE"
                                 <=> commission[c].payout = p /\ commission[c].status = "PAYABLE"
  BY <1>1, <1>2, ReferralAssumption DEF Status
<1> QED
  BY <1>3 DEF ClaimedBy

LEMMA FreshStep ==
    ASSUME TInv, [Next]_vars, ~overlapped' PROVE \A w \in Worker : Fresh(task[w])'
<1>0. /\ TypeOK /\ ~overlapped /\ \A w \in Worker : Fresh(task[w])
      /\ \A v, w \in Worker : task[v] # Idle /\ task[w] # Idle => v = w
  BY OverlapStays DEF TInv, Tasks, IInv, OneByOne
<1>1. ASSUME Background PROVE \A w \in Worker : Fresh(task[w])'
  <2> SUFFICES ASSUME NEW w \in Worker PROVE Fresh(task[w])'
    OBVIOUS
  <2> DEFINE t == task[w]
  <2>1. UNCHANGED <<sale, payout, task>>
    BY <1>1, BackgroundLeaves
  <2>2. t.op \in {"refund", "part", "reverse", "shrink"} => t.c \in Commission
    BY <1>0, TaskOf
  <2>3. t.op \in {"reverse", "shrink"} => t.open \in Payout \cup {None}
    BY <1>0, TaskIs DEF TypeOK
  <2> QED
    BY <1>0, <1>1, <2>1, <2>2, <2>3, BackgroundKeeps DEF Fresh
<1>2. ASSUME NEW w \in Worker, Writing(w) PROVE \A v \in Worker : Fresh(task[v])'
  <2>1. \A v \in Worker : task'[v] = Idle
    BY <1>0, <1>2, WritingEnds
  <2> QED
    BY <2>1 DEF Fresh, Idle
<1>3. ASSUME NEW w \in Worker, Reading(w), NEW t, ReadsWell(w, t)
      PROVE \A v \in Worker : Fresh(task[v])'
  <2>1. \A v \in Worker : task'[v] = IF v = w THEN t ELSE task[v]
    BY <1>0, <1>3 DEF ReadsWell, TypeOK
  <2>2. \A v \in Worker : Fresh(task'[v])
    BY <1>0, <1>3, <2>1 DEF ReadsWell
  <2>3. UNCHANGED <<commission, sale, payout>>
    BY <1>3, ReadingLeaves
  <2> QED
    BY <2>2, <2>3 DEF Fresh, Status, ClaimedBy
<1> QED
  BY <1>1, <1>2, <1>3, Steps, ReadingReads

LEMMA ClaimsStep == ASSUME TInv, [Next]_vars PROVE Claims'
<1> SUFFICES ASSUME ~overlapped', NEW c \in Commission
             PROVE /\ Status(c)' \in {"NONE", "ON_HOLD"} => commission'[c].payout = None
                   /\ Status(c)' = "PAID" => /\ commission'[c].payout # None
                                             /\ payout'[commission'[c].payout].status = "PAID"
  BY DEF Claims, Status
<1>0. /\ TypeOK /\ IInv /\ ~overlapped
      /\ Status(c) \in {"NONE", "ON_HOLD"} => commission[c].payout = None
      /\ Status(c) = "PAID" => /\ commission[c].payout # None
                               /\ payout[commission[c].payout].status = "PAID"
  BY OverlapStays DEF TInv, Claims
<1>1. ASSUME commission'[c] = commission[c], Status(c)' = "PAID"
      PROVE payout'[commission'[c].payout].status = "PAID"
  <2>1. Status(c) = "PAID" /\ commission[c].payout \in Payout
    BY <1>0, <1>1 DEF Status, TypeOK
  <2>2. CASE Next
    BY <1>0, <1>1, <2>1, <2>2, ClosedPayouts
  <2>3. CASE UNCHANGED vars
    BY <1>0, <2>1, <2>3 DEF vars
  <2> QED
    BY <2>2, <2>3
<1>2. ASSUME NEW w \in Worker, MarkPaid(w), c \in ClaimedBy(task[w].p),
             commission'[c].payout = commission[c].payout
      PROVE commission'[c].payout # None /\ payout'[commission'[c].payout].status = "PAID"
  <2>1. task[w].p \in Payout /\ commission'[c].payout = task[w].p
    BY <1>0, <1>2, TaskIs DEF TypeOK, MarkPaid, Doing, ClaimedBy
  <2>2. payout' = [payout EXCEPT ![task[w].p].status = "PAID"]
    BY <1>2 DEF MarkPaid
  <2>3. payout[task[w].p] \in PayoutRow(Nat) /\ payout \in [Payout -> PayoutRow(Nat)]
    BY <1>0, <2>1 DEF TypeOK, PayoutRow
  <2>4. payout'[task[w].p].status = "PAID"
    BY <2>1, <2>2, <2>3 DEF PayoutRow
  <2> QED
    BY <2>1, <2>4, ReferralAssumption
<1>3. commission'[c] = [status |-> "REVERSED", payout |-> None] => Status(c)' = "REVERSED"
  BY DEF Status
<1>4. commission'[c] = commission[c] => Status(c)' = Status(c)
  BY DEF Status
<1> QED
  BY <1>0, <1>1, <1>2, <1>3, <1>4, StatusSteps

LEMMA InitTInv == Init => Held /\ SalesBounded /\ Tasks /\ Claims
<1> SUFFICES ASSUME Init PROVE Held /\ SalesBounded /\ Tasks /\ Claims
  OBVIOUS
<1>1. \A w \in Worker : task[w] = Idle
  BY DEF Init
<1>2. Held /\ Tasks
  BY <1>1 DEF Held, Tasks, HoldsSale, StillSo, Fresh, Idle
<1>3. SalesBounded /\ Claims
  <2>1. \A c \in Commission : Paid[c] \in Nat /\ sale[c].refunded = 0
    BY ReferralAssumption DEF Init
  <2> QED
    BY <2>1 DEF Init, SalesBounded, Claims, Status
<1> QED
  BY <1>2, <1>3

LEMMA StepTInv == TInv /\ IInv' /\ TypeOK' /\ [Next]_vars => TInv'
<1> SUFFICES ASSUME TInv, IInv', TypeOK', [Next]_vars PROVE TInv'
  OBVIOUS
<1>1. SalesBounded'
  BY SaleGrows DEF SalesBounded
<1>2. Tasks'
  BY StillSoStep, FreshStep DEF Tasks
<1> QED
  BY <1>1, <1>2, HeldStep, ClaimsStep DEF TInv

\* What a transaction has read that cannot have changed since, and what has not while
\* transactions follow one another.
THEOREM ReadsHold == Spec => []TInv
<1>1. IInv /\ TypeOK /\ Init => TInv
  BY InitTInv DEF TInv
<1> QED
  BY <1>1, StepTInv, Invariant, TypeCorrect, PTL DEF Spec

-------------------------------------------------------------------------------
(***************************************************************************)
(* Part-refunds and reversals.                                             *)
(***************************************************************************)
Share(c, refunded) == ProportionalShare(CommissionAmount(c), refunded, Paid[c])

\* Only part-refunds are taken off a commission that is not reversed, and it was paid out
\* when its status says so.
Earned ==
    \A c \in Commission : Status(c) # "REVERSED" =>
        /\ OnlyRefunds(c)
        /\ paidOut[c] # {} <=> Status(c) = "PAID"

Taken ==
    \A c \in Commission : Status(c) # "REVERSED" =>
        /\ TakenBack(c) <= Share(c, sale[c].refunded)
        /\ ~overlapped => TakenBack(c) = Share(c, sale[c].refunded)

Netted ==
    ~overlapped => \A c \in Commission : Status(c) = "REVERSED" =>
        Given(c) + (IF paidOut[c] # {} THEN CommissionAmount(c) ELSE 0) = 0

EInv == TInv /\ Earned /\ Taken /\ Netted

LEMMA ShareType ==
    ASSUME NEW c \in Commission, NEW m \in Nat, NEW n \in Nat, m <= n
    PROVE  /\ Share(c, m) \in Nat /\ Share(c, n) \in Nat /\ Share(c, m) <= Share(c, n)
           /\ Share(c, 0) = 0
<1>1. CommissionAmount(c) \in Nat /\ Paid[c] \in Nat \ {0}
  BY CommissionAmountType, ReferralAssumption
<1>2. Share(c, m) \in 0..CommissionAmount(c) /\ Share(c, n) \in 0..CommissionAmount(c)
  BY <1>1, ShareBounds DEF Share
<1>3. Share(c, m) <= Share(c, n) /\ Share(c, 0) = 0
  BY <1>1, ShareMonotone, ZeroShare DEF Share
<1> QED
  BY <1>1, <1>2, <1>3

LEMMA PaidOutSteps ==
    ASSUME TypeOK, [Next]_vars, NEW c \in Commission
    PROVE \/ paidOut'[c] = paidOut[c] /\ (Status(c)' = "PAID" => Status(c) = "PAID")
          \/ \E w \in Worker : /\ MarkPaid(w) /\ c \in ClaimedBy(task[w].p)
                               /\ paidOut'[c] = paidOut[c] \cup {task[w].p}
                               /\ Status(c) = "PAYABLE" /\ Status(c)' = "PAID"
<1>0. commission[c] \in CommissionRow /\ CommissionRow # {}
  BY DEF TypeOK, CommissionRow
<1>1. ASSUME NEW w \in Worker, MarkPaid(w), c \in ClaimedBy(task[w].p)
      PROVE /\ paidOut'[c] = paidOut[c] \cup {task[w].p}
            /\ Status(c) = "PAYABLE" /\ Status(c)' = "PAID"
  <2>1. commission'[c] = [commission[c] EXCEPT !.status = "PAID"]
        /\ paidOut'[c] = paidOut[c] \cup {task[w].p}
    BY <1>1 DEF MarkPaid
  <2> QED
    BY <1>0, <1>1, <2>1 DEF CommissionRow, ClaimedBy, Status
<1>2. ASSUME \A w \in Worker : MarkPaid(w) => c \notin ClaimedBy(task[w].p)
      PROVE /\ paidOut'[c] = paidOut[c]
            /\ Status(c)' = "PAID" => Status(c) = "PAID"
  <2>1. ASSUME NEW w \in Worker, MarkPaid(w) PROVE paidOut'[c] = paidOut[c]
    BY <1>2, <2>1 DEF MarkPaid
  <2>2. UNCHANGED paidOut \/ \E w \in Worker : MarkPaid(w)
    BY DEF Next, vars, Refunds, Payouts, RecordCommission, ReleaseHold, AdjustBalance, Abort,
           ReadSale, BeginManual, BeginPart, CommitPart, AlreadyReversed, BeginRefundAll,
           MarkReversed, CommitReversal, BeginRequest, ReadPayable, ReadAdjustments, ClaimPayout,
           ReadPayout, Approve, Reject
  <2>3. /\ commission'[c] = commission[c] => Status(c)' = Status(c)
        /\ commission'[c] = [status |-> "REVERSED", payout |-> None] => Status(c)' = "REVERSED"
    BY DEF Status
  <2> QED
    BY <1>2, <2>1, <2>2, <2>3, StatusSteps
<1> QED
  BY <1>1, <1>2

\* A step that leaves a commission unreversed reverses neither it nor its adjustments.
LEMMA ReversalReverses ==
    ASSUME TInv, NEW w \in Worker, CommitReversal(w), NEW c, task[w].c = c
    PROVE c \in Commission /\ Status(c)' = "REVERSED"
<1>1. c \in Commission /\ commission \in [Commission -> CommissionRow]
  BY TaskOf DEF TInv, CommitReversal, Doing, TypeOK, CommissionRow
<1> QED
  BY <1>1 DEF CommitReversal, Status

LEMMA EarnedStep == ASSUME TInv, Earned, [Next]_vars PROVE Earned'
<1> SUFFICES ASSUME NEW c \in Commission, Status(c)' # "REVERSED"
             PROVE /\ OnlyRefunds(c)'
                   /\ paidOut'[c] # {} <=> Status(c)' = "PAID"
  BY DEF Earned
<1>0. TypeOK /\ IInv /\ RowsTyped'
  BY AdjustmentsStayTyped DEF TInv
<1>1. Status(c) # "REVERSED" /\ OnlyRefunds(c) /\ (paidOut[c] # {} <=> Status(c) = "PAID")
  BY <1>0, StatusKept DEF Earned
<1>2. OnlyRefunds(c)'
  <2>1. ASSUME NEW w \in Worker, CommitPart(w), task[w].c = c PROVE OnlyRefunds(c)'
    BY <1>0, <1>1, <2>1, PartTaken DEF SameFor
  <2>2. ASSUME NEW w \in Worker, CommitReversal(w), task[w].c = c PROVE FALSE
    BY <2>2, ReversalReverses
  <2> QED
    BY <1>0, <1>1, <2>1, <2>2, AdjustmentSteps DEF SameFor
<1>3. Status(c) = "PAID" => Status(c)' = "PAID"
  <2>1. CASE Next
    BY <1>0, <2>1, RowsMove DEF CommissionsMove, Status
  <2>2. CASE UNCHANGED vars
    BY <2>2 DEF vars, Status
  <2> QED
    BY <2>1, <2>2
<1> QED
  BY <1>0, <1>1, <1>2, <1>3, PaidOutSteps

LEMMA TakenStep == ASSUME TInv, Taken, [Next]_vars PROVE Taken'
<1> SUFFICES ASSUME NEW c \in Commission, Status(c)' # "REVERSED"
             PROVE /\ TakenBack(c)' <= Share(c, sale'[c].refunded)
                   /\ ~overlapped' => TakenBack(c)' = Share(c, sale'[c].refunded)
  BY DEF Taken, Share
<1>0. TypeOK /\ IInv /\ RowsTyped /\ RowsTyped' /\ (~overlapped' => ~overlapped)
  BY AdjustmentsStayTyped, TypedRows, OverlapStays DEF TInv
<1>1. /\ Status(c) # "REVERSED"
      /\ TakenBack(c) <= Share(c, sale[c].refunded)
      /\ ~overlapped => TakenBack(c) = Share(c, sale[c].refunded)
  BY <1>0, StatusKept DEF Taken
<1>2. ASSUME NEW w \in Worker, CommitPart(w), task[w].c = c
      PROVE /\ TakenBack(c)' <= Share(c, sale'[c].refunded)
            /\ ~overlapped' => TakenBack(c)' = Share(c, sale'[c].refunded)
  <2> DEFINE t == task[w]
             r == sale[c].refunded
             q == sale'[c].refunded
             delta == StillToTake(c, t.total, t.taken)
  <2>1. t.part \in Nat /\ t.total \in Nat /\ r \in Nat
    BY <1>0, <1>2, TaskIs DEF TypeOK, CommitPart, Doing
  <2>2. q = r + t.part
    <3>1. sale' = [sale EXCEPT ![c].refunded = @ + t.part]
      BY <1>2 DEF CommitPart
    <3> QED
      BY <1>0, <3>1 DEF TypeOK
  <2>3. /\ t.total <= r + t.part /\ t.found /\ t.taken = TakenBack(c)
        /\ ~overlapped => t.total = r + t.part
    BY <1>1, <1>2 DEF TInv, Tasks, StillSo, Fresh, CommitPart, Doing
  <2>4. delta = Share(c, t.total) - TakenBack(c)
    BY <2>3 DEF StillToTake, Share
  <2>5. /\ delta \in Int
        /\ delta > 0 => TakenBack(c)' = TakenBack(c) + delta
        /\ ~(delta > 0) => TakenBack(c)' = TakenBack(c)
    BY <1>0, <1>2, <2>3, PartTaken DEF SameFor
  <2>6. q \in Nat /\ r <= q /\ t.total <= q
    BY <2>1, <2>2, <2>3
  <2> HIDE DEF delta, q, r, t
  <2>7. /\ Share(c, t.total) \in Nat /\ Share(c, r) \in Nat /\ Share(c, q) \in Nat
        /\ Share(c, t.total) <= Share(c, q) /\ Share(c, r) <= Share(c, q)
    BY <2>1, <2>6, ShareType
  <2>8. TakenBack(c) \in Int /\ TakenBack(c) <= Share(c, r)
        /\ (~overlapped => TakenBack(c) = Share(c, r))
    BY <1>0, <1>1, TakenBackType DEF r
  <2>9. TakenBack(c)' <= Share(c, q)
    BY <2>4, <2>5, <2>7, <2>8
  <2>10. ASSUME ~overlapped' PROVE TakenBack(c)' = Share(c, q)
    <3>1. t.total = q
      BY <1>0, <2>2, <2>3, <2>10
    <3>2. TakenBack(c) = Share(c, r)
      BY <1>0, <2>8, <2>10
    <3> QED
      BY <2>4, <2>5, <2>7, <2>8, <3>1, <3>2
  <2> QED
    BY <2>9, <2>10 DEF q
<1>3. ASSUME NEW w \in Worker, CommitReversal(w), task[w].c = c PROVE FALSE
  BY <1>3, ReversalReverses
<1>4. ASSUME NEW w \in Worker, AlreadyReversed(w), task[w].c = c PROVE FALSE
  BY <1>1, <1>4 DEF TInv, Tasks, StillSo, AlreadyReversed, Doing
<1>5. ASSUME \A w \in Worker : ~(CommitPart(w) /\ task[w].c = c)
      PROVE /\ TakenBack(c)' <= Share(c, sale'[c].refunded)
            /\ ~overlapped' => TakenBack(c)' = Share(c, sale'[c].refunded)
  <2>1. sale'[c] = sale[c]
    BY <1>0, <1>3, <1>4, <1>5, SaleSteps
  <2>2. TakenBack(c)' = TakenBack(c)
    BY <1>0, <1>3, <1>5, AdjustmentSteps DEF SameFor
  <2> QED
    BY <1>0, <1>1, <2>1, <2>2
<1> QED
  BY <1>2, <1>5

LEMMA NettedStep == ASSUME EInv, [Next]_vars PROVE Netted'
<1> SUFFICES ASSUME ~overlapped', NEW c \in Commission, Status(c)' = "REVERSED"
             PROVE Given(c)' + (IF paidOut'[c] # {} THEN CommissionAmount(c) ELSE 0) = 0
  BY DEF Netted
<1>0. /\ TInv /\ TypeOK /\ IInv /\ RowsTyped /\ RowsTyped' /\ ~overlapped
      /\ \A w \in Worker : Fresh(task[w]) /\ StillSo(task[w])
  BY AdjustmentsStayTyped, TypedRows, OverlapStays DEF EInv, TInv, Tasks
<1>1. paidOut'[c] = paidOut[c]
  BY <1>0, PaidOutSteps
<1>2. ASSUME Status(c) = "REVERSED"
      PROVE Given(c)' = Given(c)
  <2>1. ASSUME NEW w \in Worker, CommitPart(w), task[w].c = c PROVE Given(c)' = Given(c)
    <3>1. ~task[w].found
      BY <1>0, <1>2, <2>1 DEF Fresh, CommitPart, Doing
    <3> QED
      BY <1>0, <2>1, <3>1, PartTaken DEF SameFor
  <2>2. ASSUME NEW w \in Worker, CommitReversal(w), task[w].c = c PROVE FALSE
    BY <1>0, <1>2, <2>2 DEF Fresh, StillSo, CommitReversal, Doing
  <2> QED
    BY <1>0, <2>1, <2>2, AdjustmentSteps DEF SameFor
<1>3. ASSUME Status(c) # "REVERSED"
      PROVE Given(c)' + (IF paidOut[c] # {} THEN CommissionAmount(c) ELSE 0) = 0
  <2>1. PICK w \in Worker : CommitReversal(w) /\ task[w].c = c
    <3>1. commission'[c] = commission[c] => Status(c)' = Status(c)
      BY DEF Status
    <3> QED
      BY <1>0, <1>3, <3>1, StatusSteps
  <2>2. task[w].was = "PAID" <=> paidOut[c] # {}
    BY <1>0, <1>3, <2>1 DEF Fresh, EInv, Earned, CommitReversal, Doing
  <2>3. Given(c) = - TakenBack(c) /\ TakenBack(c) \in Nat /\ CommissionAmount(c) \in Nat
    <3>1. OnlyRefunds(c) /\ TakenBack(c) = Share(c, sale[c].refunded)
      BY <1>0, <1>3 DEF EInv, Earned, Taken
    <3>2. sale[c].refunded \in Nat /\ sale[c].refunded <= sale[c].refunded
      BY <1>0 DEF TypeOK
    <3>3. Share(c, sale[c].refunded) \in Nat
      BY <3>2, ShareType
    <3> QED
      BY <1>0, <3>1, <3>3, TakenBackIs, CommissionAmountType
  <2>4. /\ task[w].was = "PAID" => Given(c)' = Given(c) + (TakenBack(c) - CommissionAmount(c))
        /\ task[w].was # "PAID" /\ TakenBack(c) > 0 => Given(c)' = Given(c) + TakenBack(c)
        /\ task[w].was # "PAID" /\ ~ (TakenBack(c) > 0) => Given(c)' = Given(c)
    BY <1>0, <2>1, ReversalGiven
  <2> QED
    BY <2>2, <2>3, <2>4
<1> QED
  BY <1>0, <1>1, <1>2, <1>3 DEF EInv, Netted

LEMMA InitEInv == Init => Earned /\ Taken /\ Netted
<1> SUFFICES ASSUME Init, NEW c \in Commission
             PROVE /\ Status(c) # "REVERSED" /\ OnlyRefunds(c) /\ paidOut[c] = {}
                   /\ Status(c) # "PAID" /\ TakenBack(c) = 0 /\ Share(c, sale[c].refunded) = 0
  BY DEF Earned, Taken, Netted
<1>1. Status(c) = "NONE" /\ paidOut[c] = {} /\ sale[c].refunded = 0 /\ adjustments = << >>
  BY DEF Init, Status
<1>2. NamedBy(c) = {} /\ RefundsOf(c) = {} /\ RowsTyped
  BY <1>1 DEF NamedBy, RefundsOf, RowsTyped
<1>3. SumOver(AmountOf, RefundsOf(c)) = 0
  BY <1>2, SumEmpty
<1>4. /\ TakenBack(c) = - SumOver(AmountOf, RefundsOf(c))
      /\ TakenBack(c) \in Int /\ SumOver(AmountOf, RefundsOf(c)) \in Int
  BY <1>2, TakenBackIs
<1>5. Share(c, 0) = 0
  <2>1. 0 \in Nat /\ 0 <= 0
    OBVIOUS
  <2> QED
    BY <2>1, ShareType
<1>6. TakenBack(c) = 0
  <2>1. TakenBack(c) \in Int /\ TakenBack(c) + SumOver(AmountOf, RefundsOf(c)) = 0
    BY <1>4
  <2> QED
    BY <1>3, <2>1
<1> QED
  BY <1>1, <1>2, <1>5, <1>6 DEF OnlyRefunds

\* The invariant behind the two theorems on part-refunds and reversals.
THEOREM EarnedInvariant == Spec => []EInv
<1>1. TInv /\ Init => EInv
  BY InitEInv DEF EInv
<1>2. EInv /\ TInv' /\ [Next]_vars => EInv'
  BY EarnedStep, TakenStep, NettedStep DEF EInv
<1> QED
  BY <1>1, <1>2, ReadsHold, PTL DEF Spec

\* What part-refunds took off a commission is never more than the share of it that went
\* back of the sale, also when several are decided from one stale amount, and exactly
\* that share when they follow one another (reduceCommissionForPartialRefund).
THEOREM PartsTakeTheirShare == Spec => []PartRefundsTakeTheirShare
<1>1. EInv => PartRefundsTakeTheirShare
  BY DEF EInv, Taken, Share, Status, PartRefundsTakeTheirShare
<1> QED
  BY <1>1, EarnedInvariant, PTL

\* A commission reversed while transactions follow one another leaves nothing behind:
\* what was paid out for it and all adjustments to it cancel out (reverseTx).
THEOREM ReversalsNetOut == Spec => []ReversalNetsOut
<1>1. EInv => ReversalNetsOut
  BY DEF EInv, Netted, Given, NamedBy, AmountOf, SumAdjustments, Status, ReversalNetsOut
<1> QED
  BY <1>1, EarnedInvariant, PTL

-------------------------------------------------------------------------------
(***************************************************************************)
(* Payouts and what they hold.                                             *)
(***************************************************************************)
Paying(P) == {i \in DOMAIN adjustments : adjustments[i].payout \in P}

LEMMA PayoutSteps ==
    ASSUME TypeOK, [Next]_vars, NEW p \in Payout
    PROVE \/ payout'[p] = payout[p]
          \/ (\E w \in Worker : ClaimPayout(w)) /\ Granted(p)
          \/ \E w \in Worker : /\ Approve(w) /\ task[w].p = p
                               /\ payout'[p].status = "APPROVED" /\ payout'[p].amount = payout[p].amount
          \/ \E w \in Worker : /\ MarkPaid(w) /\ task[w].p = p
                               /\ payout'[p].status = "PAID" /\ payout'[p].amount = payout[p].amount
          \/ \E w \in Worker : /\ Reject(w) /\ task[w].p = p /\ payout'[p].status = "REJECTED"
          \/ \E w \in Worker :
                LET n == task[w].amount - CommissionAmount(task[w].c)
                IN  /\ CommitReversal(w) /\ task[w].open = p /\ p # None
                    /\ \/ n <= 0 /\ payout'[p].status = "REJECTED"
                       \/ /\ ~(n <= 0) /\ payout'[p].status = payout[p].status
                          /\ payout'[p].amount = n
<1>0. payout \in [Payout -> PayoutRow(Nat)] /\ payout[p] \in PayoutRow(Nat)
  BY DEF TypeOK, PayoutRow
<1>1. ASSUME NEW w \in Worker, ClaimPayout(w) PROVE payout'[p] = payout[p] \/ Granted(p)
  BY <1>1, ClaimEffect
<1>2. ASSUME NEW q, NEW s, payout' = [payout EXCEPT ![q].status = s]
      PROVE payout'[p] = payout[p] \/ (q = p /\ payout'[p].status = s /\ payout'[p].amount = payout[p].amount)
  BY <1>0, <1>2 DEF PayoutRow
<1>3. ASSUME NEW w \in Worker, CommitReversal(w)
      PROVE \/ payout'[p] = payout[p]
            \/ LET n == task[w].amount - CommissionAmount(task[w].c)
               IN  /\ task[w].open = p /\ p # None
                   /\ \/ n <= 0 /\ payout'[p].status = "REJECTED"
                      \/ /\ ~(n <= 0) /\ payout'[p].status = payout[p].status
                         /\ payout'[p].amount = n
  <2> DEFINE n == task[w].amount - CommissionAmount(task[w].c)
  <2>1. payout' = ShrinkPayout(task[w].open, n)
    BY <1>3 DEF CommitReversal
  <2> HIDE DEF n
  <2>2. \/ payout'[p] = payout[p]
        \/ /\ task[w].open = p /\ p # None
           /\ \/ n <= 0 /\ payout'[p].status = "REJECTED"
              \/ /\ ~(n <= 0) /\ payout'[p].status = payout[p].status
                 /\ payout'[p].amount = n
    BY <1>0, <2>1 DEF ShrinkPayout, PayoutRow
  <2> QED
    BY <2>2 DEF n
<1>4. \/ UNCHANGED payout
      \/ \E w \in Worker : CommitReversal(w) \/ ClaimPayout(w) \/ Approve(w) \/ MarkPaid(w) \/ Reject(w)
  BY DEF Next, vars, Refunds, Payouts, RecordCommission, ReleaseHold, AdjustBalance, Abort,
         ReadSale, BeginManual, BeginPart, CommitPart, AlreadyReversed, BeginRefundAll,
         MarkReversed, BeginRequest, ReadPayable, ReadAdjustments, ReadPayout
<1>5. ASSUME NEW w \in Worker, Approve(w)
      PROVE \/ payout'[p] = payout[p]
            \/ task[w].p = p /\ payout'[p].status = "APPROVED" /\ payout'[p].amount = payout[p].amount
  BY <1>2, <1>5 DEF Approve
<1>6. ASSUME NEW w \in Worker, MarkPaid(w)
      PROVE \/ payout'[p] = payout[p]
            \/ task[w].p = p /\ payout'[p].status = "PAID" /\ payout'[p].amount = payout[p].amount
  BY <1>2, <1>6 DEF MarkPaid
<1>7. ASSUME NEW w \in Worker, Reject(w)
      PROVE payout'[p] = payout[p] \/ (task[w].p = p /\ payout'[p].status = "REJECTED")
  BY <1>2, <1>7 DEF Reject
<1>8. UNCHANGED payout => payout'[p] = payout[p]
  OBVIOUS
<1> QED
  BY <1>1, <1>3, <1>4, <1>5, <1>6, <1>7, <1>8

LEMMA AssignedSteps ==
    ASSUME TypeOK, RowsTyped', [Next]_vars
    PROVE /\ \A i \in DOMAIN adjustments :
                i \in DOMAIN adjustments' /\ adjustments'[i].amount = adjustments[i].amount
          /\ \A i \in DOMAIN adjustments' :
                \/ i \in DOMAIN adjustments /\ adjustments'[i].payout = adjustments[i].payout
                \/ i \notin DOMAIN adjustments /\ adjustments'[i].payout = None
                \/ /\ i \in DOMAIN adjustments /\ adjustments[i].payout = None
                   /\ adjustments'[i].payout \in Payout /\ Granted(adjustments'[i].payout)
                \/ /\ i \in DOMAIN adjustments /\ adjustments'[i].payout = None
                   /\ \E w \in Worker : Reject(w) /\ adjustments[i].payout = task[w].p
<1> DEFINE Kept == \A i \in DOMAIN adjustments :
                i \in DOMAIN adjustments' /\ adjustments'[i].amount = adjustments[i].amount
           Same(i) == i \in DOMAIN adjustments /\ adjustments'[i].payout = adjustments[i].payout
           New(i) == i \notin DOMAIN adjustments /\ adjustments'[i].payout = None
           Claimed(i) == /\ i \in DOMAIN adjustments /\ adjustments[i].payout = None
                         /\ adjustments'[i].payout \in Payout /\ Granted(adjustments'[i].payout)
           Released(i) == /\ i \in DOMAIN adjustments /\ adjustments'[i].payout = None
                          /\ \E w \in Worker : Reject(w) /\ adjustments[i].payout = task[w].p
           Goal == Kept /\ \A i \in DOMAIN adjustments' : Same(i) \/ New(i) \/ Claimed(i) \/ Released(i)
<1>0. RowsTyped
  BY TypedRows
<1>1. ASSUME adjustments' = adjustments PROVE Goal
  BY <1>1
<1>2. ASSUME NEW r, r.payout = None, adjustments' = Append(adjustments, r) PROVE Goal
  BY <1>0, <1>2, RowAdded
<1>3. ASSUME NEW w \in Worker, ClaimPayout(w) PROVE Goal
  <2> DEFINE I == task[w].as \cap Unsettled
  <2>1. PICK p \in Payout :
          /\ Granted(p)
          /\ adjustments' = [i \in DOMAIN adjustments |->
                 IF i \in I THEN [adjustments[i] EXCEPT !.payout = p] ELSE adjustments[i]]
    BY <1>3, ClaimEffect
  <2>2. \A i \in I : adjustments[i].payout = None
    BY DEF Unsettled
  <2> HIDE DEF I
  <2>3. /\ DOMAIN adjustments' = DOMAIN adjustments
        /\ \A i \in DOMAIN adjustments :
                /\ adjustments'[i].amount = adjustments[i].amount
                /\ adjustments'[i].payout = IF i \in I THEN p ELSE adjustments[i].payout
    BY <1>0, <2>1, Reassigned
  <2> QED
    BY <2>1, <2>2, <2>3
<1>4. ASSUME NEW w \in Worker, Reject(w) PROVE Goal
  <2> DEFINE I == SettledBy(task[w].p)
  <2>1. adjustments' = [i \in DOMAIN adjustments |->
                 IF i \in I THEN [adjustments[i] EXCEPT !.payout = None] ELSE adjustments[i]]
    BY <1>4 DEF Reject
  <2>2. \A i \in I : adjustments[i].payout = task[w].p
    BY DEF SettledBy
  <2> HIDE DEF I
  <2>3. /\ DOMAIN adjustments' = DOMAIN adjustments
        /\ \A i \in DOMAIN adjustments :
                /\ adjustments'[i].amount = adjustments[i].amount
                /\ adjustments'[i].payout = IF i \in I THEN None ELSE adjustments[i].payout
    BY <1>0, <2>1, Reassigned
  <2> QED
    BY <1>4, <2>2, <2>3
<1>5. \A c, kind, n : Adjustment(c, kind, n).payout = None
  BY DEF Adjustment
<1> HIDE DEF Goal
<1>6. ASSUME NEW amount, AdjustBalance(amount) PROVE Goal
  BY <1>2, <1>5, <1>6 DEF AdjustBalance
<1>7. ASSUME NEW w \in Worker, CommitPart(w) PROVE Goal
  BY <1>1, <1>2, <1>5, <1>7 DEF CommitPart
<1>8. ASSUME NEW w \in Worker, CommitReversal(w) PROVE Goal
  <2>1. (\A r : adjustments \o <<r>> = Append(adjustments, r)) /\ adjustments \o << >> = adjustments
    BY <1>0 DEF RowsTyped
  <2> QED
    BY <1>1, <1>2, <1>5, <1>8, <2>1 DEF CommitReversal, ReversalAdjustment
<1>9. Goal
  BY <1>1, <1>3, <1>4, <1>6, <1>7, <1>8
     DEF Next, vars, Refunds, Payouts, RecordCommission, ReleaseHold, Abort, ReadSale,
         BeginManual, BeginPart, AlreadyReversed, BeginRefundAll, MarkReversed, BeginRequest,
         ReadPayable, ReadAdjustments, ReadPayout, Approve, MarkPaid
<1> QED
  BY <1>9 DEF Goal

\* Payouts neither requested nor rejected in this step keep their adjustments.
LEMMA PayingKept ==
    ASSUME TypeOK, RowsTyped', [Next]_vars, NEW P \in SUBSET Payout,
           \A p \in P : ~Granted(p), \A w \in Worker : Reject(w) => task[w].p \notin P
    PROVE /\ {i \in DOMAIN adjustments' : adjustments'[i].payout \in P} = Paying(P)
          /\ SumOver(AmountOf', Paying(P)) = SumOver(AmountOf, Paying(P))
          /\ SumOver(AmountOf, Paying(P)) \in Int
<1>1. None \notin P
  BY ReferralAssumption
<1>2. \A i : i \in DOMAIN adjustments' /\ adjustments'[i].payout \in P <=> i \in Paying(P)
  BY <1>1, AssignedSteps DEF Paying
<1>3. RowsTyped /\ Paying(P) \in SUBSET DOMAIN adjustments
  BY TypedRows DEF Paying
<1>4. SumOver(AmountOf', Paying(P)) = SumOver(AmountOf, Paying(P))
  BY <1>3, AssignedSteps, SumKept
<1>5. SumOver(AmountOf, Paying(P)) \in Int
  BY <1>3, SumAdjustmentsType
<1> QED
  BY <1>2, <1>4, <1>5

\* An open payout is worth what it holds, and what was sent what it paid for.
Worth(p) == SumAmounts(ClaimedBy(p)) + SumOver(AmountOf, Paying({p}))
Worths ==
    ~overlapped => \A p \in Payout : payout[p].status \in OpenPayout => payout[p].amount = Worth(p)

Sent == {p \in Payout : payout[p].status = "PAID"}
PayoutAmount == [p \in Payout |-> payout[p].amount]
PaidFor == {c \in Commission : paidOut[c] # {}}
SentAddsUp ==
    ~overlapped =>
        /\ IsFiniteSet(Sent)
        /\ SumOver(PayoutAmount, Sent) = SumAmounts(PaidFor) + SumOver(AmountOf, Paying(Sent))

LEMMA SettledIsPaying == \A p : SumAdjustments(SettledBy(p)) = SumOver(AmountOf, Paying({p}))
<1> TAKE p
<1>1. SettledBy(p) = Paying({p})
  BY DEF SettledBy, Paying
<1> QED
  BY <1>1 DEF SumAdjustments, AmountOf

LEMMA NextSettledIsPaying ==
    \A p : SumAdjustments(SettledBy(p))'
             = SumOver(AmountOf', {i \in DOMAIN adjustments' : adjustments'[i].payout \in {p}})
<1> TAKE p
<1>1. SettledBy(p)' = {i \in DOMAIN adjustments' : adjustments'[i].payout \in {p}}
  BY DEF SettledBy
<1> QED
  BY <1>1 DEF SumAdjustments, AmountOf

\* One transaction at a time, a commission leaves a payout that stays open only when it is
\* reversed.
LEMMA ClaimSteps ==
    ASSUME TInv, [Next]_vars, ~overlapped, NEW p \in Payout, ~Granted(p),
           payout'[p].status \in OpenPayout, NEW c \in Commission,
           \A w \in Worker : CommitReversal(w) => task[w].c # c
    PROVE commission'[c].payout = p /\ commission'[c].status = "PAYABLE"
            <=> commission[c].payout = p /\ commission[c].status = "PAYABLE"
<1>0. TypeOK /\ p # None /\ (Status(c) \in {"NONE", "ON_HOLD"} => commission[c].payout = None)
  BY ReferralAssumption DEF TInv, Claims
<1>1. ASSUME NEW w \in Worker, MarkPaid(w) \/ Reject(w) PROVE task[w].p # p
  <2> SUFFICES ASSUME task[w].p = p PROVE FALSE
    OBVIOUS
  <2>1. payout'[p].status \in {"PAID", "REJECTED"}
    BY <1>0, <1>1 DEF TypeOK, MarkPaid, Reject
  <2> QED
    BY <2>1 DEF OpenPayout
<1>2. \A w \in Worker : ~(CommitReversal(w) /\ task[w].c = c)
  OBVIOUS
<1>3. ASSUME NEW q \in Payout, Granted(q) PROVE q # p
  BY <1>3
<1>4. commission'[c] = commission[c] =>
        (commission'[c].payout = p /\ commission'[c].status = "PAYABLE"
            <=> commission[c].payout = p /\ commission[c].status = "PAYABLE")
  OBVIOUS
<1> QED
  BY <1>0, <1>1, <1>2, <1>3, <1>4, StatusSteps DEF ClaimedBy, PayableUnassigned, Status

LEMMA WorthsStep == ASSUME TInv, Worths, [Next]_vars PROVE Worths'
<1> SUFFICES ASSUME ~overlapped', NEW p \in Payout, payout'[p].status \in OpenPayout
             PROVE payout'[p].amount = (SumAmounts(ClaimedBy(p)) + SumAdjustments(SettledBy(p)))'
  <2>1. \A p \in Payout : Worth(p)' = (SumAmounts(ClaimedBy(p)) + SumAdjustments(SettledBy(p)))'
    <3>1. \A p : SumAmounts(ClaimedBy(p)) + SumAdjustments(SettledBy(p)) = Worth(p)
      BY SettledIsPaying DEF Worth
    <3> QED
      BY NextSettledIsPaying DEF Worth, Paying, SumAmounts, ClaimedBy
  <2> QED
    BY <2>1 DEF Worths
<1>0. /\ TypeOK /\ IInv /\ RowsTyped /\ RowsTyped' /\ ~overlapped
      /\ \A w \in Worker : Fresh(task[w]) /\ Current(task[w])
  BY AdjustmentsStayTyped, TypedRows, OverlapStays DEF TInv, Tasks, IInv, OneByOne
<1>1. ASSUME Granted(p)
      PROVE payout'[p].amount = (SumAmounts(ClaimedBy(p)) + SumAdjustments(SettledBy(p)))'
  <2>1. Next /\ payout[p].status = "NONE" /\ payout'[p].status = "REQUESTED"
    BY <1>1 DEF vars, Granted
  <2> QED
    BY <1>0, <2>1, RequestHolds
<1>2. ASSUME ~Granted(p)
      PROVE payout'[p].amount = (SumAmounts(ClaimedBy(p)) + SumAdjustments(SettledBy(p)))'
  <2>1. ASSUME NEW w \in Worker, Reject(w) PROVE task[w].p # p
    <3> SUFFICES ASSUME task[w].p = p PROVE FALSE
      OBVIOUS
    <3>1. payout'[p].status = "REJECTED"
      BY <1>0, <2>1 DEF TypeOK, Reject
    <3> QED
      BY <3>1 DEF OpenPayout
  <2>2. /\ SumAdjustments(SettledBy(p))' = SumOver(AmountOf, Paying({p}))
        /\ SumOver(AmountOf, Paying({p})) \in Int
    <3>1. {p} \in SUBSET Payout /\ (\A q \in {p} : ~Granted(q))
          /\ \A w \in Worker : Reject(w) => task[w].p \notin {p}
      BY <1>2, <2>1
    <3>2. /\ {i \in DOMAIN adjustments' : adjustments'[i].payout \in {p}} = Paying({p})
          /\ SumOver(AmountOf', Paying({p})) = SumOver(AmountOf, Paying({p}))
          /\ SumOver(AmountOf, Paying({p})) \in Int
      BY <1>0, <3>1, PayingKept
    <3> QED
      BY <3>2, NextSettledIsPaying
  <2>3. \/ payout'[p] = payout[p] /\ payout[p].status \in OpenPayout
        \/ payout[p].status \in OpenPayout /\ payout'[p].amount = payout[p].amount
        \/ \E w \in Worker : /\ CommitReversal(w) /\ task[w].open = p /\ p # None
                             /\ payout[p].status \in OpenPayout
                             /\ payout'[p].amount = task[w].amount - CommissionAmount(task[w].c)
    <3>1. ASSUME NEW w \in Worker, Approve(w), task[w].p = p PROVE payout[p].status = "REQUESTED"
      BY <1>0, <3>1 DEF Current, Approve, Doing
    <3> QED
      BY <1>0, <1>2, <3>1, PayoutSteps DEF OpenPayout
  <2>4. payout[p].amount = SumAmounts(ClaimedBy(p)) + SumOver(AmountOf, Paying({p}))
        /\ payout[p].status \in OpenPayout
    BY <1>0, <2>3 DEF Worths, Worth
  <2>5. SumAmounts(ClaimedBy(p))' = SumAmounts(ClaimedBy(p)') /\ ClaimedBy(p) \in SUBSET Commission
    BY DEF SumAmounts, ClaimedBy
  <2>6. ASSUME NEW w \in Worker, CommitReversal(w), task[w].open = p
        PROVE payout'[p].amount = (SumAmounts(ClaimedBy(p)) + SumAdjustments(SettledBy(p)))'
    <3> DEFINE c == task[w].c
               n == task[w].amount - CommissionAmount(c)
    <3>1. c \in Commission /\ c \in ClaimedBy(p) /\ task[w].amount = payout[p].amount /\ p # None
      BY <1>0, <2>6, TaskOf, ReferralAssumption DEF Fresh, CommitReversal, Doing
    <3>2. \A v \in Worker : CommitReversal(v) => v = w
      BY <1>0, <2>6, WritingEnds DEF Writing, IInv, OneByOne
    <3>3. payout'[p].amount = n
      <4>1. payout' = ShrinkPayout(p, n)
        BY <2>6 DEF CommitReversal
      <4> HIDE DEF n
      <4>2. payout \in [Payout -> PayoutRow(Nat)] /\ payout[p] \in PayoutRow(Nat)
        BY <1>0 DEF TypeOK, PayoutRow
      <4> QED
        BY <3>1, <4>1, <4>2 DEF ShrinkPayout, PayoutRow, OpenPayout
    <3>4. ClaimedBy(p)' = ClaimedBy(p) \ {c}
      <4>1. \A d \in Commission \ {c} :
              commission'[d].payout = p /\ commission'[d].status = "PAYABLE"
                <=> commission[d].payout = p /\ commission[d].status = "PAYABLE"
        BY <1>0, <1>2, <3>2, ClaimSteps
      <4>2. commission'[c].status # "PAYABLE"
        BY <2>6, ReversalReverses DEF Status
      <4> QED
        BY <3>1, <4>1, <4>2 DEF ClaimedBy
    <3>5. SumAmounts(ClaimedBy(p)) = CommissionAmount(c) + SumAmounts(ClaimedBy(p) \ {c})
          /\ SumAmounts(ClaimedBy(p) \ {c}) \in Int /\ CommissionAmount(c) \in Int
      <4> DEFINE S == ClaimedBy(p)
                 f == [d \in Commission |-> CommissionAmount(d)]
      <4>1. IsFiniteSet(S) /\ S \ {c} \in SUBSET Commission
        BY <2>5, SumAmountsType
      <4>2. f[c] = CommissionAmount(c) /\ \A d \in S : f[d] \in Int
        BY <2>5, <3>1, CommissionAmountType
      <4> HIDE DEF S, f
      <4>3. SumOver(f, S) = f[c] + SumOver(f, S \ {c})
        BY <3>1, <4>1, <4>2, SumRemove DEF S
      <4>4. SumAmounts(S) = SumOver(f, S) /\ SumAmounts(S \ {c}) = SumOver(f, S \ {c})
        BY DEF SumAmounts, f
      <4>5. SumAmounts(S \ {c}) \in Int /\ CommissionAmount(c) \in Int
        BY <3>1, <4>1, SumAmountsType, CommissionAmountType
      <4> QED
        BY <4>2, <4>3, <4>4, <4>5 DEF S
    <3>6. n = SumAmounts(ClaimedBy(p) \ {c}) + SumOver(AmountOf, Paying({p}))
      BY <2>2, <2>4, <3>1, <3>5
    <3> QED
      BY <2>2, <2>5, <3>3, <3>4, <3>6
  <2>7. ASSUME \A w \in Worker : ~(CommitReversal(w) /\ task[w].open = p)
        PROVE payout'[p].amount = (SumAmounts(ClaimedBy(p)) + SumAdjustments(SettledBy(p)))'
    <3>1. payout'[p].amount = payout[p].amount
      BY <2>3, <2>7
    <3>2. ASSUME NEW w \in Worker, CommitReversal(w)
          PROVE /\ task[w].c \notin ClaimedBy(p)
                /\ commission'[task[w].c].status # "PAYABLE"
      <4>1. task[w].open # p
        BY <2>7, <3>2
      <4>2. task[w].c \notin ClaimedBy(p)
        BY <1>0, <2>4, <3>2, <4>1 DEF Fresh, CommitReversal, Doing, ClaimedBy
      <4> QED
        BY <3>2, <4>2, ReversalReverses DEF Status
    <3>3. \A c \in Commission :
            commission'[c].payout = p /\ commission'[c].status = "PAYABLE"
              <=> commission[c].payout = p /\ commission[c].status = "PAYABLE"
      <4> TAKE c \in Commission
      <4>1. CASE \A w \in Worker : CommitReversal(w) => task[w].c # c
        BY <1>0, <1>2, <4>1, ClaimSteps
      <4>2. CASE \E w \in Worker : CommitReversal(w) /\ task[w].c = c
        BY <3>2, <4>2 DEF ClaimedBy
      <4> QED
        BY <4>1, <4>2
    <3>4. ClaimedBy(p)' = ClaimedBy(p)
      BY <3>3 DEF ClaimedBy
    <3> QED
      BY <2>2, <2>4, <2>5, <3>1, <3>4
  <2> QED
    BY <2>6, <2>7
<1> QED
  BY <1>1, <1>2

LEMMA SentStep == ASSUME EInv, Worths, SentAddsUp, [Next]_vars PROVE SentAddsUp'
<1> SUFFICES ASSUME ~overlapped'
             PROVE /\ IsFiniteSet(Sent')
                   /\ SumOver(PayoutAmount', Sent')
                        = SumAmounts(PaidFor') + SumOver(AmountOf', Paying(Sent)')
  BY DEF SentAddsUp, SumAmounts
<1>0. /\ TInv /\ Earned /\ TypeOK /\ IInv /\ RowsTyped /\ RowsTyped' /\ ~overlapped
      /\ \A w \in Worker : Current(task[w])
      /\ \A v, w \in Worker : task[v] # Idle /\ task[w] # Idle => v = w
  BY AdjustmentsStayTyped, TypedRows, OverlapStays DEF EInv, TInv, IInv, OneByOne
<1>1. /\ IsFiniteSet(Sent) /\ Sent \in SUBSET Payout
      /\ SumOver(PayoutAmount, Sent) = SumAmounts(PaidFor) + SumOver(AmountOf, Paying(Sent))
  BY <1>0 DEF SentAddsUp, Sent
<1>2. \A q \in Payout : payout[q].amount \in Nat
  BY <1>0 DEF TypeOK
<1>3. \A q \in Sent : payout'[q] = payout[q]
  <2>1. CASE Next
    BY <1>0, <2>1, ClosedPayouts DEF Sent
  <2>2. CASE UNCHANGED vars
    BY <2>2 DEF vars
  <2> QED
    BY <2>1, <2>2
<1>4. Paying(Sent)' = {i \in DOMAIN adjustments' : adjustments'[i].payout \in Sent'}
  BY DEF Paying
<1>5. ASSUME NEW w \in Worker, MarkPaid(w)
      PROVE /\ IsFiniteSet(Sent')
            /\ SumOver(PayoutAmount', Sent')
                 = SumAmounts(PaidFor') + SumOver(AmountOf', Paying(Sent)')
  <2> DEFINE p == task[w].p
             S == ClaimedBy(p)
             f == [d \in Commission |-> CommissionAmount(d)]
  <2>1. p \in Payout /\ payout[p].status = "APPROVED"
    BY <1>0, <1>5, TaskIs DEF Current, TypeOK, MarkPaid, Doing
  <2>2. payout' = [payout EXCEPT ![p].status = "PAID"] /\ UNCHANGED adjustments
        /\ paidOut' = [c \in Commission |->
               IF c \in ClaimedBy(p) THEN paidOut[c] \cup {p} ELSE paidOut[c]]
    BY <1>5 DEF MarkPaid
  <2> HIDE DEF p
  <2>3. Sent' = Sent \cup {p} /\ p \notin Sent
    BY <1>0, <2>1, <2>2 DEF Sent, TypeOK
  <2>4. PayoutAmount' = PayoutAmount
    <3>1. \A q \in Payout : payout'[q].amount = payout[q].amount
      BY <1>0, <2>1, <2>2 DEF TypeOK
    <3> QED
      BY <3>1 DEF PayoutAmount
  <2>5. /\ SumOver(PayoutAmount', Sent') = payout[p].amount + SumOver(PayoutAmount, Sent)
        /\ IsFiniteSet(Sent') /\ SumOver(PayoutAmount, Sent) \in Int
    <3>1. \A q \in Sent \cup {p} : PayoutAmount[q] = payout[q].amount /\ PayoutAmount[q] \in Int
      BY <1>1, <1>2, <2>1 DEF PayoutAmount
    <3>2. SumOver(PayoutAmount, Sent \cup {p}) = PayoutAmount[p] + SumOver(PayoutAmount, Sent)
      BY <1>1, <2>3, <3>1, SumAdd
    <3>3. SumOver(PayoutAmount, Sent) \in Int
      BY <1>1, <3>1, SumInt
    <3>4. IsFiniteSet(Sent \cup {p})
      BY <1>1, FS_AddElement
    <3> QED
      BY <2>3, <2>4, <3>1, <3>2, <3>3, <3>4
  <2>6. PaidFor' = PaidFor \cup S /\ PaidFor \cap S = {}
        /\ PaidFor \in SUBSET Commission /\ S \in SUBSET Commission
    <3>1. \A c \in S : paidOut[c] = {}
      BY <1>0 DEF Earned, ClaimedBy, Status
    <3> QED
      BY <2>2, <3>1 DEF PaidFor, ClaimedBy
  <2>7. SumAmounts(PaidFor') = SumAmounts(PaidFor) + SumAmounts(S)
        /\ SumAmounts(PaidFor) \in Int /\ SumAmounts(S) \in Int
    <3>1. IsFiniteSet(PaidFor) /\ IsFiniteSet(S) /\ SumAmounts(PaidFor) \in Int /\ SumAmounts(S) \in Int
      BY <2>6, SumAmountsType
    <3>2. \A d \in PaidFor \cup S : f[d] \in Int
      BY <2>6, CommissionAmountType
    <3>3. SumAmounts(PaidFor) = SumOver(f, PaidFor) /\ SumAmounts(S) = SumOver(f, S)
          /\ SumAmounts(PaidFor \cup S) = SumOver(f, PaidFor \cup S)
      BY DEF SumAmounts
    <3> HIDE DEF f, S
    <3>4. SumOver(f, PaidFor \cup S) = SumOver(f, PaidFor) + SumOver(f, S)
      BY <2>6, <3>1, <3>2, SumUnion
    <3> QED
      BY <2>6, <3>1, <3>3, <3>4
  <2>8. SumOver(AmountOf', Paying(Sent)')
          = SumOver(AmountOf, Paying(Sent)) + SumOver(AmountOf, Paying({p}))
        /\ SumOver(AmountOf, Paying(Sent)) \in Int /\ SumOver(AmountOf, Paying({p})) \in Int
    <3>1. Paying(Sent)' = Paying(Sent) \cup Paying({p}) /\ AmountOf' = AmountOf
          /\ Paying(Sent) \cap Paying({p}) = {}
      BY <2>2, <2>3 DEF Paying, AmountOf
    <3>2. Paying(Sent) \in SUBSET DOMAIN adjustments /\ Paying({p}) \in SUBSET DOMAIN adjustments
      BY DEF Paying
    <3>3. /\ IsFiniteSet(Paying(Sent)) /\ IsFiniteSet(Paying({p}))
          /\ \A i \in Paying(Sent) \cup Paying({p}) : AmountOf[i] \in Int
          /\ SumOver(AmountOf, Paying(Sent)) \in Int /\ SumOver(AmountOf, Paying({p})) \in Int
      BY <1>0, <3>2, SumAdjustmentsType
    <3>4. SumOver(AmountOf, Paying(Sent) \cup Paying({p}))
            = SumOver(AmountOf, Paying(Sent)) + SumOver(AmountOf, Paying({p}))
      BY <3>1, <3>3, SumUnion
    <3> QED
      BY <3>1, <3>3, <3>4
  <2>9. payout[p].amount = SumAmounts(S) + SumOver(AmountOf, Paying({p}))
    BY <1>0, <2>1 DEF EInv, Worths, Worth, OpenPayout
  <2> QED
    BY <1>1, <2>5, <2>7, <2>8, <2>9
<1>6. ASSUME \A w \in Worker : ~MarkPaid(w)
      PROVE /\ IsFiniteSet(Sent')
            /\ SumOver(PayoutAmount', Sent')
                 = SumAmounts(PaidFor') + SumOver(AmountOf', Paying(Sent)')
  <2>1. Sent' = Sent
    <3>1. ASSUME NEW q \in Payout, payout'[q].status = "PAID" PROVE payout[q].status = "PAID"
      <4>1. ASSUME NEW w \in Worker, CommitReversal(w), task[w].open = q, q # None
            PROVE payout[q].status \in OpenPayout
        BY <1>0, <4>1 DEF Current, CommitReversal, Doing
      <4> QED
        BY <1>0, <1>6, <3>1, PayoutSteps DEF Granted
    <3>2. Sent' \subseteq Sent
      BY <3>1 DEF Sent
    <3>3. Sent \subseteq Sent'
      BY <1>3 DEF Sent
    <3> QED
      BY <3>2, <3>3
  <2>2. PaidFor' = PaidFor
    <3>1. \A c \in Commission : paidOut'[c] = paidOut[c]
      BY <1>0, <1>6, PaidOutSteps
    <3> QED
      BY <3>1 DEF PaidFor
  <2>3. SumOver(PayoutAmount', Sent) = SumOver(PayoutAmount, Sent)
    <3>1. \A q \in Sent : PayoutAmount[q] \in Int /\ PayoutAmount[q] = PayoutAmount'[q]
      BY <1>1, <1>2, <1>3 DEF PayoutAmount
    <3> QED
      BY <1>1, <3>1, SumSame
  <2>4. SumOver(AmountOf', Paying(Sent)') = SumOver(AmountOf, Paying(Sent))
    <3>1. \A q \in Sent : ~Granted(q)
      BY DEF Sent, Granted
    <3>2. ASSUME NEW w \in Worker, Reject(w) PROVE task[w].p \notin Sent
      BY <1>0, <3>2 DEF Current, Reject, Doing, Decidable, OpenPayout, Sent
    <3>3. /\ {i \in DOMAIN adjustments' : adjustments'[i].payout \in Sent} = Paying(Sent)
          /\ SumOver(AmountOf', Paying(Sent)) = SumOver(AmountOf, Paying(Sent))
      BY <1>0, <1>1, <3>1, <3>2, PayingKept
    <3> QED
      BY <1>4, <2>1, <3>3
  <2> QED
    BY <1>1, <2>1, <2>2, <2>3, <2>4
<1> QED
  BY <1>5, <1>6

LEMMA InitAddsUp == Init => Worths /\ SentAddsUp
<1> SUFFICES ASSUME Init PROVE Worths /\ SentAddsUp
  OBVIOUS
<1>1. Sent = {} /\ PaidFor = {} /\ Paying(Sent) = {} /\ Worths
  BY DEF Init, Sent, PaidFor, Paying, Worths, OpenPayout
<1>2. IsFiniteSet({})
  BY FS_EmptySet
<1>3. SumOver(PayoutAmount, {}) = 0 /\ SumOver(AmountOf, {}) = 0 /\ SumAmounts({}) = 0
  BY SumEmpty DEF SumAmounts
<1> QED
  BY <1>1, <1>2, <1>3 DEF SentAddsUp

AddUp == EInv /\ Worths /\ SentAddsUp

\* The invariant behind the theorem on what payouts are worth.
THEOREM PayoutInvariant == Spec => []AddUp
<1>1. EInv /\ Init => AddUp
  BY InitAddsUp DEF AddUp
<1>2. AddUp /\ EInv' /\ [Next]_vars => AddUp'
  BY WorthsStep, SentStep DEF AddUp, EInv
<1> QED
  BY <1>1, <1>2, EarnedInvariant, PTL DEF Spec

\* While transactions follow one another an open payout is worth the commissions and
\* adjustments it holds, through reversals that shrink it, and what was sent is what the
\* commissions paid out and the adjustments settled with them were worth (reverseTx,
\* claimCommissions, markPayoutPaid, rejectPayout).
THEOREM PayoutsWorth == Spec => []PayoutsAddUp
<1>1. AddUp => PayoutsAddUp
  <2> SUFFICES ASSUME AddUp, ~overlapped PROVE PayoutsAddUp!2
    BY DEF PayoutsAddUp
  <2>1. \A p \in Payout : payout[p].status \in OpenPayout =>
           payout[p].amount = SumAmounts(ClaimedBy(p)) + SumAdjustments(SettledBy(p))
    BY SettledIsPaying DEF AddUp, Worths, Worth
  <2>2. SumOver([p \in Payout |-> payout[p].amount], Sent)
          = SumAmounts({c \in Commission : paidOut[c] # {}})
              + SumAdjustments({i \in DOMAIN adjustments : adjustments[i].payout \in Sent})
    BY DEF AddUp, SentAddsUp, PayoutAmount, PaidFor, Paying, SumAdjustments, AmountOf
  <2> QED
    BY <2>1, <2>2 DEF Sent
<1> QED
  BY <1>1, PayoutInvariant, PTL
===============================================================================
