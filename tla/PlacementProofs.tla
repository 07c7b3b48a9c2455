---------------------------- MODULE PlacementProofs ----------------------------
(***************************************************************************)
(* Theorems about Placement, and with it Reservation, for any number of    *)
(* clients, requests in flight, holds, invoices and payments.              *)
(***************************************************************************)
EXTENDS Placement, MoneyProofs, SequenceTheorems, TLAPS

HoldRow == [client: Client, status: HoldStatus, before: Availability \ {"RESERVED"}, due: BOOLEAN]
InvoiceRow == [amount: Required, status: InvoiceStatus, paid: Nat]

\* What INV-C5 says whatever overlaps: nobody is deployed before a settlement.
DeployedWasSettled ==
    \A c \in Client : placement[c].status \in Deployed => c \in everSettled

(***************************************************************************)
(* The inductive invariant                                                 *)
(***************************************************************************)

\* The newest availability row says what the profile does, unless it is RESERVED.
LastFreeOK == availability # "RESERVED" => lastFree = availability

\* What a request has read and nothing takes back: rows stay, payments only add up,
\* and a settlement is never forgotten.
Lasting(t) ==
    /\ t.op \in {"extend", "expire", "release"} => t.h \in DOMAIN hold
    /\ t.op \in {"pay", "tallied", "void"} => t.i \in DOMAIN invoice[t.c]
    /\ t.op = "tallied" /\ t.full =>
           invoice[t.c][t.i].paid + t.amount >= invoice[t.c][t.i].amount
    /\ t.op = "activate" => t.c \in everSettled
    /\ t.op = "move" =>
           /\ t.to \in {"ACTIVE", "PAUSED", "COMPLETED", "CANCELLED"}
           /\ t.to \in {"ACTIVE", "PAUSED"} => t.c \in everSettled
TasksOK == \A w \in Worker : Lasting(task[w])

\* What a request has read and still holds when nobody else is at work.
Current(t) ==
    /\ t.op = "reserved" => ActiveHolds # {}
    /\ t.op \in {"extend", "expire", "release"} => t.h \in ActiveHolds
    /\ t.op = "release" => t.was = availability
    /\ t.op = "select" => (t.held <=> ActiveHolds # {})
    /\ t.op = "approve" => placement[t.c].status = "SELECTED"
    /\ t.op = "accept" => placement[t.c].status = "AWAITING_AGREEMENT"

\* Some client has the agent deployed.
InUse == \E c \in Client : placement[c].status \in {"ACTIVE", "PAUSED"}

\* While requests follow one another, one is in flight at most; and PLACED is the agent's
\* status, or the one a hold goes back to, only while a placement has the agent.
Alone ==
    /\ \A v, w \in Worker : task[v] # Idle /\ task[w] # Idle => v = w
    /\ \A w \in Worker : Current(task[w])
Reasons ==
    /\ availability = "RESERVED" => ActiveHolds # {}
    /\ lastFree = "PLACED" => InUse
    /\ \A h \in ActiveHolds : hold[h].before = "PLACED" => InUse
OneByOne == ~overlapped => Alone /\ Reasons

IInv ==
    /\ TypeOK
    /\ Len(hold) <= MaxHolds
    /\ LastFreeOK
    /\ TasksOK
    /\ PaidInvoiceIsCovered
    /\ DeployedWasSettled
    /\ OneByOne

-------------------------------------------------------------------------------
(***************************************************************************)
(* The holds and the availability                                          *)
(***************************************************************************)

\* What no step undoes about the holds.
HoldsGrow ==
    /\ hold' \in Seq(HoldRow)
    /\ Len(hold') \in Len(hold)..MaxHolds
    /\ \A h \in DOMAIN hold : hold'[h].before = hold[h].before
AvailabilityAgrees ==
    /\ availability' \in Availability
    /\ lastFree' \in Availability \ {"RESERVED"}
    /\ LastFreeOK'

LEMMA RowsOfSeq ==
    ASSUME NEW S, NEW s \in Seq(S)
    PROVE  /\ Len(s) \in Nat /\ DOMAIN s = 1..Len(s)
           /\ \A i \in DOMAIN s : s[i] \in S
BY LenProperties

\* A sequence with some of its rows replaced is one of as many rows.
LEMMA MappedSeq ==
    ASSUME NEW S, NEW s \in Seq(S), NEW t, DOMAIN t = DOMAIN s,
           t = [i \in DOMAIN t |-> t[i]], \A i \in DOMAIN s : t[i] \in S
    PROVE  t \in Seq(S) /\ Len(t) = Len(s) /\ DOMAIN t = 1..Len(s)
<1> DEFINE n == Len(s)
<1>1. n \in Nat /\ DOMAIN s = 1..n
  BY LenProperties
<1>2. t \in [1..n -> S]
  BY <1>1
<1>3. t \in Seq(S)
  BY <1>1, <1>2, SeqDef
<1>4. Len(t) \in Nat /\ DOMAIN t = 1..Len(t)
  BY <1>3, LenProperties
<1>5. Len(t) = n
  BY <1>1, <1>4
<1> QED
  BY <1>1, <1>3, <1>5

LEMMA HoldTyped == ASSUME TypeOK PROVE hold \in Seq(HoldRow)
BY DEF TypeOK, HoldTypeOK, HoldRow

LEMMA HoldStays == ASSUME IInv, UNCHANGED hold PROVE HoldsGrow
<1>1. hold \in Seq(HoldRow) /\ Len(hold) \in Nat /\ Len(hold) <= MaxHolds
  BY HoldTyped, LenProperties DEF IInv
<1> QED
  BY <1>1, ReservationAssumption DEF HoldsGrow

LEMMA AvailabilityStays ==
    ASSUME IInv, UNCHANGED <<availability, lastFree>> PROVE AvailabilityAgrees
BY DEF IInv, TypeOK, HoldTypeOK, LastFreeOK, AvailabilityAgrees

LEMMA AvailabilitySet ==
    ASSUME IInv, NEW s \in Availability, SetAvailability(s) PROVE AvailabilityAgrees
BY DEF IInv, TypeOK, HoldTypeOK, LastFreeOK, AvailabilityAgrees, SetAvailability

LEMMA AvailabilityRestored ==
    ASSUME IInv, NEW h \in DOMAIN hold, NEW s, RestoreBefore(h, s)
    PROVE  AvailabilityAgrees
<1>0. hold[h] \in HoldRow
  BY HoldTyped, RowsOfSeq DEF IInv
<1>1. hold[h].before \in Availability
  BY <1>0 DEF HoldRow
<1>2. CASE s = "RESERVED"
  BY <1>1, <1>2, AvailabilitySet DEF RestoreBefore
<1>3. CASE s # "RESERVED"
  BY <1>3, AvailabilityStays DEF RestoreBefore, KeepAvailability
<1> QED
  BY <1>2, <1>3

LEMMA HoldAdded ==
    ASSUME IInv, NEW c \in Client, AddHold(c)
    PROVE  /\ HoldsGrow
           /\ ActiveHolds = {}
           /\ ActiveHolds' = {Len(hold) + 1}
           /\ hold'[Len(hold) + 1].before = lastFree
<1> DEFINE row == [client |-> c, status |-> "ACTIVE", before |-> lastFree, due |-> FALSE]
           n == Len(hold)
<1>1. hold \in Seq(HoldRow) /\ n \in Nat /\ DOMAIN hold = 1..n
  BY HoldTyped, LenProperties DEF IInv
<1>2. row \in HoldRow
  BY DEF IInv, TypeOK, HoldTypeOK, HoldRow, HoldStatus
<1>3. row.status = "ACTIVE" /\ row.before = lastFree
  OBVIOUS
<1>4. hold' = Append(hold, row) /\ n < MaxHolds /\ ActiveHolds = {}
  BY DEF AddHold, NoOtherActive
<1> HIDE DEF row
<1>5. /\ hold' \in Seq(HoldRow) /\ Len(hold') = n + 1
      /\ \A i \in 1..n : hold'[i] = hold[i]
      /\ hold'[n + 1] = row
  BY <1>1, <1>2, <1>4, AppendProperties
<1>6. DOMAIN hold' = 1..(n + 1)
  BY <1>5, LenProperties
<1>7. ActiveHolds' = {n + 1}
  <2>1. \A h \in 1..n : hold[h].status \notin Active
    BY <1>1, <1>4 DEF ActiveHolds
  <2>2. \A h \in 1..(n + 1) : h = n + 1 \/ h \in 1..n
    BY <1>1
  <2>3. n + 1 \in 1..(n + 1)
    BY <1>1
  <2> QED
    BY <1>3, <1>5, <1>6, <2>1, <2>2, <2>3 DEF ActiveHolds, Active
<1>8. HoldsGrow
  BY <1>1, <1>4, <1>5, ReservationAssumption DEF HoldsGrow
<1> QED
  BY <1>3, <1>4, <1>5, <1>7, <1>8

LEMMA HoldsEnded ==
    ASSUME IInv, NEW H, NEW status \in HoldStatus \ Active, EndHolds(H, status)
    PROVE  HoldsGrow /\ ActiveHolds' = ActiveHolds \ H
<1> DEFINE t == EndedHolds(H, status)
<1>1. hold \in Seq(HoldRow) /\ Len(hold) \in Nat /\ \A h \in DOMAIN hold : hold[h] \in HoldRow
  BY HoldTyped, RowsOfSeq DEF IInv
<1>2. DOMAIN t = DOMAIN hold /\ t = [i \in DOMAIN t |-> t[i]]
  BY DEF EndedHolds
<1>3. \A h \in DOMAIN hold :
        /\ t[h] \in HoldRow /\ t[h].before = hold[h].before
        /\ t[h].status = IF h \in H THEN status ELSE hold[h].status
  BY <1>1 DEF EndedHolds, HoldRow
<1> HIDE DEF t
<1>4. t \in Seq(HoldRow) /\ Len(t) = Len(hold)
  BY <1>1, <1>2, <1>3, MappedSeq
<1>5. hold' = t
  BY DEF EndHolds, t
<1>6. ActiveHolds' = ActiveHolds \ H
  BY <1>2, <1>3, <1>5 DEF ActiveHolds
<1>7. HoldsGrow
  BY <1>1, <1>3, <1>4, <1>5, ReservationAssumption DEF HoldsGrow, IInv
<1> QED
  BY <1>6, <1>7

\* extendReservation and the lapse of a hold keep it what it was, or make it active.
LEMMA HoldTouched ==
    ASSUME IInv, NEW h \in DOMAIN hold, NEW row \in HoldRow, row.before = hold[h].before,
           hold' = [hold EXCEPT ![h] = row]
    PROVE  /\ HoldsGrow
           /\ ActiveHolds' = IF row.status \in Active THEN ActiveHolds \cup {h} ELSE ActiveHolds \ {h}
<1>1. hold \in Seq(HoldRow) /\ Len(hold) \in Nat /\ DOMAIN hold = 1..Len(hold)
  BY HoldTyped, LenProperties DEF IInv
<1>2. /\ hold' \in Seq(HoldRow) /\ Len(hold') = Len(hold)
      /\ \A j \in DOMAIN hold : hold'[j] = IF j = h THEN row ELSE hold[j]
  BY <1>1, ExceptSeq
<1>3. DOMAIN hold' = DOMAIN hold
  BY <1>1, <1>2
<1>4. HoldsGrow
  BY <1>1, <1>2, ReservationAssumption DEF HoldsGrow, IInv
<1> QED
  BY <1>2, <1>3, <1>4 DEF ActiveHolds
-------------------------------------------------------------------------------
(***************************************************************************)
(* Requests in flight                                                      *)
(***************************************************************************)

LEMMA TaskShape ==
    ASSUME TypeOK, NEW w \in Worker
    PROVE
       /\ Doing(w, "reserve") => task[w] \in [op: {"reserve"}, c: Client]
       /\ Doing(w, "extend") => task[w] \in [op: {"extend"}, h: 1..MaxHolds]
       /\ Doing(w, "expire") => task[w] \in [op: {"expire"}, h: 1..MaxHolds]
       /\ Doing(w, "release") => task[w] \in [op: {"release"}, h: 1..MaxHolds, was: Availability]
       /\ Doing(w, "bulk") => task[w] \in [op: {"bulk"}, to: Free]
       /\ Doing(w, "select") => task[w] \in [op: {"select"}, c: Client, held: BOOLEAN]
       /\ Doing(w, "accept") => task[w] \in [op: {"accept"}, c: Client]
       /\ Doing(w, "activate") => task[w] \in [op: {"activate"}, c: Client]
       /\ Doing(w, "approve") => task[w] \in [op: {"approve"}, c: Client, amount: Required]
       /\ Doing(w, "prepare") => task[w] \in [op: {"prepare"}, c: Client, ready: BOOLEAN]
       /\ Doing(w, "move") => task[w] \in [op: {"move"}, c: Client, to: PlacementStatus]
       /\ Doing(w, "void") => task[w] \in [op: {"void"}, c: Client, i: Nat]
       /\ Doing(w, "pay") => task[w] \in [op: {"pay"}, c: Client, i: Nat, amount: Payments]
       /\ Doing(w, "tallied") => task[w] \in [op: {"tallied"}, c: Client, i: Nat, amount: Payments, full: BOOLEAN,
                                            was: DepositStatus, now: DepositStatus]
       /\ Doing(w, "waive") => task[w] \in [op: {"waive"}, c: Client, issued: SUBSET Nat]
       /\ Doing(w, "recalculate") => task[w] \in [op: {"recalculate"}, c: Client, amount: Required, issued: SUBSET Nat]
<1>1. task[w] \in Task
  BY DEF TypeOK
<1> QED
  BY <1>1 DEF Doing, Task, HoldTask, Idle

LEMMA IdleTask == Idle \in Task /\ Lasting(Idle) /\ Current(Idle)
BY DEF Idle, Task, Lasting, Current

LEMMA HoldSide == ASSUME IInv, Next PROVE HoldsGrow /\ AvailabilityAgrees
<1>0. TypeOK
  BY DEF IInv
<1>1. ASSUME UNCHANGED holdVars PROVE HoldsGrow /\ AvailabilityAgrees
  BY <1>1, HoldStays, AvailabilityStays DEF holdVars
<1>2. ASSUME NEW w \in Worker, CommitSelect(w) PROVE HoldsGrow /\ AvailabilityAgrees
  <2>1. CASE task[w].held
    BY <1>1, <1>2, <2>1 DEF CommitSelect
  <2>2. CASE ~task[w].held
    <3>1. AddHold(task[w].c) /\ SetAvailability("RESERVED") /\ task[w].c \in Client
      BY <1>0, <1>2, <2>2, TaskShape DEF CommitSelect
    <3> QED
      BY <3>1, HoldAdded, AvailabilitySet DEF Availability, Blocked
  <2> QED
    BY <2>1, <2>2
<1>3. ASSUME NEW w \in Worker, CommitActivate(w) PROVE HoldsGrow /\ AvailabilityAgrees
  <2>1. EndHolds(ActiveHolds, "CONVERTED") /\ SetAvailability("PLACED")
    BY <1>3 DEF CommitActivate
  <2> QED
    BY <2>1, HoldsEnded, AvailabilitySet DEF Availability, Blocked, HoldStatus, Active
<1>4. ASSUME FreeAgent PROVE HoldsGrow /\ AvailabilityAgrees
  <2>1. HoldsGrow
    BY <1>4, HoldsEnded DEF FreeAgent, HoldStatus, Active
  <2>2. CASE availability \in Blocked
    BY <1>4, <2>1, <2>2, AvailabilitySet DEF FreeAgent, Availability
  <2>3. CASE availability \notin Blocked
    BY <1>4, <2>1, <2>3, AvailabilityStays DEF FreeAgent, KeepAvailability
  <2> QED
    BY <2>2, <2>3
<1>5. ASSUME NEW w \in Worker, CreateHold(w) PROVE HoldsGrow /\ AvailabilityAgrees
  <2>1. AddHold(task[w].c) /\ KeepAvailability /\ task[w].c \in Client
    BY <1>0, <1>5, TaskShape DEF CreateHold
  <2> QED
    BY <2>1, HoldAdded, AvailabilityStays DEF KeepAvailability
<1>6. ASSUME NEW w \in Worker, MarkReserved(w) PROVE HoldsGrow /\ AvailabilityAgrees
  BY <1>6, HoldStays, AvailabilitySet DEF MarkReserved, Availability, Blocked
<1>7. ASSUME NEW w \in Worker, CommitExtend(w) PROVE HoldsGrow /\ AvailabilityAgrees
  <2> DEFINE h == task[w].h
             row == [hold[h] EXCEPT !.status = "EXTENDED", !.due = FALSE]
  <2>1. h \in DOMAIN hold
    BY <1>7 DEF CommitExtend, Doing, IInv, TasksOK, Lasting
  <2>2. hold[h] \in HoldRow
    BY <1>0, <2>1, HoldTyped, RowsOfSeq
  <2>3. row \in HoldRow /\ row.before = hold[h].before
    BY <2>2 DEF HoldRow, HoldStatus
  <2>4. hold' = [hold EXCEPT ![h] = row] /\ KeepAvailability
    BY <1>7, <2>2 DEF CommitExtend, HoldRow
  <2> HIDE DEF h, row
  <2> QED
    BY <2>1, <2>3, <2>4, HoldTouched, AvailabilityStays DEF KeepAvailability
<1>8. ASSUME NEW w \in Worker, CommitRelease(w) \/ CommitExpire(w)
      PROVE  HoldsGrow /\ AvailabilityAgrees
  <2>1. task[w].h \in DOMAIN hold
    BY <1>8 DEF CommitRelease, CommitExpire, Doing, IInv, TasksOK, Lasting
  <2>2. PICK status, s :
          /\ status \in {"RELEASED", "EXPIRED"}
          /\ EndHolds({task[w].h}, status) /\ RestoreBefore(task[w].h, s)
    BY <1>8 DEF CommitRelease, CommitExpire
  <2> QED
    BY <2>1, <2>2, HoldsEnded, AvailabilityRestored DEF HoldStatus, Active
<1>9. ASSUME NEW w \in Worker, CommitBulk(w) PROVE HoldsGrow /\ AvailabilityAgrees
  <2>1. task[w].to \in Availability
    BY <1>0, <1>9, TaskShape DEF CommitBulk, Availability
  <2> QED
    BY <1>9, <2>1, HoldStays, AvailabilitySet DEF CommitBulk
<1>10. ASSUME NEW h \in DOMAIN hold, HoldLapses(h) PROVE HoldsGrow /\ AvailabilityAgrees
  <2> DEFINE row == [hold[h] EXCEPT !.due = TRUE]
  <2>1. hold[h] \in HoldRow
    BY <1>0, HoldTyped, RowsOfSeq
  <2>2. row \in HoldRow /\ row.before = hold[h].before
    BY <2>1 DEF HoldRow
  <2>3. hold' = [hold EXCEPT ![h] = row] /\ KeepAvailability
    BY <1>10, <2>1 DEF HoldLapses, HoldRow
  <2> HIDE DEF row
  <2> QED
    BY <2>2, <2>3, HoldTouched, AvailabilityStays DEF KeepAvailability
<1>11. ASSUME NEW w \in Worker, Pipeline(w) PROVE HoldsGrow /\ AvailabilityAgrees
  <2>1. CASE CommitMove(w)
    BY <1>1, <1>4, <2>1 DEF CommitMove
  <2>2. CASE CommitSelect(w) \/ CommitActivate(w)
    BY <1>2, <1>3, <2>2
  <2>3. CASE CommitAccept(w) \/ CommitApprove(w) \/ CommitPrepare(w)
    BY <1>1, <2>3 DEF CommitAccept, CommitApprove, CommitPrepare
  <2>4. CASE ~CommitMove(w) /\ ~CommitSelect(w) /\ ~CommitActivate(w)
             /\ ~(CommitAccept(w) \/ CommitApprove(w) \/ CommitPrepare(w))
    BY <1>1, <1>11, <2>4 DEF Pipeline, BeginSelect, BeginAccept, BeginActivate, BeginApprove,
                             BeginPrepare, BeginMove
  <2> QED
    BY <2>1, <2>2, <2>3, <2>4
<1>12. ASSUME NEW w \in Worker, Billing(w) PROVE HoldsGrow /\ AvailabilityAgrees
  BY <1>1, <1>12 DEF Billing, BeginWaive, BeginRecalculate, BeginVoid, BeginPay,
                     CommitWaive, CommitRelease, CommitRecalculate, CommitVoid,
                     TallyPayment, CommitPayment
<1>13. ASSUME HoldNext PROVE HoldsGrow /\ AvailabilityAgrees
  <2>1. CASE \E h \in DOMAIN hold : HoldLapses(h)
    BY <1>10, <2>1
  <2>2. ASSUME NEW w \in Worker,
               \/ \E c \in Client : BeginReserve(w, c)
               \/ \E h \in DOMAIN hold : BeginExtend(w, h) \/ BeginRelease(w, h) \/ BeginExpire(w, h)
               \/ \E s \in Free : BeginBulk(w, s)
               \/ GiveUp(w)
        PROVE  HoldsGrow /\ AvailabilityAgrees
    BY <1>1, <2>2 DEF BeginReserve, BeginExtend, BeginRelease, BeginExpire, BeginBulk, GiveUp
  <2>3. ASSUME NEW w \in Worker,
               \/ CreateHold(w) \/ MarkReserved(w)
               \/ CommitExtend(w) \/ CommitRelease(w) \/ CommitExpire(w) \/ CommitBulk(w)
        PROVE  HoldsGrow /\ AvailabilityAgrees
    BY <1>5, <1>6, <1>7, <1>8, <1>9, <2>3
  <2> QED
    BY <1>13, <2>1, <2>2, <2>3 DEF HoldNext
<1> QED
  BY <1>11, <1>12, <1>13 DEF Next
-------------------------------------------------------------------------------
(***************************************************************************)
(* Placements and bills                                                    *)
(***************************************************************************)

\* Rows new that come of the invoices old by payments, settlements, voids and new rows.
Outgrow(new, old) ==
    /\ new \in Seq(InvoiceRow)
    /\ \A i \in DOMAIN old :
           i \in DOMAIN new /\ new[i].amount = old[i].amount /\ new[i].paid >= old[i].paid
    /\ \A i \in DOMAIN new : new[i].status = "PAID" => new[i].paid >= new[i].amount

\* What no step undoes about bills and placements.
InvoicesGrow ==
    /\ invoice' \in [Client -> Seq(InvoiceRow)]
    /\ \A c \in Client : Outgrow(invoice'[c], invoice[c])
SettledGrows == everSettled \subseteq everSettled' /\ everSettled' \subseteq Client
DepositTyped == deposit' \in [Client -> [status: DepositStatus, required: Nat]]
PlacementsGrow ==
    /\ placement' \in [Client -> [status: PlacementStatus, ready: BOOLEAN]]
    /\ SettledGrows
    /\ DeployedWasSettled'

LEMMA InvoiceTyped ==
    ASSUME TypeOK PROVE invoice \in [Client -> Seq(InvoiceRow)]
BY DEF TypeOK, InvoiceRow

\* A payment adds up on its invoice, which is then paid or as it was, and on no other.
LEMMA PaymentAdds ==
    ASSUME NEW c, NEW i \in DOMAIN invoice[c], NEW amount, invoice[c][i] \in InvoiceRow
    PROVE  LET rows == WithPayment(c, i, amount)
               old == invoice[c]
           IN  /\ DOMAIN rows = DOMAIN old
               /\ rows[i].paid = old[i].paid + amount /\ rows[i].amount = old[i].amount
               /\ rows[i].status \in {old[i].status, "PAID"}
               /\ \A j \in DOMAIN old : j # i => rows[j] = old[j]
<1> DEFINE row == [invoice[c][i] EXCEPT !.paid = @ + amount]
           new == IF Covered(row) THEN [row EXCEPT !.status = "PAID"] ELSE row
           paid == invoice[c][i].paid + amount
<1>1. row = [invoice[c][i] EXCEPT !.paid = paid]
  OBVIOUS
<1>2. row.paid = paid /\ row.amount = invoice[c][i].amount /\ row.status = invoice[c][i].status
      /\ [row EXCEPT !.status = "PAID"].paid = paid
      /\ [row EXCEPT !.status = "PAID"].amount = invoice[c][i].amount
      /\ [row EXCEPT !.status = "PAID"].status = "PAID"
  <2> HIDE DEF paid, row
  <2> QED
    BY <1>1 DEF InvoiceRow
<1>3. new = row \/ new = [row EXCEPT !.status = "PAID"]
  OBVIOUS
<1>4. WithPayment(c, i, amount) = [invoice[c] EXCEPT ![i] = new]
  BY DEF WithPayment
<1> HIDE DEF new, row
<1> QED
  BY <1>2, <1>3, <1>4

LEMMA OutgrowSame == ASSUME IInv, NEW c \in Client PROVE Outgrow(invoice[c], invoice[c])
<1>1. invoice[c] \in Seq(InvoiceRow)
  BY InvoiceTyped DEF IInv
<1>2. \A i \in DOMAIN invoice[c] : invoice[c][i] \in InvoiceRow
  BY <1>1, RowsOfSeq
<1>3. \A i \in DOMAIN invoice[c] : invoice[c][i].paid \in Nat
  BY <1>2 DEF InvoiceRow
<1> QED
  BY <1>1, <1>3 DEF Outgrow, IInv, PaidInvoiceIsCovered

LEMMA InvoicesStay == ASSUME IInv, UNCHANGED invoice PROVE InvoicesGrow
BY InvoiceTyped, OutgrowSame DEF InvoicesGrow, IInv

LEMMA InvoiceChanges ==
    ASSUME IInv, NEW c \in Client, NEW rows, Outgrow(rows, invoice[c]),
           invoice' = [invoice EXCEPT ![c] = rows]
    PROVE  InvoicesGrow
<1>1. invoice \in [Client -> Seq(InvoiceRow)] /\ rows \in Seq(InvoiceRow)
  BY InvoiceTyped DEF IInv, Outgrow
<1>2. \A d \in Client : invoice'[d] = IF d = c THEN rows ELSE invoice[d]
  BY <1>1
<1>3. invoice' \in [Client -> Seq(InvoiceRow)]
  BY <1>1
<1>4. \A d \in Client : Outgrow(invoice'[d], invoice[d])
  BY <1>2, OutgrowSame
<1> QED
  BY <1>3, <1>4 DEF InvoicesGrow

LEMMA VoidedRows ==
    ASSUME IInv, NEW c \in Client, NEW I PROVE Outgrow(Voided(c, I), invoice[c])
<1> DEFINE old == invoice[c]
           new == Voided(c, I)
<1>1. old \in Seq(InvoiceRow) /\ \A i \in DOMAIN old : old[i] \in InvoiceRow
  BY InvoiceTyped, RowsOfSeq DEF IInv
<1>2. DOMAIN new = DOMAIN old /\ new = [i \in DOMAIN new |-> new[i]]
  BY DEF Voided
<1>3. \A i \in DOMAIN old :
        /\ new[i] \in InvoiceRow /\ new[i].amount = old[i].amount /\ new[i].paid = old[i].paid
        /\ new[i].status \in {old[i].status, "VOID"}
  BY <1>1 DEF Voided, InvoiceRow, InvoiceStatus
<1>4. \A i \in DOMAIN old : old[i].status = "PAID" => old[i].paid >= old[i].amount
  BY DEF IInv, PaidInvoiceIsCovered
<1>5. \A i \in DOMAIN old : old[i].paid \in Nat
  BY <1>1 DEF InvoiceRow
<1> HIDE DEF old, new
<1>6. new \in Seq(InvoiceRow)
  BY <1>1, <1>2, <1>3, MappedSeq
<1>7. \A i \in DOMAIN old : new[i].status = "PAID" => new[i].paid >= new[i].amount
  BY <1>3, <1>4
<1>8. Outgrow(new, old)
  BY <1>2, <1>3, <1>5, <1>6, <1>7 DEF Outgrow
<1> QED
  BY <1>8 DEF old, new

LEMMA IssuedRows ==
    ASSUME NEW old, NEW rows, NEW amount \in Required, Outgrow(rows, old)
    PROVE  Outgrow(Append(rows, NewInvoice(amount)), old)
<1> DEFINE row == NewInvoice(amount)
           new == Append(rows, row)
           n == Len(rows)
<1>1. row \in InvoiceRow /\ row.status = "ISSUED"
  BY DEF NewInvoice, InvoiceRow, InvoiceStatus
<1> HIDE DEF row
<1>2. rows \in Seq(InvoiceRow) /\ n \in Nat /\ DOMAIN rows = 1..n
  BY LenProperties DEF Outgrow
<1>3. new \in Seq(InvoiceRow) /\ Len(new) = n + 1 /\ new[n + 1] = row
      /\ \A i \in 1..n : new[i] = rows[i]
  BY <1>1, <1>2, AppendProperties
<1>4. DOMAIN new = 1..(n + 1)
  BY <1>3, LenProperties
<1> HIDE DEF new
<1>5. \A i \in DOMAIN new : i \in 1..n \/ i = n + 1
  BY <1>2, <1>4
<1>6. \A i \in 1..n : i \in DOMAIN new
  BY <1>2, <1>4
<1>7. \A i \in DOMAIN new : new[i].status = "PAID" => new[i].paid >= new[i].amount
  BY <1>1, <1>2, <1>3, <1>5 DEF Outgrow
<1>8. Outgrow(new, old)
  BY <1>2, <1>3, <1>6, <1>7 DEF Outgrow
<1> QED
  BY <1>8 DEF new, row

LEMMA PaidRows ==
    ASSUME IInv, NEW c \in Client, NEW i \in DOMAIN invoice[c], NEW amount \in Payments,
           NEW full \in BOOLEAN, full => invoice[c][i].paid + amount >= invoice[c][i].amount,
           NEW row, row = [invoice[c][i] EXCEPT !.paid = @ + amount,
                                                !.status = IF full THEN "PAID" ELSE @]
    PROVE  Outgrow([invoice[c] EXCEPT ![i] = row], invoice[c])
<1> DEFINE old == invoice[c]
           new == [old EXCEPT ![i] = row]
<1>1. old \in Seq(InvoiceRow) /\ \A j \in DOMAIN old : old[j] \in InvoiceRow
  BY InvoiceTyped, RowsOfSeq DEF IInv
<1>2. amount \in Nat
  BY PlacementAssumption
<1>3. old[i] \in InvoiceRow
  BY <1>1
<1>4. row \in InvoiceRow /\ row.amount = old[i].amount /\ row.paid = old[i].paid + amount
      /\ row.status = IF full THEN "PAID" ELSE old[i].status
  <2> DEFINE r == old[i]
             st == IF full THEN "PAID" ELSE r.status
             pd == r.paid + amount
             am == r.amount
  <2>1. am \in Required /\ pd \in Nat /\ st \in InvoiceStatus
    BY <1>2, <1>3 DEF InvoiceRow, InvoiceStatus
  <2>2. row = [amount |-> am, paid |-> pd, status |-> st]
    BY <1>3 DEF InvoiceRow
  <2> HIDE DEF am, pd, st
  <2>3. row \in InvoiceRow /\ row.amount = am /\ row.paid = pd /\ row.status = st
    <3>1. ASSUME NEW a \in Required, NEW p \in Nat, NEW t \in InvoiceStatus
          PROVE  LET x == [amount |-> a, paid |-> p, status |-> t]
                 IN  x \in InvoiceRow /\ x.amount = a /\ x.paid = p /\ x.status = t
      BY DEF InvoiceRow
    <3>2. LET x == [amount |-> am, paid |-> pd, status |-> st]
          IN  x \in InvoiceRow /\ x.amount = am /\ x.paid = pd /\ x.status = st
      BY <2>1, <3>1
    <3> QED
      BY <2>2, <3>2, Zenon
  <2> QED
    BY <2>3 DEF am, pd, st
<1>5. row.paid >= old[i].paid /\ (full => row.paid >= row.amount)
  BY <1>2, <1>3, <1>4 DEF InvoiceRow
<1>6. \A j \in DOMAIN old : old[j].status = "PAID" => old[j].paid >= old[j].amount
  BY DEF IInv, PaidInvoiceIsCovered
<1>7. row.status = "PAID" => row.paid >= row.amount
  <2>1. CASE full
    BY <1>5, <2>1
  <2>2. CASE ~full
    <3>1. \A m, n, k \in Nat : m >= n => m + k >= n
      OBVIOUS
    <3>2. row.status = "PAID" => old[i].paid >= old[i].amount
      BY <1>4, <1>6, <2>2
    <3>3. old[i].paid \in Nat /\ old[i].amount \in Nat
      BY <1>3, PlacementAssumption DEF InvoiceRow
    <3> QED
      BY <1>2, <1>4, <3>1, <3>2, <3>3
  <2> QED
    BY <2>1, <2>2
<1>8. i \in 1..Len(old) /\ DOMAIN old = 1..Len(old)
  BY <1>1, LenProperties
<1>9. /\ new \in Seq(InvoiceRow) /\ Len(new) = Len(old)
      /\ \A j \in 1..Len(old) : new[j] = IF j = i THEN row ELSE old[j]
  BY <1>1, <1>4, <1>8, ExceptSeq
<1>10. DOMAIN new = DOMAIN old
  OBVIOUS
<1>11. \A j \in DOMAIN old : old[j].paid \in Nat
  BY <1>1 DEF InvoiceRow
<1> HIDE DEF new, old
<1>12. \A j \in DOMAIN old : new[j].amount = old[j].amount /\ new[j].paid >= old[j].paid
  <2> SUFFICES ASSUME NEW j \in DOMAIN old
               PROVE  new[j].amount = old[j].amount /\ new[j].paid >= old[j].paid
    OBVIOUS
  <2>1. new[j] = IF j = i THEN row ELSE old[j]
    BY <1>8, <1>9
  <2>2. CASE j = i
    BY <1>4, <1>5, <2>1, <2>2
  <2>3. CASE j # i
    BY <1>11, <2>1, <2>3
  <2> QED
    BY <2>2, <2>3
<1>13. \A j \in DOMAIN new : new[j].status = "PAID" => new[j].paid >= new[j].amount
  BY <1>6, <1>7, <1>8, <1>9, <1>10
<1>14. Outgrow(new, old)
  BY <1>9, <1>10, <1>12, <1>13 DEF Outgrow
<1> QED
  BY <1>14 DEF new, old

LEMMA PlacementsStay ==
    ASSUME IInv, UNCHANGED placement, SettledGrows PROVE PlacementsGrow
BY DEF IInv, TypeOK, PlacementsGrow, SettledGrows, DeployedWasSettled

LEMMA PlacementMoves ==
    ASSUME IInv, NEW c \in Client, NEW status \in PlacementStatus, SetStatus(c, status),
           SettledGrows, status \in Deployed => c \in everSettled'
    PROVE  PlacementsGrow
<1>1. /\ placement' \in [Client -> [status: PlacementStatus, ready: BOOLEAN]]
      /\ \A d \in Client : placement'[d].status = IF d = c THEN status ELSE placement[d].status
  BY DEF SetStatus, IInv, TypeOK
<1>2. DeployedWasSettled'
  BY <1>1 DEF DeployedWasSettled, IInv, SettledGrows
<1> QED
  BY <1>1, <1>2 DEF PlacementsGrow

LEMMA SettledStays == ASSUME IInv, UNCHANGED everSettled PROVE SettledGrows
BY DEF IInv, TypeOK, SettledGrows

LEMMA DepositSettles ==
    ASSUME IInv, NEW c \in Client, OnDepositSettled(c) PROVE PlacementsGrow
<1>1. SettledGrows /\ c \in everSettled'
  BY DEF OnDepositSettled, IInv, TypeOK, SettledGrows
<1>2. CASE placement[c].status = "AWAITING_DEPOSIT"
  BY <1>1, <1>2, PlacementMoves DEF OnDepositSettled, PlacementStatus, OPEN_PLACEMENT_STATUSES
<1>3. CASE placement[c].status # "AWAITING_DEPOSIT"
  BY <1>1, <1>3, PlacementsStay DEF OnDepositSettled
<1> QED
  BY <1>2, <1>3
\* Everything a step leaves behind on the billing side.
BillsGrow == InvoicesGrow /\ DepositTyped /\ PlacementsGrow

LEMMA BillsStay == ASSUME IInv, UNCHANGED <<placement, billing>> PROVE BillsGrow
<1>1. UNCHANGED placement /\ UNCHANGED deposit /\ UNCHANGED invoice /\ UNCHANGED everSettled
  BY DEF billing
<1>2. DepositTyped
  BY <1>1 DEF DepositTyped, IInv, TypeOK
<1> QED
  BY <1>1, <1>2, InvoicesStay, PlacementsStay, SettledStays DEF BillsGrow

LEMMA OnlyPlacementMoves ==
    ASSUME IInv, NEW c \in Client, NEW status \in PlacementStatus, SetStatus(c, status),
           UNCHANGED billing, status \in Deployed => c \in everSettled
    PROVE  BillsGrow
<1>1. UNCHANGED deposit /\ UNCHANGED invoice /\ UNCHANGED everSettled
  BY DEF billing
<1>2. DepositTyped
  BY <1>1 DEF DepositTyped, IInv, TypeOK
<1>3. status \in Deployed => c \in everSettled'
  BY <1>1
<1> QED
  BY <1>1, <1>2, <1>3, InvoicesStay, PlacementMoves, SettledStays DEF BillsGrow

LEMMA PipelineBills == ASSUME IInv, NEW w \in Worker, Pipeline(w) PROVE BillsGrow
<1> DEFINE t == task[w]
<1>0. TypeOK
  BY DEF IInv
<1> USE DEF PlacementStatus, OPEN_PLACEMENT_STATUSES, Deployed
<1>1. CASE CommitSelect(w)
  <2>1. t.c \in Client /\ UNCHANGED billing
    BY <1>0, <1>1, TaskShape DEF CommitSelect
  <2>2. CASE UNCHANGED placement
    BY <2>1, <2>2, BillsStay
  <2>3. CASE SetStatus(t.c, "SELECTED")
    BY <2>1, <2>3, OnlyPlacementMoves
  <2> QED
    BY <1>1, <2>2, <2>3 DEF CommitSelect
<1>2. CASE CommitAccept(w)
  BY <1>0, <1>2, TaskShape, OnlyPlacementMoves DEF CommitAccept
<1>3. CASE CommitApprove(w)
  <2> DEFINE d == [status |-> "PENDING", required |-> t.amount]
             rows == Append(invoice[t.c], NewInvoice(t.amount))
  <2>1. t.c \in Client /\ t.amount \in Required /\ t.amount \in Nat
    BY <1>0, <1>3, TaskShape, PlacementAssumption DEF CommitApprove
  <2>2. /\ SetStatus(t.c, "AWAITING_AGREEMENT") /\ deposit' = [deposit EXCEPT ![t.c] = d]
        /\ invoice' = [invoice EXCEPT ![t.c] = rows] /\ UNCHANGED everSettled
    BY <1>3, <2>1, InvoiceTyped DEF CommitApprove, IInv
  <2>3. d \in [status: DepositStatus, required: Nat]
    BY <2>1 DEF DepositStatus
  <2>4. DepositTyped
    BY <2>2, <2>3 DEF DepositTyped, IInv, TypeOK
  <2>5. Outgrow(rows, invoice[t.c])
    BY <2>1, OutgrowSame, IssuedRows
  <2> HIDE DEF rows
  <2>6. InvoicesGrow
    BY <2>1, <2>2, <2>5, InvoiceChanges
  <2>7. PlacementsGrow
    BY <2>1, <2>2, PlacementMoves, SettledStays
  <2> QED
    BY <2>4, <2>6, <2>7 DEF BillsGrow
<1>4. CASE CommitPrepare(w)
  <2>1. t.c \in Client /\ t.ready \in BOOLEAN /\ UNCHANGED billing
    BY <1>0, <1>4, TaskShape DEF CommitPrepare
  <2>2. placement' = [placement EXCEPT ![t.c].ready = t.ready]
    BY <1>4 DEF CommitPrepare
  <2>3. UNCHANGED deposit /\ UNCHANGED invoice /\ UNCHANGED everSettled
    BY <2>1 DEF billing
  <2>4. PlacementsGrow
    <3>1. placement' \in [Client -> [status: PlacementStatus, ready: BOOLEAN]]
      BY <2>1, <2>2 DEF IInv, TypeOK
    <3>2. \A c \in Client : placement'[c].status = placement[c].status
      BY <2>1, <2>2 DEF IInv, TypeOK
    <3>3. DeployedWasSettled'
      BY <2>3, <3>2 DEF DeployedWasSettled, IInv
    <3> QED
      BY <2>3, <3>1, <3>3, SettledStays DEF PlacementsGrow
  <2>5. DepositTyped
    BY <2>3 DEF DepositTyped, IInv, TypeOK
  <2> QED
    BY <2>3, <2>4, <2>5, InvoicesStay DEF BillsGrow
<1>5. CASE CommitActivate(w)
  <2>1. t.c \in Client /\ t.c \in everSettled
    BY <1>0, <1>5, TaskShape DEF CommitActivate, Doing, IInv, TasksOK, Lasting
  <2> QED
    BY <1>5, <2>1, OnlyPlacementMoves DEF CommitActivate
<1>6. CASE CommitMove(w)
  <2>1. t.c \in Client /\ t.to \in {"ACTIVE", "PAUSED", "COMPLETED", "CANCELLED"}
        /\ (t.to \in {"ACTIVE", "PAUSED"} => t.c \in everSettled)
    BY <1>0, <1>6, TaskShape DEF CommitMove, Doing, IInv, TasksOK, Lasting
  <2> QED
    BY <1>6, <2>1, OnlyPlacementMoves DEF CommitMove
<1>7. CASE UNCHANGED <<placement, billing>>
  BY <1>7, BillsStay
<1> QED
  BY <1>1, <1>2, <1>3, <1>4, <1>5, <1>6, <1>7
     DEF Pipeline, BeginSelect, BeginAccept, BeginActivate, BeginApprove, BeginPrepare, BeginMove

LEMMA BillingBills == ASSUME IInv, NEW w \in Worker, Billing(w) PROVE BillsGrow
<1> DEFINE t == task[w]
<1>0. TypeOK
  BY DEF IInv
<1>1. CASE CommitWaive(w)
  <2>1. t.c \in Client
    BY <1>0, <1>1, TaskShape DEF CommitWaive
  <2>2. /\ deposit' = [deposit EXCEPT ![t.c].status = "WAIVED"]
        /\ invoice' = [invoice EXCEPT ![t.c] = Voided(t.c, t.issued)]
        /\ OnDepositSettled(t.c)
    BY <1>1 DEF CommitWaive
  <2>3. DepositTyped
    BY <2>1, <2>2 DEF DepositTyped, IInv, TypeOK, DepositStatus
  <2> QED
    BY <2>1, <2>2, <2>3, VoidedRows, InvoiceChanges, DepositSettles DEF BillsGrow
<1>2. CASE CommitRecalculate(w)
  <2> DEFINE rows == Append(Voided(t.c, t.issued), NewInvoice(t.amount))
  <2>1. t.c \in Client /\ t.amount \in Required /\ t.amount \in Nat
    BY <1>0, <1>2, TaskShape, PlacementAssumption DEF CommitRecalculate
  <2>2. /\ deposit' = [deposit EXCEPT ![t.c].required = t.amount]
        /\ invoice' = [invoice EXCEPT ![t.c] = rows]
        /\ UNCHANGED placement /\ UNCHANGED everSettled
    BY <1>2 DEF CommitRecalculate
  <2>3. DepositTyped
    BY <2>1, <2>2 DEF DepositTyped, IInv, TypeOK
  <2>4. Outgrow(rows, invoice[t.c])
    BY <2>1, VoidedRows, IssuedRows
  <2> HIDE DEF rows
  <2> QED
    BY <2>1, <2>2, <2>3, <2>4, InvoiceChanges, PlacementsStay, SettledStays DEF BillsGrow
<1>3. CASE CommitVoid(w)
  <2>1. t.c \in Client
    BY <1>0, <1>3, TaskShape DEF CommitVoid
  <2>2. /\ invoice' = [invoice EXCEPT ![t.c] = Voided(t.c, {t.i})]
        /\ UNCHANGED placement /\ UNCHANGED deposit /\ UNCHANGED everSettled
    BY <1>3 DEF CommitVoid
  <2>3. DepositTyped
    BY <2>2 DEF DepositTyped, IInv, TypeOK
  <2> QED
    BY <2>1, <2>2, <2>3, VoidedRows, InvoiceChanges, PlacementsStay, SettledStays DEF BillsGrow
<1>4. CASE CommitPayment(w)
  <2> DEFINE c == t.c
             i == t.i
             row == [invoice[c][i] EXCEPT !.paid = @ + t.amount,
                                          !.status = IF t.full THEN "PAID" ELSE @]
             rows == [invoice[c] EXCEPT ![i] = row]
  <2>1. c \in Client /\ t.amount \in Payments /\ t.full \in BOOLEAN /\ t.now \in DepositStatus
    BY <1>0, <1>4, TaskShape DEF CommitPayment
  <2>2. i \in DOMAIN invoice[c]
        /\ (t.full => invoice[c][i].paid + t.amount >= invoice[c][i].amount)
    BY <1>4 DEF CommitPayment, Doing, IInv, TasksOK, Lasting
  <2>3. invoice[c] \in Seq(InvoiceRow) /\ invoice[c][i] \in InvoiceRow
    BY <1>0, <2>1, <2>2, InvoiceTyped, RowsOfSeq
  <2>4. invoice' = [invoice EXCEPT ![c] = rows]
    BY <1>0, <1>4, <2>1, <2>2, <2>3, InvoiceTyped DEF CommitPayment, InvoiceRow
  <2>5. Outgrow(rows, invoice[c])
    BY <2>1, <2>2, PaidRows
  <2> HIDE DEF rows
  <2>6. InvoicesGrow
    BY <2>1, <2>4, <2>5, InvoiceChanges
  <2>7. DepositTyped
    <3>1. deposit' = deposit \/ deposit' = [deposit EXCEPT ![c].status = t.now]
      BY <1>4 DEF CommitPayment
    <3> QED
      BY <2>1, <3>1 DEF DepositTyped, IInv, TypeOK
  <2>8. PlacementsGrow
    <3>1. CASE NowSettled(t.was, t.now)
      BY <1>4, <2>1, <3>1, DepositSettles DEF CommitPayment
    <3>2. CASE ~NowSettled(t.was, t.now)
      BY <1>4, <3>2, PlacementsStay, SettledStays DEF CommitPayment
    <3> QED
      BY <3>1, <3>2
  <2> QED
    BY <2>6, <2>7, <2>8 DEF BillsGrow
<1>5. CASE UNCHANGED <<placement, billing>>
  BY <1>5, BillsStay
<1> QED
  BY <1>1, <1>2, <1>3, <1>4, <1>5
     DEF Billing, BeginWaive, BeginRecalculate, BeginVoid, BeginPay, TallyPayment

LEMMA BillSide == ASSUME IInv, Next PROVE BillsGrow
<1>1. CASE HoldNext /\ UNCHANGED <<placement, deposit, invoice, everSettled>>
  BY <1>1, BillsStay DEF billing
<1> QED
  BY <1>1, PipelineBills, BillingBills DEF Next
-------------------------------------------------------------------------------
(***************************************************************************)
(* What a step does to the requests                                        *)
(***************************************************************************)

\* One request goes on to t, if any does.
TasksMove ==
    /\ overlapped' \in BOOLEAN
    /\ \/ UNCHANGED task
       \/ \E w \in Worker, t \in Task : Lasting(t) /\ task' = [task EXCEPT ![w] = t]

LEMMA DoneMoves == ASSUME IInv, NEW w \in Worker, Done(w) PROVE TasksMove
BY IdleTask DEF Done, TasksMove, IInv, TypeOK

LEMMA GoesOn ==
    ASSUME IInv, NEW w \in Worker, NEW t \in Task, Lasting(t), Begin(w, t) \/ Proceed(w, t)
    PROVE  TasksMove
<1>1. task' = [task EXCEPT ![w] = t]
  BY DEF Begin, Proceed
<1>2. overlapped' \in BOOLEAN
  BY DEF Begin, Proceed, IInv, TypeOK
<1> QED
  BY <1>1, <1>2 DEF TasksMove

LEMMA PipelineTasks == ASSUME IInv, NEW w \in Worker, Pipeline(w) PROVE TasksMove
<1>1. CASE Done(w)
  BY <1>1, DoneMoves
<1>2. ASSUME NEW c \in Client, BeginSelect(w, c) PROVE TasksMove
  <2> DEFINE b == ActiveHolds # {}
             t == [op |-> "select", c |-> c, held |-> b]
  <2>1. t \in Task /\ Lasting(t)
    BY DEF Task, Lasting
  <2>2. Begin(w, t)
    BY <1>2 DEF BeginSelect
  <2> HIDE DEF t
  <2> QED
    BY <2>1, <2>2, GoesOn
<1>3. ASSUME NEW c \in Client, BeginAccept(w, c) PROVE TasksMove
  <2> DEFINE t == [op |-> "accept", c |-> c]
  <2>1. t \in Task /\ Lasting(t)
    BY DEF Task, Lasting
  <2>2. Begin(w, t)
    BY <1>3 DEF BeginAccept
  <2> HIDE DEF t
  <2> QED
    BY <2>1, <2>2, GoesOn
<1>4. ASSUME NEW c \in Client, BeginActivate(w, c) PROVE TasksMove
  <2> DEFINE t == [op |-> "activate", c |-> c]
  <2>1. c \in everSettled
    BY <1>4 DEF BeginActivate, IInv, DeployedWasSettled, Deployed
  <2>2. t \in Task /\ Lasting(t)
    BY <2>1 DEF Task, Lasting
  <2>3. Begin(w, t)
    BY <1>4 DEF BeginActivate
  <2> HIDE DEF t
  <2> QED
    BY <2>2, <2>3, GoesOn
<1>5. ASSUME NEW c \in Client, NEW amount \in Required, BeginApprove(w, c, amount) PROVE TasksMove
  <2> DEFINE t == [op |-> "approve", c |-> c, amount |-> amount]
  <2>1. t \in Task /\ Lasting(t)
    BY DEF Task, Lasting
  <2>2. Begin(w, t)
    BY <1>5 DEF BeginApprove
  <2> HIDE DEF t
  <2> QED
    BY <2>1, <2>2, GoesOn
<1>6. ASSUME NEW c \in Client, NEW ready \in BOOLEAN, BeginPrepare(w, c, ready) PROVE TasksMove
  <2> DEFINE t == [op |-> "prepare", c |-> c, ready |-> ready]
  <2>1. t \in Task /\ Lasting(t)
    BY DEF Task, Lasting
  <2>2. Begin(w, t)
    BY <1>6 DEF BeginPrepare
  <2> HIDE DEF t
  <2> QED
    BY <2>1, <2>2, GoesOn
<1>7. ASSUME NEW c \in Client, NEW to \in PlacementStatus, BeginMove(w, c, to) PROVE TasksMove
  <2> DEFINE t == [op |-> "move", c |-> c, to |-> to]
  <2>1. <<placement[c].status, to>> \in Transitions
    BY <1>7 DEF BeginMove
  <2>2. to \in {"ACTIVE", "PAUSED", "COMPLETED", "CANCELLED"}
        /\ (to \in {"ACTIVE", "PAUSED"} => placement[c].status \in Deployed)
    BY <2>1 DEF Transitions, Deployed
  <2>3. to \in {"ACTIVE", "PAUSED"} => c \in everSettled
    BY <2>2 DEF IInv, DeployedWasSettled
  <2>4. t \in Task /\ Lasting(t)
    BY <2>2, <2>3 DEF Task, Lasting
  <2>5. Begin(w, t)
    BY <1>7 DEF BeginMove
  <2> HIDE DEF t
  <2> QED
    BY <2>4, <2>5, GoesOn
<1> QED
  BY <1>1, <1>2, <1>3, <1>4, <1>5, <1>6, <1>7
     DEF Pipeline, CommitSelect, CommitAccept, CommitActivate, CommitApprove, CommitPrepare, CommitMove

LEMMA BillingTasks == ASSUME IInv, NEW w \in Worker, Billing(w) PROVE TasksMove
<1>0. TypeOK
  BY DEF IInv
<1>1. CASE Done(w)
  BY <1>1, DoneMoves
<1>2. \A c \in Client : DOMAIN invoice[c] \subseteq Nat
  BY <1>0, InvoiceTyped, RowsOfSeq
<1>3. ASSUME NEW c \in Client, BeginWaive(w, c) PROVE TasksMove
  <2> DEFINE t == [op |-> "waive", c |-> c, issued |-> Issued(c)]
  <2>1. Issued(c) \subseteq Nat
    BY <1>2 DEF Issued
  <2>2. t \in Task /\ Lasting(t)
    BY <2>1 DEF Task, Lasting
  <2>3. Begin(w, t)
    BY <1>3 DEF BeginWaive
  <2> HIDE DEF t
  <2> QED
    BY <2>2, <2>3, GoesOn
<1>4. ASSUME NEW c \in Client, NEW amount \in Required, BeginRecalculate(w, c, amount) PROVE TasksMove
  <2> DEFINE t == [op |-> "recalculate", c |-> c, amount |-> amount, issued |-> Issued(c)]
  <2>1. Issued(c) \subseteq Nat
    BY <1>2 DEF Issued
  <2>2. t \in Task /\ Lasting(t)
    BY <2>1 DEF Task, Lasting
  <2>3. Begin(w, t)
    BY <1>4 DEF BeginRecalculate
  <2> HIDE DEF t
  <2> QED
    BY <2>2, <2>3, GoesOn
<1>5. ASSUME NEW c \in Client, NEW i \in DOMAIN invoice[c], BeginVoid(w, c, i) PROVE TasksMove
  <2> DEFINE t == [op |-> "void", c |-> c, i |-> i]
  <2>1. t \in Task /\ Lasting(t)
    BY <1>2 DEF Task, Lasting
  <2>2. Begin(w, t)
    BY <1>5 DEF BeginVoid
  <2> HIDE DEF t
  <2> QED
    BY <2>1, <2>2, GoesOn
<1>6. ASSUME NEW c \in Client, NEW i \in DOMAIN invoice[c], NEW amount \in Payments,
             BeginPay(w, c, i, amount)
      PROVE  TasksMove
  <2> DEFINE t == [op |-> "pay", c |-> c, i |-> i, amount |-> amount]
  <2>1. t \in Task /\ Lasting(t)
    BY <1>2 DEF Task, Lasting
  <2>2. Begin(w, t)
    BY <1>6 DEF BeginPay
  <2> HIDE DEF t
  <2> QED
    BY <2>1, <2>2, GoesOn
<1>7. CASE TallyPayment(w)
  <2> DEFINE c == task[w].c
             i == task[w].i
             amount == task[w].amount
             rows == WithPayment(c, i, amount)
             full == Covered(rows[i])
             was == deposit[c].status
             now == IF deposit[c].status = "WAIVED" THEN "WAIVED"
                    ELSE DepositStatusFor(PaidTowards(rows), deposit[c].required)
             t == [op |-> "tallied", c |-> c, i |-> i, amount |-> amount, full |-> full,
                   was |-> was, now |-> now]
  <2>1. c \in Client /\ i \in Nat /\ amount \in Payments /\ i \in DOMAIN invoice[c]
    BY <1>0, <1>7, TaskShape DEF TallyPayment, Doing, IInv, TasksOK, Lasting
  <2>2. was \in DepositStatus
    BY <1>0, <2>1 DEF TypeOK
  <2>3. now \in DepositStatus
    BY DEF DepositStatusFor, DepositStatus
  <2>4. full <=> invoice[c][i].paid + amount >= invoice[c][i].amount
    <3>1. invoice[c][i] \in InvoiceRow
      BY <1>0, <2>1, InvoiceTyped, RowsOfSeq
    <3>2. rows[i].paid = invoice[c][i].paid + amount /\ rows[i].amount = invoice[c][i].amount
      BY <2>1, <3>1, PaymentAdds
    <3> QED
      BY <3>2 DEF Covered
  <2>5. full \in BOOLEAN
    BY DEF Covered
  <2>6. Proceed(w, t)
    BY <1>7 DEF TallyPayment
  <2> HIDE DEF c, i, amount, rows, full, was, now
  <2>7. t \in Task
    BY <2>1, <2>2, <2>3, <2>5 DEF Task
  <2>8. Lasting(t)
    BY <2>1, <2>4 DEF Lasting
  <2> HIDE DEF t
  <2> QED
    BY <2>6, <2>7, <2>8, GoesOn
<1> QED
  BY <1>1, <1>3, <1>4, <1>5, <1>6, <1>7
     DEF Billing, CommitWaive, CommitRecalculate, CommitVoid, CommitPayment

LEMMA HoldTasks == ASSUME IInv, HoldNext PROVE TasksMove
<1>0. TypeOK
  BY DEF IInv
<1>1. DOMAIN hold \subseteq 1..MaxHolds
  BY <1>0, HoldTyped, LenProperties, ReservationAssumption DEF IInv
<1>2. ASSUME NEW w \in Worker, Done(w) PROVE TasksMove
  BY <1>2, DoneMoves
<1>3. ASSUME NEW w \in Worker, NEW c \in Client, BeginReserve(w, c) PROVE TasksMove
  <2> DEFINE t == [op |-> "reserve", c |-> c]
  <2>1. t \in Task /\ Lasting(t)
    BY DEF Task, HoldTask, Lasting
  <2>2. Begin(w, t)
    BY <1>3 DEF BeginReserve
  <2> HIDE DEF t
  <2> QED
    BY <2>1, <2>2, GoesOn
<1>4. ASSUME NEW w \in Worker, CreateHold(w) PROVE TasksMove
  <2> DEFINE t == [op |-> "reserved"]
  <2>1. t \in Task /\ Lasting(t)
    BY DEF Task, HoldTask, Lasting
  <2>2. Proceed(w, t)
    BY <1>4 DEF CreateHold
  <2> HIDE DEF t
  <2> QED
    BY <2>1, <2>2, GoesOn
<1>5. ASSUME NEW w \in Worker, NEW h \in DOMAIN hold, BeginExtend(w, h) PROVE TasksMove
  <2> DEFINE t == [op |-> "extend", h |-> h]
  <2>1. t \in Task /\ Lasting(t)
    BY <1>1 DEF Task, HoldTask, Lasting
  <2>2. Begin(w, t)
    BY <1>5 DEF BeginExtend
  <2> HIDE DEF t
  <2> QED
    BY <2>1, <2>2, GoesOn
<1>6. ASSUME NEW w \in Worker, NEW h \in DOMAIN hold, BeginExpire(w, h) PROVE TasksMove
  <2> DEFINE t == [op |-> "expire", h |-> h]
  <2>1. t \in Task /\ Lasting(t)
    BY <1>1 DEF Task, HoldTask, Lasting
  <2>2. Begin(w, t)
    BY <1>6 DEF BeginExpire
  <2> HIDE DEF t
  <2> QED
    BY <2>1, <2>2, GoesOn
<1>7. ASSUME NEW w \in Worker, NEW h \in DOMAIN hold, BeginRelease(w, h) PROVE TasksMove
  <2> DEFINE t == [op |-> "release", h |-> h, was |-> availability]
  <2>1. t \in Task /\ Lasting(t)
    BY <1>0, <1>1 DEF Task, HoldTask, Lasting, TypeOK, HoldTypeOK
  <2>2. Begin(w, t)
    BY <1>7 DEF BeginRelease
  <2> HIDE DEF t
  <2> QED
    BY <2>1, <2>2, GoesOn
<1>8. ASSUME NEW w \in Worker, NEW s \in Free, BeginBulk(w, s) PROVE TasksMove
  <2> DEFINE t == [op |-> "bulk", to |-> s]
  <2>1. t \in Task /\ Lasting(t)
    BY DEF Task, HoldTask, Lasting
  <2>2. Begin(w, t)
    BY <1>8 DEF BeginBulk
  <2> HIDE DEF t
  <2> QED
    BY <2>1, <2>2, GoesOn
<1>9. ASSUME NEW h \in DOMAIN hold, HoldLapses(h) PROVE TasksMove
  BY <1>9 DEF HoldLapses, TasksMove, IInv, TypeOK
<1> QED
  BY <1>2, <1>3, <1>4, <1>5, <1>6, <1>7, <1>8, <1>9
     DEF HoldNext, MarkReserved, CommitExtend, CommitRelease, CommitExpire, CommitBulk, GiveUp

LEMMA LastingKept ==
    ASSUME IInv, HoldsGrow, BillsGrow, NEW CONSTANT t \in Task, Lasting(t)
    PROVE  Lasting(t)'
<1>1. t.op \in {"extend", "expire", "release"} => t.h \in DOMAIN hold'
  <2>1. hold \in Seq(HoldRow) /\ Len(hold) \in Nat /\ DOMAIN hold = 1..Len(hold)
    BY HoldTyped, LenProperties DEF IInv
  <2>2. Len(hold') \in Nat /\ DOMAIN hold' = 1..Len(hold')
    BY LenProperties DEF HoldsGrow
  <2>3. DOMAIN hold \subseteq DOMAIN hold'
    BY <2>1, <2>2, ReservationAssumption DEF HoldsGrow
  <2> QED
    BY <2>3 DEF Lasting
<1>2. t.op \in {"pay", "tallied", "void"} => t.c \in Client
  BY DEF Task, HoldTask, Idle
<1>3. ASSUME t.op \in {"pay", "tallied", "void"}
      PROVE  /\ t.i \in DOMAIN invoice'[t.c] /\ invoice[t.c][t.i] \in InvoiceRow
             /\ invoice'[t.c][t.i] \in InvoiceRow
             /\ invoice'[t.c][t.i].amount = invoice[t.c][t.i].amount
             /\ invoice'[t.c][t.i].paid >= invoice[t.c][t.i].paid
  <2>1. Outgrow(invoice'[t.c], invoice[t.c]) /\ t.i \in DOMAIN invoice[t.c]
    BY <1>2, <1>3 DEF BillsGrow, InvoicesGrow, Lasting
  <2>2. invoice[t.c] \in Seq(InvoiceRow) /\ invoice'[t.c] \in Seq(InvoiceRow)
    BY <1>2, <1>3, <2>1, InvoiceTyped DEF IInv, Outgrow
  <2>3. t.i \in DOMAIN invoice'[t.c]
    BY <2>1 DEF Outgrow
  <2> QED
    BY <2>1, <2>2, <2>3, RowsOfSeq DEF Outgrow
<1>4. t.op = "tallied" /\ t.full =>
          invoice'[t.c][t.i].paid + t.amount >= invoice'[t.c][t.i].amount
  <2> SUFFICES ASSUME t.op = "tallied", t.full
               PROVE  invoice'[t.c][t.i].paid + t.amount >= invoice'[t.c][t.i].amount
    OBVIOUS
  <2>1. invoice[t.c][t.i].paid + t.amount >= invoice[t.c][t.i].amount
    BY DEF Lasting
  <2>2. t.amount \in Nat
    <3>1. t.amount \in Payments
      BY DEF Task, HoldTask, Idle
    <3> QED
      BY <3>1, PlacementAssumption
  <2>3. invoice[t.c][t.i].paid \in Nat /\ invoice'[t.c][t.i].paid \in Nat
        /\ invoice[t.c][t.i].amount \in Nat
    BY <1>3, PlacementAssumption DEF InvoiceRow
  <2>4. \A p, q, n, a \in Nat : p + n >= a /\ q >= p => q + n >= a
    OBVIOUS
  <2> QED
    BY <1>3, <2>1, <2>2, <2>3, <2>4
<1>5. /\ t.op = "activate" => t.c \in everSettled'
      /\ t.op = "move" =>
             /\ t.to \in {"ACTIVE", "PAUSED", "COMPLETED", "CANCELLED"}
             /\ t.to \in {"ACTIVE", "PAUSED"} => t.c \in everSettled'
  BY DEF Lasting, BillsGrow, PlacementsGrow, SettledGrows
<1> QED
  BY <1>1, <1>3, <1>4, <1>5 DEF Lasting
-------------------------------------------------------------------------------
(***************************************************************************)
(* Requests one by one                                                     *)
(***************************************************************************)

LEMMA AloneBegins ==
    ASSUME IInv, NEW w \in Worker, NEW t, Begin(w, t), Current(t), ~overlapped',
           UNCHANGED <<hold, availability, lastFree, placement>>
    PROVE  Alone' /\ Reasons'
<1>1. ~overlapped /\ \A v \in Worker : task[v] = Idle
  BY DEF Begin
<1>2. Reasons
  BY <1>1 DEF IInv, OneByOne
<1>3. ActiveHolds' = ActiveHolds /\ InUse' = InUse
  BY DEF ActiveHolds, InUse
<1>4. Reasons'
  BY <1>2, <1>3 DEF Reasons
<1>5. \A v \in Worker : task'[v] = IF v = w THEN t ELSE Idle
  BY <1>1 DEF Begin, IInv, TypeOK
<1>6. \A v \in Worker : Current(task[v])'
  <2> SUFFICES ASSUME NEW CONSTANT v \in Worker PROVE Current(task[v])'
    OBVIOUS
  <2>1. CASE v = w
    BY <1>3, <1>5, <2>1 DEF Current
  <2>2. CASE v # w
    BY <1>5, <2>2 DEF Current, Idle
  <2> QED
    BY <2>1, <2>2
<1>7. \A u, v \in Worker : task'[u] # Idle /\ task'[v] # Idle => u = v
  BY <1>5
<1> QED
  BY <1>4, <1>6, <1>7 DEF Alone

LEMMA AloneGoesOn ==
    ASSUME IInv, NEW w \in Worker, NEW t, task[w] # Idle, ~overlapped,
           task' = [task EXCEPT ![w] = t],
           t = Idle \/ (t = [op |-> "reserved"] /\ ActiveHolds' # {})
    PROVE  Alone'
<1>1. \A v \in Worker : v # w => task[v] = Idle
  BY DEF IInv, OneByOne, Alone
<1>2. \A v \in Worker : task'[v] = IF v = w THEN t ELSE Idle
  BY <1>1 DEF IInv, TypeOK
<1>3. \A v \in Worker : Current(task[v])'
  <2> SUFFICES ASSUME NEW CONSTANT v \in Worker PROVE Current(task[v])'
    OBVIOUS
  <2>1. CASE task'[v] = Idle
    BY <2>1 DEF Current, Idle
  <2>2. CASE task'[v] = [op |-> "reserved"] /\ ActiveHolds' # {}
    <3>1. task'[v].op = "reserved"
      BY <2>2
    <3> QED
      BY <2>2, <3>1 DEF Current
  <2> QED
    BY <1>2, <2>1, <2>2
<1>4. \A u, v \in Worker : task'[u] # Idle /\ task'[v] # Idle => u = v
  BY <1>2
<1> QED
  BY <1>3, <1>4 DEF Alone

LEMMA Busy ==
    ASSUME IInv, NEW w \in Worker, NEW op, Doing(w, op), op # "idle", Done(w), ~overlapped'
    PROVE  ~overlapped /\ Current(task[w]) /\ Reasons /\ Alone'
<1>1. task[w] # Idle
  BY DEF Doing, Idle
<1>2. ~overlapped /\ task' = [task EXCEPT ![w] = Idle]
  BY DEF Done
<1>3. Current(task[w]) /\ Reasons
  BY <1>2 DEF IInv, OneByOne, Alone
<1> QED
  BY <1>1, <1>2, <1>3, AloneGoesOn

LEMMA ReasonsStay ==
    ASSUME Reasons, UNCHANGED <<hold, availability, lastFree>>, InUse => InUse' PROVE Reasons'
<1>1. ActiveHolds' = ActiveHolds
  BY DEF ActiveHolds
<1> QED
  BY <1>1 DEF Reasons

LEMMA UseStays ==
    ASSUME IInv, NEW c \in Client, NEW status, SetStatus(c, status),
           placement[c].status \notin {"ACTIVE", "PAUSED"} \/ status \in {"ACTIVE", "PAUSED"}
    PROVE  InUse => InUse'
<1>1. \A d \in Client : placement'[d].status = IF d = c THEN status ELSE placement[d].status
  BY DEF SetStatus, IInv, TypeOK
<1> QED
  BY <1>1 DEF InUse

LEMMA SettlementUse ==
    ASSUME IInv, NEW c \in Client, OnDepositSettled(c) PROVE InUse => InUse'
<1>1. CASE placement[c].status = "AWAITING_DEPOSIT"
  BY <1>1, UseStays DEF OnDepositSettled
<1>2. CASE placement[c].status # "AWAITING_DEPOSIT"
  BY <1>2 DEF OnDepositSettled, InUse
<1> QED
  BY <1>1, <1>2

\* A new hold goes back to what the newest availability row says.
LEMMA NewHoldHasReason ==
    ASSUME IInv, NEW c \in Client, AddHold(c), Reasons, InUse => InUse', UNCHANGED lastFree
    PROVE  /\ ActiveHolds' # {}
           /\ \A h \in ActiveHolds' : hold'[h].before = "PLACED" => InUse'
BY HoldAdded DEF Reasons

LEMMA PipelineOneByOne ==
    ASSUME IInv, NEW w \in Worker, Pipeline(w), ~overlapped' PROVE Alone' /\ Reasons'
<1> DEFINE t == task[w]
<1>0. TypeOK
  BY DEF IInv
<1>1. ASSUME NEW c \in Client, BeginSelect(w, c) PROVE Alone' /\ Reasons'
  <2> DEFINE b == ActiveHolds # {}
             n == [op |-> "select", c |-> c, held |-> b]
  <2>1. Current(n)
    BY DEF Current
  <2>2. Begin(w, n) /\ UNCHANGED <<hold, availability, lastFree, placement>>
    BY <1>1 DEF BeginSelect, holdVars
  <2> HIDE DEF n
  <2> QED
    BY <2>1, <2>2, AloneBegins
<1>2. ASSUME NEW c \in Client, BeginAccept(w, c) PROVE Alone' /\ Reasons'
  <2> DEFINE n == [op |-> "accept", c |-> c]
  <2>1. Current(n)
    BY <1>2 DEF Current, BeginAccept
  <2>2. Begin(w, n) /\ UNCHANGED <<hold, availability, lastFree, placement>>
    BY <1>2 DEF BeginAccept, holdVars
  <2> HIDE DEF n
  <2> QED
    BY <2>1, <2>2, AloneBegins
<1>3. ASSUME NEW c \in Client, BeginActivate(w, c) PROVE Alone' /\ Reasons'
  <2> DEFINE n == [op |-> "activate", c |-> c]
  <2>1. Current(n)
    BY DEF Current
  <2>2. Begin(w, n) /\ UNCHANGED <<hold, availability, lastFree, placement>>
    BY <1>3 DEF BeginActivate, holdVars
  <2> HIDE DEF n
  <2> QED
    BY <2>1, <2>2, AloneBegins
<1>4. ASSUME NEW c \in Client, NEW amount \in Required, BeginApprove(w, c, amount)
      PROVE  Alone' /\ Reasons'
  <2> DEFINE n == [op |-> "approve", c |-> c, amount |-> amount]
  <2>1. Current(n)
    BY <1>4 DEF Current, BeginApprove
  <2>2. Begin(w, n) /\ UNCHANGED <<hold, availability, lastFree, placement>>
    BY <1>4 DEF BeginApprove, holdVars
  <2> HIDE DEF n
  <2> QED
    BY <2>1, <2>2, AloneBegins
<1>5. ASSUME NEW c \in Client, NEW ready \in BOOLEAN, BeginPrepare(w, c, ready)
      PROVE  Alone' /\ Reasons'
  <2> DEFINE n == [op |-> "prepare", c |-> c, ready |-> ready]
  <2>1. Current(n)
    BY DEF Current
  <2>2. Begin(w, n) /\ UNCHANGED <<hold, availability, lastFree, placement>>
    BY <1>5 DEF BeginPrepare, holdVars
  <2> HIDE DEF n
  <2> QED
    BY <2>1, <2>2, AloneBegins
<1>6. ASSUME NEW c \in Client, NEW to \in PlacementStatus, BeginMove(w, c, to)
      PROVE  Alone' /\ Reasons'
  <2> DEFINE n == [op |-> "move", c |-> c, to |-> to]
  <2>1. Current(n)
    BY DEF Current
  <2>2. Begin(w, n) /\ UNCHANGED <<hold, availability, lastFree, placement>>
    BY <1>6 DEF BeginMove, holdVars
  <2> HIDE DEF n
  <2> QED
    BY <2>1, <2>2, AloneBegins
<1>7. CASE CommitSelect(w)
  <2>1. Current(t) /\ Reasons /\ Alone'
    BY <1>7, Busy DEF CommitSelect
  <2>2. t.c \in Client /\ t.held \in BOOLEAN /\ t.op = "select"
    BY <1>0, <1>7, TaskShape DEF CommitSelect, Doing
  <2>3. InUse => InUse'
    <3>1. CASE placement[t.c].status \in OPEN_PLACEMENT_STATUSES
      BY <1>7, <3>1 DEF CommitSelect, InUse
    <3>2. CASE placement[t.c].status \notin OPEN_PLACEMENT_STATUSES
      BY <1>7, <2>2, <3>2, UseStays DEF CommitSelect, OPEN_PLACEMENT_STATUSES
    <3> QED
      BY <3>1, <3>2
  <2>4. CASE t.held
    BY <1>7, <2>1, <2>3, <2>4, ReasonsStay DEF CommitSelect, holdVars
  <2>5. CASE ~t.held
    <3>1. AddHold(t.c) /\ availability' = "RESERVED" /\ lastFree' = lastFree
      BY <1>7, <2>5 DEF CommitSelect, SetAvailability
    <3> QED
      BY <2>1, <2>2, <2>3, <3>1, NewHoldHasReason DEF Reasons
  <2> QED
    BY <2>1, <2>4, <2>5
<1>8. CASE CommitAccept(w)
  <2>1. Current(t) /\ Reasons /\ Alone'
    BY <1>8, Busy DEF CommitAccept
  <2>2. t.c \in Client /\ placement[t.c].status = "AWAITING_AGREEMENT"
    BY <1>0, <1>8, <2>1, TaskShape DEF CommitAccept, Doing, Current
  <2>3. InUse => InUse'
    BY <1>8, <2>2, UseStays DEF CommitAccept
  <2> QED
    BY <1>8, <2>1, <2>3, ReasonsStay DEF CommitAccept, holdVars
<1>9. CASE CommitApprove(w)
  <2>1. Current(t) /\ Reasons /\ Alone'
    BY <1>9, Busy DEF CommitApprove
  <2>2. t.c \in Client /\ placement[t.c].status = "SELECTED"
    BY <1>0, <1>9, <2>1, TaskShape DEF CommitApprove, Doing, Current
  <2>3. InUse => InUse'
    BY <1>9, <2>2, UseStays DEF CommitApprove
  <2> QED
    BY <1>9, <2>1, <2>3, ReasonsStay DEF CommitApprove, holdVars
<1>10. CASE CommitPrepare(w)
  <2>1. Reasons /\ Alone'
    BY <1>10, Busy DEF CommitPrepare
  <2>2. t.c \in Client
    BY <1>0, <1>10, TaskShape DEF CommitPrepare
  <2>3. \A c \in Client : placement'[c].status = placement[c].status
    BY <1>10, <2>2 DEF CommitPrepare, IInv, TypeOK
  <2>4. InUse => InUse'
    BY <2>3 DEF InUse
  <2> QED
    BY <1>10, <2>1, <2>4, ReasonsStay DEF CommitPrepare, holdVars
<1>11. CASE CommitActivate(w)
  <2>1. Alone'
    BY <1>11, Busy DEF CommitActivate
  <2>2. t.c \in Client
    BY <1>0, <1>11, TaskShape DEF CommitActivate
  <2>3. InUse'
    BY <1>11, <2>2 DEF CommitActivate, SetStatus, InUse, IInv, TypeOK
  <2>4. availability' = "PLACED"
    BY <1>11 DEF CommitActivate, SetAvailability
  <2> QED
    BY <2>1, <2>3, <2>4 DEF Reasons
<1>12. CASE CommitMove(w)
  <2>1. Reasons /\ Alone'
    BY <1>12, Busy DEF CommitMove
  <2>2. t.c \in Client /\ t.to \in {"ACTIVE", "PAUSED", "COMPLETED", "CANCELLED"}
    BY <1>0, <1>12, TaskShape DEF CommitMove, Doing, IInv, TasksOK, Lasting
  <2>3. CASE t.to \in Ends
    <3>1. FreeAgent
      BY <1>12, <2>3 DEF CommitMove
    <3>2. ActiveHolds' = {}
      BY <3>1, HoldsEnded DEF FreeAgent, HoldStatus, Active
    <3>3. availability' # "RESERVED" /\ lastFree' # "PLACED"
      BY <3>1 DEF FreeAgent, SetAvailability, KeepAvailability, Blocked, IInv, LastFreeOK
    <3> QED
      BY <2>1, <3>2, <3>3 DEF Reasons
  <2>4. CASE t.to \notin Ends
    <3>1. InUse => InUse'
      BY <1>12, <2>2, <2>4, UseStays DEF CommitMove, Ends
    <3> QED
      BY <1>12, <2>1, <2>4, <3>1, ReasonsStay DEF CommitMove, holdVars
  <2> QED
    BY <2>3, <2>4
<1> QED
  BY <1>1, <1>2, <1>3, <1>4, <1>5, <1>6, <1>7, <1>8, <1>9, <1>10, <1>11, <1>12 DEF Pipeline
LEMMA BillingOneByOne ==
    ASSUME IInv, NEW w \in Worker, Billing(w), ~overlapped' PROVE Alone' /\ Reasons'
<1> DEFINE t == task[w]
<1>0. TypeOK
  BY DEF IInv
<1>1. ASSUME NEW c \in Client, BeginWaive(w, c) PROVE Alone' /\ Reasons'
  <2> DEFINE n == [op |-> "waive", c |-> c, issued |-> Issued(c)]
  <2>1. Current(n)
    BY DEF Current
  <2>2. Begin(w, n) /\ UNCHANGED <<hold, availability, lastFree, placement>>
    BY <1>1 DEF BeginWaive, holdVars
  <2> HIDE DEF n
  <2> QED
    BY <2>1, <2>2, AloneBegins
<1>2. ASSUME NEW c \in Client, NEW amount \in Required, BeginRecalculate(w, c, amount)
      PROVE  Alone' /\ Reasons'
  <2> DEFINE n == [op |-> "recalculate", c |-> c, amount |-> amount, issued |-> Issued(c)]
  <2>1. Current(n)
    BY DEF Current
  <2>2. Begin(w, n) /\ UNCHANGED <<hold, availability, lastFree, placement>>
    BY <1>2 DEF BeginRecalculate, holdVars
  <2> HIDE DEF n
  <2> QED
    BY <2>1, <2>2, AloneBegins
<1>3. ASSUME NEW c \in Client, NEW i \in DOMAIN invoice[c], BeginVoid(w, c, i)
      PROVE  Alone' /\ Reasons'
  <2> DEFINE n == [op |-> "void", c |-> c, i |-> i]
  <2>1. Current(n)
    BY DEF Current
  <2>2. Begin(w, n) /\ UNCHANGED <<hold, availability, lastFree, placement>>
    BY <1>3 DEF BeginVoid, holdVars
  <2> HIDE DEF n
  <2> QED
    BY <2>1, <2>2, AloneBegins
<1>4. ASSUME NEW c \in Client, NEW i \in DOMAIN invoice[c], NEW amount \in Payments,
             BeginPay(w, c, i, amount)
      PROVE  Alone' /\ Reasons'
  <2> DEFINE n == [op |-> "pay", c |-> c, i |-> i, amount |-> amount]
  <2>1. Current(n)
    BY DEF Current
  <2>2. Begin(w, n) /\ UNCHANGED <<hold, availability, lastFree, placement>>
    BY <1>4 DEF BeginPay, holdVars
  <2> HIDE DEF n
  <2> QED
    BY <2>1, <2>2, AloneBegins
<1>5. CASE TallyPayment(w)
  <2> DEFINE full == Covered(WithPayment(t.c, t.i, t.amount)[t.i])
             now == IF deposit[t.c].status = "WAIVED" THEN "WAIVED"
                    ELSE DepositStatusFor(PaidTowards(WithPayment(t.c, t.i, t.amount)),
                                          deposit[t.c].required)
             n == [op |-> "tallied", c |-> t.c, i |-> t.i, amount |-> t.amount,
                   full |-> full, was |-> deposit[t.c].status, now |-> now]
  <2>1. /\ ~overlapped /\ task[w] # Idle /\ task' = [task EXCEPT ![w] = n]
        /\ UNCHANGED <<hold, availability, lastFree, placement>>
    BY <1>5 DEF TallyPayment, Proceed, Doing, Idle, holdVars
  <2>2. Reasons /\ \A v \in Worker : v # w => task[v] = Idle
    BY <2>1 DEF IInv, OneByOne, Alone
  <2>3. n.op = "tallied"
    OBVIOUS
  <2> HIDE DEF n
  <2>4. \A v \in Worker : task'[v] = IF v = w THEN n ELSE Idle
    BY <2>1, <2>2 DEF IInv, TypeOK
  <2>5. \A v \in Worker : Current(task[v])'
    <3> SUFFICES ASSUME NEW CONSTANT v \in Worker PROVE Current(task[v])'
      OBVIOUS
    <3>1. task'[v].op \in {"tallied", "idle"}
      BY <2>3, <2>4 DEF Idle
    <3> QED
      BY <3>1 DEF Current
  <2>6. \A u, v \in Worker : task'[u] # Idle /\ task'[v] # Idle => u = v
    BY <2>4
  <2>7. Reasons'
    BY <2>1, <2>2, ReasonsStay DEF InUse
  <2> QED
    BY <2>5, <2>6, <2>7 DEF Alone
<1>6. CASE CommitWaive(w)
  <2>1. Reasons /\ Alone'
    BY <1>6, Busy DEF CommitWaive
  <2>2. t.c \in Client
    BY <1>0, <1>6, TaskShape DEF CommitWaive
  <2>3. InUse => InUse'
    BY <1>6, <2>2, SettlementUse DEF CommitWaive
  <2> QED
    BY <1>6, <2>1, <2>3, ReasonsStay DEF CommitWaive, holdVars
<1>7. CASE CommitRecalculate(w)
  <2>1. Reasons /\ Alone'
    BY <1>7, Busy DEF CommitRecalculate
  <2> QED
    BY <1>7, <2>1, ReasonsStay DEF CommitRecalculate, holdVars, InUse
<1>8. CASE CommitVoid(w)
  <2>1. Reasons /\ Alone'
    BY <1>8, Busy DEF CommitVoid
  <2> QED
    BY <1>8, <2>1, ReasonsStay DEF CommitVoid, holdVars, InUse
<1>9. CASE CommitPayment(w)
  <2>1. Reasons /\ Alone'
    BY <1>9, Busy DEF CommitPayment
  <2>2. t.c \in Client
    BY <1>0, <1>9, TaskShape DEF CommitPayment
  <2>3. InUse => InUse'
    <3>1. CASE NowSettled(t.was, t.now)
      BY <1>9, <2>2, <3>1, SettlementUse DEF CommitPayment
    <3>2. CASE ~NowSettled(t.was, t.now)
      BY <1>9, <3>2 DEF CommitPayment, InUse
    <3> QED
      BY <3>1, <3>2
  <2> QED
    BY <1>9, <2>1, <2>3, ReasonsStay DEF CommitPayment, holdVars
<1> QED
  BY <1>1, <1>2, <1>3, <1>4, <1>5, <1>6, <1>7, <1>8, <1>9 DEF Billing

LEMMA HoldOneByOne ==
    ASSUME IInv, HoldNext, UNCHANGED placement, ~overlapped' PROVE Alone' /\ Reasons'
<1>0. TypeOK /\ (InUse => InUse')
  BY DEF IInv, InUse
<1>1. ASSUME NEW w \in Worker, NEW c \in Client, BeginReserve(w, c) PROVE Alone' /\ Reasons'
  <2> DEFINE n == [op |-> "reserve", c |-> c]
  <2>1. Current(n)
    BY DEF Current
  <2>2. Begin(w, n) /\ UNCHANGED <<hold, availability, lastFree, placement>>
    BY <1>1 DEF BeginReserve, holdVars
  <2> HIDE DEF n
  <2> QED
    BY <2>1, <2>2, AloneBegins
<1>2. ASSUME NEW w \in Worker, NEW h \in DOMAIN hold, BeginExtend(w, h) PROVE Alone' /\ Reasons'
  <2> DEFINE n == [op |-> "extend", h |-> h]
  <2>1. Current(n)
    BY <1>2 DEF Current, BeginExtend
  <2>2. Begin(w, n) /\ UNCHANGED <<hold, availability, lastFree, placement>>
    BY <1>2 DEF BeginExtend, holdVars
  <2> HIDE DEF n
  <2> QED
    BY <2>1, <2>2, AloneBegins
<1>3. ASSUME NEW w \in Worker, NEW h \in DOMAIN hold, BeginRelease(w, h) PROVE Alone' /\ Reasons'
  <2> DEFINE n == [op |-> "release", h |-> h, was |-> availability]
  <2>1. Current(n)
    BY <1>3 DEF Current, BeginRelease
  <2>2. Begin(w, n) /\ UNCHANGED <<hold, availability, lastFree, placement>>
    BY <1>3 DEF BeginRelease, holdVars
  <2> HIDE DEF n
  <2> QED
    BY <2>1, <2>2, AloneBegins
<1>4. ASSUME NEW w \in Worker, NEW h \in DOMAIN hold, BeginExpire(w, h) PROVE Alone' /\ Reasons'
  <2> DEFINE n == [op |-> "expire", h |-> h]
  <2>1. Current(n)
    BY <1>4 DEF Current, BeginExpire
  <2>2. Begin(w, n) /\ UNCHANGED <<hold, availability, lastFree, placement>>
    BY <1>4 DEF BeginExpire, holdVars
  <2> HIDE DEF n
  <2> QED
    BY <2>1, <2>2, AloneBegins
<1>5. ASSUME NEW w \in Worker, NEW s \in Free, BeginBulk(w, s) PROVE Alone' /\ Reasons'
  <2> DEFINE n == [op |-> "bulk", to |-> s]
  <2>1. Current(n)
    BY DEF Current
  <2>2. Begin(w, n) /\ UNCHANGED <<hold, availability, lastFree, placement>>
    BY <1>5 DEF BeginBulk, holdVars
  <2> HIDE DEF n
  <2> QED
    BY <2>1, <2>2, AloneBegins
<1>6. ASSUME NEW w \in Worker, CreateHold(w) PROVE Alone' /\ Reasons'
  <2>1. /\ ~overlapped /\ task[w] # Idle /\ task' = [task EXCEPT ![w] = [op |-> "reserved"]]
        /\ AddHold(task[w].c) /\ KeepAvailability
    BY <1>6 DEF CreateHold, Proceed, Doing, Idle
  <2>2. task[w].c \in Client
    BY <1>0, <1>6, TaskShape DEF CreateHold
  <2>3. Reasons
    BY <2>1 DEF IInv, OneByOne
  <2>4. ActiveHolds' # {} /\ \A h \in ActiveHolds' : hold'[h].before = "PLACED" => InUse'
    BY <1>0, <2>1, <2>2, <2>3, NewHoldHasReason DEF KeepAvailability
  <2>5. Alone'
    BY <2>1, <2>4, AloneGoesOn
  <2> QED
    BY <1>0, <2>1, <2>3, <2>4, <2>5 DEF Reasons, KeepAvailability
<1>7. ASSUME NEW w \in Worker, MarkReserved(w) PROVE Alone' /\ Reasons'
  <2>1. Current(task[w]) /\ Reasons /\ Alone'
    BY <1>7, Busy DEF MarkReserved
  <2>2. ActiveHolds # {}
    BY <1>7, <2>1 DEF MarkReserved, Doing, Current
  <2>3. ActiveHolds' = ActiveHolds /\ UNCHANGED hold /\ UNCHANGED lastFree
    BY <1>7 DEF MarkReserved, ActiveHolds, SetAvailability
  <2> QED
    BY <1>0, <2>1, <2>2, <2>3 DEF Reasons
<1>8. ASSUME NEW w \in Worker, CommitExtend(w) PROVE Alone' /\ Reasons'
  <2> DEFINE h == task[w].h
             row == [hold[h] EXCEPT !.status = "EXTENDED", !.due = FALSE]
  <2>1. Current(task[w]) /\ Reasons /\ Alone'
    BY <1>8, Busy DEF CommitExtend
  <2>2. h \in ActiveHolds
    BY <1>8, <2>1 DEF CommitExtend, Doing, Current
  <2>3. h \in DOMAIN hold /\ hold[h] \in HoldRow
    BY <1>0, <2>2, HoldTyped, RowsOfSeq DEF ActiveHolds
  <2>4. row \in HoldRow /\ row.before = hold[h].before /\ row.status = "EXTENDED"
    BY <2>3 DEF HoldRow, HoldStatus
  <2>5. hold' = [hold EXCEPT ![h] = row] /\ KeepAvailability
    BY <1>8, <2>3 DEF CommitExtend, HoldRow
  <2> HIDE DEF h, row
  <2>6. HoldsGrow /\ ActiveHolds' = ActiveHolds
    BY <2>2, <2>3, <2>4, <2>5, HoldTouched DEF Active
  <2>7. \A g \in ActiveHolds : hold'[g].before = hold[g].before
    BY <2>6 DEF HoldsGrow, ActiveHolds
  <2> QED
    BY <1>0, <2>1, <2>5, <2>6, <2>7 DEF Reasons, KeepAvailability
<1>9. ASSUME NEW w \in Worker, NEW s, NEW status \in {"RELEASED", "EXPIRED"},
             Alone', Reasons, task[w].h \in ActiveHolds, EndHolds({task[w].h}, status),
             RestoreBefore(task[w].h, s), s = availability
      PROVE  Alone' /\ Reasons'
  <2> DEFINE h == task[w].h
  <2>1. h \in DOMAIN hold /\ hold[h] \in HoldRow
    BY <1>0, <1>9, HoldTyped, RowsOfSeq DEF ActiveHolds
  <2>2. hold[h].before # "RESERVED" /\ (hold[h].before = "PLACED" => InUse)
    BY <1>9, <2>1 DEF HoldRow, Reasons
  <2>3. HoldsGrow /\ ActiveHolds' = ActiveHolds \ {h}
    BY <1>9, HoldsEnded DEF HoldStatus, Active
  <2>4. \A g \in ActiveHolds' : hold'[g].before = "PLACED" => InUse'
    BY <1>0, <1>9, <2>3 DEF HoldsGrow, ActiveHolds, Reasons
  <2>5. availability' # "RESERVED" /\ (lastFree' = "PLACED" => InUse')
    BY <1>0, <1>9, <2>2 DEF RestoreBefore, SetAvailability, KeepAvailability, Reasons
  <2> QED
    BY <1>9, <2>4, <2>5 DEF Reasons
<1>10. ASSUME NEW w \in Worker, CommitRelease(w) PROVE Alone' /\ Reasons'
  <2>1. Current(task[w]) /\ Reasons /\ Alone'
    BY <1>10, Busy DEF CommitRelease
  <2>2. task[w].h \in ActiveHolds /\ task[w].was = availability
    BY <1>10, <2>1 DEF CommitRelease, Doing, Current
  <2> QED
    BY <1>9, <1>10, <2>1, <2>2 DEF CommitRelease
<1>11. ASSUME NEW w \in Worker, CommitExpire(w) PROVE Alone' /\ Reasons'
  <2>1. Current(task[w]) /\ Reasons /\ Alone'
    BY <1>11, Busy DEF CommitExpire
  <2>2. task[w].h \in ActiveHolds
    BY <1>11, <2>1 DEF CommitExpire, Doing, Current
  <2> QED
    BY <1>9, <1>11, <2>1, <2>2 DEF CommitExpire
<1>12. ASSUME NEW w \in Worker, CommitBulk(w) PROVE Alone' /\ Reasons'
  <2>1. Reasons /\ Alone'
    BY <1>12, Busy DEF CommitBulk
  <2>2. task[w].to \notin Blocked
    BY <1>0, <1>12, TaskShape, ReservationAssumption DEF CommitBulk, Blocked
  <2>3. availability' = task[w].to /\ lastFree' = task[w].to /\ UNCHANGED hold
    BY <1>12, <2>2 DEF CommitBulk, SetAvailability, Blocked
  <2>4. ActiveHolds' = ActiveHolds
    BY <2>3 DEF ActiveHolds
  <2> QED
    BY <1>0, <2>1, <2>2, <2>3, <2>4 DEF Reasons, Blocked
<1>13. ASSUME NEW w \in Worker, GiveUp(w) PROVE Alone' /\ Reasons'
  <2>1. task[w] # Idle /\ ~overlapped /\ task' = [task EXCEPT ![w] = Idle]
        /\ UNCHANGED <<hold, availability, lastFree>>
    BY <1>13 DEF GiveUp, Done, holdVars
  <2>2. Reasons
    BY <2>1 DEF IInv, OneByOne
  <2> QED
    BY <1>0, <2>1, <2>2, AloneGoesOn, ReasonsStay
<1>14. ASSUME NEW h \in DOMAIN hold, HoldLapses(h) PROVE Alone' /\ Reasons'
  <2> DEFINE row == [hold[h] EXCEPT !.due = TRUE]
  <2>1. h \in ActiveHolds /\ KeepAvailability /\ UNCHANGED task /\ ~overlapped
    BY <1>14 DEF HoldLapses
  <2>2. hold[h] \in HoldRow
    BY <1>0, HoldTyped, RowsOfSeq
  <2>3. row \in HoldRow /\ row.before = hold[h].before /\ row.status = hold[h].status
        /\ hold' = [hold EXCEPT ![h] = row]
    BY <1>14, <2>2 DEF HoldLapses, HoldRow
  <2> HIDE DEF row
  <2>4. HoldsGrow /\ ActiveHolds' = ActiveHolds
    BY <2>1, <2>2, <2>3, HoldTouched DEF ActiveHolds
  <2>5. Alone /\ Reasons
    BY <2>1 DEF IInv, OneByOne
  <2>6. \A g \in ActiveHolds : hold'[g].before = hold[g].before
    BY <2>4 DEF HoldsGrow, ActiveHolds
  <2>7. Reasons'
    BY <1>0, <2>1, <2>4, <2>5, <2>6 DEF Reasons, KeepAvailability
  <2>8. \A w \in Worker : Current(task[w])'
    BY <2>1, <2>4, <2>5 DEF Alone, Current, KeepAvailability
  <2> QED
    BY <2>1, <2>5, <2>7, <2>8 DEF Alone
<1> QED
  BY <1>1, <1>2, <1>3, <1>4, <1>5, <1>6, <1>7, <1>8, <1>10, <1>11, <1>12, <1>13, <1>14
     DEF HoldNext

-------------------------------------------------------------------------------
(***************************************************************************)
(* The theorems                                                            *)
(***************************************************************************)

LEMMA InitIInv == Init => IInv
<1> SUFFICES ASSUME Init PROVE IInv
  OBVIOUS
<1>1. hold = <<>> /\ Len(hold) = 0 /\ DOMAIN hold = {}
  BY DEF Init, HoldInit
<1>2. TypeOK
  <2>1. hold \in Seq([client: Client, status: HoldStatus,
                      before: Availability \ {"RESERVED"}, due: BOOLEAN])
    BY <1>1
  <2>2. HoldTypeOK
    BY <2>1 DEF Init, HoldInit, HoldTypeOK, Availability, Blocked
  <2>3. task \in [Worker -> Task]
    BY IdleTask DEF Init
  <2>4. /\ placement \in [Client -> [status: PlacementStatus, ready: BOOLEAN]]
        /\ deposit \in [Client -> [status: DepositStatus, required: Nat]]
        /\ invoice \in [Client -> Seq([amount: Required, status: InvoiceStatus, paid: Nat])]
    BY DEF Init, PlacementStatus, DepositStatus
  <2> QED
    BY <2>2, <2>3, <2>4 DEF Init, TypeOK
<1>3. Len(hold) <= MaxHolds
  BY <1>1, ReservationAssumption
<1>4. LastFreeOK
  BY DEF Init, HoldInit, LastFreeOK
<1>5. TasksOK /\ Alone
  BY IdleTask DEF Init, TasksOK, Alone
<1>6. PaidInvoiceIsCovered /\ DeployedWasSettled
  BY DEF Init, PaidInvoiceIsCovered, DeployedWasSettled, Deployed
<1>7. Reasons
  BY <1>1 DEF Init, HoldInit, Reasons, ActiveHolds
<1> QED
  BY <1>2, <1>3, <1>4, <1>5, <1>6, <1>7 DEF IInv, OneByOne

LEMMA StepIInv == IInv /\ [Next]_vars => IInv'
<1> SUFFICES ASSUME IInv, [Next]_vars PROVE IInv'
  OBVIOUS
<1>1. CASE UNCHANGED vars
  BY <1>1 DEF vars, IInv, TypeOK, HoldTypeOK, LastFreeOK, TasksOK, Lasting, PaidInvoiceIsCovered,
              DeployedWasSettled, OneByOne, Alone, Current, Reasons, ActiveHolds, InUse
<1>2. CASE Next
  <2>1. HoldsGrow /\ AvailabilityAgrees /\ BillsGrow /\ TasksMove
    BY <1>2, HoldSide, BillSide, PipelineTasks, BillingTasks, HoldTasks DEF Next
  <2>2. task' \in [Worker -> Task]
    BY <2>1 DEF TasksMove, IInv, TypeOK
  <2>3. TypeOK'
    BY <2>1, <2>2 DEF TypeOK, HoldTypeOK, HoldsGrow, AvailabilityAgrees, BillsGrow, InvoicesGrow,
                      DepositTyped, PlacementsGrow, SettledGrows, TasksMove, HoldRow, InvoiceRow
  <2>4. Len(hold') <= MaxHolds
    BY <2>1, HoldTyped, LenProperties, ReservationAssumption DEF HoldsGrow, IInv
  <2>5. TasksOK'
    <3> SUFFICES ASSUME NEW CONSTANT v \in Worker PROVE Lasting(task[v])'
      BY DEF TasksOK
    <3>1. PICK t \in Task : Lasting(t) /\ task'[v] = t
      <4>1. task[v] \in Task /\ Lasting(task[v])
        BY DEF IInv, TypeOK, TasksOK
      <4> QED
        BY <2>1, <4>1 DEF TasksMove, IInv, TypeOK
    <3>2. Lasting(t)'
      BY <2>1, <3>1, LastingKept
    <3> QED
      BY <3>1, <3>2 DEF Lasting
  <2>6. PaidInvoiceIsCovered'
    BY <2>1 DEF BillsGrow, InvoicesGrow, Outgrow, PaidInvoiceIsCovered
  <2>7. OneByOne'
    BY <1>2, PipelineOneByOne, BillingOneByOne, HoldOneByOne DEF Next, OneByOne
  <2> QED
    BY <2>1, <2>3, <2>4, <2>5, <2>6, <2>7 DEF IInv, AvailabilityAgrees, BillsGrow, PlacementsGrow
<1> QED
  BY <1>1, <1>2

\* The invariant behind the theorems below.
THEOREM Invariant == Spec => []IInv
BY InitIInv, StepIInv, PTL DEF Spec

\* Every variable keeps its type: a hold, an invoice or a task in flight never refers to
\* a row that is not there.
THEOREM TypeCorrect == Spec => []TypeOK
<1>1. IInv => TypeOK
  BY DEF IInv
<1> QED
  BY <1>1, Invariant, PTL

\* However many payments, voids and recalculations overlap, an invoice that says PAID has
\* payments for its amount (recordPayment, recordProviderPayment).
THEOREM PaidIsCovered == Spec => []PaidInvoiceIsCovered
<1>1. IInv => PaidInvoiceIsCovered
  BY DEF IInv
<1> QED
  BY <1>1, Invariant, PTL

\* Whatever overlaps, a placement is prepared, active or paused only if its deposit was
\* paid or waived (INV-C5): a stale request cannot take it past AWAITING_DEPOSIT.
THEOREM DeploymentFollowsSettlement == Spec => []DeployedWasSettled
<1>1. IInv => DeployedWasSettled
  BY DEF IInv
<1> QED
  BY <1>1, Invariant, PTL

\* While requests follow one another, an agent is RESERVED only with a hold that will end,
\* and PLACED only with a placement that is active or paused, through any series of
\* holds, lapses, releases and placements.
THEOREM BlockedIsExplained == Spec => []BlockedForAReason
<1>1. IInv => BlockedForAReason
  BY DEF IInv, OneByOne, Reasons, InUse, LastFreeOK, BlockedForAReason
<1> QED
  BY <1>1, Invariant, PTL

-------------------------------------------------------------------------------
(***************************************************************************)
(* What the bills say while requests follow one another                    *)
(***************************************************************************)

\* The bills of a client: nothing is billed before the deposit, an invoice is paid only
\* with the deposit, and nobody is deployed while it is open.
Bills(c) ==
    /\ deposit[c].status = "NONE" => DOMAIN invoice[c] = {}
    /\ \A i, j \in Issued(c) : i = j
    /\ \A i \in Issued(c) : invoice[c][i].amount = deposit[c].required
    /\ deposit[c].status \in Settled => Issued(c) = {}
    /\ deposit[c].status \notin Settled =>
           \A i \in DOMAIN invoice[c] : invoice[c][i].status # "PAID"
    /\ deposit[c].status = "PAID" => PaidTowards(invoice[c]) >= deposit[c].required
    /\ placement[c].status \in Deployed => deposit[c].status \in Settled

\* What the one request in flight has read of the bills is what there is; a payment that
\* covers the invoice is one that covers the deposit.
Read(t) ==
    /\ t.op = "waive" => t.issued = Issued(t.c) /\ deposit[t.c].status # "NONE"
    /\ t.op = "recalculate" => deposit[t.c].status = "PENDING" /\ t.issued = Issued(t.c)
    /\ t.op = "void" => t.i \in Voidable(t.c)
    /\ t.op \in {"pay", "tallied"} => t.i \in Issued(t.c)
    /\ t.op = "tallied" =>
           /\ t.full <=> invoice[t.c][t.i].paid + t.amount >= invoice[t.c][t.i].amount
           /\ t.was = deposit[t.c].status
           /\ t.now \in {"PENDING", "PARTIALLY_PAID", "PAID"}
           /\ t.now = "PAID" <=> t.full
    /\ t.op = "activate" => deposit[t.c].status \in Settled
    /\ t.op = "move" /\ t.to \in Deployed => deposit[t.c].status \in Settled

BillsRead == (\A c \in Client : Bills(c)) /\ \A w \in Worker : Read(task[w])
BillsInv == ~overlapped => BillsRead

\* With every other row void, what was paid is what the one row says.
LEMMA PaidSole ==
    ASSUME NEW rows, NEW i \in DOMAIN rows, rows[i].status # "VOID", rows[i].paid \in Int,
           \A j \in DOMAIN rows : j # i => rows[j].status = "VOID"
    PROVE  PaidTowards(rows) = rows[i].paid
<1> DEFINE f == [j \in DOMAIN rows |-> rows[j].paid]
           S == {j \in DOMAIN rows : rows[j].status # "VOID"}
<1>1. S = {i} /\ f[i] = rows[i].paid
  OBVIOUS
<1>2. PaidTowards(rows) = SumOver(f, S)
  BY DEF PaidTowards
<1> HIDE DEF f, S
<1>3. IsFiniteSet({i}) /\ {i} \ {i} = {}
  BY FS_Singleton
<1>4. SumOver(f, {i}) = f[i] + SumOver(f, {})
  <2>1. \A x \in {i} : f[x] \in Int
    BY <1>1
  <2>2. SumOver(f, {i}) = f[i] + SumOver(f, {i} \ {i})
    BY <1>3, <2>1, SumRemove
  <2> QED
    BY <1>3, <2>2
<1>5. SumOver(f, {}) = 0
  BY SumEmpty
<1> QED
  BY <1>1, <1>2, <1>4, <1>5

LEMMA BillsSame ==
    ASSUME NEW CONSTANT c \in Client, Bills(c), deposit'[c] = deposit[c], invoice'[c] = invoice[c],
           placement'[c].status \in Deployed =>
               placement[c].status \in Deployed \/ deposit[c].status \in Settled
    PROVE  Bills(c)'
<1>1. Issued(c)' = Issued(c)
  BY DEF Issued
<1> QED
  BY <1>1 DEF Bills

\* A step about one client leaves the bills of the others alone.
LEMMA BillsOfOthers ==
    ASSUME BillsRead, NEW CONSTANT c \in Client, Bills(c)',
           \A d \in Client : d # c => /\ deposit'[d] = deposit[d] /\ invoice'[d] = invoice[d]
                                      /\ placement'[d] = placement[d]
    PROVE  \A d \in Client : Bills(d)'
<1> SUFFICES ASSUME NEW CONSTANT d \in Client, d # c PROVE Bills(d)'
  OBVIOUS
<1>1. Bills(d) /\ deposit'[d] = deposit[d] /\ invoice'[d] = invoice[d] /\ placement'[d] = placement[d]
  BY DEF BillsRead
<1> QED
  BY <1>1, BillsSame

LEMMA BillsAllSame ==
    ASSUME BillsRead, UNCHANGED <<deposit, invoice>>,
           \A c \in Client : placement'[c].status \in Deployed =>
               placement[c].status \in Deployed \/ deposit[c].status \in Settled
    PROVE  \A c \in Client : Bills(c)'
<1> SUFFICES ASSUME NEW CONSTANT c \in Client PROVE Bills(c)'
  OBVIOUS
<1>1. Bills(c)
  BY DEF BillsRead
<1> QED
  BY <1>1, BillsSame

LEMMA BillsBegin ==
    ASSUME IInv, BillsInv, NEW w \in Worker, NEW t, Begin(w, t), ~overlapped', Read(t),
           UNCHANGED <<placement, billing>>
    PROVE  BillsRead'
<1>1. ~overlapped /\ \A v \in Worker : task[v] = Idle
  BY DEF Begin
<1>2. BillsRead /\ UNCHANGED deposit /\ UNCHANGED invoice /\ UNCHANGED placement
  BY <1>1 DEF BillsInv, billing
<1>3. \A c \in Client : Bills(c)'
  BY <1>2, BillsAllSame
<1>4. \A v \in Worker : task'[v] = IF v = w THEN t ELSE Idle
  BY <1>1 DEF Begin, IInv, TypeOK
<1>5. \A v \in Worker : Read(task[v])'
  <2> SUFFICES ASSUME NEW CONSTANT v \in Worker PROVE Read(task[v])'
    OBVIOUS
  <2>1. CASE v = w
    BY <1>2, <1>4, <2>1 DEF Read, Issued, Voidable
  <2>2. CASE v # w
    BY <1>4, <2>2 DEF Read, Idle
  <2> QED
    BY <2>1, <2>2
<1> QED
  BY <1>3, <1>5 DEF BillsRead

\* The end of the one request in flight.
LEMMA BillsEnd ==
    ASSUME IInv, BillsInv, NEW w \in Worker, NEW op, Doing(w, op), op # "idle", Done(w), ~overlapped'
    PROVE  BillsRead /\ Read(task[w]) /\ \A v \in Worker : Read(task[v])'
<1>1. task[w] # Idle
  BY DEF Doing, Idle
<1>2. ~overlapped /\ task' = [task EXCEPT ![w] = Idle]
  BY DEF Done
<1>3. \A v \in Worker : v # w => task[v] = Idle
  BY <1>1, <1>2 DEF IInv, OneByOne, Alone
<1>4. \A v \in Worker : task'[v] = Idle
  BY <1>2, <1>3 DEF IInv, TypeOK
<1>5. \A v \in Worker : Read(task[v])'
  BY <1>4 DEF Read, Idle
<1> QED
  BY <1>2, <1>5 DEF BillsInv, BillsRead

\* A step that only moves a placement, to where its deposit allows.
LEMMA BillsMove ==
    ASSUME IInv, BillsRead, NEW c \in Client, NEW status, SetStatus(c, status),
           UNCHANGED billing, status \in Deployed => deposit[c].status \in Settled
    PROVE  \A d \in Client : Bills(d)'
<1>1. UNCHANGED deposit /\ UNCHANGED invoice
  BY DEF billing
<1>2. \A d \in Client : placement'[d].status = IF d = c THEN status ELSE placement[d].status
  BY DEF SetStatus, IInv, TypeOK
<1> QED
  BY <1>1, <1>2, BillsAllSame

LEMMA PipelineReads ==
    ASSUME IInv, BillsInv, NEW w \in Worker, Pipeline(w), ~overlapped' PROVE BillsRead'
<1> DEFINE t == task[w]
<1>0. TypeOK
  BY DEF IInv
<1>1. ASSUME NEW c \in Client, BeginSelect(w, c) PROVE BillsRead'
  <2> DEFINE n == [op |-> "select", c |-> c, held |-> ActiveHolds # {}]
  <2>1. Read(n)
    BY DEF Read
  <2>2. Begin(w, n) /\ UNCHANGED <<placement, billing>>
    BY <1>1 DEF BeginSelect
  <2> HIDE DEF n
  <2> QED
    BY <2>1, <2>2, BillsBegin
<1>2. ASSUME NEW c \in Client, BeginAccept(w, c) PROVE BillsRead'
  <2> DEFINE n == [op |-> "accept", c |-> c]
  <2>1. Read(n)
    BY DEF Read
  <2>2. Begin(w, n) /\ UNCHANGED <<placement, billing>>
    BY <1>2 DEF BeginAccept
  <2> HIDE DEF n
  <2> QED
    BY <2>1, <2>2, BillsBegin
<1>3. ASSUME NEW c \in Client, BeginActivate(w, c) PROVE BillsRead'
  <2> DEFINE n == [op |-> "activate", c |-> c]
  <2>1. Read(n)
    BY <1>3 DEF Read, BeginActivate
  <2>2. Begin(w, n) /\ UNCHANGED <<placement, billing>>
    BY <1>3 DEF BeginActivate
  <2> HIDE DEF n
  <2> QED
    BY <2>1, <2>2, BillsBegin
<1>4. ASSUME NEW c \in Client, NEW amount \in Required, BeginApprove(w, c, amount) PROVE BillsRead'
  <2> DEFINE n == [op |-> "approve", c |-> c, amount |-> amount]
  <2>1. Read(n)
    BY DEF Read
  <2>2. Begin(w, n) /\ UNCHANGED <<placement, billing>>
    BY <1>4 DEF BeginApprove
  <2> HIDE DEF n
  <2> QED
    BY <2>1, <2>2, BillsBegin
<1>5. ASSUME NEW c \in Client, NEW ready \in BOOLEAN, BeginPrepare(w, c, ready) PROVE BillsRead'
  <2> DEFINE n == [op |-> "prepare", c |-> c, ready |-> ready]
  <2>1. Read(n)
    BY DEF Read
  <2>2. Begin(w, n) /\ UNCHANGED <<placement, billing>>
    BY <1>5 DEF BeginPrepare
  <2> HIDE DEF n
  <2> QED
    BY <2>1, <2>2, BillsBegin
<1>6. ASSUME NEW c \in Client, NEW to \in PlacementStatus, BeginMove(w, c, to) PROVE BillsRead'
  <2> DEFINE n == [op |-> "move", c |-> c, to |-> to]
  <2>1. ~overlapped /\ <<placement[c].status, to>> \in Transitions
    BY <1>6 DEF BeginMove, Begin
  <2>2. to \in Deployed => placement[c].status \in Deployed
    BY <2>1 DEF Transitions, Deployed
  <2>3. to \in Deployed => deposit[c].status \in Settled
    BY <2>1, <2>2 DEF BillsInv, BillsRead, Bills
  <2>4. Read(n)
    BY <2>3 DEF Read
  <2>5. Begin(w, n) /\ UNCHANGED <<placement, billing>>
    BY <1>6 DEF BeginMove
  <2> HIDE DEF n
  <2> QED
    BY <2>4, <2>5, BillsBegin
<1>7. CASE CommitSelect(w)
  <2>1. BillsRead /\ \A v \in Worker : Read(task[v])'
    BY <1>7, BillsEnd DEF CommitSelect
  <2>2. t.c \in Client /\ UNCHANGED billing
    BY <1>0, <1>7, TaskShape DEF CommitSelect
  <2>3. CASE UNCHANGED placement
    BY <2>1, <2>2, <2>3, BillsAllSame DEF BillsRead, billing
  <2>4. CASE SetStatus(t.c, "SELECTED")
    BY <2>1, <2>2, <2>4, BillsMove DEF BillsRead, Deployed
  <2> QED
    BY <1>7, <2>3, <2>4 DEF CommitSelect
<1>8. CASE CommitAccept(w)
  <2>1. BillsRead /\ \A v \in Worker : Read(task[v])'
    BY <1>8, BillsEnd DEF CommitAccept
  <2>2. t.c \in Client /\ UNCHANGED billing /\ SetStatus(t.c, "AWAITING_DEPOSIT")
    BY <1>0, <1>8, TaskShape DEF CommitAccept
  <2> QED
    BY <2>1, <2>2, BillsMove DEF BillsRead, Deployed
<1>9. CASE CommitApprove(w)
  <2>1. BillsRead /\ \A v \in Worker : Read(task[v])'
    BY <1>9, BillsEnd DEF CommitApprove
  <2>2. t.c \in Client /\ t.amount \in Required
    BY <1>0, <1>9, TaskShape DEF CommitApprove
  <2>3. PICK c \in Client, amount \in Required : c = t.c /\ amount = t.amount
    BY <2>2
  <2>4. /\ deposit[c].status = "NONE" /\ SetStatus(c, "AWAITING_AGREEMENT")
        /\ deposit' = [deposit EXCEPT ![c] = [status |-> "PENDING", required |-> amount]]
        /\ invoice' = [invoice EXCEPT ![c] = Append(invoice[c], NewInvoice(amount))]
    BY <1>0, <1>9, <2>3, InvoiceTyped DEF CommitApprove
  <2>5. /\ deposit'[c].status = "PENDING" /\ deposit'[c].required = amount
        /\ placement'[c].status = "AWAITING_AGREEMENT"
        /\ \A d \in Client : d # c => /\ deposit'[d] = deposit[d] /\ invoice'[d] = invoice[d]
                                      /\ placement'[d] = placement[d]
        /\ invoice'[c] = Append(invoice[c], NewInvoice(amount))
    BY <1>0, <2>4, InvoiceTyped DEF SetStatus, TypeOK
  <2>6. DOMAIN invoice[c] = {}
    BY <2>1, <2>4 DEF BillsRead, Bills
  <2>7. DOMAIN invoice'[c] = {1} /\ invoice'[c][1] = NewInvoice(amount)
    <3>1. invoice[c] \in Seq(InvoiceRow) /\ Len(invoice[c]) \in Nat
          /\ DOMAIN invoice[c] = 1..Len(invoice[c])
      BY <1>0, InvoiceTyped, LenProperties
    <3>2. Len(invoice[c]) = 0
      <4>1. \A n \in Nat : 1..n = {} => n = 0
        <5> SUFFICES ASSUME NEW n \in Nat, n # 0 PROVE 1 \in 1..n
          OBVIOUS
        <5> QED
          OBVIOUS
      <4>2. 1..Len(invoice[c]) = {}
        BY <2>6, <3>1
      <4> QED
        BY <3>1, <4>1, <4>2
    <3>3. NewInvoice(amount) \in InvoiceRow
      BY DEF NewInvoice, InvoiceRow, InvoiceStatus
    <3>4. /\ invoice'[c] \in Seq(InvoiceRow) /\ Len(invoice'[c]) = 1
          /\ invoice'[c][1] = NewInvoice(amount)
      BY <2>5, <3>1, <3>2, <3>3, AppendProperties
    <3> QED
      BY <3>4, LenProperties
  <2>8. invoice'[c][1].status = "ISSUED" /\ invoice'[c][1].amount = amount
    BY <2>7 DEF NewInvoice
  <2>9. Issued(c)' = {1}
    BY <2>7, <2>8 DEF Issued
  <2>10. Bills(c)'
    BY <2>5, <2>7, <2>8, <2>9 DEF Bills, Settled, Deployed
  <2>11. \A d \in Client : Bills(d)'
    BY <2>1, <2>5, <2>10, BillsOfOthers
  <2> QED
    BY <2>1, <2>11 DEF BillsRead
<1>10. CASE CommitPrepare(w)
  <2>1. BillsRead /\ \A v \in Worker : Read(task[v])'
    BY <1>10, BillsEnd DEF CommitPrepare
  <2>2. t.c \in Client
    BY <1>0, <1>10, TaskShape DEF CommitPrepare
  <2>3. \A c \in Client : placement'[c].status = placement[c].status
    BY <1>0, <1>10, <2>2 DEF CommitPrepare, TypeOK
  <2> QED
    BY <1>10, <2>1, <2>3, BillsAllSame DEF BillsRead, CommitPrepare, billing
<1>11. CASE CommitActivate(w)
  <2>1. BillsRead /\ Read(t) /\ \A v \in Worker : Read(task[v])'
    BY <1>11, BillsEnd DEF CommitActivate
  <2>2. t.c \in Client /\ UNCHANGED billing /\ SetStatus(t.c, "ACTIVE") /\ t.op = "activate"
    BY <1>0, <1>11, TaskShape DEF CommitActivate, Doing
  <2>3. deposit[t.c].status \in Settled
    BY <2>1, <2>2 DEF Read
  <2> QED
    BY <2>1, <2>2, <2>3, BillsMove DEF BillsRead
<1>12. CASE CommitMove(w)
  <2>1. BillsRead /\ Read(t) /\ \A v \in Worker : Read(task[v])'
    BY <1>12, BillsEnd DEF CommitMove
  <2>2. t.c \in Client /\ UNCHANGED billing /\ SetStatus(t.c, t.to) /\ t.op = "move"
    BY <1>0, <1>12, TaskShape DEF CommitMove, Doing
  <2>3. t.to \in Deployed => deposit[t.c].status \in Settled
    BY <2>1, <2>2 DEF Read
  <2> QED
    BY <2>1, <2>2, <2>3, BillsMove DEF BillsRead
<1> QED
  BY <1>1, <1>2, <1>3, <1>4, <1>5, <1>6, <1>7, <1>8, <1>9, <1>10, <1>11, <1>12 DEF Pipeline

LEMMA RowsTyped ==
    ASSUME TypeOK, NEW c \in Client
    PROVE  /\ invoice[c] \in Seq(InvoiceRow) /\ Len(invoice[c]) \in Nat
           /\ DOMAIN invoice[c] = 1..Len(invoice[c])
           /\ \A i \in DOMAIN invoice[c] : invoice[c][i] \in InvoiceRow
BY InvoiceTyped, RowsOfSeq

LEMMA VoidedSays ==
    ASSUME TypeOK, NEW c \in Client, NEW I
    PROVE  /\ DOMAIN Voided(c, I) = DOMAIN invoice[c]
           /\ \A i \in DOMAIN invoice[c] :
                 /\ Voided(c, I)[i].status = IF i \in I THEN "VOID" ELSE invoice[c][i].status
                 /\ Voided(c, I)[i].amount = invoice[c][i].amount
                 /\ Voided(c, I)[i].paid = invoice[c][i].paid
<1>1. \A i \in DOMAIN invoice[c] : invoice[c][i] \in InvoiceRow
  BY RowsTyped
<1> QED
  BY <1>1 DEF Voided, InvoiceRow

\* What a payment adds up to when it is the only one: the one open invoice, with it.
LEMMA TallySays ==
    ASSUME TypeOK, NEW c \in Client, Bills(c), NEW i \in Issued(c), NEW amount \in Payments
    PROVE  LET rows == WithPayment(c, i, amount)
               was == deposit[c].status
               now == IF was = "WAIVED" THEN "WAIVED"
                      ELSE DepositStatusFor(PaidTowards(rows), deposit[c].required)
           IN  /\ Covered(rows[i]) <=> invoice[c][i].paid + amount >= invoice[c][i].amount
               /\ now \in {"PENDING", "PARTIALLY_PAID", "PAID"}
               /\ now = "PAID" <=> Covered(rows[i])
<1> DEFINE rows == WithPayment(c, i, amount)
           old == invoice[c]
<1>1. i \in DOMAIN old /\ old[i].status = "ISSUED" /\ \A j \in DOMAIN old : old[j] \in InvoiceRow
  BY RowsTyped DEF Issued
<1>2. /\ DOMAIN rows = DOMAIN old
      /\ rows[i].paid = old[i].paid + amount /\ rows[i].amount = old[i].amount
      /\ rows[i].status \in {old[i].status, "PAID"}
      /\ \A j \in DOMAIN old : j # i => rows[j] = old[j]
  BY <1>1, PaymentAdds
<1>3. amount \in Nat /\ old[i].paid \in Nat /\ old[i] \in InvoiceRow
  BY <1>1, PlacementAssumption DEF InvoiceRow
<1>4. rows[i].status # "VOID" /\ rows[i].paid = old[i].paid + amount /\ rows[i].amount = old[i].amount
  BY <1>1, <1>2
<1>5. deposit[c].status \notin Settled /\ old[i].amount = deposit[c].required
  BY DEF Bills
<1>6. \A j \in DOMAIN old : j # i => old[j].status = "VOID"
  <2>1. \A j \in DOMAIN old : old[j].status \in InvoiceStatus /\ old[j].status # "PAID"
    BY <1>1, <1>5 DEF InvoiceRow, Bills
  <2>2. \A j \in DOMAIN old : j # i => old[j].status # "ISSUED"
    BY DEF Bills, Issued
  <2> QED
    BY <2>1, <2>2 DEF InvoiceStatus
<1> HIDE DEF rows, old
<1>7. PaidTowards(rows) = old[i].paid + amount
  <2>1. i \in DOMAIN rows /\ rows[i].status # "VOID" /\ rows[i].paid \in Int
    BY <1>1, <1>2, <1>3, <1>4
  <2>2. \A j \in DOMAIN rows : j # i => rows[j].status = "VOID"
    BY <1>2, <1>6
  <2> QED
    BY <1>4, <2>1, <2>2, PaidSole
<1>8. Covered(rows[i]) <=> old[i].paid + amount >= old[i].amount
  BY <1>4 DEF Covered
<1>9. deposit[c].status # "WAIVED"
  BY <1>5 DEF Settled
<1> DEFINE now == DepositStatusFor(old[i].paid + amount, old[i].amount)
<1>10. now \in {"PENDING", "PARTIALLY_PAID", "PAID"}
       /\ (now = "PAID" <=> old[i].paid + amount >= old[i].amount)
  BY DEF DepositStatusFor
<1> HIDE DEF now
<1> QED
  BY <1>5, <1>7, <1>8, <1>9, <1>10 DEF rows, old, now

LEMMA BillingReads ==
    ASSUME IInv, BillsInv, NEW w \in Worker, Billing(w), ~overlapped' PROVE BillsRead'
<1> DEFINE t == task[w]
<1>0. TypeOK
  BY DEF IInv
<1>1. ASSUME NEW c \in Client, BeginWaive(w, c) PROVE BillsRead'
  <2> DEFINE n == [op |-> "waive", c |-> c, issued |-> Issued(c)]
  <2>1. Read(n)
    BY <1>1 DEF Read, BeginWaive
  <2>2. Begin(w, n) /\ UNCHANGED <<placement, billing>>
    BY <1>1 DEF BeginWaive
  <2> HIDE DEF n
  <2> QED
    BY <2>1, <2>2, BillsBegin
<1>2. ASSUME NEW c \in Client, NEW amount \in Required, BeginRecalculate(w, c, amount)
      PROVE  BillsRead'
  <2> DEFINE n == [op |-> "recalculate", c |-> c, amount |-> amount, issued |-> Issued(c)]
  <2>1. Read(n)
    BY <1>2 DEF Read, BeginRecalculate, Recalculable
  <2>2. Begin(w, n) /\ UNCHANGED <<placement, billing>>
    BY <1>2 DEF BeginRecalculate
  <2> HIDE DEF n
  <2> QED
    BY <2>1, <2>2, BillsBegin
<1>3. ASSUME NEW c \in Client, NEW i \in DOMAIN invoice[c], BeginVoid(w, c, i) PROVE BillsRead'
  <2> DEFINE n == [op |-> "void", c |-> c, i |-> i]
  <2>1. Read(n)
    BY <1>3 DEF Read, BeginVoid
  <2>2. Begin(w, n) /\ UNCHANGED <<placement, billing>>
    BY <1>3 DEF BeginVoid
  <2> HIDE DEF n
  <2> QED
    BY <2>1, <2>2, BillsBegin
<1>4. ASSUME NEW c \in Client, NEW i \in DOMAIN invoice[c], NEW amount \in Payments,
             BeginPay(w, c, i, amount)
      PROVE  BillsRead'
  <2> DEFINE n == [op |-> "pay", c |-> c, i |-> i, amount |-> amount]
  <2>1. Read(n)
    BY <1>4 DEF Read, BeginPay
  <2>2. Begin(w, n) /\ UNCHANGED <<placement, billing>>
    BY <1>4 DEF BeginPay
  <2> HIDE DEF n
  <2> QED
    BY <2>1, <2>2, BillsBegin
<1>5. CASE TallyPayment(w)
  <2> DEFINE full == Covered(WithPayment(t.c, t.i, t.amount)[t.i])
             was == deposit[t.c].status
             now == IF was = "WAIVED" THEN "WAIVED"
                    ELSE DepositStatusFor(PaidTowards(WithPayment(t.c, t.i, t.amount)),
                                          deposit[t.c].required)
             n == [op |-> "tallied", c |-> t.c, i |-> t.i, amount |-> t.amount,
                   full |-> full, was |-> was, now |-> now]
  <2>1. /\ ~overlapped /\ task[w] # Idle /\ task' = [task EXCEPT ![w] = n]
        /\ UNCHANGED placement /\ UNCHANGED deposit /\ UNCHANGED invoice
    BY <1>5 DEF TallyPayment, Proceed, Doing, Idle, billing
  <2>2. BillsRead /\ \A v \in Worker : v # w => task[v] = Idle
    BY <2>1 DEF IInv, OneByOne, Alone, BillsInv
  <2>3. t.c \in Client /\ t.amount \in Payments /\ t.i \in Issued(t.c)
    BY <1>0, <1>5, <2>2, TaskShape DEF TallyPayment, Doing, BillsRead, Read
  <2>4. /\ full <=> invoice[t.c][t.i].paid + t.amount >= invoice[t.c][t.i].amount
        /\ now \in {"PENDING", "PARTIALLY_PAID", "PAID"}
        /\ now = "PAID" <=> full
    BY <1>0, <2>2, <2>3, TallySays DEF BillsRead
  <2> HIDE DEF full, now
  <2>5. Read(n)
    BY <2>3, <2>4 DEF Read
  <2> HIDE DEF n
  <2>6. \A v \in Worker : task'[v] = IF v = w THEN n ELSE Idle
    BY <1>0, <2>1, <2>2 DEF TypeOK
  <2>7. \A v \in Worker : Read(task[v])'
    <3> SUFFICES ASSUME NEW CONSTANT v \in Worker PROVE Read(task[v])'
      OBVIOUS
    <3>1. CASE v = w
      BY <2>1, <2>5, <2>6, <3>1 DEF Read, Issued, Voidable
    <3>2. CASE v # w
      BY <2>6, <3>2 DEF Read, Idle
    <3> QED
      BY <3>1, <3>2
  <2>8. \A c \in Client : Bills(c)'
    BY <2>1, <2>2, BillsAllSame
  <2> QED
    BY <2>7, <2>8 DEF BillsRead
<1>6. CASE CommitWaive(w)
  <2>1. BillsRead /\ Read(t) /\ \A v \in Worker : Read(task[v])'
    BY <1>6, BillsEnd DEF CommitWaive
  <2>2. t.c \in Client /\ t.op = "waive"
    BY <1>0, <1>6, TaskShape DEF CommitWaive, Doing
  <2>3. PICK c \in Client : c = t.c
    BY <2>2
  <2>4. /\ deposit' = [deposit EXCEPT ![c].status = "WAIVED"]
        /\ invoice' = [invoice EXCEPT ![c] = Voided(c, Issued(c))]
        /\ OnDepositSettled(c)
    BY <1>6, <2>1, <2>2, <2>3 DEF CommitWaive, Read
  <2>5. \A d \in Client : d # c => placement'[d] = placement[d]
    BY <1>0, <2>4 DEF OnDepositSettled, SetStatus, TypeOK
  <2>6. /\ deposit'[c].status = "WAIVED" /\ invoice'[c] = Voided(c, Issued(c))
        /\ \A d \in Client : d # c => deposit'[d] = deposit[d] /\ invoice'[d] = invoice[d]
    BY <1>0, <2>4, InvoiceTyped DEF TypeOK
  <2>7. Issued(c)' = {}
    <3>1. DOMAIN invoice'[c] = DOMAIN invoice[c]
          /\ \A i \in DOMAIN invoice[c] :
                invoice'[c][i].status = IF i \in Issued(c) THEN "VOID" ELSE invoice[c][i].status
      BY <1>0, <2>6, VoidedSays
    <3> QED
      BY <3>1 DEF Issued
  <2>8. Bills(c)'
    BY <2>6, <2>7 DEF Bills, Settled
  <2> QED
    BY <2>1, <2>5, <2>6, <2>8, BillsOfOthers DEF BillsRead
<1>7. CASE CommitRecalculate(w)
  <2>1. BillsRead /\ Read(t) /\ \A v \in Worker : Read(task[v])'
    BY <1>7, BillsEnd DEF CommitRecalculate
  <2>2. t.c \in Client /\ t.amount \in Required /\ t.op = "recalculate"
    BY <1>0, <1>7, TaskShape DEF CommitRecalculate, Doing
  <2>3. PICK c \in Client, amount \in Required : c = t.c /\ amount = t.amount
    BY <2>2
  <2> DEFINE rows == Voided(c, Issued(c))
             n == Len(rows)
  <2>4. /\ deposit[c].status = "PENDING"
        /\ deposit' = [deposit EXCEPT ![c].required = amount]
        /\ invoice' = [invoice EXCEPT ![c] = Append(rows, NewInvoice(amount))]
        /\ UNCHANGED placement
    BY <1>7, <2>1, <2>2, <2>3 DEF CommitRecalculate, Read
  <2>5. Bills(c) /\ placement'[c].status \notin Deployed
    BY <2>1, <2>4 DEF BillsRead, Bills, Settled
  <2>6. rows \in Seq(InvoiceRow) /\ n \in Nat /\ DOMAIN rows = 1..n
    BY VoidedRows, LenProperties DEF Outgrow
  <2>7. \A i \in 1..n : rows[i].status \notin {"ISSUED", "PAID"}
    <3>1. DOMAIN rows = DOMAIN invoice[c]
          /\ \A i \in DOMAIN invoice[c] :
                rows[i].status = IF i \in Issued(c) THEN "VOID" ELSE invoice[c][i].status
      BY <1>0, VoidedSays
    <3>2. \A i \in DOMAIN invoice[c] : invoice[c][i].status # "PAID"
      BY <2>4, <2>5 DEF Bills, Settled
    <3> QED
      BY <2>6, <3>1, <3>2 DEF Issued
  <2> HIDE DEF rows
  <2>8. /\ deposit'[c].status = "PENDING" /\ deposit'[c].required = amount
        /\ invoice'[c] = Append(rows, NewInvoice(amount))
        /\ \A d \in Client : d # c => deposit'[d] = deposit[d] /\ invoice'[d] = invoice[d]
    BY <1>0, <2>4, InvoiceTyped DEF TypeOK
  <2>9. NewInvoice(amount) \in InvoiceRow /\ NewInvoice(amount).status = "ISSUED"
        /\ NewInvoice(amount).amount = amount
    BY DEF NewInvoice, InvoiceRow, InvoiceStatus
  <2>10. /\ invoice'[c] \in Seq(InvoiceRow) /\ Len(invoice'[c]) = n + 1
         /\ \A i \in 1..n : invoice'[c][i] = rows[i]
         /\ invoice'[c][n + 1] = NewInvoice(amount)
    BY <2>6, <2>8, <2>9, AppendProperties
  <2>11. DOMAIN invoice'[c] = 1..(n + 1)
    BY <2>10, LenProperties
  <2> HIDE DEF n
  <2>12. n + 1 \in 1..(n + 1) /\ \A i \in 1..(n + 1) : i \in 1..n \/ i = n + 1
    BY <2>6
  <2>13. Issued(c)' = {n + 1}
    BY <2>7, <2>9, <2>10, <2>11, <2>12 DEF Issued
  <2>14. \A i \in DOMAIN invoice'[c] : invoice'[c][i].status # "PAID"
    BY <2>7, <2>9, <2>10, <2>11, <2>12
  <2>15. Bills(c)'
    BY <2>5, <2>8, <2>9, <2>10, <2>13, <2>14 DEF Bills, Settled
  <2> QED
    BY <2>1, <2>4, <2>8, <2>15, BillsOfOthers DEF BillsRead
<1>8. CASE CommitVoid(w)
  <2>1. BillsRead /\ Read(t) /\ \A v \in Worker : Read(task[v])'
    BY <1>8, BillsEnd DEF CommitVoid
  <2>2. t.c \in Client /\ t.op = "void"
    BY <1>0, <1>8, TaskShape DEF CommitVoid, Doing
  <2>3. t.i \in Voidable(t.c)
    BY <2>1, <2>2 DEF Read
  <2>4. PICK c \in Client, i \in Voidable(t.c) : c = t.c /\ i = t.i
    BY <2>2, <2>3
  <2>5. i \in DOMAIN invoice[c] /\ invoice[c][i].status # "PAID" /\ Bills(c)
    BY <2>1, <2>4 DEF Voidable, BillsRead
  <2>6. /\ UNCHANGED deposit /\ UNCHANGED placement
        /\ invoice' = [invoice EXCEPT ![c] = Voided(c, {i})]
    BY <1>8, <2>4 DEF CommitVoid
  <2>7. /\ invoice'[c] = Voided(c, {i})
        /\ \A d \in Client : d # c => invoice'[d] = invoice[d]
    BY <1>0, <2>6, InvoiceTyped
  <2>8. /\ DOMAIN invoice'[c] = DOMAIN invoice[c]
        /\ \A j \in DOMAIN invoice[c] :
              /\ invoice'[c][j].status = IF j = i THEN "VOID" ELSE invoice[c][j].status
              /\ invoice'[c][j].amount = invoice[c][j].amount
    BY <1>0, <2>7, VoidedSays
  <2>9. Issued(c)' \subseteq Issued(c)
    BY <2>8 DEF Issued
  <2>10. deposit[c].status = "PAID" => invoice'[c] = invoice[c]
    <3> SUFFICES ASSUME deposit[c].status = "PAID" PROVE invoice'[c] = invoice[c]
      OBVIOUS
    <3>1. invoice[c][i] \in InvoiceRow /\ invoice[c] \in Seq(InvoiceRow)
      BY <1>0, <2>5, RowsTyped
    <3>2. invoice[c][i].status = "VOID"
      BY <2>5, <3>1 DEF Bills, Settled, Issued, InvoiceRow, InvoiceStatus
    <3>3. [invoice[c][i] EXCEPT !.status = "VOID"] = invoice[c][i]
      BY <3>1, <3>2 DEF InvoiceRow
    <3>4. invoice'[c] = [j \in DOMAIN invoice[c] |-> invoice[c][j]]
      BY <2>7, <3>3 DEF Voided
    <3> QED
      BY <3>1, <3>4
  <2>11. Bills(c)'
    <3>1. deposit'[c] = deposit[c] /\ placement'[c] = placement[c]
      BY <2>6
    <3>2. /\ \A j, k \in Issued(c)' : j = k
          /\ \A j \in Issued(c)' : invoice'[c][j].amount = deposit'[c].required
          /\ deposit'[c].status \in Settled => Issued(c)' = {}
      <4>1. Issued(c) \subseteq DOMAIN invoice[c]
        BY DEF Issued
      <4> QED
        BY <2>5, <2>8, <2>9, <3>1, <4>1 DEF Bills
    <3>3. deposit'[c].status \notin Settled =>
             \A j \in DOMAIN invoice'[c] : invoice'[c][j].status # "PAID"
      BY <2>5, <2>8, <3>1 DEF Bills
    <3>4. deposit'[c].status = "PAID" => PaidTowards(invoice[c])' >= deposit'[c].required
      BY <2>5, <2>10, <3>1 DEF Bills, PaidTowards
    <3>5. deposit'[c].status = "NONE" => DOMAIN invoice'[c] = {}
      BY <2>5, <2>8, <3>1 DEF Bills
    <3>6. placement'[c].status \in Deployed => deposit'[c].status \in Settled
      BY <2>5, <3>1 DEF Bills
    <3> QED
      BY <3>2, <3>3, <3>4, <3>5, <3>6 DEF Bills
  <2> QED
    BY <2>1, <2>6, <2>7, <2>11, BillsOfOthers DEF BillsRead
<1>9. CASE CommitPayment(w)
  <2>1. BillsRead /\ Read(t) /\ \A v \in Worker : Read(task[v])'
    BY <1>9, BillsEnd DEF CommitPayment
  <2>2. t.c \in Client /\ t.op = "tallied" /\ t.amount \in Payments /\ t.full \in BOOLEAN
    BY <1>0, <1>9, TaskShape DEF CommitPayment, Doing
  <2>3. /\ t.i \in Issued(t.c)
        /\ t.full <=> invoice[t.c][t.i].paid + t.amount >= invoice[t.c][t.i].amount
        /\ t.was = deposit[t.c].status
        /\ t.now \in {"PENDING", "PARTIALLY_PAID", "PAID"}
        /\ t.now = "PAID" <=> t.full
    BY <2>1, <2>2 DEF Read
  <2>4. PICK c \in Client, i \in Issued(t.c), amount \in Payments,
             now \in {"PENDING", "PARTIALLY_PAID", "PAID"} :
          c = t.c /\ i = t.i /\ amount = t.amount /\ now = t.now
    BY <2>2, <2>3
  <2> DEFINE row == [invoice[c][i] EXCEPT !.paid = @ + amount,
                                          !.status = IF now = "PAID" THEN "PAID" ELSE @]
  <2>5. /\ Bills(c) /\ i \in DOMAIN invoice[c] /\ invoice[c][i].status = "ISSUED"
        /\ i \in Issued(c) /\ invoice[c][i] \in InvoiceRow /\ invoice[c] \in Seq(InvoiceRow)
    BY <1>0, <2>1, <2>4, RowsTyped DEF BillsRead, Issued
  <2>6. deposit[c].status \notin Settled /\ invoice[c][i].amount = deposit[c].required
    BY <2>5 DEF Bills
  <2>7. /\ invoice' = [invoice EXCEPT ![c] = [invoice[c] EXCEPT ![i] = row]]
        /\ deposit' = [deposit EXCEPT ![c].status = now]
        /\ IF now = "PAID" THEN OnDepositSettled(c) ELSE UNCHANGED <<placement, everSettled>>
    <3>1. t.was \notin Settled /\ (t.full <=> now = "PAID")
      BY <2>3, <2>4, <2>6
    <3>2. invoice' = [invoice EXCEPT ![c] = [invoice[c] EXCEPT ![i] = row]]
      BY <1>0, <1>9, <2>4, <2>5, <3>1, InvoiceTyped DEF CommitPayment, InvoiceRow
    <3>3. deposit' = [deposit EXCEPT ![c].status = now]
      BY <1>9, <2>4, <3>1 DEF CommitPayment, Settled
    <3>4. IF now = "PAID" THEN OnDepositSettled(c) ELSE UNCHANGED <<placement, everSettled>>
      BY <1>9, <2>4, <3>1 DEF CommitPayment, Settled, NowSettled
    <3> QED
      BY <3>2, <3>3, <3>4
  <2>8. amount \in Nat /\ invoice[c][i].paid \in Nat
    BY <2>5, PlacementAssumption DEF InvoiceRow
  <2>9. /\ row.status = IF now = "PAID" THEN "PAID" ELSE "ISSUED"
        /\ row.amount = invoice[c][i].amount /\ row.paid = invoice[c][i].paid + amount
    BY <2>5, <2>8 DEF InvoiceRow
  <2> HIDE DEF row
  <2>10. /\ DOMAIN invoice'[c] = DOMAIN invoice[c] /\ invoice'[c][i] = row
         /\ \A j \in DOMAIN invoice[c] : j # i => invoice'[c][j] = invoice[c][j]
         /\ \A d \in Client : d # c => invoice'[d] = invoice[d]
    BY <1>0, <2>5, <2>7, InvoiceTyped
  <2>11. /\ deposit'[c].status = now /\ deposit'[c].required = deposit[c].required
         /\ \A d \in Client : d # c => deposit'[d] = deposit[d]
    BY <1>0, <2>7 DEF TypeOK
  <2>12. \A d \in Client : d # c => placement'[d] = placement[d]
    BY <1>0, <2>7 DEF OnDepositSettled, SetStatus, TypeOK
  <2>13. \A j \in DOMAIN invoice[c] : j # i => invoice[c][j].status = "VOID"
    <3>1. \A j \in DOMAIN invoice[c] :
            invoice[c][j].status \in InvoiceStatus /\ invoice[c][j].status # "PAID"
      BY <1>0, <2>5, <2>6, RowsTyped DEF InvoiceRow, Bills
    <3>2. \A j \in DOMAIN invoice[c] : j # i => invoice[c][j].status # "ISSUED"
      BY <2>5 DEF Bills, Issued
    <3> QED
      BY <3>1, <3>2 DEF InvoiceStatus
  <2>14. Bills(c)'
    <3>1. CASE now = "PAID"
      <4>1. Issued(c)' = {}
        BY <2>9, <2>10, <2>13, <3>1 DEF Issued
      <4>2. PaidTowards(invoice'[c]) = invoice[c][i].paid + amount
        <5>1. /\ i \in DOMAIN invoice'[c] /\ invoice'[c][i].status # "VOID"
              /\ invoice'[c][i].paid \in Int
              /\ \A j \in DOMAIN invoice'[c] : j # i => invoice'[c][j].status = "VOID"
          BY <2>5, <2>8, <2>9, <2>10, <2>13, <3>1
        <5>2. PaidTowards(invoice'[c]) = invoice'[c][i].paid
          BY <5>1, PaidSole
        <5> QED
          BY <2>9, <2>10, <5>2
      <4>3. invoice[c][i].paid + amount >= deposit'[c].required
        BY <2>3, <2>4, <2>6, <2>11, <3>1
      <4>4. PaidTowards(invoice[c])' >= deposit'[c].required
        BY <4>2, <4>3 DEF PaidTowards
      <4> QED
        BY <2>11, <3>1, <4>1, <4>4 DEF Bills, Settled
    <3>2. CASE now # "PAID"
      <4>1. Issued(c)' = {i}
        BY <2>5, <2>9, <2>10, <2>13, <3>2 DEF Issued
      <4>2. \A j \in DOMAIN invoice'[c] : invoice'[c][j].status # "PAID"
        BY <2>9, <2>10, <2>13, <3>2
      <4>3. placement'[c].status \notin Deployed
        BY <2>5, <2>6, <2>7, <3>2 DEF Bills
      <4>4. deposit'[c].status \notin Settled /\ deposit'[c].status # "NONE"
        BY <2>11, <3>2 DEF Settled
      <4>5. invoice'[c][i].amount = deposit'[c].required
        BY <2>6, <2>9, <2>10, <2>11
      <4> QED
        BY <4>1, <4>2, <4>3, <4>4, <4>5 DEF Bills, Settled
    <3> QED
      BY <3>1, <3>2
  <2> QED
    BY <2>1, <2>10, <2>11, <2>12, <2>14, BillsOfOthers DEF BillsRead
<1> QED
  BY <1>1, <1>2, <1>3, <1>4, <1>5, <1>6, <1>7, <1>8, <1>9 DEF Billing

LEMMA HoldReads ==
    ASSUME IInv, BillsInv, HoldNext, UNCHANGED <<placement, deposit, invoice>>, ~overlapped'
    PROVE  BillsRead'
<1> DEFINE Work == {"idle", "reserve", "reserved", "extend", "expire", "release", "bulk"}
<1>1. /\ ~overlapped
      /\ \A v \in Worker : task'[v] = task[v] \/ task'[v].op \in Work
  <2>1. ASSUME NEW w \in Worker, NEW t, t.op \in Work, Begin(w, t) \/ Proceed(w, t) PROVE <1>1
    BY <2>1 DEF Begin, Proceed, IInv, TypeOK
  <2>2. ASSUME NEW w \in Worker, Done(w) PROVE <1>1
    BY <2>2 DEF Done, Idle, IInv, TypeOK
  <2>3. CASE \E h \in DOMAIN hold : HoldLapses(h)
    BY <2>3 DEF HoldLapses
  <2>4. ASSUME NEW w \in Worker, NEW c \in Client, BeginReserve(w, c) PROVE <1>1
    BY <2>1, <2>4 DEF BeginReserve
  <2>5. ASSUME NEW w \in Worker, NEW h \in DOMAIN hold,
               BeginExtend(w, h) \/ BeginRelease(w, h) \/ BeginExpire(w, h)
        PROVE  <1>1
    BY <2>1, <2>5 DEF BeginExtend, BeginRelease, BeginExpire
  <2>6. ASSUME NEW w \in Worker, NEW s \in Free, BeginBulk(w, s) PROVE <1>1
    BY <2>1, <2>6 DEF BeginBulk
  <2>7. ASSUME NEW w \in Worker, CreateHold(w) PROVE <1>1
    BY <2>1, <2>7 DEF CreateHold
  <2>8. ASSUME NEW w \in Worker,
               \/ MarkReserved(w) \/ CommitExtend(w) \/ CommitRelease(w)
               \/ CommitExpire(w) \/ CommitBulk(w) \/ GiveUp(w)
        PROVE  <1>1
    BY <2>2, <2>8 DEF MarkReserved, CommitExtend, CommitRelease, CommitExpire, CommitBulk, GiveUp
  <2> QED
    BY <2>3, <2>4, <2>5, <2>6, <2>7, <2>8 DEF HoldNext
<1>2. BillsRead
  BY <1>1 DEF BillsInv
<1>3. \A c \in Client : Bills(c)'
  BY <1>2, BillsAllSame
<1>4. \A v \in Worker : Read(task[v])'
  <2> SUFFICES ASSUME NEW CONSTANT v \in Worker PROVE Read(task[v])'
    OBVIOUS
  <2>1. CASE task'[v] = task[v]
    BY <1>2, <2>1 DEF BillsRead, Read, Issued, Voidable
  <2>2. CASE task'[v].op \in Work
    BY <2>2 DEF Read
  <2> QED
    BY <1>1, <2>1, <2>2
<1> QED
  BY <1>3, <1>4 DEF BillsRead

\* While requests follow one another, what is billed is what there is to pay.
THEOREM BillsInvariant == Spec => []BillsInv
<1>1. Init => BillsInv
  <2> SUFFICES ASSUME Init PROVE BillsRead
    BY DEF BillsInv
  <2>1. \A c \in Client : Bills(c)
    BY DEF Init, Bills, Issued, Settled, Deployed
  <2>2. \A w \in Worker : Read(task[w])
    BY DEF Init, Read, Idle
  <2> QED
    BY <2>1, <2>2 DEF BillsRead
<1>2. IInv /\ BillsInv /\ [Next]_vars => BillsInv'
  <2> SUFFICES ASSUME IInv, BillsInv, [Next]_vars, ~overlapped' PROVE BillsRead'
    BY DEF BillsInv
  <2>1. CASE UNCHANGED vars
    <3>1. UNCHANGED <<task, overlapped, placement, deposit, invoice>>
      BY <2>1 DEF vars
    <3>2. BillsRead
      BY <3>1 DEF BillsInv
    <3> QED
      BY <3>1, <3>2 DEF BillsRead, Bills, Read, Issued, Voidable
  <2>2. CASE Next
    BY <2>2, PipelineReads, BillingReads, HoldReads DEF Next
  <2> QED
    BY <2>1, <2>2
<1> QED
  BY <1>1, <1>2, Invariant, PTL DEF Spec

\* While requests follow one another, part-payments, recalculations and voided invoices in
\* any order leave at most one open invoice, for what the deposit asks, none once it is
\* settled, and a PAID deposit is covered by payments that still count (billing.service.ts).
THEOREM BillsAlwaysAgree == Spec => []BillsAgree
<1>1. BillsInv => BillsAgree
  BY DEF BillsInv, BillsRead, Bills, BillsAgree
<1> QED
  BY <1>1, BillsInvariant, PTL

\* INV-C5, whole: whatever overlaps, a placement is prepared or deployed only after a
\* settlement, and its deposit still says so as long as requests follow one another.
THEOREM SettledFirst == Spec => []SettledBeforeDeployment
<1>1. IInv /\ BillsInv => SettledBeforeDeployment
  BY DEF IInv, DeployedWasSettled, BillsInv, BillsRead, Bills, Settled, SettledBeforeDeployment
<1> QED
  BY <1>1, Invariant, BillsInvariant, PTL
===============================================================================
