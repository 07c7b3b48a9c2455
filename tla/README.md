# Hirewise Connect: TLA+ verification project

Hirewise Connect is a web application (Next.js, Prisma, PostgreSQL) that joins
a staffing marketplace with an online academy. Agencies and independent agents
list talent; clients reserve, interview and place agents and pay deposits;
coaches sell courses; members earn commission on referrals. This directory
holds TLA+ models of the parts where the program moves money or promises a
person to a client, the TLC runs that check them on small instances, and
TLAPS proofs for every value of the constants.

## 1. The system

All state is in PostgreSQL. `src/src/server/services` holds one module per
subject, over one repository module per aggregate in
`src/src/server/repositories`. Pages and routes under `src/src/app` parse
their input and call one service operation each. A background worker
(`src/src/server/jobs/worker.ts`) drains an event outbox and a job queue every
few seconds and runs maintenance passes every ten minutes.

Transactions run at READ COMMITTED. Unless the code says otherwise (an
advisory lock, a conditional `updateMany`, a unique index), what a request read
may be out of date when it writes. That, and gateways that answer late, is
where this system is hard.

| Component | State | Operations | Talks to | Hard behaviour | What makes it correct | Model |
|---|---|---|---|---|---|---|
| Coach Wallet | `CoachEarning`, `WalletLedgerEntry`, `CoachWithdrawal` | record, set fee, release, reverse, request, approve, pay, reject, adjust, set share | settlement, refunds, maintenance | balance from two snapshots; fee arrives late; unlocked release | never takes more than is available; ledger and rows agree; rounding never drifts | `Wallet`, `Account`, `CoachShare` |
| Course payment | `CourseEnrollment` | enrol, staff payment, refund | promo codes, online payment, wallet, referral | checked before the transaction, written in it | settled once; refunds within what was paid | `CoursePayment` |
| Online payments | `OnlinePayment` | checkout, webhook, return page, maintenance pass | Maya, PayPal | lost, late and repeated notices; answers that are stale when used | no money goes unnoticed; a paid attempt is decided | `CoursePayment` |
| Promo codes | `PromoRedemption` | apply, replace, remove, consume, release | enrolment price | last use taken twice; removal beside payment | limits; price follows the code; a consumed use stays | `CoursePayment` |
| Referral commissions | `Commission`, `CommissionAdjustment`, `Payout` | record, release, reduce, reverse, request, decide | refunds | reversal during a payout; stale part-refund totals | adjustments cancel; payouts add up | `Referral` |
| Reservations | `Reservation`, `AgentAvailability` | reserve, extend, release, expire | placements, maintenance | two writes without a transaction; ended hold written by id | no agent is blocked for no reason | `Reservation` |
| Placement and billing | `Placement`, `Deposit`, `Invoice`, `Payment` | select, approve, accept, prepare, activate, pause, end; pay, waive, recalculate, void | holds | every step checks the status it loaded | no deployment without a settled deposit; bills agree with payments | `Placement` |
| Outbox | `OutboxEvent`, `Notification` | publish, claim a batch, handle, fail, commit | every service; the job queue | a batch is one transaction that fails as a whole; the same event is tried again, with dedupeKeys computed anew | nobody is told twice under one dedupeKey; what is processed was told; every event settles | `Outbox` |
| Job queue and mailer | `Job` | enqueue, claim, send, record, send at once | mail and SMS providers | claims that outlast their lock, processes that end, a request that claims what a worker has | tries are bounded; what was delivered is not sent again; every job settles | `JobQueue` |
| Agency seats | `AgencySeatLedger`, `SeatRequest`, `SeatPurchase`, plans | assign plan, change, request, purchase, join, override | membership | totals counted before the write; seats returned by three different passes | no join without a seat; the ledger adds up | `Seats` |
| Agency membership | `AgencyMembership`, `ExitRequest`, `AgentProfile` | verify, expire, leave, remove, decide, escalate, complete, release the seat, archive | seats, maintenance | long workflows of several people and passes, each writing by id | requests, profiles and memberships agree; what ended stays ended | `Membership` |
| Learning | `QuizAttempt`, `AssignmentSubmission`, `LessonProgress`, `CourseCompletion`, `Certification`, `Assessment` | start, submit, review, hand in, grade, open, mark, edit, sync, refund, exit, assess, expire, revoke | enrolment, agency exits | progress read before it is written; a tally that does not see its neighbour | nobody is completed or certified without having earned it, and whoever has earned it is | `Learning` |
| Interviews | `InterviewRequest`, `InterviewRequestCandidate`, `Interview`, availability of agents | request, hand over, respond, schedule, complete, decide, ask again, cancel | placements, holds, opportunities | several interviews and rounds in one request, one agent in several requests; each step reads rows another writes | the status says what the interviews say; agents are as free as their interviews | `Interviews` |
| Opportunities | `Opportunity`, `Submission` | submit, review, withdraw, invite, close, withdraw on exit | interviews, agency exits | checks before the transaction, writes by id | one open submission per agent; submissions follow the decisions | `Interviews` |
| Access codes | `CourseAccessCode` | redeem | enrolments | the last use taken twice | | no |

`PROJECT.json` lists every other part with the reason it is not modelled: reads
(search, reports, catalogues), content editing, redaction and matching of data,
authentication, and input/output.

## 2. Modules

| Module | Extends | What it is |
|---|---|---|
| `CoachShare` | | the money arithmetic of `lib/coach-wallet.ts`, also used by commissions |
| `Sums` | | the `_sum` aggregates of the repositories |
| `Account` | | the abstract account the wallet promises |
| `Wallet` | `CoachShare`, `Sums` | `wallet.service.ts` |
| `CoursePayment` | | `academy`, `online-payment`, `maya-payment`, `paypal-payment` and `promo` services |
| `Referral` | `CoachShare`, `Sums` | `commission` and `payout` services |
| `Reservation` | | `reservation.service.ts` and the bulk availability change |
| `Placement` | `Reservation`, `Sums` | `placement`, `billing` and the selection of `interview` services |
| `JobQueue` | | the job table, the worker's second half, `mailer.ts` |
| `Outbox` | `JobQueue` | `outbox.ts`, the worker's first half, `notification.service.ts` |
| `Membership` | | `exit.service.ts` and how memberships start and end |
| `Seats` | `Membership`, `Sums` | `seat.service.ts`, joins, and the override of `agency.service.ts` |
| `Learning` | | `quiz`, `assignment`, `lesson-media`, `progress`, `certification` and `assessment` services |
| `Interviews` | | `interview.service.ts` and the submissions of `opportunity.service.ts` |
| `MoneyProofs` | `CoachShare`, `Sums`, `TLAPS` | lemmas about sums over finite sets and about rounded shares |
| `SeatsOutboxProofs` | `Seats`, `Outbox`, `MoneyProofs`, `TLAPS` | theorems about the two: the seats and exits, and the outbox to which their services publish |
| other `*Proofs` | the module of that name, `TLAPS`; those about money also `MoneyProofs` | theorems about it |
| `MC*` | the above | model values and definitions the `.cfg` files need |

`PROJECT.json` ("map") gives the source lines of every definition.

### How state and steps correspond to the code

**Wallet.** A variable per table, rows as records; the ledger is kept as sums
per sale, per withdrawal and per coach, because nothing reads a single entry.
The operations take the coach's advisory lock, so each is one action, except
two: recording an earning and releasing holds take no lock. A withdrawal
request reads its amount in two statements, each with its own snapshot
(`balanceFor`), so it is three steps between which the unlocked operations
run. `requestAt` and `seen` are the request's program counter and local
variable, and `Unlocked` is the advisory lock. `paidAt` orders the earnings as
`markWithdrawnUpTo` does.

**CoursePayment.** A request is a worker; `task[w]` is what it has read. An
action is one statement outside a transaction, one transaction, or one gateway
call. Row locks make each transaction equivalent to its atomic action: every
settlement claims its rows with a conditional update, promo operations hold
the code's advisory lock, and a database deadlock aborts one of the
transactions, which is `GiveUp`. Maya and PayPal share one gateway whose moves
(`GatewayMoves`) are the union of both: `failed` to `paid` is Maya's second
card on the same page, `approved` is PayPal's. `paid_other` is a payment whose
amount, currency or reference is not what was asked for. Staff who record a
payment enter the price they were shown. An attempt that is still open may be
returned by a second checkout request; that changes nothing and is left out.
The history variables `settled` (counted up to 2) and `settledBy` record what
the properties compare. An access code settles an enrolment through the same
operation as staff do, at the price read in the same transaction, and adds no
behaviour here.

**Referral.** A transaction is a worker. Its reads are steps; its writes, which
others see when it commits, are one step. `SaleLocked` and `Locked` are the row
locks a writer holds until then. `Promise.all` over one transaction's
connection runs its statements in order, so reads have an order. One referrer
is enough, because every query is per referrer.

**Reservation and Placement.** A request loads what it decides on, then commits
its writes: two steps. What a transaction reads once it has started to write is
read with its commit, except that a payment has a step of its own for adding up
the payments it sees (`TallyPayment`); the sum for the invoice and the sum for
the deposit are taken in that same step, the second with the payment's own write
of the invoice (`WithPayment`). The staff form reserves without a
transaction, so its two writes are two steps. `overlapped` is a history
variable: two requests have been in flight at once. There is one agent, and one
placement per client. The start date and the required checklist items are one
flag, `ready`. `HoldLapses` is the passing of a hold's date.
Availability that profile approval, interviews and the bypass workflow set, and
the references of provider payments, are left out.

**JobQueue and Outbox.** A process is a worker loop, a call of the cron route or
a web request that sends a mail itself; `task[w]` is what it has claimed. A
batch of events is one transaction: what its handlers write is kept in the task
(`wrote`) and appears with the events' new states in `CommitBatch`, and
`LockedRows` is what `FOR UPDATE SKIP LOCKED` skips. A handler is the set of
notifications it makes, with the mails and text messages each of these queues;
it may throw after any part of them (`FailEvent`), which stays in the batch.
`DedupeKeysOf` are the dedupeKeys a try computes: most are fixed by the event,
and those of `Timed` change with the `period` of the try, because the handler
puts the time into them (a millisecond, `Date.now() >> 16`, the day);
`PassPeriod` is time passing. A statement that fails in the database takes the
whole batch with it (`AbortBatch`). A job runs outside any transaction, so
claim, send and record are three steps, between which the process may end or the
ten minutes of its claim pass (`LockAges`, which may hit a process that is still
alive). `retaken` and `overlapped` are histories: a job was claimed while
another process had it, two batches were in flight at once.

**Membership and Seats.** As in `Placement` a request loads what it decides on
and commits its writes: two steps. Rows of a table are a sequence. The ledger is
append-only and read as sums; its CONSUMED and RELEASED entries name their
membership and are counted on its row, the others are three sums per agency. The
two partial unique indexes are `UniqueOpen`, a condition of every commit.
`about` names the rows a request is about, `raced` collects what two requests in
flight at once were both about, `overridden` the memberships that staff ended
beside an open request. A person may start as an independent freelancer
(`Freelancer`); how one becomes that, and the profile archived for it, are left
out. The calendar is nondeterministic: a pass may find any row due.

**Learning.** A request has up to four steps: it loads and checks, decides what
to write to the lesson's progress (reading it again in its transaction), tallies
the course, and commits. The tally sees what is committed and its own writes.
`Deciding` and `Tallied` are the requests whose transactions have written and
keep rows locked; a second insert of the completion or of the certificate hits a
unique index, and the whole request is rolled back. The verdict of a grading is
nondeterministic. What counts (`Counting`) are the required lessons and, where
the course asks for it, the last assessment in the order. Staff and coaches edit
both: a lesson made required or optional and the setting of the course are a
request with a tally, `Rearrange` is another order and has none. The histories
are `counted` (the lessons of the tally that completed the course), `latest`
(those of the last tally), `contested` (lessons one of whose attempts or
submissions two requests decided), `stale` (lessons whose progress was
overwritten by a request that had read it before) and `raced` (two tallies, two
starts, or two writers of the enrolment's status overlapped).

**Interviews.** As in `Placement`, load and commit are two steps; an outcome and
a decision have a third between them, in which their transaction has written its
own row and reads the others without seeing what is not committed (`Written` are
the rows others wait for). What one transaction reads is read in one step. There
is one opportunity, because every query about submissions is per opportunity,
and one agency. `standing` is what of a membership matters here. A hold is kept
as far as a selection makes it, with the availability before it. The histories
are `raced` (rows two requests in flight at once were about) and `restored`
(agents whose hold has ended). Withdrawn candidates, which no operation makes,
approval of profiles and the bulk change of availability are left out.

## 3. Runs

Nine runs pass, three show a disagreement between the code and what its own
documents say. Deadlock is not checked: all bounds are on how often something
may be started, so a bounded model may come to rest.

| Run | Instance | What it shows |
|---|---|---|
| `wallet_money` | one coach, two sales of 10 and 7; either fees, rates and part-refunds vary, or adjustments of ±3 and a second withdrawal | The wallet implements `Account` (refinement mapping `Promise`): whatever runs between a request's two snapshots, it never takes more than is available when it commits. Ledger equals rows; part-refunds telescope; the split is locked at the sale; one open withdrawal; earnings marked withdrawn are covered by payouts; the revenue report is at most two minor units off |
| `payment_money` | two requests; either one enrolment with two checkouts, or one learner with two enrolments and two codes | settled once, unsettled money reported, refunds within what was paid, use limits and prices of codes, decided attempts and consumed uses stay so |
| `payment_fair` | one attempt, two workers, one crash, fairness | an attempt with money is decided although no webhook need ever arrive and a request may end between its commit and its report |
| `referral_money` | two payouts; two sales while transactions follow one another; one once they overlap, with no manual adjustment beside another | part-refunds take their share, reversals net out, payouts add up, what is closed stays closed, a new payout holds what it asks for |
| `referral_stuck` | two sales, one payout, a manual deduction | **violated**: a payout that a reversal makes worthless is rejected but keeps its rows |
| `placement_deals` | either one client with two requests at once, two invoices, amounts 1 and 2; or two clients, two holds, one request at a time | no placement gets past AWAITING_DEPOSIT without a settlement; PAID invoices are covered; bills agree with the deposit; an agent who is RESERVED or PLACED has a hold or a running placement, also when requests die half-way |
| `placement_stuck` | one client, one request at a time | **violated**: a deposit settled before the agreement is accepted leaves the placement waiting for good |
| `outbox_worker` | two processes, two events with a key in common or one event and a mail that a request sends, two tries each, two faults or one period that passes, fairness | nobody is told twice under one dedupeKey, nothing is processed that was not told, what was delivered stays so, and every event and job settles |
| `seats_exits` | two people, one of them perhaps a freelancer, one agency, two memberships, two exit requests, two orders, two requests | seats, ledger, requests and profiles agree with the memberships; no join takes a seat that is not there; what ended stays ended |
| `seats_released` | two people, three memberships, one request at a time | **violated**: a join that is never verified returns its seat twice, and two people share it |
| `learning_study` | one learner, two requests, in four parts: a quiz with reviews and a refund, an assignment with an edited curriculum, two assessments that change places, a certified course with exits, refunds and assessments | completions are earned, and earned ones happen; certificates follow the template; attempts stay within the limit |
| `interviews_flow` | two agents in one request of two rounds, with three interviews at most; one agent in two requests, of two clients once two are in flight; or two submissions and the request they end in; two requests of the program in flight while there are at most two rows and one round | the status of a request says what its interviews say, agents are as free as their interviews, submissions follow decisions, nobody has two open ones and none waits for a closed opportunity |

**Parts of an instance.** Several runs check the union of smaller instances in
one state graph: an action constraint, or a specification that conjoins it to
`Next` (`TwoPartSpec`, `ThreePartSpec`, `OverlapSpec`, `PartSpec`), keeps a behaviour within one
of them. A behaviour of a part is a behaviour of the full specification, so
nothing that is reached is spurious, and a safety property is checked in every
part as it would be in a run of its own. What does not vary together is named in
the `MC` module. For `WorkSettles` the constraint leaves out only steps that no
fairness condition asks for. `FirstIsC1` in `MCPlacement` names the clients
by who comes first, which the specification does not tell apart. In
`MCSeats`, `MCLearning`, `MCInterviews` and the one-client part of `MCPlacement` little new work
starts once two requests have met about the same row: what is in flight runs to
its end, but chains of several such accidents are not explored.

The type invariants are parts of the inductive invariants of section 5, where they
are proved; that of `Seats` is `MemberTypes` and `SeatTypes` in `SeatsOutboxProofs`.

**Why the bounds are enough.** Each sum and lock is per coach, per referrer,
per enrolment, per agency, per learner and course or per agent, so one of these
suffices; two sales, attempts, payouts, clients or people are what it takes for
one to interfere with another, and two requests in flight give every pairwise
race. Prices are chosen so that rounding down actually loses something (10 and 7
units at 60 % and 30 %, with a fee of 1 and refunds of 3 and 4), so that the two
limits of a code bind for different codes, and so that a payment may fall short
of, meet or exceed an invoice. `RefundParts` in `payment_money` are 1 and 3 of
4: two of them together may be everything or too much. `settled` saturates at 2,
which the property already forbids. Two faults in `outbox_worker` are a crash
and a stale claim, or the same twice; two tries are one retry and the end, and one
period that passes (`MaxPeriod`) puts it between them. Two orders of two assessments
and two edits are what it takes to change what counts and to change it back.
`AdjustmentLimit`, `MaxManual`, `MaxHolds`, `MaxInvoices`, `MaxWithdrawals`,
`MaxCrashes`, `MaxFaults`, `MaxMembers`, `MaxExits`, `MaxOrders`, `MaxChange`,
`MaxAttempts`, `MaxSubmissions`, `MaxEdits`, `MaxPeriod`, `MaxRequests`, `MaxRounds` and the sets `Attempt`, `Payout`,
`Event` and `Job` bound how many rows may be created or how often something may
happen. Symmetry is used over workers and over interchangeable rows, never in a
run with a liveness property. What the proofs of section 5 cover does not depend
on any bound.

**Fairness.** `payment_fair`: the maintenance pass runs every ten minutes, takes
up to 25 attempts of the last day that are still open and looks each one up, so
for each attempt `Reconcile` is strongly fair; a gateway that is asked again and
again answers in the end (strong fairness of asking and of deciding); and a
request that has started ends (weak fairness of a worker's steps). It is assumed
that an attempt is among the 25 of its day and that the pass is reached although
a pass before it may throw, and nothing is assumed of webhooks or return pages.
`outbox_worker`: the loop and the cron route come round again and again and
claim what is oldest, so claiming each waiting event and each due job is
strongly fair; a pass that has claimed goes on (weak fairness of a process's
steps); ten minutes pass (weak fairness of `LockAges`). Processes may still end
and batches be aborted, as often as `MaxFaults` says.

**Properties under overlap.** Some properties hold whatever overlaps and others
only while requests about the same rows follow one another. The latter are
conditional on the histories (`overlapped`, `raced`, `overridden`, `contested`,
`stale`, `retaken`); the comments say which, and the known divergences below say
what an overlap does.

## 4. Findings

* `referral_stuck` (`commission.service.ts:99`): rejecting a payout because a
  reversal left nothing of it does not release the other commissions and
  adjustments it had claimed, although the documents say that rejecting
  releases everything.
* `placement_stuck` (`placement.service.ts:199`): a deposit paid or waived
  while the agreement is open is never looked at again, and the placement waits
  in AWAITING_DEPOSIT although the runbook says that full payment moves it on.
* `seats_released` (`seat.service.ts:125`): the expiry of a join that was never
  verified returns its seat without noting it on the membership; the pass for
  held seats then returns it again, and the agency may fill one seat twice.

### Known divergences that no run is spent on

The models contain these behaviours, but for the order of the maintenance passes,
which have no module of their own. No checked property forbids them; two come with a
statement of what the code's comments say, which the models refute.

Payments:

* Money that came second, or was the wrong amount, is reported after the commit
  (`online-payment.service.ts:69`). A crash between the two loses the report,
  because a retry finds the attempt PAID or MISMATCH. (With `MaxCrashes = 1` TLC
  finds `UnsettledMoneyIsFlagged` violated.)
* Applying a code while staff mark the enrolment paid sets it back to PENDING
  (`promo.service.ts:264`); it can then be settled twice.
* Two part-refunds at once that together give everything back leave the
  enrolment PAID with access (`academy.service.ts:798`).
* A checkout is opened for the old price although its attempt was cancelled
  during the gateway call (`maya-payment.service.ts:64`); its money becomes a
  reported mismatch.
* Staff who record a payment while the code is given up leave the enrolment
  PAID below its price (`academy.service.ts:785`).
* An attempt stored as FAILED after a first card is not reconciled again; if
  the learner then pays and the webhook is lost, nothing looks again
  (`maya-payment.service.ts:89`).
* A sale refunded in full before its gateway fee is known never gets its fee;
  the loss is not in the revenue report.
* Two payout requests at once may leave two open payouts; a reversal that
  overlaps a request leaves a payout that asks for a reversed commission
  (`commission.service.ts:84`); an approval may overwrite a rejection; two
  part-refunds at once reduce the commission by too little.

Placements:

* Payments added up at the same time may leave a covered invoice open, and an
  older sum may overwrite WAIVED or PAID (`billing.service.ts:163`, `:174`).
* A step that loaded a placement before it was cancelled revives it.
* `transitionPlacement` takes a placement in DEPLOYMENT_PREP to ACTIVE without
  the checklist, start date, hold and availability that `activatePlacement`
  looks after, if the caller may activate (`state/placement.ts:22`). The page
  offers Resume on a paused placement only.
* Two clients may both have a placement of the one agent deployed, and the end
  of one sets the agent AVAILABLE and releases a hold of the other.
* A release between the two writes of the staff form leaves the agent RESERVED
  with no hold. The expiry pass may end a hold that was extended after the pass
  listed it.
* Money for an invoice that was voided or paid meanwhile is acknowledged to the
  provider and recorded nowhere (`billing.service.ts:260`).

Outbox, jobs and mail:

* Handlers are said to be idempotent (`handlers.ts:27`), but many put the time of the
  try into the dedupeKey (`handlers.ts:106`, `:126`, `:130`, `:134`, `:168`, `:311`,
  `:318`, `:329`, `:373`, `:464`, `:468`, `:562`-`:564`, `:573`, `:574`). When one
  throws half-way, what it wrote is kept (`worker.ts:25`-`:31`), and its retry in
  another period tells the same person again. A process that dies is no such case: it
  takes the whole batch with it. (With `Timed = {k1, k2}` TLC finds
  `RetriesTellNobodyTwice` violated.)
* Two batches at once may both tell the same (`notification.repository.ts:19`:
  the dedupeKey has no unique index).
* A handler whose statement fails in the database rolls back the attempt that
  `markFailed` counts, and with it the batch: it is tried for ever, and so is
  what is claimed beside it. The model bounds such failures by `MaxFaults`.
* A RUNNING job whose claim is ten minutes old is claimed again whatever its
  attempts, although `jobs/handlers.ts:20` says that jobs are retried up to five
  times; the late end of the first run overwrites the second's.
* `sendEmailNow` claims the job it has queued without looking at its status
  (`mailer.ts:33`), so a worker that has it too sends the mail twice.
* The maintenance passes run one after the other without a `catch` between them
  (`worker.ts:80`): the first that throws keeps the rest from running.

Seats and memberships:

* Two joins at once may both take the last seat; two plan assignments add both
  bases; two decisions on a request or a purchase add its seats twice.
* A cancellation that loaded the request before an immediate approval makes the
  ended membership ACTIVE again; an escalation may overwrite a decision.
* An expiry may end a membership that was verified meanwhile; a crash between
  `verifyEmail` and the activation leaves it PENDING_VERIFICATION until it
  expires.
* Two release passes, or an override beside a due exit, return a seat twice.
* An override by staff leaves an open exit request behind. Declining it makes the
  ended membership ACTIVE again (`exit.service.ts:241`), while approving it
  fails for ever (`state/agency-membership.ts:23`).
* Somebody whose archived profile is used again has an open membership that every
  lookup with `archivedAt: null` leaves out (`user.repository.ts:16`): they cannot
  ask to leave, cancel, or join by invitation.

Interviews and opportunities:

* A request whose interviews were all no-shows or cancelled moves on to
  CLIENT_DECISION_PENDING, where there is nothing to decide and no way to cancel.
* Two outcomes, or the last two decisions, at once each miss the other
  (`interview.service.ts:276`, `:326`), and the request stays where it is.
* After SECOND_INTERVIEW the interview of the first round has to be decided
  again; a SELECTED after a NOT_SELECTED of the other round leaves the submission
  NOT_SELECTED.
* `cancelRequest` leaves the submissions INTERVIEWING: they can be neither
  withdrawn nor invited again, and the agent cannot be submitted again.
* Scheduling and cancelling write an availability decided on a stale read, also
  over RESERVED; the end of a hold restores what was before it, whatever
  interviews there are by then.
* `setSalesNotes` writes back the status it loaded (`interview.service.ts:358`):
  beside a cancellation it opens the request again.
* Two submissions of an agent at once are both accepted: there is no unique index,
  although `docs/plan-agency-communication-phase6.md:23` names one. The client can
  invite neither, as a request names a candidate once. An invitation beside a
  close opens the opportunity again.

Learning:

* Two requests that finish the last two lessons at once each miss the other, and
  the course is never completed (`progress.service.ts:91`).
* An edit that reorders the curriculum is said to refresh every learner
  (`progress.service.ts:134`), but `moveModule`, `reorderLessons` and `moveLesson`
  do not (`academy.service.ts:504`, `:615`, `:649`). Where the last assessment is
  asked for, another one may count afterwards (`progress.service.ts:33`), and a
  learner who has done everything that counts stays uncompleted until something else
  of theirs is tallied. (TLC finds `EditsRefreshLearners` violated in the instance of
  `learning_study`.)
* Reviews, edits and the external completion do not look at access: an enrolment
  that was refunded, or revoked at an agency exit, may become COMPLETED and
  certified.
* An attempt started twice at once gives two open attempts, or one more than
  allowed; a late submission, or a second review, overwrites an attempt that was
  decided.
* `startAttempt` may write IN_PROGRESS over COMPLETED or REVOKED on the
  enrolment. A lesson whose completion is overwritten keeps its `completedAt`,
  so that no later request completes it again, but its status no longer counts.
* A recommendation given before the completion does not certify when the
  template asks for a coach (`certification.service.ts:74`).
* A certificate that EXPIRED, was REVOKED or made inactive is not found by
  `findExisting`, and issuing it again violates the unique index and rolls back
  the request that completed the course. An exit makes inactive only the
  certificates it saw.

## 5. Proofs

Every theorem holds for all values of the constants that the module's assumption
allows: any number of rows and of requests in flight, any amounts, rates and
bounds. A proof module starts from an inductive invariant (`IInv` in most of them),
proved part by part, and adds others that build on it where a theorem needs more.
A change of state is described once as what no step undoes (`Grows`, `HoldsGrow`,
`BillsGrow`, `EnrolmentsAgree` and the like), and what a request in flight has read
is shown to survive the steps of the others from that. Where a property holds only
while requests about the same rows follow one another, the invariant says that
until a meeting is noted what a request has read is what there is.

| Module | Theorem | Property | Argument |
|---|---|---|---|
| `WalletProofs` | `TypeCorrect` | | inductive as it stands, one step per action; lemmas on record updates |
| | `OneOpenWithdrawal` | `AtMostOneOpenWithdrawal` | the check for an open withdrawal is made steps before the row is inserted. `OneOpenInv` adds that while a request is past its check its coach has no open withdrawal |
| | `LedgerAgrees` | `LedgerMatchesRows` | `LedgerInv` adds that an earning whose fee is unknown, or that does not exist, has no credited part |
| | `EarningsMoveForward` | `EarningLifecycle` | action property, one case per action that writes a status |
| | `RefundsTakeBackTheirShare` | `RefundsTelescope` | `GoodRows`: every row is the split of its sale and has taken back exactly the rounded share of its refunded total. The arithmetic is in `ShareBounds`, `ShareMonotone`, `Telescope` (what is taken for q minus what was taken for r is what a refund from r to q takes) |
| | `SplitStaysLocked` | `SplitLockedAtSale` | from `GoodRows` and `LedgerInv` with `CoachPartBounds` |
| | `RevenueAgrees` | `RevenueReconciles` | `SplitRows`: a row keeps the split of its sale, so the three parts add up to the price; three shares rounded down lose less than one unit each |
| | `IsAnAccount` | `ImplementsAccount` | the refinement, step by step: every action is a step of `Account` under the mapping `Promise`, or leaves what it sees alone. `SeenOK`: what a request has computed between its two snapshots is still there to be taken, because whatever runs without the coach's lock only adds to it |
| | `WithdrawnCovered` | `WithdrawnIsPaid` | `PaidCovers`: what is marked withdrawn is worth at most what was paid out. A payout marks sales in the order they were paid and never more than is left of its amount (`LeftAfter`, by the least counterexample along that order) |
| `MoneyProofs` | `SumRemove`, `SumFilter` | | the two facts the proofs about money use most; see below |
| `CoursePaymentProofs` | `SettledOnlyOnce` | `SettledOnce` | `RowsOK`: an enrolment that nobody gave a code is pending exactly as long as nothing settled it |
| | `RefundsStayWithinPaid` | `RefundWithinPaid` | `RowsOK`: a refund claims its rows with the conditions it read |
| | `CodesHonoured` | `CodesAreHonoured` | `LimitsOK`: uses are counted and taken under the lock of the code, and no other step adds one; `FewerUses` and `RowsStay` carry the counting |
| | `UnsettledMoneyFlagged` | `UnsettledMoneyIsFlagged` | assumes `MaxCrashes = 0`, which section 4 shows to be necessary. `CheckoutsOK`: a checkout that is being created is known to nobody else, and money that did not pay has its report or a request that is about to make it |
| | `DecisionsStay` | `DecidedStaysDecided` | action property: whoever writes an attempt writes it under the condition that it is open |
| | `TypeCorrect` | | |
| `PlacementProofs` | `TypeCorrect` | | with the tasks in flight: what a request names exists |
| | `PaidIsCovered` | `PaidInvoiceIsCovered` | payments are only added, so a sum that was taken earlier (`Outgrow`) is at most what there is now |
| | `DeploymentFollowsSettlement` | first half of `SettledBeforeDeployment`, whatever overlaps | `everSettled` is never unset, and the deposit a request saw settled stays so, though the row may say otherwise later (`Lasting`) |
| | `BlockedIsExplained` | `BlockedForAReason` | `OneByOne`: while at most one request is in flight (`Alone`) what it read is what there is (`Current`), and every block has its reason (`Reasons`) |
| | `BillsAlwaysAgree` | `BillsAgree` | `BillsInv`, until two requests overlap: a client has one invoice at most that is neither paid nor void, it asks for what the deposit asks, and none is PAID while the deposit is open. So what was paid is what that one row says (`PaidSole`), and a payment covers the invoice exactly when it covers the deposit |
| | `SettledFirst` | `SettledBeforeDeployment` | the two before: `BillsInv` says that nobody is deployed while the deposit is open |
| `SeatsOutboxProofs` | `SeatsInvariant` | | `IInv`: the types; `Names`: what a request in flight names exists; `Reads`: what it has read is what there is, until two requests in flight have been about the same row (`OneByOne`); and the state of a seat, of an exit request and of a person's profiles. What a commit may write is said once (`Keeps`: it changes only rows it is about, ended memberships stay ended, an agency's used seats only fall and its total only grows behind the back of others), and `ReadsKept` shows from that that the reads of all others survive |
| | `SeatsAreCounted` | `SeatAccounts` | `SeatOK` of every membership: a release or an exit in flight was about a seat that is held, so no seat is returned twice |
| | `TotalsAddUp` | `LedgerAddsUp` | the base a plan's assignment takes back is the one it read; an order that is settled was pending (`FS_AddElement` on the granted ones) |
| | `RecordsStayTogether` | `RecordsFollowMembership` | `RequestOK`, `ProfileOK`: all commits that touch an exit request or a profile write its membership too, and the unique index leaves a person one open membership |
| | `EndedForGood` | `EndedIsFinal` | action property: a request in flight that writes a status has read that the membership is open |
| | `JoinsNeverOverbook` | `NoOverbooking` | a join read more seats than were used, and used seats only fall behind its back (`SumGrows`); each holder is worth one entry of the sum (`HoldersUse`, by `SumOnes` and `SumSubset`), and the commit adds one holder (`OneMoreHolder`) |
| | `TypeCorrect` | | of `Outbox`, as the four below |
| | `NobodyIsToldTwice` | `ToldOnce` | of one dedupeKey; what a key with the time in it allows is among the known divergences. `BatchesOK`: the events of batches in flight are disjoint; `WritesOK`: who tells only one event's key is its only writer (`SoleWriter`), and as long as batches follow one another there is one writer of all |
| | `ProcessedMeansTold` | `ProcessedIsTold` | whom a handled event tells has a notification, under the dedupeKey of some try, in the rows or in what its batch wrote; `MailsOK`: the mails of the first notification of a key come with it |
| | `TriesBounded`, `DeliveredIsFinal` | the first is no run's property; `DeliveredStaysDelivered` | `JobsOK`: a job that was never retaken is held by one process at most, and is RUNNING while it is held |
| `ReferralProofs` | `ClosedIsFinal` | `ClosedStaysClosed` | reversed rows name no payout, claims touch payable rows only, and while transactions follow one another what one has read of a payout is what there is |
| | `RequestsHold` | `RequestsHoldWhatTheyAsk` | a row that names a payout names one that was requested; a claim that counts as many rows as were read found them as they were read |
| | `TypeCorrect`, `ReadsHold` | | `TInv`: what a transaction has read still holds when it writes. A sale's lock has one holder (`Held`), the refunded total it saw has only grown (`StillSo`), and while transactions follow one another it is what there is (`Fresh`) |
| | `PartsTakeTheirShare` | `PartRefundsTakeTheirShare` | `EInv`: what a commission has lost is the rounded share of what its sale has lost, refund by refund |
| | `ReversalsNetOut` | `ReversalNetsOut` | `Netted` (in `EInv`): what a reversal gives back after a payment is what the earlier part-refunds have not taken |
| | `PayoutsWorth` | `PayoutsAddUp` | `AddUp`: an open payout is worth what it holds, and what was sent is worth what it paid for; each step moves one commission or one payout, whose part of the sum changes by as much (`SumChange`) |
| `LearningProofs` | `RulesOfTheCertificate` | `CertificateFollowsRules` | what an assessment or a completion in flight claims (`Claims`) is still true when it commits, because completions and recommendations are never taken back (`Grows`) |
| | `CompletionEarned` | `CompletionIsEarned` | a lesson is done only with evidence, which no uncontested decision takes back; the tally in flight refers to lessons that are done (`Saw`) |
| | `AttemptsLimited` | `AttemptsWithinLimit` | `Opening`: as long as no other attempt was inserted, the number a start has for its attempt is the next one, no attempt is open and the limit is not reached, because a decision only closes attempts (`DecisionCloses`) |
| | `DoneIsCompleted` | `DoneMeansCompleted` | `Talliers`: while no two tallies meet, what a tally found is still true when its request commits, because nobody who does not tally completes a lesson or changes what counts (`QualifiesFades`), but for a new order of the lessons, after which `latest` says what the last tally counted (`TalliesAgree`, `LessonsSay`); `Drafted`: a lesson that was found done is left alone or marked complete |
| | `TypeCorrect` | | |
| `InterviewsProofs` | `StatusFollows` | `StatusFollowsInterviews` | `RowInv`: what a request of the program has read of a row nobody raced about is what the row says (`RowsCurrent`), and each commit leaves the status its interviews ask for (`RowsOK`) |
| | `SubmissionsFollow` | `SubmissionsFollowDecisions` | `EntryInv` adds the submissions a request of the program has read, those an invitation takes (`InvitedOK`) and those a decision is about to write (`SyncsAll`) |
| | `OpenWanted` | `OpenSubmissionsAreWanted` | `OpenInv` adds the opportunity; a submission that has left the open ones never returns to them (`StaysOpen`) |
| | `AvailabilityFollows` | `AvailabilityFollowsInterviews` | `AgentInv` adds the agents; an agent is freed only by one who has read that nobody else has an interview (`BusyIsOpen`) |
| | `TypeCorrect` | | |

**Sums.** `SumOver` is a fold of the community modules, whose value is a recursive
function over the subsets of the set. Induction over data is not available, so a
statement about all finite sets is proved of a smallest exception: if there were
one, there would be one all of whose proper subsets obey the statement
(`Smallest`, from the well-foundedness of strict inclusion in
`FiniteSetTheorems`), and taking one element out of it gives a contradiction. In this
way the fold is shown to be the one function that its equation describes
(`IteratesOnce`, `SumUnfolds`), and to count any element first (`SumRemove`); the
other lemmas (a changed member, a smaller set, a union, a filtered set, a sum of two
functions) follow. `CoachPart` and `ProportionalShare` use integer division;
`DivMonotone` and the lemmas after it carry the reasoning about it.

**Assumptions.** Each module states its own, and TLC evaluates it in every run: sets of
rows over which the code sums are finite (`Wallet`, `Referral`); amounts are
natural numbers, prices positive, rates between 0 and 100 %; and values that stand for
"nobody" are not among the somebodies (`NoClient` in `Interviews`, `None` in
`Referral`, `NoAgency` in `Membership`). The proofs about `Outbox` need `Event` to be
finite; those about `Seats`, `Learning` and `Interviews` need nothing to be. Only
`UnsettledMoneyFlagged` assumes a bound.

**Only model-checked.** Liveness (`PaidAttemptIsDecided`, `WorkSettles`), which is
out of the prover's reach. Every invariant and every action property of a run that
passes is a theorem for all values of the constants.

## 6. Not modelled

Parallel to the list in `PROJECT.json`: lists and views, CSV parsing of
settlement reports (a report is one `SetFee` per row), gateway signatures, rate
limits, staff editing of codes and policies, the rounding of a discount, the
text of agreements, notifications and mails, permissions (an actor is assumed
to be authorised), and deletion or anonymisation of people.

Of the modelled parts: what handlers do besides telling people (their tasks, and
rows of other components); preferences and the delivery status of notifications;
rows of invitations, portal seats, the founding of an agency, edits of plans and
packages, PENDING_RELEASE entries; the seconds of playback and the listening
gate, the wait before a retake (time limits are an EXPIRED verdict), the score
policy, exam scores and label ranks, deletion of lessons, certificates issued by
hand, and `reviewCertification`, which no certificate reaches because none is
ever created waiting for it.

## 7. Plan

Done, in this order: `Wallet`, `CoursePayment`, `Referral`, `Reservation` and
`Placement`, `JobQueue` and `Outbox`, `Membership` and `Seats`, `Learning`,
`Interviews`; and the proofs of all of these. The order followed the money (what is
paid in, split, paid out, taken back, and who is deployed against which deposit),
then what carries it all (the outbox), then the long workflows of several people.

Next:

1. The handlers of `events/handlers.ts` that write rows of other components, as a
   composition of `Outbox` with those.
2. Access codes and the seats of course purchases as further clients of
   `CoursePayment` and `Learning`.
