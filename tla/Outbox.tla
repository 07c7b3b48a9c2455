--------------------------------- MODULE Outbox ---------------------------------
(***************************************************************************)
(* Domain events, their handlers' notifications and the mails these queue: *)
(* events/outbox.ts, outbox.repository.ts, the first half of runWorkerOnce *)
(* and notification.service.ts, on top of JobQueue.                        *)
(*                                                                         *)
(* A batch of events is one transaction.  Its rows stay locked and its     *)
(* writes unseen until it commits; what its handlers look for they see in  *)
(* the committed rows and in their own.                                    *)
(***************************************************************************)
EXTENDS JobQueue

CONSTANTS
    Event,          \* OutboxEvent rows
    Key,            \* whom a notification tells of what
    Timed,          \* those whose dedupeKey holds the time of the try as well
    KeysOf,         \* the notifications the handler of an event makes
    Origin,         \* per job of a notification: its dedupeKey, and 1 for the first with it
    EventTries,     \* 10: events are claimed below this
    MaxPeriod       \* bound: periods that pass

\* A dedupeKey is fixed, or changes with the period of the try: a millisecond, a minute
\* (Date.now() >> 16), a day.
DedupeKey == ((Key \ Timed) \X {0}) \cup (Timed \X (0..MaxPeriod))

ASSUME OutboxAssumption ==
    /\ IsFiniteSet(Event) /\ KeysOf \in [Event -> SUBSET Key] /\ Timed \subseteq Key
    /\ Origin \in [Job \ Mail -> DedupeKey \X (Nat \ {0})]
    /\ EventTries \in Nat \ {0} /\ MaxPeriod \in Nat

VARIABLES
    event,      \* OutboxEvent rows: processedAt set or not, attempts
    notices,    \* how many notifications carry a dedupeKey
    period,     \* the period the time is in
    overlapped  \* history: two batches have been in flight at once

outbox == <<event, notices, period, overlapped>>
outboxVars == <<job, work, retaken, faults, event, notices, period, overlapped>>

Task ==
    {NoWork} \cup JobTask
    \cup [op: {"events"}, todo: SUBSET Event, wrote: SUBSET DedupeKey, done: SUBSET Event,
          failed: SUBSET Event]

TypeOK ==
    /\ JobTypeOK
    /\ work \in [Process -> Task]
    /\ event \in [Event -> [state: {"NONE", "NEW", "PROCESSED"}, tries: 0..EventTries]]
    /\ notices \in [DedupeKey -> Nat]
    /\ period \in 0..MaxPeriod
    /\ overlapped \in BOOLEAN

OutboxInit ==
    /\ JobInit
    /\ work = [w \in Process |-> NoWork]
    /\ event = [e \in Event |-> [state |-> "NONE", tries |-> 0]]
    /\ notices = [d \in DedupeKey |-> 0]
    /\ period = 0
    /\ overlapped = FALSE

-------------------------------------------------------------------------------
\* publishEvent, in the transaction of the change it tells of.
PublishEvent(e) ==
    /\ event[e].state = "NONE"
    /\ event' = [event EXCEPT ![e].state = "NEW"]
    /\ UNCHANGED <<work, queue, faults, notices, period, overlapped>>

\* FOR UPDATE SKIP LOCKED
LockedRows ==
    UNION {work[w].todo \cup work[w].done \cup work[w].failed :
           w \in {v \in Process : Working(v, "events")}}

Waiting == {e \in Event : event[e].state = "NEW" /\ event[e].tries < EventTries}

\* claimBatch
ClaimBatch(w) ==
    /\ work[w] = NoWork
    /\ Waiting \ LockedRows # {}
    /\ Proceed(w, [op |-> "events", todo |-> Waiting \ LockedRows, wrote |-> {},
                   done |-> {}, failed |-> {}])
    /\ overlapped' = (overlapped \/ \E v \in Process : Working(v, "events"))
    /\ UNCHANGED <<queue, faults, event, notices, period>>

\* The dedupeKeys a handler computes, at one time.
DedupeKeysOf(e) == {<<k, IF k \in Timed THEN period ELSE 0>> : k \in KeysOf[e]}

\* Mutant of Missing: no look for an earlier notification.
AllKeys(w, e) == DedupeKeysOf(e)

\* notifyUser returns at once when the dedupeKey has a notification already.
Missing(w, e) == {d \in DedupeKeysOf(e) : notices[d] = 0 /\ d \notin work[w].wrote}

\* The mails and text messages of the nth notification with a dedupeKey.
MailsOf(d, n) == {j \in Job \ Mail : Origin[j] = <<d, n>>}

\* The handler of the next event ends well.
HandleEvent(w) ==
    /\ Working(w, "events")
    /\ \E e \in work[w].todo :
        Proceed(w, [work[w] EXCEPT !.todo = @ \ {e}, !.done = @ \cup {e},
                                   !.wrote = @ \cup Missing(w, e)])
    /\ UNCHANGED <<queue, faults, outbox>>

\* It throws half-way, or there is none: what it wrote stays in the batch.
FailEvent(w) ==
    /\ Working(w, "events")
    /\ \E e \in work[w].todo : \E D \in SUBSET Missing(w, e) :
        Proceed(w, [work[w] EXCEPT !.todo = @ \ {e}, !.failed = @ \cup {e},
                                   !.wrote = @ \cup D])
    /\ UNCHANGED <<queue, faults, outbox>>

\* A statement of it fails in the database: markFailed fails as well and the
\* whole batch is rolled back, with the failures counted so far.
AbortBatch(w) ==
    /\ Working(w, "events") /\ work[w].todo # {}
    /\ Fault
    /\ Finish(w)
    /\ UNCHANGED <<queue, event, notices, period, overlapped>>

\* Mutant of AfterBatch: a failed event counts as processed.
AfterBatchAny(t, e) ==
    IF e \in t.done \cup t.failed THEN [event[e] EXCEPT !.state = "PROCESSED"] ELSE event[e]

\* markProcessed, markFailed
AfterBatch(t, e) ==
    IF e \in t.done THEN [event[e] EXCEPT !.state = "PROCESSED"]
    ELSE IF e \in t.failed THEN [event[e] EXCEPT !.tries = @ + 1]
    ELSE event[e]

\* The notifications and their mails appear with the events' new state.
CommitBatch(w) ==
    /\ Working(w, "events") /\ work[w].todo = {}
    /\ LET t == work[w] IN
        /\ event' = [e \in Event |-> AfterBatch(t, e)]
        /\ notices' = [d \in DedupeKey |-> IF d \in t.wrote THEN notices[d] + 1 ELSE notices[d]]
        /\ job' = Enqueued(UNION {MailsOf(d, notices[d] + 1) : d \in t.wrote})
    /\ Finish(w)
    /\ UNCHANGED <<retaken, faults, period, overlapped>>

\* Time passes, between two tries or two events.
PassPeriod ==
    /\ period < MaxPeriod
    /\ period' = period + 1
    /\ UNCHANGED <<work, queue, faults, event, notices, overlapped>>

EventSteps(w) == HandleEvent(w) \/ FailEvent(w) \/ CommitBatch(w)

OutboxNext ==
    \/ \E e \in Event : PublishEvent(e)
    \/ \E w \in Process : ClaimBatch(w) \/ EventSteps(w) \/ AbortBatch(w)
    \/ PassPeriod
    \/ JobNext /\ UNCHANGED outbox

OutboxSpec == OutboxInit /\ [][OutboxNext]_outboxVars

\* A loop or the cron call comes round again and again: to the waiting events,
\* to every job that is due; a claimed pass goes on; ten minutes pass.
Fairness ==
    /\ \A e \in Event : SF_outboxVars(\E w \in Process : ClaimBatch(w) /\ e \in work'[w].todo)
    /\ \A j \in Job :
        /\ SF_outboxVars(\E w \in Process, J \in SUBSET Job :
               j \in J /\ ClaimDue(w, J) /\ UNCHANGED outbox)
        /\ WF_outboxVars(LockAges(j) /\ UNCHANGED outbox)
    /\ \A w \in Process : WF_outboxVars(EventSteps(w) \/ (JobSteps(w) /\ UNCHANGED outbox))

FairSpec == OutboxSpec /\ Fairness

-------------------------------------------------------------------------------
(***************************************************************************)
(* Properties                                                              *)
(***************************************************************************)

OfOneEvent(k) == Cardinality({e \in Event : k \in KeysOf[e]}) = 1

\* However often an event is tried, by whichever workers, after partial failures,
\* aborted batches and crashes, nobody is told twice under the same dedupeKey: of
\* what has a fixed one never twice, of what has the time in it once a period.  Of two
\* events that tell the same, only one is told, as long as their batches follow one
\* another (SKIP LOCKED, dedupeKey).
ToldOnce ==
    \A d \in DedupeKey : ~overlapped \/ OfOneEvent(d[1]) => notices[d] <= 1

\* "Handlers must be idempotent": trying an event again tells nobody a second time,
\* whatever its dedupeKeys are made of.  The code does not keep this (README, known
\* divergences), so no run checks it.
RetriesTellNobodyTwice ==
    \A k \in Key : OfOneEvent(k) =>
        Cardinality({d \in DedupeKey : d[1] = k /\ notices[d] > 0}) <= 1

\* An event is processed only when everybody it concerns has been told, over
\* all its tries together, and every mail of it is queued.
ProcessedIsTold ==
    \A e \in Event : event[e].state = "PROCESSED" =>
        \A k \in KeysOf[e] : \E d \in DedupeKey :
            /\ d[1] = k /\ notices[d] > 0
            /\ \A j \in MailsOf(d, 1) : job[j].status # "NONE"

\* "Jobs are retried up to five times": a job that was never taken away from
\* its process, dead or alive, is tried no more often.
TriesAreBounded ==
    \A j \in Job : j \notin retaken => job[j].tries <= JobTries

\* A message that was delivered and recorded is never claimed and sent again,
\* unless two processes had the job at once.
DeliveredStaysDelivered ==
    [][\A j \in Job : j \notin retaken' /\ job[j].status = "COMPLETED" =>
        job'[j] = job[j]]_outboxVars

\* Whatever fails, every event is processed or given up after its tries, and no
\* message is forgotten: it is delivered, or its tries are used up, even when the
\* process that had it died ("the worker retries later").
WorkSettles ==
    /\ \A e \in Event : event[e].state = "NEW" ~>
           event[e].state = "PROCESSED" \/ event[e].tries = EventTries
    /\ \A j \in Job : job[j].status = "PENDING" ~>
           \/ job[j].status = "COMPLETED"
           \/ job[j].status = "FAILED" /\ job[j].tries >= JobTries
===============================================================================
