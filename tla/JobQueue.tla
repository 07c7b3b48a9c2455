-------------------------------- MODULE JobQueue --------------------------------
(***************************************************************************)
(* The job table and those who run what is in it: job.repository.ts,       *)
(* jobs/handlers.ts, jobs/mailer.ts and the second half of runWorkerOnce.  *)
(* A process is a worker loop, a call of the cron route or a web request   *)
(* that sends a mail itself.  A job runs outside any transaction: claim,   *)
(* send and record are three steps, and a process may end between them.    *)
(***************************************************************************)
EXTENDS Naturals, FiniteSets

CONSTANTS
    Job,            \* rows that may be created
    Mail,           \* those of them that a request creates and sends itself
    Process,        \* processes at work at once
    JobTries,       \* 5: a failed job is claimed again below this
    MaxFaults       \* bound: processes that end half-way, jobs that outlast the ten
                    \* minutes of their claim, database errors

ASSUME JobQueueAssumption ==
    /\ Mail \subseteq Job
    /\ JobTries \in Nat \ {0}
    /\ MaxFaults \in Nat

VARIABLES
    job,        \* Job rows; stale is a lockedAt of more than ten minutes ago
    work,       \* what each process is doing
    retaken,    \* history: jobs claimed while they ran or another process held them
    faults

queue == <<job, retaken>>

JobStatus == {"NONE", "PENDING", "RUNNING", "FAILED", "COMPLETED"}

NoWork == [op |-> "idle"]
JobTask ==
    [op: {"mail"}, j: Mail]
    \cup [op: {"jobs"}, todo: SUBSET Job]
    \cup [op: {"record"}, todo: SUBSET Job, j: Job, ok: BOOLEAN]

JobTypeOK ==
    /\ job \in [Job -> [status: JobStatus, tries: Nat, stale: BOOLEAN]]
    /\ retaken \subseteq Job
    /\ faults \in 0..MaxFaults

JobInit ==
    /\ job = [j \in Job |-> [status |-> "NONE", tries |-> 0, stale |-> FALSE]]
    /\ retaken = {}
    /\ faults = 0

-------------------------------------------------------------------------------
Working(w, op) == work[w].op = op
Proceed(w, t) == work' = [work EXCEPT ![w] = t]
Finish(w) == Proceed(w, NoWork)

Fault == faults < MaxFaults /\ faults' = faults + 1

\* The jobs a process has taken and not finished.
Holds(w) ==
    IF Working(w, "jobs") THEN work[w].todo
    ELSE IF Working(w, "record") THEN work[w].todo \cup {work[w].j}
    ELSE IF Working(w, "mail") THEN {work[w].j}
    ELSE {}

\* enqueue
Enqueued(J) ==
    [j \in Job |-> IF j \in J THEN [job[j] EXCEPT !.status = "PENDING"] ELSE job[j]]

Claim(w, J) ==
    /\ job' = [j \in Job |->
           IF j \in J THEN [status |-> "RUNNING", tries |-> job[j].tries + 1, stale |-> FALSE]
           ELSE job[j]]
    /\ retaken' = retaken \cup {j \in J :
           job[j].status = "RUNNING" \/ \E v \in Process \ {w} : j \in Holds(v)}

\* complete and fail, by id: whatever happened to the row meanwhile.
Record(j, status) ==
    job' = [job EXCEPT ![j].status = status, ![j].stale = FALSE]

-------------------------------------------------------------------------------
\* Mutant of Claimable: anything that is not running and has tries left.
ClaimableByTries(j) ==
    \/ job[j].status \in {"PENDING", "FAILED", "COMPLETED"} /\ job[j].tries < JobTries
    \/ job[j].status = "RUNNING" /\ job[j].stale

\* Mutant of Claimable: a job whose process died is never taken up.
ClaimableUnlessRunning(j) ==
    \/ job[j].status = "PENDING"
    \/ job[j].status = "FAILED" /\ job[j].tries < JobTries

Claimable(j) ==
    \/ job[j].status = "PENDING"
    \/ job[j].status = "RUNNING" /\ job[j].stale
    \/ job[j].status = "FAILED" /\ job[j].tries < JobTries

\* claimDue: whichever of them are due.
ClaimDue(w, J) ==
    /\ work[w] = NoWork
    /\ J # {} /\ \A j \in J : Claimable(j)
    /\ Claim(w, J)
    /\ Proceed(w, [op |-> "jobs", todo |-> J])
    /\ UNCHANGED faults

\* sendEmailNow queues the job, ...
RequestMail(w, m) ==
    /\ work[w] = NoWork /\ job[m].status = "NONE"
    /\ job' = Enqueued({m})
    /\ Proceed(w, [op |-> "mail", j |-> m])
    /\ UNCHANGED <<retaken, faults>>

\* ... fails it when no provider is configured, ...
MailUnconfigured(w) ==
    /\ Working(w, "mail")
    /\ Record(work[w].j, "FAILED")
    /\ Finish(w)
    /\ UNCHANGED <<retaken, faults>>

\* ... and otherwise claims it by its id, whoever has it.
ClaimById(w) ==
    /\ Working(w, "mail")
    /\ Claim(w, {work[w].j})
    /\ Proceed(w, [op |-> "jobs", todo |-> {work[w].j}])
    /\ UNCHANGED faults

\* The provider takes the message, or refuses it.
Send(w) ==
    /\ Working(w, "jobs")
    /\ \E j \in work[w].todo, ok \in BOOLEAN :
        Proceed(w, [op |-> "record", todo |-> work[w].todo \ {j}, j |-> j, ok |-> ok])
    /\ UNCHANGED <<queue, faults>>

\* The note on the notification, or completing the row, may fail after the
\* message has gone: the job is then a failed one.
RecordOutcome(w) ==
    /\ Working(w, "record")
    /\ \/ work[w].ok /\ Record(work[w].j, "COMPLETED")
       \/ Record(work[w].j, "FAILED")
    /\ Proceed(w, IF work[w].todo = {} THEN NoWork ELSE [op |-> "jobs", todo |-> work[w].todo])
    /\ UNCHANGED <<retaken, faults>>

\* Ten minutes pass while a job is running, its process alive or not.
LockAges(j) ==
    /\ job[j].status = "RUNNING" /\ ~job[j].stale
    /\ IF \E w \in Process : j \in Holds(w)
       THEN Fault
       ELSE UNCHANGED faults
    /\ job' = [job EXCEPT ![j].stale = TRUE]
    /\ UNCHANGED <<work, retaken>>

\* The process ends: what it held stays as it is.
Crash(w) ==
    /\ work[w] # NoWork
    /\ Fault
    /\ Finish(w)
    /\ UNCHANGED queue

JobSteps(w) ==
    \/ MailUnconfigured(w) \/ ClaimById(w) \/ Send(w) \/ RecordOutcome(w)

JobNext ==
    \/ \E w \in Process :
        \/ \E J \in SUBSET Job : ClaimDue(w, J)
        \/ \E m \in Mail : RequestMail(w, m)
        \/ JobSteps(w) \/ Crash(w)
    \/ \E j \in Job : LockAges(j)
===============================================================================
