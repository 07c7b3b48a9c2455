-------------------------------- MODULE Learning --------------------------------
(***************************************************************************)
(* One learner in one course: the attempts at its quizzes, the work handed *)
(* in, the lessons marked as done, the progress these add up to, the       *)
(* completion of the course and the certificate (quiz.service.ts,          *)
(* assignment.service.ts, lesson-media.service.ts, progress.service.ts,    *)
(* certification.service.ts, assessment.service.ts), while the curriculum  *)
(* is edited and access is taken away.                                     *)
(*                                                                         *)
(* A request checks what it loaded before its transaction, writes there by *)
(* id, and ends with the tally of the course, which sees what is committed *)
(* and its own writes.  So it has up to four steps: it loads, decides what *)
(* to write (reading the lesson's progress again), tallies and commits.    *)
(***************************************************************************)
EXTENDS Sequences, FiniteSets, Integers

CONSTANTS
    Quiz,           \* lessons with questions
    Work,           \* assignments
    Marked,         \* lessons marked as done, or completed by playing them to the end
    Order,          \* the orders the lessons may be put in
    Course,         \* what the course asks: see CourseSettings
    Worker,         \* requests of the learner, coaches and staff in flight
    MaxAttempts,    \* bound: QuizAttempt rows
    MaxSubmissions, \* bound: AssignmentSubmission rows
    MaxEdits        \* bound: edits of the curriculum

Lesson == Quiz \cup Work \cup Marked
NoLesson == "none"
Untouched == [status |-> "NOT_STARTED", done |-> FALSE]
Template == [issues: BOOLEAN, completion: BOOLEAN, coach: BOOLEAN]
CourseSettings == [required: SUBSET Lesson, exams: SUBSET Quiz, final: BOOLEAN, order: Order,
                   sequential: BOOLEAN, quizPass: BOOLEAN,
                   limit: Nat \ {0}, external: BOOLEAN, template: Template]

ASSUME LearningAssumption ==
    /\ Order \subseteq [Lesson -> Nat]
    /\ \A o \in Order, l, k \in Lesson : o[l] = o[k] => l = k
    /\ Course \subseteq CourseSettings
    /\ Quiz \cap Work = {} /\ Quiz \cap Marked = {} /\ Work \cap Marked = {}
    /\ MaxAttempts \in Nat /\ MaxSubmissions \in Nat /\ MaxEdits \in Nat

VARIABLES
    course,         \* settings of the course: the required lessons, the assessments among
                    \* the quizzes, whether the last of these is asked for, the order, ...
    enrolment,      \* CourseEnrollment and whether it has its CourseCompletion
    progress,       \* LessonProgress: status, and whether completedAt is set
    attempt,        \* QuizAttempt rows, oldest first
    submission,     \* AssignmentSubmission rows, oldest first
    certificate,    \* status of the course's Certification
    assessment,     \* FINAL assessments: some recommends, some was recorded after completion
    edits,          \* bound: edits so far
    task,           \* what each request has loaded and decided
    counted,        \* history: the lessons counted by the tally that completed the course
    latest,         \* history: the lessons counted by the last tally
    contested,      \* history: attempts and submissions decided by two requests
    stale,          \* history: lessons whose progress changed between a read and its write
    raced           \* history: what two requests overlapped in: "tally", "start" (an
                    \* attempt) or "enrolment" (its status)

history == <<counted, latest, contested, stale, raced>>
records == <<course, enrolment, progress, attempt, submission, certificate, assessment, edits>>
vars == <<records, task, history>>

EndedCertificate == {"EXPIRED", "REVOKED", "INACTIVE_FOR_PLATFORM_USE"}
\* How an attempt or a submission came out; PENDING waits for the coach.
Verdict == {"PASSED", "FAILED", "PENDING", "EXPIRED"}

\* The lessons that count towards completion: the required ones, and the last assessment
\* when the course asks for it, even when that is optional.
LastExam(c) ==
    IF c.final THEN {e \in c.exams : \A f \in c.exams : c.order[f] <= c.order[e]} ELSE {}
Counting(c) == c.required \cup LastExam(c)

\* An enrolment is bought by the learner or sponsored by an agency.
Init ==
    /\ course \in Course
    /\ \E sponsored \in BOOLEAN :
         enrolment = [status |-> "ENROLLED", revoked |-> FALSE, completed |-> FALSE,
                      sponsored |-> sponsored, refunded |-> FALSE]
    /\ progress = [l \in Lesson |-> Untouched]
    /\ attempt = <<>> /\ submission = <<>>
    /\ certificate = "NONE"
    /\ assessment = [recommended |-> FALSE, since |-> FALSE]
    /\ edits = 0
    /\ task = [w \in Worker |-> [op |-> "idle"]]
    /\ counted = {} /\ latest = Counting(course) /\ contested = {} /\ stale = {} /\ raced = {}

-------------------------------------------------------------------------------
(***************************************************************************)
(* Requests                                                                *)
(***************************************************************************)
Idle == [op |-> "idle"]
\* Requests that decide on an attempt or a submission, and those that end in a tally.
Decisions == {"submit", "review", "grade"}
Request(op, at, l, i, verdict) ==
    [op |-> op, at |-> at, lesson |-> l, item |-> i, verdict |-> verdict, read |-> enrolment,
     before |-> IF l = NoLesson THEN Untouched ELSE progress[l],
     write |-> "KEEP", counts |-> {}, completes |-> FALSE]
Begin(w, r) ==
    /\ task[w] = Idle
    /\ task' = [task EXCEPT ![w] = r]
    /\ UNCHANGED <<records, history>>
Done(w) == task' = [task EXCEPT ![w] = Idle]
RollBack(w) == Done(w) /\ UNCHANGED <<records, history>>
Doing(w, op, at) == task[w].op = op /\ task[w].at = at
Others(w) == {v \in Worker \ {w} : task[v] # Idle}

\* The rows that the transactions in flight have written and keep locked.
Deciding(w) == {v \in Others(w) : task[v].at \in {"decided", "tallied"}}
Tallied(w) == {v \in Others(w) : task[v].at = "tallied"}
ItemFree(w) ==
    \A v \in Deciding(w) : task[v].op \notin Decisions \/ task[w].item # task[v].item
                           \/ (task[v].op = "grade") # (task[w].op = "grade")
LessonFree(w) ==
    \A v \in Tallied(w) : task[v].lesson # task[w].lesson \/ "KEEP" \in {task[v].write, task[w].write}
EnrolmentFree(w) == \A v \in Tallied(w) : ~task[v].completes

-------------------------------------------------------------------------------
(***************************************************************************)
(* What the learner may open                                               *)
(***************************************************************************)

\* entitledToCourse and assertLessonUnlocked.
Entitled == enrolment.status # "REVOKED" /\ ~enrolment.revoked /\ ~enrolment.refunded
Complete(l) == progress[l].status = "COMPLETED"
Unlocked(l) ==
    course.sequential =>
        \A e \in Counting(course) : course.order[e] < course.order[l] => Complete(e)
MayOpen(l) == Entitled /\ Unlocked(l)

Rows(q) == {i \in DOMAIN attempt : attempt[i].lesson = q}
OpenAttempts(q) == {i \in Rows(q) : attempt[i].status = "IN_PROGRESS"}
\* Mutant of Finished: an attempt that ran out of time is not counted.
FinishedInTime(q) == {i \in Rows(q) : attempt[i].status \in {"SUBMITTED", "PENDING_REVIEW"}}
Finished(q) == Rows(q) \ OpenAttempts(q)
AttemptsLeft(q, finished) == course.limit - Cardinality(finished)

Handed(l) == {i \in DOMAIN submission : submission[i].lesson = l}
WithCoach(l) ==
    \E i \in Handed(l) : (\A j \in Handed(l) : j <= i) /\ submission[i].status \in {"SUBMITTED", "GRADED"}

-------------------------------------------------------------------------------
(***************************************************************************)
(* Requests about a lesson: what they load                                 *)
(***************************************************************************)

\* startAttempt; an attempt that is open is returned instead.
BeginStart(w, q) ==
    /\ MayOpen(q) /\ Len(attempt) < MaxAttempts
    /\ OpenAttempts(q) = {} /\ AttemptsLeft(q, Finished(q)) > 0
    /\ Begin(w, Request("start", "loaded", q, Len(attempt) + 1, "PENDING"))

\* submitAttempt: open, but access is not asked for again.
BeginSubmit(w, i, verdict) ==
    /\ attempt[i].status = "IN_PROGRESS"
    /\ Begin(w, Request("submit", "loaded", attempt[i].lesson, i, verdict))

\* reviewAttempt and reviewSubmission, by a coach.
BeginReview(w, i, verdict) ==
    /\ attempt[i].status = "PENDING_REVIEW"
    /\ Begin(w, Request("review", "loaded", attempt[i].lesson, i, verdict))
BeginGrade(w, i, verdict) ==
    /\ submission[i].status = "SUBMITTED"
    /\ Begin(w, Request("grade", "loaded", submission[i].lesson, i, verdict))

\* submitAssignment.
BeginHandIn(w, l) ==
    /\ MayOpen(l) /\ ~WithCoach(l) /\ Len(submission) < MaxSubmissions
    /\ Begin(w, Request("hand in", "loaded", l, 0, "PENDING"))

\* startLesson, or the first report of the player; markLessonComplete, or the report
\* that reaches the end.  They read the progress before their transaction.
BeginOpen(w, l) ==
    /\ MayOpen(l) /\ progress[l] = Untouched
    /\ Begin(w, [Request("open", "decided", l, 0, "PENDING") EXCEPT !.write = "IN_PROGRESS"])
BeginMark(w, l) ==
    /\ MayOpen(l) /\ ~progress[l].done
    /\ Begin(w, [Request("mark", "decided", l, 0, "PASSED") EXCEPT !.write = "COMPLETED"])

\* saveLesson makes a lesson required or optional; updateCourseSettings, which is about no
\* lesson, asks for the last assessment or no longer does.
BeginEdit(w, l) ==
    LET on == IF l = NoLesson THEN course.final ELSE l \in course.required IN
    /\ edits < MaxEdits
    /\ Begin(w, Request("edit", "decided", l, 0, IF on THEN "FAILED" ELSE "PASSED"))

\* syncExternalCompletion.
BeginSync(w) ==
    /\ course.external
    /\ Begin(w, Request("sync", "decided", NoLesson, 0, "PASSED"))

-------------------------------------------------------------------------------
(***************************************************************************)
(* Requests about a lesson: what they decide to write                      *)
(***************************************************************************)
\* Mutant of Earns: an attempt that is handed in is enough for any course.
EarnsAnyway(t) == t.verdict \in {"PASSED", "FAILED"}
Earns(t) == t.verdict = "PASSED" \/ (t.op = "submit" /\ t.verdict = "FAILED" /\ ~course.quizPass)
RetakeOrFail(t) ==
    IF t.op = "grade" \/ AttemptsLeft(t.lesson, Finished(t.lesson) \cup {t.item}) > 0
    THEN "RETAKE_REQUIRED" ELSE "FAILED"
Target(t) ==
    IF t.op = "start" THEN "IN_PROGRESS"
    ELSE IF t.verdict = "PENDING" THEN "PENDING_REVIEW"
    ELSE IF Earns(t) THEN "COMPLETED" ELSE RetakeOrFail(t)

\* Inside the transaction, after the attempt or submission is written: a lesson that
\* is complete is left alone.
Decide(w) ==
    LET t == task[w]
        now == progress[t.lesson]
    IN  /\ t # Idle /\ t.at = "loaded" /\ t.op \in {"start", "hand in"} \cup Decisions
        /\ ItemFree(w)
        /\ task' = [task EXCEPT ![w].at = "decided", ![w].before = now,
                                ![w].write = IF now.done THEN "KEEP" ELSE Target(t)]
        /\ UNCHANGED <<records, history>>

-------------------------------------------------------------------------------
(***************************************************************************)
(* Progress, completion and certificate                                    *)
(***************************************************************************)

\* Mutant of Certifies: a course that asks for a coach certifies without.
CertifiesOnCompletion(completed, recommended) == course.template.issues /\ completed
\* evaluateCertification; without an assessment nothing is recommended.
Certifies(completed, recommended) ==
    /\ course.template.issues
    /\ course.template.completion => completed
    /\ course.template.coach => recommended

\* The course as the tally of a request sees it, the lessons it counts, and whether it
\* finds them complete.
Edited(t) ==
    IF t.op # "edit" THEN course
    ELSE IF t.lesson = NoLesson THEN [course EXCEPT !.final = t.verdict = "PASSED"]
    ELSE IF t.verdict = "PASSED" THEN [course EXCEPT !.required = @ \cup {t.lesson}]
    ELSE [course EXCEPT !.required = @ \ {t.lesson}]
Required(t) == Counting(Edited(t))
Completes(t) ==
    /\ ~enrolment.completed
    /\ \/ t.op = "sync"
       \/ /\ Required(t) # {}
          /\ \A l \in Required(t) : IF l = t.lesson /\ t.write # "KEEP"
                                    THEN t.write = "COMPLETED" ELSE Complete(l)

\* Mutant of Tallying: what a coach decides does not count until the learner comes back.
TallyingOwnWork(t) == t.op \in {"submit", "mark", "edit", "sync"}
\* recalculateCourseProgress, up to the rows it inserts: a second completion waits for
\* the first, and a second certificate for the same course is refused (findExisting
\* does not see one that has ended, the unique index does).  Either way the whole
\* transaction is rolled back.
Tallying(t) == t.op \in {"submit", "review", "mark", "edit", "sync"} \/ (t.op = "grade" /\ t.verdict = "PASSED")
Clashes(w) ==
    \/ ~EnrolmentFree(w)
    \/ Certifies(TRUE, FALSE) /\ certificate \in EndedCertificate
Tally(w) ==
    LET t == task[w] IN
    /\ t # Idle /\ t.at = "decided" /\ Tallying(t)
    /\ LessonFree(w)
    /\ IF Completes(t) /\ Clashes(w)
         THEN RollBack(w)
         ELSE /\ task' = [task EXCEPT ![w].at = "tallied", ![w].counts = Required(t),
                                      ![w].completes = Completes(t)]
              /\ raced' = IF Tallied(w) = {} THEN raced ELSE raced \cup {"tally"}
              /\ UNCHANGED <<records, counted, latest, contested, stale>>

\* What the transaction leaves of the rows every request about a lesson writes.
Ready(w, op) ==
    /\ task[w].op = op
    /\ IF Tallying(task[w]) THEN task[w].at = "tallied" ELSE task[w].at = "decided" /\ LessonFree(w)
WriteProgress(t) ==
    IF t.write = "KEEP"
    THEN UNCHANGED <<progress, stale>>
    ELSE /\ progress' = [progress EXCEPT ![t.lesson].status = t.write,
                                         ![t.lesson].done = @ \/ t.write = "COMPLETED"]
         /\ stale' = IF progress[t.lesson] = t.before THEN stale ELSE stale \cup {t.lesson}
WriteCompletion(t) ==
    /\ latest' = IF t.at = "tallied" THEN t.counts ELSE latest
    /\ IF t.completes
       THEN /\ enrolment' = [enrolment EXCEPT !.completed = TRUE, !.status = "COMPLETED"]
            /\ certificate' = IF certificate = "NONE" /\ Certifies(TRUE, FALSE) THEN "APPROVED" ELSE certificate
            /\ counted' = IF t.op = "sync" THEN {} ELSE t.counts
       ELSE UNCHANGED <<enrolment, certificate, counted>>

-------------------------------------------------------------------------------
(***************************************************************************)
(* Requests about a lesson: what they commit                               *)
(***************************************************************************)
CommitStart(w) ==
    LET t == task[w]
        opens == t.read.status = "ENROLLED"
    IN  /\ Ready(w, "start")
        /\ Len(attempt) < MaxAttempts
        /\ opens => EnrolmentFree(w)
        /\ attempt' = Append(attempt, [lesson |-> t.lesson, status |-> "IN_PROGRESS", passed |-> FALSE])
        /\ WriteProgress(t)
        /\ enrolment' = IF opens THEN [enrolment EXCEPT !.status = "IN_PROGRESS"] ELSE enrolment
        /\ raced' = raced \cup (IF Len(attempt) + 1 = t.item THEN {} ELSE {"start"})
                          \cup (IF opens /\ enrolment.status # "ENROLLED" THEN {"enrolment"} ELSE {})
        /\ Done(w)
        /\ UNCHANGED <<course, submission, certificate, assessment, edits, counted, latest, contested>>

Decided(t) ==
    [lesson |-> t.lesson, passed |-> t.verdict = "PASSED",
     status |-> IF t.verdict = "EXPIRED" THEN "EXPIRED"
                ELSE IF t.verdict = "PENDING" THEN "PENDING_REVIEW" ELSE "SUBMITTED"]
CommitAttempt(w, op, from) ==
    LET t == task[w] IN
    /\ Ready(w, op)
    /\ attempt' = [attempt EXCEPT ![t.item] = Decided(t)]
    /\ contested' = IF attempt[t.item].status = from THEN contested ELSE contested \cup {t.lesson}
    /\ WriteProgress(t) /\ WriteCompletion(t)
    /\ Done(w)
    /\ UNCHANGED <<course, submission, assessment, edits, raced>>
CommitSubmit(w) == CommitAttempt(w, "submit", "IN_PROGRESS")
CommitReview(w) == CommitAttempt(w, "review", "PENDING_REVIEW")

CommitHandIn(w) ==
    LET t == task[w] IN
    /\ Ready(w, "hand in")
    /\ Len(submission) < MaxSubmissions
    /\ submission' = Append(submission, [lesson |-> t.lesson, status |-> "SUBMITTED"])
    /\ WriteProgress(t)
    /\ Done(w)
    /\ UNCHANGED <<course, enrolment, attempt, certificate, assessment, edits, counted, latest, contested, raced>>

CommitGrade(w) ==
    LET t == task[w] IN
    /\ Ready(w, "grade")
    /\ submission' = [submission EXCEPT ![t.item].status =
                        IF t.verdict = "PASSED" THEN "GRADED" ELSE "RETURNED"]
    /\ contested' = IF submission[t.item].status = "SUBMITTED" THEN contested ELSE contested \cup {t.lesson}
    /\ WriteProgress(t) /\ WriteCompletion(t)
    /\ Done(w)
    /\ UNCHANGED <<course, attempt, assessment, edits, raced>>

CommitMark(w) ==
    /\ Ready(w, "open") \/ Ready(w, "mark")
    /\ WriteProgress(task[w]) /\ WriteCompletion(task[w])
    /\ Done(w)
    /\ UNCHANGED <<course, attempt, submission, assessment, edits, contested, raced>>

CommitEdit(w) ==
    /\ Ready(w, "edit")
    /\ edits < MaxEdits
    /\ course' = Edited(task[w])
    /\ edits' = edits + 1
    /\ WriteCompletion(task[w])
    /\ Done(w)
    /\ UNCHANGED <<progress, attempt, submission, assessment, contested, stale, raced>>

\* moveLesson, reorderLessons and moveModule: another order, and no tally.
Rearrange ==
    /\ edits < MaxEdits
    /\ \E o \in Order \ {course.order} : course' = [course EXCEPT !.order = o]
    /\ edits' = edits + 1
    /\ UNCHANGED <<enrolment, progress, attempt, submission, certificate, assessment, task, history>>

CommitSync(w) ==
    /\ Ready(w, "sync")
    /\ WriteCompletion(task[w])
    /\ Done(w)
    /\ UNCHANGED <<course, progress, attempt, submission, assessment, edits, contested, stale, raced>>

-------------------------------------------------------------------------------
(***************************************************************************)
(* Access and certificates                                                 *)
(***************************************************************************)
BeginRefund(w) ==
    /\ ~enrolment.sponsored /\ ~enrolment.refunded
    /\ Begin(w, Request("refund", "loaded", NoLesson, 0, "PENDING"))
\* revokeAgencySponsoredOnExit, and recordCoursePurchaseRefund, which leaves
\* certificates alone.
BeginExit(w, op) ==
    /\ enrolment.sponsored
    /\ Begin(w, Request(op, "loaded", NoLesson, 0, IF certificate = "APPROVED" THEN "PASSED" ELSE "FAILED"))

\* An enrolment that was COMPLETED when it was loaded stays so.
Revoked(t) ==
    [enrolment EXCEPT !.revoked = TRUE, !.refunded = t.op = "refund",
                      !.status = IF t.read.status = "COMPLETED" THEN @ ELSE "REVOKED"]
CommitRevoke(w) ==
    LET t == task[w]
        revokes == IF t.op = "refund" THEN ~enrolment.refunded ELSE ~t.read.revoked
    IN  /\ Doing(w, "refund", "loaded") \/ Doing(w, "exit", "loaded") \/ Doing(w, "seat refund", "loaded")
        /\ EnrolmentFree(w)
        /\ enrolment' = IF revokes THEN Revoked(t) ELSE enrolment
        /\ raced' = IF revokes /\ enrolment.status # t.read.status THEN raced \cup {"enrolment"} ELSE raced
        /\ certificate' = IF t.op = "exit" /\ t.verdict = "PASSED" THEN "INACTIVE_FOR_PLATFORM_USE" ELSE certificate
        /\ Done(w)
        /\ UNCHANGED <<course, progress, attempt, submission, assessment, edits, counted, latest, contested, stale>>

\* recordAssessment by a coach: it certifies on the completion it loaded.  A certificate
\* that has ended, or that a completion in flight has inserted, rolls it back.
BeginAssess(w, recommended) ==
    Begin(w, Request("assess", "loaded", NoLesson, 0, IF recommended THEN "PASSED" ELSE "FAILED"))
CommitAssess(w) ==
    LET t == task[w]
        recommended == t.verdict = "PASSED"
        issues == Certifies(t.read.completed, recommended) /\ certificate # "APPROVED"
        clashes == certificate \in EndedCertificate \/ (~EnrolmentFree(w) /\ Certifies(TRUE, FALSE))
    IN  /\ Doing(w, "assess", "loaded")
        /\ IF issues /\ clashes
             THEN RollBack(w)
             ELSE /\ assessment' = [recommended |-> assessment.recommended \/ recommended,
                                    since |-> assessment.since \/ (recommended /\ t.read.completed)]
                  /\ certificate' = IF issues THEN "APPROVED" ELSE certificate
                  /\ Done(w)
                  /\ UNCHANGED <<course, enrolment, progress, attempt, submission, edits, history>>

\* expireCertifications and revokeCertification.
BeginEndCertificate(w, op) ==
    /\ certificate = "APPROVED"
    /\ Begin(w, Request(op, "loaded", NoLesson, 0, "PENDING"))
CommitEndCertificate(w) ==
    /\ Doing(w, "EXPIRED", "loaded") \/ Doing(w, "REVOKED", "loaded")
    /\ certificate' = task[w].op
    /\ Done(w)
    /\ UNCHANGED <<course, enrolment, progress, attempt, submission, assessment, edits, history>>

-------------------------------------------------------------------------------
Study(w) ==
    \/ \E q \in Quiz : BeginStart(w, q)
    \/ \E i \in DOMAIN attempt, v \in Verdict : BeginSubmit(w, i, v)
    \/ \E l \in Work : BeginHandIn(w, l)
    \/ \E l \in Marked : BeginOpen(w, l) \/ BeginMark(w, l)
    \/ CommitStart(w) \/ CommitSubmit(w) \/ CommitHandIn(w) \/ CommitMark(w)

Teach(w) ==
    \/ \E v \in {"PASSED", "FAILED"} :
        \/ \E i \in DOMAIN attempt : BeginReview(w, i, v)
        \/ \E i \in DOMAIN submission : BeginGrade(w, i, v)
    \/ \E l \in Lesson \cup {NoLesson} : BeginEdit(w, l)
    \/ \E recommended \in BOOLEAN : BeginAssess(w, recommended)
    \/ CommitReview(w) \/ CommitGrade(w) \/ CommitEdit(w) \/ CommitAssess(w)

Administer(w) ==
    \/ BeginRefund(w) \/ BeginExit(w, "exit") \/ BeginExit(w, "seat refund")
    \/ BeginEndCertificate(w, "EXPIRED") \/ BeginEndCertificate(w, "REVOKED")
    \/ BeginSync(w)
    \/ CommitRevoke(w) \/ CommitEndCertificate(w) \/ CommitSync(w)

Next ==
    \/ \E w \in Worker : Study(w) \/ Teach(w) \/ Administer(w) \/ Decide(w) \/ Tally(w)
    \/ Rearrange

Spec == Init /\ [][Next]_vars

-------------------------------------------------------------------------------
\* A completion counted lessons that are all done, and a lesson that is done has its
\* evidence: an attempt that was passed (or just submitted, where that is enough), work
\* that was graded.  Left out: a lesson one of whose attempts or submissions two
\* requests decided, the later one overwriting what the earlier had granted.
CompletionIsEarned ==
    /\ \A l \in counted : progress[l].done
    /\ enrolment.completed => counted # {} \/ course.external
    /\ \A q \in Quiz \ contested : progress[q].done =>
           \E i \in Finished(q) : attempt[i].passed \/ (~course.quizPass /\ attempt[i].status = "SUBMITTED")
    /\ \A l \in Work \ contested : progress[l].done =>
           \E i \in Handed(l) : submission[i].status = "GRADED"

\* Whoever has done every lesson that counts has completed the course, whatever came
\* last (an attempt, a review, a grade, a lesson made required or optional, the last
\* assessment asked for) and whatever became of the access meanwhile; and the statuses say
\* so.  Left out: an order of the lessons that made other lessons count since the last
\* tally (see EditsRefreshLearners); two tallies in flight at once, which do not see each
\* other; a lesson whose progress was overwritten by a request that had read it before; an
\* enrolment overwritten in the same way.
DoneMeansCompleted ==
    /\ "tally" \notin raced /\ latest = Counting(course) /\ latest # {} /\ (\A l \in latest : Complete(l))
           => enrolment.completed
    /\ \A l \in Lesson \ stale : progress[l].done <=> Complete(l)
    /\ "enrolment" \notin raced => (enrolment.completed <=> enrolment.status = "COMPLETED")

\* progress.service.ts:134 says that a curriculum edit, a reordered lesson among them,
\* refreshes every learner, and that a learner who now satisfies the rules completes.  The
\* code does not keep this (README, known divergences), so no run checks it.
EditsRefreshLearners ==
    LET counting == Counting(course) IN
    "tally" \notin raced /\ counting # {} /\ (\A l \in counting : Complete(l)) => enrolment.completed

\* Nobody is certified without the completion and the recommendation the template asks
\* for, and whoever completed the course, and was recommended after that where it takes
\* a coach, has been certified, whatever overlaps.
CertificateFollowsRules ==
    LET asks == course.template IN
    /\ certificate # "NONE" =>
           asks.issues /\ (asks.completion => enrolment.completed) /\ (asks.coach => assessment.recommended)
    /\ asks.issues /\ enrolment.completed /\ (asks.coach => assessment.since) => certificate # "NONE"

\* A learner has no more attempts than the lesson allows and one open at a time,
\* unless an attempt was started between the count and the insert of another.
AttemptsWithinLimit ==
    "start" \notin raced => \A q \in Quiz :
        Cardinality(Rows(q)) <= course.limit /\ Cardinality(OpenAttempts(q)) <= 1
===============================================================================
