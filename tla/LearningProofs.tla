---------------------------- MODULE LearningProofs ----------------------------
(***************************************************************************)
(* Theorems about Learning for every set of lessons, every order, all      *)
(* settings of the course and any number of requests in flight.            *)
(***************************************************************************)
EXTENDS Learning, SequenceTheorems, FiniteSetTheorems, TLAPS

Op == {"start", "submit", "review", "grade", "hand in", "open", "mark", "edit", "sync",
       "refund", "exit", "seat refund", "assess", "EXPIRED", "REVOKED"}
ProgressStatus == {"NOT_STARTED", "IN_PROGRESS", "PENDING_REVIEW", "COMPLETED",
                   "RETAKE_REQUIRED", "FAILED"}
EnrolmentRow == [status: {"ENROLLED", "IN_PROGRESS", "COMPLETED", "REVOKED"}, revoked: BOOLEAN,
                 completed: BOOLEAN, sponsored: BOOLEAN, refunded: BOOLEAN]
ProgressRow == [status: ProgressStatus, done: BOOLEAN]
AttemptRow == [lesson: Quiz, passed: BOOLEAN,
               status: {"IN_PROGRESS", "SUBMITTED", "PENDING_REVIEW", "EXPIRED"}]
SubmissionRow == [lesson: Work, status: {"SUBMITTED", "GRADED", "RETURNED"}]
RequestRow == [op: Op, at: {"loaded", "decided", "tallied"}, lesson: Lesson \cup {NoLesson},
               item: Nat, verdict: Verdict, read: EnrolmentRow, before: ProgressRow,
               write: ProgressStatus \cup {"KEEP"}, counts: SUBSET Lesson, completes: BOOLEAN]

TypeOK ==
    /\ course \in CourseSettings
    /\ enrolment \in EnrolmentRow
    /\ progress \in [Lesson -> ProgressRow]
    /\ attempt \in Seq(AttemptRow)
    /\ submission \in Seq(SubmissionRow)
    /\ certificate \in {"NONE", "APPROVED"} \cup EndedCertificate
    /\ assessment \in [recommended: BOOLEAN, since: BOOLEAN]
    /\ edits \in Nat
    /\ task \in [Worker -> {Idle} \cup RequestRow]
    /\ counted \subseteq Lesson /\ latest \subseteq Lesson /\ contested \subseteq Lesson /\ stale \subseteq Lesson
    /\ raced \subseteq {"tally", "start", "enrolment"}

-------------------------------------------------------------------------------
(***************************************************************************)
(* Types                                                                   *)
(***************************************************************************)

\* The rows of attempts and submissions, by their number.
LEMMA RowTypes ==
    ASSUME TypeOK
    PROVE  /\ \A i \in DOMAIN attempt : i \in Nat /\ attempt[i] \in AttemptRow
           /\ \A i \in DOMAIN submission : i \in Nat /\ submission[i] \in SubmissionRow
           /\ Len(attempt) + 1 \in Nat
  <1>1. attempt \in Seq(AttemptRow) /\ submission \in Seq(SubmissionRow)
    BY DEF TypeOK
  <1>2. QED  BY <1>1

\* A request in flight is a row, a request at rest is not.
LEMMA Busy ==
    ASSUME TypeOK, NEW w \in Worker, task[w].op \in Op
    PROVE  task[w] \in RequestRow
  <1>1. Idle.op \notin Op
    BY DEF Idle, Op
  <1>2. task[w] \in {Idle} \cup RequestRow
    BY DEF TypeOK
  <1>3. QED  BY <1>1, <1>2

LEMMA RequestType ==
    ASSUME TypeOK, NEW op \in Op, NEW at \in {"loaded", "decided"},
           NEW l \in Lesson \cup {NoLesson}, NEW i \in Nat, NEW verdict \in Verdict
    PROVE  Request(op, at, l, i, verdict) \in RequestRow
  <1> DEFINE before == IF l = NoLesson THEN Untouched ELSE progress[l]
  <1>1. before \in ProgressRow
    BY DEF TypeOK, Untouched, ProgressRow, ProgressStatus
  <1> HIDE DEF before
  <1>2. [op |-> op, at |-> at, lesson |-> l, item |-> i, verdict |-> verdict, read |-> enrolment,
         before |-> before, write |-> "KEEP", counts |-> {}, completes |-> FALSE] \in RequestRow
    BY <1>1 DEF TypeOK, RequestRow
  <1>3. QED
    BY <1>2 DEF Request, before

\* The rows a request leaves as they are keep their types.
LEMMA BeginType ==
    ASSUME TypeOK, NEW w \in Worker, NEW r \in RequestRow, Begin(w, r)
    PROVE  TypeOK'
  BY DEF TypeOK, Begin, records, history

LEMMA DoneType ==
    ASSUME TypeOK, NEW w \in Worker, Done(w)
    PROVE  task' \in [Worker -> {Idle} \cup RequestRow]
  BY DEF TypeOK, Done

LEMMA RollBackType ==
    ASSUME TypeOK, NEW w \in Worker, RollBack(w)
    PROVE  TypeOK'
  BY DoneType DEF TypeOK, RollBack, records, history

LEMMA WriteProgressType ==
    ASSUME TypeOK, NEW t \in RequestRow, t.write # "KEEP" => t.lesson \in Lesson, WriteProgress(t)
    PROVE  progress' \in [Lesson -> ProgressRow] /\ stale' \subseteq Lesson
  <1>1. CASE t.write = "KEEP"
    BY <1>1 DEF TypeOK, WriteProgress
  <1>2. CASE t.write # "KEEP"
    <2> DEFINE done == progress[t.lesson].done \/ t.write = "COMPLETED"
               row == [progress[t.lesson] EXCEPT !.status = t.write, !.done = done]
    <2>1. t.lesson \in Lesson /\ progress[t.lesson] \in ProgressRow
      BY <1>2 DEF TypeOK
    <2>2. done \in BOOLEAN /\ t.write \in ProgressStatus
      BY <1>2, <2>1 DEF ProgressRow, RequestRow
    <2>3. progress' = [progress EXCEPT ![t.lesson] = row]
      BY <1>2 DEF WriteProgress
    <2>4. row \in ProgressRow
      <3> HIDE DEF done
      <3>1. QED  BY <2>1, <2>2 DEF ProgressRow
    <2>5. stale' \subseteq Lesson
      BY <1>2, <2>1 DEF WriteProgress, TypeOK
    <2> HIDE DEF row
    <2>6. QED
      BY <2>1, <2>3, <2>4, <2>5 DEF TypeOK
  <1>3. QED  BY <1>1, <1>2

LEMMA WriteCompletionType ==
    ASSUME TypeOK, NEW t \in RequestRow, WriteCompletion(t)
    PROVE  /\ enrolment' \in EnrolmentRow
           /\ certificate' \in {"NONE", "APPROVED"} \cup EndedCertificate
           /\ counted' \subseteq Lesson /\ latest' \subseteq Lesson
  <1>0. latest' \subseteq Lesson
    BY DEF TypeOK, WriteCompletion, RequestRow
  <1>1. CASE t.completes
    <2>1. enrolment' \in EnrolmentRow
      BY <1>1 DEF TypeOK, WriteCompletion, EnrolmentRow
    <2>2. certificate' = certificate \/ certificate' = "APPROVED"
      BY <1>1 DEF WriteCompletion
    <2>3. certificate' \in {"NONE", "APPROVED"} \cup EndedCertificate
      BY <2>2 DEF TypeOK
    <2>4. counted' \subseteq Lesson
      BY <1>1 DEF WriteCompletion, RequestRow
    <2>5. QED  BY <1>0, <2>1, <2>3, <2>4
  <1>2. CASE ~t.completes
    BY <1>0, <1>2 DEF TypeOK, WriteCompletion
  <1>3. QED  BY <1>1, <1>2

\* An edit leaves a course with its limit, its evidence and its template, and what counts
\* are lessons.
LEMMA EditedType ==
    ASSUME TypeOK, NEW t \in RequestRow
    PROVE  /\ t.op = "edit" => Edited(t) \in CourseSettings
           /\ t.op # "edit" => Edited(t) = course
           /\ Edited(t).quizPass = course.quizPass /\ Edited(t).external = course.external
           /\ Edited(t).template = course.template /\ Edited(t).limit = course.limit
  <1>0. course \in CourseSettings /\ course.required \subseteq Lesson
    BY DEF TypeOK, CourseSettings
  <1>1. CASE t.op # "edit"
    BY <1>1 DEF Edited
  <1>2. CASE t.op = "edit" /\ t.lesson = NoLesson
    <2> DEFINE final == t.verdict = "PASSED"
    <2>1. Edited(t) = [course EXCEPT !.final = final] /\ final \in BOOLEAN
      BY <1>2 DEF Edited
    <2> HIDE DEF final
    <2>2. QED  BY <1>0, <1>2, <2>1 DEF CourseSettings
  <1>3. CASE t.op = "edit" /\ t.lesson # NoLesson
    <2> DEFINE required == IF t.verdict = "PASSED" THEN course.required \cup {t.lesson}
                           ELSE course.required \ {t.lesson}
    <2>1. Edited(t) = [course EXCEPT !.required = required]
      BY <1>3 DEF Edited
    <2>2. required \subseteq Lesson
      BY <1>0, <1>3 DEF RequestRow
    <2> HIDE DEF required
    <2>3. QED  BY <1>0, <1>3, <2>1, <2>2 DEF CourseSettings
  <1>4. QED  BY <1>1, <1>2, <1>3

LEMMA CountingType ==
    ASSUME NEW c \in CourseSettings
    PROVE  Counting(c) \subseteq Lesson
  BY DEF Counting, LastExam, CourseSettings, Lesson

LEMMA RequiredType ==
    ASSUME TypeOK, NEW t \in RequestRow
    PROVE  Required(t) \subseteq Lesson
  <1>1. Edited(t) \in CourseSettings
    BY EditedType DEF TypeOK
  <1>2. QED
    BY <1>1, CountingType DEF Required

\* Another order changes nothing else.
LEMMA Rearranged ==
    ASSUME TypeOK, Rearrange
    PROVE  /\ course' \in CourseSettings
           /\ course'.quizPass = course.quizPass /\ course'.external = course.external
           /\ course'.template = course.template /\ course'.limit = course.limit
           /\ edits' \in Nat
           /\ UNCHANGED <<enrolment, progress, attempt, submission, certificate, assessment, task, history>>
  <1>1. PICK o \in Order : course' = [course EXCEPT !.order = o]
    BY DEF Rearrange
  <1>2. course \in CourseSettings
    BY DEF TypeOK
  <1>3. /\ course' \in CourseSettings
        /\ course'.quizPass = course.quizPass /\ course'.external = course.external
        /\ course'.template = course.template /\ course'.limit = course.limit
    BY <1>1, <1>2 DEF CourseSettings
  <1>4. edits' \in Nat
    BY DEF Rearrange, TypeOK
  <1>5. QED
    BY <1>3, <1>4 DEF Rearrange

LEMMA CompletesType ==
    ASSUME NEW t
    PROVE  Completes(t) \in BOOLEAN
  BY DEF Completes

-------------------------------------------------------------------------------
(***************************************************************************)
(* What is always true of a request in flight                              *)
(***************************************************************************)

\* It is about a lesson of its kind, and about a row of that lesson.
Refers(t) ==
    /\ t.op \in {"start", "submit", "review"} => t.lesson \in Quiz
    /\ t.op \in {"hand in", "grade"} => t.lesson \in Work
    /\ t.op \in {"open", "mark"} => t.lesson \in Marked
    /\ t.op \in {"submit", "review"} => t.item \in DOMAIN attempt /\ attempt[t.item].lesson = t.lesson
    /\ t.op = "grade" => t.item \in DOMAIN submission /\ submission[t.item].lesson = t.lesson

\* It marks a lesson as complete only if that was earned, and completes the course only
\* after a tally, whose lessons are all done, or will be by its own write.
Claims(t) ==
    /\ t.op \in {"start", "hand in", "open"} => t.verdict = "PENDING"
    /\ t.op \notin {"start", "hand in", "open", "mark"} \cup Decisions => t.write = "KEEP"
    /\ t.write = "COMPLETED" => Earns(t)
    /\ t.op = "sync" => course.external
    /\ t.completes => t.at = "tallied" /\ Tallying(t)
    /\ t.completes /\ t.op # "sync" =>
           /\ t.counts # {}
           /\ \A l \in t.counts : progress[l].done \/ (l = t.lesson /\ t.write = "COMPLETED")

\* What it read of the completion and the certificate is not undone.
Saw(t) ==
    /\ t.read.completed => enrolment.completed
    /\ t.op \in {"EXPIRED", "REVOKED"} \/ (t.op = "exit" /\ t.verdict = "PASSED") =>
           certificate # "NONE"

RequestOK(t) == Refers(t) /\ Claims(t) /\ Saw(t)
RequestsOK == \A w \in Worker : task[w] \in RequestRow => RequestOK(task[w])

\* A lesson that counts is done, and an attempt that was passed is submitted.
RowsOK ==
    /\ \A l \in Lesson : Complete(l) => progress[l].done
    /\ \A i \in DOMAIN attempt : attempt[i].passed => attempt[i].status = "SUBMITTED"

\* What no step undoes.
Grows ==
    /\ course'.quizPass = course.quizPass /\ course'.external = course.external
    /\ course'.template = course.template
    /\ \A l \in Lesson : progress[l].done => progress'[l].done
    /\ Len(attempt) <= Len(attempt')
    /\ \A i \in DOMAIN attempt : attempt'[i].lesson = attempt[i].lesson
    /\ Len(submission) <= Len(submission')
    /\ \A i \in DOMAIN submission : submission'[i].lesson = submission[i].lesson
    /\ enrolment.completed => enrolment'.completed
    /\ certificate # "NONE" => certificate' # "NONE"
    /\ contested \subseteq contested'

Begins(w) == \E r \in RequestRow : Begin(w, r) /\ RequestOK(r)
Commits(w) ==
    \/ CommitStart(w) \/ CommitSubmit(w) \/ CommitHandIn(w) \/ CommitMark(w)
    \/ CommitReview(w) \/ CommitGrade(w) \/ CommitEdit(w) \/ CommitAssess(w)
    \/ CommitRevoke(w) \/ CommitEndCertificate(w) \/ CommitSync(w)

-------------------------------------------------------------------------------
\* Every request starts in order: its lesson and row exist, nothing is claimed yet.
LEMMA Start ==
    ASSUME TypeOK, NEW op \in Op, NEW at \in {"loaded", "decided"},
           NEW l \in Lesson \cup {NoLesson}, NEW i \in Nat, NEW verdict \in Verdict,
           op \in {"start", "submit", "review"} => l \in Quiz,
           op \in {"hand in", "grade"} => l \in Work,
           op \in {"open", "mark"} => l \in Marked,
           op \in {"submit", "review"} => i \in DOMAIN attempt /\ attempt[i].lesson = l,
           op = "grade" => i \in DOMAIN submission /\ submission[i].lesson = l,
           op \in {"start", "hand in", "open"} => verdict = "PENDING",
           op = "sync" => course.external,
           op \in {"EXPIRED", "REVOKED"} \/ (op = "exit" /\ verdict = "PASSED") =>
               certificate # "NONE"
    PROVE  /\ Request(op, at, l, i, verdict) \in RequestRow
           /\ RequestOK(Request(op, at, l, i, verdict))
  <1>1. Request(op, at, l, i, verdict) \in RequestRow
    BY RequestType
  <1> DEFINE t == Request(op, at, l, i, verdict)
  <1>2. /\ t.op = op /\ t.lesson = l /\ t.item = i /\ t.verdict = verdict /\ t.read = enrolment
        /\ t.write = "KEEP" /\ ~t.completes
    BY DEF Request
  <1> HIDE DEF t
  <1>3. Refers(t)
    BY <1>2 DEF Refers
  <1>4. Claims(t)
    BY <1>2 DEF Claims
  <1>5. Saw(t)
    BY <1>2 DEF Saw
  <1>6. QED
    BY <1>1, <1>3, <1>4, <1>5 DEF RequestOK, t

LEMMA BeginsOK ==
    ASSUME TypeOK, NEW w \in Worker, Study(w) \/ Teach(w) \/ Administer(w)
    PROVE  Begins(w) \/ Commits(w)
  <1> USE DEF Begins, Verdict, Op
  <1>0. /\ \A i \in DOMAIN attempt : i \in Nat /\ attempt[i].lesson \in Quiz
        /\ \A i \in DOMAIN submission : i \in Nat /\ submission[i].lesson \in Work
        /\ Len(attempt) + 1 \in Nat
    BY RowTypes DEF AttemptRow, SubmissionRow
  <1>1. ASSUME NEW q \in Quiz, BeginStart(w, q)  PROVE Begins(w)
    BY <1>0, <1>1, Start DEF BeginStart, Lesson
  <1>2. ASSUME NEW i \in DOMAIN attempt, NEW v \in Verdict, BeginSubmit(w, i, v)  PROVE Begins(w)
    BY <1>0, <1>2, Start DEF BeginSubmit, Lesson
  <1>3. ASSUME NEW i \in DOMAIN attempt, NEW v \in Verdict, BeginReview(w, i, v)  PROVE Begins(w)
    BY <1>0, <1>3, Start DEF BeginReview, Lesson
  <1>4. ASSUME NEW i \in DOMAIN submission, NEW v \in Verdict, BeginGrade(w, i, v)  PROVE Begins(w)
    BY <1>0, <1>4, Start DEF BeginGrade, Lesson
  <1>5. ASSUME NEW l \in Work, BeginHandIn(w, l)  PROVE Begins(w)
    BY <1>5, Start DEF BeginHandIn, Lesson
  <1>6. ASSUME NEW l \in Marked, BeginOpen(w, l) \/ BeginMark(w, l)  PROVE Begins(w)
    <2>1. CASE BeginOpen(w, l)
      <3> DEFINE r == Request("open", "decided", l, 0, "PENDING")
      <3>1. r \in RequestRow /\ RequestOK(r)
        BY Start DEF Lesson
      <3>2. r.op = "open" /\ r.verdict = "PENDING" /\ r.lesson = l /\ ~r.completes /\ r.read = enrolment
        BY DEF Request
      <3> HIDE DEF r
      <3>3. [r EXCEPT !.write = "IN_PROGRESS"] \in RequestRow
        BY <3>1 DEF RequestRow, ProgressStatus
      <3>4. RequestOK([r EXCEPT !.write = "IN_PROGRESS"])
        BY <3>1, <3>2 DEF RequestOK, Refers, Claims, Saw, RequestRow
      <3>5. QED  BY <2>1, <3>3, <3>4 DEF BeginOpen, r
    <2>2. CASE BeginMark(w, l)
      <3> DEFINE r == Request("mark", "decided", l, 0, "PASSED")
      <3>1. r \in RequestRow /\ RequestOK(r)
        BY Start DEF Lesson
      <3>2. r.op = "mark" /\ r.verdict = "PASSED" /\ r.lesson = l /\ ~r.completes /\ r.read = enrolment
        BY DEF Request
      <3> HIDE DEF r
      <3>3. [r EXCEPT !.write = "COMPLETED"] \in RequestRow
        BY <3>1 DEF RequestRow, ProgressStatus
      <3>4. RequestOK([r EXCEPT !.write = "COMPLETED"])
        BY <3>1, <3>2 DEF RequestOK, Refers, Claims, Saw, RequestRow, Earns
      <3>5. QED  BY <2>2, <3>3, <3>4 DEF BeginMark, r
    <2>3. QED  BY <1>6, <2>1, <2>2
  <1>7. ASSUME NEW l \in Lesson \cup {NoLesson}, BeginEdit(w, l)  PROVE Begins(w)
    <2> DEFINE on == IF l = NoLesson THEN course.final ELSE l \in course.required
               verdict == IF on THEN "FAILED" ELSE "PASSED"
    <2>1. verdict \in Verdict /\ Begin(w, Request("edit", "decided", l, 0, verdict))
      BY <1>7 DEF BeginEdit
    <2> HIDE DEF verdict
    <2>2. QED  BY <2>1, Start
  <1>8. ASSUME BeginSync(w)  PROVE Begins(w)
    BY <1>8, Start DEF BeginSync
  <1>9. ASSUME BeginRefund(w)  PROVE Begins(w)
    BY <1>9, Start DEF BeginRefund
  <1>10. ASSUME NEW op \in {"exit", "seat refund"}, BeginExit(w, op)  PROVE Begins(w)
    BY <1>10, Start DEF BeginExit
  <1>11. ASSUME NEW recommended \in BOOLEAN, BeginAssess(w, recommended)  PROVE Begins(w)
    BY <1>11, Start DEF BeginAssess
  <1>12. ASSUME NEW op \in {"EXPIRED", "REVOKED"}, BeginEndCertificate(w, op)  PROVE Begins(w)
    BY <1>12, Start DEF BeginEndCertificate
  <1>13. Study(w) => Begins(w) \/ Commits(w)
    BY <1>1, <1>2, <1>5, <1>6 DEF Study, Commits
  <1>14. Teach(w) => Begins(w) \/ Commits(w)
    BY <1>3, <1>4, <1>7, <1>11 DEF Teach, Commits
  <1>15. Administer(w) => Begins(w) \/ Commits(w)
    BY <1>8, <1>9, <1>10, <1>12 DEF Administer, Commits
  <1>16. QED  BY <1>13, <1>14, <1>15

LEMMA Steps ==
    ASSUME TypeOK, [Next]_vars
    PROVE  \/ UNCHANGED vars
           \/ Rearrange
           \/ \E w \in Worker : Begins(w) \/ Decide(w) \/ Tally(w) \/ Commits(w)
  BY BeginsOK DEF Next

-------------------------------------------------------------------------------
(***************************************************************************)
(* What a commit leaves                                                    *)
(***************************************************************************)

\* A request about to commit is in order.
LEMMA Committing ==
    ASSUME TypeOK, RequestsOK, NEW w \in Worker, task[w].op \in Op
    PROVE  /\ task[w] \in RequestRow /\ RequestOK(task[w])
           /\ task[w].write # "KEEP" => task[w].lesson \in Lesson
  <1>1. task[w] \in RequestRow /\ RequestOK(task[w])
    BY Busy DEF RequestsOK
  <1>2. QED
    BY <1>1 DEF RequestOK, Refers, Claims, Decisions, Lesson

\* A decision on an attempt, and the rows that decisions and new attempts leave.
LEMMA DecidedType ==
    ASSUME NEW t \in RequestRow, t.lesson \in Quiz
    PROVE  /\ Decided(t) \in AttemptRow /\ Decided(t).lesson = t.lesson
           /\ Decided(t).passed => Decided(t).status = "SUBMITTED"
  <1> DEFINE status == IF t.verdict = "EXPIRED" THEN "EXPIRED"
                       ELSE IF t.verdict = "PENDING" THEN "PENDING_REVIEW" ELSE "SUBMITTED"
             passed == t.verdict = "PASSED"
  <1>1. status \in {"IN_PROGRESS", "SUBMITTED", "PENDING_REVIEW", "EXPIRED"} /\ passed \in BOOLEAN
    OBVIOUS
  <1>2. passed => status = "SUBMITTED"
    OBVIOUS
  <1>3. Decided(t) = [lesson |-> t.lesson, passed |-> passed, status |-> status]
    BY DEF Decided
  <1> HIDE DEF status, passed
  <1>4. QED  BY <1>1, <1>2, <1>3 DEF AttemptRow

LEMMA AttemptType ==
    ASSUME TypeOK, RequestsOK, NEW w \in Worker, CommitStart(w) \/ CommitSubmit(w) \/ CommitReview(w)
    PROVE  attempt' \in Seq(AttemptRow)
  <1> DEFINE t == task[w]
  <1>0. attempt \in Seq(AttemptRow)
    BY DEF TypeOK
  <1>1. CASE CommitStart(w)
    <2>1. t.op = "start" /\ attempt' = Append(attempt, [lesson |-> t.lesson, status |-> "IN_PROGRESS", passed |-> FALSE])
      BY <1>1 DEF CommitStart, Ready
    <2>2. t.lesson \in Quiz
      BY <2>1, Committing DEF RequestOK, Refers, Op
    <2> HIDE DEF t
    <2>3. [lesson |-> t.lesson, status |-> "IN_PROGRESS", passed |-> FALSE] \in AttemptRow
      BY <2>2 DEF AttemptRow
    <2>4. QED  BY <1>0, <2>1, <2>3, AppendProperties
  <1>2. CASE CommitSubmit(w) \/ CommitReview(w)
    <2>1. t.op \in {"submit", "review"} /\ attempt' = [attempt EXCEPT ![t.item] = Decided(t)]
      BY <1>2 DEF CommitSubmit, CommitReview, CommitAttempt, Ready
    <2>2. t \in RequestRow /\ t.lesson \in Quiz /\ t.item \in DOMAIN attempt
      BY <2>1, Committing DEF RequestOK, Refers, Op
    <2> HIDE DEF t
    <2>3. Decided(t) \in AttemptRow
      BY <2>2, DecidedType
    <2>4. t.item \in 1..Len(attempt)
      BY <1>0, <2>2
    <2>5. QED  BY <1>0, <2>1, <2>3, <2>4, ExceptSeq
  <1>3. QED  BY <1>1, <1>2

LEMMA SubmissionType ==
    ASSUME TypeOK, RequestsOK, NEW w \in Worker, CommitHandIn(w) \/ CommitGrade(w)
    PROVE  submission' \in Seq(SubmissionRow)
  <1> DEFINE t == task[w]
  <1>0. submission \in Seq(SubmissionRow)
    BY DEF TypeOK
  <1>1. CASE CommitHandIn(w)
    <2>1. t.op = "hand in" /\ submission' = Append(submission, [lesson |-> t.lesson, status |-> "SUBMITTED"])
      BY <1>1 DEF CommitHandIn, Ready
    <2>2. t.lesson \in Work
      BY <2>1, Committing DEF RequestOK, Refers, Op
    <2> HIDE DEF t
    <2>3. [lesson |-> t.lesson, status |-> "SUBMITTED"] \in SubmissionRow
      BY <2>2 DEF SubmissionRow
    <2>4. QED  BY <1>0, <2>1, <2>3, AppendProperties
  <1>2. CASE CommitGrade(w)
    <2> DEFINE status == IF t.verdict = "PASSED" THEN "GRADED" ELSE "RETURNED"
               row == [submission[t.item] EXCEPT !.status = status]
    <2>1. t.op = "grade" /\ submission' = [submission EXCEPT ![t.item] = row]
      BY <1>2 DEF CommitGrade, Ready
    <2>2. t.item \in DOMAIN submission
      BY <2>1, Committing DEF RequestOK, Refers, Op
    <2>3. status \in {"SUBMITTED", "GRADED", "RETURNED"} /\ submission[t.item] \in SubmissionRow
      BY <2>2, RowTypes
    <2> HIDE DEF status, t
    <2>4. row \in SubmissionRow
      BY <2>3 DEF SubmissionRow
    <2> HIDE DEF row
    <2>5. t.item \in 1..Len(submission)
      BY <1>0, <2>2
    <2>6. QED  BY <1>0, <2>1, <2>4, <2>5, ExceptSeq
  <1>3. QED  BY <1>1, <1>2

\* Whoever commits writes rows of their types.
LEMMA CommitType ==
    ASSUME TypeOK, RequestsOK, NEW w \in Worker, Commits(w)
    PROVE  TypeOK'
  <1> DEFINE t == task[w]
  <1>1. CASE CommitStart(w)
    <2>1. t \in RequestRow /\ (t.write # "KEEP" => t.lesson \in Lesson)
      BY <1>1, Committing DEF CommitStart, Ready, Op
    <2>2. enrolment' \in EnrolmentRow
      BY <1>1 DEF CommitStart, TypeOK, EnrolmentRow
    <2>3. attempt' \in Seq(AttemptRow)
      BY <1>1, AttemptType
    <2>4. progress' \in [Lesson -> ProgressRow] /\ stale' \subseteq Lesson
      BY <1>1, <2>1, WriteProgressType DEF CommitStart
    <2>5. task' \in [Worker -> {Idle} \cup RequestRow]
      BY <1>1, DoneType DEF CommitStart
    <2>6. raced' \subseteq {"tally", "start", "enrolment"}
      BY <1>1 DEF CommitStart, TypeOK
    <2>7. QED
      BY <1>1, <2>2, <2>3, <2>4, <2>5, <2>6 DEF CommitStart, TypeOK
  <1>2. CASE CommitSubmit(w) \/ CommitReview(w)
    <2>1. t \in RequestRow /\ (t.write # "KEEP" => t.lesson \in Lesson) /\ t.lesson \in Quiz
      BY <1>2, Committing DEF CommitSubmit, CommitReview, CommitAttempt, Ready, Op, RequestOK, Refers
    <2>2. WriteProgress(t) /\ WriteCompletion(t) /\ Done(w)
          /\ UNCHANGED <<course, submission, assessment, edits, raced>>
          /\ (contested' = contested \/ contested' = contested \cup {t.lesson})
      BY <1>2 DEF CommitSubmit, CommitReview, CommitAttempt
    <2>3. attempt' \in Seq(AttemptRow)
      BY <1>2, AttemptType
    <2>4. progress' \in [Lesson -> ProgressRow] /\ stale' \subseteq Lesson
      BY <2>1, <2>2, WriteProgressType
    <2>5. task' \in [Worker -> {Idle} \cup RequestRow]
      BY <2>2, DoneType
    <2>6. contested' \subseteq Lesson
      BY <2>1, <2>2 DEF TypeOK, Lesson
    <2>7. /\ enrolment' \in EnrolmentRow /\ counted' \subseteq Lesson /\ latest' \subseteq Lesson
          /\ certificate' \in {"NONE", "APPROVED"} \cup EndedCertificate
      BY <2>1, <2>2, WriteCompletionType
    <2>8. QED
      BY <2>2, <2>3, <2>4, <2>5, <2>6, <2>7 DEF TypeOK
  <1>3. CASE CommitHandIn(w)
    <2>1. t \in RequestRow /\ (t.write # "KEEP" => t.lesson \in Lesson)
      BY <1>3, Committing DEF CommitHandIn, Ready, Op
    <2>2. submission' \in Seq(SubmissionRow)
      BY <1>3, SubmissionType
    <2>3. progress' \in [Lesson -> ProgressRow] /\ stale' \subseteq Lesson
      BY <1>3, <2>1, WriteProgressType DEF CommitHandIn
    <2>4. task' \in [Worker -> {Idle} \cup RequestRow]
      BY <1>3, DoneType DEF CommitHandIn
    <2>5. QED
      BY <1>3, <2>2, <2>3, <2>4 DEF CommitHandIn, TypeOK
  <1>4. CASE CommitGrade(w)
    <2>1. t \in RequestRow /\ (t.write # "KEEP" => t.lesson \in Lesson) /\ t.lesson \in Work
      BY <1>4, Committing DEF CommitGrade, Ready, Op, RequestOK, Refers
    <2>2. WriteProgress(t) /\ WriteCompletion(t) /\ Done(w)
          /\ UNCHANGED <<course, attempt, assessment, edits, raced>>
          /\ (contested' = contested \/ contested' = contested \cup {t.lesson})
      BY <1>4 DEF CommitGrade
    <2>3. submission' \in Seq(SubmissionRow)
      BY <1>4, SubmissionType
    <2>4. progress' \in [Lesson -> ProgressRow] /\ stale' \subseteq Lesson
      BY <2>1, <2>2, WriteProgressType
    <2>5. task' \in [Worker -> {Idle} \cup RequestRow]
      BY <2>2, DoneType
    <2>6. contested' \subseteq Lesson
      BY <2>1, <2>2 DEF TypeOK, Lesson
    <2>7. /\ enrolment' \in EnrolmentRow /\ counted' \subseteq Lesson /\ latest' \subseteq Lesson
          /\ certificate' \in {"NONE", "APPROVED"} \cup EndedCertificate
      BY <2>1, <2>2, WriteCompletionType
    <2>8. QED
      BY <2>2, <2>3, <2>4, <2>5, <2>6, <2>7 DEF TypeOK
  <1>5. CASE CommitMark(w)
    <2>1. t \in RequestRow /\ (t.write # "KEEP" => t.lesson \in Lesson)
      BY <1>5, Committing DEF CommitMark, Ready, Op
    <2>2. progress' \in [Lesson -> ProgressRow] /\ stale' \subseteq Lesson
      BY <1>5, <2>1, WriteProgressType DEF CommitMark
    <2>3. /\ enrolment' \in EnrolmentRow /\ counted' \subseteq Lesson /\ latest' \subseteq Lesson
          /\ certificate' \in {"NONE", "APPROVED"} \cup EndedCertificate
      BY <1>5, <2>1, WriteCompletionType DEF CommitMark
    <2>4. task' \in [Worker -> {Idle} \cup RequestRow]
      BY <1>5, DoneType DEF CommitMark
    <2>5. QED
      BY <1>5, <2>2, <2>3, <2>4 DEF CommitMark, TypeOK
  <1>6. CASE CommitEdit(w)
    <2>1. t \in RequestRow /\ t.op = "edit"
      BY <1>6, Committing DEF CommitEdit, Ready, Op
    <2>3. course' = Edited(t) /\ edits' = edits + 1
      BY <1>6 DEF CommitEdit
    <2>4. course' \in CourseSettings
      BY <2>1, <2>3, EditedType
    <2>5. /\ enrolment' \in EnrolmentRow /\ counted' \subseteq Lesson /\ latest' \subseteq Lesson
          /\ certificate' \in {"NONE", "APPROVED"} \cup EndedCertificate
      BY <1>6, <2>1, WriteCompletionType DEF CommitEdit
    <2>6. task' \in [Worker -> {Idle} \cup RequestRow]
      BY <1>6, DoneType DEF CommitEdit
    <2>7. edits' \in Nat
      BY <2>3 DEF TypeOK
    <2>8. QED
      BY <1>6, <2>4, <2>5, <2>6, <2>7 DEF CommitEdit, TypeOK
  <1>7. CASE CommitAssess(w)
    <2>1. CASE RollBack(w)
      BY <2>1, RollBackType
    <2>2. CASE ~RollBack(w)
      <3> DEFINE recommended == assessment.recommended \/ t.verdict = "PASSED"
                 since == assessment.since \/ (t.verdict = "PASSED" /\ t.read.completed)
      <3>0. t \in RequestRow /\ t.read.completed \in BOOLEAN
        BY <1>7, Committing DEF CommitAssess, Doing, Op, RequestRow, EnrolmentRow
      <3>1. /\ assessment' = [recommended |-> recommended, since |-> since]
            /\ certificate' = certificate \/ certificate' = "APPROVED"
            /\ Done(w)
            /\ UNCHANGED <<course, enrolment, progress, attempt, submission, edits, history>>
        BY <1>7, <2>2 DEF CommitAssess
      <3>2. recommended \in BOOLEAN /\ since \in BOOLEAN
        BY <3>0 DEF TypeOK
      <3> HIDE DEF recommended, since
      <3>3. assessment' \in [recommended: BOOLEAN, since: BOOLEAN]
        BY <3>1, <3>2
      <3>4. task' \in [Worker -> {Idle} \cup RequestRow]
        BY <3>1, DoneType
      <3>5. QED
        BY <3>1, <3>3, <3>4 DEF TypeOK, history
    <2>3. QED  BY <2>1, <2>2
  <1>8. CASE CommitRevoke(w)
    <2>1. t \in RequestRow
      BY <1>8, Committing DEF CommitRevoke, Doing, Op
    <2>2. enrolment' \in EnrolmentRow
      <3>1. Revoked(t) \in EnrolmentRow
        <4> DEFINE status == IF t.read.status = "COMPLETED" THEN enrolment.status ELSE "REVOKED"
                   refunded == t.op = "refund"
        <4>1. enrolment \in EnrolmentRow /\ status \in {"ENROLLED", "IN_PROGRESS", "COMPLETED", "REVOKED"}
              /\ refunded \in BOOLEAN
          BY DEF TypeOK, EnrolmentRow
        <4>2. Revoked(t) = [enrolment EXCEPT !.revoked = TRUE, !.refunded = refunded, !.status = status]
          BY DEF Revoked
        <4> HIDE DEF status, refunded
        <4>3. QED  BY <4>1, <4>2 DEF EnrolmentRow
      <3>2. QED  BY <1>8, <3>1 DEF CommitRevoke, TypeOK
    <2>3. certificate' = certificate \/ certificate' = "INACTIVE_FOR_PLATFORM_USE"
      BY <1>8 DEF CommitRevoke
    <2>4. raced' \subseteq {"tally", "start", "enrolment"}
      BY <1>8 DEF CommitRevoke, TypeOK
    <2>5. task' \in [Worker -> {Idle} \cup RequestRow]
      BY <1>8, DoneType DEF CommitRevoke
    <2>6. certificate' \in {"NONE", "APPROVED"} \cup EndedCertificate
      BY <2>3 DEF TypeOK, EndedCertificate
    <2>7. QED
      BY <1>8, <2>2, <2>4, <2>5, <2>6 DEF CommitRevoke, TypeOK
  <1>9. CASE CommitEndCertificate(w)
    <2>1. certificate' \in EndedCertificate
      BY <1>9 DEF CommitEndCertificate, Doing, EndedCertificate
    <2>2. task' \in [Worker -> {Idle} \cup RequestRow]
      BY <1>9, DoneType DEF CommitEndCertificate
    <2>3. QED
      BY <1>9, <2>1, <2>2 DEF CommitEndCertificate, TypeOK, history
  <1>10. CASE CommitSync(w)
    <2>1. t \in RequestRow
      BY <1>10, Committing DEF CommitSync, Ready, Op
    <2>2. /\ enrolment' \in EnrolmentRow /\ counted' \subseteq Lesson /\ latest' \subseteq Lesson
          /\ certificate' \in {"NONE", "APPROVED"} \cup EndedCertificate
      BY <1>10, <2>1, WriteCompletionType DEF CommitSync
    <2>3. task' \in [Worker -> {Idle} \cup RequestRow]
      BY <1>10, DoneType DEF CommitSync
    <2>4. QED
      BY <1>10, <2>2, <2>3 DEF CommitSync, TypeOK
  <1>11. QED
    BY <1>1, <1>2, <1>3, <1>4, <1>5, <1>6, <1>7, <1>8, <1>9, <1>10 DEF Commits

-------------------------------------------------------------------------------
(***************************************************************************)
(* What a request decides and tallies                                      *)
(***************************************************************************)
LEMMA DecideOK ==
    ASSUME TypeOK, RequestsOK, NEW w \in Worker, Decide(w)
    PROVE  \E r \in RequestRow : /\ task' = [task EXCEPT ![w] = r] /\ RequestOK(r)
                                 /\ UNCHANGED <<records, history>>
  <1> DEFINE t == task[w]
             now == progress[t.lesson]
             write == IF now.done THEN "KEEP" ELSE Target(t)
             r == [t EXCEPT !.at = "decided", !.before = now, !.write = write]
  <1>1. /\ t.at = "loaded" /\ t.op \in {"start", "hand in"} \cup Decisions
        /\ task' = [task EXCEPT ![w] = r] /\ UNCHANGED <<records, history>>
    BY DEF Decide
  <1>2. t \in RequestRow /\ RequestOK(t) /\ t.lesson \in Lesson
    <2>1. t.op \in Op
      BY <1>1 DEF Op, Decisions
    <2>2. t \in RequestRow /\ RequestOK(t)
      BY <2>1, Committing
    <2>3. QED
      BY <1>1, <2>2 DEF RequestOK, Refers, Decisions, Lesson
  <1>3. now \in ProgressRow
    BY <1>2 DEF TypeOK
  <1>4. write \in ProgressStatus \cup {"KEEP"}
    BY DEF Target, RetakeOrFail, ProgressStatus
  <1>5. write = "COMPLETED" => Earns(t)
    BY DEF Target, RetakeOrFail
  <1> HIDE DEF now, write
  <1>6. r \in RequestRow
    BY <1>2, <1>3, <1>4 DEF RequestRow
  <1>7. /\ r.op = t.op /\ r.at = "decided" /\ r.lesson = t.lesson /\ r.item = t.item
        /\ r.verdict = t.verdict /\ r.read = t.read /\ r.write = write /\ r.completes = t.completes
    BY <1>2 DEF RequestRow
  <1> HIDE DEF r
  <1>8. Refers(r) /\ Saw(r)
    BY <1>2, <1>7 DEF RequestOK, Refers, Saw
  <1>9. Claims(r)
    <2>1. ~t.completes
      BY <1>1, <1>2 DEF RequestOK, Claims
    <2>2. Earns(t) => Earns(r)
      BY <1>7 DEF Earns
    <2>3. QED
      BY <1>1, <1>2, <1>5, <1>7, <2>1, <2>2 DEF RequestOK, Claims
  <1>10. QED
    BY <1>1, <1>6, <1>8, <1>9 DEF RequestOK

LEMMA TallyOK ==
    ASSUME TypeOK, RequestsOK, RowsOK, NEW w \in Worker, Tally(w)
    PROVE  \/ RollBack(w)
           \/ \E r \in RequestRow :
                /\ task' = [task EXCEPT ![w] = r] /\ RequestOK(r)
                /\ raced' = raced \/ raced' = raced \cup {"tally"}
                /\ UNCHANGED <<records, counted, latest, contested, stale>>
  <1> DEFINE t == task[w]
             counts == Required(t)
             completes == Completes(t)
             r == [t EXCEPT !.at = "tallied", !.counts = counts, !.completes = completes]
  <1>1. /\ t.at = "decided" /\ Tallying(t)
        /\ \/ RollBack(w)
           \/ /\ task' = [task EXCEPT ![w] = r]
              /\ raced' = raced \/ raced' = raced \cup {"tally"}
              /\ UNCHANGED <<records, counted, latest, contested, stale>>
    BY DEF Tally
  <1>2. t \in RequestRow /\ RequestOK(t)
    <2>1. t.op \in Op
      BY <1>1 DEF Op, Tallying
    <2>2. QED  BY <2>1, Committing
  <1>3. counts \subseteq Lesson
    BY <1>2, RequiredType
  <1>4. completes \in BOOLEAN
    BY CompletesType
  <1>5. completes /\ t.op # "sync" =>
            /\ counts # {}
            /\ \A l \in counts : progress[l].done \/ (l = t.lesson /\ t.write = "COMPLETED")
    BY <1>3 DEF Completes, RowsOK
  <1> HIDE DEF counts, completes
  <1>6. r \in RequestRow
    BY <1>2, <1>3, <1>4 DEF RequestRow
  <1>7. /\ r.op = t.op /\ r.at = "tallied" /\ r.lesson = t.lesson /\ r.item = t.item
        /\ r.verdict = t.verdict /\ r.read = t.read /\ r.write = t.write
        /\ r.counts = counts /\ r.completes = completes
    BY <1>2 DEF RequestRow
  <1> HIDE DEF r
  <1>8. Refers(r) /\ Saw(r)
    BY <1>2, <1>7 DEF RequestOK, Refers, Saw
  <1>9. Claims(r)
    <2>1. (Earns(t) => Earns(r)) /\ Tallying(r)
      BY <1>1, <1>7 DEF Earns, Tallying
    <2>2. QED
      BY <1>2, <1>5, <1>7, <2>1 DEF RequestOK, Claims
  <1>10. QED
    BY <1>1, <1>6, <1>8, <1>9 DEF RequestOK

LEMMA TaskType ==
    ASSUME TypeOK, NEW w \in Worker, NEW r \in RequestRow, task' = [task EXCEPT ![w] = r],
           UNCHANGED <<records, counted, latest, contested, stale>>,
           raced' = raced \/ raced' = raced \cup {"tally"}
    PROVE  TypeOK'
  BY DEF TypeOK, records

LEMMA StepType ==
    ASSUME TypeOK, RequestsOK, RowsOK, [Next]_vars
    PROVE  TypeOK'
  <1>1. CASE UNCHANGED vars
    BY <1>1 DEF TypeOK, vars, records, history
  <1>2. ASSUME NEW w \in Worker, Begins(w)  PROVE TypeOK'
    BY <1>2, BeginType DEF Begins
  <1>3. ASSUME NEW w \in Worker, Decide(w)  PROVE TypeOK'
    BY <1>3, DecideOK, TaskType DEF history
  <1>4. ASSUME NEW w \in Worker, Tally(w)  PROVE TypeOK'
    BY <1>4, TallyOK, TaskType, RollBackType
  <1>5. ASSUME NEW w \in Worker, Commits(w)  PROVE TypeOK'
    BY <1>5, CommitType
  <1>6. CASE Rearrange
    BY <1>6, Rearranged DEF TypeOK, history
  <1>7. QED
    BY <1>1, <1>2, <1>3, <1>4, <1>5, <1>6, Steps

-------------------------------------------------------------------------------
(***************************************************************************)
(* What no step undoes                                                     *)
(***************************************************************************)
LEMMA RestGrows ==
    ASSUME TypeOK, UNCHANGED records, contested \subseteq contested'
    PROVE  Grows
  BY DEF TypeOK, Grows, records

LEMMA WriteProgressGrows ==
    ASSUME TypeOK, NEW t \in RequestRow, t.write # "KEEP" => t.lesson \in Lesson, WriteProgress(t)
    PROVE  \A l \in Lesson :
             /\ progress'[l].done <=> progress[l].done \/ (l = t.lesson /\ t.write = "COMPLETED")
             /\ Complete(l)' => progress'[l].done \/ (progress'[l] = progress[l])
  <1>1. CASE t.write = "KEEP"
    BY <1>1 DEF WriteProgress
  <1>2. CASE t.write # "KEEP"
    <2> DEFINE done == progress[t.lesson].done \/ t.write = "COMPLETED"
               row == [progress[t.lesson] EXCEPT !.status = t.write, !.done = done]
    <2>1. t.lesson \in Lesson /\ progress[t.lesson] \in ProgressRow /\ progress \in [Lesson -> ProgressRow]
      BY <1>2 DEF TypeOK
    <2>2. progress' = [progress EXCEPT ![t.lesson] = row]
      BY <1>2 DEF WriteProgress
    <2>3. row.done = done /\ row.status = t.write
      <3> HIDE DEF done
      <3>1. QED  BY <2>1 DEF ProgressRow
    <2> HIDE DEF row
    <2>4. progress'[t.lesson] = row /\ \A l \in Lesson : l # t.lesson => progress'[l] = progress[l]
      BY <2>1, <2>2
    <2>5. QED
      BY <2>3, <2>4 DEF Complete
  <1>3. QED  BY <1>1, <1>2

LEMMA WriteCompletionGrows ==
    ASSUME TypeOK, NEW t \in RequestRow, WriteCompletion(t)
    PROVE  /\ enrolment'.completed <=> enrolment.completed \/ t.completes
           /\ certificate # "NONE" => certificate' # "NONE"
  BY DEF TypeOK, WriteCompletion, EnrolmentRow

\* The rows of attempts and submissions stay those of their lessons, and the row a
\* request decides becomes its decision.
LEMMA AttemptGrows ==
    ASSUME TypeOK, RequestsOK, NEW w \in Worker, CommitStart(w) \/ CommitSubmit(w) \/ CommitReview(w)
    PROVE  LET t == task[w] IN
           /\ Len(attempt) <= Len(attempt')
           /\ \A i \in DOMAIN attempt : attempt'[i].lesson = attempt[i].lesson
           /\ \A i \in DOMAIN attempt : attempt'[i] = attempt[i] \/ (t.op # "start" /\ i = t.item)
           /\ t.op # "start" => /\ t.item \in DOMAIN attempt' /\ attempt'[t.item] = Decided(t)
                                /\ DOMAIN attempt' = DOMAIN attempt
           /\ \A i \in DOMAIN attempt' \ DOMAIN attempt : ~attempt'[i].passed
  <1> DEFINE t == task[w]
  <1>0. attempt \in Seq(AttemptRow)
    BY DEF TypeOK
  <1>1. CASE CommitStart(w)
    <2> DEFINE row == [lesson |-> t.lesson, status |-> "IN_PROGRESS", passed |-> FALSE]
    <2>1. t.op = "start" /\ attempt' = Append(attempt, row)
      BY <1>1 DEF CommitStart, Ready
    <2>2. t.lesson \in Quiz
      BY <2>1, Committing DEF RequestOK, Refers, Op
    <2>3. row \in AttemptRow /\ ~row.passed
      BY <2>2 DEF AttemptRow
    <2> HIDE DEF row
    <2>4. /\ Len(attempt') = Len(attempt) + 1 /\ attempt'[Len(attempt) + 1] = row
          /\ \A i \in 1..Len(attempt) : attempt'[i] = attempt[i]
          /\ attempt' \in Seq(AttemptRow)
      BY <1>0, <2>1, <2>3, AppendProperties
    <2>5. DOMAIN attempt = 1..Len(attempt) /\ DOMAIN attempt' = 1..Len(attempt') /\ Len(attempt) \in Nat
      BY <1>0, <2>4
    <2>6. QED  BY <2>1, <2>3, <2>4, <2>5
  <1>2. CASE CommitSubmit(w) \/ CommitReview(w)
    <2>1. t.op \in {"submit", "review"} /\ attempt' = [attempt EXCEPT ![t.item] = Decided(t)]
      BY <1>2 DEF CommitSubmit, CommitReview, CommitAttempt, Ready
    <2>2. /\ t \in RequestRow /\ t.lesson \in Quiz
          /\ t.item \in DOMAIN attempt /\ attempt[t.item].lesson = t.lesson
      BY <2>1, Committing DEF RequestOK, Refers, Op
    <2>3. Decided(t) \in AttemptRow /\ Decided(t).lesson = t.lesson
      BY <2>2, DecidedType
    <2> HIDE DEF t
    <2>4. t.item \in 1..Len(attempt)
      BY <1>0, <2>2
    <2>5. /\ attempt' \in Seq(AttemptRow) /\ Len(attempt') = Len(attempt)
          /\ \A i \in 1..Len(attempt) : attempt'[i] = IF i = t.item THEN Decided(t) ELSE attempt[i]
      BY <1>0, <2>1, <2>3, <2>4, ExceptSeq
    <2>6. DOMAIN attempt = 1..Len(attempt) /\ DOMAIN attempt' = 1..Len(attempt') /\ Len(attempt) \in Nat
      BY <1>0, <2>5
    <2>7. QED  BY <2>1, <2>2, <2>3, <2>4, <2>5, <2>6 DEF t
  <1>3. QED  BY <1>1, <1>2

LEMMA SubmissionGrows ==
    ASSUME TypeOK, RequestsOK, NEW w \in Worker, CommitHandIn(w) \/ CommitGrade(w)
    PROVE  LET t == task[w] IN
           /\ Len(submission) <= Len(submission')
           /\ \A i \in DOMAIN submission : submission'[i].lesson = submission[i].lesson
           /\ \A i \in DOMAIN submission : submission'[i] = submission[i] \/ (t.op = "grade" /\ i = t.item)
           /\ t.op = "grade" => /\ t.item \in DOMAIN submission'
                                /\ t.verdict = "PASSED" => submission'[t.item].status = "GRADED"
  <1> DEFINE t == task[w]
  <1>0. submission \in Seq(SubmissionRow)
    BY DEF TypeOK
  <1>1. CASE CommitHandIn(w)
    <2> DEFINE row == [lesson |-> t.lesson, status |-> "SUBMITTED"]
    <2>1. t.op = "hand in" /\ submission' = Append(submission, row)
      BY <1>1 DEF CommitHandIn, Ready
    <2>2. t.lesson \in Work
      BY <2>1, Committing DEF RequestOK, Refers, Op
    <2>3. row \in SubmissionRow
      BY <2>2 DEF SubmissionRow
    <2> HIDE DEF row, t
    <2>4. /\ Len(submission') = Len(submission) + 1 /\ submission'[Len(submission) + 1] = row
          /\ \A i \in 1..Len(submission) : submission'[i] = submission[i]
          /\ submission' \in Seq(SubmissionRow)
      <3>1. submission' = Append(submission, row)
        BY <2>1
      <3>2. QED  BY <1>0, <2>3, <3>1, AppendProperties
    <2>5. DOMAIN submission = 1..Len(submission) /\ Len(submission) \in Nat
      BY <1>0
    <2>6. t.op # "grade"
      BY <2>1
    <2>7. QED  BY <2>4, <2>5, <2>6 DEF t
  <1>2. CASE CommitGrade(w)
    <2> DEFINE status == IF t.verdict = "PASSED" THEN "GRADED" ELSE "RETURNED"
               row == [submission[t.item] EXCEPT !.status = status]
    <2>1. t.op = "grade" /\ submission' = [submission EXCEPT ![t.item] = row]
      BY <1>2 DEF CommitGrade, Ready
    <2>2. t.item \in DOMAIN submission
      BY <2>1, Committing DEF RequestOK, Refers, Op
    <2>3. status \in {"SUBMITTED", "GRADED", "RETURNED"} /\ submission[t.item] \in SubmissionRow
      BY <2>2, RowTypes
    <2>4. t.verdict = "PASSED" => status = "GRADED"
      OBVIOUS
    <2> HIDE DEF status, t
    <2>5. row \in SubmissionRow /\ row.lesson = submission[t.item].lesson /\ row.status = status
      BY <2>3 DEF SubmissionRow
    <2> HIDE DEF row
    <2>6. t.item \in 1..Len(submission)
      BY <1>0, <2>2
    <2>7. /\ submission' \in Seq(SubmissionRow) /\ Len(submission') = Len(submission)
          /\ \A i \in 1..Len(submission) : submission'[i] = IF i = t.item THEN row ELSE submission[i]
      BY <1>0, <2>1, <2>5, <2>6, ExceptSeq
    <2>8. DOMAIN submission = 1..Len(submission) /\ DOMAIN submission' = 1..Len(submission')
          /\ Len(submission) \in Nat
      BY <1>0, <2>7
    <2>9. QED  BY <2>1, <2>4, <2>5, <2>6, <2>7, <2>8 DEF t
  <1>3. QED  BY <1>1, <1>2

LEMMA CommitGrows ==
    ASSUME TypeOK, RequestsOK, NEW w \in Worker, Commits(w)
    PROVE  Grows
  <1> DEFINE t == task[w]
  <1>0. Len(attempt) <= Len(attempt) /\ Len(submission) <= Len(submission)
    <2>1. Len(attempt) \in Nat /\ Len(submission) \in Nat
      BY DEF TypeOK
    <2>2. QED  BY <2>1
  <1>1. CASE CommitStart(w)
    <2>1. t \in RequestRow /\ (t.write # "KEEP" => t.lesson \in Lesson)
      BY <1>1, Committing DEF CommitStart, Ready, Op
    <2>2. \A l \in Lesson : progress[l].done => progress'[l].done
      BY <1>1, <2>1, WriteProgressGrows DEF CommitStart
    <2>3. enrolment.completed => enrolment'.completed
      BY <1>1 DEF CommitStart, TypeOK, EnrolmentRow
    <2>4. QED
      BY <1>0, <1>1, <2>2, <2>3, AttemptGrows DEF CommitStart, Grows
  <1>2. CASE CommitSubmit(w) \/ CommitReview(w)
    <2>1. t \in RequestRow /\ (t.write # "KEEP" => t.lesson \in Lesson)
      BY <1>2, Committing DEF CommitSubmit, CommitReview, CommitAttempt, Ready, Op
    <2>2. WriteProgress(t) /\ WriteCompletion(t) /\ UNCHANGED <<course, submission>>
          /\ contested \subseteq contested'
      BY <1>2 DEF CommitSubmit, CommitReview, CommitAttempt
    <2>3. QED
      BY <1>0, <1>2, <2>1, <2>2, AttemptGrows, WriteProgressGrows, WriteCompletionGrows DEF Grows
  <1>3. CASE CommitHandIn(w)
    <2>1. t \in RequestRow /\ (t.write # "KEEP" => t.lesson \in Lesson)
      BY <1>3, Committing DEF CommitHandIn, Ready, Op
    <2>2. WriteProgress(t) /\ UNCHANGED <<course, enrolment, attempt, certificate, contested>>
      BY <1>3 DEF CommitHandIn
    <2>3. QED
      BY <1>0, <1>3, <2>1, <2>2, SubmissionGrows, WriteProgressGrows DEF Grows
  <1>4. CASE CommitGrade(w)
    <2>1. t \in RequestRow /\ (t.write # "KEEP" => t.lesson \in Lesson)
      BY <1>4, Committing DEF CommitGrade, Ready, Op
    <2>2. WriteProgress(t) /\ WriteCompletion(t) /\ UNCHANGED <<course, attempt>>
          /\ contested \subseteq contested'
      BY <1>4 DEF CommitGrade
    <2>3. QED
      BY <1>0, <1>4, <2>1, <2>2, SubmissionGrows, WriteProgressGrows, WriteCompletionGrows DEF Grows
  <1>5. CASE CommitMark(w)
    <2>1. t \in RequestRow /\ (t.write # "KEEP" => t.lesson \in Lesson)
      BY <1>5, Committing DEF CommitMark, Ready, Op
    <2>2. WriteProgress(t) /\ WriteCompletion(t) /\ UNCHANGED <<course, attempt, submission, contested>>
      BY <1>5 DEF CommitMark
    <2>3. QED
      BY <1>0, <2>1, <2>2, WriteProgressGrows, WriteCompletionGrows DEF Grows
  <1>6. CASE CommitEdit(w)
    <2>1. t \in RequestRow
      BY <1>6, Committing DEF CommitEdit, Ready, Op
    <2>3. /\ course'.quizPass = course.quizPass /\ course'.external = course.external
          /\ course'.template = course.template
      BY <1>6, <2>1, EditedType DEF CommitEdit
    <2>4. WriteCompletion(t) /\ UNCHANGED <<progress, attempt, submission, contested>>
      BY <1>6 DEF CommitEdit
    <2>5. QED
      BY <1>0, <2>1, <2>3, <2>4, WriteCompletionGrows DEF Grows
  <1>7. CASE CommitAssess(w)
    <2>1. CASE RollBack(w)
      BY <2>1, RestGrows DEF RollBack, history
    <2>2. CASE ~RollBack(w)
      <3>1. /\ certificate' = certificate \/ certificate' = "APPROVED"
            /\ UNCHANGED <<course, enrolment, progress, attempt, submission, edits, history>>
        BY <1>7, <2>2 DEF CommitAssess
      <3>2. QED
        BY <1>0, <3>1 DEF Grows, history
    <2>3. QED  BY <2>1, <2>2
  <1>8. CASE CommitRevoke(w)
    <2>1. t \in RequestRow /\ RequestOK(t)
      BY <1>8, Committing DEF CommitRevoke, Doing, Op
    <2>2. Revoked(t).completed = enrolment.completed
      BY DEF Revoked, TypeOK, EnrolmentRow
    <2>3. enrolment'.completed = enrolment.completed
      BY <1>8, <2>2 DEF CommitRevoke
    <2>4. certificate # "NONE" => certificate' # "NONE"
      BY <1>8 DEF CommitRevoke
    <2>5. QED
      BY <1>0, <1>8, <2>3, <2>4 DEF CommitRevoke, Grows
  <1>9. CASE CommitEndCertificate(w)
    <2>1. certificate' # "NONE" /\ UNCHANGED <<course, enrolment, progress, attempt, submission, contested>>
      BY <1>9 DEF CommitEndCertificate, Doing, history
    <2>2. QED
      BY <1>0, <2>1 DEF Grows
  <1>10. CASE CommitSync(w)
    <2>1. t \in RequestRow
      BY <1>10, Committing DEF CommitSync, Ready, Op
    <2>2. WriteCompletion(t) /\ UNCHANGED <<course, progress, attempt, submission, contested>>
      BY <1>10 DEF CommitSync
    <2>3. QED
      BY <1>0, <2>1, <2>2, WriteCompletionGrows DEF Grows
  <1>11. QED
    BY <1>1, <1>2, <1>3, <1>4, <1>5, <1>6, <1>7, <1>8, <1>9, <1>10 DEF Commits

-------------------------------------------------------------------------------
(***************************************************************************)
(* Requests stay in order                                                  *)
(***************************************************************************)

\* What a request knows and claims survives whatever the others commit.
LEMMA Keeps ==
    ASSUME TypeOK, TypeOK', Grows
    PROVE  \A r \in RequestRow : RequestOK(r) => RequestOK(r)'
  <1> SUFFICES ASSUME NEW r \in RequestRow, RequestOK(r)
               PROVE  RequestOK(r)'
    OBVIOUS
  <1>1. /\ \A i \in DOMAIN attempt : i \in DOMAIN attempt'
        /\ \A i \in DOMAIN submission : i \in DOMAIN submission'
    BY DEF TypeOK, Grows
  <1>2. Refers(r)'
    BY <1>1 DEF RequestOK, Refers, Grows
  <1>3. (Earns(r) => Earns(r)') /\ (Tallying(r) <=> Tallying(r)')
    BY DEF Earns, Tallying, Grows
  <1>4. \A l \in r.counts : progress[l].done => progress'[l].done
    BY DEF RequestRow, Grows
  <1>5. Claims(r)'
    BY <1>3, <1>4 DEF RequestOK, Claims, Grows
  <1>6. Saw(r)'
    BY DEF RequestOK, Saw, Grows
  <1>7. QED  BY <1>2, <1>5, <1>6 DEF RequestOK

\* One request goes on, or ends, and the others wait.
LEMMA NextTask ==
    ASSUME TypeOK, TypeOK', RequestsOK, Grows, NEW w \in Worker, NEW r \in {Idle} \cup RequestRow,
           task' = [task EXCEPT ![w] = r], r \in RequestRow => RequestOK(r)
    PROVE  RequestsOK'
  <1> SUFFICES ASSUME NEW v \in Worker, task'[v] \in RequestRow
               PROVE  RequestOK(task[v])'
    BY DEF RequestsOK
  <1>1. task'[v] = IF v = w THEN r ELSE task[v]
    BY DEF TypeOK
  <1>2. RequestOK(task'[v])
    BY <1>1 DEF RequestsOK
  <1>3. QED
    BY <1>2, Keeps

LEMMA StepRequests ==
    ASSUME TypeOK, RequestsOK, RowsOK, TypeOK', [Next]_vars
    PROVE  Grows /\ RequestsOK'
  <1>1. CASE UNCHANGED vars
    <2>1. Grows
      BY <1>1, RestGrows DEF vars, history
    <2>2. task' = task
      BY <1>1 DEF vars
    <2>3. QED
      BY <2>1, <2>2, Keeps DEF RequestsOK
  <1>2. ASSUME NEW w \in Worker, Begins(w)  PROVE Grows /\ RequestsOK'
    BY <1>2, RestGrows, NextTask DEF Begins, Begin, history
  <1>3. ASSUME NEW w \in Worker, Decide(w)  PROVE Grows /\ RequestsOK'
    BY <1>3, DecideOK, RestGrows, NextTask DEF history
  <1>4. ASSUME NEW w \in Worker, RollBack(w) \/ Commits(w)  PROVE Grows /\ RequestsOK'
    <2>1. task' = [task EXCEPT ![w] = Idle]
      BY <1>4 DEF RollBack, Commits, CommitStart, CommitSubmit, CommitReview, CommitAttempt, CommitHandIn,
                  CommitMark, CommitGrade, CommitEdit, CommitAssess, CommitRevoke, CommitEndCertificate,
                  CommitSync, Done
    <2>2. Grows
      BY <1>4, CommitGrows, RestGrows DEF RollBack, history
    <2>3. Idle \notin RequestRow
      BY DEF Idle, RequestRow
    <2>4. QED  BY <2>1, <2>2, <2>3, NextTask
  <1>5. ASSUME NEW w \in Worker, Tally(w)  PROVE Grows /\ RequestsOK'
    BY <1>4, <1>5, TallyOK, RestGrows, NextTask
  <1>6. CASE Rearrange
    <2>1. Len(attempt) \in Nat /\ Len(submission) \in Nat
      BY DEF TypeOK
    <2>2. Grows
      BY <1>6, <2>1, Rearranged DEF Grows, history
    <2>3. task' = task
      BY <1>6 DEF Rearrange
    <2>4. QED
      BY <2>2, <2>3, Keeps DEF RequestsOK
  <1>7. QED
    BY <1>1, <1>2, <1>3, <1>4, <1>5, <1>6, Steps

\* Every step but a commit leaves the learner's rows alone.
rows == <<enrolment, progress, attempt, submission, certificate, assessment, counted, contested>>
LEMMA Records ==
    ASSUME TypeOK, RequestsOK, RowsOK, [Next]_vars
    PROVE  UNCHANGED rows \/ \E w \in Worker : Commits(w)
  <1>1. ASSUME NEW w \in Worker, Begins(w)  PROVE UNCHANGED rows
    BY <1>1 DEF Begins, Begin, rows, records, history
  <1>2. ASSUME NEW w \in Worker, Decide(w)  PROVE UNCHANGED rows
    BY <1>2 DEF Decide, rows, records, history
  <1>3. ASSUME NEW w \in Worker, Tally(w)  PROVE UNCHANGED rows
    BY <1>3 DEF Tally, RollBack, rows, records, history
  <1>4. CASE Rearrange
    BY <1>4 DEF Rearrange, rows, history
  <1>5. QED
    BY <1>1, <1>2, <1>3, <1>4, Steps DEF vars, rows, records, history

-------------------------------------------------------------------------------
(***************************************************************************)
(* Rows                                                                    *)
(***************************************************************************)
LEMMA StepRows ==
    ASSUME TypeOK, RequestsOK, RowsOK, [Next]_vars
    PROVE  RowsOK'
  <1>1. CASE UNCHANGED rows
    BY <1>1 DEF RowsOK, rows, Complete
  <1>2. ASSUME NEW w \in Worker, Commits(w)  PROVE RowsOK'
    <2> DEFINE t == task[w]
    <2>1. CASE UNCHANGED progress \/ WriteProgress(t)
      <3>1. \A l \in Lesson : Complete(l)' => progress'[l].done
        <4>1. CASE UNCHANGED progress
          BY <4>1 DEF RowsOK, Complete
        <4>2. CASE WriteProgress(t) /\ t.op \in Op
          <5>1. t \in RequestRow /\ (t.write # "KEEP" => t.lesson \in Lesson)
            BY <4>2, Committing
          <5>2. QED
            BY <4>2, <5>1, WriteProgressGrows DEF RowsOK, Complete
        <4>3. t.op \in Op
          BY <1>2 DEF Commits, CommitStart, CommitSubmit, CommitReview, CommitAttempt, CommitHandIn,
                  CommitMark, CommitGrade, CommitEdit, CommitAssess, CommitRevoke, CommitEndCertificate,
                  CommitSync, Ready, Doing, Op
        <4>4. QED  BY <2>1, <4>1, <4>2, <4>3
      <3>2. \A i \in DOMAIN attempt' : attempt'[i].passed => attempt'[i].status = "SUBMITTED"
        <4>1. CASE UNCHANGED attempt
          BY <4>1 DEF RowsOK
        <4>2. CASE CommitStart(w)
          <5>1. t.op = "start"
            BY <4>2 DEF CommitStart, Ready
          <5>2. QED
            BY <4>2, <5>1, AttemptGrows DEF RowsOK
        <4>3. CASE CommitSubmit(w) \/ CommitReview(w)
          <5>1. t.op \in {"submit", "review"}
            BY <4>3 DEF CommitSubmit, CommitReview, CommitAttempt, Ready
          <5>2. t \in RequestRow /\ t.lesson \in Quiz
            BY <5>1, Committing DEF RequestOK, Refers, Op
          <5>3. Decided(t).passed => Decided(t).status = "SUBMITTED"
            BY <5>2, DecidedType
          <5>4. QED
            BY <4>3, <5>1, <5>3, AttemptGrows DEF RowsOK
        <4>4. UNCHANGED attempt \/ CommitStart(w) \/ CommitSubmit(w) \/ CommitReview(w)
          BY <1>2 DEF Commits, CommitHandIn, CommitMark, CommitGrade, CommitEdit, CommitAssess,
                  CommitRevoke, CommitEndCertificate, CommitSync, RollBack, records
        <4>5. QED  BY <4>1, <4>2, <4>3, <4>4
      <3>3. QED  BY <3>1, <3>2 DEF RowsOK
    <2>2. UNCHANGED progress \/ WriteProgress(t)
      BY <1>2 DEF Commits, CommitStart, CommitSubmit, CommitReview, CommitAttempt, CommitHandIn,
              CommitMark, CommitGrade, CommitEdit, CommitAssess, CommitRevoke, CommitEndCertificate,
              CommitSync, RollBack, records
    <2>3. QED  BY <2>1, <2>2
  <1>3. QED
    BY <1>1, <1>2, Records

-------------------------------------------------------------------------------
(***************************************************************************)
(* The certificate                                                         *)
(***************************************************************************)

\* CertificateFollowsRules is inductive once it says that a recommendation recorded
\* after the completion is one, and that there was a completion.
Certified ==
    /\ CertificateFollowsRules
    /\ assessment.since => assessment.recommended /\ enrolment.completed

LEMMA WriteCompletionCertified ==
    ASSUME TypeOK, Certified, NEW t \in RequestRow, WriteCompletion(t), course'.template = course.template,
           UNCHANGED assessment
    PROVE  Certified'
  <1>1. CASE t.completes
    <2>1. enrolment'.completed
      BY <1>1 DEF WriteCompletion, TypeOK, EnrolmentRow
    <2>2. certificate' = IF certificate = "NONE" /\ Certifies(TRUE, FALSE) THEN "APPROVED" ELSE certificate
      BY <1>1 DEF WriteCompletion
    <2>3. QED
      BY <2>1, <2>2 DEF Certified, CertificateFollowsRules, Certifies
  <1>2. CASE ~t.completes
    BY <1>2 DEF WriteCompletion, Certified, CertificateFollowsRules
  <1>3. QED  BY <1>1, <1>2

LEMMA StepCertified ==
    ASSUME TypeOK, RequestsOK, RowsOK, Certified, Grows, [Next]_vars
    PROVE  Certified'
  <1>1. CASE UNCHANGED rows
    BY <1>1 DEF Certified, CertificateFollowsRules, rows, Grows
  <1>2. ASSUME NEW w \in Worker, Commits(w)  PROVE Certified'
    <2> DEFINE t == task[w]
    <2>0. course'.template = course.template
      BY DEF Grows
    <2>1. CASE UNCHANGED <<certificate, assessment>> /\ enrolment'.completed = enrolment.completed
      BY <2>0, <2>1 DEF Certified, CertificateFollowsRules
    <2>2. CASE WriteCompletion(t) /\ UNCHANGED assessment /\ t.op \in Op
      BY <2>0, <2>2, Committing, WriteCompletionCertified
    <2>3. CASE CommitAssess(w)
      <3>1. CASE RollBack(w)
        BY <2>1, <3>1 DEF RollBack, records
      <3>2. CASE ~RollBack(w)
        <4> DEFINE recommended == t.verdict = "PASSED"
                   issues == Certifies(t.read.completed, recommended) /\ certificate # "APPROVED"
        <4>1. t \in RequestRow /\ (t.read.completed => enrolment.completed) /\ t.read.completed \in BOOLEAN
          BY <2>3, Committing DEF CommitAssess, Doing, Op, RequestOK, Saw, RequestRow, EnrolmentRow
        <4>2. /\ assessment'.recommended <=> assessment.recommended \/ recommended
              /\ assessment'.since <=> assessment.since \/ (recommended /\ t.read.completed)
              /\ certificate' = IF issues THEN "APPROVED" ELSE certificate
              /\ enrolment' = enrolment
          <5> DEFINE ever == assessment.recommended \/ recommended
                     since == assessment.since \/ (recommended /\ t.read.completed)
          <5>1. /\ assessment' = [recommended |-> ever, since |-> since]
                /\ certificate' = IF issues THEN "APPROVED" ELSE certificate
                /\ enrolment' = enrolment
            BY <2>3, <3>2 DEF CommitAssess
          <5> HIDE DEF ever, since, issues
          <5>2. assessment'.recommended = ever /\ assessment'.since = since
            BY <5>1
          <5>3. QED  BY <5>1, <5>2 DEF ever, since
        <4>3. issues => /\ course.template.issues
                        /\ course.template.completion => t.read.completed
                        /\ course.template.coach => recommended
          BY DEF Certifies
        <4>4. course.template.issues /\ t.read.completed /\ recommended => certificate' # "NONE"
          <5>1. course.template.issues /\ t.read.completed /\ recommended => Certifies(t.read.completed, recommended)
            BY DEF Certifies
          <5> HIDE DEF recommended
          <5>2. QED  BY <4>2, <5>1
        <4> HIDE DEF issues, recommended
        <4>5. QED
          BY <2>0, <4>1, <4>2, <4>3, <4>4 DEF Certified, CertificateFollowsRules
      <3>3. QED  BY <3>1, <3>2
    <2>4. CASE CommitRevoke(w)
      <3>1. RequestOK(t)
        BY <2>4, Committing DEF CommitRevoke, Doing, Op
      <3>2. Revoked(t).completed = enrolment.completed
        BY DEF Revoked, TypeOK, EnrolmentRow
      <3>3. enrolment'.completed = enrolment.completed /\ UNCHANGED assessment
        BY <2>4, <3>2 DEF CommitRevoke
      <3>4. certificate' # "NONE" <=> certificate # "NONE"
        BY <2>4, <3>1 DEF CommitRevoke, RequestOK, Saw
      <3>5. QED
        BY <2>0, <3>3, <3>4 DEF Certified, CertificateFollowsRules
    <2>5. CASE CommitEndCertificate(w)
      <3>1. RequestOK(t) /\ t.op \in {"EXPIRED", "REVOKED"}
        BY <2>5, Committing DEF CommitEndCertificate, Doing, Op
      <3>2. certificate # "NONE" /\ certificate' # "NONE" /\ UNCHANGED <<enrolment, assessment>>
        BY <2>5, <3>1 DEF CommitEndCertificate, RequestOK, Saw
      <3>3. QED
        BY <2>0, <3>2 DEF Certified, CertificateFollowsRules
    <2>6. CASE CommitStart(w)
      <3>1. UNCHANGED <<certificate, assessment>> /\ enrolment'.completed = enrolment.completed
        BY <2>6 DEF CommitStart, TypeOK, EnrolmentRow
      <3>2. QED  BY <2>1, <3>1
    <2>7. CASE CommitHandIn(w)
      BY <2>1, <2>7 DEF CommitHandIn
    <2>8. CASE CommitSubmit(w) \/ CommitReview(w) \/ CommitMark(w) \/ CommitGrade(w) \/ CommitEdit(w) \/ CommitSync(w)
      BY <2>2, <2>8 DEF CommitSubmit, CommitReview, CommitAttempt, CommitMark, CommitGrade, CommitEdit,
              CommitSync, Ready, Op
    <2>9. QED
      BY <1>2, <2>3, <2>4, <2>5, <2>6, <2>7, <2>8 DEF Commits
  <1>3. QED
    BY <1>1, <1>2, Records

-------------------------------------------------------------------------------
(***************************************************************************)
(* The completion                                                          *)
(***************************************************************************)
QuizEvidence(q, i) ==
    /\ i \in DOMAIN attempt /\ attempt[i].lesson = q
    /\ attempt[i].status = "SUBMITTED" /\ (attempt[i].passed \/ ~course.quizPass)
WorkEvidence(l, i) ==
    i \in DOMAIN submission /\ submission[i].lesson = l /\ submission[i].status = "GRADED"

Counted ==
    /\ \A l \in counted : progress[l].done
    /\ enrolment.completed => counted # {} \/ course.external
Evidenced ==
    /\ \A q \in Quiz \ contested : progress[q].done => \E i \in Nat : QuizEvidence(q, i)
    /\ \A l \in Work \ contested : progress[l].done => \E i \in Nat : WorkEvidence(l, i)

LEMMA EvidenceIsEarned ==
    ASSUME TypeOK, RowsOK, Counted, Evidenced
    PROVE  CompletionIsEarned
  <1>1. ASSUME NEW q \in Quiz \ contested, progress[q].done
        PROVE  \E i \in Finished(q) : attempt[i].passed \/ (~course.quizPass /\ attempt[i].status = "SUBMITTED")
    BY <1>1 DEF Evidenced, QuizEvidence, Finished, Rows, OpenAttempts
  <1>2. ASSUME NEW l \in Work \ contested, progress[l].done
        PROVE  \E i \in Handed(l) : submission[i].status = "GRADED"
    BY <1>2 DEF Evidenced, WorkEvidence, Handed
  <1>3. QED
    BY <1>1, <1>2 DEF CompletionIsEarned, Counted

LEMMA StepCounted ==
    ASSUME TypeOK, RequestsOK, RowsOK, Counted, Grows, [Next]_vars
    PROVE  Counted'
  <1>1. CASE UNCHANGED counted /\ enrolment'.completed = enrolment.completed
    BY <1>1 DEF Counted, Grows, TypeOK
  <1>2. ASSUME NEW w \in Worker, WriteCompletion(task[w]), WriteProgress(task[w]) \/ UNCHANGED progress,
               UNCHANGED progress /\ task[w].op # "sync" => task[w].write # "COMPLETED" \/ WriteProgress(task[w]),
               task[w].op \in Op
        PROVE  Counted'
    <2> DEFINE t == task[w]
    <2>1. t \in RequestRow /\ RequestOK(t) /\ (t.write # "KEEP" => t.lesson \in Lesson)
      BY <1>2, Committing
    <2>2. CASE ~t.completes
      BY <1>1, <1>2, <2>2 DEF WriteCompletion
    <2>3. CASE t.completes /\ t.op = "sync"
      <3>1. counted' = {} /\ course.external
        BY <1>2, <2>1, <2>3 DEF WriteCompletion, RequestOK, Claims
      <3>2. QED  BY <3>1 DEF Counted, Grows
    <2>4. CASE t.completes /\ t.op # "sync"
      <3>1. counted' = t.counts /\ t.counts # {} /\ t.counts \subseteq Lesson
        BY <1>2, <2>1, <2>4 DEF WriteCompletion, RequestOK, Claims, RequestRow
      <3>2. ASSUME NEW l \in t.counts  PROVE progress'[l].done
        <4>1. progress[l].done \/ (l = t.lesson /\ t.write = "COMPLETED")
          BY <2>1, <2>4 DEF RequestOK, Claims
        <4>2. CASE WriteProgress(t)
          BY <2>1, <3>1, <4>1, <4>2, WriteProgressGrows
        <4>3. CASE ~WriteProgress(t)
          BY <1>2, <2>4, <4>1, <4>3
        <4>4. QED  BY <4>2, <4>3
      <3>3. QED  BY <3>1, <3>2 DEF Counted
    <2>5. QED  BY <2>2, <2>3, <2>4
  <1>3. ASSUME NEW w \in Worker, Commits(w)  PROVE Counted'
    <2>1. CASE CommitSubmit(w) \/ CommitReview(w) \/ CommitMark(w) \/ CommitGrade(w)
      BY <1>2, <2>1 DEF CommitSubmit, CommitReview, CommitAttempt, CommitMark, CommitGrade, Ready, Op
    <2>2. CASE CommitEdit(w)
      <3>1. task[w].op = "edit"
        BY <2>2 DEF CommitEdit, Ready
      <3>2. task[w].write = "KEEP"
        BY <3>1, Committing DEF Op, RequestOK, Claims, Decisions
      <3>3. QED  BY <1>2, <2>2, <3>1, <3>2 DEF CommitEdit, Op
    <2>3. CASE CommitSync(w)
      BY <1>2, <2>3 DEF CommitSync, Ready, Op
    <2>4. CASE CommitStart(w)
      BY <1>1, <2>4 DEF CommitStart, TypeOK, EnrolmentRow
    <2>5. CASE CommitHandIn(w) \/ CommitAssess(w) \/ CommitEndCertificate(w)
      BY <1>1, <2>5 DEF CommitHandIn, CommitAssess, CommitEndCertificate, RollBack, records, history
    <2>6. CASE CommitRevoke(w)
      <3>1. Revoked(task[w]).completed = enrolment.completed
        BY DEF Revoked, TypeOK, EnrolmentRow
      <3>2. QED  BY <1>1, <2>6, <3>1 DEF CommitRevoke
    <2>7. QED
      BY <1>3, <2>1, <2>2, <2>3, <2>4, <2>5, <2>6 DEF Commits
  <1>4. CASE UNCHANGED rows
    BY <1>1, <1>4 DEF rows
  <1>5. QED
    BY <1>3, <1>4, Records

\* A lesson becomes done only by a request that earned it, whose decision is the
\* evidence, and a decision that overwrites evidence contests the lesson.
LEMMA StepEvidenced ==
    ASSUME TypeOK, RequestsOK, RowsOK, Evidenced, Grows, TypeOK', [Next]_vars
    PROVE  Evidenced'
  <1>1. ASSUME NEW w \in Worker, Commits(w), NEW q \in Quiz \ contested', progress'[q].done
        PROVE  \E i \in Nat : QuizEvidence(q, i)'
    <2> DEFINE t == task[w]
    <2>0. q \in Quiz \ contested /\ q \in Lesson /\ q \notin Work /\ q \notin Marked
      BY <1>1, LearningAssumption DEF Grows, Lesson
    <2>1. ASSUME UNCHANGED attempt, progress[q].done
          PROVE  \E i \in Nat : QuizEvidence(q, i)'
      BY <2>0, <2>1 DEF Evidenced, QuizEvidence, Grows
    <2>2. CASE CommitSubmit(w) \/ CommitReview(w)
      <3>1. /\ t.op \in {"submit", "review"} /\ WriteProgress(t)
            /\ \/ attempt[t.item].status \in {"IN_PROGRESS", "PENDING_REVIEW"}
               \/ contested' = contested \cup {t.lesson}
        BY <2>2 DEF CommitSubmit, CommitReview, CommitAttempt, Ready
      <3>2. /\ t \in RequestRow /\ RequestOK(t) /\ t.lesson \in Lesson
            /\ t.item \in DOMAIN attempt /\ attempt[t.item].lesson = t.lesson
        BY <3>1, Committing DEF RequestOK, Refers, Op, Lesson
      <3>3. /\ t.item \in DOMAIN attempt' /\ attempt'[t.item] = Decided(t)
            /\ DOMAIN attempt' = DOMAIN attempt
            /\ \A i \in DOMAIN attempt : attempt'[i] = attempt[i] \/ i = t.item
            /\ t.item \in Nat
        BY <2>2, <3>1, <3>2, AttemptGrows, RowTypes
      <3>4. CASE progress[q].done
        <4>1. PICK i \in Nat : QuizEvidence(q, i)
          BY <2>0, <3>4 DEF Evidenced
        <4>2. i # t.item
          BY <1>1, <3>1, <3>2, <4>1 DEF QuizEvidence
        <4>3. QuizEvidence(q, i)'
          BY <3>3, <4>1, <4>2 DEF QuizEvidence, Grows
        <4>4. QED  BY <4>3
      <3>5. CASE ~progress[q].done
        <4>1. q = t.lesson /\ t.write = "COMPLETED"
          BY <1>1, <2>0, <3>1, <3>2, <3>5, WriteProgressGrows
        <4>2. t.verdict = "PASSED" \/ (t.verdict = "FAILED" /\ ~course.quizPass)
          BY <3>2, <4>1 DEF RequestOK, Claims, Earns
        <4>3. /\ Decided(t).lesson = t.lesson /\ Decided(t).status = "SUBMITTED"
              /\ Decided(t).passed \/ ~course.quizPass
          BY <4>2 DEF Decided
        <4>4. PICK k \in Nat : k = t.item
          BY <3>3
        <4>5. QuizEvidence(q, k)'
          BY <3>3, <4>1, <4>3, <4>4 DEF QuizEvidence, Grows
        <4>6. QED  BY <4>5
      <3>6. QED  BY <3>4, <3>5
    <2>3. CASE CommitStart(w)
      <3>1. t.op = "start" /\ WriteProgress(t)
        BY <2>3 DEF CommitStart, Ready
      <3>2. t \in RequestRow /\ t.lesson \in Lesson /\ t.write # "COMPLETED"
        BY <3>1, Committing DEF RequestOK, Refers, Claims, Earns, Op, Lesson
      <3>3. progress[q].done
        BY <1>1, <2>0, <3>1, <3>2, WriteProgressGrows
      <3>4. PICK i \in Nat : QuizEvidence(q, i)
        BY <2>0, <3>3 DEF Evidenced
      <3>5. i \in DOMAIN attempt' /\ attempt'[i] = attempt[i]
        <4>1. i \in DOMAIN attempt
          BY <3>4 DEF QuizEvidence
        <4>2. i \in DOMAIN attempt'
          BY <4>1 DEF Grows, TypeOK
        <4>3. QED  BY <2>3, <3>1, <4>1, <4>2, AttemptGrows
      <3>6. QuizEvidence(q, i)'
        BY <3>4, <3>5 DEF QuizEvidence, Grows
      <3>7. QED  BY <3>6
    <2>4. CASE CommitHandIn(w) \/ CommitGrade(w) \/ CommitMark(w)
      <3>1. t.op \in {"hand in", "grade", "open", "mark"} /\ WriteProgress(t) /\ UNCHANGED attempt
        BY <2>4 DEF CommitHandIn, CommitGrade, CommitMark, Ready
      <3>2. t \in RequestRow /\ t.lesson \in Lesson /\ t.lesson # q
        BY <2>0, <3>1, Committing DEF RequestOK, Refers, Op, Lesson
      <3>3. progress[q].done
        BY <1>1, <2>0, <3>1, <3>2, WriteProgressGrows
      <3>4. QED  BY <2>1, <3>1, <3>3
    <2>5. CASE CommitEdit(w) \/ CommitAssess(w) \/ CommitRevoke(w) \/ CommitEndCertificate(w) \/ CommitSync(w)
      <3>1. UNCHANGED <<progress, attempt>>
        BY <2>5 DEF CommitEdit, CommitAssess, CommitRevoke, CommitEndCertificate, CommitSync, RollBack, records
      <3>2. QED  BY <1>1, <2>1, <3>1
    <2>6. QED
      BY <1>1, <2>2, <2>3, <2>4, <2>5 DEF Commits
  <1>2. ASSUME NEW w \in Worker, Commits(w), NEW l \in Work \ contested', progress'[l].done
        PROVE  \E i \in Nat : WorkEvidence(l, i)'
    <2> DEFINE t == task[w]
    <2>0. l \in Work \ contested /\ l \in Lesson /\ l \notin Quiz /\ l \notin Marked
      BY <1>2, LearningAssumption DEF Grows, Lesson
    <2>1. ASSUME UNCHANGED submission, progress[l].done
          PROVE  \E i \in Nat : WorkEvidence(l, i)'
      BY <2>0, <2>1 DEF Evidenced, WorkEvidence
    <2>2. CASE CommitGrade(w)
      <3>1. /\ t.op = "grade" /\ WriteProgress(t)
            /\ submission[t.item].status = "SUBMITTED" \/ contested' = contested \cup {t.lesson}
        BY <2>2 DEF CommitGrade, Ready
      <3>2. /\ t \in RequestRow /\ RequestOK(t) /\ t.lesson \in Lesson
            /\ t.item \in DOMAIN submission /\ submission[t.item].lesson = t.lesson
        BY <3>1, Committing DEF RequestOK, Refers, Op, Lesson
      <3>3. /\ t.item \in DOMAIN submission' /\ t.item \in Nat
            /\ submission'[t.item].lesson = t.lesson
            /\ t.verdict = "PASSED" => submission'[t.item].status = "GRADED"
            /\ \A i \in DOMAIN submission : submission'[i] = submission[i] \/ i = t.item
        BY <2>2, <3>1, <3>2, SubmissionGrows, RowTypes
      <3>4. CASE progress[l].done
        <4>1. PICK i \in Nat : WorkEvidence(l, i)
          BY <2>0, <3>4 DEF Evidenced
        <4>2. i # t.item
          BY <1>2, <3>1, <3>2, <4>1 DEF WorkEvidence
        <4>3. i \in DOMAIN submission'
          BY <4>1 DEF WorkEvidence, Grows, TypeOK
        <4>4. WorkEvidence(l, i)'
          BY <3>3, <4>1, <4>2, <4>3 DEF WorkEvidence
        <4>5. QED  BY <4>4
      <3>5. CASE ~progress[l].done
        <4>1. l = t.lesson /\ t.write = "COMPLETED"
          BY <1>2, <2>0, <3>1, <3>2, <3>5, WriteProgressGrows
        <4>2. t.verdict = "PASSED"
          BY <3>1, <3>2, <4>1 DEF RequestOK, Claims, Earns
        <4>3. PICK k \in Nat : k = t.item
          BY <3>3
        <4>4. WorkEvidence(l, k)'
          BY <3>3, <4>1, <4>2, <4>3 DEF WorkEvidence
        <4>5. QED  BY <4>4
      <3>6. QED  BY <3>4, <3>5
    <2>3. CASE CommitHandIn(w)
      <3>1. t.op = "hand in" /\ WriteProgress(t)
        BY <2>3 DEF CommitHandIn, Ready
      <3>2. t \in RequestRow /\ t.lesson \in Lesson /\ t.write # "COMPLETED"
        BY <3>1, Committing DEF RequestOK, Refers, Claims, Earns, Op, Lesson
      <3>3. progress[l].done
        BY <1>2, <2>0, <3>1, <3>2, WriteProgressGrows
      <3>4. PICK i \in Nat : WorkEvidence(l, i)
        BY <2>0, <3>3 DEF Evidenced
      <3>5. i \in DOMAIN submission' /\ submission'[i] = submission[i]
        <4>1. i \in DOMAIN submission
          BY <3>4 DEF WorkEvidence
        <4>2. i \in DOMAIN submission'
          BY <4>1 DEF Grows, TypeOK
        <4>3. QED  BY <2>3, <3>1, <4>1, <4>2, SubmissionGrows
      <3>6. WorkEvidence(l, i)'
        BY <3>4, <3>5 DEF WorkEvidence
      <3>7. QED  BY <3>6
    <2>4. CASE CommitStart(w) \/ CommitSubmit(w) \/ CommitReview(w) \/ CommitMark(w)
      <3>1. t.op \in {"start", "submit", "review", "open", "mark"} /\ WriteProgress(t) /\ UNCHANGED submission
        BY <2>4 DEF CommitStart, CommitSubmit, CommitReview, CommitAttempt, CommitMark, Ready
      <3>2. t \in RequestRow /\ t.lesson \in Lesson /\ t.lesson # l
        BY <2>0, <3>1, Committing DEF RequestOK, Refers, Op, Lesson
      <3>3. progress[l].done
        BY <1>2, <2>0, <3>1, <3>2, WriteProgressGrows
      <3>4. QED  BY <2>1, <3>1, <3>3
    <2>5. CASE CommitEdit(w) \/ CommitAssess(w) \/ CommitRevoke(w) \/ CommitEndCertificate(w) \/ CommitSync(w)
      <3>1. UNCHANGED <<progress, submission>>
        BY <2>5 DEF CommitEdit, CommitAssess, CommitRevoke, CommitEndCertificate, CommitSync, RollBack, records
      <3>2. QED  BY <1>2, <2>1, <3>1
    <2>6. QED
      BY <1>2, <2>2, <2>3, <2>4, <2>5 DEF Commits
  <1>3. CASE UNCHANGED rows
    BY <1>3 DEF Evidenced, QuizEvidence, WorkEvidence, rows, Grows
  <1>4. QED
    BY <1>1, <1>2, <1>3, Records DEF Evidenced

-------------------------------------------------------------------------------
(***************************************************************************)
(* Theorems                                                                *)
(***************************************************************************)
IInv == TypeOK /\ RequestsOK /\ RowsOK /\ Certified /\ Counted /\ Evidenced

LEMMA InitInv ==
    ASSUME Init
    PROVE  IInv
  <1>1. course \in CourseSettings /\ latest \subseteq Lesson
    BY LearningAssumption, CountingType DEF Init
  <1>2. enrolment \in EnrolmentRow /\ ~enrolment.completed
    BY DEF Init, EnrolmentRow
  <1>3. \A l \in Lesson : progress[l] = Untouched
    BY DEF Init
  <1>4. Untouched \in ProgressRow /\ ~Untouched.done /\ Untouched.status # "COMPLETED"
    BY DEF Untouched, ProgressRow, ProgressStatus
  <1>5. TypeOK
    BY <1>1, <1>2, <1>3, <1>4 DEF Init, TypeOK, Idle
  <1>6. RequestsOK
    <2>1. Idle \notin RequestRow
      BY DEF Idle, RequestRow
    <2>2. \A w \in Worker : task[w] = Idle
      BY DEF Init, Idle
    <2>3. QED  BY <2>1, <2>2 DEF RequestsOK
  <1>7. RowsOK
    BY <1>3, <1>4 DEF Init, RowsOK, Complete
  <1>8. Certified
    BY <1>2 DEF Init, Certified, CertificateFollowsRules
  <1>9. Counted
    BY <1>2 DEF Init, Counted
  <1>10. Evidenced
    BY <1>3, <1>4 DEF Evidenced, Lesson
  <1>11. QED
    BY <1>5, <1>6, <1>7, <1>8, <1>9, <1>10 DEF IInv

\* Every step keeps the inductive invariant.
THEOREM Invariant == Spec => []IInv
  <1>1. Init => IInv
    BY InitInv
  <1>2. IInv /\ [Next]_vars => IInv'
    <2> SUFFICES ASSUME IInv, [Next]_vars  PROVE IInv'
      OBVIOUS
    <2>1. TypeOK'
      BY StepType DEF IInv
    <2>2. Grows /\ RequestsOK'
      BY <2>1, StepRequests DEF IInv
    <2>3. RowsOK'
      BY StepRows DEF IInv
    <2>4. Certified'
      BY <2>2, StepCertified DEF IInv
    <2>5. Counted'
      BY <2>2, StepCounted DEF IInv
    <2>6. Evidenced'
      BY <2>1, <2>2, StepEvidenced DEF IInv
    <2>7. QED
      BY <2>1, <2>2, <2>3, <2>4, <2>5, <2>6 DEF IInv
  <1>3. QED
    BY <1>1, <1>2, PTL DEF Spec

\* The rows have their types, and so have the requests in flight.
THEOREM TypeCorrect == Spec => []TypeOK
  <1>1. IInv => TypeOK
    BY DEF IInv
  <1>2. QED
    BY <1>1, Invariant, PTL

\* For every course and any number of requests in flight: nobody is certified without
\* the completion and the recommendation the template asks for, and whoever has them is
\* certified, whatever overlaps (evaluateCertification, recordAssessment).
THEOREM RulesOfTheCertificate == Spec => []CertificateFollowsRules
  <1>1. IInv => CertificateFollowsRules
    BY DEF IInv, Certified
  <1>2. QED
    BY <1>1, Invariant, PTL

\* For every course and any number of requests in flight: a completion counted lessons
\* that are done, and a lesson that is done has an attempt or a submission that earns it,
\* unless a later decision overwrote it (recalculateCourseProgress, submitAttempt,
\* reviewAttempt, reviewSubmission).
THEOREM CompletionEarned == Spec => []CompletionIsEarned
  <1>1. IInv => CompletionIsEarned
    BY EvidenceIsEarned DEF IInv
  <1>2. QED
    BY <1>1, Invariant, PTL

-------------------------------------------------------------------------------
(***************************************************************************)
(* Requests that overlap                                                   *)
(*                                                                         *)
(* CompletionIsEarned and CertificateFollowsRules hold whatever overlaps.  *)
(* What follows holds until an overlap is noted, and needs what a request  *)
(* that meets nobody knows of the rows it is about to write.               *)
(***************************************************************************)

\* A lesson that is found done is left alone, or marked as complete.
Drafted(t) == t.write \notin {"KEEP", "COMPLETED"} => ~t.before.done

\* As long as no other attempt is inserted, the one that is about to be has its place.
Opening(t) ==
    t.op = "start" =>
        /\ t.item <= Len(attempt) + 1
        /\ t.item = Len(attempt) + 1 =>
               OpenAttempts(t.lesson) = {} /\ Cardinality(Rows(t.lesson)) < course.limit
Drafts == \A w \in Worker : task[w] \in RequestRow => Drafted(task[w]) /\ Opening(task[w])

\* What a tally counted is all complete, with the request's own write.
Qualifies(t) ==
    /\ ~enrolment.completed
    /\ \/ t.op = "sync"
       \/ /\ t.counts # {}
          /\ \A l \in t.counts : IF l = t.lesson /\ t.write # "KEEP"
                                 THEN t.write = "COMPLETED" ELSE Complete(l)

\* A tally that meets no other is still right when its request commits.
AtTally(w) == task[w] \in RequestRow /\ task[w].at = "tallied"
Talliers ==
    "tally" \notin raced => \A v \in Worker : AtTally(v) =>
        /\ \A u \in Worker : AtTally(u) => u = v
        /\ Qualifies(task[v]) => task[v].completes

\* Every request starts without a tally, and knows what there is.
Fresh(t) == t.at # "tallied" /\ Drafted(t) /\ Opening(t)

LEMMA FreshRequest ==
    ASSUME NEW op \in Op \ {"start"}, NEW at \in {"loaded", "decided"}, NEW l, NEW i, NEW verdict
    PROVE  Fresh(Request(op, at, l, i, verdict))
  <1> DEFINE t == Request(op, at, l, i, verdict)
  <1>1. t.op = op /\ t.at = at /\ t.write = "KEEP"
    BY DEF Request
  <1> HIDE DEF t
  <1>2. Fresh(t)
    BY <1>1 DEF Fresh, Drafted, Opening
  <1>3. QED  BY <1>2 DEF t

LEMMA RowsOfAttempts ==
    ASSUME TypeOK, NEW q
    PROVE  /\ Rows(q) \subseteq 1..Len(attempt) /\ OpenAttempts(q) \subseteq Rows(q)
           /\ IsFiniteSet(Rows(q)) /\ Cardinality(Rows(q)) \in Nat
           /\ OpenAttempts(q) = {} => Rows(q) = Finished(q)
  <1>1. attempt \in Seq(AttemptRow)
    BY DEF TypeOK
  <1>2. Rows(q) \subseteq 1..Len(attempt) /\ Len(attempt) \in Nat
    BY <1>1 DEF Rows
  <1>3. IsFiniteSet(1..Len(attempt))
    BY <1>2, FS_Interval
  <1>4. IsFiniteSet(Rows(q))
    BY <1>2, <1>3, FS_Subset
  <1>5. Cardinality(Rows(q)) \in Nat
    BY <1>4, FS_CardinalityType
  <1>6. QED
    BY <1>2, <1>4, <1>5 DEF OpenAttempts, Finished

LEMMA FreshStart ==
    ASSUME TypeOK, NEW w \in Worker, NEW q \in Quiz, BeginStart(w, q)
    PROVE  Fresh(Request("start", "loaded", q, Len(attempt) + 1, "PENDING"))
  <1> DEFINE t == Request("start", "loaded", q, Len(attempt) + 1, "PENDING")
  <1>1. t.op = "start" /\ t.at = "loaded" /\ t.write = "KEEP" /\ t.lesson = q /\ t.item = Len(attempt) + 1
    BY DEF Request
  <1>2. OpenAttempts(q) = {} /\ course.limit - Cardinality(Rows(q)) > 0
    BY RowsOfAttempts DEF BeginStart, AttemptsLeft
  <1>3. course.limit \in Nat /\ Cardinality(Rows(q)) \in Nat /\ Len(attempt) + 1 \in Nat
    BY RowsOfAttempts, RowTypes DEF TypeOK, CourseSettings
  <1>4. Cardinality(Rows(q)) < course.limit
    BY <1>2, <1>3
  <1> HIDE DEF t
  <1>5. Fresh(t)
    BY <1>1, <1>2, <1>3, <1>4 DEF Fresh, Drafted, Opening
  <1>6. QED  BY <1>5 DEF t

LEMMA Beginning ==
    ASSUME TypeOK, NEW w \in Worker, Study(w) \/ Teach(w) \/ Administer(w)
    PROVE  Commits(w) \/ \E r : Begin(w, r) /\ Fresh(r)
  <1> DEFINE Starts == \E r : Begin(w, r) /\ Fresh(r)
  <1>1. ASSUME NEW q \in Quiz, BeginStart(w, q)  PROVE Starts
    BY <1>1, FreshStart DEF BeginStart
  <1>2. ASSUME NEW i, NEW v, BeginSubmit(w, i, v) \/ BeginReview(w, i, v) \/ BeginGrade(w, i, v)
        PROVE  Starts
    BY <1>2, FreshRequest DEF BeginSubmit, BeginReview, BeginGrade, Op
  <1>3. ASSUME NEW l, BeginHandIn(w, l) \/ BeginEdit(w, l)  PROVE Starts
    BY <1>3, FreshRequest DEF BeginHandIn, BeginEdit, Op
  <1>4. ASSUME NEW l \in Marked, BeginOpen(w, l)  PROVE Starts
    <2> DEFINE r == Request("open", "decided", l, 0, "PENDING")
               draft == [r EXCEPT !.write = "IN_PROGRESS"]
    <2>1. Begin(w, draft)
      BY <1>4 DEF BeginOpen
    <2>2. draft.at = "decided" /\ draft.op = "open" /\ draft.write = "IN_PROGRESS"
      BY DEF Request
    <2>3. draft.before = IF l = NoLesson THEN Untouched ELSE progress[l]
      BY DEF Request
    <2>4. ~draft.before.done
      BY <1>4, <2>3 DEF BeginOpen, Untouched
    <2> HIDE DEF draft
    <2>5. Fresh(draft)
      BY <2>2, <2>4 DEF Fresh, Drafted, Opening
    <2>6. QED  BY <2>1, <2>5
  <1>5. ASSUME NEW l \in Marked, BeginMark(w, l)  PROVE Starts
    <2> DEFINE r == Request("mark", "decided", l, 0, "PASSED")
               draft == [r EXCEPT !.write = "COMPLETED"]
    <2>1. Begin(w, draft)
      BY <1>5 DEF BeginMark
    <2>2. draft.at = "decided" /\ draft.op = "mark" /\ draft.write = "COMPLETED"
      BY DEF Request
    <2> HIDE DEF draft
    <2>3. Fresh(draft)
      BY <2>2 DEF Fresh, Drafted, Opening
    <2>4. QED  BY <2>1, <2>3
  <1>6. ASSUME BeginSync(w) \/ BeginRefund(w)  PROVE Starts
    BY <1>6, FreshRequest DEF BeginSync, BeginRefund, Op
  <1>7. ASSUME NEW op \in {"exit", "seat refund"}, BeginExit(w, op)  PROVE Starts
    BY <1>7, FreshRequest DEF BeginExit, Op
  <1>8. ASSUME NEW op \in {"EXPIRED", "REVOKED"}, BeginEndCertificate(w, op)  PROVE Starts
    BY <1>8, FreshRequest DEF BeginEndCertificate, Op
  <1>9. ASSUME NEW recommended, BeginAssess(w, recommended)  PROVE Starts
    BY <1>9, FreshRequest DEF BeginAssess, Op
  <1> HIDE DEF Starts
  <1>10. Study(w) => Starts \/ Commits(w)
    BY <1>1, <1>2, <1>3, <1>4, <1>5 DEF Study, Commits
  <1>11. Teach(w) => Starts \/ Commits(w)
    BY <1>2, <1>3, <1>9 DEF Teach, Commits
  <1>12. Administer(w) => Starts \/ Commits(w)
    BY <1>6, <1>7, <1>8 DEF Administer, Commits
  <1>13. QED
    BY <1>10, <1>11, <1>12 DEF Starts

LEMMA StepKinds ==
    ASSUME TypeOK, [Next]_vars
    PROVE  \/ UNCHANGED vars
           \/ Rearrange
           \/ \E w \in Worker : \/ \E r : Begin(w, r) /\ Fresh(r)
                                \/ Decide(w) \/ Tally(w) \/ Commits(w)
  BY Beginning DEF Next

-------------------------------------------------------------------------------
(***************************************************************************)
(* What a commit leaves of the lessons and of the completion               *)
(***************************************************************************)

\* A lesson is complete if the request that wrote it says so.
LEMMA WriteProgressSets ==
    ASSUME TypeOK, NEW t \in RequestRow, t.write # "KEEP" => t.lesson \in Lesson, WriteProgress(t),
           NEW l \in Lesson
    PROVE  /\ Complete(l)' <=> IF l = t.lesson /\ t.write # "KEEP"
                               THEN t.write = "COMPLETED" ELSE Complete(l)
           /\ (l = t.lesson /\ t.write # "KEEP") \/ UNCHANGED progress[l]
           /\ stale \subseteq stale'
  <1>1. CASE t.write = "KEEP"
    BY <1>1 DEF WriteProgress, Complete
  <1>2. CASE t.write # "KEEP"
    <2> DEFINE done == progress[t.lesson].done \/ t.write = "COMPLETED"
               row == [progress[t.lesson] EXCEPT !.status = t.write, !.done = done]
    <2>1. t.lesson \in Lesson /\ progress[t.lesson] \in ProgressRow /\ progress \in [Lesson -> ProgressRow]
      BY <1>2 DEF TypeOK
    <2>2. progress' = [progress EXCEPT ![t.lesson] = row]
      BY <1>2 DEF WriteProgress
    <2>3. row.status = t.write
      <3> HIDE DEF done
      <3>1. QED  BY <2>1 DEF ProgressRow
    <2> HIDE DEF row
    <2>4. progress'[l] = IF l = t.lesson THEN row ELSE progress[l]
      BY <2>1, <2>2
    <2>5. stale \subseteq stale'
      BY <1>2 DEF WriteProgress
    <2>6. QED
      BY <1>2, <2>3, <2>4, <2>5 DEF Complete
  <1>3. QED  BY <1>1, <1>2

\* Whoever commits has its request in order, ends it, and writes its lesson; who has
\* tallied the course also says whether it is completed, and nobody else completes a
\* lesson, or takes a completion back.
LEMMA CommitKinds ==
    ASSUME TypeOK, RequestsOK, NEW w \in Worker, Commits(w)
    PROVE  LET t == task[w] IN
           /\ t \in RequestRow /\ RequestOK(t) /\ (t.write # "KEEP" => t.lesson \in Lesson)
           /\ task' = [task EXCEPT ![w] = Idle]
           /\ WriteProgress(t) /\ raced \subseteq raced'
           /\ course'.limit = course.limit
           /\ \/ /\ Tallying(t) /\ t.at = "tallied"
                 /\ WriteCompletion(t) /\ latest' = t.counts /\ UNCHANGED raced
              \/ /\ t.write # "COMPLETED" /\ ~t.completes
                 /\ UNCHANGED latest
                 /\ enrolment.completed => enrolment'.completed
  <1> DEFINE t == task[w]
             Ends == \/ /\ Tallying(t) /\ t.at = "tallied"
                        /\ WriteCompletion(t) /\ latest' = t.counts /\ UNCHANGED raced
                     \/ /\ t.write # "COMPLETED" /\ ~t.completes
                        /\ UNCHANGED latest
                        /\ enrolment.completed => enrolment'.completed
  <1>1. t.op \in Op
    BY DEF Commits, CommitStart, CommitSubmit, CommitReview, CommitAttempt, CommitHandIn,
           CommitMark, CommitGrade, CommitEdit, CommitAssess, CommitRevoke, CommitEndCertificate,
           CommitSync, Ready, Doing, Op
  <1>2. t \in RequestRow /\ RequestOK(t) /\ (t.write # "KEEP" => t.lesson \in Lesson)
    BY <1>1, Committing
  <1>3. task' = [task EXCEPT ![w] = Idle]
    BY DEF Commits, CommitStart, CommitSubmit, CommitReview, CommitAttempt, CommitHandIn,
           CommitMark, CommitGrade, CommitEdit, CommitAssess, CommitRevoke, CommitEndCertificate,
           CommitSync, RollBack, Done
  <1>4. raced \subseteq raced'
    BY DEF Commits, CommitStart, CommitSubmit, CommitReview, CommitAttempt, CommitHandIn,
           CommitMark, CommitGrade, CommitEdit, CommitAssess, CommitRevoke, CommitEndCertificate,
           CommitSync, RollBack, history
  <1>5. enrolment.completed => enrolment'.completed
    BY CommitGrows DEF Grows
  <1>6. ~Tallying(t) => t.write # "COMPLETED" /\ ~t.completes
    BY <1>2 DEF RequestOK, Claims, Tallying, Earns, Decisions
  <1>7. CASE CommitEdit(w)
    <2>1. t.op = "edit" /\ Tallying(t) /\ t.at = "tallied" /\ t.write = "KEEP"
      BY <1>2, <1>7 DEF CommitEdit, Ready, Tallying, RequestOK, Claims, Decisions
    <2>2. WriteCompletion(t) /\ UNCHANGED raced
      BY <1>7 DEF CommitEdit
    <2>3. latest' = t.counts /\ course'.limit = course.limit
      BY <1>2, <1>7, <2>1, <2>2, EditedType DEF CommitEdit, WriteCompletion
    <2>4. WriteProgress(t)
      BY <1>7, <2>1 DEF CommitEdit, WriteProgress
    <2>5. QED  BY <1>2, <1>3, <1>4, <2>1, <2>2, <2>3, <2>4
  <1>8. CASE ~CommitEdit(w)
    <2>1. UNCHANGED course
      BY <1>8 DEF Commits, CommitStart, CommitSubmit, CommitReview, CommitAttempt, CommitHandIn,
             CommitMark, CommitGrade, CommitAssess, CommitRevoke, CommitEndCertificate,
             CommitSync, RollBack, records
    <2>2. CASE CommitSubmit(w) \/ CommitReview(w) \/ CommitGrade(w) \/ CommitMark(w)
      <3>1. t.op # "edit" /\ WriteProgress(t) /\ WriteCompletion(t) /\ UNCHANGED raced
        BY <2>2 DEF CommitSubmit, CommitReview, CommitAttempt, CommitGrade, CommitMark, Ready
      <3>2. IF Tallying(t) THEN t.at = "tallied" ELSE t.at = "decided"
        BY <2>2 DEF CommitSubmit, CommitReview, CommitAttempt, CommitGrade, CommitMark, Ready
      <3>3. IF Tallying(t) THEN latest' = t.counts ELSE UNCHANGED latest
        BY <3>1, <3>2 DEF WriteCompletion
      <3>4. Ends
        BY <1>5, <1>6, <2>1, <3>1, <3>2, <3>3
      <3> HIDE DEF Ends
      <3>5. QED  BY <1>2, <1>3, <1>4, <2>1, <3>1, <3>4 DEF Ends
    <2>3. CASE CommitSync(w)
      <3>1. t.op = "sync" /\ t.at = "tallied" /\ Tallying(t) /\ t.write = "KEEP"
        BY <1>2, <2>3 DEF CommitSync, Ready, Tallying, RequestOK, Claims, Decisions
      <3>2. WriteProgress(t) /\ WriteCompletion(t) /\ UNCHANGED raced
        BY <2>3, <3>1 DEF CommitSync, WriteProgress
      <3>3. latest' = t.counts
        BY <3>1, <3>2 DEF WriteCompletion
      <3>4. QED  BY <1>2, <1>3, <1>4, <2>1, <3>1, <3>2, <3>3
    <2>4. CASE CommitStart(w) \/ CommitHandIn(w)
      <3>1. t.op \in {"start", "hand in"} /\ WriteProgress(t) /\ UNCHANGED latest
        BY <2>4 DEF CommitStart, CommitHandIn, Ready
      <3>2. ~Tallying(t)
        BY <3>1 DEF Tallying
      <3>3. QED  BY <1>2, <1>3, <1>4, <1>5, <1>6, <2>1, <3>1, <3>2
    <2>5. CASE CommitAssess(w) \/ CommitRevoke(w) \/ CommitEndCertificate(w)
      <3>1. t.op \in {"assess", "refund", "exit", "seat refund", "EXPIRED", "REVOKED"}
            /\ UNCHANGED <<progress, stale, latest>>
        BY <2>5 DEF CommitAssess, CommitRevoke, CommitEndCertificate, Doing, RollBack, records, history
      <3>2. ~Tallying(t) /\ t.write = "KEEP"
        BY <1>2, <3>1 DEF Tallying, RequestOK, Claims, Decisions
      <3>3. WriteProgress(t)
        BY <3>1, <3>2 DEF WriteProgress
      <3>4. QED  BY <1>2, <1>3, <1>4, <1>5, <1>6, <2>1, <3>1, <3>2, <3>3
    <2>6. QED  BY <1>8, <2>2, <2>3, <2>4, <2>5 DEF Commits
  <1>9. QED  BY <1>7, <1>8

-------------------------------------------------------------------------------
(***************************************************************************)
(* Attempts                                                                *)
(***************************************************************************)

\* A decision closes an attempt or leaves it closed, and the attempt keeps its lesson.
LEMMA DecisionCloses ==
    ASSUME TypeOK, RequestsOK, NEW w \in Worker, CommitSubmit(w) \/ CommitReview(w), NEW q
    PROVE  Len(attempt') = Len(attempt) /\ Rows(q)' = Rows(q) /\ OpenAttempts(q)' \subseteq OpenAttempts(q)
  <1> DEFINE t == task[w]
  <1>1. t.op # "start"
    BY DEF CommitSubmit, CommitReview, CommitAttempt, Ready
  <1>2. attempt \in Seq(AttemptRow) /\ attempt' \in Seq(AttemptRow)
    BY AttemptType DEF TypeOK
  <1>3. DOMAIN attempt' = DOMAIN attempt /\ Len(attempt') = Len(attempt)
    BY <1>1, <1>2, AttemptGrows
  <1>4. \A i \in DOMAIN attempt : attempt'[i].lesson = attempt[i].lesson
    BY AttemptGrows
  <1>5. Rows(q)' = Rows(q)
    BY <1>3, <1>4 DEF Rows
  <1>6. Decided(t).status # "IN_PROGRESS"
    BY DEF Decided
  <1>7. \A i \in DOMAIN attempt : attempt'[i].status = "IN_PROGRESS" => attempt[i].status = "IN_PROGRESS"
    BY <1>1, <1>6, AttemptGrows
  <1>8. QED
    BY <1>3, <1>5, <1>7 DEF OpenAttempts, Rows

\* An attempt that is started is the only new one, of its lesson, and open.
LEMMA StartAdds ==
    ASSUME TypeOK, RequestsOK, NEW w \in Worker, CommitStart(w), NEW q
    PROVE  LET new == IF q = task[w].lesson THEN {Len(attempt) + 1} ELSE {} IN
           /\ Len(attempt') = Len(attempt) + 1
           /\ Rows(q)' = Rows(q) \cup new /\ OpenAttempts(q)' = OpenAttempts(q) \cup new
  <1> DEFINE t == task[w]
             row == [lesson |-> t.lesson, status |-> "IN_PROGRESS", passed |-> FALSE]
  <1>0. attempt \in Seq(AttemptRow)
    BY DEF TypeOK
  <1>1. t.op = "start" /\ attempt' = Append(attempt, row)
    BY DEF CommitStart, Ready
  <1>2. t.lesson \in Quiz
    BY <1>1, Committing DEF RequestOK, Refers, Op
  <1>3. row \in AttemptRow /\ row.lesson = t.lesson /\ row.status = "IN_PROGRESS"
    BY <1>2 DEF AttemptRow
  <1> HIDE DEF row
  <1>4. /\ Len(attempt') = Len(attempt) + 1 /\ attempt'[Len(attempt) + 1] = row
        /\ \A i \in 1..Len(attempt) : attempt'[i] = attempt[i]
        /\ attempt' \in Seq(AttemptRow)
    BY <1>0, <1>1, <1>3, AppendProperties
  <1>5. DOMAIN attempt = 1..Len(attempt) /\ DOMAIN attempt' = 1..(Len(attempt) + 1) /\ Len(attempt) \in Nat
    BY <1>0, <1>4
  <1>6. QED
    BY <1>3, <1>4, <1>5 DEF Rows, OpenAttempts

\* What a request about to start an attempt knows survives what the others commit.
LEMMA OpeningStays ==
    ASSUME TypeOK, RequestsOK, NEW w \in Worker, Commits(w), NEW r \in RequestRow, Opening(r)
    PROVE  Opening(r)'
  <1>1. course'.limit = course.limit
    BY CommitKinds
  <1>2. CASE UNCHANGED attempt
    BY <1>1, <1>2 DEF Opening, OpenAttempts, Rows
  <1>3. CASE CommitSubmit(w) \/ CommitReview(w)
    <2>1. Len(attempt') = Len(attempt) /\ Rows(r.lesson)' = Rows(r.lesson)
          /\ OpenAttempts(r.lesson)' \subseteq OpenAttempts(r.lesson)
      BY <1>3, DecisionCloses
    <2>2. QED  BY <1>1, <2>1 DEF Opening
  <1>4. CASE CommitStart(w)
    <2>0. Len(attempt) \in Nat
      BY RowTypes DEF TypeOK
    <2>1. Len(attempt') = Len(attempt) + 1 /\ Len(attempt) \in Nat /\ r.item \in Nat
      BY <1>4, <2>0, StartAdds DEF RequestRow
    <2>2. r.op = "start" => r.item <= Len(attempt) + 1
      BY DEF Opening
    <2>3. r.op = "start" => r.item <= Len(attempt') + 1 /\ r.item # Len(attempt') + 1
      BY <2>1, <2>2
    <2>4. QED  BY <2>3 DEF Opening
  <1>5. QED
    BY <1>2, <1>3, <1>4 DEF Commits, CommitHandIn, CommitMark, CommitGrade, CommitEdit, CommitAssess,
           CommitRevoke, CommitEndCertificate, CommitSync, RollBack, records

\* What the others read or decide changes nothing for those that wait.
LEMMA DraftsGoOn ==
    ASSUME TypeOK, Drafts, UNCHANGED attempt, course'.limit = course.limit, NEW w \in Worker, NEW r, Drafted(r), Opening(r),
           \A v \in Worker : task'[v] = task[v] \/ (v = w /\ task'[v] \in {Idle, r})
    PROVE  Drafts'
  <1>0. Idle \notin RequestRow
    BY DEF Idle, RequestRow
  <1>1. SUFFICES ASSUME NEW v \in Worker, task'[v] \in RequestRow
                 PROVE  Drafted(task[v])' /\ Opening(task[v])'
    BY DEF Drafts
  <1>2. PICK s \in RequestRow : s = task'[v]
    BY <1>1
  <1>3. Drafted(s) /\ Opening(s)
    BY <1>0, <1>2 DEF Drafts
  <1>4. Opening(s)'
    BY <1>3 DEF Opening, OpenAttempts, Rows
  <1>5. QED
    BY <1>2, <1>3, <1>4 DEF Drafted

LEMMA StepDrafts ==
    ASSUME TypeOK, RequestsOK, Drafts, [Next]_vars
    PROVE  Drafts'
  <1>0. Idle \notin RequestRow
    BY DEF Idle, RequestRow
  <1>1. CASE UNCHANGED vars
    BY <1>1 DEF vars, records, Drafts, Opening, Drafted, OpenAttempts, Rows
  <1>2. ASSUME NEW w \in Worker, NEW r, Begin(w, r), Fresh(r)  PROVE Drafts'
    <2>1. task' = [task EXCEPT ![w] = r] /\ UNCHANGED <<attempt, course>>
      BY <1>2 DEF Begin, records
    <2>2. \A v \in Worker : task'[v] = IF v = w THEN r ELSE task[v]
      BY <2>1 DEF TypeOK
    <2>3. QED
      BY <1>2, <2>1, <2>2, DraftsGoOn DEF Fresh
  <1>3. ASSUME NEW w \in Worker, Decide(w)  PROVE Drafts'
    <2> DEFINE t == task[w]
               now == progress[t.lesson]
               write == IF now.done THEN "KEEP" ELSE Target(t)
               r == [t EXCEPT !.at = "decided", !.before = now, !.write = write]
    <2>1. /\ t.op \in Op /\ task' = [task EXCEPT ![w] = r] /\ UNCHANGED <<attempt, course>>
      BY <1>3 DEF Decide, records, Op, Decisions
    <2>2. t \in RequestRow
      BY <2>1, Committing
    <2>3. write # "KEEP" => ~now.done
      OBVIOUS
    <2> HIDE DEF now, write
    <2>4. r.op = t.op /\ r.item = t.item /\ r.lesson = t.lesson /\ r.write = write /\ r.before = now
      BY <2>2 DEF RequestRow
    <2> HIDE DEF r
    <2>5. \A v \in Worker : task'[v] = IF v = w THEN r ELSE task[v]
      BY <2>1 DEF TypeOK
    <2>6. Drafted(r) /\ Opening(r)
      BY <2>2, <2>3, <2>4 DEF Drafts, Drafted, Opening
    <2>7. PICK s : s = r
      OBVIOUS
    <2>8. QED
      BY <2>1, <2>5, <2>6, <2>7, DraftsGoOn
  <1>4. ASSUME NEW w \in Worker, Tally(w)  PROVE Drafts'
    <2> DEFINE t == task[w]
               counts == Required(t)
               completes == Completes(t)
               r == [t EXCEPT !.at = "tallied", !.counts = counts, !.completes = completes]
    <2>1. /\ t.op \in Op /\ UNCHANGED <<attempt, course>>
          /\ task' = [task EXCEPT ![w] = Idle] \/ task' = [task EXCEPT ![w] = r]
      BY <1>4 DEF Tally, RollBack, Done, records, Tallying, Op
    <2>2. t \in RequestRow
      BY <2>1, Committing
    <2> HIDE DEF counts, completes
    <2>3. r.op = t.op /\ r.item = t.item /\ r.lesson = t.lesson /\ r.write = t.write /\ r.before = t.before
      BY <2>2 DEF RequestRow
    <2> HIDE DEF r
    <2>4. Drafted(r) /\ Opening(r)
      BY <2>2, <2>3 DEF Drafts, Drafted, Opening
    <2>5. \A v \in Worker : task'[v] = task[v] \/ (v = w /\ task'[v] \in {Idle, r})
      BY <2>1 DEF TypeOK
    <2>6. PICK s : s = r
      OBVIOUS
    <2>7. QED
      BY <2>1, <2>4, <2>5, <2>6, DraftsGoOn
  <1>5. ASSUME NEW w \in Worker, Commits(w)  PROVE Drafts'
    <2>1. \A v \in Worker : task'[v] = task[v] \/ task'[v] = Idle
      BY <1>5, CommitKinds DEF TypeOK
    <2>2. SUFFICES ASSUME NEW v \in Worker, task'[v] \in RequestRow
                   PROVE  Drafted(task[v])' /\ Opening(task[v])'
      BY DEF Drafts
    <2>3. PICK r \in RequestRow : r = task[v] /\ r = task'[v]
      BY <1>0, <2>1, <2>2
    <2>4. Drafted(r) /\ Opening(r)
      BY <2>3 DEF Drafts
    <2>5. Opening(r)'
      BY <1>5, <2>4, OpeningStays
    <2>6. QED
      BY <2>3, <2>4, <2>5 DEF Drafted
  <1>6. CASE Rearrange
    <2>1. task' = task /\ UNCHANGED attempt /\ course'.limit = course.limit
      BY <1>6, Rearranged
    <2>2. SUFFICES ASSUME NEW v \in Worker, task'[v] \in RequestRow
                   PROVE  Drafted(task[v])' /\ Opening(task[v])'
      BY DEF Drafts
    <2>3. PICK r \in RequestRow : r = task[v] /\ r = task'[v]
      BY <2>1, <2>2
    <2>4. Drafted(r) /\ Opening(r)
      BY <2>3 DEF Drafts
    <2>5. Opening(r)'
      BY <2>1, <2>4 DEF Opening, OpenAttempts, Rows
    <2>6. QED
      BY <2>3, <2>4, <2>5 DEF Drafted
  <1>7. QED
    BY <1>1, <1>2, <1>3, <1>4, <1>5, <1>6, StepKinds

LEMMA StepAttempts ==
    ASSUME TypeOK, RequestsOK, RowsOK, Drafts, AttemptsWithinLimit, [Next]_vars
    PROVE  AttemptsWithinLimit'
  <1>1. CASE UNCHANGED attempt /\ course'.limit = course.limit /\ raced \subseteq raced'
    BY <1>1 DEF AttemptsWithinLimit, OpenAttempts, Rows
  <1>2. ASSUME NEW w \in Worker, Commits(w)  PROVE AttemptsWithinLimit'
    <2> DEFINE t == task[w]
    <2>1. course'.limit = course.limit /\ raced \subseteq raced' /\ t \in RequestRow
      BY <1>2, CommitKinds
    <2>2. CASE UNCHANGED attempt
      BY <2>1, <2>2 DEF AttemptsWithinLimit, OpenAttempts, Rows
    <2>3. SUFFICES ASSUME ~UNCHANGED attempt, "start" \notin raced', NEW q \in Quiz
                   PROVE  /\ Cardinality(Rows(q)') <= course.limit
                          /\ Cardinality(OpenAttempts(q)') <= 1
      BY <2>1, <2>2 DEF AttemptsWithinLimit
    <2>4. Cardinality(Rows(q)) <= course.limit /\ Cardinality(OpenAttempts(q)) <= 1
      BY <2>1, <2>3 DEF AttemptsWithinLimit
    <2>5. /\ IsFiniteSet(Rows(q)) /\ Cardinality(Rows(q)) \in Nat /\ Rows(q) \subseteq 1..Len(attempt)
          /\ IsFiniteSet(OpenAttempts(q)) /\ OpenAttempts(q) \subseteq Rows(q)
          /\ Cardinality(OpenAttempts(q)) \in Nat /\ course.limit \in Nat /\ Len(attempt) \in Nat
      BY RowsOfAttempts, FS_Subset, FS_CardinalityType DEF TypeOK, CourseSettings
    <2>6. CASE CommitSubmit(w) \/ CommitReview(w)
      <3>1. Rows(q)' = Rows(q) /\ OpenAttempts(q)' \subseteq OpenAttempts(q)
        BY <2>6, DecisionCloses
      <3>2. Cardinality(OpenAttempts(q)') <= Cardinality(OpenAttempts(q))
            /\ Cardinality(OpenAttempts(q)') \in Nat
        BY <2>5, <3>1, FS_Subset, FS_CardinalityType
      <3>3. QED  BY <2>4, <2>5, <3>1, <3>2
    <2>7. CASE CommitStart(w)
      <3> DEFINE n == Len(attempt) + 1
      <3>1. t.op = "start" /\ t.item = n
        BY <2>3, <2>7 DEF CommitStart, Ready
      <3>2. CASE q # t.lesson
        <4>1. Rows(q)' = Rows(q) \cup {} /\ OpenAttempts(q)' = OpenAttempts(q) \cup {}
          BY <2>7, <3>2, StartAdds
        <4>2. QED  BY <2>4, <4>1
      <3>3. CASE q = t.lesson
        <4>1. OpenAttempts(q) = {} /\ Cardinality(Rows(q)) < course.limit
          BY <2>1, <3>1, <3>3 DEF Drafts, Opening
        <4>2. Rows(q)' = Rows(q) \cup {n} /\ OpenAttempts(q)' = {n}
          BY <2>7, <3>3, <4>1, StartAdds
        <4>3. n \notin Rows(q)
          BY <2>5
        <4>4. Cardinality(Rows(q)') = Cardinality(Rows(q)) + 1
          <5> DEFINE mine == Rows(q)
          <5>1. IsFiniteSet(mine) /\ n \notin mine /\ Rows(q)' = mine \cup {n}
            BY <2>5, <4>2, <4>3
          <5> HIDE DEF mine
          <5>2. Cardinality(mine \cup {n}) = Cardinality(mine) + 1
            BY <5>1, FS_AddElement
          <5>3. QED  BY <5>1, <5>2 DEF mine
        <4>5. Cardinality(OpenAttempts(q)') = 1
          BY <4>2, FS_Singleton
        <4>6. QED  BY <2>5, <4>1, <4>4, <4>5
      <3>4. QED  BY <3>2, <3>3
    <2>8. QED
      BY <1>2, <2>3, <2>6, <2>7 DEF Commits, CommitHandIn, CommitMark, CommitGrade, CommitEdit,
             CommitAssess, CommitRevoke, CommitEndCertificate, CommitSync, RollBack, records
  <1>3. CASE UNCHANGED vars
    BY <1>1, <1>3 DEF vars, records, history
  <1>4. ASSUME NEW w \in Worker, NEW r, Begin(w, r)  PROVE AttemptsWithinLimit'
    BY <1>1, <1>4 DEF Begin, records, history
  <1>5. ASSUME NEW w \in Worker, Decide(w)  PROVE AttemptsWithinLimit'
    BY <1>1, <1>5 DEF Decide, records, history
  <1>6. ASSUME NEW w \in Worker, Tally(w)  PROVE AttemptsWithinLimit'
    BY <1>1, <1>6 DEF Tally, RollBack, records, history
  <1>7. CASE Rearrange
    BY <1>1, <1>7, Rearranged DEF history
  <1>8. QED
    BY <1>2, <1>3, <1>4, <1>5, <1>6, <1>7, StepKinds

-------------------------------------------------------------------------------
(***************************************************************************)
(* Completion                                                              *)
(***************************************************************************)

\* What a tally counted becomes complete only by who tallied too.
LEMMA QualifiesFades ==
    ASSUME NEW r \in RequestRow, enrolment.completed => enrolment'.completed,
           \A l \in Lesson : Complete(l)' => Complete(l), Qualifies(r)'
    PROVE  Qualifies(r)
  <1>1. r.counts \subseteq Lesson
    BY DEF RequestRow
  <1>2. QED
    BY <1>1 DEF Qualifies

LEMMA StepTalliers ==
    ASSUME TypeOK, RequestsOK, Talliers, [Next]_vars
    PROVE  Talliers'
  <1>0. Idle \notin RequestRow
    BY DEF Idle, RequestRow
  <1>1. ASSUME UNCHANGED <<enrolment, progress>>, raced \subseteq raced', NEW w \in Worker,
               \A v \in Worker : task'[v] = task[v] \/ (v = w /\ (task'[v] \in RequestRow => task'[v].at # "tallied"))
        PROVE  Talliers'
    <2>1. SUFFICES ASSUME "tally" \notin raced', NEW v \in Worker, AtTally(v)'
                   PROVE  /\ \A u \in Worker : AtTally(u)' => u = v
                          /\ Qualifies(task[v])' => (task[v].completes)'
      BY DEF Talliers
    <2>2. \A u \in Worker : AtTally(u)' => AtTally(u) /\ task'[u] = task[u]
      BY <1>1 DEF AtTally
    <2>3. PICK r \in RequestRow : r = task[v] /\ r = task'[v]
      BY <2>1, <2>2 DEF AtTally
    <2>4. (\A u \in Worker : AtTally(u) => u = v) /\ (Qualifies(r) => r.completes)
      BY <1>1, <2>1, <2>2, <2>3 DEF Talliers
    <2>5. Qualifies(r)' => Qualifies(r)
      BY <1>1 DEF Qualifies, Complete
    <2>6. QED  BY <2>2, <2>3, <2>4, <2>5
  <1>2. CASE UNCHANGED vars
    <2>1. CASE Worker = {}
      BY <2>1 DEF Talliers
    <2>2. CASE \E w \in Worker : TRUE
      BY <1>1, <1>2, <2>2 DEF vars, records, history
    <2>3. QED  BY <2>1, <2>2
  <1>3. ASSUME NEW w \in Worker, NEW r, Begin(w, r), Fresh(r)  PROVE Talliers'
    <2>1. \A v \in Worker : task'[v] = IF v = w THEN r ELSE task[v]
      BY <1>3 DEF Begin, TypeOK
    <2>2. QED
      BY <1>1, <1>3, <2>1 DEF Begin, Fresh, records, history
  <1>4. ASSUME NEW w \in Worker, Decide(w)  PROVE Talliers'
    <2> DEFINE t == task[w]
               now == progress[t.lesson]
               write == IF now.done THEN "KEEP" ELSE Target(t)
               r == [t EXCEPT !.at = "decided", !.before = now, !.write = write]
    <2>1. /\ t.op \in Op /\ task' = [task EXCEPT ![w] = r] /\ UNCHANGED <<records, history>>
      BY <1>4 DEF Decide, Op, Decisions
    <2>2. t \in RequestRow
      BY <2>1, Committing
    <2> HIDE DEF now, write
    <2>3. r.at = "decided"
      BY <2>2 DEF RequestRow
    <2> HIDE DEF r
    <2>4. \A v \in Worker : task'[v] = IF v = w THEN r ELSE task[v]
      BY <2>1 DEF TypeOK
    <2>5. QED
      BY <1>1, <2>1, <2>3, <2>4 DEF records, history
  <1>5. ASSUME NEW w \in Worker, RollBack(w)  PROVE Talliers'
    <2>1. \A v \in Worker : task'[v] = IF v = w THEN Idle ELSE task[v]
      BY <1>5 DEF RollBack, Done, TypeOK
    <2>2. QED
      BY <1>0, <1>1, <1>5, <2>1 DEF RollBack, records, history
  <1>6. ASSUME NEW w \in Worker, Tally(w), ~RollBack(w)  PROVE Talliers'
    <2> DEFINE t == task[w]
               counts == Required(t)
               completes == Completes(t)
               r == [t EXCEPT !.at = "tallied", !.counts = counts, !.completes = completes]
    <2>1. /\ t.op \in Op /\ UNCHANGED records /\ task' = [task EXCEPT ![w] = r]
          /\ raced' = IF Tallied(w) = {} THEN raced ELSE raced \cup {"tally"}
      BY <1>6 DEF Tally, Tallying, Op
    <2>2. t \in RequestRow
      BY <2>1, Committing
    <2>3. SUFFICES ASSUME "tally" \notin raced', NEW v \in Worker, AtTally(v)'
                   PROVE  /\ \A u \in Worker : AtTally(u)' => u = v
                          /\ Qualifies(task[v])' => (task[v].completes)'
      BY DEF Talliers
    <2>4. Tallied(w) = {}
      BY <2>1, <2>3
    <2>5. \A u \in Worker \ {w} : ~AtTally(u)
      BY <1>0, <2>4 DEF AtTally, Tallied, Others
    <2>6. \A u \in Worker \ {w} : task'[u] = task[u]
      BY <2>1 DEF TypeOK
    <2>7. \A u \in Worker : AtTally(u)' => u = w
      BY <2>5, <2>6 DEF AtTally
    <2>8. Qualifies(task[w])' => (task[w].completes)'
      <3>1. completes <=> /\ ~enrolment.completed
                          /\ \/ t.op = "sync"
                             \/ /\ counts # {}
                                /\ \A l \in counts : IF l = t.lesson /\ t.write # "KEEP"
                                                     THEN t.write = "COMPLETED" ELSE Complete(l)
        BY DEF Completes
      <3> HIDE DEF counts, completes
      <3>2. r.op = t.op /\ r.lesson = t.lesson /\ r.write = t.write
            /\ r.counts = counts /\ r.completes = completes
        BY <2>2 DEF RequestRow
      <3>3. task'[w] = r
        BY <2>1 DEF TypeOK
      <3>4. PICK s : s = r
        OBVIOUS
      <3> HIDE DEF r
      <3>5. Qualifies(s)' <=> Qualifies(s)
        BY <2>1 DEF Qualifies, Complete, records
      <3>6. Qualifies(s) <=> completes
        BY <3>1, <3>2, <3>4 DEF Qualifies
      <3>7. QED  BY <3>2, <3>3, <3>4, <3>5, <3>6
    <2>9. QED  BY <2>3, <2>7, <2>8
  <1>7. ASSUME NEW w \in Worker, Commits(w)  PROVE Talliers'
    <2> DEFINE t == task[w]
    <2>1. /\ t \in RequestRow /\ RequestOK(t) /\ (t.write # "KEEP" => t.lesson \in Lesson)
          /\ task' = [task EXCEPT ![w] = Idle]
          /\ WriteProgress(t) /\ raced \subseteq raced'
          /\ \/ t.at = "tallied"
             \/ /\ t.write # "COMPLETED"
                /\ enrolment.completed => enrolment'.completed
      BY <1>7, CommitKinds
    <2>2. \A u \in Worker : AtTally(u)' => u # w /\ AtTally(u) /\ task'[u] = task[u]
      BY <1>0, <2>1 DEF AtTally, TypeOK
    <2>3. SUFFICES ASSUME "tally" \notin raced', NEW v \in Worker, AtTally(v)'
                   PROVE  /\ \A u \in Worker : AtTally(u)' => u = v
                          /\ Qualifies(task[v])' => (task[v].completes)'
      BY DEF Talliers
    <2>4. PICK r \in RequestRow : r = task[v] /\ r = task'[v]
      BY <2>2, <2>3 DEF AtTally
    <2>5. (\A u \in Worker : AtTally(u) => u = v) /\ (Qualifies(r) => r.completes)
      BY <2>1, <2>2, <2>3, <2>4 DEF Talliers
    <2>6. t.at # "tallied"
      BY <2>1, <2>2, <2>3, <2>5 DEF AtTally
    <2>7. \A l \in Lesson : Complete(l)' => Complete(l)
      BY <2>1, <2>6, WriteProgressSets
    <2>9. Qualifies(r)' => Qualifies(r)
      BY <2>1, <2>6, <2>7, QualifiesFades
    <2>10. QED  BY <2>2, <2>4, <2>5, <2>9
  <1>8. CASE Rearrange
    <2>1. CASE Worker = {}
      BY <2>1 DEF Talliers
    <2>2. CASE \E w \in Worker : TRUE
      BY <1>1, <1>8, <2>2 DEF Rearrange, history
    <2>3. QED  BY <2>1, <2>2
  <1>9. QED
    BY <1>2, <1>3, <1>4, <1>5, <1>6, <1>7, <1>8, StepKinds

\* A lesson that is complete is done, unless an overwriting of its progress was noted.
LEMMA LessonsAgree ==
    ASSUME TypeOK, NEW t \in RequestRow, t.write # "KEEP" => t.lesson \in Lesson,
           WriteProgress(t), Drafted(t), \A l \in Lesson \ stale : progress[l].done <=> Complete(l)
    PROVE  \A l \in Lesson \ stale' : progress'[l].done <=> Complete(l)'
  <1> SUFFICES ASSUME NEW l \in Lesson, l \notin stale'
               PROVE  progress'[l].done <=> Complete(l)'
    OBVIOUS
  <1>1. l \notin stale
    BY WriteProgressSets
  <1>2. CASE l = t.lesson /\ t.write # "KEEP"
    <2>1. progress[l] = t.before
      BY <1>2 DEF WriteProgress
    <2>2. progress'[l].done <=> progress[l].done \/ t.write = "COMPLETED"
      BY <1>2, WriteProgressGrows
    <2>3. Complete(l)' <=> t.write = "COMPLETED"
      BY <1>2, WriteProgressSets
    <2>4. QED  BY <1>2, <2>1, <2>2, <2>3 DEF Drafted
  <1>3. CASE ~(l = t.lesson /\ t.write # "KEEP")
    BY <1>1, <1>3, WriteProgressSets DEF Complete
  <1>4. QED  BY <1>2, <1>3

\* The status says whether the course is completed, unless an overwriting was noted.
StatusSays == "enrolment" \notin raced => (enrolment.completed <=> enrolment.status = "COMPLETED")

LEMMA StatusAgrees ==
    ASSUME TypeOK, RequestsOK, StatusSays, NEW w \in Worker, Commits(w)
    PROVE  StatusSays'
  <1> DEFINE t == task[w]
  <1>0. enrolment \in EnrolmentRow
    BY DEF TypeOK
  <1>1. CASE WriteCompletion(t) /\ UNCHANGED raced
    BY <1>0, <1>1 DEF WriteCompletion, StatusSays, EnrolmentRow
  <1>2. CASE UNCHANGED <<enrolment, raced>>
    BY <1>2 DEF StatusSays
  <1>3. CASE CommitStart(w)
    <2> DEFINE opens == t.read.status = "ENROLLED"
    <2>1. /\ enrolment' = IF opens THEN [enrolment EXCEPT !.status = "IN_PROGRESS"] ELSE enrolment
          /\ raced \subseteq raced' /\ (opens /\ enrolment.status # "ENROLLED" => "enrolment" \in raced')
      BY <1>3 DEF CommitStart
    <2> HIDE DEF opens
    <2>2. QED  BY <1>0, <2>1 DEF StatusSays, EnrolmentRow
  <1>4. CASE CommitRevoke(w)
    <2> DEFINE revokes == IF t.op = "refund" THEN ~enrolment.refunded ELSE ~t.read.revoked
               keeps == t.read.status = "COMPLETED"
    <2>1. /\ enrolment' = IF revokes THEN Revoked(t) ELSE enrolment
          /\ raced' = IF revokes /\ enrolment.status # t.read.status THEN raced \cup {"enrolment"} ELSE raced
      BY <1>4 DEF CommitRevoke
    <2> HIDE DEF revokes
    <2>2. /\ Revoked(t).completed = enrolment.completed
          /\ Revoked(t).status = IF keeps THEN enrolment.status ELSE "REVOKED"
      BY <1>0 DEF Revoked, EnrolmentRow
    <2>3. CASE revokes
      <3>1. SUFFICES ASSUME "enrolment" \notin raced'  PROVE enrolment'.completed <=> enrolment'.status = "COMPLETED"
        BY DEF StatusSays
      <3>2. enrolment.status = t.read.status /\ "enrolment" \notin raced
        BY <2>1, <2>3, <3>1
      <3>3. enrolment.completed <=> enrolment.status = "COMPLETED"
        BY <3>2 DEF StatusSays
      <3>4. QED  BY <2>1, <2>2, <2>3, <3>2, <3>3
    <2>4. CASE ~revokes
      BY <2>1, <2>4 DEF StatusSays
    <2>5. QED  BY <2>3, <2>4
  <1>5. QED
    BY <1>1, <1>2, <1>3, <1>4 DEF Commits, CommitSubmit, CommitReview, CommitAttempt, CommitHandIn,
           CommitMark, CommitGrade, CommitEdit, CommitAssess, CommitEndCertificate, CommitSync, RollBack,
           records, history

\* DoneMeansCompleted is inductive once it speaks of the lessons that the last tally
\* counted, whether or not they are still those that count.
TalliesAgree ==
    "tally" \notin raced /\ latest # {} /\ (\A l \in latest : Complete(l)) => enrolment.completed
LessonsSay == \A l \in Lesson \ stale : progress[l].done <=> Complete(l)
DoneAgrees == TalliesAgree /\ LessonsSay /\ StatusSays

LEMMA StepDone ==
    ASSUME TypeOK, RequestsOK, RowsOK, Drafts, Talliers, DoneAgrees, [Next]_vars
    PROVE  DoneAgrees'
  <1>1. CASE UNCHANGED <<enrolment, progress, latest, stale>> /\ raced \subseteq raced'
    BY <1>1 DEF DoneAgrees, TalliesAgree, LessonsSay, StatusSays, Complete
  <1>2. ASSUME NEW w \in Worker, Commits(w)  PROVE DoneAgrees'
    <2> DEFINE t == task[w]
    <2>1. /\ t \in RequestRow /\ RequestOK(t) /\ (t.write # "KEEP" => t.lesson \in Lesson)
          /\ WriteProgress(t) /\ raced \subseteq raced'
          /\ \/ /\ Tallying(t) /\ t.at = "tallied"
                /\ WriteCompletion(t) /\ latest' = t.counts /\ UNCHANGED raced
             \/ /\ t.write # "COMPLETED" /\ UNCHANGED latest
                /\ enrolment.completed => enrolment'.completed
      BY <1>2, CommitKinds
    <2>2. Drafted(t)
      BY <2>1 DEF Drafts
    <2>3. \A l \in Lesson \ stale' : progress'[l].done <=> Complete(l)'
      BY <2>1, <2>2, LessonsAgree DEF DoneAgrees, LessonsSay
    <2>4. StatusSays'
      BY <1>2, StatusAgrees DEF DoneAgrees
    <2>5. ASSUME "tally" \notin raced', latest' # {}, \A l \in latest' : Complete(l)'
          PROVE  enrolment'.completed
      <3>1. "tally" \notin raced
        BY <2>1, <2>5
      <3>2. CASE t.write # "COMPLETED" /\ UNCHANGED latest
                 /\ (enrolment.completed => enrolment'.completed)
        <4>1. latest \subseteq Lesson
          BY DEF TypeOK
        <4>2. \A l \in latest : Complete(l)
          BY <2>1, <2>5, <3>2, <4>1, WriteProgressSets
        <4>3. QED  BY <2>5, <3>1, <3>2, <4>2 DEF DoneAgrees, TalliesAgree
      <3>3. CASE t.at = "tallied" /\ WriteCompletion(t) /\ latest' = t.counts
        <4>1. enrolment'.completed <=> enrolment.completed \/ t.completes
          BY <2>1, <3>3, WriteCompletionGrows
        <4>2. t.counts \subseteq Lesson
          BY <2>1 DEF RequestRow
        <4>3. \A l \in t.counts : IF l = t.lesson /\ t.write # "KEEP"
                                     THEN t.write = "COMPLETED" ELSE Complete(l)
          BY <2>1, <2>5, <3>3, <4>2, WriteProgressSets
        <4>4. Qualifies(t) \/ enrolment.completed
          BY <2>5, <3>3, <4>3 DEF Qualifies
        <4>5. Qualifies(t) => t.completes
          BY <2>1, <3>1, <3>3 DEF Talliers, AtTally
        <4>6. QED  BY <4>1, <4>4, <4>5
      <3>4. QED  BY <2>1, <3>2, <3>3
    <2>6. QED
      BY <2>3, <2>4, <2>5 DEF DoneAgrees, TalliesAgree, LessonsSay
  <1>3. CASE UNCHANGED vars
    BY <1>1, <1>3 DEF vars, records, history
  <1>4. ASSUME NEW w \in Worker, NEW r, Begin(w, r)  PROVE DoneAgrees'
    BY <1>1, <1>4 DEF Begin, records, history
  <1>5. ASSUME NEW w \in Worker, Decide(w)  PROVE DoneAgrees'
    BY <1>1, <1>5 DEF Decide, records, history
  <1>6. ASSUME NEW w \in Worker, Tally(w)  PROVE DoneAgrees'
    BY <1>1, <1>6 DEF Tally, RollBack, records, history
  <1>7. CASE Rearrange
    BY <1>1, <1>7 DEF Rearrange, history
  <1>8. QED
    BY <1>2, <1>3, <1>4, <1>5, <1>6, <1>7, StepKinds

-------------------------------------------------------------------------------
OverlapInv == Drafts /\ Talliers /\ AttemptsWithinLimit /\ DoneAgrees

LEMMA InitOverlap ==
    ASSUME Init
    PROVE  OverlapInv
  <1>1. \A w \in Worker : task[w] \notin RequestRow
    BY DEF Init, RequestRow
  <1>2. Drafts /\ Talliers
    BY <1>1 DEF Drafts, Talliers, AtTally
  <1>3. AttemptsWithinLimit
    <2>1. \A q : Rows(q) = {} /\ OpenAttempts(q) = {}
      BY DEF Init, Rows, OpenAttempts
    <2>2. Cardinality({}) = 0
      BY FS_EmptySet
    <2>3. course.limit \in Nat
      BY LearningAssumption DEF Init, CourseSettings
    <2>4. QED  BY <2>1, <2>2, <2>3 DEF AttemptsWithinLimit
  <1>4. DoneAgrees
    <2>1. latest \subseteq Lesson
      BY LearningAssumption, CountingType DEF Init
    <2>2. \A l \in Lesson : ~Complete(l) /\ ~progress[l].done
      BY DEF Init, Complete, Untouched
    <2>3. ~enrolment.completed /\ enrolment.status = "ENROLLED"
      BY DEF Init
    <2>4. QED  BY <2>1, <2>2, <2>3 DEF DoneAgrees, TalliesAgree, LessonsSay, StatusSays
  <1>5. QED  BY <1>2, <1>3, <1>4 DEF OverlapInv

\* Every step keeps what requests that meet nobody know.
THEOREM OverlapInvariant == Spec => []OverlapInv
  <1>1. Init => OverlapInv
    BY InitOverlap
  <1>2. IInv /\ OverlapInv /\ [Next]_vars => OverlapInv'
    BY StepDrafts, StepTalliers, StepAttempts, StepDone DEF IInv, OverlapInv
  <1>3. QED
    BY <1>1, <1>2, Invariant, PTL DEF Spec

\* For every course and any number of requests in flight: a learner has no more attempts
\* than the lesson allows and one open at a time, unless an attempt was started between
\* the count and the insert of another (startAttempt).
THEOREM AttemptsLimited == Spec => []AttemptsWithinLimit
  <1>1. OverlapInv => AttemptsWithinLimit
    BY DEF OverlapInv
  <1>2. QED
    BY <1>1, OverlapInvariant, PTL

\* For every course, every order of its lessons and any number of requests in flight:
\* whoever has done every lesson that counts has completed the course, unless another order
\* made other lessons count since the last tally; a lesson that is done counts as complete,
\* and the status of the enrolment says which, until requests overlap that do not see each
\* other (recalculateCourseProgress, requiredLessons).
THEOREM DoneIsCompleted == Spec => []DoneMeansCompleted
  <1>1. OverlapInv => DoneMeansCompleted
    BY DEF OverlapInv, DoneAgrees, TalliesAgree, LessonsSay, StatusSays, DoneMeansCompleted
  <1>2. QED
    BY <1>1, OverlapInvariant, PTL
===============================================================================
