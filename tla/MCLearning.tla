------------------------------ MODULE MCLearning ------------------------------
(***************************************************************************)
(* Instances of Learning for TLC.                                          *)
(***************************************************************************)
EXTENDS Learning, TLC

CONSTANTS w1, w2

TwoRequests == {w1, w2}
InOrder == [l \in Lesson |-> CASE l = "read" -> 1 [] l = "quiz" -> 2 [] l = "exam" -> 3 [] OTHER -> 4]
ExamFirst == [InOrder EXCEPT !["quiz"] = 3, !["exam"] = 2]
Orders == {InOrder, ExamFirst}
Offer(issues, completion, coach) == [issues |-> issues, completion |-> completion, coach |-> coach]
CourseWith(required, sequential, pass, limit, external, template) ==
    [required |-> required, exams |-> {}, final |-> FALSE, order |-> InOrder,
     sequential |-> sequential, quizPass |-> pass, limit |-> limit,
     external |-> external, template |-> template]

\* The instance has four parts: a course with a quiz, where the learner may be refunded; one
\* with an assignment, where the curriculum is edited; one with two assessments, the last of
\* which counts when the course asks for it, where they change places; and one whose only
\* lesson is marked as done, where everything else happens and a certificate is offered.
\* Each is known by its settings, and its learner keeps to its lessons.  Once two requests
\* have met about the same row, what is in flight ends and nothing new starts.
NoOffer == Offer(FALSE, FALSE, FALSE)
WithQuiz ==
    {CourseWith({"read", "quiz"}, sq, pass, n, FALSE, NoOffer) : sq, pass \in BOOLEAN, n \in {1, 2}}
WithEssay == {CourseWith({"read", "essay"}, sq, TRUE, 3, FALSE, NoOffer) : sq \in BOOLEAN}
Certified == {CourseWith({"read"}, FALSE, TRUE, 1, ex, Offer(TRUE, c, k)) : ex, c, k \in BOOLEAN}
WithExams ==
    {[CourseWith({}, sq, TRUE, 1, FALSE, NoOffer) EXCEPT !.exams = {"quiz", "exam"}, !.final = TRUE] : sq \in BOOLEAN}
Courses == WithQuiz \cup WithEssay \cup WithExams \cup Certified

LessonWork == {"start", "submit", "review", "grade", "hand in", "open", "mark"}
Allowed(t) ==
    CASE course.template.issues ->
            (t.lesson = "read" /\ t.op # "open") \/ (t.lesson = NoLesson /\ t.op # "edit")
      [] course.limit = 3 -> t.lesson \in {"read", "essay"} /\ t.op \in LessonWork \cup {"edit"}
      [] course.exams # {} ->
            (t.lesson \in course.exams /\ t.op \in {"start", "submit"}) \/ (t.lesson = NoLesson /\ t.op = "edit")
      [] OTHER -> t.lesson \notin {"essay", "exam"} /\ t.op \in LessonWork \cup {"refund"}
Parts ==
    /\ course'.order = course.order \/ course.exams # {}
    /\ \A w \in Worker : task'[w] = Idle \/ Allowed(task'[w])
    /\ stale \cup contested \cup raced # {} => \A w \in Worker : task[w] = Idle => task'[w] = Idle

Symmetry == Permutations(TwoRequests)
===============================================================================
