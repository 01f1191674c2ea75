--------------------------- MODULE CourseProgress ---------------------------
(***************************************************************************)
(* One user's way through one course. Every operation looks at the         *)
(* enrolment and the lesson first and then runs a transaction, at READ     *)
(* COMMITTED. startLesson and completeLesson write the lesson's row, read  *)
(* all rows, and write the sum to the enrolment; dropCourseEnrollment      *)
(* deletes the rows and writes the enrolment. A transaction locks the rows *)
(* it has written, and sees of others what is committed.                   *)
(***************************************************************************)
EXTENDS Integers, FiniteSets

CONSTANTS
  Lessons,        \* of the course, fixed when it is created
  MaxVisits,      \* bound: requests
  MaxVisitFaults  \* bound: transactions that are rolled back

NoLesson == "none"
Visits == 1..MaxVisits   \* in the order they begin

ASSUME CourseAssumption ==
  /\ Lessons # {} /\ IsFiniteSet(Lessons) /\ NoLesson \notin Lessons
  /\ MaxVisits \in Nat /\ MaxVisitFaults \in Nat

VARIABLES
  enrolment,   \* the CourseEnrollment row; points: progress, in half lessons
  progress,    \* the CourseLessonProgress rows, as committed
  visit,       \* the requests
  visitFaults, \* transactions rolled back so far
  behind,       \* history: requests that had seen all rows when others changed one
  blind,       \* history: such a request was the last to write the enrolment's points
  missed       \* history: requests to start a lesson that was completed after they looked

courseHistory == <<behind, blind, missed>>
courseVars == <<enrolment, progress, visit, visitFaults, courseHistory>>

NoVisit == [pc |-> "none", op |-> "none", lesson |-> NoLesson, points |-> 0, all |-> FALSE,
            deleted |-> {}]

CourseInit ==
  /\ enrolment = [status |-> "none", points |-> 0]
  /\ progress = [l \in Lessons |-> "none"]
  /\ visit = [v \in Visits |-> NoVisit]
  /\ visitFaults = 0
  /\ behind = {} /\ blind = FALSE /\ missed = {}

Underway == {v \in Visits : visit[v].pc \notin {"none", "done"}}
Leave(v) == visit' = [visit EXCEPT ![v].pc = "done"]
Visit(v, op, l, pc) ==
  /\ visit[v].pc = "none" /\ \A w \in Visits : w < v => visit[w].pc # "none"
  /\ visit' = [visit EXCEPT ![v].pc = pc, ![v].op = op, ![v].lesson = l]
  /\ UNCHANGED <<enrolment, progress, visitFaults, courseHistory>>

\* Request v commits the rows, having written the enrolment.
Summed == {w \in Visits : visit[w].pc \in {"commit", "dropping"}}
CommitRows(v, rows) ==
  /\ progress' = rows
  /\ behind' = IF rows = progress THEN behind ELSE behind \cup (Summed \ {v})
  /\ blind' = (v \in behind)

----------------------------------------------------------------------------
(* enrollInCourse, dropCourseEnrollment                                    *)

\* "Already enrolled in this course" after a drop, too.
FindCourse(v) == enrolment.status = "none" /\ Visit(v, "enrol", NoLesson, "enrol")

\* The unique index refuses the second of two.
EnrollInCourse(v) ==
  /\ visit[v].pc = "enrol"
  /\ IF enrolment.status = "none"
     THEN /\ enrolment' = [status |-> "ENROLLED", points |-> 0]
          /\ CommitRows(v, [l \in Lessons |-> "NOT_STARTED"])
     ELSE UNCHANGED <<enrolment, progress, behind, blind>>
  /\ Leave(v)
  /\ UNCHANGED <<visitFaults, missed>>

FindEnrollment(v) ==
  /\ enrolment.status # "none"
  /\ \E keep \in {"drop", "drop, preserveHistory"} : Visit(v, keep, NoLesson, "drop")

\* Requests that hold the lock on a lesson's row, deleted or written.
Writing(l) ==
  {w \in Visits : \/ visit[w].pc \in {"compute", "commit"} /\ visit[w].lesson = l
                  \/ visit[w].pc = "dropping" /\ l \in visit[w].deleted}

\* All rows are deleted once nobody else is writing them; one that is only being
\* created is not seen.
DeleteProgress(v) ==
  LET there == {l \in Lessons : progress[l] # "none"} IN
  /\ visit[v].pc = "drop" /\ visit[v].op = "drop"
  /\ \A l \in there : Writing(l) = {}
  /\ visit' = [visit EXCEPT ![v].pc = "dropping", ![v].deleted = there]
  /\ UNCHANGED <<enrolment, progress, visitFaults, courseHistory>>

DropEnrollment(v) ==
  /\ \/ /\ visit[v].pc = "dropping"
        /\ CommitRows(v, [l \in Lessons |-> IF l \in visit[v].deleted THEN "none" ELSE progress[l]])
        /\ enrolment' = [status |-> "DROPPED", points |-> 0]
     \/ /\ visit[v].pc = "drop" /\ visit[v].op = "drop, preserveHistory"
        /\ enrolment' = [enrolment EXCEPT !.status = "DROPPED"]
        /\ UNCHANGED <<progress, behind, blind>>
  /\ Leave(v)
  /\ UNCHANGED <<visitFaults, missed>>

----------------------------------------------------------------------------
(* startLesson, completeLesson                                             *)

\* "Lesson is already completed" otherwise. The mutant starts it again.
MayStartAny(l) == enrolment.status # "none"
MayStart(l) == enrolment.status # "none" /\ progress[l] # "COMPLETED"
FindLesson(v, l) == MayStart(l) /\ Visit(v, "start", l, "write")

FindStarted(v, l) == progress[l] = "IN_PROGRESS" /\ Visit(v, "complete", l, "write")

\* startLesson creates a row that is gone, completeLesson fails on it. (One that is
\* gone and was created again is taken for the same.)
WriteLesson(v) ==
  LET l == visit[v].lesson IN
  /\ visit[v].pc = "write"
  /\ Writing(l) = {}
  /\ visit' = [visit EXCEPT ![v].pc =
       IF visit[v].op = "complete" /\ progress[l] = "none" THEN "done" ELSE "compute"]
  /\ UNCHANGED <<enrolment, progress, visitFaults, courseHistory>>

Written(v) == IF visit[v].op = "start" THEN "IN_PROGRESS" ELSE "COMPLETED"

\* The rows as v's transaction sees them.
View(v) == [progress EXCEPT ![visit[v].lesson] = Written(v)]

\* The mutant completes the course with the last lesson that is started.
AllDoneOrStarted(view) == \A l \in Lessons : view[l] \in {"IN_PROGRESS", "COMPLETED"}
AllDone(view) == \A l \in Lessons : view[l] = "COMPLETED"
Points(view) == 2 * Cardinality({l \in Lessons : view[l] = "COMPLETED"})
                  + Cardinality({l \in Lessons : view[l] = "IN_PROGRESS"})

ComputeProgress(v) ==
  /\ visit[v].pc = "compute"
  /\ visit' = [visit EXCEPT ![v].pc = "commit", ![v].points = Points(View(v)),
                            ![v].all = AllDone(View(v))]
  /\ UNCHANGED <<enrolment, progress, visitFaults, courseHistory>>

\* Only completeLesson finds the course completed.
Starting(l) == {w \in Underway : visit[w].op = "start" /\ visit[w].lesson = l}
CommitProgress(v) ==
  /\ visit[v].pc = "commit"
  /\ CommitRows(v, View(v))
  /\ missed' = IF visit[v].op = "complete" THEN missed \cup Starting(visit[v].lesson) ELSE missed
  /\ enrolment' = [points |-> visit[v].points,
                   status |-> IF visit[v].op = "complete" /\ visit[v].all
                              THEN "COMPLETED" ELSE "IN_PROGRESS"]
  /\ Leave(v)
  /\ UNCHANGED visitFaults

RollBack(v) ==
  /\ visitFaults < MaxVisitFaults /\ v \in Underway
  /\ visitFaults' = visitFaults + 1
  /\ Leave(v)
  /\ UNCHANGED <<enrolment, progress, courseHistory>>

CourseNext ==
  \E v \in Visits :
    \/ FindCourse(v) \/ EnrollInCourse(v) \/ FindEnrollment(v)
    \/ DeleteProgress(v) \/ DropEnrollment(v)
    \/ \E l \in Lessons : FindLesson(v, l) \/ FindStarted(v, l)
    \/ WriteLesson(v) \/ ComputeProgress(v) \/ CommitProgress(v)
    \/ RollBack(v)

CourseSpec == CourseInit /\ [][CourseNext]_courseVars

----------------------------------------------------------------------------
(* Properties                                                              *)

CourseTypeOK ==
  /\ enrolment \in [status : {"none", "ENROLLED", "IN_PROGRESS", "COMPLETED", "DROPPED"},
                    points : Nat]
  /\ progress \in [Lessons -> {"none", "NOT_STARTED", "IN_PROGRESS", "COMPLETED"}]
  /\ visit \in [Visits -> [pc : {"none", "enrol", "drop", "dropping", "write", "compute",
                                 "commit", "done"},
                           op : {"none", "enrol", "drop", "drop, preserveHistory", "start", "complete"},
                           lesson : Lessons \cup {NoLesson}, points : Nat, all : BOOLEAN,
                           deleted : SUBSET Lessons]]
  /\ visitFaults \in Nat /\ behind \subseteq Visits /\ blind \in BOOLEAN /\ missed \subseteq Visits
  /\ \A v \in Visits : visit[v].pc \in {"write", "compute", "commit"} => visit[v].lesson \in Lessons
  /\ \A l \in Lessons : Cardinality(Writing(l)) <= 1

\* However the requests overlap or fail, progress is the sum of the lessons, and the
\* course is COMPLETED if and only if all of them are, or it was dropped: except from
\* a write of the enrolment by a request that had seen the rows before another
\* changed one, until the next write by one that had not.
ProgressAgrees ==
  ~blind =>
    /\ enrolment.points = 2 * Cardinality({l \in Lessons : progress[l] = "COMPLETED"})
                            + Cardinality({l \in Lessons : progress[l] = "IN_PROGRESS"})
    /\ enrolment.status = "COMPLETED" => \A l \in Lessons : progress[l] = "COMPLETED"
    /\ (\A l \in Lessons : progress[l] = "COMPLETED") => enrolment.status \in {"COMPLETED", "DROPPED"}

\* However the requests overlap or fail, a completed lesson stays completed until the
\* enrolment is dropped, unless a request to start it, which had looked at it before
\* it was completed, commits.
CompletedStays ==
  [][\A l \in Lessons :
       progress[l] = "COMPLETED" /\ progress'[l] # "COMPLETED" =>
         \/ enrolment'.status = "DROPPED"
         \/ \E v \in missed : /\ visit[v].lesson = l
                             /\ visit[v].pc = "commit" /\ visit'[v].pc = "done"]_courseVars
=============================================================================
