------------------------------ MODULE Dashboard ------------------------------
(* The dashboard of a student who owns one course: it reads the progress and *)
(* the modules of the course in concurrent requests, and offers the way on.  *)
(* Meanwhile other tabs complete lessons and submit quizzes, and the teacher *)
(* publishes quizzes and changes their pass marks. A module has a lesson or  *)
(* none, and perhaps a quiz that locks the modules after it.                 *)
EXTENDS Naturals, FiniteSets, FiniteSetsExt

CONSTANTS
  LastModule,     \* the modules of the course are 1 .. LastModule
  LessonModules   \* those that have a lesson

ASSUME DashboardAssumption ==
  LastModule \in Nat \ {0} /\ LessonModules \subseteq 1 .. LastModule

VARIABLES
  quizzes,    \* module -> the student's quiz there
  completed,  \* modules whose lesson is completed
  loading,    \* the load of the page that is under way
  dashboard   \* what the page shows

dashboardVars == <<quizzes, completed, loading, dashboard>>

Modules == 1 .. LastModule

(* No visible quiz, no attempt at it, no attempt that meets its pass mark of *)
(* the moment, or one that does.                                             *)
QuizStates == {"none", "open", "failed", "passed"}

(* toPass: the modules read to have a quiz that is not passed. The locks are *)
(* read one by one.                                                          *)
Load == [step : {"idle", "owned", "course"},
         toPass : SUBSET Modules, quizzesRead : BOOLEAN,
         locked : SUBSET Modules, locksRead : 0 .. LastModule,
         completed : SUBSET Modules, progressRead : BOOLEAN,
         closed : BOOLEAN]   \* the teacher closed a module meanwhile
NoLoad == [step |-> "idle", toPass |-> {}, quizzesRead |-> FALSE,
           locked |-> {}, locksRead |-> 0, completed |-> {},
           progressRead |-> FALSE, closed |-> FALSE]

Targets == [kind : {"lesson", "replay", "quiz"}, module : Modules]
             \cup {[kind |-> "blocked", module |-> 0]}
Blocked == [kind |-> "blocked", module |-> 0]
Page == [view : {"away", "loading", "empty", "error", "unavailable", "ready"},
         target : Targets, stale : BOOLEAN]
NoPage == [view |-> "away", target |-> Blocked, stale |-> FALSE]

DashboardInit ==
  /\ quizzes \in [Modules -> {"none", "open"}]
  /\ completed = {}
  /\ loading = NoLoad
  /\ dashboard = NoPage

Unpassed == {m \in Modules : quizzes[m] \in {"open", "failed"}}
LockedModule(m) == \E k \in 1 .. (m - 1) : k \in Unpassed

-----------------------------------------------------------------------------
(* The other tabs, and the teacher. A handler is one step here: modules      *)
(* ModuleQuiz and Assignments are about its statements.                      *)

CompletesLesson(m) ==
  /\ m \in LessonModules \ completed /\ ~LockedModule(m)
  /\ completed' = completed \cup {m}
  /\ UNCHANGED <<quizzes, loading, dashboard>>

UncompletesLesson(m) ==
  /\ m \in completed /\ ~LockedModule(m)
  /\ completed' = completed \ {m}
  /\ UNCHANGED <<quizzes, loading, dashboard>>

(* A retake does not take back what is passed: any attempt counts.           *)
SubmitsQuiz(m) ==
  /\ m \in Unpassed /\ ~LockedModule(m)
  /\ \E outcome \in {"failed", "passed"} :
       quizzes' = [quizzes EXCEPT ![m] = outcome]
  /\ UNCHANGED <<completed, loading, dashboard>>

(* The teacher closes the modules after m to the student: what was loaded,   *)
(* and what is being loaded, may not agree with it.                          *)
ClosesAfter(m, state) ==
  /\ quizzes' = [quizzes EXCEPT ![m] = state]
  /\ loading' = [loading EXCEPT !.closed = loading.step # "idle"]
  /\ dashboard' = [dashboard EXCEPT !.stale = TRUE]
  /\ UNCHANGED completed

PublishesQuiz(m) == quizzes[m] = "none" /\ ClosesAfter(m, "open")
RaisesPassMark(m) == quizzes[m] = "passed" /\ ClosesAfter(m, "failed")

LowersPassMark(m) ==
  /\ quizzes[m] = "failed"
  /\ quizzes' = [quizzes EXCEPT ![m] = "passed"]
  /\ UNCHANGED <<completed, loading, dashboard>>

-----------------------------------------------------------------------------
(* The load of the page. Leaving it cancels the load, whose answers are then *)
(* dropped; a retry starts another.                                          *)

CourseUnchanged == UNCHANGED <<quizzes, completed>>

OpensDashboard ==
  /\ dashboard.view \in {"away", "error"}
  /\ dashboard' = [NoPage EXCEPT !.view = "loading"]
  /\ loading' = [NoLoad EXCEPT !.step = "owned"]
  /\ CourseUnchanged

LeavesDashboard ==
  /\ dashboard.view # "away"
  /\ dashboard' = NoPage
  /\ loading' = NoLoad
  /\ CourseUnchanged

(* The published courses, and the purchases, which count as none if they     *)
(* cannot be read.                                                           *)
ReadsOwned ==
  /\ loading.step = "owned"
  /\ \/ /\ loading' = [loading EXCEPT !.step = "course"]
        /\ UNCHANGED dashboard
     \/ /\ \E view \in {"empty", "error"} :
             dashboard' = [dashboard EXCEPT !.view = view]
        /\ loading' = NoLoad
  /\ CourseUnchanged

ReadsProgressRows ==
  /\ loading.step = "course" /\ ~loading.progressRead
  /\ loading' = [loading EXCEPT !.progressRead = TRUE, !.completed = completed]
  /\ UNCHANGED dashboard /\ CourseUnchanged

ReadsQuizzes ==
  /\ loading.step = "course" /\ ~loading.quizzesRead
  /\ loading' = [loading EXCEPT !.quizzesRead = TRUE, !.toPass = Unpassed]
  /\ UNCHANGED dashboard /\ CourseUnchanged

(* FAULT: the locks are read without the quizzes being there.                *)
LocksAnytime == loading.step = "course"

LocksAfterQuizzes == loading.step = "course" /\ loading.quizzesRead

(* The lock of each module, by reads of their own.                           *)
ReadsLock ==
  /\ LocksAfterQuizzes
  /\ loading.locksRead < LastModule
  /\ LET m == loading.locksRead + 1 IN
     loading' = [loading EXCEPT !.locksRead = m,
       !.locked = IF LockedModule(m) THEN @ \cup {m} ELSE @]
  /\ UNCHANGED dashboard /\ CourseUnchanged

(* The first incomplete lesson that is not locked, else the first lesson if  *)
(* all are completed, locked or not, else the first quiz to pass.            *)
ContinueTarget ==
  LET incomplete == LessonModules \ loading.completed
      lessons == incomplete \ loading.locked
      open == loading.toPass \ loading.locked
  IN IF lessons # {} THEN [kind |-> "lesson", module |-> Min(lessons)]
     ELSE IF LessonModules # {} /\ incomplete = {}
       THEN [kind |-> "replay", module |-> Min(LessonModules)]
     ELSE IF incomplete # {} /\ open # {}
       THEN [kind |-> "quiz", module |-> Min(open)]
     ELSE Blocked

ShowsDashboard ==
  /\ loading.step = "course"
  /\ loading.progressRead /\ loading.quizzesRead
  /\ loading.locksRead = LastModule
  /\ dashboard' = [view |-> "ready", target |-> ContinueTarget,
                   stale |-> loading.closed]
  /\ loading' = NoLoad
  /\ CourseUnchanged

(* A course one of whose requests fails is shown without its progress.       *)
CourseFails ==
  /\ loading.step = "course"
  /\ dashboard' = [dashboard EXCEPT !.view = "unavailable"]
  /\ loading' = NoLoad
  /\ CourseUnchanged

DashboardNext ==
  \/ OpensDashboard \/ LeavesDashboard \/ ReadsOwned \/ ReadsProgressRows
  \/ ReadsQuizzes \/ ReadsLock \/ ShowsDashboard \/ CourseFails
  \/ \E m \in Modules : \/ CompletesLesson(m) \/ UncompletesLesson(m)
                        \/ SubmitsQuiz(m) \/ PublishesQuiz(m)
                        \/ RaisesPassMark(m) \/ LowersPassMark(m)

DashboardSpec == DashboardInit /\ [][DashboardNext]_dashboardVars

-----------------------------------------------------------------------------
(* The values of the course, the load and the page.                          *)
DashboardTypeOK ==
  /\ quizzes \in [Modules -> QuizStates]
  /\ completed \in SUBSET Modules
  /\ loading \in Load
  /\ dashboard \in Page

(* The dashboard has a way on in every course with a lesson, and the lesson  *)
(* to go on with or the quiz to pass is never in a module that is locked,    *)
(* though it is put together from reads of different moments, unless the     *)
(* teacher published a quiz or raised a pass mark during or after them. The  *)
(* first lesson, offered again at the end, may be locked.                    *)
NeverStranded == dashboard.view = "ready" /\ ~dashboard.stale =>
  /\ dashboard.target.kind \in {"lesson", "quiz"} =>
       ~LockedModule(dashboard.target.module)
  /\ dashboard.target.kind = "blocked" => LessonModules = {}

=============================================================================
