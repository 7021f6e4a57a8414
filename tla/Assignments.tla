---------------------------- MODULE Assignments ----------------------------
(* One student's submissions of one assignment behind the quiz of the module *)
(* before it: the assignment page in several tabs, the review page of the    *)
(* people who may grade, the teacher who sets the pass mark of the quiz, and *)
(* the handlers of the catalog.                                              *)
EXTENDS ModuleQuiz

CONSTANTS
  WorkTabs,        \* tabs that may show the assignment
  Graders,         \* review pages open on it
  PassMarks,       \* the pass marks a teacher may set, in percent
  MaxSubmissions,  \* bound on the submissions of the student
  MaxFiles         \* files of a submission, 10 in the code

ASSUME WorkAssumption ==
  /\ IsFiniteSet(WorkTabs)
  /\ PassMarks \subseteq Nat \ {0}
  /\ MaxSubmissions \in Nat \ {0}
  /\ MaxFiles \in Nat \ {0}

VARIABLES
  studying,   \* the tabs, review pages and marks in use, set by the initial state
  passMark,   \* the pass mark of the quiz before, 0 while no quiz is published
  leastMark,  \* the lowest passMark there has been: only the properties see it
  subs,       \* submission number -> its row, its files and its grade
  workCall,   \* tab -> its request in the catalog
  workTab,    \* tab -> what the page holds
  gradeCall,  \* review page -> its request in the catalog
  review      \* review page -> what it holds

gateVars == <<passMark, leastMark>>
workVars == <<subs, workCall, workTab, gradeCall, review>>

Submissions == 1 .. MaxSubmissions
Grades == {"none", "passed", "failed"}
Submission == [status : {"none", "draft", "submitted", "graded"},
               files : Nat, ready : Nat, grade : Grades]
NoSubmission == [status |-> "none", files |-> 0, ready |-> 0, grade |-> "none"]

(* seen: the pass mark the request has read, once it has.                    *)
WorkCall == [pc : {"none", "load", "draft", "insert", "count", "file", "put",
                   "mark", "check", "submit", "refresh"},
             sub : 0 .. MaxSubmissions, seen : SUBSET (PassMarks \cup {0})]
NoWorkCall == [pc |-> "none", sub |-> 0, seen |-> {}]
GradeCall == [pc : {"none", "load", "read", "insert", "mark",
                    "list"},
              sub : 0 .. MaxSubmissions, grade : Grades]
NoGradeCall == [pc |-> "none", sub |-> 0, grade |-> "none"]

(* standing: how the page's latest submission stands.                        *)
Standings == {"none", "draft", "submitted", "passed", "failed"}
WorkTab == [view : {"away", "loading", "blank", "shown"}, standing : Standings,
            locked : BOOLEAN, chosen : BOOLEAN, modal : BOOLEAN, busy : BOOLEAN]
WorkAway == [view |-> "away", standing |-> "none", locked |-> FALSE,
             chosen |-> FALSE, modal |-> FALSE, busy |-> FALSE]
Review == [view : {"away", "loading", "blank", "shown"},
           awaiting : SUBSET Submissions, grading : 0 .. MaxSubmissions,
           busy : BOOLEAN]
ReviewAway ==
  [view |-> "away", awaiting |-> {}, grading |-> 0, busy |-> FALSE]

WithStatus(status) == {s \in Submissions : subs[s].status = status}
Made == Submissions \ WithStatus("none")
StandingOf(s) ==
  IF subs[s].status = "graded" THEN subs[s].grade ELSE subs[s].status
Standing == IF Made = {} THEN "none" ELSE StandingOf(LastOf(Made))

(* A module is open when the one before gates nothing or its mark is met.    *)
Opens(mark) == mark = 0 \/ MeetsMark(mark)

WorkInit ==
  /\ passMark \in studying.marks /\ leastMark = passMark
  /\ subs = [s \in Submissions |-> NoSubmission]
  /\ workCall = [t \in WorkTabs |-> NoWorkCall]
  /\ workTab = [t \in WorkTabs |-> WorkAway]
  /\ gradeCall = [g \in Graders |-> NoGradeCall]
  /\ review = [g \in Graders |-> ReviewAway]

-----------------------------------------------------------------------------
(* The student's page.                                                       *)

WorkGoto(t, pc) ==
  workCall' = [workCall EXCEPT ![t].pc = pc, ![t].seen = {}]
WorkAt(t, pc) == workCall[t].pc = pc
GradersUnchanged == UNCHANGED <<gradeCall, review>>

WorkOpens(t) ==
  /\ workTab[t].view = "away"
  /\ WorkAt(t, "none")
  /\ workTab' = [workTab EXCEPT ![t].view = "loading"]
  /\ WorkGoto(t, "load")
  /\ UNCHANGED subs /\ GradersUnchanged

WorkLeaves(t) ==
  /\ workTab[t].view # "away"
  /\ workTab' = [workTab EXCEPT ![t] = WorkAway]
  /\ UNCHANGED <<subs, workCall>> /\ GradersUnchanged

CanUpload(tab) ==
  /\ tab.view = "shown"
  /\ ~tab.locked
  /\ tab.standing \notin {"submitted", "passed"}

ChoosesFile(t) ==
  /\ CanUpload(workTab[t])
  /\ ~workTab[t].chosen
  /\ workTab' = [workTab EXCEPT ![t].chosen = TRUE]
  /\ UNCHANGED <<subs, workCall>> /\ GradersUnchanged

OpensSubmit(t) ==
  /\ CanUpload(workTab[t])
  /\ workTab[t].chosen /\ ~workTab[t].busy
  /\ workTab' = [workTab EXCEPT ![t].modal = TRUE]
  /\ UNCHANGED <<subs, workCall>> /\ GradersUnchanged

ClosesSubmit(t) ==
  /\ workTab[t].modal /\ ~workTab[t].busy
  /\ workTab' = [workTab EXCEPT ![t].modal = FALSE]
  /\ UNCHANGED <<subs, workCall>> /\ GradersUnchanged

ConfirmsWork(t) ==
  /\ workTab[t].modal /\ ~workTab[t].busy /\ ~workTab[t].locked
  /\ WorkAt(t, "none")
  /\ workTab' = [workTab EXCEPT ![t].busy = TRUE]
  /\ WorkGoto(t, "draft")
  /\ UNCHANGED subs /\ GradersUnchanged

WorkAnswer(t, tab) ==
  /\ workTab' = [workTab EXCEPT ![t] = IF @.view = "away" THEN @ ELSE tab]
  /\ workCall' = [workCall EXCEPT ![t] = NoWorkCall]
  /\ UNCHANGED subs /\ GradersUnchanged

(* FAULT: any attempt opens the module, whatever the pass mark is.           *)
OpenedByAny(t) ==
  workCall[t].seen # {} /\ (0 \in workCall[t].seen \/ SubmittedNumbers # {})

(* Every handler reads the pass mark first, the scores after it and its own  *)
(* rows last: the module is judged by the mark of an earlier moment.         *)
ReadMark(t) ==
  /\ workCall[t].pc \in {"load", "refresh", "draft", "count", "put", "check"}
  /\ workCall[t].seen = {}
  /\ workCall' = [workCall EXCEPT ![t].seen = {passMark}]
  /\ UNCHANGED <<subs, workTab>> /\ GradersUnchanged

JudgedOpen(t) == \E mark \in workCall[t].seen : Opens(mark)

(* getAssignment, of the first load and at the end of a submit.              *)
ShowsWork(t) ==
  /\ workCall[t].pc \in {"load", "refresh"}
  /\ workCall[t].seen # {}
  /\ WorkAnswer(t, [WorkAway EXCEPT
       !.view = "shown", !.standing = Standing, !.locked = ~JudgedOpen(t)])

WorkFails(t) ==
  /\ ~WorkAt(t, "none")
  /\ WorkAnswer(t, IF WorkAt(t, "load") THEN [WorkAway EXCEPT !.view = "blank"]
                   ELSE [workTab[t] EXCEPT !.busy = FALSE])

-----------------------------------------------------------------------------
(* The handlers runSubmit calls one after the other. A refusal is WorkFails. *)

OpenDraft(t) ==
  /\ WorkAt(t, "draft")
  /\ JudgedOpen(t)
  /\ Standing \in {"none", "draft", "failed"}
  /\ workCall' = [workCall EXCEPT ![t] =
       IF Standing = "draft"
       THEN [NoWorkCall EXCEPT !.pc = "count", !.sub = LastOf(Made)]
       ELSE [@ EXCEPT !.pc = "insert", !.seen = {}]]
  /\ UNCHANGED <<subs, workTab>> /\ GradersUnchanged

(* FAULT: no unique index on the drafts of a student.                        *)
AnyDraft == TRUE

(* Unique index: one draft per student and assignment.                       *)
AdmitsDraft == WithStatus("draft") = {}

InsertDraft(t) ==
  /\ WorkAt(t, "insert")
  /\ AdmitsDraft
  /\ \E s \in Submissions :
       /\ subs[s].status = "none" /\ \A r \in 1 .. (s - 1) : r \in Made
       /\ subs' = [subs EXCEPT ![s].status = "draft"]
       /\ workCall' = [workCall EXCEPT
            ![t] = [NoWorkCall EXCEPT !.pc = "count", !.sub = s]]
  /\ UNCHANGED workTab /\ GradersUnchanged

IsDraft(t) == JudgedOpen(t) /\ subs[workCall[t].sub].status = "draft"

HasRoom(s) == subs[s].files < MaxFiles

CountFiles(t) ==
  /\ WorkAt(t, "count")
  /\ IsDraft(t)
  /\ HasRoom(workCall[t].sub)
  /\ WorkGoto(t, "file")
  /\ UNCHANGED <<subs, workTab>> /\ GradersUnchanged

(* Every upload makes a new file, a repeated one too, and none is removed.   *)
InsertFile(t) ==
  /\ WorkAt(t, "file")
  /\ subs' = [subs EXCEPT ![workCall[t].sub].files = @ + 1]
  /\ WorkGoto(t, "put")
  /\ UNCHANGED workTab /\ GradersUnchanged

(* The browser has put the object; complete finds it in the bucket.          *)
CompleteFile(t) ==
  /\ WorkAt(t, "put")
  /\ IsDraft(t)
  /\ WorkGoto(t, "mark")
  /\ UNCHANGED <<subs, workTab>> /\ GradersUnchanged

MarkReady(t) ==
  /\ WorkAt(t, "mark")
  /\ subs' = [subs EXCEPT ![workCall[t].sub].ready = @ + 1]
  /\ WorkGoto(t, "check")
  /\ UNCHANGED workTab /\ GradersUnchanged

CheckSubmit(t) ==
  /\ WorkAt(t, "check")
  /\ IsDraft(t)
  /\ subs[workCall[t].sub].ready > 0
  /\ WorkGoto(t, "submit")
  /\ UNCHANGED <<subs, workTab>> /\ GradersUnchanged

(* The row is found by its id alone, whatever its status is by now.          *)
SubmitWork(t) ==
  /\ WorkAt(t, "submit")
  /\ subs' = [subs EXCEPT ![workCall[t].sub].status = "submitted"]
  /\ WorkGoto(t, "refresh")
  /\ UNCHANGED workTab /\ GradersUnchanged

-----------------------------------------------------------------------------
(* The review page and the grade handler.                                    *)

StudentUnchanged == UNCHANGED <<workCall, workTab>>

ReviewOpens(g) ==
  /\ review[g].view = "away"
  /\ gradeCall[g].pc = "none"
  /\ review' = [review EXCEPT ![g].view = "loading"]
  /\ gradeCall' = [gradeCall EXCEPT ![g].pc = "load"]
  /\ UNCHANGED subs /\ StudentUnchanged

ReviewLeaves(g) ==
  /\ review[g].view # "away"
  /\ review' = [review EXCEPT ![g] = ReviewAway]
  /\ UNCHANGED <<subs, gradeCall>> /\ StudentUnchanged

ReviewAnswer(g, page) ==
  /\ review' = [review EXCEPT ![g] = IF @.view = "away" THEN @ ELSE page]
  /\ gradeCall' = [gradeCall EXCEPT ![g] = NoGradeCall]
  /\ UNCHANGED subs /\ StudentUnchanged

(* listAssignmentSubmissions, of the first load and after a grade: the form  *)
(* closes, whichever submission it holds by now.                             *)
ShowsSubmissions(g) ==
  /\ gradeCall[g].pc \in {"load", "list"}
  /\ ReviewAnswer(g, [ReviewAway EXCEPT
       !.view = "shown", !.awaiting = WithStatus("submitted")])

ReviewFails(g) ==
  /\ gradeCall[g].pc # "none"
  /\ ReviewAnswer(g, IF gradeCall[g].pc = "load"
                     THEN [ReviewAway EXCEPT !.view = "blank"]
                     ELSE [review[g] EXCEPT !.busy = FALSE])

(* Grade submission, and Cancel: both also while a grade is on its way.      *)
StartsGrade(g) ==
  /\ \E s \in review[g].awaiting \cup {0} :
       /\ s # review[g].grading
       /\ review' = [review EXCEPT ![g].grading = s]
  /\ UNCHANGED <<subs, gradeCall>> /\ StudentUnchanged

HandleGrade(g) ==
  /\ review[g].grading # 0
  /\ ~review[g].busy
  /\ gradeCall[g].pc = "none"
  /\ review' = [review EXCEPT ![g].busy = TRUE]
  /\ \E grade \in {"passed", "failed"} :
       gradeCall' = [gradeCall EXCEPT
         ![g] = [pc |-> "read", sub |-> review[g].grading, grade |-> grade]]
  /\ UNCHANGED subs /\ StudentUnchanged

ReadUngraded(g) ==
  /\ gradeCall[g].pc = "read"
  /\ LET s == gradeCall[g].sub IN
       subs[s].grade = "none" /\ subs[s].status = "submitted"
  /\ gradeCall' = [gradeCall EXCEPT ![g].pc = "insert"]
  /\ UNCHANGED <<subs, review>> /\ StudentUnchanged

(* FAULT: a grade is replaced, not inserted.                                 *)
AnyGrade(s) == TRUE

(* Unique: one grade per submission.                                         *)
AdmitsGrade(s) == subs[s].grade = "none"

InsertGrade(g) ==
  /\ gradeCall[g].pc = "insert"
  /\ AdmitsGrade(gradeCall[g].sub)
  /\ subs' = [subs EXCEPT ![gradeCall[g].sub].grade = gradeCall[g].grade]
  /\ gradeCall' = [gradeCall EXCEPT ![g].pc = "mark"]
  /\ UNCHANGED review /\ StudentUnchanged

MarkGraded(g) ==
  /\ gradeCall[g].pc = "mark"
  /\ subs' = [subs EXCEPT ![gradeCall[g].sub].status = "graded"]
  /\ gradeCall' = [gradeCall EXCEPT ![g].pc = "list"]
  /\ UNCHANGED review /\ StudentUnchanged

WorkPageStep(t) ==
  \/ WorkOpens(t) \/ WorkLeaves(t) \/ ChoosesFile(t) \/ OpensSubmit(t)
  \/ ClosesSubmit(t) \/ ConfirmsWork(t) \/ ShowsWork(t) \/ WorkFails(t)

SubmitChain(t) ==
  \/ ReadMark(t) \/ OpenDraft(t) \/ InsertDraft(t) \/ CountFiles(t) \/ InsertFile(t)
  \/ CompleteFile(t) \/ MarkReady(t) \/ CheckSubmit(t) \/ SubmitWork(t)

ReviewStep(g) ==
  \/ ReviewOpens(g) \/ ReviewLeaves(g) \/ ShowsSubmissions(g) \/ ReviewFails(g)
  \/ StartsGrade(g) \/ HandleGrade(g) \/ ReadUngraded(g) \/ InsertGrade(g)
  \/ MarkGraded(g)

WorkStep(t) == WorkPageStep(t) \/ SubmitChain(t)

-----------------------------------------------------------------------------
(* The teacher's course page.                                                *)

(* Nothing is done about the attempts: the locks are judged anew.            *)
SetsPassMark(mark) ==
  /\ passMark # 0 /\ mark \notin {0, passMark}
  /\ passMark' = mark
  /\ leastMark' = IF mark < leastMark THEN mark ELSE leastMark

PublishesGate(mark) ==
  /\ passMark = 0 /\ mark # 0
  /\ passMark' = mark
  /\ UNCHANGED leastMark

-----------------------------------------------------------------------------
(* The values of the rows, the requests and the pages.                       *)
WorkTypeOK ==
  /\ studying.quiz \subseteq QuizTabs
  /\ studying.work \subseteq WorkTabs
  /\ studying.graders \subseteq Graders
  /\ studying.marks \subseteq PassMarks \cup {0}
  /\ {passMark, leastMark} \subseteq studying.marks
  /\ subs \in [Submissions -> Submission]
  /\ workCall \in [WorkTabs -> WorkCall]
  /\ workTab \in [WorkTabs -> WorkTab]
  /\ gradeCall \in [Graders -> GradeCall]
  /\ review \in [Graders -> Review]

(* Two tabs that both find no draft leave one draft between them.            *)
OneDraft == \A r, s \in WithStatus("draft") : r = s

(* No work is taken from a student who never met a pass mark the quiz before *)
(* has had, although the mark, the scores and the writes are statements apart*)
(* and the teacher changes the mark between them. More does not hold: when   *)
(* the mark is raised between the first two, a score that comes too late for *)
(* it opens a module that was locked at every moment.                        *)
HasBeenOpen == Opens(leastMark)
WorkIsUnlocked == Made # {} => HasBeenOpen

(* A grade is never changed once given, although two people may grade the    *)
(* same submission and a failed grading is tried again.                      *)
GradeStands ==
  [][\A s \in Submissions :
       subs[s].grade # "none" => subs'[s].grade = subs[s].grade]_workVars

(* What overlapping requests of several tabs and reviewers do statement by   *)
(* statement comes to work that is opened, stored, handed in and graded, each*)
(* at once, in that order, and one after the other.                          *)
Graded == {s \in Submissions : subs[s].grade # "none"}

Desk == INSTANCE Gradebook WITH
  Numbers <- Submissions,
  unlocked <- HasBeenOpen,
  opened <- Made,
  stored <- {s \in Made : subs[s].ready > 0},
  handed <- WithStatus("submitted") \cup WithStatus("graded"),
  grades <- [s \in Graded |-> subs[s].grade]

ImplementsGradebook == Desk!DeskSpec

=============================================================================
