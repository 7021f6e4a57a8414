----------------------------- MODULE ModuleQuiz -----------------------------
(* One student's attempts at one module quiz: the page open in several tabs, *)
(* and behind it the start and submit handlers of the catalog, statement by  *)
(* statement.                                                                *)
EXTENDS Naturals, FiniteSets

CONSTANTS
  QuizTabs,     \* tabs that may show the quiz
  Questions,    \* the published questions of the bank
  ServedN,      \* how many of them an attempt serves
  Scores,       \* what an attempt may score, in percent
  MaxAttempts   \* bound on the attempts of the student

ASSUME QuizAssumption ==
  /\ ServedN \in Nat \ {0}
  /\ IsFiniteSet(Questions)
  /\ Scores \subseteq Nat
  /\ MaxAttempts \in Nat \ {0}

VARIABLES
  binding,      \* the questions bound to the student, {} while there is no binding
  attempts,     \* attempt number -> its row and, once submitted, its outcome
  quizCall,     \* tab -> its request in the catalog
  quizTab       \* tab -> what the page holds

quizVars == <<binding, attempts, quizCall, quizTab>>

Numbers == 1 .. MaxAttempts

Draws == {d \in SUBSET Questions : Cardinality(d) = ServedN}

Attempt == [status : {"none", "in_progress", "submitted"},
            questions : SUBSET Questions, score : Scores \cup {0}]
NoAttempt == [status |-> "none", questions |-> {}, score |-> 0]
Opened(questions) ==
  [status |-> "in_progress", questions |-> questions, score |-> 0]

(* The statement the request is about to run, what it has read so far, and   *)
(* where a lost race on the attempt number leads.                            *)
QuizPhase ==
  {"none", "binding", "create", "open", "latest", "submission", "redraw",
   "insert", "reopen", "reload", "serve", "attempt", "compare", "grade",
   "results"}
QuizCall == [pc : QuizPhase, retake : BOOLEAN, bound : SUBSET Questions,
             number : 0 .. MaxAttempts + 1, lost : {"reload", "serve"}]
NoQuizCall ==
  [pc |-> "none", retake |-> FALSE, bound |-> {}, number |-> 0, lost |-> "serve"]

(* view: what the page shows. number, shown: the attempt and the questions of *)
(* it. dialog: the questions, the review screen or the modal over it.        *)
QuizTab == [view : {"away", "loading", "blank", "taking", "results"},
            number : 0 .. MaxAttempts, shown : SUBSET Questions, answered : BOOLEAN,
            dialog : {"questions", "review", "modal"},
            busy : {"no", "retake", "submit"}, score : Scores \cup {0}]
AwayTab == [view |-> "away", number |-> 0, shown |-> {}, answered |-> FALSE,
            dialog |-> "questions", busy |-> "no", score |-> 0]

OpenNumbers == {n \in Numbers : attempts[n].status = "in_progress"}
Taken == {n \in Numbers : attempts[n].status # "none"}
SubmittedNumbers == {n \in Numbers : attempts[n].status = "submitted"}
LastOf(numbers) == CHOOSE n \in numbers : \A m \in numbers : m <= n

(* Any attempt counts, against the mark that is asked about: what passed may *)
(* not pass once the teacher has raised the mark.                            *)
MeetsMark(mark) == \E n \in SubmittedNumbers : attempts[n].score >= mark

(* A legacy binding may have no attempt: attempts came with a later          *)
(* migration.                                                                *)
QuizInit ==
  /\ binding \in Draws \cup {{}}
  /\ attempts = [n \in Numbers |-> NoAttempt]
  /\ quizCall = [t \in QuizTabs |-> NoQuizCall]
  /\ quizTab = [t \in QuizTabs |-> AwayTab]

-----------------------------------------------------------------------------
(* The page.                                                                 *)

QuizOpens(t) ==
  /\ quizTab[t].view = "away"
  /\ quizCall[t].pc = "none"
  /\ quizTab' = [quizTab EXCEPT ![t].view = "loading"]
  /\ quizCall' = [quizCall EXCEPT ![t] = [NoQuizCall EXCEPT !.pc = "binding"]]
  /\ UNCHANGED <<binding, attempts>>

(* Unmounting: an answer that comes later finds mountedRef or cancelled set. *)
QuizLeaves(t) ==
  /\ quizTab[t].view # "away"
  /\ quizTab' = [quizTab EXCEPT ![t] = AwayTab]
  /\ UNCHANGED <<binding, attempts, quizCall>>

AnswersAll(t) ==
  /\ quizTab[t].view = "taking"
  /\ quizTab[t].dialog = "questions"
  /\ ~quizTab[t].answered
  /\ quizTab' = [quizTab EXCEPT ![t].answered = TRUE]
  /\ UNCHANGED <<binding, attempts, quizCall>>

(* The button in the sidebar is always offered, the one below the question   *)
(* only when all is answered: the first makes the second's condition moot.   *)
OpensReview(t) ==
  /\ quizTab[t].view = "taking"
  /\ quizTab[t].dialog = "questions"
  /\ quizTab' = [quizTab EXCEPT ![t].dialog = "review"]
  /\ UNCHANGED <<binding, attempts, quizCall>>

MayOpenModal(t) ==
  /\ quizTab[t].view = "taking"
  /\ quizTab[t].dialog = "review"
  /\ quizTab[t].answered
  /\ quizTab[t].busy # "submit"

(* The review screen: back to the questions, or on to the modal.             *)
LeavesReview(t) ==
  /\ quizTab[t].view = "taking"
  /\ \/ quizTab[t].dialog = "review"
        /\ quizTab' = [quizTab EXCEPT ![t].dialog = "questions"]
     \/ MayOpenModal(t)
        /\ quizTab' = [quizTab EXCEPT ![t].dialog = "modal"]
  /\ UNCHANGED <<binding, attempts, quizCall>>

DismissesModal(t) ==
  /\ quizTab[t].dialog = "modal"
  /\ quizTab' = [quizTab EXCEPT ![t].dialog = "review"]
  /\ UNCHANGED <<binding, attempts, quizCall>>

ConfirmsSubmit(t) ==
  /\ quizTab[t].dialog = "modal"
  /\ quizTab[t].answered
  /\ quizCall[t].pc = "none"
  /\ quizTab' = [quizTab EXCEPT ![t].busy = "submit", ![t].dialog = "review"]
  /\ quizCall' = [quizCall EXCEPT
       ![t] = [NoQuizCall EXCEPT !.pc = "attempt", !.number = quizTab[t].number]]
  /\ UNCHANGED <<binding, attempts>>

MayTryAgain(t) == quizTab[t].view = "results" /\ quizTab[t].busy # "retake"

TriesAgain(t) ==
  /\ MayTryAgain(t)
  /\ quizCall[t].pc = "none"
  /\ quizTab' = [quizTab EXCEPT ![t].busy = "retake"]
  /\ quizCall' = [quizCall EXCEPT
       ![t] = [NoQuizCall EXCEPT !.pc = "binding", !.retake = TRUE]]
  /\ UNCHANGED <<binding, attempts>>

(* applyStartResponse, hydrateFromStart and the result of a submit. A page   *)
(* that has been left takes nothing.                                         *)
Taking(n, questions) ==
  [AwayTab EXCEPT !.view = "taking", !.number = n, !.shown = questions]
Results(n) ==
  [AwayTab EXCEPT !.view = "results", !.number = n, !.score = attempts[n].score]
Refused(tab) ==
  IF tab.view = "loading" THEN [AwayTab EXCEPT !.view = "blank"]
  ELSE [tab EXCEPT !.busy = "no"]

Answer(t, tab) ==
  /\ quizTab' = [quizTab EXCEPT ![t] = IF @.view = "away" THEN @ ELSE tab]
  /\ quizCall' = [quizCall EXCEPT ![t] = NoQuizCall]
  /\ UNCHANGED <<binding, attempts>>

QuizFails(t) ==
  /\ quizCall[t].pc # "none"
  /\ Answer(t, Refused(quizTab[t]))

-----------------------------------------------------------------------------
(* The start and retake handler. Between two statements other requests run.  *)

QuizGoto(t, pc) == quizCall' = [quizCall EXCEPT ![t].pc = pc]
QuizAt(t, pc) == quizCall[t].pc = pc
Rows == <<binding, attempts>>

ReadBinding(t) ==
  /\ QuizAt(t, "binding")
  /\ quizCall' = [quizCall EXCEPT
       ![t].pc = IF binding = {} THEN "create" ELSE "open", ![t].bound = binding]
  /\ UNCHANGED <<Rows, quizTab>>

(* One transaction: the binding, its questions and attempt 1. When another   *)
(* request created the binding first, that one is read.                      *)
CreateBinding(t) ==
  /\ QuizAt(t, "create")
  /\ QuizGoto(t, "binding")
  /\ IF binding = {}
     THEN \E drawn \in Draws :
            /\ binding' = drawn
            /\ attempts' = [attempts EXCEPT ![1] = Opened(drawn)]
     ELSE UNCHANGED Rows
  /\ UNCHANGED quizTab

ReadOpen(t) ==
  /\ QuizAt(t, "open")
  /\ IF OpenNumbers = {} THEN QuizGoto(t, "latest")
     ELSE quizCall' = [quizCall EXCEPT
            ![t].pc = "serve", ![t].number = LastOf(OpenNumbers)]
  /\ UNCHANGED <<Rows, quizTab>>

ReadLatest(t) ==
  /\ QuizAt(t, "latest")
  /\ quizCall' = [quizCall EXCEPT ![t] =
       IF Taken = {} THEN [@ EXCEPT !.pc = "insert", !.number = 1]
       ELSE LET latest == LastOf(Taken) IN
            IF latest \in OpenNumbers
              THEN [@ EXCEPT !.pc = "serve", !.number = latest]
            ELSE IF quizCall[t].retake
              THEN [@ EXCEPT !.pc = "redraw", !.number = latest + 1]
            ELSE [@ EXCEPT !.pc = "submission"]]
  /\ UNCHANGED <<Rows, quizTab>>

ReadSubmission(t) ==
  /\ QuizAt(t, "submission")
  /\ SubmittedNumbers # {}
  /\ quizCall' = [quizCall EXCEPT
       ![t].pc = "results", ![t].number = LastOf(SubmittedNumbers)]
  /\ UNCHANGED <<Rows, quizTab>>

(* The two unique indexes: an attempt's number, and one open attempt.        *)
AdmitsAttempt(n) == attempts[n].status = "none" /\ OpenNumbers = {}

Lost(t, next) ==
  /\ quizCall' = [quizCall EXCEPT ![t].pc = "reopen", ![t].lost = next]
  /\ UNCHANGED attempts

(* FAULT: the redraw stays when the insert of the attempt fails.             *)
RedrawUnlessRolledBack(t) ==
  /\ QuizAt(t, "redraw")
  /\ quizCall[t].number \in Numbers
  /\ \E drawn \in Draws :
       /\ binding' = drawn
       /\ IF AdmitsAttempt(quizCall[t].number)
          THEN /\ attempts' = [attempts EXCEPT ![quizCall[t].number] = Opened(drawn)]
               /\ QuizGoto(t, "reload")
          ELSE Lost(t, "reload")
  /\ UNCHANGED quizTab

(* One transaction: the binding's questions are replaced and the attempt is  *)
(* inserted, or neither. The first conjunct after the phase is the bound.    *)
Redraw(t) ==
  /\ QuizAt(t, "redraw")
  /\ quizCall[t].number \in Numbers
  /\ IF AdmitsAttempt(quizCall[t].number)
     THEN \E drawn \in Draws :
            /\ binding' = drawn
            /\ attempts' = [attempts EXCEPT ![quizCall[t].number] = Opened(drawn)]
            /\ QuizGoto(t, "reload")
     ELSE Lost(t, "reload") /\ UNCHANGED binding
  /\ UNCHANGED quizTab

InsertAttempt(t) ==
  /\ QuizAt(t, "insert")
  /\ IF AdmitsAttempt(quizCall[t].number)
     THEN /\ attempts' = [attempts EXCEPT
               ![quizCall[t].number] = Opened(quizCall[t].bound)]
          /\ QuizGoto(t, "serve")
     ELSE Lost(t, "serve")
  /\ UNCHANGED <<binding, quizTab>>

(* With no open attempt left the conflict goes to the student.               *)
Reopen(t) ==
  /\ QuizAt(t, "reopen")
  /\ OpenNumbers # {}
  /\ quizCall' = [quizCall EXCEPT
       ![t].pc = quizCall[t].lost, ![t].number = LastOf(OpenNumbers)]
  /\ UNCHANGED <<Rows, quizTab>>

Reload(t) ==
  /\ QuizAt(t, "reload")
  /\ quizCall' = [quizCall EXCEPT ![t].pc = "serve", ![t].bound = binding]
  /\ UNCHANGED <<Rows, quizTab>>

(* FAULT: serves the questions of the binding that was read.                 *)
ServeBinding(t) ==
  /\ QuizAt(t, "serve")
  /\ Answer(t, Taking(quizCall[t].number, quizCall[t].bound))

Serve(t) ==
  /\ QuizAt(t, "serve")
  /\ LET attempt == attempts[quizCall[t].number] IN
     IF attempt.questions = quizCall[t].bound
     THEN Answer(t, Taking(quizCall[t].number, attempt.questions))
     ELSE Answer(t, Refused(quizTab[t]))

-----------------------------------------------------------------------------
(* The submit handler.                                                       *)

ReadAttempt(t) ==
  /\ QuizAt(t, "attempt")
  /\ attempts[quizCall[t].number].status = "in_progress"
  /\ QuizGoto(t, "compare")
  /\ UNCHANGED <<Rows, quizTab>>

CompareBinding(t) ==
  /\ QuizAt(t, "compare")
  /\ binding = attempts[quizCall[t].number].questions
  /\ QuizGoto(t, "grade")
  /\ UNCHANGED <<Rows, quizTab>>

(* FAULT: the submission row is replaced, not inserted.                      *)
IsUnsubmitted(n) == TRUE

(* The submission's primary key is the attempt.                              *)
NotSubmitted(n) == attempts[n].status # "submitted"

(* What the answers are worth is the grading module's business: any score.   *)
Grade(t) ==
  /\ QuizAt(t, "grade")
  /\ NotSubmitted(quizCall[t].number)
  /\ \E score \in Scores :
       attempts' = [attempts EXCEPT
         ![quizCall[t].number].status = "submitted",
         ![quizCall[t].number].score = score]
  /\ QuizGoto(t, "results")
  /\ UNCHANGED <<binding, quizTab>>

DeliverResults(t) ==
  /\ QuizAt(t, "results")
  /\ Answer(t, Results(quizCall[t].number))

QuizPageStep(t) ==
  \/ QuizOpens(t) \/ QuizLeaves(t) \/ AnswersAll(t) \/ OpensReview(t)
  \/ LeavesReview(t) \/ DismissesModal(t) \/ ConfirmsSubmit(t) \/ TriesAgain(t)

StartStep(t) ==
  \/ ReadBinding(t) \/ CreateBinding(t) \/ ReadOpen(t) \/ ReadLatest(t)
  \/ ReadSubmission(t) \/ Redraw(t) \/ InsertAttempt(t) \/ Reopen(t)
  \/ Reload(t) \/ Serve(t)

SubmitStep(t) ==
  ReadAttempt(t) \/ CompareBinding(t) \/ Grade(t) \/ DeliverResults(t)

QuizStep(t) == QuizPageStep(t) \/ StartStep(t) \/ SubmitStep(t) \/ QuizFails(t)

-----------------------------------------------------------------------------
(* The rows are what their columns allow, and every attempt serves exactly   *)
(* ServedN questions.                                                        *)
QuizTypeOK ==
  /\ binding \in SUBSET Questions
  /\ attempts \in [Numbers -> Attempt]
  /\ quizCall \in [QuizTabs -> QuizCall]
  /\ quizTab \in [QuizTabs -> QuizTab]
  /\ \A n \in Taken : Cardinality(attempts[n].questions) = ServedN

(* A student has at most one attempt open, it is the last one, and it asks   *)
(* what the binding holds: the attempt that submit compares with the binding *)
(* can always be submitted (service.py:153).                                 *)
OpenAttemptIsBound == \A n \in OpenNumbers :
  attempts[n].questions = binding /\ \A m \in Taken : m <= n

(* What a tab shows is what submitting from it grades, whichever other tab   *)
(* retook the quiz meanwhile, and the score it shows is the one recorded.    *)
GradedAsShown == \A t \in QuizTabs : LET tab == quizTab[t] IN
  /\ tab.view = "taking" => tab.shown = attempts[tab.number].questions
  /\ tab.view = "results" => /\ attempts[tab.number].status = "submitted"
                             /\ tab.score = attempts[tab.number].score

(* A submitted attempt is never graded again nor replaced, although two tabs *)
(* may submit it or retake from it at once.                                  *)
SubmittedStands == [][\A n \in SubmittedNumbers : attempts'[n] = attempts[n]]_quizVars

(* The statements of overlapping starts, retakes and submissions come to     *)
(* attempts that are sat and marked one after the other, each at once.       *)
Book == INSTANCE AttemptBook WITH
  Papers <- Draws,
  papers <- [n \in Taken |-> attempts[n].questions],
  marks <- [n \in SubmittedNumbers |-> attempts[n].score]

ImplementsAttemptBook == Book!BookSpec

=============================================================================
