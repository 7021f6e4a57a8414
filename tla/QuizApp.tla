------------------------------- MODULE QuizApp -------------------------------
(* Quizzes and assignments from both sides: the teacher's question banks with*)
(* the course page that links them, and the quiz and the assignment of a     *)
(* module with their review. Each area has its own routes and its own rows;  *)
(* a tab is in one of them.                                                  *)
EXTENDS Coursework, QuestionStudio

VARIABLE quizArea   \* the area the tab is in

quizAppVars == <<quizArea, courseworkVars, studioVars>>

QuizAppInit ==
  /\ quizArea \in {"coursework", "banks"}
  /\ CourseworkInit /\ StudioInit
  /\ quizArea # "coursework" => studying = CHOOSE use \in Uses : TRUE
  /\ quizArea # "coursework" => passMark = CHOOSE mark \in studying.marks : TRUE
  /\ quizArea # "coursework" \/ studying.quiz = {} => binding = {}

QuizAppNext ==
  \/ /\ quizArea = "coursework" /\ CourseworkNext
     /\ UNCHANGED <<quizArea, studioVars>>
  \/ /\ quizArea = "banks" /\ StudioNext
     /\ UNCHANGED <<quizArea, courseworkVars>>

QuizAppSpec == QuizAppInit /\ [][QuizAppNext]_quizAppVars

=============================================================================
