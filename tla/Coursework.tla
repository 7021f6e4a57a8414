----------------------------- MODULE Coursework -----------------------------
(* A module quiz, the assignment of the module behind it, the review of its  *)
(* submissions and the pass mark of the quiz, used together: the assignment  *)
(* is open to those who meet the mark.                                       *)
EXTENDS Assignments

CONSTANT
  Uses   \* the sets of tabs, review pages and pass marks that are looked at

ASSUME UsesAssumption ==
  /\ Uses \subseteq [quiz : SUBSET QuizTabs, work : SUBSET WorkTabs,
                     graders : SUBSET Graders, marks : SUBSET (PassMarks \cup {0})]
  /\ \A use \in Uses : use.quiz # {} => 0 \notin use.marks

courseworkVars == <<quizVars, studying, gateVars, workVars>>

CourseworkInit == studying \in Uses /\ QuizInit /\ WorkInit

CourseworkNext ==
  \/ /\ \/ \E t \in studying.work : WorkStep(t)
        \/ \E g \in studying.graders : ReviewStep(g)
     /\ UNCHANGED <<quizVars, studying, gateVars>>
  \/ /\ \E t \in studying.quiz : QuizStep(t)
     /\ UNCHANGED <<workVars, studying, gateVars>>
  \/ /\ \E mark \in studying.marks : SetsPassMark(mark) \/ PublishesGate(mark)
     /\ UNCHANGED <<quizVars, studying, workVars>>

CourseworkSpec == CourseworkInit /\ [][CourseworkNext]_courseworkVars

(* The types of both parts.                                                  *)
CourseworkTypeOK == QuizTypeOK /\ WorkTypeOK
=============================================================================
