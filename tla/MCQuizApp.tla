------------------------------ MODULE MCQuizApp ------------------------------
(* Instances of QuizApp for TLC.                                             *)
EXTENDS QuizApp, TLC

NoUse == [quiz |-> {}, work |-> {}, graders |-> {}, marks |-> {0}]
EveryUse == {[NoUse EXCEPT !.quiz = QuizTabs, !.marks = {2}],
             [NoUse EXCEPT !.work = WorkTabs],
             [NoUse EXCEPT !.work = {1}, !.graders = Graders],
             [NoUse EXCEPT !.work = {1}, !.marks = {0} \cup PassMarks],
             [NoUse EXCEPT !.quiz = {1}, !.work = {1}, !.marks = PassMarks]}
QuizSymmetry == Permutations(Banks)

=============================================================================
