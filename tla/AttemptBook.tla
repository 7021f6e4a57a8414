---------------------------- MODULE AttemptBook ----------------------------
(***************************************************************************)
(* What a module quiz promises a student, with no tabs, no requests and no *)
(* binding: papers of questions are sat one after the other, a new one     *)
(* only when the one before is marked, and each is marked once, for good.  *)
(* Module ModuleQuiz is shown to implement this.                           *)
(***************************************************************************)
EXTENDS Naturals

CONSTANTS
  Numbers,  \* the numbers of attempts, from 1 on
  Papers,   \* what an attempt may ask
  Scores    \* what it may score

VARIABLES
  papers,   \* attempt number -> the questions of the attempt
  marks     \* attempt number -> its score, once it is marked

bookVars == <<papers, marks>>

BookInit ==
  /\ papers = [n \in {} |-> {}]
  /\ marks = [n \in {} |-> 0]

With(f, n, value) == [k \in DOMAIN f \cup {n} |-> IF k = n THEN value ELSE f[k]]

Sit(n, paper) ==
  /\ DOMAIN papers = 1 .. (n - 1)
  /\ DOMAIN marks = DOMAIN papers
  /\ papers' = With(papers, n, paper)
  /\ UNCHANGED marks

Mark(n, score) ==
  /\ n \in DOMAIN papers \ DOMAIN marks
  /\ marks' = With(marks, n, score)
  /\ UNCHANGED papers

BookNext ==
  \/ \E n \in Numbers, paper \in Papers : Sit(n, paper)
  \/ \E n \in DOMAIN papers, score \in Scores : Mark(n, score)

BookSpec == BookInit /\ [][BookNext]_bookVars

=============================================================================
