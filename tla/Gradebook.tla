------------------------------ MODULE Gradebook ------------------------------
(***************************************************************************)
(* What an assignment promises a student and those who grade, with no tabs,*)
(* no requests and no files but those in store: behind the quiz, work is   *)
(* opened one after the other, each only when all before it is handed in;  *)
(* what is handed in has a file in store and is out of the student's hands,*)
(* and only that is graded, once, for good.                                *)
(* Module Coursework is shown to implement this.                           *)
(***************************************************************************)
EXTENDS Naturals

CONSTANT Numbers   \* the numbers of submissions, from 1 on

VARIABLES
  unlocked,   \* the student has met a pass mark the quiz before has had
  opened,     \* the submissions there are
  stored,     \* those with a file in store
  handed,     \* those handed in
  grades      \* submission -> its grade, once it has one

deskVars == <<unlocked, opened, stored, handed, grades>>

DeskInit ==
  /\ unlocked \in BOOLEAN
  /\ opened = {} /\ stored = {} /\ handed = {}
  /\ grades = [n \in {} |-> "none"]

Unlock ==
  /\ ~unlocked /\ unlocked'
  /\ UNCHANGED <<opened, stored, handed, grades>>

Open(n) ==
  /\ unlocked
  /\ opened = 1 .. (n - 1) /\ handed = opened
  /\ opened' = opened \cup {n}
  /\ UNCHANGED <<unlocked, stored, handed, grades>>

Store(n) ==
  /\ stored' = stored \cup {n}
  /\ UNCHANGED <<unlocked, opened, handed, grades>>

HandIn(n) ==
  /\ handed' = handed \cup {n}
  /\ UNCHANGED <<unlocked, opened, stored, grades>>

Grade(n, grade) ==
  /\ grades' = [k \in DOMAIN grades \cup {n} |-> IF k = n THEN grade ELSE grades[k]]
  /\ UNCHANGED <<unlocked, opened, stored, handed>>

DeskNext ==
  \/ Unlock
  \/ \E n \in Numbers : Open(n)
  \/ \E n \in opened \ stored : Store(n)
  \/ \E n \in stored \ handed : HandIn(n)
  \/ \E n \in handed \ DOMAIN grades, grade \in {"passed", "failed"} : Grade(n, grade)

DeskSpec == DeskInit /\ [][DeskNext]_deskVars

=============================================================================
