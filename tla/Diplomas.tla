------------------------------ MODULE Diplomas ------------------------------
(***************************************************************************)
(* What a certificate promises, with no requests and no statements: it is  *)
(* issued to a student who has earned it, once, and is then revoked or     *)
(* dropped with its course for good; the bundle is issued once, after every*)
(* pathway certificate, and revoked only after one of them has fallen.     *)
(* Module Certificates is shown to implement this.                         *)
(***************************************************************************)
CONSTANTS Courses, Pathway

VARIABLES
  earned,   \* the courses the student has been entitled to, and has passed
  held,     \* course -> the certificate of the student
  bundle    \* the certificate of the whole pathway

diplomaVars == <<earned, held, bundle>>

Init ==
  /\ earned = {}
  /\ held = [c \in Courses |-> "none"]
  /\ bundle = "none"

Earn(c) ==
  /\ earned' = earned \cup {c}
  /\ UNCHANGED <<held, bundle>>

Becomes(c, status) ==
  /\ held' = [held EXCEPT ![c] = status]
  /\ UNCHANGED <<earned, bundle>>

Issue(c) == held[c] = "none" /\ Becomes(c, "valid") /\ c \in earned

Revoke(c) == held[c] = "valid" /\ Becomes(c, "revoked")

Drop(c) == held[c] \in {"valid", "revoked"} /\ Becomes(c, "dropped")

IssueBundle ==
  /\ bundle = "none" /\ bundle' = "valid"
  /\ \A c \in Pathway : held[c] # "none"
  /\ UNCHANGED <<earned, held>>

RevokeBundle ==
  /\ bundle = "valid" /\ bundle' = "revoked"
  /\ \E c \in Pathway : held[c] \in {"revoked", "dropped"}
  /\ UNCHANGED <<earned, held>>

Next ==
  \/ \E c \in Courses \ earned : Earn(c)
  \/ \E c \in Courses : Issue(c) \/ Revoke(c) \/ Drop(c)
  \/ IssueBundle \/ RevokeBundle

Spec == Init /\ [][Next]_diplomaVars

=============================================================================
