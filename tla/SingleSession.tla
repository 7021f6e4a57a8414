---------------------------- MODULE SingleSession ----------------------------
(***************************************************************************)
(* What a single student session means, with no tokens and no triggers:    *)
(* before the first sign-in of the roll-out every device may be admitted;  *)
(* from then on a sign-in first shuts everybody out and leaves one heir at *)
(* most, and only the heir is ever admitted.                               *)
(* Module StudentSession is shown to implement this.                       *)
(***************************************************************************)
CONSTANT Devices

VARIABLES
  enforced,     \* someone has signed in
  heirs,        \* devices that may be admitted
  admitted      \* devices the catalog serves

sessionVars == <<enforced, heirs, admitted>>

Init ==
  /\ enforced = FALSE
  /\ heirs = Devices
  /\ admitted \in SUBSET Devices

TakeOver(newHeirs) ==
  /\ enforced' = TRUE
  /\ heirs' = newHeirs
  /\ admitted' = {}

Admit(d) ==
  /\ d \in heirs
  /\ admitted' = admitted \cup {d}
  /\ UNCHANGED <<enforced, heirs>>

Leave(d) ==
  /\ admitted' = admitted \ {d}
  /\ UNCHANGED <<enforced, heirs>>

\* A device that is not coming back.
Renounce(d) ==
  /\ enforced
  /\ heirs' = heirs \ {d}
  /\ admitted' = admitted \ {d}
  /\ UNCHANGED enforced

Next ==
  \/ TakeOver({})
  \/ \E d \in Devices : TakeOver({d}) \/ Admit(d) \/ Leave(d) \/ Renounce(d)

Spec == Init /\ [][Next]_sessionVars

=============================================================================
