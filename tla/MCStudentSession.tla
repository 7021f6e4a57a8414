-------------------------- MODULE MCStudentSession --------------------------
(* Instances of StudentSession for TLC. *)
EXTENDS StudentSession, TLC

SessionSymmetry == Permutations(Devices) \cup Permutations(SessionIds)

=============================================================================
