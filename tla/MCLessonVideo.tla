---------------------------- MODULE MCLessonVideo ----------------------------
(* Instances of LessonVideo for TLC. *)
EXTENDS LessonVideo, TLC

VideoSymmetry ==
  Permutations(Lessons) \cup Permutations(Uploads) \cup Permutations(Checks)
    \cup Permutations(Hooks) \cup Permutations(Deletes)

=============================================================================
