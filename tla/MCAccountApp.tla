---------------------------- MODULE MCAccountApp ----------------------------
(* An instance of AccountApp for TLC. The courses and the requests of the    *)
(* certificates are interchangeable; the sessions name none of them.         *)
EXTENDS AccountApp, TLC

CertificateSymmetry == Permutations(Courses) \cup Permutations(Requests)

=============================================================================
