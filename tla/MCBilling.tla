----------------------------- MODULE MCBilling -----------------------------
(* Instances of Billing for TLC. *)
EXTENDS Billing, TLC

PurchaseSymmetry == Permutations(PurchaseIds)
SafetySymmetry ==
  Permutations(PurchaseIds) \cup Permutations(MessageIds)
    \cup Permutations(PaymentIds) \cup Permutations(Requests)

=============================================================================
