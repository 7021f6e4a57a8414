---------------------------- MODULE Entitlement ----------------------------
(***************************************************************************)
(* What one-time purchasing promises, with no queue, no webhook, no        *)
(* checkout and no table: money is charged for a purchase, a charged       *)
(* purchase may be granted once, a shopper holds at most one grant of a    *)
(* product, and a grant is taken away, for good, only once a refund of the *)
(* purchase was asked for.  Module Billing is shown to implement this.     *)
(***************************************************************************)
CONSTANTS Shoppers, Products, PurchaseIds

VARIABLES
  charged,      \* purchases the gateway took money for
  refunded,     \* purchases the gateway was asked to refund
  grants,       \* standing grants
  revoked       \* purchases whose grant was taken away

entitlementVars == <<charged, refunded, grants, revoked>>

Grant == [purchase : PurchaseIds, owner : Shoppers, product : Products]

Init ==
  /\ charged = {}
  /\ refunded = {}
  /\ grants = {}
  /\ revoked = {}

Charge(p) ==
  /\ charged' = charged \cup {p}
  /\ UNCHANGED <<refunded, grants, revoked>>

AskRefund(p) ==
  /\ p \in charged
  /\ refunded' = refunded \cup {p}
  /\ UNCHANGED <<charged, grants, revoked>>

GrantPurchase(g) ==
  /\ g.purchase \in charged \ revoked
  /\ \A h \in grants :
       /\ h.purchase # g.purchase
       /\ ~(h.owner = g.owner /\ h.product = g.product)
  /\ grants' = grants \cup {g}
  /\ UNCHANGED <<charged, refunded, revoked>>

RevokeGrant(g) ==
  /\ g \in grants
  /\ g.purchase \in refunded
  /\ grants' = grants \ {g}
  /\ revoked' = revoked \cup {g.purchase}
  /\ UNCHANGED <<charged, refunded>>

Next ==
  \/ \E p \in PurchaseIds : Charge(p) \/ AskRefund(p)
  \/ \E g \in Grant : GrantPurchase(g) \/ RevokeGrant(g)

Spec == Init /\ [][Next]_entitlementVars

=============================================================================
