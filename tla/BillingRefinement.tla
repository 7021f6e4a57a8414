------------------------- MODULE BillingRefinement -------------------------
(***************************************************************************)
(* Module Billing implements module Entitlement under the refinement       *)
(* mapping of Billing!Ent, for every value of the constants.               *)
(***************************************************************************)
EXTENDS BillingProofs

Inv ==
  /\ BillingTypeOK
  /\ LocksHold
  /\ EventsAreTrue

Grants == {GrantOf(p) : p \in InStatus("paid")}

entVars == <<ChargedPurchases, RefundedPurchases, Grants, InStatus("revoked")>>

\* No charge, no grant and no refund at first.
LEMMA InitMaps == Init => Ent!Init
BY DEF Init, TableInit, NeverIssued, Ent!Init, ChargedPurchases, RefundedPurchases,
       InStatus, Charged, IsDebit, IsRefund, NoPayment

\* A table whose paid and revoked rows stand still changes no grant.
LEMMA GrantsStand ==
  ASSUME \A p \in PurchaseIds, status \in {"paid", "revoked"} :
           /\ purchases'[p].status = status <=> purchases[p].status = status
           /\ purchases[p].status = status => purchases'[p] = purchases[p]
  PROVE  Grants' = Grants /\ InStatus("revoked")' = InStatus("revoked")
<1>1. InStatus("paid")' = InStatus("paid") /\ InStatus("revoked")' = InStatus("revoked")
  BY DEF InStatus
<1>2. \A p \in InStatus("paid") : GrantOf(p)' = GrantOf(p)
  BY DEF InStatus, GrantOf
<1>. QED
  BY <1>1, <1>2 DEF Grants

\* Charges and refunds depend on nothing but HyperPay's payments.
LEMMA ChargesUnchanged ==
  ASSUME payments' = payments
  PROVE  ChargedPurchases' = ChargedPurchases /\ RefundedPurchases' = RefundedPurchases
BY DEF ChargedPurchases, RefundedPurchases, Charged, IsDebit, IsRefund

\* A checkout step is a stutter.
LEMMA CheckoutMaps ==
  ASSUME Inv, CheckoutNext, payments' = payments
  PROVE  UNCHANGED entVars
BY CheckoutPaid, GrantsStand, ChargesUnchanged DEF entVars, Inv

\* A step of HyperPay charges one purchase, asks for the refund of one that was
\* charged, or is a stutter.
LEMMA GatewayMaps ==
  ASSUME Inv, GatewayStep
  PROVE  [Ent!Next]_entVars
<1>. USE DEF Inv, BillingTypeOK
<1>1. Grants' = Grants /\ InStatus("revoked")' = InStatus("revoked")
  BY GrantsStand DEF GatewayStep
<1>2. ASSUME NEW p \in PurchaseIds, NEW x \in PaymentIds, NEW result \in Results,
             Pay(p, x, result)
      PROVE  [Ent!Next]_entVars
  <2>1. /\ payments[x] = NoPayment
        /\ payments'[x] = [type |-> "DB", purchase |-> p, amount |-> sessions[p],
                           result |-> result]
        /\ \A y \in PaymentIds : y # x => payments'[y] = payments[y]
    BY <1>2 DEF Pay
  <2>2. \A n \in PurchaseIds : IsRefund(x, n)' <=> IsRefund(x, n)
    BY <2>1 DEF IsRefund, NoPayment
  <2>3. RefundedPurchases' = RefundedPurchases
    BY <2>1, <2>2 DEF RefundedPurchases, IsRefund
  <2>4. \A n \in PurchaseIds : ~Charged(x, n) /\ (Charged(x, n)' <=> n = p /\ result = "success")
    BY <2>1 DEF Charged, IsDebit, NoPayment
  <2>5. ChargedPurchases' = IF result = "success" THEN ChargedPurchases \cup {p}
                            ELSE ChargedPurchases
    BY <2>1, <2>4 DEF ChargedPurchases, Charged, IsDebit
  <2>. QED
    BY <1>1, <2>3, <2>5 DEF entVars, Grants, Ent!Next, Ent!Charge
<1>3. ASSUME NEW x \in PaymentIds, NEW result \in Results, Settle(x, result)
      PROVE  [Ent!Next]_entVars
  <2>. DEFINE p == payments[x].purchase
  <2>1. /\ payments[x] \in Payment /\ payments[x].result = "pending"
        /\ payments'[x] = [payments[x] EXCEPT !.result = result]
        /\ \A y \in PaymentIds : y # x => payments'[y] = payments[y]
    BY <1>3 DEF Settle
  <2>2. /\ p \in PurchaseIds
        /\ payments'[x].type = payments[x].type
        /\ payments'[x].purchase = p
        /\ payments'[x].result = result
        /\ payments[x] # NoPayment /\ payments'[x] # NoPayment
    BY <2>1 DEF Payment, NoPayment
  <2>3. RefundedPurchases' = RefundedPurchases
    <3>1. \A z \in PaymentIds, n \in PurchaseIds : IsRefund(z, n)' <=> IsRefund(z, n)
      BY <2>1, <2>2 DEF IsRefund
    <3>. QED
      BY <3>1 DEF RefundedPurchases
  <2>4. \A z \in PaymentIds, n \in PurchaseIds :
          Charged(z, n)' <=>
            \/ Charged(z, n)
            \/ z = x /\ n = p /\ payments[x].type = "DB" /\ result = "success"
    BY <2>1, <2>2 DEF Charged, IsDebit
  <2>5. ChargedPurchases' = IF payments[x].type = "DB" /\ result = "success"
                            THEN ChargedPurchases \cup {p} ELSE ChargedPurchases
    BY <2>2, <2>4 DEF ChargedPurchases
  <2>. QED
    BY <1>1, <2>2, <2>3, <2>5 DEF entVars, Grants, Ent!Next, Ent!Charge
<1>4. ASSUME NEW x \in PaymentIds, NEW y \in PaymentIds, NEW result \in Results,
             Refund(x, y, result)
      PROVE  [Ent!Next]_entVars
  <2>. DEFINE p == payments[x].purchase
  <2>1. /\ payments[x] \in Payment /\ Charged(x, p)
        /\ payments[y] = NoPayment
        /\ payments'[y] = [payments[x] EXCEPT !.type = "RF", !.result = result]
        /\ \A z \in PaymentIds : z # y => payments'[z] = payments[z]
    BY <1>4 DEF Refund
  <2>2. /\ p \in PurchaseIds /\ p \in ChargedPurchases
        /\ payments'[y].type = "RF" /\ payments'[y].purchase = p
        /\ payments'[y] # NoPayment
    BY <2>1 DEF Payment, NoPayment, ChargedPurchases
  <2>3. \A z \in PaymentIds, n \in PurchaseIds :
          /\ Charged(z, n)' <=> Charged(z, n)
          /\ IsRefund(z, n)' <=> IsRefund(z, n) \/ (z = y /\ n = p)
    BY <2>1, <2>2 DEF Charged, IsDebit, IsRefund
  <2>4. ChargedPurchases' = ChargedPurchases
    BY <2>3 DEF ChargedPurchases
  <2>5. RefundedPurchases' = RefundedPurchases \cup {p}
    BY <2>2, <2>3 DEF RefundedPurchases
  <2>. QED
    BY <1>1, <2>2, <2>4, <2>5 DEF entVars, Grants, Ent!Next, Ent!AskRefund
<1>. QED
  BY <1>2, <1>3, <1>4 DEF GatewayStep

\* A transaction of the worker grants a charged purchase, takes a refunded one
\* away, or is a stutter.
LEMMA FulfillmentMaps ==
  ASSUME Inv, FulfillmentNext, payments' = payments
  PROVE  [Ent!Next]_entVars
<1>. USE DEF Inv
<1>1. ChargedPurchases' = ChargedPurchases /\ RefundedPurchases' = RefundedPurchases
  BY ChargesUnchanged
<1>2. CASE purchases' = purchases
  BY <1>1, <1>2, GrantsStand DEF entVars
<1>3. ASSUME NEW m \in MessageIds, queue[m] \in Message,
             Updates(queue[m].event.purchase, queue[m].event)
      PROVE  [Ent!Next]_entVars
  <2>. DEFINE e == queue[m].event
              p == e.purchase
              x == e.eid[1]
              g == GrantOf(p)
  <2>1. e \in DomainEvent /\ p \in PurchaseIds /\ x \in PaymentIds
    BY <1>3 DEF Message, DomainEvent, EventIds
  <2>2. queue[m] # NoMessage
    BY <1>3 DEF Message, NoMessage
  <2>3. /\ \A n \in PurchaseIds : n # p => purchases'[n] = purchases[n]
        /\ purchases[p] \in Row
        /\ purchases'[p].owner = purchases[p].owner
        /\ purchases'[p].product = purchases[p].product
    BY <1>3, <2>1, UpdatedRow
  <2>4. \A n \in PurchaseIds : GrantOf(n)' = GrantOf(n)
    BY <2>3 DEF GrantOf
  <2>5. g \in [purchase : PurchaseIds, owner : Shoppers, product : Products]
    BY <2>1, <2>3 DEF GrantOf, Row
  <2>6. CASE e.type = "purchase.paid"
    <3>1. /\ purchases[p].status = "pending" /\ UniquePaidAllows(p)
          /\ purchases'[p].status = "paid"
      BY <1>3, <2>1, <2>6, UpdatedRow DEF Updates
    <3>2. InStatus("paid")' = InStatus("paid") \cup {p}
      BY <2>1, <2>3, <3>1 DEF InStatus
    <3>3. InStatus("revoked")' = InStatus("revoked") /\ p \notin InStatus("revoked")
      BY <2>1, <2>3, <3>1 DEF InStatus
    <3>4. Grants' = Grants \cup {g}
      BY <2>4, <3>2 DEF Grants, InStatus
    <3>5. p \in ChargedPurchases
      BY <2>1, <2>2, <2>6 DEF EventsAreTrue, ChargedPurchases
    <3>6. \A h \in Grants : /\ h.purchase # p
                            /\ ~(h.owner = g.owner /\ h.product = g.product)
      BY <2>1, <3>1 DEF Grants, GrantOf, InStatus, UniquePaidAllows, RowsOf
    <3>7. g.purchase = p
      BY DEF GrantOf
    <3>8. Ent!GrantPurchase(g)
      BY <1>1, <3>3, <3>4, <3>5, <3>6, <3>7 DEF Ent!GrantPurchase, Grants
    <3>. QED
      BY <2>5, <3>8 DEF Ent!Next, Ent!Grant
  <2>7. CASE e.type = "purchase.failed"
    <3>1. purchases[p].status = "pending" /\ purchases'[p].status = "failed"
      BY <1>3, <2>1, <2>7, UpdatedRow DEF Updates
    <3>2. /\ InStatus("paid")' = InStatus("paid")
          /\ InStatus("revoked")' = InStatus("revoked")
      BY <2>3, <3>1 DEF InStatus
    <3>3. Grants' = Grants
      BY <2>4, <3>2 DEF Grants, InStatus
    <3>. QED
      BY <1>1, <3>2, <3>3 DEF entVars
  <2>8. CASE e.type = "purchase.revoked"
    <3>1. purchases[p].status = "paid" /\ purchases'[p].status = "revoked"
      BY <1>3, <2>1, <2>8, UpdatedRow DEF Updates
    <3>2. /\ InStatus("paid")' = InStatus("paid") \ {p}
          /\ InStatus("revoked")' = InStatus("revoked") \cup {p}
          /\ p \in InStatus("paid")
      BY <2>1, <2>3, <3>1 DEF InStatus
    <3>3. \A n, q \in PurchaseIds : GrantOf(n) = GrantOf(q) => n = q
      BY DEF GrantOf
    <3>4. Grants' = Grants \ {g} /\ g \in Grants
      BY <2>1, <2>4, <3>2, <3>3 DEF Grants, InStatus
    <3>5. p \in RefundedPurchases
      BY <2>1, <2>2, <2>8 DEF EventsAreTrue, RefundedPurchases
    <3>6. g.purchase = p
      BY DEF GrantOf
    <3>7. Ent!RevokeGrant(g)
      BY <1>1, <3>2, <3>4, <3>5, <3>6 DEF Ent!RevokeGrant, Grants
    <3>. QED
      BY <2>5, <3>7 DEF Ent!Next, Ent!Grant
  <2>. QED
    BY <2>1, <2>6, <2>7, <2>8 DEF DomainEvent, EventTypes
<1>. QED
  BY <1>2, <1>3, FulfillmentRows

\* Every step maps to a step of Entitlement or to a stutter.
LEMMA NextMaps == Inv /\ [Next]_vars => [Ent!Next]_entVars
<1>. SUFFICES ASSUME Inv, [Next]_vars
              PROVE  [Ent!Next]_entVars
  OBVIOUS
<1>1. CASE CheckoutNext /\ payments' = payments
  BY <1>1, CheckoutMaps
<1>2. CASE FulfillmentNext /\ payments' = payments
  BY <1>2, FulfillmentMaps
<1>3. CASE GatewayStep
  BY <1>3, GatewayMaps
<1>4. CASE UNCHANGED <<purchases, payments>>
  BY <1>4, GrantsStand, ChargesUnchanged DEF entVars
<1>. QED
  BY <1>1, <1>2, <1>3, <1>4 DEF Next, vars, Webhook

\* The whole path from checkout to fulfillment only ever grants and revokes the
\* way Entitlement allows.
THEOREM BillingImplementsEntitlement == Spec => ImplementsEntitlement
<1>1. Spec => []Inv
  BY TypeCorrect, LocksAlwaysHold, EventsStayTrue, PTL DEF Inv
<1>2. Inv /\ [Next]_vars => [Ent!Next]_(Ent!entitlementVars)
  BY NextMaps DEF entVars, Grants, Ent!entitlementVars
<1>. QED
  BY <1>1, <1>2, InitMaps, PTL DEF Spec, Ent!Spec, ImplementsEntitlement

=============================================================================
