------------------------------ MODULE Checkout ------------------------------
(***************************************************************************)
(* POST /billing/checkout-session: the billing edge Lambda asks the        *)
(* catalog Lambda to reserve a pending purchase (ownership check, price    *)
(* read, reservation transaction: separate database steps), then opens a   *)
(* HyperPay checkout for it, and rolls the reservation back when it cannot.*)
(* Several requests run at once, in separate Lambda containers and on      *)
(* separate database connections under READ COMMITTED.                     *)
(***************************************************************************)
EXTENDS PurchaseTable

VARIABLES
  price,         \* courses.price_amount_minor and bundle_offers; 0 is NULL
  req,           \* the checkout requests in flight
  sessions       \* HyperPay checkouts a shopper holds: amount, or 0

checkoutVars == <<price, req, sessions>>

Phases == {"idle", "ownership", "price", "reserve", "insert", "create",
           "rollback"}

Idle == [pc |-> "idle", who |-> None, product |-> None, amount |-> 0,
         pid |-> None]

Request == [pc : Phases, who : Shoppers \cup {None}, product : Products \cup {None},
            amount : Amounts \cup {0}, pid : PurchaseIds \cup {None}]

\* What a request knows in each phase.
Informed(q) ==
  /\ q.pc # "idle" => q.who \in Shoppers /\ q.product \in Products
  /\ q.pc \in {"reserve", "insert", "create", "rollback"} => q.amount \in Amounts
  /\ q.pc \in {"create", "rollback"} => q.pid \in PurchaseIds

CheckoutTypeOK ==
  /\ price \in [Products -> Amounts \cup {0}]
  /\ req \in [Requests -> {q \in Request : Informed(q)}]
  /\ sessions \in [PurchaseIds -> Amounts \cup {0}]

CheckoutInit ==
  /\ price \in [Products -> Amounts \cup {0}]
  /\ price[Bundle] # 0                       \* seeded by migration 015
  /\ req = [r \in Requests |-> Idle]
  /\ sessions = [p \in PurchaseIds |-> 0]

Goto(r, pc) == req' = [req EXCEPT ![r].pc = pc]

Reply(r) == req' = [req EXCEPT ![r] = Idle]

-----------------------------------------------------------------------------
(* The billing edge *)

\* An authenticated request with a valid body reaches the catalog.
StartCheckout(r, u, prod) ==
  /\ req[r].pc = "idle"
  /\ req' = [req EXCEPT ![r] = [Idle EXCEPT !.pc = "ownership", !.who = u,
                                            !.product = prod]]
  /\ UNCHANGED <<purchases, deleting, price, sessions>>

\* FAULT: the edge charges the price of the day, not the reserved one.
CreateCheckoutAtListPrice(r) ==
  /\ req[r].pc = "create"
  /\ sessions' = [sessions EXCEPT ![req[r].pid] = price[req[r].product]]
  /\ Reply(r)
  /\ UNCHANGED <<purchases, deleting, price>>

\* HyperPay opens a checkout whose merchantTransactionId is the purchase id;
\* 200 hands its id to the shopper.
CreateCheckout(r) ==
  /\ req[r].pc = "create"
  /\ sessions' = [sessions EXCEPT ![req[r].pid] = req[r].amount]
  /\ Reply(r)
  /\ UNCHANGED <<purchases, deleting, price>>

\* BillingUnconfiguredError, NotImplementedError or an unusable product.
CreateFails(r) ==
  /\ req[r].pc = "create"
  /\ Goto(r, "rollback")
  /\ UNCHANGED <<purchases, deleting, price, sessions>>

\* The rollback reaches the catalog: every pending row of the shopper for the
\* product goes, whichever request reserved it.
Rollback(r) ==
  LET gone == PendingOf(req[r].who, req[r].product) IN
  /\ req[r].pc = "rollback"
  /\ gone \cap LockedRows = {}
  /\ purchases' = WithoutRows(gone)
  /\ Reply(r)
  /\ UNCHANGED <<deleting, price, sessions>>

\* The edge gives the request up with nothing rolled back: a failed catalog
\* invoke (503), an exception create_checkout lets through, a rollback invoke
\* that failed, or a Lambda that died.  An open transaction is rolled back.
AbandonRequest(r) ==
  /\ req[r].pc # "idle"
  /\ deleting' = [deleting EXCEPT ![r] = {}]
  /\ Reply(r)
  /\ UNCHANGED <<purchases, price, sessions>>

-----------------------------------------------------------------------------
(* The catalog's precheck *)

CheckOwnership(r) ==
  /\ req[r].pc = "ownership"
  /\ IF HasCheckoutBlockingOwnership(req[r].who, req[r].product)
     THEN Reply(r)                                    \* 409 already_owned
     ELSE Goto(r, "price")
  /\ UNCHANGED <<purchases, deleting, price, sessions>>

ReadPrice(r) ==
  /\ req[r].pc = "price"
  /\ IF price[req[r].product] = 0
     THEN Reply(r)                                    \* ValueError, 503
     ELSE req' = [req EXCEPT ![r].pc = "reserve",
                             ![r].amount = price[req[r].product]]
  /\ UNCHANGED <<purchases, deleting, price, sessions>>

\* The first two statements of the reservation transaction: DELETE the stale
\* pending rows, waiting for any of them another transaction holds, then look
\* for a fresh one.  A fresh one ends the transaction, with its DELETE.
CheckPending(r) ==
  LET stale == StalePendingOf(req[r].who, req[r].product) IN
  /\ req[r].pc = "reserve"
  /\ stale \cap LockedRows = {}
  /\ IF FreshPendingOf(req[r].who, req[r].product) # {}
     THEN /\ purchases' = WithoutRows(stale)
          /\ Reply(r)                                 \* 409 in progress
          /\ UNCHANGED deleting
     ELSE /\ deleting' = [deleting EXCEPT ![r] = stale]
          /\ Goto(r, "insert")
          /\ UNCHANGED purchases
  /\ UNCHANGED <<price, sessions>>

\* INSERT and COMMIT.  Nothing in the schema limits the pending rows.
InsertPending(r, p) ==
  /\ req[r].pc = "insert"
  /\ purchases[p] = NeverIssued
  /\ purchases' = [WithoutRows(deleting[r]) EXCEPT
                     ![p] = PendingRow(req[r].who, req[r].product,
                                       req[r].amount)]
  /\ deleting' = [deleting EXCEPT ![r] = {}]
  /\ req' = [req EXCEPT ![r].pc = "create", ![r].pid = p]
  /\ UNCHANGED <<price, sessions>>

-----------------------------------------------------------------------------
(* The teacher's price, and the clock *)

SetPrice(prod, a) ==
  /\ price' = [price EXCEPT ![prod] = a]
  /\ UNCHANGED <<purchases, deleting, req, sessions>>

TtlElapses(p) ==
  /\ purchases[p].status = "pending"
  /\ ~purchases[p].stale
  /\ purchases' = [purchases EXCEPT ![p].stale = TRUE]
  /\ UNCHANGED <<deleting, price, req, sessions>>

EdgeStep(r) ==
  \/ \E u \in Shoppers, prod \in Products : StartCheckout(r, u, prod)
  \/ CreateCheckout(r)
  \/ CreateFails(r)
  \/ Rollback(r)
  \/ AbandonRequest(r)

PrecheckStep(r) ==
  \/ CheckOwnership(r)
  \/ ReadPrice(r)
  \/ CheckPending(r)
  \/ \E p \in PurchaseIds : InsertPending(r, p)

CheckoutNext ==
  \/ \E r \in Requests : EdgeStep(r) \/ PrecheckStep(r)
  \/ \E prod \in Products, a \in Amounts : SetPrice(prod, a)
  \/ \E p \in PurchaseIds : TtlElapses(p)

CheckoutSpec ==
  /\ TableInit /\ CheckoutInit
  /\ [][CheckoutNext]_<<purchases, deleting, checkoutVars>>

=============================================================================
