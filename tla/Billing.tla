------------------------------ MODULE Billing ------------------------------
(***************************************************************************)
(* One-time purchases end to end: Checkout and Fulfillment over one        *)
(* purchases table, the HyperPay gateway between them (external, modelled  *)
(* from how the code calls it and reads its notifications), and the        *)
(* webhook handler of the billing edge.  HyperPay repeats a notification   *)
(* until it is answered with 200.                                          *)
(***************************************************************************)
EXTENDS Checkout, Fulfillment

VARIABLES
  payments,      \* HyperPay's payments: debits (DB) and refunds (RF)
  acknowledged   \* notifications answered with 200

vars == <<purchases, deleting, price, req, sessions, queue, webhookEvents,
          payments, acknowledged>>

NoPayment == [type |-> "none"]

Payment == [type : {"DB", "RF"}, purchase : PurchaseIds, amount : Amounts,
            result : Results]

BillingTypeOK ==
  /\ TableTypeOK
  /\ CheckoutTypeOK
  /\ FulfillmentTypeOK
  /\ payments \in [PaymentIds -> Payment \cup {NoPayment}]
  /\ acknowledged \in SUBSET EventIds

Init ==
  /\ TableInit
  /\ CheckoutInit
  /\ FulfillmentInit
  /\ payments = [x \in PaymentIds |-> NoPayment]
  /\ acknowledged = {}

IsDebit(x, p) ==
  payments[x] # NoPayment /\ payments[x].type = "DB" /\ payments[x].purchase = p

IsRefund(x, p) ==
  payments[x] # NoPayment /\ payments[x].type = "RF" /\ payments[x].purchase = p

Charged(x, p) == IsDebit(x, p) /\ payments[x].result = "success"

-----------------------------------------------------------------------------
(* HyperPay *)

\* The shopper submits the card form of a checkout with no payment under way
\* and none that succeeded.
Pay(p, x, result) ==
  /\ sessions[p] # 0
  /\ payments[x] = NoPayment
  /\ \A y \in PaymentIds : IsDebit(y, p) => payments[y].result = "declined"
  /\ payments' = [payments EXCEPT
                    ![x] = [type |-> "DB", purchase |-> p,
                            amount |-> sessions[p], result |-> result]]
  /\ UNCHANGED acknowledged

\* A pending payment or refund gets its final result.
Settle(x, result) ==
  /\ payments[x] # NoPayment
  /\ payments[x].result = "pending"
  /\ result # "pending"
  /\ payments' = [payments EXCEPT ![x].result = result]
  /\ UNCHANGED acknowledged

\* The merchant refunds a charge; one refund that is not declined per purchase.
Refund(x, y, result) ==
  /\ payments[x] # NoPayment
  /\ Charged(x, payments[x].purchase)
  /\ payments[y] = NoPayment
  /\ \A z \in PaymentIds :
       IsRefund(z, payments[x].purchase) => payments[z].result = "declined"
  /\ payments' = [payments EXCEPT ![y] = [payments[x] EXCEPT !.type = "RF",
                                                             !.result = result]]
  /\ UNCHANGED acknowledged

GatewayStep ==
  /\ \E x \in PaymentIds, result \in Results :
       \/ \E p \in PurchaseIds : Pay(p, x, result)
       \/ Settle(x, result)
       \/ \E y \in PaymentIds : Refund(x, y, result)
  /\ UNCHANGED <<purchases, deleting, checkoutVars, fulfillmentVars>>

-----------------------------------------------------------------------------
(* The webhook handler of the billing edge *)

Notification(x) == <<x, payments[x].result>>

\* parse_hyperpay_webhook: a pending debit means nothing yet; a refund revokes
\* before its result code is looked at.
MeansNothing(x) == payments[x].type = "DB" /\ payments[x].result = "pending"

\* FAULT: the result code of a debit is not classified.
EventOfUnclassified(x) ==
  [type |-> IF payments[x].type = "RF" THEN "purchase.revoked"
            ELSE "purchase.paid",
   eid |-> Notification(x),
   purchase |-> payments[x].purchase,
   amount |-> payments[x].amount]

EventOf(x) ==
  [type |-> IF payments[x].type = "RF" THEN "purchase.revoked"
            ELSE IF payments[x].result = "success" THEN "purchase.paid"
            ELSE "purchase.failed",
   eid |-> Notification(x),
   purchase |-> payments[x].purchase,
   amount |-> payments[x].amount]

Acknowledge(x) == acknowledged' = acknowledged \cup {Notification(x)}

IgnoreWebhook(x) ==
  /\ MeansNothing(x)
  /\ Acknowledge(x)
  /\ UNCHANGED queue

\* FAULT: 200 before the event is in the queue, and the Lambda dies.
AcknowledgeFirst(x, m) ==
  /\ ~MeansNothing(x)
  /\ queue[m] = NoMessage
  /\ Acknowledge(x)
  /\ UNCHANGED queue

\* The event is in the queue before the 200.
EnqueueWebhook(x, m) ==
  /\ ~MeansNothing(x)
  /\ queue[m] = NoMessage
  /\ queue' = Enqueued(m, EventOf(x))
  /\ Acknowledge(x)

\* SendMessage took the event but its answer, or the 200, is lost: HyperPay
\* will send the notification again.
EnqueueUnconfirmed(x, m) ==
  /\ ~MeansNothing(x)
  /\ queue[m] = NoMessage
  /\ queue' = Enqueued(m, EventOf(x))
  /\ UNCHANGED acknowledged

Webhook(x) ==
  /\ payments[x] # NoPayment
  /\ Notification(x) \notin acknowledged
  /\ \/ IgnoreWebhook(x)
     \/ \E m \in MessageIds : EnqueueWebhook(x, m) \/ EnqueueUnconfirmed(x, m)
  /\ UNCHANGED <<purchases, deleting, checkoutVars, webhookEvents, payments>>

-----------------------------------------------------------------------------

Next ==
  \/ CheckoutNext /\ UNCHANGED <<fulfillmentVars, payments, acknowledged>>
  \/ FulfillmentNext /\ UNCHANGED <<checkoutVars, payments, acknowledged>>
  \/ GatewayStep
  \/ \E x \in PaymentIds : Webhook(x)

Spec == Init /\ [][Next]_vars

-----------------------------------------------------------------------------
(* Safety *)

\* has_course_access for a student and a published course: a paid bundle or a
\* paid purchase of the course.
HasCourseAccess(u, c) == HasPaidBundle(u) \/ HasPaidCourse(u, c)

\* A paid row is backed by a charge of exactly the price reserved in the row
\* (CourseAccessService.has_course_access reads nothing but the paid rows).
PaidIsCharged ==
  \A p \in PurchaseIds :
    purchases[p].status = "paid" =>
      \E x \in PaymentIds : /\ Charged(x, p)
                            /\ payments[x].amount = purchases[p].amount

\* Two settled payments of one product never both stand: a shopper holds at
\* most one paid purchase of it, whatever races the checkouts ran
\* (the partial unique indexes of migration 015).
OnePaidPerProduct ==
  \A p, q \in PurchaseIds :
    /\ purchases[p].status = "paid" /\ purchases[q].status = "paid"
    /\ purchases[p].owner = purchases[q].owner
    /\ purchases[p].product = purchases[q].product
    => p = q

\* A notification answered with 200 is never lost: its event is recorded in the
\* database, still in the queue, or in the dead-letter queue for an operator.
AcknowledgedIsKept ==
  \A x \in PaymentIds, result \in Results :
    <<x, result>> \in acknowledged =>
      \/ <<x, result>> \in webhookEvents
      \/ \E m \in MessageIds :
           queue[m] # NoMessage /\ queue[m].event.eid = <<x, result>>
      \/ payments[x].type = "DB" /\ result = "pending"

\* A purchase is never settled twice nor resurrected: rows only move from
\* pending to paid, failed or deleted and from paid to revoked, however the
\* rollback, the supersede and the redelivered events interleave.
StatusMoves ==
  \A p \in PurchaseIds :
    purchases'[p].status # purchases[p].status =>
      <<purchases[p].status, purchases'[p].status>> \in
        {<<"none", "pending">>, <<"pending", "paid">>, <<"pending", "failed">>,
         <<"pending", "deleted">>, <<"paid", "revoked">>}

RowsMoveForward == [][StatusMoves]_vars

\* A queued event tells the truth about HyperPay for as long as it is queued,
\* so it may be applied late, twice or never (parse_hyperpay_webhook).
EventsAreTrue ==
  \A m \in MessageIds :
    queue[m] # NoMessage =>
      LET event == queue[m].event
          x == event.eid[1] IN
      /\ event.type = "purchase.paid" =>
           Charged(x, event.purchase) /\ payments[x].amount = event.amount
      /\ event.type = "purchase.revoked" => IsRefund(x, event.purchase)

\* The database, not the queue, remembers what was done: a record reported as
\* processed is in payment_webhook_events, whatever happens to its message.
DoneIsRecorded ==
  \A m \in MessageIds :
    queue[m] # NoMessage /\ queue[m].outcome = "done" =>
      queue[m].event.eid \in webhookEvents

\* The rows an open reservation transaction has deleted stay pending until it
\* ends, and no two transactions hold one row: neither a payment's UPDATE nor a
\* rollback slips between its DELETE and its COMMIT.
LocksHold ==
  \A r \in Requests :
    /\ \A p \in deleting[r] : purchases[p].status = "pending"
    /\ \A s \in Requests \ {r} : deleting[r] \cap deleting[s] = {}

\* The price cannot move under a checkout: what HyperPay will charge for a
\* purchase is the amount in its row, whatever the teacher sets meanwhile.
SessionMatchesRow ==
  \A p \in PurchaseIds :
    sessions[p] # 0 /\ RowExists(p) => sessions[p] = purchases[p].amount

-----------------------------------------------------------------------------
(* Refinement *)

ChargedPurchases == {p \in PurchaseIds : \E x \in PaymentIds : Charged(x, p)}

RefundedPurchases == {p \in PurchaseIds : \E x \in PaymentIds : IsRefund(x, p)}

InStatus(status) == {p \in PurchaseIds : purchases[p].status = status}

GrantOf(p) ==
  [purchase |-> p, owner |-> purchases[p].owner, product |-> purchases[p].product]

Ent == INSTANCE Entitlement WITH
         charged <- ChargedPurchases,
         refunded <- RefundedPurchases,
         grants <- {GrantOf(p) : p \in InStatus("paid")},
         revoked <- InStatus("revoked")

\* The whole path from checkout to fulfillment, with its races, repeated
\* notifications and redelivered messages, only ever grants and revokes the
\* way Entitlement allows.
ImplementsEntitlement == Ent!Spec

-----------------------------------------------------------------------------
(* Liveness *)

Recorded(x) == payments[x] # NoPayment /\ Notification(x) \in webhookEvents

DeadLettered(x) ==
  /\ payments[x] # NoPayment
  /\ \E m \in MessageIds : /\ queue[m] # NoMessage
                           /\ queue[m].at = "dlq"
                           /\ queue[m].event.eid = Notification(x)

ReceiveSome(w) ==
  (\E batch \in SUBSET MessageIds : ReceiveBatch(w, batch))
    /\ UNCHANGED <<checkoutVars, payments, acknowledged>>

ProcessSome(w) ==
  (\E m \in MessageIds : ProcessRecord(w, m))
    /\ UNCHANGED <<checkoutVars, payments, acknowledged>>

ReturnSome(w) == ReturnBatch(w) /\ UNCHANGED <<checkoutVars, payments, acknowledged>>

RedriveSome ==
  (\E m \in MessageIds : Redrive(m))
    /\ UNCHANGED <<checkoutVars, payments, acknowledged>>

ConfirmWebhook(x) ==
  /\ payments[x] # NoPayment
  /\ Notification(x) \notin acknowledged
  /\ \E m \in MessageIds : EnqueueWebhook(x, m)
  /\ UNCHANGED <<purchases, deleting, checkoutVars, webhookEvents, payments>>

\* HyperPay keeps repeating an unanswered notification and SQS keeps invoking
\* the worker; shoppers, teachers and the clock owe nothing.
Fairness ==
  /\ \A x \in PaymentIds : SF_vars(ConfirmWebhook(x))
  /\ \A w \in Workers : /\ WF_vars(ReceiveSome(w))
                        /\ WF_vars(ProcessSome(w))
                        /\ WF_vars(ReturnSome(w))
  /\ WF_vars(RedriveSome)

FairSpec == Spec /\ Fairness

\* Every charge ends in the ledger's event log or, after MaxReceiveCount failed
\* receives, in the dead-letter queue that raises the alarm: retries, dying
\* workers and lost answers never make it vanish.
ChargeIsAccountedFor ==
  \A x \in PaymentIds :
    (\E p \in PurchaseIds : Charged(x, p)) ~> (Recorded(x) \/ DeadLettered(x))

-----------------------------------------------------------------------------
(* What a document says *)

\* ADR-0013: "refund IPN revokes".  Once the event of a successful refund is
\* recorded, its purchase grants nothing.
RefundRevokes ==
  \A x \in PaymentIds, p \in PurchaseIds :
    /\ IsRefund(x, p) /\ payments[x].result = "success"
    /\ Recorded(x)
    => purchases[p].status # "paid"

=============================================================================
