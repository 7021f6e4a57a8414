---------------------------- MODULE Fulfillment ----------------------------
(***************************************************************************)
(* The billing fulfillment queue and worker.  The queue is a standard SQS  *)
(* queue: unordered, at least once, with a dead-letter queue after         *)
(* MaxReceiveCount receives.  A worker invocation takes a batch, runs one  *)
(* database transaction per record, and returns the failed records, which  *)
(* become visible again; an invocation that dies returns all of its batch. *)
(* A transaction records the webhook event id and changes the purchase row *)
(* or does neither.                                                        *)
(***************************************************************************)
EXTENDS PurchaseTable

CONSTANTS
  Workers,           \* concurrent invocations of the fulfillment Lambda
  MessageIds,        \* slots of the queue (bounds its length)
  PaymentIds,        \* HyperPay payment ids
  BatchSize,         \* records per invocation
  MaxReceiveCount    \* receives before the dead-letter queue

ASSUME FulfillmentAssumption ==
  /\ BatchSize \in Nat \ {0}
  /\ MaxReceiveCount \in Nat \ {0}
  /\ "queue" \notin Workers
  /\ "dlq" \notin Workers

VARIABLES
  queue,             \* the messages of the queue and of its DLQ
  webhookEvents      \* payment_webhook_events: the recorded event ids

fulfillmentVars == <<queue, webhookEvents>>

Results == {"pending", "success", "declined"}

\* hyperpay:<payment id>:<result code>
EventIds == PaymentIds \X Results

EventTypes == {"purchase.paid", "purchase.failed", "purchase.revoked"}

DomainEvent == [type : EventTypes, eid : EventIds,
                purchase : PurchaseIds, amount : Amounts]

Outcomes == {"none", "done", "failed"}

NoMessage == [at |-> "nowhere"]

Message == [at : {"queue", "dlq"} \cup Workers, event : DomainEvent,
            receives : 0..MaxReceiveCount, outcome : Outcomes]

FulfillmentTypeOK ==
  /\ queue \in [MessageIds -> Message \cup {NoMessage}]
  /\ webhookEvents \in SUBSET EventIds

FulfillmentInit ==
  /\ queue = [m \in MessageIds |-> NoMessage]
  /\ webhookEvents = {}

InQueue(m) == queue[m] # NoMessage /\ queue[m].at = "queue"

HeldBy(w) == {m \in MessageIds : queue[m] # NoMessage /\ queue[m].at = w}

\* SendMessage.
Enqueued(m, event) ==
  [queue EXCEPT ![m] = [at |-> "queue", event |-> event, receives |-> 0,
                        outcome |-> "none"]]

-----------------------------------------------------------------------------
(* The event source mapping *)

\* FAULT: one receive too many before the dead-letter queue.
ReceiveBatchOnceMore(w, batch) ==
  /\ HeldBy(w) = {}
  /\ batch # {} /\ Cardinality(batch) <= BatchSize
  /\ \A m \in batch : InQueue(m) /\ queue[m].receives <= MaxReceiveCount
  /\ queue' = [m \in MessageIds |->
                 IF m \in batch
                 THEN [queue[m] EXCEPT !.at = w,
                                       !.receives = queue[m].receives + 1,
                                       !.outcome = "none"]
                 ELSE queue[m]]
  /\ UNCHANGED <<purchases, deleting, webhookEvents>>

ReceiveBatch(w, batch) ==
  /\ HeldBy(w) = {}
  /\ batch # {} /\ Cardinality(batch) <= BatchSize
  /\ \A m \in batch : InQueue(m) /\ queue[m].receives < MaxReceiveCount
  /\ queue' = [m \in MessageIds |->
                 IF m \in batch
                 THEN [queue[m] EXCEPT !.at = w,
                                       !.receives = queue[m].receives + 1,
                                       !.outcome = "none"]
                 ELSE queue[m]]
  /\ UNCHANGED <<purchases, deleting, webhookEvents>>

\* maxReceiveCount receives have failed.
Redrive(m) ==
  /\ InQueue(m)
  /\ queue[m].receives = MaxReceiveCount
  /\ queue' = [queue EXCEPT ![m].at = "dlq"]
  /\ UNCHANGED <<purchases, deleting, webhookEvents>>

\* FAULT: the event source mapping lacks ReportBatchItemFailures.
ReturnBatchWithoutFailures(w) ==
  /\ HeldBy(w) # {}
  /\ \A m \in HeldBy(w) : queue[m].outcome # "none"
  /\ queue' = [m \in MessageIds |->
                 IF m \in HeldBy(w) THEN NoMessage ELSE queue[m]]
  /\ UNCHANGED <<purchases, deleting, webhookEvents>>

\* The handler returns: the batchItemFailures become visible again, the rest
\* of the batch is deleted.
ReturnBatch(w) ==
  /\ HeldBy(w) # {}
  /\ \A m \in HeldBy(w) : queue[m].outcome # "none"
  /\ queue' = [m \in MessageIds |->
                 IF m \notin HeldBy(w) THEN queue[m]
                 ELSE IF queue[m].outcome = "failed"
                      THEN [queue[m] EXCEPT !.at = "queue"]
                      ELSE NoMessage]
  /\ UNCHANGED <<purchases, deleting, webhookEvents>>

\* The invocation dies or times out: the visibility timeout ends for its batch.
WorkerDies(w) ==
  /\ HeldBy(w) # {}
  /\ queue' = [m \in MessageIds |->
                 IF m \in HeldBy(w) THEN [queue[m] EXCEPT !.at = "queue"]
                 ELSE queue[m]]
  /\ UNCHANGED <<purchases, deleting, webhookEvents>>

-----------------------------------------------------------------------------
(* process_event_in_transaction, one action per way it ends.  The row is     *)
(* locked (FOR UPDATE, or the UPDATE itself), so a transaction is one step   *)
(* that waits while a checkout's open DELETE holds the row.                  *)

Processing(w, m) ==
  /\ m \in HeldBy(w)
  /\ queue[m].outcome = "none"

Outcome(m, o) == queue' = [queue EXCEPT ![m].outcome = o]

IsNew(event) == event.eid \notin webhookEvents

\* ON CONFLICT (provider, provider_event_id) DO NOTHING inserts no row.
SkipDuplicate(w, m) ==
  /\ Processing(w, m)
  /\ ~IsNew(queue[m].event)
  /\ Outcome(m, "done")
  /\ UNCHANGED <<purchases, deleting, webhookEvents>>

\* FAULT: the event id is written outside the transaction, and lost.
CommitUnrecorded(m, table) ==
  /\ purchases' = table
  /\ Outcome(m, "done")
  /\ UNCHANGED <<deleting, webhookEvents>>

Commit(m, table) ==
  /\ webhookEvents' = webhookEvents \cup {queue[m].event.eid}
  /\ purchases' = table
  /\ Outcome(m, "done")
  /\ UNCHANGED deleting

\* An exception: ROLLBACK, and the record is a batch item failure.
Abort(m) ==
  /\ Outcome(m, "failed")
  /\ UNCHANGED <<purchases, deleting, webhookEvents>>

AmountMatches(event) == purchases[event.purchase].amount = event.amount

\* A pending row becomes paid, if the unique indexes have room for it.
SettlePaid(w, m) ==
  LET event == queue[m].event IN
  /\ Processing(w, m) /\ IsNew(event)
  /\ event.type = "purchase.paid"
  /\ event.purchase \notin LockedRows
  /\ purchases[event.purchase].status = "pending"
  /\ AmountMatches(event)
  /\ UniquePaidAllows(event.purchase)
  /\ Commit(m, WithStatus(event.purchase, "paid"))

SettleFailed(w, m) ==
  LET event == queue[m].event IN
  /\ Processing(w, m) /\ IsNew(event)
  /\ event.type = "purchase.failed"
  /\ event.purchase \notin LockedRows
  /\ purchases[event.purchase].status = "pending"
  /\ AmountMatches(event)
  /\ Commit(m, WithStatus(event.purchase, "failed"))

Revoke(w, m) ==
  LET event == queue[m].event IN
  /\ Processing(w, m) /\ IsNew(event)
  /\ event.type = "purchase.revoked"
  /\ event.purchase \notin LockedRows
  /\ purchases[event.purchase].status = "paid"
  /\ Commit(m, WithStatus(event.purchase, "revoked"))

\* The row is no longer pending (paid, failed), or not paid (revoked, where
\* the UPDATE also accepts that there is no row): recorded, nothing changed.
RecordWithoutEffect(w, m) ==
  LET event == queue[m].event IN
  /\ Processing(w, m) /\ IsNew(event)
  /\ event.purchase \notin LockedRows
  /\ \/ /\ event.type # "purchase.revoked"
        /\ purchases[event.purchase].status \in {"paid", "failed", "revoked"}
     \/ /\ event.type = "purchase.revoked"
        /\ purchases[event.purchase].status # "paid"
  /\ Commit(m, purchases)

\* "purchase not found", an amount mismatch, or the unique index refuses.
Reject(w, m) ==
  LET event == queue[m].event IN
  /\ Processing(w, m) /\ IsNew(event)
  /\ event.type # "purchase.revoked"
  /\ event.purchase \notin LockedRows
  /\ \/ ~RowExists(event.purchase)
     \/ /\ purchases[event.purchase].status = "pending"
        /\ \/ ~AmountMatches(event)
           \/ /\ event.type = "purchase.paid"
              /\ ~UniquePaidAllows(event.purchase)
  /\ Abort(m)

\* The database is unreachable or drops the connection before the commit.
DatabaseFails(w, m) == Processing(w, m) /\ Abort(m)

ProcessRecord(w, m) ==
  \/ SkipDuplicate(w, m)
  \/ SettlePaid(w, m)
  \/ SettleFailed(w, m)
  \/ Revoke(w, m)
  \/ RecordWithoutEffect(w, m)
  \/ Reject(w, m)
  \/ DatabaseFails(w, m)

FulfillmentNext ==
  \/ \E w \in Workers :
       \/ \E batch \in SUBSET MessageIds : ReceiveBatch(w, batch)
       \/ \E m \in MessageIds : ProcessRecord(w, m)
       \/ ReturnBatch(w)
       \/ WorkerDies(w)
  \/ \E m \in MessageIds : Redrive(m)

=============================================================================
