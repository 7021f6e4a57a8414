--------------------------- MODULE PurchaseTable ---------------------------
(***************************************************************************)
(* The `purchases` table of the RDS database, shared by the catalog        *)
(* Lambda (checkout precheck, rollback, access checks) and the billing     *)
(* fulfillment worker.  The SQL statements of the two are operators on the *)
(* table; the modules Checkout and Fulfillment use them in their actions.  *)
(*                                                                         *)
(* One deployment environment is modelled, so the `environment` column is  *)
(* left out.  A row's age is kept as one bit: `stale` says its updated_at  *)
(* is older than INCOMPLETE_CHECKOUT_TTL_MINUTES.                          *)
(***************************************************************************)
EXTENDS Naturals, FiniteSets

CONSTANTS
  Shoppers,      \* user_sub values
  Courses,       \* course ids
  Bundle,        \* the one bundle product
  PurchaseIds,   \* purchase UUIDs the run may issue
  Amounts,       \* list prices in fils
  Requests,      \* checkout requests that may be in flight at once
  None           \* SQL NULL, an absent value

ASSUME TableAssumption ==
  /\ Amounts \subseteq Nat \ {0}
  /\ Bundle \notin Courses
  /\ None \notin Shoppers \cup Courses \cup {Bundle} \cup PurchaseIds

VARIABLES
  purchases,     \* the table: a row, or NeverIssued / Deleted
  deleting       \* rows deleted by each request's uncommitted transaction

Products == Courses \cup {Bundle}

Row == [status : {"pending", "paid", "failed", "revoked"},
        owner : Shoppers, product : Products, amount : Amounts,
        stale : BOOLEAN]

NeverIssued == [status |-> "none"]
Deleted == [status |-> "deleted"]

TableTypeOK ==
  /\ purchases \in [PurchaseIds -> Row \cup {NeverIssued, Deleted}]
  /\ deleting \in [Requests -> SUBSET PurchaseIds]

TableInit ==
  /\ purchases = [p \in PurchaseIds |-> NeverIssued]
  /\ deleting = [r \in Requests |-> {}]

RowExists(p) == purchases[p].status \notin {"none", "deleted"}

RowsOf(u, prod, status) ==
  {p \in PurchaseIds : /\ purchases[p].status = status
                       /\ purchases[p].owner = u
                       /\ purchases[p].product = prod}

HasPaidBundle(u) == RowsOf(u, Bundle, "paid") # {}

HasPaidCourse(u, c) == RowsOf(u, c, "paid") # {}

\* A bundle is blocked by a paid bundle, a course by either.
HasCheckoutBlockingOwnership(u, prod) ==
  HasPaidBundle(u) \/ (prod # Bundle /\ HasPaidCourse(u, prod))

\* FAULT: the DELETE forgets AND status = 'pending'.
AnyRowOf(u, prod) ==
  {p \in PurchaseIds : /\ RowExists(p)
                       /\ purchases[p].owner = u
                       /\ purchases[p].product = prod}

PendingOf(u, prod) == RowsOf(u, prod, "pending")

StalePendingOf(u, prod) == {p \in PendingOf(u, prod) : purchases[p].stale}

FreshPendingOf(u, prod) == {p \in PendingOf(u, prod) : ~purchases[p].stale}

PendingRow(u, prod, amount) ==
  [status |-> "pending", owner |-> u, product |-> prod, amount |-> amount,
   stale |-> FALSE]

\* DELETE of a set of rows.
WithoutRows(S) ==
  [p \in PurchaseIds |-> IF p \in S THEN Deleted ELSE purchases[p]]

\* Row locks: a row deleted by an open transaction makes every other writer
\* of that row wait for the commit.
LockedRows == UNION {deleting[r] : r \in Requests}

\* FAULT: the partial unique indexes are missing.
NoUniqueIndex(p) == TRUE

\* The partial unique indexes allow row p to become paid.
UniquePaidAllows(p) ==
  RowsOf(purchases[p].owner, purchases[p].product, "paid") \subseteq {p}

\* UPDATE of a row's status; updated_at = NOW() makes the row young again.
WithStatus(p, status) ==
  [purchases EXCEPT ![p].status = status, ![p].stale = FALSE]

=============================================================================
