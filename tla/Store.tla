------------------------------- MODULE Store --------------------------------
(***************************************************************************)
(* Carts, stock and orders of the web service (web/app).  Every request is *)
(* one PostgreSQL transaction at READ COMMITTED, opened by get_scope and   *)
(* committed when the request ends (web/app/core/container.py).  A request *)
(* takes one step per statement whose place in an interleaving matters: it *)
(* reads committed rows, takes row locks one at a time, and its writes,    *)
(* which nobody else sees before the commit and which its row locks        *)
(* protect, happen in its last step together with the commit.              *)
(***************************************************************************)
EXTENDS Integers, FiniteSets

CONSTANTS Users,      \* customers
          Products,   \* product ids, ordered as lock_products orders them
          Requests,   \* requests in flight at once (connections of the pool)
          None,       \* nobody: a free lock, no customer
          Ops,        \* the operations that are requested
          Opening,    \* stock of each product at the start
          OpeningCarts, \* the carts at the start, filled by earlier requests
          MaxOrders,  \* bound: how many orders are ever placed
          MaxQty,     \* bound: largest quantity a cart request asks for (999)
          MaxStock,   \* largest value of products.stock (an int4 column)
          Deltas      \* bound: amounts an admin adjusts a stock by

OrderIds == 1..MaxOrders

AllOps == {"checkout", "add", "update", "remove", "cancel", "advance", "adjust", "archive"}

ASSUME StoreAssumption ==
  /\ Products \subseteq Nat
  /\ None \notin Requests \cup Users
  /\ IsFiniteSet(Requests)
  /\ Ops \subseteq AllOps
  /\ MaxOrders \in Nat /\ MaxStock \in Nat
  /\ MaxQty \in Nat
  /\ Opening \in [Products -> 0..MaxStock]
  /\ OpeningCarts \in [Users -> [Products -> 0..MaxStock]]
  /\ Deltas \subseteq Int

VARIABLES stock, archived, orders, audit,  \* committed rows, as in Ledger
          cart,         \* cart_items: quantity by user and product, 0 for no row
          productLock,  \* who holds the row lock of a product (FOR UPDATE)
          orderLock,    \* who holds the row lock of an order
          pc,           \* the statement a request is about to run
          job,          \* what it was asked to do
          lines,        \* the cart rows or order items it has read
          seen,         \* the product rows it has read
          row           \* the cart row its session holds: its quantity, 0 for none

data  == <<stock, archived, orders, audit, cart>>
local == <<job, lines, seen, row>>
vars  == <<data, productLock, orderLock, pc, local>>

L == INSTANCE Ledger
       WITH stock <- stock, archived <- archived, orders <- orders, audit <- audit

Empty  == [p \in Products |-> 0]
NoRow  == [stock |-> 0, archived |-> FALSE]
NoRows == [p \in Products |-> NoRow]
NoJob  == [op |-> "none", user |-> None, product |-> 0, order |-> 0, n |-> 0]

Row(p) == [stock |-> stock[p], archived |-> archived[p]]

Init == /\ L!Init
        /\ cart = OpeningCarts
        /\ productLock = [p \in Products |-> None]
        /\ orderLock = [o \in OrderIds |-> None]
        /\ pc = [r \in Requests |-> "idle"]
        /\ job = [r \in Requests |-> NoJob]
        /\ lines = [r \in Requests |-> Empty]
        /\ seen = [r \in Requests |-> NoRows]
        /\ row = [r \in Requests |-> 0]

-----------------------------------------------------------------------------
(* The end of a request: COMMIT with its writes, or ROLLBACK. Both release *)
(* every lock and drop the session.                                        *)

Finish(r) ==
  /\ productLock' = [p \in Products |-> IF productLock[p] = r THEN None ELSE productLock[p]]
  /\ orderLock' = [o \in OrderIds |-> IF orderLock[o] = r THEN None ELSE orderLock[o]]
  /\ pc' = [pc EXCEPT ![r] = "idle"]
  /\ job' = [job EXCEPT ![r] = NoJob]
  /\ lines' = [lines EXCEPT ![r] = Empty]
  /\ seen' = [seen EXCEPT ![r] = NoRows]
  /\ row' = [row EXCEPT ![r] = 0]

\* An error answer: the exception leaves session.begin(), which rolls back.
Reject(r) == Finish(r) /\ UNCHANGED data

\* Bound: as many checkouts are begun as there are order ids left.
CheckoutBudget ==
  Cardinality({q \in Requests : job[q].op = "checkout"})
    < Cardinality({o \in OrderIds : orders[o].status = "none"})

FirstStep(op) == CASE op \in {"checkout", "update", "remove"} -> "cart"
                   [] op \in {"add", "archive"} -> "product"
                   [] op \in {"cancel", "advance"} -> "order"
                   [] op = "adjust" -> "lock"

Jobs == [op : {"checkout"}, user : Users, product : {0}, order : {0}, n : {0}]
   \cup [op : {"add", "update"}, user : Users, product : Products, order : {0}, n : 1..MaxQty]
   \cup [op : {"remove"}, user : Users, product : Products, order : {0}, n : {0}]
   \cup [op : {"cancel"}, user : Users, product : {0}, order : OrderIds, n : {0}]
   \cup [op : {"advance"}, user : {None}, product : {0}, order : OrderIds, n : {0}]
   \cup [op : {"adjust"}, user : {None}, product : Products, order : {0}, n : Deltas]
   \cup [op : {"archive"}, user : {None}, product : Products, order : {0}, n : {0, 1}]

Begin(r) ==
  /\ pc[r] = "idle"
  /\ \E j \in Jobs :
       /\ j.op \in Ops
       /\ j.op = "checkout" => CheckoutBudget
       /\ job' = [job EXCEPT ![r] = j]
       /\ pc' = [pc EXCEPT ![r] = FirstStep(j.op)]
  /\ UNCHANGED <<data, productLock, orderLock, lines, seen, row>>

At(r, op, step) == job[r].op = op /\ pc[r] = step

Goto(r, step) == pc' = [pc EXCEPT ![r] = step] /\ UNCHANGED <<job, orderLock>>

ReadCart(r) == lines' = [lines EXCEPT ![r] = cart[job[r].user]]

ReadProduct(r) == seen' = [seen EXCEPT ![r][job[r].product] = Row(job[r].product)]

-----------------------------------------------------------------------------
(* Row locks on products: one statement locks them in ascending id order,  *)
(* waits for each one and returns the row as it is once locked.            *)

ToLockUnlockedAdjust(r) == {p \in Products : lines[r][p] > 0}    \* mutant: admin_adjust_stock takes no lock
ToLock(r) == IF job[r].op = "adjust" THEN {job[r].product}
             ELSE {p \in Products : lines[r][p] > 0}

NotYetLocked(r) == {p \in ToLock(r) : productLock[p] # r}

AllLocked(r) == NotYetLocked(r) = {}

LowestAnyOrder(S) == S    \* mutant: locks in the order of the cart rows
Lowest(S) == {p \in S : \A q \in S : p <= q}

LockProduct(r) ==
  /\ pc[r] = "lock"
  /\ \E p \in Lowest(NotYetLocked(r)) :
       /\ productLock[p] = None
       /\ productLock' = [productLock EXCEPT ![p] = r]
       /\ seen' = [seen EXCEPT ![r][p] = Row(p)]
  /\ UNCHANGED <<data, orderLock, pc, job, lines, row>>

-----------------------------------------------------------------------------
(* OrderService.checkout.                                                  *)

CheckoutReadsCart(r) ==
  /\ At(r, "checkout", "cart")
  /\ \/ /\ cart[job[r].user] = Empty
        /\ Reject(r)
     \/ /\ cart[job[r].user] # Empty
        /\ ReadCart(r)
        /\ Goto(r, "lock")
        /\ UNCHANGED <<data, productLock, seen, row>>

OffendsIgnoringStock(r, p) == lines[r][p] > 0 /\ seen[r][p].archived    \* mutant

\* A line whose product was archived or holds too little when it was locked.
Offends(r, p) == lines[r][p] > 0 /\ (seen[r][p].archived \/ seen[r][p].stock < lines[r][p])

CheckoutRefused(r) ==
  /\ At(r, "checkout", "lock") /\ AllLocked(r)
  /\ \E p \in Products : Offends(r, p)
  /\ Reject(r)

\* Deducts the stock, inserts the order, deletes whatever the cart holds by now.
CheckoutCommits(r) ==
  /\ At(r, "checkout", "lock") /\ AllLocked(r)
  /\ \A p \in Products : ~Offends(r, p)
  /\ \E o \in OrderIds :
       /\ L!Fresh(o)
       /\ orders' = [orders EXCEPT ![o] =
            [status |-> "paid", user |-> job[r].user, lines |-> lines[r]]]
  /\ stock' = [p \in Products |-> stock[p] - lines[r][p]]
  /\ cart' = [cart EXCEPT ![job[r].user] = Empty]
  /\ Finish(r)
  /\ UNCHANGED <<archived, audit>>

-----------------------------------------------------------------------------
(* OrderService.cancel and admin_advance_status: lock the order row, check *)
(* it as locked, and change it before the lock is released.                *)

CancellableByOwner(r) == orders[job[r].order].user = job[r].user    \* mutant: status not checked
Cancellable(r) == /\ orders[job[r].order].status = "paid"
                  /\ orders[job[r].order].user = job[r].user

CancelLocksOrder(r) ==
  /\ At(r, "cancel", "order")
  /\ orderLock[job[r].order] = None
  /\ \/ ~Cancellable(r) /\ Reject(r)
     \/ /\ Cancellable(r)
        /\ orderLock' = [orderLock EXCEPT ![job[r].order] = r]
        /\ lines' = [lines EXCEPT ![r] = orders[job[r].order].lines]
        /\ pc' = [pc EXCEPT ![r] = "lock"]
        /\ UNCHANGED <<data, productLock, job, seen, row>>

\* Adding the quantities back may leave the column's range: the UPDATE then fails.
Restored(r) == [p \in Products |-> stock[p] + lines[r][p]]

CancelCommits(r) ==
  /\ At(r, "cancel", "lock") /\ AllLocked(r)
  /\ \/ /\ \A p \in Products : Restored(r)[p] <= MaxStock
        /\ stock' = Restored(r)
        /\ orders' = [orders EXCEPT ![job[r].order].status = "cancelled"]
        /\ Finish(r)
        /\ UNCHANGED <<archived, audit, cart>>
     \/ (\E p \in Products : Restored(r)[p] > MaxStock) /\ Reject(r)

AdvanceLocksOrder(r) ==
  /\ At(r, "advance", "order")
  /\ orderLock[job[r].order] = None
  /\ \/ orders[job[r].order].status \notin DOMAIN L!NextStatus /\ Reject(r)
     \/ /\ orders[job[r].order].status \in DOMAIN L!NextStatus
        /\ orderLock' = [orderLock EXCEPT ![job[r].order] = r]
        /\ pc' = [pc EXCEPT ![r] = "commit"]
        /\ UNCHANGED <<data, productLock, local>>

AdvanceCommits(r) ==
  /\ At(r, "advance", "commit")
  /\ orders' = [orders EXCEPT ![job[r].order].status = L!NextStatus[@]]
  /\ Finish(r)
  /\ UNCHANGED <<stock, archived, audit, cart>>

-----------------------------------------------------------------------------
(* ProductService.admin_adjust_stock and admin_set_archived.               *)

\* The audit row records the stock the locked row will have.
AdjustCommits(r) ==
  /\ At(r, "adjust", "lock") /\ AllLocked(r)
  /\ LET p == job[r].product
         n == job[r].n
         after == seen[r][p].stock + n
     IN \/ /\ after \in 0..MaxStock
           /\ stock' = [stock EXCEPT ![p] = @ + n]
           /\ audit' = [audit EXCEPT ![p] = [net |-> @.net + n, after |-> after]]
           /\ Finish(r)
           /\ UNCHANGED <<archived, orders, cart>>
        \/ after \notin 0..MaxStock /\ Reject(r)

ArchiveReads(r) ==
  /\ At(r, "archive", "product")
  /\ ReadProduct(r)
  /\ Goto(r, "commit")
  /\ UNCHANGED <<data, productLock, lines, row>>

\* The ORM writes the flag only when it differs from the row it loaded; the
\* UPDATE waits for a lock on the row.
ArchiveCommits(r) ==
  /\ At(r, "archive", "commit")
  /\ LET p == job[r].product
         flag == job[r].n = 1
     IN \/ seen[r][p].archived = flag /\ Reject(r)
        \/ /\ seen[r][p].archived # flag
           /\ productLock[p] = None
           /\ archived' = [archived EXCEPT ![p] = flag]
           /\ Finish(r)
           /\ UNCHANGED <<stock, orders, audit, cart>>

-----------------------------------------------------------------------------
(* CartService: reads of unlocked rows, then one write of an absolute      *)
(* quantity.                                                               *)

AddReadsProduct(r) ==
  /\ At(r, "add", "product")
  /\ LET p == job[r].product
     IN \/ (archived[p] \/ stock[p] = 0) /\ Reject(r)
        \/ /\ ~archived[p] /\ stock[p] > 0
           /\ ReadProduct(r)
           /\ Goto(r, "cart")
           /\ UNCHANGED <<data, productLock, lines, row>>

\* What the request will store: add_item adds to what it read, update_item replaces.
Requested(r) == IF job[r].op = "add" THEN lines[r][job[r].product] + job[r].n ELSE job[r].n

AddReadsCart(r) ==
  /\ At(r, "add", "cart")
  /\ LET p == job[r].product
         fits == cart[job[r].user][p] + job[r].n <= seen[r][p].stock
     IN \/ ~fits /\ Reject(r)
        \/ /\ fits
           /\ ReadCart(r)
           /\ Goto(r, "row")
           /\ UNCHANGED <<data, productLock, seen, row>>

UpdateReadsCart(r) ==
  /\ At(r, "update", "cart")
  /\ \/ cart[job[r].user][job[r].product] = 0 /\ Reject(r)
     \/ /\ cart[job[r].user][job[r].product] > 0
        /\ ReadCart(r)
        /\ Goto(r, "product")
        /\ UNCHANGED <<data, productLock, seen, row>>

UpdateReadsProduct(r) ==
  /\ At(r, "update", "product")
  /\ LET p == job[r].product
         fits == ~archived[p] /\ job[r].n <= stock[p]
     IN \/ ~fits /\ Reject(r)
        \/ /\ fits
           /\ ReadProduct(r)
           /\ Goto(r, "row")
           /\ UNCHANGED <<data, productLock, lines, row>>

\* upsert_item's SELECT: a row the session already holds keeps its old quantity.
SelectCartRow(r) ==
  /\ job[r].op \in {"add", "update"} /\ pc[r] = "row"
  /\ LET p == job[r].product
         now == cart[job[r].user][p]
         held == lines[r][p]
     IN row' = [row EXCEPT ![r] = IF now > 0 /\ held > 0 THEN held ELSE now]
  /\ Goto(r, "commit")
  /\ UNCHANGED <<data, productLock, lines, seen>>

PutCartRow(r) ==
  /\ cart' = [cart EXCEPT ![job[r].user][job[r].product] = Requested(r)]
  /\ Finish(r)
  /\ UNCHANGED <<stock, archived, orders, audit>>

\* No row was found: INSERT. Its foreign key waits for the product's row lock,
\* its unique key refuses a row inserted meanwhile.
InsertCartRow(r) ==
  /\ job[r].op \in {"add", "update"} /\ pc[r] = "commit"
  /\ row[r] = 0
  /\ productLock[job[r].product] = None
  /\ \/ cart[job[r].user][job[r].product] = 0 /\ PutCartRow(r)
     \/ cart[job[r].user][job[r].product] > 0 /\ Reject(r)

\* A row was found: UPDATE it unless its quantity stays. A row deleted
\* meanwhile is a StaleDataError.
UpdateCartRow(r) ==
  /\ job[r].op \in {"add", "update"} /\ pc[r] = "commit"
  /\ row[r] > 0
  /\ \/ Requested(r) = row[r] /\ Reject(r)
     \/ /\ Requested(r) # row[r]
        /\ \/ cart[job[r].user][job[r].product] > 0 /\ PutCartRow(r)
           \/ cart[job[r].user][job[r].product] = 0 /\ Reject(r)

RemoveItem(r) ==
  /\ At(r, "remove", "cart")
  /\ cart' = [cart EXCEPT ![job[r].user][job[r].product] = 0]
  /\ Finish(r)
  /\ UNCHANGED <<stock, archived, orders, audit>>

-----------------------------------------------------------------------------
(* A statement fails, the connection drops or the process dies: ROLLBACK.  *)
Abort(r) == pc[r] # "idle" /\ Reject(r)

Step(r) ==
  \/ LockProduct(r)
  \/ CheckoutReadsCart(r) \/ CheckoutRefused(r) \/ CheckoutCommits(r)
  \/ CancelLocksOrder(r) \/ CancelCommits(r)
  \/ AdvanceLocksOrder(r) \/ AdvanceCommits(r)
  \/ AdjustCommits(r) \/ ArchiveReads(r) \/ ArchiveCommits(r)
  \/ AddReadsProduct(r) \/ AddReadsCart(r)
  \/ UpdateReadsCart(r) \/ UpdateReadsProduct(r)
  \/ SelectCartRow(r) \/ InsertCartRow(r) \/ UpdateCartRow(r)
  \/ RemoveItem(r)

Next == \E r \in Requests : Begin(r) \/ Step(r) \/ Abort(r)

Spec == Init /\ [][Next]_vars

(* PostgreSQL grants a lock to its waiters in turn, and the event loop and *)
(* the database run every statement that can run.                          *)
FairSpec == Spec /\ \A r \in Requests : SF_vars(Step(r))

-----------------------------------------------------------------------------
(* Properties.                                                             *)

Steps == {"idle", "cart", "product", "row", "order", "lock", "commit"}
Quantity == 0..MaxStock
RowType == [stock : Quantity, archived : BOOLEAN]
OrderType == [status : {"none", "paid", "shipped", "delivered", "cancelled"},
              user : Users \cup {None}, lines : L!Lines]
JobType == [op : AllOps \cup {"none"}, user : Users \cup {None},
            product : Products \cup {0}, order : OrderIds \cup {0}, n : Int]

\* The types of the state. That stock stays in its range says that no interleaving
\* of checkouts, cancellations and adjustments trips the column's CHECK (stock >= 0).
TypeOK ==
  /\ stock \in [Products -> Quantity]
  /\ archived \in [Products -> BOOLEAN]
  /\ orders \in [OrderIds -> OrderType]
  /\ audit \in [Products -> [net : Int, after : Quantity]]
  /\ cart \in [Users -> L!Lines]
  /\ productLock \in [Products -> Requests \cup {None}]
  /\ orderLock \in [OrderIds -> Requests \cup {None}]
  /\ pc \in [Requests -> Steps]
  /\ job \in [Requests -> JobType]
  /\ lines \in [Requests -> L!Lines]
  /\ seen \in [Requests -> [Products -> RowType]]
  /\ row \in [Requests -> Quantity]

\* Stock is conserved across interleaved and aborted transactions: no unit is sold
\* twice, returned twice or lost (order_service.checkout and cancel).
StockConserved == L!Conservation

\* What a request was told about a row it has locked is still so: the stock and the
\* archived flag that checkout and admin_adjust_stock validate cannot change before
\* they write, and an order that is being cancelled or advanced stays so.
LockedRowsFresh ==
  \A r \in Requests :
    /\ \A p \in Products : productLock[p] = r => seen[r][p] = Row(p)
    /\ \A o \in OrderIds : orderLock[o] = r =>
         /\ job[r].order = o
         /\ job[r].op = "cancel" => Cancellable(r) /\ lines[r] = orders[o].lines
         /\ job[r].op = "advance" => orders[o].status \in DOMAIN L!NextStatus

\* Statement r waits for a row lock that q holds.
WaitsFor(r, q) ==
  \/ pc[r] = "lock" /\ \E p \in Lowest(NotYetLocked(r)) : productLock[p] = q
  \/ pc[r] = "order" /\ orderLock[job[r].order] = q
  \/ /\ pc[r] = "commit" /\ job[r].op \in {"add", "update", "archive"}
     /\ productLock[job[r].product] = q

\* No deadlock: among any requests, one waits for none of the others. The comment
\* above ProductRepository.lock_products promises it of its lock order; cancel also
\* holds an order row while it waits, and archiving and cart inserts wait as well.
NoWaitCycle ==
  \A S \in (SUBSET Requests) \ {{}} : \E r \in S : \A q \in S : ~WaitsFor(r, q)

\* The interleaved transactions do to stock, orders and audit log what the
\* indivisible operations of Ledger do.
Implements == L!Spec

\* Every request is answered: no wait for a lock lasts for ever.
Termination == \A r \in Requests : pc[r] # "idle" ~> pc[r] = "idle"

\* A cart is ordered once: a new order's lines are rows its own commit takes out of
\* the cart ("Cart is empty" refuses the next checkout, order_service.py:42).
CartOrderedOnce ==
  [][\A o \in OrderIds : orders[o].status = "none" /\ orders'[o].status = "paid" =>
       \A p \in Products : orders'[o].lines[p] > 0 => cart[orders'[o].user][p] > 0]_vars
=============================================================================
