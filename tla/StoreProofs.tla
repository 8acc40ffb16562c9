----------------------------- MODULE StoreProofs ----------------------------
(***************************************************************************)
(* Proofs about Store for any customers, products, number of requests in   *)
(* flight and bounds: stock never leaves its range, what a request checked *)
(* under a row lock still holds when it writes, the transactions implement *)
(* the indivisible operations of Ledger, no requests wait for each other   *)
(* in a cycle, and stock is conserved.                                     *)
(***************************************************************************)
EXTENDS Store, FiniteSetTheorems, WellFoundedInduction, TLAPS

\* A request that has locked an order and is about to change it.
AtOrder(r) == \/ pc[r] = "lock" /\ job[r].op = "cancel"
              \/ pc[r] = "commit" /\ job[r].op = "advance"

\* What TypeOK and LockedRowsFresh lack to be inductive: where a request can be,
\* given its job and its locks. It speaks of no committed row.
Control(r) ==
  /\ pc[r] # "idle" => job[r] \in Jobs
  /\ pc[r] = "lock" => job[r].op \in {"checkout", "cancel", "adjust"}
  /\ pc[r] = "order" => job[r].op \in {"cancel", "advance"}
  /\ pc[r] = "lock" /\ job[r].op = "checkout" => lines[r] # Empty
  /\ pc[r] \in {"row", "commit"} /\ job[r].op \in {"add", "update"} => Requested(r) \in Quantity
  /\ \A p \in Products : productLock[p] = r => pc[r] = "lock"
  /\ \A o \in OrderIds : orderLock[o] = r => AtOrder(r) /\ job[r].order = o
  /\ AtOrder(r) => orderLock[job[r].order] = r

DataTypes == /\ stock \in [Products -> Quantity]
             /\ archived \in [Products -> BOOLEAN]
             /\ orders \in [OrderIds -> OrderType]
             /\ audit \in [Products -> [net : Int, after : Quantity]]
             /\ cart \in [Users -> L!Lines]

LocalTypes == /\ productLock \in [Products -> Requests \cup {None}]
              /\ orderLock \in [OrderIds -> Requests \cup {None}]
              /\ pc \in [Requests -> Steps]
              /\ job \in [Requests -> JobType]
              /\ lines \in [Requests -> L!Lines]
              /\ seen \in [Requests -> [Products -> RowType]]
              /\ row \in [Requests -> Quantity]

Inv == DataTypes /\ LocalTypes /\ LockedRowsFresh /\ \A r \in Requests : Control(r)

-----------------------------------------------------------------------------
LEMMA JobFields ==
  ASSUME NEW j \in Jobs
  PROVE  /\ j \in JobType
         /\ j.op \in AllOps
         /\ j.op \in {"checkout", "add", "update", "remove", "cancel"} => j.user \in Users
         /\ j.op \in {"add", "update", "remove", "adjust", "archive"} => j.product \in Products
         /\ j.op \in {"cancel", "advance"} => j.order \in OrderIds
         /\ j.op \in {"add", "update"} => j.n \in 1..MaxQty
         /\ j.op = "adjust" => j.n \in Deltas
<1>1. CASE j \in [op : {"checkout"}, user : Users, product : {0}, order : {0}, n : {0}]
  BY <1>1 DEF JobType, AllOps
<1>2. CASE j \in [op : {"add", "update"}, user : Users, product : Products, order : {0}, n : 1..MaxQty]
  BY <1>2 DEF JobType, AllOps
<1>3. CASE j \in [op : {"remove"}, user : Users, product : Products, order : {0}, n : {0}]
  BY <1>3 DEF JobType, AllOps
<1>4. CASE j \in [op : {"cancel"}, user : Users, product : {0}, order : OrderIds, n : {0}]
  BY <1>4 DEF JobType, AllOps
<1>5. CASE j \in [op : {"advance"}, user : {None}, product : {0}, order : OrderIds, n : {0}]
  BY <1>5 DEF JobType, AllOps
<1>6. CASE j \in [op : {"adjust"}, user : {None}, product : Products, order : {0}, n : Deltas]
  BY <1>6, StoreAssumption DEF StoreAssumption, JobType, AllOps
<1>7. CASE j \in [op : {"archive"}, user : {None}, product : Products, order : {0}, n : {0, 1}]
  BY <1>7 DEF JobType, AllOps
<1>. QED
  BY <1>1, <1>2, <1>3, <1>4, <1>5, <1>6, <1>7 DEF Jobs

\* Who holds no lock at an order is known by the job it has.
LEMMA AtOrderJob ==
  ASSUME Inv, NEW r \in Requests, AtOrder(r)
  PROVE  job[r].order \in OrderIds /\ job[r] \in Jobs
<1>1. job[r] \in Jobs /\ job[r].op \in {"cancel", "advance"}
  BY DEF Inv, AtOrder, Control
<1>. QED
  BY <1>1, JobFields

Untouched(q) == /\ UNCHANGED <<pc[q], job[q], lines[q], seen[q]>>
                /\ \A p \in Products : productLock'[p] = q <=> productLock[p] = q
                /\ \A o \in OrderIds : orderLock'[o] = q <=> orderLock[o] = q

\* A request keeps its place when a step concerns neither it nor its locks.
LEMMA OtherControl ==
  ASSUME Inv, NEW q \in Requests, Untouched(q)
  PROVE  Control(q)'
<1>1. AtOrder(q) => job[q].order \in OrderIds
  BY AtOrderJob
<1>. QED
  BY <1>1 DEF Inv, Untouched, Control, AtOrder, Requested

\* The end of a request touches nobody else's state.
LEMMA FinishControl ==
  ASSUME Inv, NEW r \in Requests, Finish(r)
  PROVE  LocalTypes' /\ \A q \in Requests : Control(q)'
<1>. USE StoreAssumption DEF StoreAssumption, Inv, Finish
<1>1. LocalTypes'
  <2>1. NoJob \in JobType
    BY DEF NoJob, JobType
  <2>2. Empty \in L!Lines
    BY DEF Empty, L!Lines
  <2>3. NoRows \in [Products -> RowType]
    BY DEF NoRows, NoRow, RowType, Quantity
  <2>. QED
    BY <2>1, <2>2, <2>3 DEF LocalTypes, Steps, Quantity
<1>2. ASSUME NEW q \in Requests PROVE Control(q)'
  <2>1. CASE q = r
    BY <2>1 DEF Control, AtOrder, LocalTypes
  <2>2. CASE q # r
    <3>1. Untouched(q)
      BY <2>2 DEF LocalTypes, Untouched
    <3>. QED
      BY <3>1, OtherControl
  <2>. QED
    BY <2>1, <2>2
<1>. QED
  BY <1>1, <1>2

\* A request that ends may change the rows it has locked and those nobody has.
LEMMA FinishFresh ==
  ASSUME Inv, NEW r \in Requests, Finish(r),
         \A p \in Products : productLock[p] \notin {None, r} => UNCHANGED <<stock[p], archived[p]>>,
         \A o \in OrderIds : orderLock[o] \notin {None, r} => UNCHANGED orders[o]
  PROVE  LockedRowsFresh'
<1>. SUFFICES ASSUME NEW q \in Requests
              PROVE  /\ \A p \in Products : productLock'[p] = q => seen'[q][p] = Row(p)'
                     /\ \A o \in OrderIds : orderLock'[o] = q =>
                          /\ job'[q].order = o
                          /\ job'[q].op = "cancel" =>
                               Cancellable(q)' /\ lines'[q] = orders'[o].lines
                          /\ job'[q].op = "advance" => orders'[o].status \in DOMAIN L!NextStatus
  BY DEF LockedRowsFresh, L!NextStatus
<1>. USE StoreAssumption DEF StoreAssumption, Inv, Finish, LocalTypes
<1>1. CASE q = r
  BY <1>1
<1>2. CASE q # r
  <2>1. UNCHANGED <<job[q], lines[q], seen[q]>>
    BY <1>2
  <2>2. ASSUME NEW p \in Products, productLock'[p] = q PROVE seen'[q][p] = Row(p)'
    <3>1. productLock[p] = q
      BY <1>2, <2>2
    <3>2. UNCHANGED <<stock[p], archived[p]>>
      BY <1>2, <3>1
    <3>3. seen[q][p] = Row(p)
      BY <3>1 DEF LockedRowsFresh
    <3>. QED
      BY <2>1, <3>2, <3>3 DEF Row
  <2>3. ASSUME NEW o \in OrderIds, orderLock'[o] = q
        PROVE  /\ job'[q].order = o
               /\ job'[q].op = "cancel" => Cancellable(q)' /\ lines'[q] = orders'[o].lines
               /\ job'[q].op = "advance" => orders'[o].status \in DOMAIN L!NextStatus
    <3>1. orderLock[o] = q /\ UNCHANGED orders[o]
      BY <1>2, <2>3
    <3>. QED
      BY <2>1, <3>1 DEF LockedRowsFresh, Cancellable
  <2>. QED
    BY <2>2, <2>3
<1>. QED
  BY <1>1, <1>2

LEMMA RejectInv ==
  ASSUME Inv, NEW r \in Requests, Reject(r)
  PROVE  Inv'
<1>1. LocalTypes' /\ \A q \in Requests : Control(q)'
  BY FinishControl DEF Reject
<1>2. LockedRowsFresh'
  BY FinishFresh DEF Reject, data
<1>3. DataTypes'
  BY DEF Inv, DataTypes, Reject, data
<1>. QED
  BY <1>1, <1>2, <1>3 DEF Inv

-----------------------------------------------------------------------------
(* Steps that change no committed row and no lock.                         *)

LEMMA ReadInv ==
  ASSUME Inv, NEW r \in Requests,
         UNCHANGED <<data, productLock, orderLock>>,
         \A q \in Requests : q # r => UNCHANGED <<pc[q], job[q], lines[q], seen[q]>>,
         pc[r] # "lock", ~AtOrder(r),
         LocalTypes', Control(r)'
  PROVE  Inv'
<1>1. ASSUME NEW q \in Requests PROVE Control(q)'
  BY OtherControl DEF Untouched
<1>2. /\ \A p \in Products : productLock[p] # r
      /\ \A o \in OrderIds : orderLock[o] # r
  BY DEF Inv, Control
<1>3. LockedRowsFresh'
  <2>. SUFFICES ASSUME NEW q \in Requests, q # r
                PROVE  /\ \A p \in Products : productLock'[p] = q => seen'[q][p] = Row(p)'
                       /\ \A o \in OrderIds : orderLock'[o] = q =>
                            /\ job'[q].order = o
                            /\ job'[q].op = "cancel" =>
                                 Cancellable(q)' /\ lines'[q] = orders'[o].lines
                            /\ job'[q].op = "advance" => orders'[o].status \in DOMAIN L!NextStatus
    BY <1>2 DEF LockedRowsFresh, L!NextStatus
  <2>. QED
    BY DEF Inv, LockedRowsFresh, Row, Cancellable, data
<1>4. DataTypes'
  BY DEF Inv, DataTypes, data
<1>. QED
  BY <1>1, <1>3, <1>4 DEF Inv

LEMMA InitInv == Init => Inv
<1>. SUFFICES ASSUME Init PROVE Inv
  OBVIOUS
<1>. USE StoreAssumption DEF StoreAssumption, Init, L!Init
<1>1. DataTypes
  BY DEF DataTypes, Quantity, OrderType, L!NoOrder, L!Empty, L!Lines
<1>2. LocalTypes
  BY DEF LocalTypes, Steps, JobType, NoJob, NoRows, NoRow, RowType, Quantity, Empty, L!Lines
<1>3. LockedRowsFresh
  BY DEF LockedRowsFresh
<1>4. \A r \in Requests : Control(r)
  BY DEF Control, AtOrder
<1>. QED
  BY <1>1, <1>2, <1>3, <1>4 DEF Inv

\* A job that begins is a request for one of the operations, at its first statement.
LEMMA BeginInv ==
  ASSUME Inv, NEW r \in Requests, Begin(r)
  PROVE  Inv'
<1>1. PICK j \in Jobs : /\ job' = [job EXCEPT ![r] = j]
                        /\ pc' = [pc EXCEPT ![r] = FirstStep(j.op)]
  BY DEF Begin
<1>2. j \in JobType /\ j.op \in AllOps
  BY JobFields
<1>3. FirstStep(j.op) \in {"cart", "product", "order", "lock"}
  BY <1>2 DEF FirstStep, AllOps
<1>4. FirstStep(j.op) = "lock" => j.op = "adjust"
  BY <1>2 DEF FirstStep, AllOps
<1>5. FirstStep(j.op) = "order" => j.op \in {"cancel", "advance"}
  BY <1>2 DEF FirstStep, AllOps
<1>6. UNCHANGED <<data, productLock, orderLock, lines, seen, row>> /\ pc[r] = "idle"
  BY DEF Begin
<1>7. LocalTypes'
  BY <1>1, <1>2, <1>3, <1>6 DEF Inv, LocalTypes, Steps
<1>8. Control(r)'
  <2>1. pc'[r] = FirstStep(j.op) /\ job'[r] = j
    BY <1>1 DEF Inv, LocalTypes
  <2>2. ~AtOrder(r) /\ ~AtOrder(r)'
    BY <2>1, <1>3, <1>4, <1>6 DEF AtOrder
  <2>. QED
    BY <2>1, <2>2, <1>3, <1>4, <1>5, <1>6 DEF Inv, Control
<1>9. \A q \in Requests : q # r => UNCHANGED <<pc[q], job[q], lines[q], seen[q]>>
  BY <1>1, <1>6 DEF Inv, LocalTypes
<1>. QED
  BY <1>6, <1>7, <1>8, <1>9, ReadInv DEF AtOrder

-----------------------------------------------------------------------------
(* Reading steps. *)

LEMMA CheckoutReadsCartInv ==
  ASSUME Inv, NEW r \in Requests, CheckoutReadsCart(r)
  PROVE  Inv'
<1>1. CASE Reject(r)
  BY <1>1, RejectInv
<1>2. CASE /\ cart[job[r].user] # Empty
           /\ ReadCart(r)
           /\ Goto(r, "lock")
           /\ UNCHANGED <<data, productLock, seen, row>>
  <2>1. job[r] \in Jobs /\ job[r].op = "checkout" /\ pc[r] = "cart"
    BY DEF CheckoutReadsCart, At, Inv, Control
  <2>2. cart[job[r].user] \in L!Lines
    BY <2>1, JobFields DEF Inv, DataTypes
  <2>3. LocalTypes'
    BY <1>2, <2>2 DEF Inv, LocalTypes, ReadCart, Goto, Steps
  <2>4. ~AtOrder(r) /\ ~AtOrder(r)' /\ pc'[r] = "lock" /\ lines'[r] = cart[job[r].user]
    BY <1>2, <2>1 DEF AtOrder, Inv, LocalTypes, ReadCart, Goto
  <2>5. Control(r)'
    BY <1>2, <2>1, <2>4 DEF Inv, Control, Goto
  <2>6. \A q \in Requests : q # r => UNCHANGED <<pc[q], job[q], lines[q], seen[q]>>
    BY <1>2 DEF Inv, LocalTypes, ReadCart, Goto
  <2>. QED
    BY <1>2, <2>1, <2>3, <2>4, <2>5, <2>6, ReadInv DEF Goto
<1>. QED
  BY <1>1, <1>2 DEF CheckoutReadsCart

\* A request that moves on to a step where it holds no lock yet.
LEMMA GotoInv ==
  ASSUME Inv, NEW r \in Requests, NEW step \in {"cart", "product", "row", "commit"},
         Goto(r, step), UNCHANGED <<data, productLock>>,
         pc[r] \in {"cart", "product", "row"},
         job[r].op \in {"add", "update", "archive"},
         \A q \in Requests : q # r => UNCHANGED <<lines[q], seen[q]>>,
         lines' \in [Requests -> L!Lines],
         seen' \in [Requests -> [Products -> RowType]],
         row' \in [Requests -> Quantity],
         step \in {"row", "commit"} /\ job[r].op \in {"add", "update"} => Requested(r)' \in Quantity
  PROVE  Inv'
<1>1. LocalTypes'
  BY DEF Inv, LocalTypes, Goto, Steps
<1>2. ~AtOrder(r) /\ ~AtOrder(r)' /\ pc'[r] = step /\ job'[r] = job[r] /\ orderLock' = orderLock
  BY DEF AtOrder, Inv, LocalTypes, Goto
<1>3. Control(r)'
  BY <1>2 DEF Inv, Control
<1>4. \A q \in Requests : q # r => UNCHANGED <<pc[q], job[q]>>
  BY DEF Inv, LocalTypes, Goto
<1>. QED
  BY <1>1, <1>2, <1>3, <1>4, ReadInv

\* The two kinds of rows that are read are well-typed.
LEMMA ReadTypes ==
  ASSUME Inv, NEW r \in Requests, job[r].op \in {"add", "update", "archive"}, pc[r] # "idle"
  PROVE  /\ job[r] \in Jobs
         /\ job[r].product \in Products
         /\ job[r].op \in {"add", "update"} => job[r].user \in Users /\ job[r].n \in 1..MaxQty
         /\ ReadProduct(r) => /\ seen' \in [Requests -> [Products -> RowType]]
                              /\ \A q \in Requests : q # r => seen'[q] = seen[q]
         /\ ReadCart(r) /\ job[r].op # "archive" =>
              /\ lines' \in [Requests -> L!Lines]
              /\ lines'[r] = cart[job[r].user]
              /\ \A q \in Requests : q # r => lines'[q] = lines[q]
<1>1. /\ job[r] \in Jobs
      /\ job[r].product \in Products
      /\ job[r].op \in {"add", "update"} => job[r].user \in Users /\ job[r].n \in 1..MaxQty
  BY JobFields DEF Inv, Control
<1>2. Row(job[r].product) \in RowType
  BY <1>1 DEF Row, RowType, Inv, DataTypes
<1>3. job[r].op # "archive" => cart[job[r].user] \in L!Lines
  BY <1>1 DEF Inv, DataTypes
<1>4. ASSUME ReadProduct(r)
      PROVE  /\ seen' \in [Requests -> [Products -> RowType]]
             /\ \A q \in Requests : q # r => seen'[q] = seen[q]
  <2>1. seen \in [Requests -> [Products -> RowType]]
    BY DEF Inv, LocalTypes
  <2>2. [seen[r] EXCEPT ![job[r].product] = Row(job[r].product)] \in [Products -> RowType]
    BY <1>1, <1>2, <2>1
  <2>. QED
    BY <1>4, <2>1, <2>2 DEF ReadProduct
<1>5. ASSUME ReadCart(r), job[r].op # "archive"
      PROVE  /\ lines' \in [Requests -> L!Lines]
             /\ lines'[r] = cart[job[r].user]
             /\ \A q \in Requests : q # r => lines'[q] = lines[q]
  BY <1>3, <1>5 DEF ReadCart, Inv, LocalTypes
<1>. QED
  BY <1>1, <1>4, <1>5

LEMMA CartReadsInv ==
  ASSUME Inv, NEW r \in Requests,
         \/ ArchiveReads(r) \/ AddReadsProduct(r) \/ AddReadsCart(r)
         \/ UpdateReadsCart(r) \/ UpdateReadsProduct(r) \/ SelectCartRow(r)
  PROVE  Inv'
<1>. USE StoreAssumption DEF StoreAssumption
<1>1. CASE ArchiveReads(r)
  BY <1>1, ReadTypes, GotoInv DEF ArchiveReads, At, Inv, LocalTypes
<1>2. CASE AddReadsProduct(r)
  <2>1. CASE Reject(r)
    BY <2>1, RejectInv
  <2>2. CASE ReadProduct(r) /\ Goto(r, "cart") /\ UNCHANGED <<data, productLock, lines, row>>
    BY <1>2, <2>2, ReadTypes, GotoInv DEF AddReadsProduct, At, Inv, LocalTypes
  <2>. QED
    BY <1>2, <2>1, <2>2 DEF AddReadsProduct
<1>3. CASE AddReadsCart(r)
  <2>1. CASE Reject(r)
    BY <2>1, RejectInv
  <2>2. CASE /\ cart[job[r].user][job[r].product] + job[r].n <= seen[r][job[r].product].stock
             /\ ReadCart(r) /\ Goto(r, "row") /\ UNCHANGED <<data, productLock, seen, row>>
    <3>1. job[r].op = "add" /\ pc[r] = "cart"
      BY <1>3 DEF AddReadsCart, At
    <3>2. /\ job[r].product \in Products /\ job[r].user \in Users /\ job[r].n \in 1..MaxQty
          /\ lines' \in [Requests -> L!Lines] /\ lines'[r] = cart[job[r].user]
          /\ \A q \in Requests : q # r => lines'[q] = lines[q]
      BY <2>2, <3>1, ReadTypes
    <3>3. /\ seen[r][job[r].product].stock \in 0..MaxStock
          /\ cart[job[r].user][job[r].product] \in 0..MaxStock
      <4>1. seen[r] \in [Products -> RowType]
        BY DEF Inv, LocalTypes
      <4>2. cart[job[r].user] \in [Products -> 0..MaxStock]
        BY <3>2 DEF Inv, DataTypes, L!Lines
      <4>. QED
        BY <3>2, <4>1, <4>2 DEF RowType, Quantity
    <3>4. Requested(r)' = cart[job[r].user][job[r].product] + job[r].n
      BY <2>2, <3>1, <3>2 DEF Requested, Goto
    <3>5. Requested(r)' \in Quantity
      BY <2>2, <3>2, <3>3, <3>4 DEF Quantity
    <3>. QED
      BY <2>2, <3>1, <3>2, <3>5, GotoInv DEF Inv, LocalTypes
  <2>. QED
    BY <1>3, <2>1, <2>2 DEF AddReadsCart
<1>4. CASE UpdateReadsCart(r)
  <2>1. CASE Reject(r)
    BY <2>1, RejectInv
  <2>2. CASE ReadCart(r) /\ Goto(r, "product") /\ UNCHANGED <<data, productLock, seen, row>>
    BY <1>4, <2>2, ReadTypes, GotoInv DEF UpdateReadsCart, At, Inv, LocalTypes
  <2>. QED
    BY <1>4, <2>1, <2>2 DEF UpdateReadsCart
<1>5. CASE UpdateReadsProduct(r)
  <2>1. CASE Reject(r)
    BY <2>1, RejectInv
  <2>2. CASE /\ job[r].n <= stock[job[r].product]
             /\ ReadProduct(r) /\ Goto(r, "row") /\ UNCHANGED <<data, productLock, lines, row>>
    <3>1. job[r].op = "update" /\ pc[r] = "product"
      BY <1>5 DEF UpdateReadsProduct, At
    <3>2. /\ job[r].product \in Products /\ job[r].n \in 1..MaxQty
          /\ seen' \in [Requests -> [Products -> RowType]]
          /\ \A q \in Requests : q # r => seen'[q] = seen[q]
      BY <2>2, <3>1, ReadTypes
    <3>3. stock[job[r].product] \in 0..MaxStock
      BY <3>2 DEF Inv, DataTypes, Quantity
    <3>4. Requested(r)' \in Quantity
      BY <2>2, <3>1, <3>2, <3>3 DEF Requested, Goto, Quantity
    <3>. QED
      BY <2>2, <3>1, <3>2, <3>4, GotoInv DEF Inv, LocalTypes
  <2>. QED
    BY <1>5, <2>1, <2>2 DEF UpdateReadsProduct
<1>6. CASE SelectCartRow(r)
  <2>1. job[r].op \in {"add", "update"} /\ pc[r] = "row"
    BY <1>6 DEF SelectCartRow
  <2>2. job[r].product \in Products /\ job[r].user \in Users
    BY <2>1, ReadTypes
  <2>3. cart[job[r].user][job[r].product] \in Quantity /\ lines[r][job[r].product] \in Quantity
    <3>1. cart[job[r].user] \in [Products -> 0..MaxStock]
      BY <2>2 DEF Inv, DataTypes, L!Lines
    <3>2. lines[r] \in [Products -> 0..MaxStock]
      BY DEF Inv, LocalTypes, L!Lines
    <3>. QED
      BY <2>2, <3>1, <3>2 DEF Quantity
  <2>4. row' \in [Requests -> Quantity]
    BY <1>6, <2>3 DEF SelectCartRow, Inv, LocalTypes
  <2>5. Requested(r) \in Quantity
    BY <2>1 DEF Inv, Control
  <2>6. Goto(r, "commit") /\ UNCHANGED <<data, productLock, lines, seen>>
    BY <1>6 DEF SelectCartRow
  <2>7. Requested(r)' = Requested(r)
    BY <2>6 DEF Requested, Goto
  <2>. QED
    BY <2>1, <2>4, <2>5, <2>6, <2>7, GotoInv DEF Inv, LocalTypes
<1>. QED
  BY <1>1, <1>2, <1>3, <1>4, <1>5, <1>6

-----------------------------------------------------------------------------
(* Taking locks. *)

LEMMA LockProductInv ==
  ASSUME Inv, NEW r \in Requests, LockProduct(r)
  PROVE  Inv'
<1>. USE StoreAssumption DEF StoreAssumption
<1>1. PICK p \in Products : /\ productLock[p] = None
                            /\ productLock' = [productLock EXCEPT ![p] = r]
                            /\ seen' = [seen EXCEPT ![r][p] = Row(p)]
  <2>1. PICK p \in Lowest(NotYetLocked(r)) :
               /\ productLock[p] = None
               /\ productLock' = [productLock EXCEPT ![p] = r]
               /\ seen' = [seen EXCEPT ![r][p] = Row(p)]
    BY DEF LockProduct
  <2>2. job[r].op = "adjust" => job[r].product \in Products
    BY JobFields DEF LockProduct, Inv, Control
  <2>3. p \in Products
    BY <2>2 DEF Lowest, NotYetLocked, ToLock
  <2>. QED
    BY <2>1, <2>3
<1>2. pc[r] = "lock" /\ UNCHANGED <<data, orderLock, pc, job, lines, row>>
  BY DEF LockProduct
<1>3. LocalTypes'
  <2>1. Row(p) \in RowType
    BY DEF Row, RowType, Inv, DataTypes
  <2>2. seen \in [Requests -> [Products -> RowType]]
    BY DEF Inv, LocalTypes
  <2>3. [seen[r] EXCEPT ![p] = Row(p)] \in [Products -> RowType]
    BY <2>1, <2>2
  <2>4. seen' \in [Requests -> [Products -> RowType]]
    BY <1>1, <2>2, <2>3
  <2>. QED
    BY <1>1, <1>2, <2>4 DEF Inv, LocalTypes
<1>4. ASSUME NEW q \in Requests PROVE Control(q)'
  <2>1. \A a \in Products : productLock'[a] = q => (productLock[a] = q \/ q = r)
    BY <1>1 DEF Inv, LocalTypes
  <2>. QED
    BY <1>2, <2>1 DEF Inv, Control, AtOrder, Requested
<1>5. LockedRowsFresh'
  <2>. SUFFICES ASSUME NEW q \in Requests
                PROVE  /\ \A a \in Products : productLock'[a] = q => seen'[q][a] = Row(a)'
                       /\ \A o \in OrderIds : orderLock'[o] = q =>
                            /\ job'[q].order = o
                            /\ job'[q].op = "cancel" =>
                                 Cancellable(q)' /\ lines'[q] = orders'[o].lines
                            /\ job'[q].op = "advance" => orders'[o].status \in DOMAIN L!NextStatus
    BY DEF LockedRowsFresh, L!NextStatus
  <2>1. ASSUME NEW a \in Products, productLock'[a] = q PROVE seen'[q][a] = Row(a)'
    <3>1. Row(a)' = Row(a)
      BY <1>2 DEF Row, data
    <3>2. CASE a = p
      BY <1>1, <2>1, <3>1, <3>2 DEF Inv, LocalTypes
    <3>3. CASE a # p
      <4>1. productLock[a] = q
        BY <1>1, <2>1, <3>3 DEF Inv, LocalTypes
      <4>2. seen'[q][a] = seen[q][a]
        BY <1>1, <3>3 DEF Inv, LocalTypes
      <4>. QED
        BY <3>1, <4>1, <4>2 DEF Inv, LockedRowsFresh
    <3>. QED
      BY <3>2, <3>3
  <2>2. ASSUME NEW o \in OrderIds, orderLock'[o] = q
        PROVE  /\ job'[q].order = o
               /\ job'[q].op = "cancel" => Cancellable(q)' /\ lines'[q] = orders'[o].lines
               /\ job'[q].op = "advance" => orders'[o].status \in DOMAIN L!NextStatus
    BY <1>2, <2>2 DEF Inv, LockedRowsFresh, Cancellable, data
  <2>. QED
    BY <2>1, <2>2
<1>6. DataTypes'
  BY <1>2 DEF Inv, DataTypes, data
<1>. QED
  BY <1>3, <1>4, <1>5, <1>6 DEF Inv

\* cancel and admin_advance_status when the order qualifies.
LEMMA LockOrderInv ==
  ASSUME Inv, NEW r \in Requests,
         pc[r] = "order", job[r].op \in {"cancel", "advance"},
         orderLock[job[r].order] = None,
         orderLock' = [orderLock EXCEPT ![job[r].order] = r],
         UNCHANGED <<data, productLock, job, seen, row>>,
         \/ /\ job[r].op = "cancel" /\ Cancellable(r)
            /\ lines' = [lines EXCEPT ![r] = orders[job[r].order].lines]
            /\ pc' = [pc EXCEPT ![r] = "lock"]
         \/ /\ job[r].op = "advance" /\ orders[job[r].order].status \in DOMAIN L!NextStatus
            /\ lines' = lines
            /\ pc' = [pc EXCEPT ![r] = "commit"]
  PROVE  Inv'
<1>. USE StoreAssumption DEF StoreAssumption
<1>1. job[r] \in Jobs /\ job[r].order \in OrderIds
  BY JobFields DEF Inv, Control
<1>2. orders[job[r].order].lines \in L!Lines
  BY <1>1 DEF Inv, DataTypes, OrderType
<1>3. LocalTypes'
  BY <1>1, <1>2 DEF Inv, LocalTypes, Steps
<1>4. \A p \in Products : productLock[p] # r
  BY DEF Inv, Control
<1>5. \A o \in OrderIds : orderLock[o] # r
  BY DEF Inv, Control, AtOrder
<1>6. ASSUME NEW q \in Requests, q # r PROVE Control(q)'
  <2>1. Untouched(q)
    BY <1>1, <1>6 DEF Untouched, Inv, LocalTypes
  <2>. QED
    BY <2>1, OtherControl
<1>7. Control(r)'
  <2>1. orderLock'[job[r].order] = r /\ \A o \in OrderIds : orderLock'[o] = r => o = job[r].order
    BY <1>1, <1>5 DEF Inv, LocalTypes
  <2>2. AtOrder(r)' /\ pc'[r] \in {"lock", "commit"} /\ (pc'[r] = "lock" => job[r].op = "cancel")
    BY DEF AtOrder, Inv, LocalTypes
  <2>. QED
    BY <1>1, <1>4, <2>1, <2>2 DEF Control
<1>8. LockedRowsFresh'
  <2>. SUFFICES ASSUME NEW q \in Requests
                PROVE  /\ \A a \in Products : productLock'[a] = q => seen'[q][a] = Row(a)'
                       /\ \A o \in OrderIds : orderLock'[o] = q =>
                            /\ job'[q].order = o
                            /\ job'[q].op = "cancel" =>
                                 Cancellable(q)' /\ lines'[q] = orders'[o].lines
                            /\ job'[q].op = "advance" => orders'[o].status \in DOMAIN L!NextStatus
    BY DEF LockedRowsFresh, L!NextStatus
  <2>1. ASSUME NEW a \in Products, productLock'[a] = q PROVE seen'[q][a] = Row(a)'
    BY <2>1 DEF Inv, LockedRowsFresh, Row, data
  <2>2. ASSUME NEW o \in OrderIds, orderLock'[o] = q
        PROVE  /\ job'[q].order = o
               /\ job'[q].op = "cancel" => Cancellable(q)' /\ lines'[q] = orders'[o].lines
               /\ job'[q].op = "advance" => orders'[o].status \in DOMAIN L!NextStatus
    <3>1. CASE q = r
      <4>1. o = job[r].order
        BY <1>1, <1>5, <2>2, <3>1 DEF Inv, LocalTypes
      <4>2. job[r].op = "cancel" => lines'[r] = orders[job[r].order].lines
        BY DEF Inv, LocalTypes
      <4>. QED
        BY <3>1, <4>1, <4>2 DEF Cancellable, data
    <3>2. CASE q # r
      <4>1. orderLock[o] = q /\ lines'[q] = lines[q]
        BY <1>1, <2>2, <3>2 DEF Inv, LocalTypes
      <4>. QED
        BY <4>1 DEF Inv, LockedRowsFresh, Cancellable, data
    <3>. QED
      BY <3>1, <3>2
  <2>. QED
    BY <2>1, <2>2
<1>9. DataTypes'
  BY DEF Inv, DataTypes, data
<1>. QED
  BY <1>3, <1>6, <1>7, <1>8, <1>9 DEF Inv

LEMMA LocksOrderInv ==
  ASSUME Inv, NEW r \in Requests, CancelLocksOrder(r) \/ AdvanceLocksOrder(r)
  PROVE  Inv'
<1>1. CASE Reject(r)
  BY <1>1, RejectInv
<1>2. CASE CancelLocksOrder(r) /\ ~Reject(r)
  BY <1>2, LockOrderInv DEF CancelLocksOrder, At
<1>3. CASE AdvanceLocksOrder(r) /\ ~Reject(r)
  BY <1>3, LockOrderInv DEF AdvanceLocksOrder, At, local
<1>. QED
  BY <1>1, <1>2, <1>3

-----------------------------------------------------------------------------
(* Commits. Each lemma says what the locked rows let the request write.    *)

LEMMA CheckoutFacts ==
  ASSUME Inv, NEW r \in Requests, CheckoutCommits(r)
  PROVE  /\ job[r].user \in Users
         /\ lines[r] \in L!Lines
         /\ lines[r] # Empty
         /\ \A p \in Products : lines[r][p] > 0 => productLock[p] = r
         /\ L!CanServe(lines[r])
<1>1. At(r, "checkout", "lock") /\ AllLocked(r) /\ \A p \in Products : ~Offends(r, p)
  BY DEF CheckoutCommits
<1>2. job[r].user \in Users /\ lines[r] # Empty
  BY <1>1, JobFields DEF At, Inv, Control
<1>3. lines[r] \in L!Lines
  BY DEF Inv, LocalTypes
<1>4. ASSUME NEW p \in Products, lines[r][p] > 0 PROVE productLock[p] = r
  BY <1>1, <1>4 DEF At, AllLocked, NotYetLocked, ToLock
<1>5. L!CanServe(lines[r])
  <2>. SUFFICES ASSUME NEW p \in Products, lines[r][p] > 0
                PROVE  ~archived[p] /\ lines[r][p] <= stock[p]
    BY DEF L!CanServe
  <2>1. seen[r][p] = Row(p)
    BY <1>4 DEF Inv, LockedRowsFresh
  <2>2. ~Row(p).archived /\ ~(Row(p).stock < lines[r][p])
    BY <1>1, <2>1 DEF Offends
  <2>3. stock[p] \in Int /\ lines[r][p] \in Int
    <3>1. stock \in [Products -> 0..MaxStock] /\ lines[r] \in [Products -> 0..MaxStock]
      BY <1>3 DEF Inv, DataTypes, Quantity, L!Lines
    <3>. QED
      BY <3>1
  <2>. QED
    BY <2>2, <2>3 DEF Row
<1>. QED
  BY <1>2, <1>3, <1>4, <1>5

LEMMA CheckoutCommitsInv ==
  ASSUME Inv, NEW r \in Requests, CheckoutCommits(r)
  PROVE  Inv'
<1>. USE StoreAssumption DEF StoreAssumption
<1>1. LocalTypes' /\ \A q \in Requests : Control(q)'
  BY FinishControl DEF CheckoutCommits
<1>2. PICK o \in OrderIds :
           /\ L!Fresh(o)
           /\ orders' = [orders EXCEPT ![o] =
                [status |-> "paid", user |-> job[r].user, lines |-> lines[r]]]
  BY DEF CheckoutCommits
<1>3. /\ stock' = [p \in Products |-> stock[p] - lines[r][p]]
      /\ cart' = [cart EXCEPT ![job[r].user] = Empty]
      /\ Finish(r)
      /\ UNCHANGED <<archived, audit>>
  BY DEF CheckoutCommits
<1>4. stock \in [Products -> 0..MaxStock] /\ lines[r] \in [Products -> 0..MaxStock]
  BY DEF Inv, DataTypes, LocalTypes, Quantity, L!Lines
<1>5. DataTypes'
  <2>1. ASSUME NEW p \in Products PROVE stock[p] - lines[r][p] \in 0..MaxStock
    <3>1. stock[p] \in 0..MaxStock /\ lines[r][p] \in 0..MaxStock
      BY <1>4
    <3>2. lines[r][p] > 0 => lines[r][p] <= stock[p]
      BY CheckoutFacts DEF L!CanServe
    <3>. QED
      BY <3>1, <3>2
  <2>2. stock' \in [Products -> Quantity]
    BY <1>3, <2>1 DEF Quantity
  <2>3. orders' \in [OrderIds -> OrderType]
    BY <1>2, CheckoutFacts DEF OrderType, Inv, DataTypes
  <2>4. Empty \in L!Lines
    BY DEF Empty, L!Lines
  <2>5. cart' \in [Users -> L!Lines]
    BY <1>3, <2>4 DEF Inv, DataTypes
  <2>. QED
    BY <1>3, <2>2, <2>3, <2>5 DEF Inv, DataTypes
<1>6. ASSUME NEW p \in Products, productLock[p] \notin {None, r}
      PROVE  UNCHANGED <<stock[p], archived[p]>>
  <2>1. ~(lines[r][p] > 0)
    BY <1>6, CheckoutFacts
  <2>2. lines[r][p] \in 0..MaxStock /\ stock[p] \in 0..MaxStock
    BY <1>4
  <2>3. lines[r][p] = 0
    BY <2>1, <2>2
  <2>4. stock'[p] = stock[p]
    BY <1>3, <2>2, <2>3
  <2>. QED
    BY <1>3, <2>4
<1>7. ASSUME NEW a \in OrderIds, orderLock[a] \notin {None, r} PROVE UNCHANGED orders[a]
  <2>1. orderLock[a] \in Requests
    BY <1>7 DEF Inv, LocalTypes
  <2>2. orders[a].status # "none"
    <3>1. AtOrder(orderLock[a]) /\ job[orderLock[a]].order = a
      BY <2>1 DEF Inv, Control
    <3>. QED
      BY <2>1, <3>1 DEF Inv, LockedRowsFresh, AtOrder, Cancellable, L!NextStatus
  <2>3. a # o
    BY <1>2, <2>2 DEF L!Fresh
  <2>. QED
    BY <1>2, <2>3 DEF Inv, DataTypes
<1>8. LockedRowsFresh'
  BY <1>3, <1>6, <1>7, FinishFresh
<1>. QED
  BY <1>1, <1>5, <1>8 DEF Inv

\* The request that cancels or advances an order holds it, and it is what it was.
LEMMA OrderFacts ==
  ASSUME Inv, NEW r \in Requests, AtOrder(r)
  PROVE  LET o == job[r].order
         IN /\ o \in OrderIds
            /\ orderLock[o] = r
            /\ job[r].op = "cancel" => orders[o].status = "paid" /\ lines[r] = orders[o].lines
            /\ job[r].op = "advance" => orders[o].status \in DOMAIN L!NextStatus
<1>1. job[r].order \in OrderIds
  BY AtOrderJob
<1>2. orderLock[job[r].order] = r
  BY DEF Inv, Control
<1>. QED
  BY <1>1, <1>2 DEF Inv, LockedRowsFresh, Cancellable

LEMMA CancelCommitsInv ==
  ASSUME Inv, NEW r \in Requests, CancelCommits(r)
  PROVE  Inv'
<1>. USE StoreAssumption DEF StoreAssumption
<1>1. CASE Reject(r)
  BY <1>1, RejectInv
<1>2. CASE /\ \A p \in Products : Restored(r)[p] <= MaxStock
           /\ stock' = Restored(r)
           /\ orders' = [orders EXCEPT ![job[r].order].status = "cancelled"]
           /\ Finish(r)
           /\ UNCHANGED <<archived, audit, cart>>
  <2>1. LocalTypes' /\ \A q \in Requests : Control(q)'
    BY <1>2, FinishControl
  <2>2. stock \in [Products -> 0..MaxStock] /\ lines[r] \in [Products -> 0..MaxStock]
    BY DEF Inv, DataTypes, LocalTypes, Quantity, L!Lines
  <2>3. AtOrder(r) /\ AllLocked(r) /\ job[r].op = "cancel"
    BY DEF CancelCommits, At, AtOrder
  <2>4. job[r].order \in OrderIds /\ orderLock[job[r].order] = r
    BY <2>3, OrderFacts
  <2>5. DataTypes'
    <3>1. stock' \in [Products -> Quantity]
      BY <1>2, <2>2 DEF Restored, Quantity
    <3>2. orders' \in [OrderIds -> OrderType]
      BY <1>2, <2>4 DEF Inv, DataTypes, OrderType
    <3>. QED
      BY <1>2, <3>1, <3>2 DEF Inv, DataTypes
  <2>6. ASSUME NEW p \in Products, productLock[p] \notin {None, r}
        PROVE  UNCHANGED <<stock[p], archived[p]>>
    <3>1. ~(lines[r][p] > 0)
      BY <2>3, <2>6 DEF AllLocked, NotYetLocked, ToLock
    <3>2. lines[r][p] \in 0..MaxStock
      BY <2>2, Zenon
    <3>3. lines[r][p] = 0
      BY <3>1, <3>2, SMT
    <3>. QED
      BY <1>2, <2>2, <3>3 DEF Restored
  <2>7. ASSUME NEW a \in OrderIds, orderLock[a] \notin {None, r} PROVE UNCHANGED orders[a]
    BY <1>2, <2>4, <2>7 DEF Inv, DataTypes
  <2>8. LockedRowsFresh'
    BY <1>2, <2>6, <2>7, FinishFresh
  <2>. QED
    BY <2>1, <2>5, <2>8 DEF Inv
<1>. QED
  BY <1>1, <1>2 DEF CancelCommits

LEMMA AdvanceCommitsInv ==
  ASSUME Inv, NEW r \in Requests, AdvanceCommits(r)
  PROVE  Inv'
<1>. USE StoreAssumption DEF StoreAssumption
<1>1. LocalTypes' /\ \A q \in Requests : Control(q)'
  BY FinishControl DEF AdvanceCommits
<1>2. AtOrder(r) /\ job[r].op = "advance"
  BY DEF AdvanceCommits, At, AtOrder
<1>3. /\ job[r].order \in OrderIds /\ orderLock[job[r].order] = r
      /\ orders[job[r].order].status \in DOMAIN L!NextStatus
  BY <1>2, OrderFacts
<1>4. /\ orders' = [orders EXCEPT ![job[r].order].status = L!NextStatus[@]]
      /\ Finish(r) /\ UNCHANGED <<stock, archived, audit, cart>>
  BY DEF AdvanceCommits
<1>5. DataTypes'
  <2>1. L!NextStatus[orders[job[r].order].status] \in {"shipped", "delivered"}
    BY <1>3 DEF L!NextStatus
  <2>2. orders' \in [OrderIds -> OrderType]
    BY <1>3, <1>4, <2>1 DEF Inv, DataTypes, OrderType
  <2>. QED
    BY <1>4, <2>2 DEF Inv, DataTypes
<1>6. ASSUME NEW a \in OrderIds, orderLock[a] \notin {None, r} PROVE UNCHANGED orders[a]
  BY <1>3, <1>4, <1>6 DEF Inv, DataTypes
<1>7. LockedRowsFresh'
  BY <1>4, <1>6, FinishFresh
<1>. QED
  BY <1>1, <1>5, <1>7 DEF Inv

LEMMA AdjustFacts ==
  ASSUME Inv, NEW r \in Requests, At(r, "adjust", "lock"), AllLocked(r)
  PROVE  /\ job[r].product \in Products /\ job[r].n \in Deltas
         /\ productLock[job[r].product] = r
         /\ seen[r][job[r].product].stock = stock[job[r].product]
<1>1. job[r].product \in Products /\ job[r].n \in Deltas
  BY JobFields DEF At, Inv, Control
<1>2. productLock[job[r].product] = r
  BY DEF At, AllLocked, NotYetLocked, ToLock
<1>3. seen[r][job[r].product] = Row(job[r].product)
  BY <1>1, <1>2 DEF Inv, LockedRowsFresh
<1>. QED
  BY <1>1, <1>2, <1>3 DEF Row

LEMMA AdjustCommitsInv ==
  ASSUME Inv, NEW r \in Requests, AdjustCommits(r)
  PROVE  Inv'
<1>. USE StoreAssumption DEF StoreAssumption
<1>. DEFINE p == job[r].product
            after == seen[r][p].stock + job[r].n
<1>1. CASE Reject(r)
  BY <1>1, RejectInv
<1>2. CASE /\ after \in 0..MaxStock
           /\ stock' = [stock EXCEPT ![p] = @ + job[r].n]
           /\ audit' = [audit EXCEPT ![p] = [net |-> @.net + job[r].n, after |-> after]]
           /\ Finish(r)
           /\ UNCHANGED <<archived, orders, cart>>
  <2>1. LocalTypes' /\ \A q \in Requests : Control(q)'
    BY <1>2, FinishControl
  <2>2. p \in Products /\ job[r].n \in Int /\ productLock[p] = r /\ after = stock[p] + job[r].n
    BY AdjustFacts DEF AdjustCommits
  <2>3. DataTypes'
    <3>1. stock' \in [Products -> Quantity]
      <4>1. stock \in [Products -> Quantity] /\ stock[p] + job[r].n \in Quantity
        BY <1>2, <2>2 DEF Inv, DataTypes, Quantity
      <4>2. stock' = [stock EXCEPT ![p] = stock[p] + job[r].n]
        BY <1>2
      <4>. HIDE DEF p
      <4>. QED
        BY <4>1, <4>2
    <3>2. audit[p].net + job[r].n \in Int
      <4>1. audit[p] \in [net : Int, after : Quantity]
        BY <2>2 DEF Inv, DataTypes
      <4>2. audit[p].net \in Int
        BY <4>1
      <4>. HIDE DEF p
      <4>. QED
        BY <2>2, <4>2
    <3>3. audit' \in [Products -> [net : Int, after : Quantity]]
      BY <1>2, <2>2, <3>2 DEF Inv, DataTypes, Quantity
    <3>. QED
      BY <1>2, <3>1, <3>3 DEF Inv, DataTypes
  <2>4. ASSUME NEW a \in Products, productLock[a] \notin {None, r}
        PROVE  UNCHANGED <<stock[a], archived[a]>>
    BY <1>2, <2>2, <2>4 DEF Inv, DataTypes
  <2>5. LockedRowsFresh'
    BY <1>2, <2>4, FinishFresh
  <2>. QED
    BY <2>1, <2>3, <2>5 DEF Inv
<1>. QED
  BY <1>1, <1>2 DEF AdjustCommits

\* Archiving writes the flag of a row that nobody has locked.
LEMMA ArchiveCommitsInv ==
  ASSUME Inv, NEW r \in Requests, ArchiveCommits(r)
  PROVE  Inv'
<1>. DEFINE p == job[r].product
            flag == job[r].n = 1
<1>1. CASE Reject(r)
  BY <1>1, RejectInv
<1>2. CASE /\ productLock[p] = None
           /\ archived' = [archived EXCEPT ![p] = flag]
           /\ Finish(r)
           /\ UNCHANGED <<stock, orders, audit, cart>>
  <2>1. LocalTypes' /\ \A q \in Requests : Control(q)'
    BY <1>2, FinishControl
  <2>2. archived' \in [Products -> BOOLEAN]
    BY <1>2 DEF Inv, DataTypes
  <2>3. DataTypes'
    BY <1>2, <2>2 DEF Inv, DataTypes
  <2>4. ASSUME NEW a \in Products, productLock[a] \notin {None, r}
        PROVE  UNCHANGED <<stock[a], archived[a]>>
    BY <1>2, <2>4 DEF Inv, DataTypes
  <2>5. LockedRowsFresh'
    BY <1>2, <2>4, FinishFresh
  <2>. QED
    BY <2>1, <2>3, <2>5 DEF Inv
<1>. QED
  BY <1>1, <1>2 DEF ArchiveCommits

LEMMA PutCartRowInv ==
  ASSUME Inv, NEW r \in Requests, PutCartRow(r),
         job[r].op \in {"add", "update"}, pc[r] = "commit"
  PROVE  Inv'
<1>1. LocalTypes' /\ \A q \in Requests : Control(q)'
  BY FinishControl DEF PutCartRow
<1>2. Requested(r) \in Quantity
  BY DEF Inv, Control
<1>3. cart' \in [Users -> L!Lines]
  BY <1>2, ReadTypes DEF PutCartRow, Inv, DataTypes, L!Lines, Quantity
<1>4. DataTypes'
  BY <1>3 DEF PutCartRow, Inv, DataTypes
<1>5. LockedRowsFresh'
  BY FinishFresh DEF PutCartRow
<1>. QED
  BY <1>1, <1>4, <1>5 DEF Inv

LEMMA RemoveItemInv ==
  ASSUME Inv, NEW r \in Requests, RemoveItem(r)
  PROVE  Inv'
<1>. USE StoreAssumption DEF StoreAssumption
<1>1. LocalTypes' /\ \A q \in Requests : Control(q)'
  BY FinishControl DEF RemoveItem
<1>2. cart' \in [Users -> L!Lines]
  <2>1. job[r].user \in Users /\ job[r].product \in Products
    BY JobFields DEF RemoveItem, At, Inv, Control
  <2>. QED
    BY <2>1 DEF RemoveItem, Inv, DataTypes, L!Lines
<1>3. DataTypes'
  BY <1>2 DEF RemoveItem, Inv, DataTypes
<1>4. LockedRowsFresh'
  BY FinishFresh DEF RemoveItem
<1>. QED
  BY <1>1, <1>3, <1>4 DEF Inv

-----------------------------------------------------------------------------

LEMMA NextInv == Inv /\ [Next]_vars => Inv'
<1>1. ASSUME Inv, UNCHANGED vars PROVE Inv'
  BY <1>1 DEF Inv, DataTypes, LocalTypes, LockedRowsFresh, Control, AtOrder, Requested,
              Cancellable, Row, vars, data, local
<1>2. ASSUME Inv, NEW r \in Requests, Begin(r) PROVE Inv'
  BY <1>2, BeginInv
<1>3. ASSUME Inv, NEW r \in Requests, Abort(r) PROVE Inv'
  BY <1>3, RejectInv DEF Abort
<1>4. ASSUME Inv, NEW r \in Requests, Step(r) PROVE Inv'
  <2>1. CASE LockProduct(r)
    BY <1>4, <2>1, LockProductInv
  <2>2. CASE CheckoutReadsCart(r)
    BY <1>4, <2>2, CheckoutReadsCartInv
  <2>3. CASE CheckoutRefused(r)
    BY <1>4, <2>3, RejectInv DEF CheckoutRefused
  <2>4. CASE CheckoutCommits(r)
    BY <1>4, <2>4, CheckoutCommitsInv
  <2>5. CASE CancelLocksOrder(r) \/ AdvanceLocksOrder(r)
    BY <1>4, <2>5, LocksOrderInv
  <2>6. CASE CancelCommits(r)
    BY <1>4, <2>6, CancelCommitsInv
  <2>7. CASE AdvanceCommits(r)
    BY <1>4, <2>7, AdvanceCommitsInv
  <2>8. CASE AdjustCommits(r)
    BY <1>4, <2>8, AdjustCommitsInv
  <2>9. CASE ArchiveCommits(r)
    BY <1>4, <2>9, ArchiveCommitsInv
  <2>10. CASE \/ ArchiveReads(r) \/ AddReadsProduct(r) \/ AddReadsCart(r)
              \/ UpdateReadsCart(r) \/ UpdateReadsProduct(r) \/ SelectCartRow(r)
    BY <1>4, <2>10, CartReadsInv
  <2>11. CASE InsertCartRow(r) \/ UpdateCartRow(r)
    BY <1>4, <2>11, RejectInv, PutCartRowInv DEF InsertCartRow, UpdateCartRow
  <2>12. CASE RemoveItem(r)
    BY <1>4, <2>12, RemoveItemInv
  <2>. QED
    BY <1>4, <2>1, <2>2, <2>3, <2>4, <2>5, <2>6, <2>7, <2>8, <2>9, <2>10, <2>11, <2>12 DEF Step
<1>. QED
  BY <1>1, <1>2, <1>3, <1>4 DEF Next

LEMMA SpecInv == Spec => []Inv
BY InitInv, NextInv, PTL DEF Spec

\* Every behaviour keeps the types; in particular no interleaving of checkouts,
\* cancellations and adjustments takes a stock below zero.
THEOREM TypeCorrect == Spec => []TypeOK
<1>1. Inv => TypeOK
  BY DEF Inv, DataTypes, LocalTypes, TypeOK
<1>. QED
  BY <1>1, SpecInv, PTL

\* A row that a request has locked is as the request read it, whatever the others do.
THEOREM LockedRowsStayFresh == Spec => []LockedRowsFresh
<1>1. Inv => LockedRowsFresh
  BY DEF Inv
<1>. QED
  BY <1>1, SpecInv, PTL

-----------------------------------------------------------------------------
(* The transactions implement Ledger: a commit is one of its operations,   *)
(* every other step leaves stock, orders and audit log alone.              *)

LEMMA DataUnchanged ==
  ASSUME UNCHANGED data
  PROVE  UNCHANGED L!ledgerVars
BY DEF data, L!ledgerVars

LEMMA StepImplements ==
  ASSUME Inv, NEW r \in Requests, Step(r)
  PROVE  [L!Next]_(L!ledgerVars)
<1>. USE StoreAssumption DEF StoreAssumption
<1>1. CASE UNCHANGED data
  BY <1>1, DataUnchanged
<1>2. CASE CheckoutCommits(r)
  <2>1. PICK o \in OrderIds :
             /\ L!Fresh(o)
             /\ orders' = [orders EXCEPT ![o] =
                  [status |-> "paid", user |-> job[r].user, lines |-> lines[r]]]
    BY <1>2 DEF CheckoutCommits
  <2>2. L!Empty = Empty
    BY DEF L!Empty, Empty
  <2>3. L!Place(job[r].user, o, lines[r])
    BY <1>2, <2>1, <2>2, CheckoutFacts DEF L!Place, CheckoutCommits
  <2>. QED
    BY <1>2, <2>3, CheckoutFacts DEF L!Next
<1>3. CASE CancelCommits(r) /\ ~Reject(r)
  <2>1. AtOrder(r) /\ job[r].op = "cancel"
    BY <1>3 DEF CancelCommits, At, AtOrder
  <2>2. L!Cancel(job[r].order)
    BY <1>3, <2>1, OrderFacts DEF CancelCommits, Restored, L!Cancel
  <2>. QED
    BY <2>1, <2>2, OrderFacts DEF L!Next
<1>4. CASE AdvanceCommits(r)
  <2>1. AtOrder(r) /\ job[r].op = "advance"
    BY <1>4 DEF AdvanceCommits, At, AtOrder
  <2>2. L!Advance(job[r].order)
    BY <1>4, <2>1, OrderFacts DEF AdvanceCommits, L!Advance, Inv, DataTypes
  <2>. QED
    BY <2>1, <2>2, OrderFacts DEF L!Next
<1>5. CASE AdjustCommits(r) /\ ~Reject(r)
  <2>1. At(r, "adjust", "lock") /\ AllLocked(r)
    BY <1>5 DEF AdjustCommits
  <2>2. L!Adjust(job[r].product, job[r].n)
    BY <1>5, <2>1, AdjustFacts DEF AdjustCommits, L!Adjust
  <2>. QED
    BY <2>1, <2>2, AdjustFacts DEF L!Next
<1>6. CASE ArchiveCommits(r) /\ ~Reject(r)
  <2>1. job[r].product \in Products
    BY <1>6, ReadTypes DEF ArchiveCommits, At
  <2>2. L!SetArchived(job[r].product, job[r].n = 1)
    BY <1>6 DEF ArchiveCommits, L!SetArchived
  <2>. QED
    BY <2>1, <2>2 DEF L!Next
<1>7. CASE PutCartRow(r) \/ RemoveItem(r)
  BY <1>7 DEF PutCartRow, RemoveItem, L!ledgerVars
<1>8. \/ UNCHANGED data
      \/ CheckoutCommits(r)
      \/ CancelCommits(r) /\ ~Reject(r)
      \/ AdvanceCommits(r)
      \/ AdjustCommits(r) /\ ~Reject(r)
      \/ ArchiveCommits(r) /\ ~Reject(r)
      \/ PutCartRow(r)
      \/ RemoveItem(r)
  <2>1. Reject(r) => UNCHANGED data
    BY DEF Reject
  <2>2. LockProduct(r) \/ CheckoutReadsCart(r) \/ CheckoutRefused(r) => UNCHANGED data
    BY <2>1 DEF LockProduct, CheckoutReadsCart, CheckoutRefused
  <2>3. CancelLocksOrder(r) \/ AdvanceLocksOrder(r) => UNCHANGED data
    BY <2>1 DEF CancelLocksOrder, AdvanceLocksOrder
  <2>4. ArchiveReads(r) \/ AddReadsProduct(r) \/ AddReadsCart(r) => UNCHANGED data
    BY <2>1 DEF ArchiveReads, AddReadsProduct, AddReadsCart
  <2>5. UpdateReadsCart(r) \/ UpdateReadsProduct(r) \/ SelectCartRow(r) => UNCHANGED data
    BY <2>1 DEF UpdateReadsCart, UpdateReadsProduct, SelectCartRow
  <2>6. InsertCartRow(r) \/ UpdateCartRow(r) => PutCartRow(r) \/ UNCHANGED data
    BY <2>1 DEF InsertCartRow, UpdateCartRow
  <2>. QED
    BY <2>1, <2>2, <2>3, <2>4, <2>5, <2>6 DEF Step
<1>. QED
  BY <1>1, <1>2, <1>3, <1>4, <1>5, <1>6, <1>7, <1>8

\* Whatever the interleaving, aborts and waits, stock, orders, archived flags and
\* audit log change as the indivisible operations of Ledger change them: in
\* particular a cancelled order is never advanced or cancelled again, and an order
\* is placed only for products on sale with enough stock at its commit.
THEOREM StoreImplementsLedger == Spec => Implements
<1>1. Init => L!Init
  BY DEF Init
<1>2. Inv /\ [Next]_vars => [L!Next]_(L!ledgerVars)
  <2>1. ASSUME Inv, UNCHANGED vars PROVE UNCHANGED L!ledgerVars
    BY <2>1, DataUnchanged DEF vars
  <2>2. ASSUME NEW r \in Requests, Begin(r) \/ Abort(r) PROVE UNCHANGED L!ledgerVars
    BY <2>2, DataUnchanged DEF Begin, Abort, Reject
  <2>. QED
    BY <2>1, <2>2, StepImplements DEF Next
<1>. QED
  BY <1>1, <1>2, SpecInv, PTL DEF Spec, Implements, L!Spec

-----------------------------------------------------------------------------
(* No deadlock. A request locks products in ascending order, so it waits   *)
(* only for products above those it holds.                                 *)
Ascending ==
  \A r \in Requests : \A p \in Products :
    productLock[p] = r => \A a \in NotYetLocked(r) : p < a

Acts(r) == Begin(r) \/ Step(r) \/ Abort(r)

\* A step of one request leaves the others where they are, with their locks.
LEMMA OthersKeep ==
  ASSUME Inv, NEW r \in Requests, Acts(r), NEW q \in Requests, q # r
  PROVE  /\ UNCHANGED <<job[q], lines[q]>>
         /\ \A p \in Products : productLock'[p] = q <=> productLock[p] = q
<1>. USE StoreAssumption DEF StoreAssumption, Inv, LocalTypes
<1>. DEFINE Kept == /\ UNCHANGED <<job[q], lines[q]>>
                    /\ \A p \in Products : productLock'[p] = q <=> productLock[p] = q
<1>1. CASE Finish(r)
  BY <1>1 DEF Finish
<1>2. CASE LockProduct(r)
  <2>1. PICK p : productLock[p] = None /\ productLock' = [productLock EXCEPT ![p] = r]
    BY <1>2 DEF LockProduct
  <2>2. UNCHANGED <<job, lines>>
    BY <1>2 DEF LockProduct
  <2>. QED
    BY <2>1, <2>2
<1>3. CASE UNCHANGED productLock /\ (\E j : job' = [job EXCEPT ![r] = j])
           /\ UNCHANGED lines
  BY <1>3
<1>4. CASE UNCHANGED productLock /\ UNCHANGED job /\ (\E l : lines' = [lines EXCEPT ![r] = l])
  BY <1>4
<1>5. CASE UNCHANGED <<productLock, job, lines>>
  BY <1>5
<1>6. \/ Finish(r) \/ LockProduct(r)
      \/ UNCHANGED productLock /\ (\E j : job' = [job EXCEPT ![r] = j]) /\ UNCHANGED lines
      \/ UNCHANGED productLock /\ UNCHANGED job /\ (\E l : lines' = [lines EXCEPT ![r] = l])
      \/ UNCHANGED <<productLock, job, lines>>
  <2>1. CASE Begin(r)
    BY <2>1 DEF Begin
  <2>2. CASE Abort(r)
    BY <2>2 DEF Abort, Reject
  <2>3. CASE LockProduct(r) \/ CheckoutReadsCart(r) \/ CheckoutRefused(r) \/ CheckoutCommits(r)
    BY <2>3 DEF CheckoutReadsCart, CheckoutRefused, CheckoutCommits, Reject, ReadCart, Goto
  <2>4. CASE \/ CancelLocksOrder(r) \/ CancelCommits(r) \/ AdvanceLocksOrder(r)
             \/ AdvanceCommits(r) \/ AdjustCommits(r)
    BY <2>4 DEF CancelLocksOrder, CancelCommits, AdvanceLocksOrder, AdvanceCommits, AdjustCommits,
                Reject, local
  <2>5. CASE \/ ArchiveReads(r) \/ ArchiveCommits(r) \/ AddReadsProduct(r) \/ AddReadsCart(r)
             \/ UpdateReadsCart(r) \/ UpdateReadsProduct(r)
    BY <2>5 DEF ArchiveReads, ArchiveCommits, AddReadsProduct, AddReadsCart, UpdateReadsCart,
                UpdateReadsProduct, Reject, ReadCart, Goto
  <2>6. CASE SelectCartRow(r) \/ InsertCartRow(r) \/ UpdateCartRow(r) \/ RemoveItem(r)
    BY <2>6 DEF SelectCartRow, InsertCartRow, UpdateCartRow, RemoveItem, PutCartRow, Reject, Goto
  <2>. QED
    BY <2>1, <2>2, <2>3, <2>4, <2>5, <2>6 DEF Acts, Step
<1>. QED
  BY <1>1, <1>2, <1>3, <1>4, <1>5, <1>6

\* A request that takes a lock or ends is the only one whose locks change.
LEMMA LockSteps ==
  ASSUME Inv, NEW r \in Requests, Acts(r)
  PROVE  Finish(r) \/ LockProduct(r) \/ (UNCHANGED productLock /\ pc[r] # "lock")
<1>1. CASE Begin(r)
  BY <1>1 DEF Begin
<1>2. CASE Abort(r)
  BY <1>2 DEF Abort, Reject
<1>3. CASE LockProduct(r) \/ CheckoutReadsCart(r) \/ CheckoutRefused(r) \/ CheckoutCommits(r)
  BY <1>3 DEF CheckoutReadsCart, CheckoutRefused, CheckoutCommits, Reject, At
<1>4. CASE \/ CancelLocksOrder(r) \/ CancelCommits(r) \/ AdvanceLocksOrder(r)
           \/ AdvanceCommits(r) \/ AdjustCommits(r)
  BY <1>4 DEF CancelLocksOrder, CancelCommits, AdvanceLocksOrder, AdvanceCommits, AdjustCommits,
              Reject, At
<1>5. CASE \/ ArchiveReads(r) \/ ArchiveCommits(r) \/ AddReadsProduct(r) \/ AddReadsCart(r)
           \/ UpdateReadsCart(r) \/ UpdateReadsProduct(r)
  BY <1>5 DEF ArchiveReads, ArchiveCommits, AddReadsProduct, AddReadsCart, UpdateReadsCart,
              UpdateReadsProduct, Reject, At
<1>6. CASE SelectCartRow(r) \/ InsertCartRow(r) \/ UpdateCartRow(r) \/ RemoveItem(r)
  BY <1>6 DEF SelectCartRow, InsertCartRow, UpdateCartRow, RemoveItem, PutCartRow, Reject, At
<1>. QED
  BY <1>1, <1>2, <1>3, <1>4, <1>5, <1>6 DEF Acts, Step

LEMMA ToLockProducts == ASSUME Inv, NEW r \in Requests, pc[r] # "idle" PROVE ToLock(r) \subseteq Products
BY JobFields DEF Inv, Control, ToLock

LEMMA AscendingStep ==
  ASSUME Inv, Ascending, [Next]_vars
  PROVE  Ascending'
<1>. USE StoreAssumption DEF StoreAssumption
<1>1. ASSUME UNCHANGED vars PROVE Ascending'
  BY <1>1 DEF Ascending, NotYetLocked, ToLock, vars, local
<1>2. ASSUME NEW r \in Requests, Acts(r) PROVE Ascending'
  <2>. SUFFICES ASSUME NEW q \in Requests, NEW p \in Products, productLock'[p] = q,
                       NEW a \in NotYetLocked(q)'
                PROVE  p < a
    BY DEF Ascending
  <2>1. CASE q # r
    <3>1. /\ UNCHANGED <<job[q], lines[q]>>
          /\ \A b \in Products : productLock'[b] = q <=> productLock[b] = q
      BY <1>2, <2>1, OthersKeep
    <3>2. ToLock(q)' = ToLock(q)
      BY <3>1 DEF ToLock
    <3>3. productLock[p] = q
      BY <3>1
    <3>4. pc[q] = "lock"
      BY <3>3 DEF Inv, Control
    <3>5. a \in Products /\ a \in ToLock(q)
      BY <3>2, <3>4, ToLockProducts DEF NotYetLocked
    <3>6. a \in NotYetLocked(q)
      BY <3>1, <3>5 DEF NotYetLocked
    <3>. QED
      BY <3>3, <3>6 DEF Ascending
  <2>2. CASE q = r /\ Finish(r)
    BY <2>2 DEF Finish
  <2>3. CASE q = r /\ UNCHANGED productLock /\ pc[r] # "lock"
    BY <2>3 DEF Inv, Control
  <2>4. CASE q = r /\ LockProduct(r)
    <3>1. PICK c \in Lowest(NotYetLocked(r)) : productLock' = [productLock EXCEPT ![c] = r]
      BY <2>4 DEF LockProduct
    <3>2. ToLock(r)' = ToLock(r) /\ pc[r] = "lock"
      BY <2>4 DEF LockProduct, ToLock
    <3>3. NotYetLocked(r) \subseteq Products /\ c \in NotYetLocked(r)
      BY <3>2, ToLockProducts DEF NotYetLocked, Lowest
    <3>4. a \in NotYetLocked(r) /\ a # c
      <4>1. a \in ToLock(r) /\ productLock'[a] # r
        BY <2>4, <3>2 DEF NotYetLocked
      <4>2. a \in Products
        BY <3>2, <4>1, ToLockProducts
      <4>3. productLock \in [Products -> Requests \cup {None}]
        BY DEF Inv, LocalTypes
      <4>4. a # c
        BY <3>1, <4>1, <4>2, <4>3
      <4>5. productLock[a] # r
        BY <3>1, <4>1, <4>2, <4>3, <4>4
      <4>. QED
        BY <4>1, <4>4, <4>5 DEF NotYetLocked
    <3>5. c <= a
      BY <3>1, <3>4 DEF Lowest
    <3>6. CASE p = c
      BY <3>3, <3>4, <3>5, <3>6
    <3>7. CASE p # c
      <4>1. productLock[p] = r
        BY <2>4, <3>1, <3>7 DEF Inv, LocalTypes
      <4>. QED
        BY <3>4, <4>1 DEF Ascending
    <3>. QED
      BY <3>6, <3>7
  <2>. QED
    BY <1>2, <2>1, <2>2, <2>3, <2>4, LockSteps
<1>. QED
  BY <1>1, <1>2 DEF Next, Acts

LEMMA AscendingInit == Init => Ascending
BY StoreAssumption DEF Init, Ascending

\* Induction over the subsets of a finite set: what a set has whenever its proper
\* subsets have it.
LEMMA SubsetInduction ==
  ASSUME NEW S, IsFiniteSet(S), NEW G,
         \A T \in SUBSET S : (\A U \in SUBSET T : U # T => U \in G) => T \in G
  PROVE  S \in G
<1>. DEFINE Without == (SUBSET S) \ G
<1>1. ASSUME Without # {} PROVE FALSE
  <2>1. Without \subseteq FiniteSubsetsOf(S)
    BY FS_Subset DEF FiniteSubsetsOf
  <2>2. IsWellFoundedOn(StrictSubsetOrdering(S), FiniteSubsetsOf(S))
    BY FS_StrictSubsetOrderingWellFounded
  <2>. HIDE DEF Without
  <2>3. PICK T \in Without : \A U \in Without : ~(<<U, T>> \in StrictSubsetOrdering(S))
    BY <1>1, <2>1, <2>2, WFMin
  <2>. USE DEF Without
  <2>4. ASSUME NEW U \in SUBSET T, U # T PROVE U \in G
    <3>1. <<U, T>> \in StrictSubsetOrdering(S)
      BY <2>4 DEF StrictSubsetOrdering
    <3>. QED
      BY <2>3, <3>1
  <2>. QED
    BY <2>4
<1>. QED
  BY <1>1

\* Of finitely many values one is the greatest.
LEMMA GreatestIs ==
  ASSUME NEW A, IsFiniteSet(A), A # {}, NEW f \in [A -> Nat]
  PROVE  \E a \in A : \A b \in A : f[b] <= f[a]
<1>. DEFINE G == {T \in SUBSET A : T # {} => \E a \in T : \A b \in T : f[b] <= f[a]}
<1>1. ASSUME NEW T \in SUBSET A, \A U \in SUBSET T : U # T => U \in G
      PROVE  T \in G
  <2>. SUFFICES ASSUME T # {} PROVE \E a \in T : \A b \in T : f[b] <= f[a]
    OBVIOUS
  <2>1. PICK x \in T : TRUE
    OBVIOUS
  <2>2. T \ {x} \in G
    BY <1>1
  <2>3. CASE T \ {x} = {}
    BY <2>1, <2>3
  <2>4. CASE \E a \in T \ {x} : \A b \in T \ {x} : f[b] <= f[a]
    <3>1. PICK a \in T \ {x} : \A b \in T \ {x} : f[b] <= f[a]
      BY <2>4
    <3>2. f[a] \in Nat /\ f[x] \in Nat
      BY <2>1
    <3>3. CASE f[x] <= f[a]
      BY <3>1, <3>3
    <3>4. CASE f[a] <= f[x]
      <4>1. ASSUME NEW b \in T PROVE f[b] <= f[x]
        <5>1. f[b] \in Nat
          OBVIOUS
        <5>2. b = x \/ f[b] <= f[a]
          BY <3>1
        <5>. QED
          BY <3>2, <3>4, <5>1, <5>2
      <4>. QED
        BY <2>1, <4>1
    <3>. QED
      BY <3>2, <3>3, <3>4
  <2>. QED
    BY <2>2, <2>3, <2>4
<1>. HIDE DEF G
<1>2. A \in G
  BY <1>1, SubsetInduction
<1>. QED
  BY <1>2 DEF G

\* Who waits for a product that another has locked.
WaitsAt(r, p) == pc[r] = "lock" /\ p \in Lowest(NotYetLocked(r))

LEMMA WaiterIsAtLock ==
  ASSUME Inv, NEW r \in Requests, NEW q \in Requests, WaitsFor(r, q), NEW s \in Requests,
         WaitsFor(q, s)
  PROVE  \E p \in Products : WaitsAt(q, p) /\ productLock[p] = s
<1>1. pc[q] = "lock"
  <2>1. CASE pc[r] = "lock" /\ \E p \in Lowest(NotYetLocked(r)) : productLock[p] = q
    <3>1. PICK p \in ToLock(r) : productLock[p] = q
      BY <2>1 DEF Lowest, NotYetLocked
    <3>2. p \in Products
      BY <2>1, <3>1, ToLockProducts
    <3>. QED
      BY <3>1, <3>2 DEF Inv, Control
  <2>2. CASE pc[r] = "order" /\ orderLock[job[r].order] = q
    <3>1. job[r].order \in OrderIds
      <4>1. job[r] \in Jobs /\ job[r] \in JobType
        BY <2>2, JobFields DEF Inv, Control
      <4>. QED
        BY <2>2, <4>1, JobFields DEF Inv, Control
    <3>2. AtOrder(q)
      BY <2>2, <3>1 DEF Inv, Control
    <3>. QED
      BY <3>2 DEF AtOrder, WaitsFor
  <2>3. CASE /\ pc[r] = "commit" /\ job[r].op \in {"add", "update", "archive"}
             /\ productLock[job[r].product] = q
    <3>1. job[r].product \in Products
      BY <2>3, JobFields DEF Inv, Control
    <3>. QED
      BY <2>3, <3>1 DEF Inv, Control
  <2>. QED
    BY <2>1, <2>2, <2>3 DEF WaitsFor
<1>2. PICK p \in Lowest(NotYetLocked(q)) : productLock[p] = s
  BY <1>1 DEF WaitsFor
<1>3. p \in Products
  BY <1>1, <1>2, ToLockProducts DEF Lowest, NotYetLocked
<1>. QED
  BY <1>1, <1>2, <1>3 DEF WaitsAt

\* Among any requests, one waits for none of the others: of those that wait for a
\* lock, and are waited for, take the one that waits for the highest product. Who
\* has locked that product waits for a higher one.
LEMMA NoCycle == Inv /\ Ascending => NoWaitCycle
<1>. SUFFICES ASSUME Inv, Ascending, NEW S \in (SUBSET Requests) \ {{}},
                     \A r \in S : \E q \in S : WaitsFor(r, q)
              PROVE  FALSE
  BY DEF NoWaitCycle
<1>. USE StoreAssumption DEF StoreAssumption
<1>. DEFINE At2(r, p) == WaitsAt(r, p) /\ productLock[p] \in S
            A == {r \in S : \E p \in Products : At2(r, p)}
            f == [r \in A |-> CHOOSE p \in Products : At2(r, p)]
<1>1. ASSUME NEW r \in S, NEW q \in S, WaitsFor(r, q)
      PROVE  q \in A
  <2>1. PICK s \in S : WaitsFor(q, s)
    OBVIOUS
  <2>2. PICK p \in Products : WaitsAt(q, p) /\ productLock[p] = s
    BY <1>1, <2>1, WaiterIsAtLock
  <2>. QED
    BY <2>2
<1>2. A # {}
  BY <1>1
<1>3. IsFiniteSet(A)
  BY FS_Subset
<1>4. ASSUME NEW r \in A PROVE f[r] \in Products /\ At2(r, f[r])
  OBVIOUS
<1>5. ASSUME NEW r \in A, NEW p \in Products, WaitsAt(r, p) PROVE p = f[r]
  <2>1. f[r] \in Products /\ WaitsAt(r, f[r])
    BY <1>4
  <2>. HIDE DEF f
  <2>2. p <= f[r] /\ f[r] <= p
    BY <1>5, <2>1 DEF WaitsAt, Lowest
  <2>3. p \in Nat /\ f[r] \in Nat
    BY <2>1
  <2>4. \A x, y \in Nat : x <= y /\ y <= x => x = y
    OBVIOUS
  <2>. QED
    BY <2>2, <2>3, <2>4, Zenon
<1>6. f \in [A -> Nat]
  BY <1>4
<1>. HIDE DEF f
<1>7. PICK a \in A : \A b \in A : f[b] <= f[a]
  <2>. HIDE DEF A
  <2>. QED
    BY <1>2, <1>3, <1>6, GreatestIs
<1>. DEFINE q == productLock[f[a]]
<1>8. q \in S /\ f[a] \in Products /\ WaitsAt(a, f[a])
  BY <1>4
<1>9. WaitsFor(a, q)
  BY <1>8 DEF WaitsFor, WaitsAt
<1>10. q \in A
  BY <1>1, <1>8, <1>9
<1>11. f[q] \in Products /\ f[q] \in NotYetLocked(q)
  BY <1>4, <1>10 DEF WaitsAt, Lowest
<1>12. f[a] < f[q]
  BY <1>8, <1>11 DEF Ascending
<1>13. f[q] <= f[a]
  BY <1>7, <1>10
<1>14. f[a] \in Nat /\ f[q] \in Nat
  BY <1>8, <1>11
<1>. HIDE DEF q, A
<1>. QED
  BY <1>12, <1>13, <1>14

\* No deadlock among the row locks of checkout, cancel, admin_advance_status,
\* admin_adjust_stock, archiving and cart writes, for any number of requests and
\* products: lock_products takes its locks in ascending order, an order row is
\* locked before any product, and who holds no lock is waited for by nobody.
THEOREM NoDeadlock == Spec => []NoWaitCycle
<1>1. Init => Inv /\ Ascending
  BY InitInv, AscendingInit
<1>2. Inv /\ Ascending /\ [Next]_vars => Inv' /\ Ascending'
  BY NextInv, AscendingStep
<1>3. Inv /\ Ascending => NoWaitCycle
  BY NoCycle
<1>. QED
  BY <1>1, <1>2, <1>3, PTL DEF Spec
-----------------------------------------------------------------------------
(* Stock is conserved.  OrderedOf is a sum over the orders, computed by a  *)
(* recursion over their sets: the lemmas below are the recursion's facts.  *)
Iterates(os, p, S, g) ==
  g = [s \in SUBSET S |-> IF s = {} THEN 0
                          ELSE LET x == CHOOSE x \in s : TRUE
                               IN os[x].lines[p] + g[s \ {x}]]

Ordered(os, p, S) == (CHOOSE g : Iterates(os, p, S, g))[S]

Live(os) == {o \in OrderIds : os[o].status \in L!LiveStatuses}

LEMMA OrderedOfIs == ASSUME NEW p PROVE L!OrderedOf(p) = Ordered(orders, p, Live(orders))
BY DEF L!OrderedOf, L!MapThenSumSet, L!MapThenFoldSet, Ordered, Iterates, Live

Chosen(s) == CHOOSE x \in s : TRUE

LEMMA ChosenIs == ASSUME NEW s, s # {} PROVE Chosen(s) \in s
BY DEF Chosen

LEMMA IteratesAt ==
  ASSUME NEW os, NEW p, NEW S, NEW g, Iterates(os, p, S, g), NEW s \in SUBSET S
  PROVE  /\ s = {} => g[s] = 0
         /\ s # {} => g[s] = os[Chosen(s)].lines[p] + g[s \ {Chosen(s)}]
BY DEF Iterates, Chosen

\* Two recursions over two sets agree on the subsets they share.
LEMMA IteratesAgree ==
  ASSUME NEW os, NEW p, NEW A, NEW B, NEW g, NEW h,
         Iterates(os, p, A, g), Iterates(os, p, B, h),
         NEW S, IsFiniteSet(S), S \subseteq A, S \subseteq B
  PROVE  g[S] = h[S]
<1>. DEFINE G == {T \in SUBSET S : g[T] = h[T]}
<1>1. ASSUME NEW T \in SUBSET S, \A U \in SUBSET T : U # T => U \in G
      PROVE  T \in G
  <2>1. CASE T = {}
    <3>1. g[T] = 0
      BY <2>1, IteratesAt
    <3>2. h[T] = 0
      BY <2>1, IteratesAt
    <3>. QED
      BY <3>1, <3>2
  <2>2. CASE T # {}
    <3>1. T \ {Chosen(T)} \in G
      BY <1>1, <2>2, ChosenIs
    <3>2. g[T] = os[Chosen(T)].lines[p] + g[T \ {Chosen(T)}]
      BY <2>2, IteratesAt
    <3>3. h[T] = os[Chosen(T)].lines[p] + h[T \ {Chosen(T)}]
      BY <2>2, IteratesAt
    <3>. QED
      BY <3>1, <3>2, <3>3
  <2>. QED
    BY <2>1, <2>2
<1>. HIDE DEF G
<1>2. S \in G
  BY <1>1, SubsetInduction
<1>. QED
  BY <1>2 DEF G

\* The recursion has a solution over every finite set.
LEMMA IteratesExists ==
  ASSUME NEW os, NEW p, NEW S, IsFiniteSet(S)
  PROVE  \E g : Iterates(os, p, S, g)
<1>. DEFINE G == {T \in SUBSET S : \E g : Iterates(os, p, T, g)}
<1>1. ASSUME NEW T \in SUBSET S, \A U \in SUBSET T : U # T => U \in G
      PROVE  T \in G
  <2>. DEFINE I(u) == CHOOSE g : Iterates(os, p, u, g)
              V(u) == I(u)[u]
              h == [s \in SUBSET T |-> IF s = {} THEN 0
                      ELSE os[Chosen(s)].lines[p] + V(s \ {Chosen(s)})]
  <2>1. ASSUME NEW u \in SUBSET T, u # T
        PROVE  Iterates(os, p, u, I(u))
    BY <1>1, <2>1
  <2>2. ASSUME NEW u \in SUBSET T, u # T
        PROVE  V(u) = h[u]
    <3>0. Iterates(os, p, u, I(u))
      BY <2>1, <2>2
    <3>. HIDE DEF I
    <3>1. CASE u = {}
      BY <3>0, <3>1, IteratesAt
    <3>2. CASE u # {}
      <4>. DEFINE w == u \ {Chosen(u)}
      <4>1. w \in SUBSET T /\ w # T /\ w \subseteq u
        BY <3>2, ChosenIs
      <4>2. Iterates(os, p, w, I(w))
        BY <2>1, <4>1
      <4>3. IsFiniteSet(w)
        BY <4>1, FS_Subset
      <4>4. I(u)[w] = I(w)[w]
        <5>. HIDE DEF w
        <5>. QED
          BY <3>0, <4>1, <4>2, <4>3, IteratesAgree
      <4>5. I(u)[u] = os[Chosen(u)].lines[p] + I(u)[w]
        BY <3>0, <3>2, IteratesAt
      <4>6. h[u] = os[Chosen(u)].lines[p] + V(w)
        BY <3>2
      <4>. QED
        BY <4>4, <4>5, <4>6
    <3>. QED
      BY <3>1, <3>2
  <2>. HIDE DEF I
  <2>3. ASSUME NEW s \in SUBSET T, s # {}
        PROVE  V(s \ {Chosen(s)}) = h[s \ {Chosen(s)}]
    <3>1. s \ {Chosen(s)} \in SUBSET T /\ s \ {Chosen(s)} # T
      BY <2>3, ChosenIs
    <3>. HIDE DEF V, h
    <3>. QED
      BY <2>2, <3>1
  <2>. HIDE DEF V
  <2>4. h = [s \in SUBSET T |-> IF s = {} THEN 0
                      ELSE os[Chosen(s)].lines[p] + h[s \ {Chosen(s)}]]
    <3>1. ASSUME NEW s \in SUBSET T
          PROVE  h[s] = IF s = {} THEN 0 ELSE os[Chosen(s)].lines[p] + h[s \ {Chosen(s)}]
      BY <2>3
    <3>2. h = [s \in SUBSET T |-> h[s]]
      OBVIOUS
    <3>. HIDE DEF h
    <3>. QED
      BY <3>1, <3>2, Zenon
  <2>. HIDE DEF h
  <2>5. Iterates(os, p, T, h)
    BY <2>4 DEF Iterates, Chosen
  <2>6. \E g : Iterates(os, p, T, g)
    BY <2>5
  <2>. HIDE DEF h
  <2>. QED
    BY <2>6
<1>. HIDE DEF G
<1>2. S \in G
  BY <1>1, SubsetInduction
<1>. QED
  BY <1>2 DEF G
LEMMA OrderedAt ==
  ASSUME NEW os, NEW p, NEW S, IsFiniteSet(S), S # {}
  PROVE  Ordered(os, p, S) = os[Chosen(S)].lines[p] + Ordered(os, p, S \ {Chosen(S)})
<1>. DEFINE I(u) == CHOOSE g : Iterates(os, p, u, g)
            w == S \ {Chosen(S)}
<1>1. w \subseteq S /\ IsFiniteSet(w)
  BY FS_Subset
<1>2. Iterates(os, p, S, I(S))
  BY IteratesExists
<1>3. Iterates(os, p, w, I(w))
  BY <1>1, IteratesExists
<1>. HIDE DEF I
<1>4. I(S)[w] = I(w)[w]
  <2>. HIDE DEF w
  <2>. QED
    BY <1>1, <1>2, <1>3, IteratesAgree
<1>5. I(S)[S] = os[Chosen(S)].lines[p] + I(S)[w]
  BY <1>2, IteratesAt
<1>6. Ordered(os, p, S) = I(S)[S] /\ Ordered(os, p, w) = I(w)[w]
  BY DEF Ordered, I
<1>. QED
  BY <1>4, <1>5, <1>6

LEMMA OrderedEmpty == ASSUME NEW os, NEW p PROVE Ordered(os, p, {}) = 0
<1>. DEFINE g == CHOOSE g : Iterates(os, p, {}, g)
<1>1. Iterates(os, p, {}, g)
  BY IteratesExists, FS_EmptySet
<1>. HIDE DEF g
<1>2. g[{}] = 0
  BY <1>1, IteratesAt
<1>. QED
  BY <1>2 DEF g, Ordered

\* What a sum over some orders needs of their lines to be a number.
Counts(os, p, S) == \A o \in S : os[o].lines[p] \in Nat

LEMMA OrderedIsNat ==
  ASSUME NEW os, NEW p, NEW S, IsFiniteSet(S), Counts(os, p, S)
  PROVE  Ordered(os, p, S) \in Nat
<1>. DEFINE G == {T \in SUBSET S : Ordered(os, p, T) \in Nat}
<1>1. ASSUME NEW T \in SUBSET S, \A U \in SUBSET T : U # T => U \in G
      PROVE  T \in G
  <2>1. CASE T = {}
    BY <2>1, OrderedEmpty
  <2>2. CASE T # {}
    <3>1. Chosen(T) \in T /\ T \ {Chosen(T)} \in G
      BY <1>1, <2>2, ChosenIs
    <3>2. Ordered(os, p, T) = os[Chosen(T)].lines[p] + Ordered(os, p, T \ {Chosen(T)})
      BY <2>2, FS_Subset, OrderedAt
    <3>. QED
      BY <3>1, <3>2 DEF Counts
  <2>. QED
    BY <2>1, <2>2
<1>. HIDE DEF G
<1>2. S \in G
  BY <1>1, SubsetInduction
<1>. QED
  BY <1>2 DEF G

\* Whichever order is taken out first, the sum is the same.
LEMMA OrderedSplits ==
  ASSUME NEW os, NEW p, NEW S, IsFiniteSet(S), Counts(os, p, S), NEW x \in S
  PROVE  Ordered(os, p, S) = os[x].lines[p] + Ordered(os, p, S \ {x})
<1>. DEFINE Splits(T) == \A y \in T : Ordered(os, p, T) = os[y].lines[p] + Ordered(os, p, T \ {y})
            G == {T \in SUBSET S : Splits(T)}
<1>1. ASSUME NEW T \in SUBSET S, \A U \in SUBSET T : U # T => U \in G
      PROVE  T \in G
  <2>. SUFFICES ASSUME NEW y \in T
                PROVE  Ordered(os, p, T) = os[y].lines[p] + Ordered(os, p, T \ {y})
    OBVIOUS
  <2>. DEFINE c == Chosen(T)
  <2>1. c \in T
    BY ChosenIs
  <2>2. Ordered(os, p, T) = os[c].lines[p] + Ordered(os, p, T \ {c})
    BY FS_Subset, OrderedAt
  <2>. HIDE DEF c
  <2>3. CASE y = c
    BY <2>2, <2>3
  <2>4. CASE y # c
    <3>1. Splits(T \ {c}) /\ Splits(T \ {y})
      BY <1>1, <2>1
    <3>2. Ordered(os, p, T \ {c}) = os[y].lines[p] + Ordered(os, p, (T \ {c}) \ {y})
      BY <2>4, <3>1
    <3>3. Ordered(os, p, T \ {y}) = os[c].lines[p] + Ordered(os, p, (T \ {y}) \ {c})
      BY <2>1, <2>4, <3>1
    <3>4. (T \ {c}) \ {y} = (T \ {y}) \ {c}
      OBVIOUS
    <3>5. Ordered(os, p, (T \ {c}) \ {y}) \in Nat
      BY FS_Subset, OrderedIsNat DEF Counts
    <3>6. os[c].lines[p] \in Nat /\ os[y].lines[p] \in Nat
      BY <2>1 DEF Counts
    <3>. DEFINE i == os[c].lines[p]
                j == os[y].lines[p]
                k == Ordered(os, p, (T \ {c}) \ {y})
                m == Ordered(os, p, T)
                n == Ordered(os, p, T \ {y})
    <3>7. m = i + (j + k)
      BY <2>2, <3>2, Zenon
    <3>8. n = i + k
      BY <3>3, <3>4, Zenon
    <3>9. i \in Nat /\ j \in Nat /\ k \in Nat
      BY <3>5, <3>6
    <3>. HIDE DEF i, j, k, m, n
    <3>10. m = j + n
      BY <3>7, <3>8, <3>9
    <3>. QED
      BY <3>10 DEF j, m, n
  <2>. QED
    BY <2>3, <2>4
<1>. HIDE DEF G
<1>2. S \in G
  BY <1>1, SubsetInduction
<1>. QED
  BY <1>2 DEF G

\* The sum depends only on the lines of the orders it is taken over.
SameCounts(os, us, p, S) == IsFiniteSet(S) /\ \A o \in S : os[o].lines[p] = us[o].lines[p]
LEMMA OrderedSame ==
  ASSUME NEW os, NEW us, NEW p, NEW S, SameCounts(os, us, p, S)
  PROVE  Ordered(os, p, S) = Ordered(us, p, S)
<1>. USE DEF SameCounts
<1>. DEFINE G == {T \in SUBSET S : Ordered(os, p, T) = Ordered(us, p, T)}
<1>1. ASSUME NEW T \in SUBSET S, \A U \in SUBSET T : U # T => U \in G
      PROVE  T \in G
  <2>1. CASE T = {}
    BY <2>1, OrderedEmpty
  <2>2. CASE T # {}
    <3>1. Chosen(T) \in T /\ T \ {Chosen(T)} \in G
      BY <1>1, <2>2, ChosenIs
    <3>2. Ordered(os, p, T) = os[Chosen(T)].lines[p] + Ordered(os, p, T \ {Chosen(T)})
      BY <2>2, FS_Subset, OrderedAt
    <3>3. Ordered(us, p, T) = us[Chosen(T)].lines[p] + Ordered(us, p, T \ {Chosen(T)})
      BY <2>2, FS_Subset, OrderedAt
    <3>. QED
      BY <3>1, <3>2, <3>3
  <2>. QED
    BY <2>1, <2>2
<1>. HIDE DEF G
<1>2. S \in G
  BY <1>1, SubsetInduction
<1>. QED
  BY <1>2 DEF G
LEMMA OrderedOfIsNext == ASSUME NEW p PROVE L!OrderedOf(p)' = Ordered(orders', p, Live(orders'))
BY DEF L!OrderedOf, L!MapThenSumSet, L!MapThenFoldSet, Ordered, Iterates, Live

LEMMA LiveCounts ==
  ASSUME NEW os \in [OrderIds -> OrderType], NEW p \in Products
  PROVE  IsFiniteSet(Live(os)) /\ Counts(os, p, Live(os))
<1>. USE StoreAssumption DEF StoreAssumption
<1>1. IsFiniteSet(OrderIds)
  BY FS_Interval DEF OrderIds
<1>2. IsFiniteSet(Live(os))
  BY <1>1, FS_Subset DEF Live
<1>3. ASSUME NEW o \in Live(os) PROVE os[o].lines[p] \in Nat
  <2>1. os[o].lines \in L!Lines
    BY DEF Live, OrderType
  <2>. QED
    BY <2>1 DEF L!Lines
<1>. QED
  BY <1>2, <1>3 DEF Counts

\* The live orders of us are those of os and o.
OneMore(os, us, o) == /\ o \notin Live(os)
                      /\ Live(us) = Live(os) \cup {o}
                      /\ \A q \in Live(os) : us[q] = os[q]

\* An order that becomes live brings its lines into the sum.
LEMMA PlacedAdds ==
  ASSUME NEW os \in [OrderIds -> OrderType], NEW us \in [OrderIds -> OrderType],
         NEW o, NEW p \in Products, OneMore(os, us, o)
  PROVE  /\ Ordered(us, p, Live(us)) = us[o].lines[p] + Ordered(os, p, Live(os))
         /\ us[o].lines[p] \in Nat /\ Ordered(os, p, Live(os)) \in Nat
<1>. USE DEF OneMore
<1>1. IsFiniteSet(Live(us)) /\ Counts(us, p, Live(us))
  BY LiveCounts
<1>2. IsFiniteSet(Live(os)) /\ Counts(os, p, Live(os))
  BY LiveCounts
<1>3. o \in Live(us) /\ Live(us) \ {o} = Live(os)
  OBVIOUS
<1>4. Ordered(us, p, Live(us)) = us[o].lines[p] + Ordered(us, p, Live(us) \ {o})
  BY <1>1, <1>3, OrderedSplits
<1>5. Ordered(os, p, Live(os)) = Ordered(us, p, Live(os))
  <2>1. SameCounts(os, us, p, Live(os))
    BY <1>2 DEF SameCounts
  <2>. QED
    BY <2>1, OrderedSame
<1>6. Ordered(os, p, Live(os)) \in Nat /\ us[o].lines[p] \in Nat
  BY <1>1, <1>2, <1>3, OrderedIsNat DEF Counts
<1>. QED
  BY <1>3, <1>4, <1>5, <1>6

\* The operations of the ledger conserve stock.
LEMMA LedgerConserves ==
  ASSUME DataTypes, DataTypes', L!Conservation, L!Next \/ UNCHANGED L!ledgerVars
  PROVE  L!Conservation'
<1>. USE StoreAssumption DEF StoreAssumption
<1>. SUFFICES ASSUME NEW p \in Products
              PROVE  stock'[p] + Ordered(orders', p, Live(orders')) = Opening[p] + audit'[p].net
  BY OrderedOfIsNext DEF L!Conservation
<1>. DEFINE S == Ordered(orders, p, Live(orders))
            T == Ordered(orders', p, Live(orders'))
<1>1. stock[p] + S = Opening[p] + audit[p].net
  BY OrderedOfIs DEF L!Conservation
<1>2. /\ stock[p] \in Nat /\ Opening[p] \in Nat /\ audit[p].net \in Int
      /\ orders \in [OrderIds -> OrderType] /\ orders' \in [OrderIds -> OrderType]
  BY DEF DataTypes, Quantity
<1>3. S \in Nat
  BY <1>2, LiveCounts, OrderedIsNat
<1>4. ASSUME NEW u \in Users, NEW o \in OrderIds, NEW ls \in L!Lines, L!Place(u, o, ls)
      PROVE  stock'[p] + T = Opening[p] + audit'[p].net
  <2>1. orders' = [orders EXCEPT ![o] = [status |-> "paid", user |-> u, lines |-> ls]]
    BY <1>4 DEF L!Place
  <2>2. /\ stock'[p] = stock[p] - ls[p] /\ UNCHANGED audit
        /\ orders[o].status = "none"
    BY <1>4 DEF L!Place, L!Fresh
  <2>3. o \notin Live(orders) /\ Live(orders') = Live(orders) \cup {o}
    BY <1>2, <2>1, <2>2 DEF Live, L!LiveStatuses
  <2>4. /\ \A q \in Live(orders) : orders'[q] = orders[q]
        /\ orders'[o].lines = ls
    BY <1>2, <2>1, <2>3 DEF Live
  <2>5. T = orders'[o].lines[p] + S /\ orders'[o].lines[p] \in Nat
    <3>1. OneMore(orders, orders', o)
      BY <2>3, <2>4 DEF OneMore
    <3>. QED
      BY <1>2, <3>1, PlacedAdds
  <2>. HIDE DEF S, T
  <2>. QED
    BY <1>1, <1>2, <1>3, <2>2, <2>4, <2>5
<1>5. ASSUME NEW o \in OrderIds, L!Cancel(o)
      PROVE  stock'[p] + T = Opening[p] + audit'[p].net
  <2>1. orders' = [orders EXCEPT ![o].status = "cancelled"] /\ orders[o].status = "paid"
    BY <1>5 DEF L!Cancel
  <2>2. stock'[p] = stock[p] + orders[o].lines[p] /\ UNCHANGED audit
    BY <1>5 DEF L!Cancel
  <2>3. \A q \in OrderIds : q # o => orders'[q] = orders[q]
    BY <1>2, <2>1
  <2>4. orders'[o].status = "cancelled"
    BY <1>2, <2>1 DEF OrderType
  <2>5. o \notin Live(orders') /\ Live(orders) = Live(orders') \cup {o}
    BY <2>1, <2>3, <2>4 DEF Live, L!LiveStatuses
  <2>6. \A q \in Live(orders') : orders[q] = orders'[q]
    BY <2>3, <2>5 DEF Live
  <2>7. S = orders[o].lines[p] + T /\ orders[o].lines[p] \in Nat /\ T \in Nat
    <3>1. OneMore(orders', orders, o)
      BY <2>5, <2>6 DEF OneMore
    <3>. QED
      BY <1>2, <3>1, PlacedAdds
  <2>. HIDE DEF S, T
  <2>. QED
    BY <1>1, <1>2, <1>3, <2>2, <2>7
<1>6. ASSUME NEW o \in OrderIds, L!Advance(o)
      PROVE  stock'[p] + T = Opening[p] + audit'[p].net
  <2>1. orders' = [orders EXCEPT ![o].status = L!NextStatus[orders[o].status]]
    BY <1>6 DEF L!Advance
  <2>2. UNCHANGED <<stock, audit>> /\ orders[o].status \in {"paid", "shipped"}
    BY <1>6 DEF L!Advance, L!NextStatus
  <2>3. \A q \in OrderIds : q # o => orders'[q] = orders[q]
    BY <1>2, <2>1
  <2>4. orders'[o].status \in {"shipped", "delivered"} /\ orders'[o].lines = orders[o].lines
    BY <1>2, <2>1, <2>2 DEF OrderType, L!NextStatus
  <2>5. Live(orders') = Live(orders)
    BY <2>2, <2>3, <2>4 DEF Live, L!LiveStatuses
  <2>6. \A q \in Live(orders) : orders'[q].lines[p] = orders[q].lines[p]
    BY <2>3, <2>4 DEF Live
  <2>7. S = T
    <3>1. IsFiniteSet(Live(orders))
      BY <1>2, LiveCounts, Zenon
    <3>2. Ordered(orders, p, Live(orders)) = Ordered(orders', p, Live(orders))
      <4>1. SameCounts(orders, orders', p, Live(orders))
        BY <2>6, <3>1, Zenon DEF SameCounts
      <4>. QED
        BY <4>1, OrderedSame
    <3>. QED
      BY <2>5, <3>2, Zenon
  <2>. HIDE DEF S, T
  <2>. QED
    BY <1>1, <2>2, <2>7
<1>7. ASSUME NEW q \in Products, NEW n \in Deltas, L!Adjust(q, n)
      PROVE  stock'[p] + T = Opening[p] + audit'[p].net
  <2>1. S = T /\ n \in Int
    BY <1>7 DEF L!Adjust
  <2>2. CASE p = q
    <3>1. stock'[p] = stock[p] + n /\ audit'[p].net = audit[p].net + n
      BY <1>7, <2>2 DEF L!Adjust, DataTypes
    <3>. HIDE DEF S, T
    <3>. QED
      BY <1>1, <1>2, <1>3, <2>1, <3>1
  <2>3. CASE p # q
    <3>1. stock'[p] = stock[p] /\ audit'[p] = audit[p]
      BY <1>7, <2>3 DEF L!Adjust, DataTypes
    <3>. HIDE DEF S, T
    <3>. QED
      BY <1>1, <2>1, <3>1
  <2>. QED
    BY <2>2, <2>3
<1>8. ASSUME UNCHANGED <<stock, orders, audit>>
      PROVE  stock'[p] + T = Opening[p] + audit'[p].net
  BY <1>1, <1>8
<1>. QED
  BY <1>4, <1>5, <1>6, <1>7, <1>8 DEF L!Next, L!SetArchived, L!ledgerVars

\* No unit is sold twice, returned twice or lost, however checkouts, cancellations,
\* status changes and audited adjustments interleave, wait, fail and roll back: every
\* unit that entered a stock is on the shelf or in an order that was not cancelled.
THEOREM StockIsConserved == Spec => []StockConserved
<1>1. Init => L!Conservation
  <2>. SUFFICES ASSUME Init, NEW p \in Products
                PROVE  stock[p] + Ordered(orders, p, Live(orders)) = Opening[p] + audit[p].net
    BY OrderedOfIs DEF L!Conservation
  <2>1. Live(orders) = {}
    BY DEF Init, L!Init, L!NoOrder, Live, L!LiveStatuses
  <2>2. stock[p] = Opening[p] /\ audit[p].net = 0 /\ Opening[p] \in Nat
    BY StoreAssumption DEF StoreAssumption, Init, L!Init
  <2>. QED
    BY <2>1, <2>2, OrderedEmpty
<1>2. Inv /\ L!Conservation /\ [Next]_vars => L!Conservation'
  <2>1. Inv /\ [Next]_vars => DataTypes /\ DataTypes'
    BY NextInv DEF Inv
  <2>2. ASSUME Inv, UNCHANGED vars PROVE UNCHANGED L!ledgerVars
    BY <2>2, DataUnchanged DEF vars
  <2>3. ASSUME NEW r \in Requests, Begin(r) \/ Abort(r) PROVE UNCHANGED L!ledgerVars
    BY <2>3, DataUnchanged DEF Begin, Abort, Reject
  <2>. QED
    BY <2>1, <2>2, <2>3, StepImplements, LedgerConserves DEF Next
<1>. QED
  BY <1>1, <1>2, SpecInv, PTL DEF Spec, StockConserved
=============================================================================
