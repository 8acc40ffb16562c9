------------------------------- MODULE Ledger -------------------------------
(***************************************************************************)
(* What the store promises about stock and orders, with no transactions:   *)
(* a checkout, a cancellation, a status advance, a stock adjustment or an  *)
(* archiving happens in one indivisible step.  Store.tla models the same   *)
(* operations as the interleaved, row-locking transactions the web service *)
(* runs, and is shown to implement this module.                            *)
(***************************************************************************)
EXTENDS Integers, FiniteSetsExt

CONSTANTS Users,      \* customers
          Products,   \* product ids
          OrderIds,   \* order ids
          None,       \* no customer
          Opening,    \* stock of each product at the start
          MaxStock,   \* largest value of products.stock (an int4 column)
          Deltas      \* amounts an admin adjusts a stock by

VARIABLES stock,      \* products.stock
          archived,   \* products.is_archived
          orders,     \* orders with their items
          audit       \* per product: sum and last stock_after of its stock_adjust rows

ledgerVars == <<stock, archived, orders, audit>>

\* No line exceeds a stock: add_item and update_item check the quantity they store.
Lines == [Products -> 0..MaxStock]
Empty == [p \in Products |-> 0]
NoOrder == [status |-> "none", user |-> None, lines |-> Empty]

\* The transitions of order_service._NEXT_STATUS.
NextStatus == [s \in {"paid", "shipped"} |-> IF s = "paid" THEN "shipped" ELSE "delivered"]

\* The next order id of the sequence.
Fresh(o) == /\ orders[o].status = "none"
            /\ \A q \in OrderIds : q < o => orders[q].status # "none"

\* Every line can be served: the product is on sale and holds enough stock.
CanServe(lines) ==
  \A p \in Products : lines[p] > 0 => ~archived[p] /\ lines[p] <= stock[p]

Init == /\ stock = Opening
        /\ archived = [p \in Products |-> FALSE]
        /\ orders = [o \in OrderIds |-> NoOrder]
        /\ audit = [p \in Products |-> [net |-> 0, after |-> Opening[p]]]

Place(u, o, lines) ==
  /\ Fresh(o)
  /\ lines # Empty
  /\ CanServe(lines)
  /\ stock' = [p \in Products |-> stock[p] - lines[p]]
  /\ orders' = [orders EXCEPT ![o] = [status |-> "paid", user |-> u, lines |-> lines]]
  /\ UNCHANGED <<archived, audit>>

Cancel(o) ==
  /\ orders[o].status = "paid"
  /\ \A p \in Products : stock[p] + orders[o].lines[p] <= MaxStock
  /\ stock' = [p \in Products |-> stock[p] + orders[o].lines[p]]
  /\ orders' = [orders EXCEPT ![o].status = "cancelled"]
  /\ UNCHANGED <<archived, audit>>

Advance(o) ==
  /\ orders[o].status \in DOMAIN NextStatus
  /\ orders' = [orders EXCEPT ![o].status = NextStatus[orders[o].status]]
  /\ UNCHANGED <<stock, archived, audit>>

Adjust(p, n) ==
  /\ stock[p] + n \in 0..MaxStock
  /\ stock' = [stock EXCEPT ![p] = @ + n]
  /\ audit' = [audit EXCEPT ![p] = [net |-> @.net + n, after |-> stock[p] + n]]
  /\ UNCHANGED <<archived, orders>>

SetArchived(p, b) ==
  /\ archived' = [archived EXCEPT ![p] = b]
  /\ UNCHANGED <<stock, orders, audit>>

Next == \/ \E u \in Users, o \in OrderIds, lines \in Lines : Place(u, o, lines)
        \/ \E o \in OrderIds : Cancel(o) \/ Advance(o)
        \/ \E p \in Products, n \in Deltas : Adjust(p, n)
        \/ \E p \in Products, b \in BOOLEAN : SetArchived(p, b)

Spec == Init /\ [][Next]_ledgerVars

-----------------------------------------------------------------------------
LiveStatuses == {"paid", "shipped", "delivered"}

OrderedOf(p) ==
  MapThenSumSet(LAMBDA o : orders[o].lines[p],
                {o \in OrderIds : orders[o].status \in LiveStatuses})

\* Every unit that ever entered the stock of a product is on the shelf or in an
\* order that was not cancelled, and the audit log accounts for what entered: a
\* checkout takes a unit once, a cancellation returns it once, nothing else
\* moves it but an audited adjustment.
Conservation == \A p \in Products : stock[p] + OrderedOf(p) = Opening[p] + audit[p].net
=============================================================================
