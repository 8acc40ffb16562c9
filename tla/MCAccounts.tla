----------------------------- MODULE MCAccounts -----------------------------
EXTENDS Accounts

(* Ann has an account and an order.  The seed brings Bea, a second product, *)
(* Bea's orders and her reviews; in the other opening it has been run.      *)
MCRow(i, k, v) == [id |-> i, key |-> k, value |-> v, by |-> "seed"]
MCEmpty == [t \in Tables |-> {}]
MCStocked == [MCEmpty EXCEPT !["users"] = {MCRow(1, <<"ann">>, 0)},
                             !["products"] = {MCRow(2, <<"oil">>, 0)},
                             !["orders"] = {MCRow(3, <<1, 2>>, 1)}]
MCSeeded == [MCStocked EXCEPT !["users"] = @ \cup {MCRow(4, <<"bea">>, 0)},
                              !["products"] = @ \cup {MCRow(5, <<"soap">>, 0)},
                              !["orders"] = @ \cup {MCRow(6, <<4, 2>>, 1)},
                              !["reviews"] = {MCRow(7, <<4, 2>>, 5), MCRow(8, <<4, 5>>, 2)}]
MCOpenings == {MCStocked, MCSeeded}
MCSeed == <<Entry("users", <<"bea">>, 0), Entry("products", <<"oil">>, 0),
            Entry("products", <<"soap">>, 0), Entry("orders", <<"bea", "oil">>, 1),
            Entry("reviews", <<"bea", "oil">>, 5), Entry("reviews", <<"bea", "soap">>, 2)>>
=============================================================================
