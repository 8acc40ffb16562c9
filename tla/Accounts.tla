------------------------------ MODULE Accounts ------------------------------
(***************************************************************************)
(* The requests of the web service that create rows which must exist once: *)
(* registrations, first carts, reviews, products, and the seed job.  A     *)
(* request is one transaction at READ COMMITTED: every statement sees what *)
(* is committed and the request's own rows.  An insert is sent at once     *)
(* (flush): it waits for a transaction in flight that holds an equal       *)
(* unique key and fails if that one commits.  The reply is sent before the *)
(* transaction commits.                                                    *)
(*                                                                         *)
(* A name stands for all its spellings (find_by_name compares in lower     *)
(* case, register trims and lowers an email).  Orders come from Store: here*)
(* they appear, and are cancelled, in one step.                            *)
(***************************************************************************)
EXTENDS Integers, Sequences, FiniteSets, FiniteSetsExt

CONSTANTS Emails, Names, Ratings,   \* what requests carry
          Requests,                 \* the transactions that run at a time
          Openings,                 \* the tables the service may start with
          SeedData,                 \* the rows of seed_data, in order
          MaxSerial, MaxJobs, MaxFaults     \* bounds

(* The seed's lists stand in this order, and every order and review is of a *)
(* customer and a product that are listed.                                  *)
Listed(t, k) == \E i \in DOMAIN SeedData : SeedData[i].table = t /\ SeedData[i].key = <<k>>
SeedSound ==
    /\ \A i, j \in DOMAIN SeedData : i < j =>
           /\ SeedData[i].table = "products" => SeedData[j].table # "users"
           /\ SeedData[i].table = "orders" => SeedData[j].table \in {"orders", "reviews"}
           /\ SeedData[i].table = "reviews" => SeedData[j].table = "reviews"
    /\ \A i \in DOMAIN SeedData : SeedData[i].table \in {"orders", "reviews"} =>
           Listed("users", SeedData[i].key[1]) /\ Listed("products", SeedData[i].key[2])

Tables == {"users", "carts", "products", "orders", "reviews"}
Row(i, k, v, op) == [id |-> i, key |-> k, value |-> v, by |-> op]
Entry(t, k, v) == [table |-> t, key |-> k, value |-> v]

(* What the tables hold when the service starts, the seed wrote, and a      *)
(* review belongs to a stored account (a foreign key).                      *)
OpeningSound(d) ==
    /\ d = [t \in Tables |-> d[t]]
    /\ \A t \in Tables : \A x \in d[t] : x = Row(x.id, x.key, x.value, "seed")
    /\ \A v \in d["reviews"] : \E u \in d["users"] : u.id = v.key[1]

ASSUME AccountsAssumption ==
    /\ SeedSound
    /\ \A d \in Openings : OpeningSound(d)
    /\ Ratings \subseteq 1..5
    /\ MaxSerial \in Nat /\ MaxJobs \in Nat /\ MaxFaults \in Nat
    /\ \A d \in Openings :
           Cardinality(UNION {d[t] : t \in Tables}) + MaxJobs * (Len(SeedData) + 1) <= MaxSerial

VARIABLES db,        \* the committed rows of every table
          archived,  \* the archived products
          rating,    \* the stored average (in hundredths) and count of a product
          serial,    \* the last id given out
          run,       \* what every request in flight has done
          told,      \* the rows whose creation was answered with success
          lost,      \* those of them whose commit failed after the answer
          known, basis,   \* the reviews the last rating had to, and did, count
          jobs, faults

vars == <<db, archived, rating, serial, run, told, lost, known, basis, jobs, faults>>

Once == {"users", "carts", "reviews"}
UniqueButCarts == {"users", "reviews"}
Unique == {"users", "carts", "reviews"}    \* tables with a unique key
Ids == 1..MaxSerial
Nothing == [t \in Tables |-> {}]

NoRun == [pc |-> "idle", op |-> "none", todo |-> <<>>, new |-> Nothing,
          found |-> [n \in Names |-> 0], had |-> {}, rates |-> {}, seen |-> {},
          rated |-> {}, named |-> {}, before |-> {}]

(* The average with two decimals, as Decimal.quantize rounds it. *)
HalfEven(a, b) ==
    LET q == a \div b
        twice == 2 * (a % b)
    IN IF twice > b \/ (twice = b /\ q % 2 = 1) THEN q + 1 ELSE q
RatingStats(S) ==
    [count |-> Cardinality(S),
     avg |-> IF S = {} THEN 0
             ELSE HalfEven(100 * MapThenSumSet(LAMBDA v : v.value, S), Cardinality(S))]

Visible(r, t) == db[t] \cup run[r].new[t]
ReviewsOf(S, p) == {v \in S : v.key[2] = p}
UserIds(r) == {u.id : u \in Visible(r, "users")}

(* A product row is locked by whoever has written it and not yet ended. *)
Locked(q) == {x.product : x \in run[q].rated} \cup {x.product : x \in run[q].named}
Free(r, p) == \A q \in Requests \ {r} : p \notin Locked(q)

Init ==
    /\ db \in Openings
    /\ archived = {} /\ told = {} /\ lost = {} /\ jobs = 0 /\ faults = 0
    /\ rating = [p \in Ids |-> RatingStats(ReviewsOf(db["reviews"], p))]
    /\ basis = [p \in Ids |-> ReviewsOf(db["reviews"], p)]
    /\ known = basis
    /\ serial = Cardinality(UNION {db[t] : t \in Tables})
    /\ run = [r \in Requests |-> NoRun]

(* The rows that must be alone with their key, by table. *)
Made(r) == UNION {{[table |-> t, row |-> x] : x \in run[r].new[t]} : t \in Once}

UNCHANGEDTables == UNCHANGED <<db, archived, rating, known, basis>>

-----------------------------------------------------------------------------
(* A caller holds a token of a login, or of a registration that has been     *)
(* answered: a token is believed without a look at the table of users.       *)
Callers == {u.id : u \in db["users"]} \cup {x.row.id : x \in {y \in told : y.table = "users"}}

Begin(r, op, pc, todo, rates) ==
    /\ run[r].pc = "idle" /\ jobs < MaxJobs
    /\ jobs' = jobs + 1
    /\ run' = [run EXCEPT ![r] = [NoRun EXCEPT !.pc = pc, !.op = op, !.todo = todo,
                                  !.rates = rates, !.before = db["reviews"]]]
    /\ UNCHANGEDTables /\ UNCHANGED <<serial, told, lost, faults>>

Register(r) == \E e \in Emails :
    Begin(r, "register", "check", <<Entry("users", <<e>>, 0)>>, {})
FirstCart(r) == \E u \in Callers :
    Begin(r, "cart", "check", <<Entry("carts", <<u>>, 0)>>, {})
Review(r) == \E u \in Callers, p \in db["products"], n \in Ratings :
    Begin(r, "review", "product", <<Entry("reviews", <<u, p.id>>, n)>>, {p.id})
CreateProduct(r) == \E n \in Names :
    Begin(r, "create", "check", <<Entry("products", <<n>>, 0)>>, {})
Rename(r) == \E p \in db["products"], n \in Names :
    /\ p.key # <<n>>
    /\ Begin(r, "rename", "write", <<Entry("products", <<n>>, p.id)>>, {})
StartSeed(r) == Begin(r, "seed", "check", SeedData, {})

-----------------------------------------------------------------------------
Goto(r, pc) == run' = [run EXCEPT ![r].pc = pc]
Rollback(r) == run' = [run EXCEPT ![r] = NoRun]
Wanted(r) == Head(run[r].todo)

(* What the seed calls by email and name, it has found or created before.    *)
Key(r) ==
    LET w == Wanted(r)
    IN IF run[r].op = "seed" /\ w.table \in {"orders", "reviews"}
       THEN <<(CHOOSE u \in Visible(r, "users") : u.key = <<w.key[1]>>).id,
              run[r].found[w.key[2]]>>
       ELSE w.key
Same(r, S) == {x \in S : x.key = Key(r)}
Exists(r) == Same(r, Visible(r, Wanted(r).table)) # {}

(* The first two questions of ReviewService.create: the product is on sale,  *)
(* and the reviewer has an order with it that is not cancelled.              *)
ReviewReadsProduct(r) ==
    /\ run[r].pc = "product"
    /\ IF Key(r)[2] \in archived THEN Rollback(r) ELSE Goto(r, "purchase")

PurchasedByAnyone(u, p) == \E o \in db["orders"] : o.key[2] = p /\ o.value = 1
Purchased(u, p) == \E o \in db["orders"] : o.key = <<u, p>> /\ o.value = 1
ReviewReadsOrders(r) ==
    /\ run[r].pc = "purchase"
    /\ IF Purchased(Key(r)[1], Key(r)[2]) THEN Goto(r, "check") ELSE Rollback(r)

(* Registrations, reviews and new products are refused when the row exists;  *)
(* a cart is used.                                                           *)
Checks(r) ==
    /\ run[r].pc = "check" /\ run[r].op # "seed"
    /\ CASE ~Exists(r) -> Goto(r, "insert")
         [] Exists(r) /\ run[r].op = "cart" -> Goto(r, "answer")
         [] Exists(r) /\ run[r].op # "cart" -> Rollback(r)

(* A row is inserted once no transaction in flight holds an equal unique     *)
(* key, and fails if the request sees one; the owner of a cart, an order or  *)
(* a review must be a stored user.                                           *)
Awaits(r) == {q \in Requests \ {r} : /\ Wanted(r).table \in Unique
                                     /\ Same(r, run[q].new[Wanted(r).table]) # {}}
Taken(r) == Wanted(r).table \in Unique /\ Exists(r)
Owned(r) == Wanted(r).table \in {"carts", "orders", "reviews"} => Key(r)[1] \in UserIds(r)

AfterRow(r, new, todo) ==
    CASE run[r].op = "seed" /\ todo # <<>> -> "check"
      [] run[r].op = "seed" /\ todo = <<>> -> "stats"
      [] run[r].op = "review" -> "stats"
      [] OTHER -> "answer"

Rates(r) == IF Wanted(r).table = "reviews" THEN run[r].rates \cup {Key(r)[2]}
            ELSE run[r].rates

Finds(r, p) == [run[r].found EXCEPT ![Wanted(r).key[1]] = p]

Insert(r) ==
    /\ run[r].pc = "insert" /\ Awaits(r) = {} /\ ~Taken(r) /\ Owned(r)
    /\ serial' = serial + 1
    /\ LET me == run[r]
           w == Wanted(r)
           new == [me.new EXCEPT ![w.table] =
                       @ \cup {Row(serial + 1, Key(r), w.value, me.op)}]
           todo == Tail(me.todo)
       IN run' = [run EXCEPT ![r] =
              [me EXCEPT !.new = new, !.todo = todo, !.rates = Rates(r),
                         !.pc = AfterRow(r, new, todo),
                         !.found = IF w.table = "products" THEN Finds(r, serial + 1)
                                   ELSE me.found]]

(* The constraint speaks: an IntegrityError nobody handles, a 500.           *)
InsertFails(r) ==
    /\ run[r].pc = "insert" /\ Awaits(r) = {} /\ (Taken(r) \/ ~Owned(r))
    /\ Rollback(r)

(* The seed looks for every row before it inserts it; a customer who had     *)
(* orders when the seed came to them gets none of the seed's.                *)
AtFirstOrder(r) == /\ Wanted(r).table = "orders"
                   /\ Cardinality({i \in DOMAIN run[r].todo : run[r].todo[i].table = "orders"})
                      = Cardinality({i \in DOMAIN SeedData : SeedData[i].table = "orders"})
SeedChecks(r) ==
    /\ run[r].pc = "check" /\ run[r].op = "seed"
    /\ LET me == run[r]
           w == Wanted(r)
           had == IF AtFirstOrder(r) THEN {o.key[1] : o \in db["orders"]} ELSE me.had
           skip == IF w.table = "orders" THEN Key(r)[1] \in had ELSE Exists(r)
           todo == Tail(me.todo)
       IN \E p \in IF w.table = "products" /\ skip
                   THEN {x.id : x \in Same(r, Visible(r, "products"))} ELSE {0} :
            run' = [run EXCEPT ![r] =
                IF ~skip THEN [me EXCEPT !.pc = "insert", !.had = had]
                ELSE [me EXCEPT !.todo = todo, !.had = had, !.rates = Rates(r),
                           !.pc = AfterRow(r, me.new, todo),
                           !.found = IF p = 0 THEN me.found ELSE Finds(r, p)]]

(* rating_stats, then update_rating, which needs the lock of the product. *)
NextRatedAsItComes(r) == CHOOSE p \in run[r].rates :
    \A q \in run[r].rates : IF r = 1 THEN p <= q ELSE p >= q
NextRated(r) == Min(run[r].rates)
ReadStatsUnflushed(r) ==
    /\ run[r].pc = "stats"
    /\ run' = [run EXCEPT ![r] = [@ EXCEPT !.pc = "rate",
                                           !.seen = ReviewsOf(db["reviews"], NextRated(r))]]
ReadStats(r) ==
    /\ run[r].pc = "stats"
    /\ run' = [run EXCEPT ![r] = [@ EXCEPT !.pc = "rate",
                                           !.seen = ReviewsOf(Visible(r, "reviews"), NextRated(r))]]
UpdateRating(r) ==
    /\ run[r].pc = "rate" /\ Free(r, NextRated(r))
    /\ LET me == run[r]
           rates == me.rates \ {NextRated(r)}
       IN run' = [run EXCEPT ![r] = [me EXCEPT
              !.rated = me.rated \cup {[product |-> NextRated(r), seen |-> me.seen]},
              !.rates = rates, !.seen = {},
              !.pc = CASE rates # {} -> "stats"
                       [] rates = {} /\ me.op = "seed" -> "commit"
                       [] rates = {} /\ me.op # "seed" -> "answer"]]

(* admin_update writes the fields it was given, the name here, and no other. *)
WriteName(r) ==
    /\ run[r].pc = "write" /\ Free(r, Wanted(r).value)
    /\ run' = [run EXCEPT ![r] = [@ EXCEPT
           !.named = {[product |-> Wanted(r).value, name |-> Wanted(r).key]},
           !.pc = "answer"]]

Answer(r) ==
    /\ run[r].pc = "answer"
    /\ told' = told \cup Made(r)
    /\ Goto(r, "commit")

(* The dependency that opened the transaction closes it after the reply.     *)
Renamed(r, S) == {IF \E x \in run[r].named : x.product = p.id
                  THEN [p EXCEPT !.key = (CHOOSE x \in run[r].named : x.product = p.id).name]
                  ELSE p : p \in S}
SeenOf(r, p) == (CHOOSE x \in run[r].rated : x.product = p).seen
Rated(r) == {x.product : x \in run[r].rated}
Commit(r) ==
    /\ run[r].pc = "commit"
    /\ db' = [t \in Tables |-> IF t = "products" THEN Renamed(r, db[t]) \cup run[r].new[t]
                               ELSE db[t] \cup run[r].new[t]]
    /\ rating' = [p \in Ids |-> IF p \in Rated(r) THEN RatingStats(SeenOf(r, p)) ELSE rating[p]]
    /\ basis' = [p \in Ids |-> IF p \in Rated(r) THEN SeenOf(r, p) ELSE basis[p]]
    /\ known' = [p \in Ids |-> IF p \in Rated(r)
                               THEN ReviewsOf(run[r].before \cup run[r].new["reviews"], p)
                               ELSE known[p]]
    /\ Rollback(r)

(* The connection or the process fails: nothing the request did remains. *)
Fail(r) ==
    /\ run[r].pc # "idle" /\ faults < MaxFaults
    /\ faults' = faults + 1
    /\ lost' = IF run[r].pc = "commit" THEN lost \cup (told \cap Made(r))
               ELSE lost
    /\ Rollback(r)
    /\ UNCHANGEDTables /\ UNCHANGED <<serial, told, jobs>>

-----------------------------------------------------------------------------
(* What Store does meanwhile. *)
Buy == \E u \in db["users"], p \in db["products"] :
    /\ p.id \notin archived /\ jobs < MaxJobs /\ jobs' = jobs + 1
    /\ ~\E o \in db["orders"] : o.key = <<u.id, p.id>> /\ o.value = 1
    /\ serial' = serial + 1
    /\ db' = [db EXCEPT !["orders"] = @ \cup {Row(serial + 1, <<u.id, p.id>>, 1, "buy")}]
    /\ UNCHANGED <<archived, rating, run, told, lost, known, basis, faults>>
Cancel == \E o \in db["orders"] :
    /\ o.value = 1
    /\ db' = [db EXCEPT !["orders"] = (@ \ {o}) \cup {[o EXCEPT !.value = 0]}]
    /\ UNCHANGED <<archived, rating, serial, run, told, lost, known, basis, jobs, faults>>
Archive == \E p \in db["products"] :
    /\ p.id \notin archived /\ \A q \in Requests : p.id \notin Locked(q)
    /\ archived' = archived \cup {p.id}
    /\ UNCHANGED <<db, rating, serial, run, told, lost, known, basis, jobs, faults>>

-----------------------------------------------------------------------------
Starts(r) == Register(r) \/ FirstCart(r) \/ Review(r) \/ CreateProduct(r) \/ Rename(r) \/ StartSeed(r)
Reads(r) ==
    /\ \/ ReviewReadsProduct(r) \/ ReviewReadsOrders(r) \/ Checks(r) \/ SeedChecks(r)
       \/ ReadStats(r) \/ UpdateRating(r) \/ WriteName(r) \/ InsertFails(r)
    /\ UNCHANGEDTables /\ UNCHANGED <<serial, told, lost, jobs, faults>>
Inserts(r) == Insert(r) /\ UNCHANGEDTables /\ UNCHANGED <<told, lost, jobs, faults>>
Answers(r) == Answer(r) /\ UNCHANGEDTables /\ UNCHANGED <<serial, lost, jobs, faults>>
Commits(r) == Commit(r) /\ UNCHANGED <<archived, serial, told, lost, jobs, faults>>
Works(r) == Reads(r) \/ Inserts(r) \/ Answers(r) \/ Commits(r)

Next == (\E r \in Requests : Starts(r) \/ Works(r) \/ Fail(r)) \/ Buy \/ Cancel \/ Archive
Spec == Init /\ [][Next]_vars
FairSpec == Spec /\ \A r \in Requests : WF_vars(Works(r))

-----------------------------------------------------------------------------
(* Every row has an id given out, a stored rating is that of a count and an  *)
(* average from 0.00 to 5.00, and a request waits only with something to do. *)
TypeOK ==
    /\ \A t \in Tables : \A x \in db[t] : x.id \in 1..serial
    /\ archived \subseteq {p.id : p \in db["products"]}
    /\ rating \in [Ids -> [count : 0..MaxSerial, avg : 0..500]]
    /\ serial \in 0..MaxSerial /\ jobs \in 0..MaxJobs /\ faults \in 0..MaxFaults
    /\ \A r \in Requests :
           /\ run[r].pc \in {"check", "insert"} => run[r].todo # <<>>
           /\ run[r].pc \in {"stats", "rate"} => run[r].rates # {}

(* Once a request has said it created an account, a cart or a review, that   *)
(* row is there for good, and alone with its key, unless the commit after    *)
(* the answer failed: no conflict of keys is found after the answer          *)
(* (UserRepository.create, ReviewRepository.create and get_or_create flush). *)
Sole(x) == {y \in db[x.table] : y.key = x.row.key} = {x.row}
ToldIsStored == \A x \in told \ lost : (\E r \in Requests : x \in Made(r)) \/ Sole(x)

(* The rating of a product is that of reviews that are stored, and it counts *)
(* every review that was stored when the last reviewer began, and their own: *)
(* what it misses was written at the same time (ReviewService.create).       *)
RatingTrue == \A p \in Ids :
    /\ rating[p] = RatingStats(basis[p])
    /\ known[p] \subseteq basis[p] /\ basis[p] \subseteq db["reviews"]

(* A review that a customer wrote is of a product in an order of theirs,     *)
(* even if that order is cancelled by now, and of a stored account; the seed *)
(* writes its reviews unasked.                                               *)
ReviewsEarned == \A v \in db["reviews"] :
    /\ \E u \in db["users"] : u.id = v.key[1]
    /\ v.by = "review" => \E o \in db["orders"] : o.key = v.key

(* No request waits for ever: those that wait for a key of another's rows or *)
(* for a product's lock never wait in a circle (reviews are inserted before  *)
(* ratings are written, by the seed too).                                    *)
Ends == \A r \in Requests : run[r].pc # "idle" ~> run[r].pc = "idle"
=============================================================================
