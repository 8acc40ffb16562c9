--------------------------- MODULE AccountsProofs ---------------------------
(***************************************************************************)
(* Proofs about Accounts for any emails, names, seed and number of         *)
(* requests: what was answered with success is stored and alone with its   *)
(* key, a rating counts what its writer had to see, and a review is earned.*)
(***************************************************************************)
EXTENDS Accounts, TLAPS

Fields == {"pc", "op", "todo", "new", "found", "had", "rates", "seen", "rated", "named", "before"}
Rows(S) == \A x \in S : x = Row(x.id, x.key, x.value, x.by)

\* What the proofs need of types: tables, requests and orders have their fields.
Shape ==
  /\ db = [t \in Tables |-> db[t]]
  /\ run = [r \in Requests |-> run[r]]
  /\ \A r \in Requests : /\ run[r] = [f \in Fields |-> run[r][f]]
                         /\ run[r].new = [t \in Tables |-> run[r].new[t]]

\* No row of a request in flight has the key of a stored row, or of another row in flight.
Exclusive ==
  \A r \in Requests, t \in Once : \A x \in run[r].new[t] :
    /\ \A y \in db[t] : y.key # x.key
    /\ \A q \in Requests : \A y \in run[q].new[t] : y.key = x.key => q = r /\ y = x

\* A row was answered by a request that has only to commit, or is stored, or lost.
Answered ==
  /\ \A x \in told : x.table \in Once
  /\ \A r \in Requests : run[r].pc # "commit" => Made(r) \cap told \subseteq lost
  /\ ToldIsStored

\* What a request must count: what was stored when it began, and what it wrote.
Own(r) == run[r].before \cup run[r].new["reviews"]
Counts(r, S, p) == ReviewsOf(Own(r), p) \subseteq S /\ S \subseteq Visible(r, "reviews")
Unrated == {"idle", "product", "purchase", "check", "insert", "write"}
Counting(r) ==
  /\ run[r].before \subseteq db["reviews"]
  /\ run[r].pc \in Unrated => run[r].rated = {}
  /\ run[r].pc = "rate" => Counts(r, run[r].seen, NextRated(r))
  /\ \A x \in run[r].rated : Counts(r, x.seen, x.product)

\* A review on its way to be inserted names a stored user and, if a customer
\* wrote it, has been found in an order of theirs.
Reviewing(r) ==
  /\ Wanted(r).table = "reviews"
  /\ Wanted(r).key = <<Wanted(r).key[1], Wanted(r).key[2]>>
Earning(r) ==
  /\ run[r].op = "review" /\ run[r].pc \in Unrated => Reviewing(r)
  /\ run[r].op = "review" /\ run[r].pc \in {"check", "insert"} =>
       \E o \in db["orders"] : o.key = Wanted(r).key
  /\ \A v \in run[r].new["reviews"] :
       /\ \E u \in Visible(r, "users") : u.id = v.key[1]
       /\ v.by = "review" => \E o \in db["orders"] : o.key = v.key
OrderRows == Rows(db["orders"]) /\ \A r \in Requests : Rows(run[r].new["orders"])

Inv == /\ Shape /\ Exclusive /\ Answered
       /\ \A r \in Requests : Counting(r) /\ Earning(r)
       /\ OrderRows /\ RatingTrue /\ ReviewsEarned

-----------------------------------------------------------------------------
Others(r) == \A q \in Requests \ {r} : run'[q] = run[q]
Kept(r) == UNCHANGED <<run[r].new, run[r].before, run[r].op>>

\* A step of a request writes its own record.
LEMMA OneChanged ==
  ASSUME Shape, NEW r \in Requests, NEW x, run' = [run EXCEPT ![r] = x],
         x = [f \in Fields |-> x[f]], x.new = [t \in Tables |-> x.new[t]],
         db' = [t \in Tables |-> db'[t]]
  PROVE  Shape' /\ Others(r) /\ run'[r] = x
<1>1. run'[r] = x /\ Others(r) /\ run' = [q \in Requests |-> run'[q]]
  BY DEF Shape, Others
<1>. QED
  BY <1>1 DEF Shape, Others

\* A request that gives up leaves nothing of what it did.
LEMMA RollbackShape ==
  ASSUME Shape, NEW r \in Requests, Rollback(r), db' = [t \in Tables |-> db'[t]]
  PROVE  Shape' /\ Others(r) /\ run'[r] = NoRun
BY OneChanged DEF Rollback, Fields, NoRun, Nothing

LEMMA GotoShape ==
  ASSUME Shape, NEW r \in Requests, NEW pc, Goto(r, pc), db' = db
  PROVE  /\ Shape' /\ Others(r) /\ Kept(r)
         /\ run'[r].pc = pc /\ run'[r].rated = run[r].rated
         /\ run'[r].todo = run[r].todo
BY DEF Goto, Shape, Fields, Kept, Others

LEMMA SeedChecksShape ==
  ASSUME Shape, NEW r \in Requests, SeedChecks(r), db' = db
  PROVE  /\ Shape' /\ Others(r) /\ Kept(r)
         /\ run'[r].pc \in {"check", "insert", "stats", "answer"}
         /\ run'[r].rated = run[r].rated /\ run[r].op = "seed" /\ run[r].pc = "check"
<1>. DEFINE x(p, had, todo, skip) ==
              IF ~skip THEN [run[r] EXCEPT !.pc = "insert", !.had = had]
              ELSE [run[r] EXCEPT !.todo = todo, !.had = had, !.rates = Rates(r),
                        !.pc = AfterRow(r, run[r].new, todo),
                        !.found = IF p = 0 THEN @ ELSE Finds(r, p)]
<1>1. PICK p, had, todo, skip : run' = [run EXCEPT ![r] = x(p, had, todo, skip)]
  <2>. DEFINE w == Wanted(r)
              had == IF AtFirstOrder(r) THEN {o.key[1] : o \in db["orders"]} ELSE run[r].had
              skip == IF w.table = "orders" THEN Key(r)[1] \in had ELSE Exists(r)
              todo == Tail(run[r].todo)
  <2>1. PICK p : run' = [run EXCEPT ![r] = x(p, had, todo, skip)]
    BY DEF SeedChecks
  <2>. QED
    BY <2>1
<1>2. run[r].op = "seed" /\ run[r].pc = "check"
  BY DEF SeedChecks
<1>3. AfterRow(r, run[r].new, todo) \in {"check", "stats", "answer"}
  BY DEF AfterRow
<1>. DEFINE y == x(p, had, todo, skip)
<1>4. /\ y = [f \in Fields |-> y[f]]
      /\ y.new = run[r].new /\ y.before = run[r].before /\ y.op = run[r].op
      /\ y.rated = run[r].rated /\ y.pc \in {"check", "insert", "stats", "answer"}
  BY <1>3 DEF Shape, Fields
<1>. HIDE DEF x
<1>5. Shape' /\ Others(r) /\ run'[r] = y
  BY <1>1, <1>4, OneChanged DEF Shape
<1>. QED
  BY <1>2, <1>4, <1>5 DEF Kept

LEMMA ReadStatsShape ==
  ASSUME Shape, NEW r \in Requests, ReadStats(r), db' = db
  PROVE  /\ Shape' /\ Others(r) /\ Kept(r)
         /\ run'[r].pc = "rate" /\ run'[r].rated = run[r].rated /\ run'[r].rates = run[r].rates
         /\ run'[r].seen = ReviewsOf(Visible(r, "reviews"), NextRated(r))
BY DEF ReadStats, Shape, Fields, Kept, Others

LEMMA UpdateRatingShape ==
  ASSUME Shape, NEW r \in Requests, UpdateRating(r), db' = db
  PROVE  /\ Shape' /\ Others(r) /\ Kept(r)
         /\ run'[r].pc \in {"stats", "commit", "answer"} /\ run[r].pc = "rate"
         /\ run'[r].rated = run[r].rated \cup {[product |-> NextRated(r), seen |-> run[r].seen]}
<1>. DEFINE rates == run[r].rates \ {NextRated(r)}
            y == [run[r] EXCEPT
                    !.rated = @ \cup {[product |-> NextRated(r), seen |-> run[r].seen]},
                    !.rates = rates, !.seen = {},
                    !.pc = CASE rates # {} -> "stats"
                             [] rates = {} /\ run[r].op = "seed" -> "commit"
                             [] rates = {} /\ run[r].op # "seed" -> "answer"]
<1>1. run' = [run EXCEPT ![r] = y] /\ run[r].pc = "rate"
  BY DEF UpdateRating
<1>2. /\ y = [f \in Fields |-> y[f]]
      /\ y.new = run[r].new /\ y.before = run[r].before /\ y.op = run[r].op
      /\ y.rated = run[r].rated \cup {[product |-> NextRated(r), seen |-> run[r].seen]}
      /\ y.pc \in {"stats", "commit", "answer"}
  BY DEF Shape, Fields
<1>. HIDE DEF y
<1>3. Shape' /\ Others(r) /\ run'[r] = y
  BY <1>1, <1>2, OneChanged DEF Shape
<1>. QED
  BY <1>1, <1>2, <1>3 DEF Kept

LEMMA WriteNameShape ==
  ASSUME Shape, NEW r \in Requests, WriteName(r), db' = db
  PROVE  /\ Shape' /\ Others(r) /\ Kept(r)
         /\ run'[r].pc = "answer" /\ run[r].pc = "write" /\ run'[r].rated = run[r].rated
BY DEF WriteName, Shape, Fields, Kept, Others

LEMMA InsertShape ==
  ASSUME Shape, NEW r \in Requests, Insert(r), db' = db
  PROVE  /\ Shape' /\ Others(r)
         /\ run[r].pc = "insert" /\ run'[r].pc \in {"check", "stats", "answer"}
         /\ run'[r].pc = "check" => run[r].op = "seed"
         /\ run'[r].op = run[r].op /\ run'[r].rated = run[r].rated
         /\ run'[r].before = run[r].before
         /\ \A t \in Tables : run'[r].new[t] =
              IF t = Wanted(r).table
              THEN run[r].new[t] \cup {Row(serial + 1, Key(r), Wanted(r).value, run[r].op)}
              ELSE run[r].new[t]
<1>. DEFINE x == Row(serial + 1, Key(r), Wanted(r).value, run[r].op)
            w == Wanted(r)
            new == [run[r].new EXCEPT ![w.table] = @ \cup {x}]
            todo == Tail(run[r].todo)
            y == [run[r] EXCEPT
                    !.new = new, !.todo = todo, !.rates = Rates(r),
                    !.pc = AfterRow(r, new, todo),
                    !.found = IF w.table = "products" THEN Finds(r, serial + 1) ELSE @]
<1>1. run' = [run EXCEPT ![r] = y] /\ run[r].pc = "insert"
  BY DEF Insert
<1>2. new = [t \in Tables |-> new[t]]
  BY DEF Shape
<1>3. \A t \in Tables : new[t] = IF t = w.table THEN run[r].new[t] \cup {x} ELSE run[r].new[t]
  BY DEF Shape
<1>4. /\ AfterRow(r, new, todo) \in {"check", "stats", "answer"}
      /\ AfterRow(r, new, todo) = "check" => run[r].op = "seed"
  BY DEF AfterRow
<1>. HIDE DEF new
<1>5. /\ y = [f \in Fields |-> y[f]]
      /\ y.new = new /\ y.before = run[r].before /\ y.op = run[r].op
      /\ y.rated = run[r].rated /\ y.pc = AfterRow(r, new, todo)
  BY DEF Shape, Fields
<1>. HIDE DEF y
<1>6. Shape' /\ Others(r) /\ run'[r] = y
  BY <1>1, <1>2, <1>5, OneChanged DEF Shape
<1>. QED
  BY <1>1, <1>3, <1>4, <1>5, <1>6

Fresh(op, pc, todo, rates) == [NoRun EXCEPT !.pc = pc, !.op = op, !.todo = todo,
                                            !.rates = rates, !.before = db["reviews"]]
LEMMA BeginShape ==
  ASSUME Shape, NEW r \in Requests, NEW op, NEW pc, NEW todo, NEW rates,
         Begin(r, op, pc, todo, rates)
  PROVE  /\ Shape' /\ Others(r) /\ db' = db
         /\ run'[r] = Fresh(op, pc, todo, rates)
BY DEF Begin, UNCHANGEDTables, Shape, Fields, Others, NoRun, Nothing, Fresh

-----------------------------------------------------------------------------
\* What a request reads leaves every row where it was, unless it gives up.
LEMMA ReadsShape ==
  ASSUME Shape, NEW r \in Requests, Reads(r)
  PROVE  /\ Shape' /\ Others(r) /\ run[r].pc # "commit"
         /\ run'[r] = NoRun \/ Kept(r)
<1>1. db' = db /\ db' = [t \in Tables |-> db'[t]]
  BY DEF Reads, UNCHANGEDTables, Shape
<1>2. CASE ReviewReadsProduct(r)
  BY <1>1, <1>2, RollbackShape, GotoShape DEF ReviewReadsProduct
<1>3. CASE ReviewReadsOrders(r)
  BY <1>1, <1>3, RollbackShape, GotoShape DEF ReviewReadsOrders
<1>4. CASE Checks(r)
  <2>1. (\E pc : Goto(r, pc)) \/ Rollback(r)
    BY <1>4 DEF Checks
  <2>. QED
    BY <1>1, <1>4, <2>1, RollbackShape, GotoShape DEF Checks
<1>5. CASE SeedChecks(r)
  BY <1>1, <1>5, SeedChecksShape
<1>6. CASE ReadStats(r)
  BY <1>1, <1>6, ReadStatsShape DEF ReadStats
<1>7. CASE UpdateRating(r)
  BY <1>1, <1>7, UpdateRatingShape
<1>8. CASE WriteName(r)
  BY <1>1, <1>8, WriteNameShape
<1>9. CASE InsertFails(r)
  BY <1>1, <1>9, RollbackShape DEF InsertFails
<1>. QED
  BY <1>2, <1>3, <1>4, <1>5, <1>6, <1>7, <1>8, <1>9 DEF Reads

\* A commit adds the request's rows to the tables, and the request is over.
LEMMA CommitShape ==
  ASSUME Shape, NEW r \in Requests, Commit(r)
  PROVE  /\ Shape' /\ Others(r) /\ run'[r] = NoRun /\ run[r].pc = "commit"
         /\ \A t \in Tables \ {"products"} : db'[t] = db[t] \cup run[r].new[t]
<1>1. /\ db' = [t \in Tables |-> db'[t]]
      /\ \A t \in Tables \ {"products"} : db'[t] = db[t] \cup run[r].new[t]
  BY DEF Commit
<1>. QED
  BY <1>1, RollbackShape DEF Commit

LEMMA FailShape ==
  ASSUME Shape, NEW r \in Requests, Fail(r)
  PROVE  Shape' /\ Others(r) /\ run'[r] = NoRun /\ db' = db
<1>1. db' = db /\ db' = [t \in Tables |-> db'[t]]
  BY DEF Fail, UNCHANGEDTables, Shape
<1>. QED
  BY <1>1, RollbackShape DEF Fail

\* Every way a request starts, with its first question.
LEMMA StartsShape ==
  ASSUME Shape, NEW r \in Requests, Starts(r)
  PROVE  /\ Shape' /\ Others(r) /\ db' = db
         /\ run'[r].new = Nothing /\ run'[r].rated = {} /\ run'[r].before = db["reviews"]
         /\ run[r].pc = "idle" /\ run'[r].pc \in {"check", "product", "write"}
         /\ run'[r].op = "review" => run'[r].pc = "product" /\ Reviewing(r)'
<1>. DEFINE Started(op, pc) ==
               /\ Shape' /\ Others(r) /\ db' = db /\ run[r].pc = "idle"
               /\ run'[r].new = Nothing /\ run'[r].rated = {} /\ run'[r].before = db["reviews"]
               /\ run'[r].pc = pc /\ run'[r].op = op
<1>1. ASSUME NEW op, NEW pc, NEW todo, NEW rates, Begin(r, op, pc, todo, rates)
      PROVE  Started(op, pc) /\ run'[r].todo = todo
  <2>1. run[r].pc = "idle"
    BY <1>1 DEF Begin
  <2>2. /\ Shape' /\ Others(r) /\ db' = db
        /\ run'[r] = Fresh(op, pc, todo, rates)
    BY <1>1, BeginShape
  <2>. QED
    BY <2>1, <2>2 DEF NoRun, Fresh
<1>2. CASE Register(r)
  BY <1>1, <1>2 DEF Register
<1>3. CASE FirstCart(r)
  BY <1>1, <1>3 DEF FirstCart
<1>4. CASE Review(r)
  <2>1. PICK u, p, n : Begin(r, "review", "product", <<Entry("reviews", <<u, p.id>>, n)>>, {p.id})
    BY <1>4 DEF Review
  <2>2. Started("review", "product") /\ run'[r].todo = <<Entry("reviews", <<u, p.id>>, n)>>
    BY <1>1, <2>1
  <2>3. Wanted(r)' = Entry("reviews", <<u, p.id>>, n)
    BY <2>2 DEF Wanted
  <2>. QED
    BY <2>2, <2>3 DEF Reviewing, Entry
<1>5. CASE CreateProduct(r)
  BY <1>1, <1>5 DEF CreateProduct
<1>6. CASE Rename(r)
  BY <1>1, <1>6 DEF Rename
<1>7. CASE StartSeed(r)
  BY <1>1, <1>7 DEF StartSeed
<1>. QED
  BY <1>2, <1>3, <1>4, <1>5, <1>6, <1>7 DEF Starts

-----------------------------------------------------------------------------
\* Rows in flight that vanish, or that nobody adds, leave the others exclusive.
LEMMA ExclusiveStable ==
  ASSUME Exclusive, \A t \in Once : db'[t] = db[t],
         \A q \in Requests, t \in Once : run'[q].new[t] \subseteq run[q].new[t]
  PROVE  Exclusive'
<1>. SUFFICES ASSUME NEW r \in Requests, NEW t \in Once, NEW x \in run'[r].new[t]
              PROVE  /\ \A y \in db'[t] : y.key # x.key
                     /\ \A q \in Requests : \A y \in run'[q].new[t] :
                          y.key = x.key => q = r /\ y = x
  BY DEF Exclusive
<1>. QED
  BY DEF Exclusive

\* Nobody holds the key of a row that is inserted where keys are alone.
LEMMA InsertFree ==
  ASSUME NEW r \in Requests, Insert(r), Wanted(r).table \in Once
  PROVE  /\ \A y \in db[Wanted(r).table] : y.key # Key(r)
         /\ \A q \in Requests : \A y \in run[q].new[Wanted(r).table] : y.key # Key(r)
<1>. DEFINE w == Wanted(r).table
<1>1. w \in Unique
  BY DEF Unique, Once
<1>2. \A y \in db[w] \cup run[r].new[w] : y.key # Key(r)
  <2>1. Same(r, Visible(r, w)) = {}
    BY <1>1 DEF Insert, Taken, Exists
  <2>. QED
    BY <2>1 DEF Same, Visible
<1>3. ASSUME NEW q \in Requests \ {r} PROVE \A y \in run[q].new[w] : y.key # Key(r)
  <2>1. Same(r, run[q].new[w]) = {}
    BY <1>1 DEF Insert, Awaits
  <2>. QED
    BY <2>1 DEF Same
<1>. QED
  BY <1>2, <1>3

LEMMA InsertExclusive ==
  ASSUME Shape, Exclusive, NEW r \in Requests, Insert(r), db' = db
  PROVE  Exclusive'
<1>. DEFINE w == Wanted(r).table
            z == Row(serial + 1, Key(r), Wanted(r).value, run[r].op)
<1>1. z.key = Key(r)
  BY DEF Row
<1>2. /\ \A q \in Requests \ {r} : run'[q] = run[q]
      /\ \A t \in Once : run'[r].new[t] = IF t = w THEN run[r].new[t] \cup {z} ELSE run[r].new[t]
  <2>1. Once \subseteq Tables
    BY DEF Once, Tables
  <2>2. /\ Others(r)
        /\ \A t \in Tables : run'[r].new[t] = IF t = w THEN run[r].new[t] \cup {z} ELSE run[r].new[t]
    BY InsertShape
  <2>. QED
    BY <2>1, <2>2 DEF Others
<1>3. w \in Once => /\ \A y \in db[w] : y.key # z.key
                    /\ \A q \in Requests : \A y \in run[q].new[w] : y.key # z.key
  BY <1>1, InsertFree
<1>. HIDE DEF z, w
<1>. SUFFICES ASSUME NEW p \in Requests, NEW t \in Once, NEW x \in run'[p].new[t]
              PROVE  /\ \A y \in db[t] : y.key # x.key
                     /\ \A q \in Requests : \A y \in run'[q].new[t] :
                          y.key = x.key => q = p /\ y = x
  BY DEF Exclusive
<1>4. x \in run[p].new[t] \/ (p = r /\ t = w /\ x = z)
  BY <1>2
<1>5. \A y \in db[t] : y.key # x.key
  BY <1>3, <1>4 DEF Exclusive
<1>6. ASSUME NEW q \in Requests, NEW y \in run'[q].new[t], y.key = x.key
      PROVE  q = p /\ y = x
  <2>1. y \in run[q].new[t] \/ (q = r /\ t = w /\ y = z)
    BY <1>2
  <2>2. CASE x \in run[p].new[t] /\ y \in run[q].new[t]
    BY <1>6, <2>2 DEF Exclusive
  <2>3. CASE ~(x \in run[p].new[t] /\ y \in run[q].new[t])
    BY <1>3, <1>4, <1>6, <2>1, <2>3
  <2>. QED
    BY <2>2, <2>3
<1>. QED
  BY <1>5, <1>6

LEMMA CommitExclusive ==
  ASSUME Shape, Exclusive, NEW r \in Requests, Commit(r)
  PROVE  Exclusive'
<1>1. /\ \A q \in Requests \ {r} : run'[q] = run[q]
      /\ \A t \in Once : db'[t] = db[t] \cup run[r].new[t] /\ run'[r].new[t] = {}
  BY CommitShape DEF Others, Once, Tables, NoRun, Nothing
<1>. SUFFICES ASSUME NEW p \in Requests, NEW t \in Once, NEW x \in run'[p].new[t]
              PROVE  /\ \A y \in db'[t] : y.key # x.key
                     /\ \A q \in Requests : \A y \in run'[q].new[t] :
                          y.key = x.key => q = p /\ y = x
  BY DEF Exclusive
<1>2. p # r /\ x \in run[p].new[t]
  BY <1>1
<1>. QED
  BY <1>1, <1>2 DEF Exclusive

-----------------------------------------------------------------------------
LEMMA MadeRow ==
  ASSUME NEW r, NEW x
  PROVE  x \in Made(r) <=> \E t \in Once : \E y \in run[r].new[t] : x = [table |-> t, row |-> y]
BY DEF Made

\* A request that gives up, or goes on, before its commit breaks no promise.
LEMMA AnsweredStable ==
  ASSUME Answered, NEW r \in Requests, Others(r), told' = told, lost \subseteq lost',
         \A t \in Once : db'[t] = db[t],
         \/ Kept(r) /\ (run[r].pc = "commit" => run'[r].pc = "commit")
         \/ run'[r] = NoRun /\ Made(r) \cap told \subseteq lost'
  PROVE  Answered'
<1>1. ASSUME NEW q \in Requests, run'[q].new = run[q].new PROVE Made(q)' = Made(q)
  BY <1>1 DEF Made
<1>2. run'[r] = NoRun => Made(r)' = {}
  BY DEF Made, NoRun, Nothing, Once, Tables
<1>3. ASSUME NEW q \in Requests, run'[q].pc # "commit" PROVE Made(q)' \cap told \subseteq lost'
  <2>1. CASE q # r
    <3>1. run'[q] = run[q]
      BY <2>1 DEF Others
    <3>. QED
      BY <1>1, <1>3, <3>1 DEF Answered
  <2>2. CASE q = r
    BY <1>1, <1>2, <1>3, <2>2 DEF Answered, Kept
  <2>. QED
    BY <2>1, <2>2
<1>4. ASSUME NEW x \in told' \ lost' PROVE (\E q \in Requests : x \in Made(q)') \/ Sole(x)'
  <2>1. x \in told \ lost /\ x.table \in Once
    BY <1>4 DEF Answered
  <2>2. CASE Sole(x)
    BY <2>1, <2>2 DEF Sole
  <2>3. ASSUME NEW q \in Requests, x \in Made(q) PROVE \E p \in Requests : x \in Made(p)'
    <3>1. CASE q # r
      BY <1>1, <2>3, <3>1 DEF Others
    <3>2. CASE q = r
      BY <1>1, <1>4, <2>1, <2>3, <3>2 DEF Kept
    <3>. QED
      BY <3>1, <3>2
  <2>. QED
    BY <2>1, <2>2, <2>3 DEF Answered, ToldIsStored
<1>. QED
  BY <1>3, <1>4 DEF Answered, ToldIsStored

LEMMA InsertAnswered ==
  ASSUME Shape, Exclusive, Answered, NEW r \in Requests, Insert(r),
         UNCHANGED <<db, told, lost>>
  PROVE  Answered'
<1>. DEFINE w == Wanted(r).table
            z == Row(serial + 1, Key(r), Wanted(r).value, run[r].op)
<1>1. Once \subseteq Tables
  BY DEF Once, Tables
<1>2. /\ \A q \in Requests \ {r} : run'[q] = run[q]
      /\ \A t \in Tables : run'[r].new[t] = IF t = w THEN run[r].new[t] \cup {z} ELSE run[r].new[t]
      /\ run[r].pc # "commit"
  BY InsertShape DEF Others
<1>3. \A q \in Requests \ {r} : Made(q)' = Made(q)
  BY <1>2 DEF Made
<1>4. /\ Made(r) \subseteq Made(r)'
      /\ \A x \in Made(r)' \ Made(r) : w \in Once /\ x = [table |-> w, row |-> z]
  <2>1. ASSUME NEW x \in Made(r) PROVE x \in Made(r)'
    <3>1. PICK t \in Once : \E y \in run[r].new[t] : x = [table |-> t, row |-> y]
      BY MadeRow
    <3>1a. PICK y \in run[r].new[t] : x = [table |-> t, row |-> y]
      BY <3>1
    <3>2. y \in run'[r].new[t]
      BY <1>1, <1>2
    <3>. QED
      BY <3>1a, <3>2 DEF Made
  <2>2. ASSUME NEW x \in Made(r)', x \notin Made(r) PROVE w \in Once /\ x = [table |-> w, row |-> z]
    <3>1. PICK t \in Once : \E y \in run'[r].new[t] : x = [table |-> t, row |-> y]
      BY DEF Made
    <3>1a. PICK y \in run'[r].new[t] : x = [table |-> t, row |-> y]
      BY <3>1
    <3>2. y \notin run[r].new[t]
      BY <2>2, <3>1a DEF Made
    <3>. QED
      BY <1>1, <1>2, <3>1a, <3>2
  <2>. QED
    BY <2>1, <2>2
<1>5. ASSUME NEW x \in Made(r)' \ Made(r) PROVE x \notin told \ lost
  <2>1. x.table = w /\ x.row = z /\ w \in Once /\ z.key = Key(r)
    BY <1>4 DEF Row
  <2>2. ~Sole(x)
    BY <2>1, InsertFree DEF Sole
  <2>3. ASSUME NEW q \in Requests PROVE x \notin Made(q)
    <3>1. z \notin run[q].new[w]
      BY <2>1, InsertFree
    <3>2. \A y : x = [table |-> w, row |-> y] => y = z
      BY <2>1
    <3>3. \A t, y : x = [table |-> t, row |-> y] => t = w
      BY <2>1
    <3>. QED
      BY <3>1, <3>2, <3>3, MadeRow
  <2>. QED
    BY <2>2, <2>3 DEF Answered, ToldIsStored
<1>6. ASSUME NEW q \in Requests, run'[q].pc # "commit" PROVE Made(q)' \cap told \subseteq lost
  <2>1. CASE q # r
    BY <1>2, <1>3, <1>6, <2>1 DEF Answered
  <2>2. CASE q = r
    <3>1. Made(r) \cap told \subseteq lost
      BY <1>2 DEF Answered
    <3>. QED
      BY <1>5, <2>2, <3>1
  <2>. QED
    BY <2>1, <2>2
<1>7. ASSUME NEW x \in told \ lost PROVE (\E q \in Requests : x \in Made(q)') \/ Sole(x)'
  <2>1. Sole(x) => Sole(x)'
    BY DEF Sole
  <2>. QED
    BY <1>3, <1>4, <2>1 DEF Answered, ToldIsStored
<1>. QED
  BY <1>6, <1>7 DEF Answered, ToldIsStored

LEMMA AnswerAnswered ==
  ASSUME Shape, Exclusive, Answered, NEW r \in Requests, Answer(r), UNCHANGED <<db, lost>>
  PROVE  Answered'
<1>1. /\ \A q \in Requests : q # r => run'[q] = run[q]
      /\ run'[r].pc = "commit" /\ run'[r].new = run[r].new
  BY GotoShape DEF Answer, Others, Kept
<1>2. \A q \in Requests : Made(q)' = Made(q)
  <2>1. \A q \in Requests : run'[q].new = run[q].new
    BY <1>1
  <2>. QED
    BY <2>1 DEF Made
<1>3. told' = told \cup Made(r)
  BY DEF Answer
<1>4. \A x \in Made(r) : x.table \in Once
  BY MadeRow
<1>5. ASSUME NEW q \in Requests \ {r} PROVE Made(q) \cap Made(r) = {}
  <2>1. ASSUME NEW x \in Made(q), x \in Made(r) PROVE FALSE
    <3>1. PICK t \in Once : \E y \in run[q].new[t] : x = [table |-> t, row |-> y]
      BY MadeRow
    <3>1a. PICK y \in run[q].new[t] : x = [table |-> t, row |-> y]
      BY <3>1
    <3>2. PICK u \in Once : \E v \in run[r].new[u] : x = [table |-> u, row |-> v]
      BY <2>1, MadeRow
    <3>2a. PICK v \in run[r].new[u] : x = [table |-> u, row |-> v]
      BY <3>2
    <3>3. t = u /\ y = v
      BY <3>1a, <3>2a
    <3>. QED
      BY <3>3 DEF Exclusive
  <2>. QED
    BY <2>1
<1>6. ASSUME NEW q \in Requests, run'[q].pc # "commit" PROVE Made(q)' \cap told' \subseteq lost
  <2>1. q # r /\ Made(q) \cap told \subseteq lost
    BY <1>1, <1>6 DEF Answered
  <2>. QED
    BY <1>2, <1>3, <1>5, <2>1
<1>7. \A x : Sole(x) => Sole(x)'
  BY DEF Sole
<1>. QED
  BY <1>2, <1>3, <1>4, <1>6, <1>7 DEF Answered, ToldIsStored

LEMMA CommitAnswered ==
  ASSUME Shape, Exclusive, Answered, NEW r \in Requests, Commit(r), UNCHANGED <<told, lost>>
  PROVE  Answered'
<1>1. /\ \A q \in Requests : q # r => run'[q] = run[q]
      /\ \A t \in Once : db'[t] = db[t] \cup run[r].new[t]
      /\ run'[r] = NoRun
  BY CommitShape DEF Others, Once, Tables
<1>2. \A q \in Requests : q # r => Made(q)' = Made(q)
  BY <1>1 DEF Made
<1>3. Made(r)' = {}
  BY <1>1 DEF Made, NoRun, Nothing, Once, Tables
<1>4. ASSUME NEW x \in Made(r) PROVE Sole(x)'
  <2>1. PICK t \in Once : \E y \in run[r].new[t] : x = [table |-> t, row |-> y]
    BY MadeRow
  <2>1a. PICK y \in run[r].new[t] : x = [table |-> t, row |-> y]
    BY <2>1
  <2>2. /\ \A v \in db[t] : v.key # y.key
        /\ \A v \in run[r].new[t] : v.key = y.key => v = y
    BY DEF Exclusive
  <2>3. x.table = t /\ x.row = y
    BY <2>1a
  <2>. QED
    BY <1>1, <2>2, <2>3 DEF Sole
<1>5. ASSUME NEW x, Sole(x), x.table \in Once PROVE Sole(x)'
  <2>1. x.row \in db[x.table]
    BY <1>5 DEF Sole
  <2>2. \A v \in run[r].new[x.table] : v.key # x.row.key
    BY <1>5, <2>1 DEF Exclusive
  <2>. QED
    BY <1>1, <1>5, <2>2 DEF Sole
<1>6. ASSUME NEW q \in Requests, run'[q].pc # "commit" PROVE Made(q)' \cap told \subseteq lost
  BY <1>1, <1>2, <1>3, <1>6 DEF Answered
<1>7. ASSUME NEW x \in told \ lost PROVE (\E q \in Requests : x \in Made(q)') \/ Sole(x)'
  BY <1>2, <1>4, <1>5 DEF Answered, ToldIsStored
<1>. QED
  BY <1>6, <1>7 DEF Answered, ToldIsStored

-----------------------------------------------------------------------------
\* Reviews, users and the keys of orders are only ever added.
Grows == /\ db["reviews"] \subseteq db'["reviews"] /\ db["users"] \subseteq db'["users"]
         /\ \A o \in db["orders"] : \E n \in db'["orders"] : n.key = o.key

\* What a request has counted and earned stands while others work.
LEMMA OtherCounting ==
  ASSUME NEW q \in Requests, Counting(q), Earning(q), run'[q] = run[q], Grows
  PROVE  Counting(q)' /\ Earning(q)'
<1>2. \A S, p : Counts(q, S, p) => Counts(q, S, p)'
  BY DEF Counts, Own, ReviewsOf, Visible, Grows
<1>3. Counting(q)'
  BY <1>2 DEF Counting, NextRated, Grows
<1>4. Earning(q)'
  BY DEF Earning, Reviewing, Wanted, Visible, Grows
<1>. QED
  BY <1>3, <1>4

LEMMA NoneCounting ==
  ASSUME NEW r \in Requests, run'[r] = NoRun
  PROVE  Counting(r)' /\ Earning(r)' /\ Rows(run'[r].new["orders"])
BY DEF Counting, Earning, Rows, NoRun, Nothing, Tables

\* A request that moves on, its rows and its reviews as they were, has counted
\* what it had, and has earned what it looked up.
LEMMA MovedCounting ==
  ASSUME NEW r \in Requests, Counting(r), Earning(r), Kept(r), db' = db,
         run'[r].pc # "rate", run'[r].rated = run[r].rated,
         run'[r].pc \in Unrated => run[r].pc \in Unrated,
         \/ run[r].op # "review" \/ run'[r].pc \notin Unrated
         \/ /\ run'[r].todo = run[r].todo /\ run[r].pc \in Unrated
            /\ run'[r].pc \in {"check", "insert"} =>
                 \E o \in db["orders"] : o.key = Wanted(r).key
  PROVE  Counting(r)' /\ Earning(r)'
<1>1. \A S, p : Counts(r, S, p)' <=> Counts(r, S, p)
  BY DEF Counts, Own, ReviewsOf, Visible, Kept
<1>2. Counting(r)'
  BY <1>1 DEF Counting, Kept, Unrated
<1>3. run'[r].todo = run[r].todo => Wanted(r)' = Wanted(r) /\ (Reviewing(r) => Reviewing(r)')
  BY DEF Reviewing, Wanted
<1>4. ASSUME run'[r].op = "review", run'[r].pc \in Unrated
      PROVE  /\ Reviewing(r)'
             /\ run'[r].pc \in {"check", "insert"} =>
                  \E o \in db'["orders"] : o.key = Wanted(r)'.key
  BY <1>3, <1>4 DEF Earning, Kept
<1>5. \A v \in run'[r].new["reviews"] :
        /\ \E u \in Visible(r, "users")' : u.id = v.key[1]
        /\ v.by = "review" => \E o \in db'["orders"] : o.key = v.key
  BY DEF Earning, Visible, Kept
<1>6. {"check", "insert"} \subseteq Unrated
  BY DEF Unrated
<1>. QED
  BY <1>2, <1>4, <1>5, <1>6 DEF Earning

LEMMA ReadsCounting ==
  ASSUME Shape, NEW r \in Requests, Counting(r), Earning(r), Reads(r)
  PROVE  Counting(r)' /\ Earning(r)'
<1>0. db' = db
  BY DEF Reads, UNCHANGEDTables
<1>. DEFINE Done == Counting(r)' /\ Earning(r)'
<1>1. ASSUME Rollback(r) PROVE Done
  <2>1. run'[r] = NoRun
    BY <1>0, <1>1, RollbackShape DEF Shape
  <2>. QED
    BY <2>1, NoneCounting
<1>2. ASSUME NEW pc, Goto(r, pc), pc # "rate", pc \in Unrated => run[r].pc \in Unrated,
             run[r].op = "review" /\ pc \in {"check", "insert"} =>
                 \E o \in db["orders"] : o.key = Wanted(r).key
      PROVE  Done
  <2>1. /\ Kept(r) /\ run'[r].pc = pc /\ run'[r].rated = run[r].rated
        /\ run'[r].todo = run[r].todo
    BY <1>0, <1>2, GotoShape
  <2>. QED
    BY <1>0, <1>2, <2>1, MovedCounting
<1>3. CASE ReviewReadsProduct(r)
  <2>1. Goto(r, "purchase") \/ Rollback(r)
    BY <1>3 DEF ReviewReadsProduct
  <2>. QED
    BY <1>1, <1>2, <1>3, <2>1 DEF ReviewReadsProduct, Unrated
<1>4. CASE ReviewReadsOrders(r)
  <2>1. CASE Rollback(r)
    BY <1>1, <2>1
  <2>2. CASE ~Rollback(r)
    <3>1. /\ run[r].pc = "purchase" /\ Goto(r, "check")
          /\ Purchased(Key(r)[1], Key(r)[2])
      BY <1>4, <2>2 DEF ReviewReadsOrders
    <3>2. ASSUME run[r].op = "review" PROVE \E o \in db["orders"] : o.key = Wanted(r).key
      <4>1. Wanted(r).key = <<Wanted(r).key[1], Wanted(r).key[2]>>
        BY <3>1, <3>2 DEF Earning, Reviewing, Unrated
      <4>2. Key(r) = Wanted(r).key
        BY <3>2 DEF Key
      <4>. QED
        BY <3>1, <4>1, <4>2 DEF Purchased
    <3>. QED
      BY <1>2, <3>1, <3>2 DEF Unrated
  <2>. QED
    BY <2>1, <2>2
<1>5. CASE Checks(r)
  <2>1. run[r].pc = "check" /\ (Goto(r, "insert") \/ Goto(r, "answer") \/ Rollback(r))
    BY <1>5 DEF Checks
  <2>2. run[r].op = "review" => \E o \in db["orders"] : o.key = Wanted(r).key
    BY <2>1 DEF Earning
  <2>. QED
    BY <1>1, <1>2, <2>1, <2>2 DEF Unrated
<1>6. CASE SeedChecks(r)
  BY <1>0, <1>6, SeedChecksShape, MovedCounting DEF Unrated
<1>7. CASE ReadStats(r)
  <2>1. /\ Kept(r) /\ run'[r].pc = "rate" /\ run'[r].rated = run[r].rated
        /\ run'[r].rates = run[r].rates
        /\ run'[r].seen = ReviewsOf(Visible(r, "reviews"), NextRated(r))
    BY <1>0, <1>7, ReadStatsShape
  <2>2. \A S, p : Counts(r, S, p)' <=> Counts(r, S, p)
    BY <1>0, <2>1 DEF Counts, Own, ReviewsOf, Visible, Kept
  <2>3. NextRated(r)' = NextRated(r)
    BY <2>1 DEF NextRated
  <2>4. Counts(r, run'[r].seen, NextRated(r))
    BY <2>1 DEF Counting, Counts, Own, ReviewsOf, Visible
  <2>5. Counting(r)'
    BY <1>0, <2>1, <2>2, <2>3, <2>4 DEF Counting, Kept, Unrated
  <2>6. Earning(r)'
    BY <1>0, <2>1 DEF Earning, Visible, Kept, Unrated
  <2>. QED
    BY <2>5, <2>6
<1>8. CASE UpdateRating(r)
  <2>. DEFINE z == [product |-> NextRated(r), seen |-> run[r].seen]
  <2>1. /\ Kept(r) /\ run[r].pc = "rate" /\ run'[r].pc \in {"stats", "commit", "answer"}
        /\ run'[r].rated = run[r].rated \cup {z}
    BY <1>0, <1>8, UpdateRatingShape
  <2>2. \A S, p : Counts(r, S, p)' <=> Counts(r, S, p)
    BY <1>0, <2>1 DEF Counts, Own, ReviewsOf, Visible, Kept
  <2>3. Counts(r, z.seen, z.product)
    BY <2>1 DEF Counting
  <2>. HIDE DEF z
  <2>4. Counting(r)'
    BY <1>0, <2>1, <2>2, <2>3 DEF Counting, Kept, Unrated
  <2>5. Earning(r)'
    BY <1>0, <2>1 DEF Earning, Visible, Kept, Unrated
  <2>. QED
    BY <2>4, <2>5
<1>9. CASE WriteName(r)
  BY <1>0, <1>9, WriteNameShape, MovedCounting DEF Unrated
<1>10. CASE InsertFails(r)
  BY <1>1, <1>10 DEF InsertFails
<1>. QED
  BY <1>3, <1>4, <1>5, <1>6, <1>7, <1>8, <1>9, <1>10 DEF Reads

LEMMA AnswerCounting ==
  ASSUME Shape, NEW r \in Requests, Counting(r), Earning(r), Answer(r), db' = db
  PROVE  Counting(r)' /\ Earning(r)'
<1>1. Kept(r) /\ run'[r].pc = "commit" /\ run'[r].rated = run[r].rated
  BY GotoShape DEF Answer
<1>. QED
  BY <1>1, MovedCounting DEF Unrated

\* A row that is inserted belongs to an owner the request sees, and a customer's
\* review to the order that was looked up.
LEMMA InsertCounting ==
  ASSUME Shape, NEW r \in Requests, Counting(r), Earning(r), Insert(r), db' = db
  PROVE  Counting(r)' /\ Earning(r)'
<1>. DEFINE z == Row(serial + 1, Key(r), Wanted(r).value, run[r].op)
<1>1. /\ run[r].pc = "insert" /\ run'[r].pc \in {"check", "stats", "answer"}
      /\ run'[r].pc = "check" => run[r].op = "seed"
      /\ run'[r].op = run[r].op /\ run'[r].rated = run[r].rated
      /\ run'[r].before = run[r].before
      /\ \A t \in Tables : run'[r].new[t] =
           IF t = Wanted(r).table THEN run[r].new[t] \cup {z} ELSE run[r].new[t]
  BY InsertShape
<1>2. Counting(r)'
  BY <1>1 DEF Counting, Unrated
<1>3. Visible(r, "users") \subseteq Visible(r, "users")'
  BY <1>1 DEF Visible, Tables
<1>4. Wanted(r).table = "reviews" =>
        /\ \E u \in Visible(r, "users") : u.id = z.key[1]
        /\ z.by = "review" => \E o \in db["orders"] : o.key = z.key
  <2>. HAVE Wanted(r).table = "reviews"
  <2>1. z.key = Key(r) /\ z.by = run[r].op
    BY DEF Row
  <2>2. \E u \in Visible(r, "users") : u.id = Key(r)[1]
    BY DEF Insert, Owned, UserIds
  <2>3. run[r].op = "review" => Key(r) = Wanted(r).key
    BY DEF Key
  <2>. QED
    BY <1>1, <2>1, <2>2, <2>3 DEF Earning
<1>. HIDE DEF z
<1>5. \A v \in run'[r].new["reviews"] :
        v \in run[r].new["reviews"] \/ (v = z /\ Wanted(r).table = "reviews")
  BY <1>1 DEF Tables
<1>6. ASSUME NEW v \in run'[r].new["reviews"]
      PROVE  /\ \E u \in Visible(r, "users")' : u.id = v.key[1]
             /\ v.by = "review" => \E o \in db'["orders"] : o.key = v.key
  BY <1>3, <1>4, <1>5 DEF Earning
<1>. QED
  BY <1>1, <1>2, <1>6 DEF Earning, Unrated

LEMMA StartsCounting ==
  ASSUME Shape, NEW r \in Requests, Starts(r)
  PROVE  Counting(r)' /\ Earning(r)'
<1>1. /\ db' = db
      /\ run'[r].new = Nothing /\ run'[r].rated = {} /\ run'[r].before = db["reviews"]
      /\ run'[r].pc \in {"check", "product", "write"}
      /\ run'[r].op = "review" => run'[r].pc = "product" /\ Reviewing(r)'
  BY StartsShape
<1>2. run'[r].new["reviews"] = {}
  BY <1>1 DEF Nothing, Tables
<1>. QED
  BY <1>1, <1>2 DEF Counting, Earning

-----------------------------------------------------------------------------
LEMMA CommitRating ==
  ASSUME Shape, RatingTrue, NEW r \in Requests, Counting(r), Commit(r)
  PROVE  RatingTrue'
<1>1. /\ db'["reviews"] = db["reviews"] \cup run[r].new["reviews"]
      /\ run[r].pc = "commit"
  BY CommitShape DEF Tables
<1>2. ASSUME NEW p \in Ids, p \in Rated(r)
      PROVE  ReviewsOf(Own(r), p) \subseteq SeenOf(r, p) /\ SeenOf(r, p) \subseteq Visible(r, "reviews")
  <2>. DEFINE x == CHOOSE x \in run[r].rated : x.product = p
  <2>1. x \in run[r].rated /\ x.product = p
    BY <1>2 DEF Rated
  <2>. HIDE DEF x
  <2>2. Counts(r, x.seen, p)
    BY <2>1 DEF Counting
  <2>. QED
    BY <2>2 DEF Counts, SeenOf, x
<1>3. ASSUME NEW p \in Ids
      PROVE  /\ rating'[p] = RatingStats(basis'[p])
             /\ known'[p] \subseteq basis'[p] /\ basis'[p] \subseteq db'["reviews"]
  <2>1. CASE p \in Rated(r)
    <3>1. /\ rating'[p] = RatingStats(SeenOf(r, p)) /\ basis'[p] = SeenOf(r, p)
          /\ known'[p] = ReviewsOf(Own(r), p)
      BY <2>1 DEF Commit, Own
    <3>. QED
      BY <1>1, <1>2, <2>1, <3>1 DEF Visible
  <2>2. CASE p \notin Rated(r)
    <3>1. rating'[p] = rating[p] /\ basis'[p] = basis[p] /\ known'[p] = known[p]
      BY <2>2 DEF Commit
    <3>. QED
      BY <1>1, <3>1 DEF RatingTrue
  <2>. QED
    BY <2>1, <2>2
<1>. QED
  BY <1>3 DEF RatingTrue

LEMMA CommitEarned ==
  ASSUME Shape, ReviewsEarned, NEW r \in Requests, Earning(r), Commit(r)
  PROVE  ReviewsEarned' /\ Grows
<1>1. \A t \in {"reviews", "users", "orders"} : db'[t] = db[t] \cup run[r].new[t]
  BY CommitShape DEF Tables
<1>2. Grows
  BY <1>1 DEF Grows
<1>3. ASSUME NEW v \in db'["reviews"]
      PROVE  /\ \E u \in db'["users"] : u.id = v.key[1]
             /\ v.by = "review" => \E o \in db'["orders"] : o.key = v.key
  <2>1. CASE v \in db["reviews"]
    BY <1>1, <2>1 DEF ReviewsEarned
  <2>2. CASE v \in run[r].new["reviews"]
    BY <1>1, <2>2 DEF Earning, Visible
  <2>. QED
    BY <1>1, <2>1, <2>2
<1>. QED
  BY <1>2, <1>3 DEF ReviewsEarned

LEMMA GrowsEarned ==
  ASSUME ReviewsEarned, Grows, db'["reviews"] = db["reviews"]
  PROVE  ReviewsEarned'
<1>. SUFFICES ASSUME NEW v \in db["reviews"]
              PROVE  /\ \E u \in db'["users"] : u.id = v.key[1]
                     /\ v.by = "review" => \E o \in db'["orders"] : o.key = v.key
  BY DEF ReviewsEarned
<1>. QED
  BY DEF ReviewsEarned, Grows

\* What Store does meanwhile changes orders, none of their keys, and no request.
LEMMA StoreStep ==
  ASSUME Shape, OrderRows, Buy \/ Cancel \/ Archive
  PROVE  /\ Grows /\ Rows(db'["orders"])
         /\ \A t \in Tables \ {"orders"} : db'[t] = db[t]
         /\ db' = [t \in Tables |-> db'[t]]
         /\ UNCHANGED <<run, told, lost, rating, known, basis>>
<1>1. ASSUME db' = [db EXCEPT !["orders"] = db'["orders"]]
      PROVE  /\ \A t \in Tables \ {"orders"} : db'[t] = db[t]
             /\ db' = [t \in Tables |-> db'[t]]
             /\ db'["reviews"] = db["reviews"] /\ db'["users"] = db["users"]
  BY <1>1 DEF Shape, Tables
<1>2. CASE Buy
  <2>1. PICK x : /\ x = Row(x.id, x.key, x.value, x.by)
                 /\ db' = [db EXCEPT !["orders"] = @ \cup {x}]
    <3>. DEFINE y(u, p) == Row(serial + 1, <<u.id, p.id>>, 1, "buy")
    <3>1. PICK u, p : db' = [db EXCEPT !["orders"] = @ \cup {y(u, p)}]
      BY <1>2 DEF Buy
    <3>2. y(u, p) = Row(y(u, p).id, y(u, p).key, y(u, p).value, y(u, p).by)
      BY DEF Row
    <3>. HIDE DEF y
    <3>. QED
      BY <3>1, <3>2
  <2>2. db'["orders"] = db["orders"] \cup {x}
    BY <2>1 DEF Shape, Tables
  <2>3. UNCHANGED <<run, told, lost, rating, known, basis>>
    BY <1>2 DEF Buy
  <2>. QED
    BY <1>1, <2>1, <2>2, <2>3 DEF Grows, Rows, OrderRows
<1>3. CASE Cancel
  <2>1. PICK o \in db["orders"] :
          db' = [db EXCEPT !["orders"] = (@ \ {o}) \cup {[o EXCEPT !.value = 0]}]
    BY <1>3 DEF Cancel
  <2>. DEFINE n == [o EXCEPT !.value = 0]
  <2>2. n = Row(n.id, n.key, n.value, n.by) /\ n.key = o.key
    <3>1. o = Row(o.id, o.key, o.value, o.by)
      BY DEF OrderRows, Rows
    <3>. QED
      BY <3>1 DEF Row
  <2>. HIDE DEF n
  <2>3. db'["orders"] = (db["orders"] \ {o}) \cup {n}
    BY <2>1 DEF Shape, Tables, n
  <2>4. UNCHANGED <<run, told, lost, rating, known, basis>>
    BY <1>3 DEF Cancel
  <2>5. Grows
    BY <1>1, <2>1, <2>2, <2>3 DEF Grows
  <2>. QED
    BY <1>1, <2>1, <2>2, <2>3, <2>4, <2>5 DEF Rows, OrderRows
<1>4. CASE Archive
  <2>1. UNCHANGED <<db, run, told, lost, rating, known, basis>>
    BY <1>4 DEF Archive
  <2>. QED
    BY <2>1 DEF Grows, OrderRows, Shape
<1>. QED
  BY <1>2, <1>3, <1>4

-----------------------------------------------------------------------------
LEMMA InitInv == Init => Inv
<1>. SUFFICES ASSUME Init PROVE Inv
  OBVIOUS
<1>1. OpeningSound(db)
  BY AccountsAssumption DEF AccountsAssumption, Init
<1>2. \A r \in Requests : run[r] = NoRun /\ \A t \in Tables : run[r].new[t] = {}
  BY DEF Init, NoRun, Nothing
<1>3. Shape
  BY <1>1, <1>2 DEF Init, OpeningSound, Shape, Fields, NoRun, Nothing
<1>4. Exclusive
  BY <1>2 DEF Exclusive, Once, Tables
<1>5. Answered
  BY DEF Init, Answered, ToldIsStored
<1>6. \A r \in Requests : Counting(r) /\ Earning(r)
  BY <1>2 DEF Counting, Earning, NoRun, Tables
<1>7. OrderRows
  <2>1. ASSUME NEW o \in db["orders"] PROVE o = Row(o.id, o.key, o.value, o.by)
    <3>1. o = Row(o.id, o.key, o.value, "seed")
      BY <1>1 DEF OpeningSound, Tables
    <3>. QED
      BY <3>1 DEF Row
  <2>. QED
    BY <1>2, <2>1 DEF OrderRows, Rows, Tables
<1>8. RatingTrue
  BY DEF Init, RatingTrue, ReviewsOf
<1>9. ReviewsEarned
  <2>1. ASSUME NEW v \in db["reviews"] PROVE v.by = "seed"
    <3>1. v = Row(v.id, v.key, v.value, "seed")
      BY <1>1 DEF OpeningSound, Tables
    <3>. QED
      BY <3>1 DEF Row
  <2>. QED
    BY <1>1, <2>1 DEF ReviewsEarned, OpeningSound
<1>. QED
  BY <1>3, <1>4, <1>5, <1>6, <1>7, <1>8, <1>9 DEF Inv

\* The part of a request's own step that concerns the others.
LEMMA OthersInv ==
  ASSUME Inv, NEW r \in Requests, Others(r), Grows, Shape', Exclusive', Answered',
         Counting(r)', Earning(r)', OrderRows', RatingTrue', ReviewsEarned'
  PROVE  Inv'
<1>1. ASSUME NEW q \in Requests PROVE Counting(q)' /\ Earning(q)'
  <2>1. CASE q = r
    BY <2>1
  <2>2. CASE q # r
    <3>1. run'[q] = run[q]
      BY <2>2 DEF Others
    <3>. QED
      BY <3>1, OtherCounting DEF Inv
  <2>. QED
    BY <2>1, <2>2
<1>. QED
  BY <1>1 DEF Inv

\* A step that leaves the tables alone keeps what is said of them.
LEMMA SameTables ==
  ASSUME Inv, NEW r \in Requests, Others(r), Shape', UNCHANGEDTables,
         \A o \in run'[r].new["orders"] : o \in run[r].new["orders"] \/ Rows({o})
  PROVE  /\ Grows /\ db' = db /\ OrderRows' /\ RatingTrue' /\ ReviewsEarned'
<1>1. UNCHANGED <<db, rating, basis, known>>
  BY DEF UNCHANGEDTables
<1>2. Grows
  BY <1>1 DEF Grows
<1>3. OrderRows'
  BY <1>1 DEF Inv, OrderRows, Rows, Others
<1>. QED
  BY <1>1, <1>2, <1>3, GrowsEarned DEF Inv, RatingTrue

LEMMA StartsInv ==
  ASSUME Inv, NEW r \in Requests, Starts(r)
  PROVE  Inv'
<1>1. /\ Shape' /\ Others(r) /\ run'[r].new = Nothing /\ run[r].pc = "idle"
      /\ run'[r].pc # "commit"
  BY StartsShape DEF Inv
<1>2. UNCHANGEDTables /\ UNCHANGED <<told, lost>>
  BY DEF Starts, Begin, Register, FirstCart, Review, CreateProduct, Rename, StartSeed
<1>3. \A t \in Tables : run'[r].new[t] = {}
  BY <1>1 DEF Nothing
<1>4. Grows /\ db' = db /\ OrderRows' /\ RatingTrue' /\ ReviewsEarned'
  BY <1>1, <1>2, <1>3, SameTables DEF Tables
<1>5. Exclusive'
  BY <1>1, <1>3, <1>4, ExclusiveStable DEF Inv, Once, Tables, Others
<1>6. Answered'
  <2>1. \A q \in Requests : run[q].pc # "commit" => Made(q) \cap told \subseteq lost
    BY DEF Inv, Answered
  <2>2. Made(r)' = {}
    BY <1>3 DEF Made, Once, Tables
  <2>3. \A q \in Requests \ {r} : Made(q)' = Made(q) /\ run'[q].pc = run[q].pc
    BY <1>1 DEF Made, Others
  <2>4. \A x : Sole(x) => Sole(x)'
    BY <1>4 DEF Sole
  <2>5. ASSUME NEW x \in told \ lost PROVE (\E q \in Requests : x \in Made(q)') \/ Sole(x)'
    <3>1. x \notin Made(r)
      BY <1>1, <2>1
    <3>. QED
      BY <2>3, <2>4, <3>1 DEF Inv, Answered, ToldIsStored
  <2>6. \A q \in Requests : run'[q].pc # "commit" => Made(q)' \cap told \subseteq lost
    BY <2>1, <2>2, <2>3
  <2>. QED
    BY <1>2, <2>5, <2>6 DEF Inv, Answered, ToldIsStored
<1>7. Counting(r)' /\ Earning(r)'
  BY StartsCounting DEF Inv
<1>. QED
  BY <1>1, <1>4, <1>5, <1>6, <1>7, OthersInv

LEMMA ReadsInv ==
  ASSUME Inv, NEW r \in Requests, Reads(r)
  PROVE  Inv'
<1>1. /\ Shape' /\ Others(r) /\ run[r].pc # "commit"
      /\ run'[r] = NoRun \/ Kept(r)
  BY ReadsShape DEF Inv
<1>2. UNCHANGEDTables /\ UNCHANGED <<told, lost>>
  BY DEF Reads
<1>3. \A t \in Tables : run'[r].new[t] \subseteq run[r].new[t]
  BY <1>1 DEF NoRun, Nothing, Kept
<1>4. Grows /\ db' = db /\ OrderRows' /\ RatingTrue' /\ ReviewsEarned'
  BY <1>1, <1>2, <1>3, SameTables DEF Tables
<1>5. Exclusive'
  BY <1>1, <1>3, <1>4, ExclusiveStable DEF Inv, Once, Tables, Others
<1>6. Answered'
  BY <1>1, <1>2, <1>4, AnsweredStable DEF Inv, Answered
<1>7. Counting(r)' /\ Earning(r)'
  BY ReadsCounting DEF Inv
<1>. QED
  BY <1>1, <1>4, <1>5, <1>6, <1>7, OthersInv

LEMMA InsertsInv ==
  ASSUME Inv, NEW r \in Requests, Inserts(r)
  PROVE  Inv'
<1>1. Insert(r) /\ UNCHANGEDTables /\ UNCHANGED <<db, told, lost>>
  BY DEF Inserts, UNCHANGEDTables
<1>. DEFINE z == Row(serial + 1, Key(r), Wanted(r).value, run[r].op)
<1>2. /\ Shape' /\ Others(r)
      /\ \A t \in Tables : run'[r].new[t] =
           IF t = Wanted(r).table THEN run[r].new[t] \cup {z} ELSE run[r].new[t]
  BY <1>1, InsertShape DEF Inv
<1>3. Rows({z})
  BY DEF Rows, Row
<1>. HIDE DEF z
<1>4. Grows /\ db' = db /\ OrderRows' /\ RatingTrue' /\ ReviewsEarned'
  BY <1>1, <1>2, <1>3, SameTables DEF Tables
<1>5. Exclusive' /\ Answered' /\ Counting(r)' /\ Earning(r)'
  BY <1>1, InsertExclusive, InsertAnswered, InsertCounting DEF Inv
<1>. QED
  BY <1>2, <1>4, <1>5, OthersInv

LEMMA AnswersInv ==
  ASSUME Inv, NEW r \in Requests, Answers(r)
  PROVE  Inv'
<1>1. Answer(r) /\ UNCHANGEDTables /\ UNCHANGED <<db, lost>>
  BY DEF Answers, UNCHANGEDTables
<1>2. Shape' /\ Others(r) /\ Kept(r)
  BY <1>1, GotoShape DEF Inv, Answer
<1>3. Grows /\ db' = db /\ OrderRows' /\ RatingTrue' /\ ReviewsEarned'
  BY <1>1, <1>2, SameTables DEF Kept
<1>4. Exclusive'
  BY <1>1, <1>2, ExclusiveStable DEF Inv, Kept, Others
<1>5. Answered' /\ Counting(r)' /\ Earning(r)'
  BY <1>1, AnswerAnswered, AnswerCounting DEF Inv
<1>. QED
  BY <1>2, <1>3, <1>4, <1>5, OthersInv

LEMMA CommitsInv ==
  ASSUME Inv, NEW r \in Requests, Commits(r)
  PROVE  Inv'
<1>1. Commit(r) /\ UNCHANGED <<told, lost>>
  BY DEF Commits
<1>2. /\ Shape' /\ Others(r) /\ run'[r] = NoRun
      /\ db'["orders"] = db["orders"] \cup run[r].new["orders"]
  BY <1>1, CommitShape DEF Inv, Tables
<1>3. ReviewsEarned' /\ Grows /\ RatingTrue'
  BY <1>1, CommitEarned, CommitRating DEF Inv
<1>4. OrderRows'
  BY <1>2, NoneCounting DEF Inv, OrderRows, Rows, Others
<1>5. Exclusive' /\ Answered'
  BY <1>1, CommitExclusive, CommitAnswered DEF Inv
<1>. QED
  BY <1>2, <1>3, <1>4, <1>5, NoneCounting, OthersInv

LEMMA FailInv ==
  ASSUME Inv, NEW r \in Requests, Fail(r)
  PROVE  Inv'
<1>1. Shape' /\ Others(r) /\ run'[r] = NoRun
  BY FailShape DEF Inv
<1>2. /\ UNCHANGEDTables /\ told' = told /\ lost \subseteq lost'
      /\ Made(r) \cap told \subseteq lost'
  BY DEF Fail, Inv, Answered
<1>3. \A t \in Tables : run'[r].new[t] = {}
  BY <1>1 DEF NoRun, Nothing
<1>4. Grows /\ db' = db /\ OrderRows' /\ RatingTrue' /\ ReviewsEarned'
  BY <1>1, <1>2, <1>3, SameTables DEF Tables
<1>5. Exclusive'
  BY <1>1, <1>3, <1>4, ExclusiveStable DEF Inv, Once, Tables, Others
<1>6. Answered'
  BY <1>1, <1>2, <1>4, AnsweredStable DEF Inv
<1>. QED
  BY <1>1, <1>4, <1>5, <1>6, NoneCounting, OthersInv

LEMMA StoreInv ==
  ASSUME Inv, Buy \/ Cancel \/ Archive
  PROVE  Inv'
<1>1. /\ Grows /\ Rows(db'["orders"])
      /\ \A t \in Tables \ {"orders"} : db'[t] = db[t]
      /\ db' = [t \in Tables |-> db'[t]]
      /\ UNCHANGED <<run, told, lost, rating, known, basis>>
  BY StoreStep DEF Inv
<1>2. \A t \in Once : db'[t] = db[t]
  BY <1>1 DEF Once, Tables
<1>3. Shape' /\ OrderRows'
  BY <1>1 DEF Inv, Shape, OrderRows
<1>4. Exclusive'
  BY <1>1, <1>2, ExclusiveStable DEF Inv
<1>5. Answered'
  <2>1. \A q : Made(q)' = Made(q)
    BY <1>1 DEF Made
  <2>2. \A x : x.table \in Once /\ Sole(x) => Sole(x)'
    BY <1>2 DEF Sole
  <2>. QED
    BY <1>1, <2>1, <2>2 DEF Inv, Answered, ToldIsStored
<1>6. \A q \in Requests : Counting(q)' /\ Earning(q)'
  BY <1>1, OtherCounting DEF Inv
<1>7. db'["reviews"] = db["reviews"]
  BY <1>2 DEF Once
<1>8. RatingTrue' /\ ReviewsEarned'
  BY <1>1, <1>7, GrowsEarned DEF Inv, RatingTrue
<1>. QED
  BY <1>3, <1>4, <1>5, <1>6, <1>8 DEF Inv

LEMMA NextInv ==
  ASSUME Inv, [Next]_vars
  PROVE  Inv'
<1>1. ASSUME NEW r \in Requests, Starts(r) \/ Works(r) \/ Fail(r) PROVE Inv'
  BY <1>1, StartsInv, ReadsInv, InsertsInv, AnswersInv, CommitsInv, FailInv DEF Works
<1>2. CASE UNCHANGED vars
  <2>1. UNCHANGED <<db, run, told, lost, rating, known, basis>> /\ Grows
    BY <1>2 DEF vars, Grows
  <2>2. Shape' /\ Exclusive'
    BY <2>1 DEF Inv, Shape, Exclusive
  <2>3. Answered'
    BY <2>1 DEF Inv, Answered, ToldIsStored, Sole, Made
  <2>4. \A r \in Requests : Counting(r)' /\ Earning(r)'
    BY <2>1, OtherCounting DEF Inv
  <2>5. OrderRows' /\ RatingTrue'
    BY <2>1 DEF Inv, OrderRows, Rows, RatingTrue
  <2>6. ReviewsEarned'
    BY <2>1, GrowsEarned DEF Inv
  <2>. QED
    BY <2>2, <2>3, <2>4, <2>5, <2>6 DEF Inv
<1>. QED
  BY <1>1, <1>2, StoreInv DEF Next

THEOREM Inductive == Spec => []Inv
BY InitInv, NextInv, PTL DEF Spec

\* Once a request has said it created an account, a cart or a review, that row is
\* stored and alone with its key, or waits for its commit, or the commit failed: no
\* conflict of keys is found after the answer (UserRepository.create,
\* ReviewRepository.create and CartRepository.get_or_create flush).
THEOREM ToldRowsStand == Spec => []ToldIsStored
<1>1. Inv => ToldIsStored
  BY DEF Inv, Answered
<1>. QED
  BY <1>1, Inductive, PTL

\* The rating of a product is that of reviews that are stored, and misses none that
\* its writer had to see (ReviewService.create, run_seed_data).
THEOREM RatingsCountTheirReviews == Spec => []RatingTrue
<1>1. Inv => RatingTrue
  BY DEF Inv
<1>. QED
  BY <1>1, Inductive, PTL

\* A stored review belongs to a stored account, and one that a customer wrote is of
\* a product in an order of theirs (ReviewService.create asks has_purchased).
THEOREM ReviewsComeFromOrders == Spec => []ReviewsEarned
<1>1. Inv => ReviewsEarned
  BY DEF Inv
<1>. QED
  BY <1>1, Inductive, PTL
=============================================================================
