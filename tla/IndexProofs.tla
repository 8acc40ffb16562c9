---------------------------- MODULE IndexProofs -----------------------------
(***************************************************************************)
(* Proofs about IndexQueue for any products, workers, texts, slots, batch  *)
(* size and bounds: its types, that leases make workers exclusive, that a  *)
(* stored vector always belongs to the stored text, and that none is lost. *)
(***************************************************************************)
EXTENDS IndexQueue, TLAPS

Catalog(p) == Edit(p) \/ Archive(p) \/ BackoffEnds(p) \/ LeaseExpires(p) \/ Reset(p)

\* One worker's row of the state is well typed.
WorkerTypes ==
  /\ pc \in [Workers -> {"poll", "sweep", "claim", "load", "embed", "write", "fail"}]
  /\ batch \in [Workers -> SUBSET Products]
  /\ rows \in [Workers -> [Products -> RowType]]
  /\ fresh \in [Workers -> [Slots -> SUBSET Products]]
  /\ error \in [Workers -> {"none", "retryable", "permanent"}]

StoreTypes ==
  /\ text \in [Products -> Texts]
  /\ archived \in [Products -> BOOLEAN]
  /\ doc \in [Products -> DocType]
  /\ job \in [Products -> JobType]

Types == StoreTypes /\ WorkerTypes /\ budget \in BudgetType

-----------------------------------------------------------------------------
LEMMA MinOfTwo ==
  ASSUME NEW i \in Nat, NEW j \in Nat
  PROVE  Min({i, j}) \in {i, j} /\ Min({i, j}) <= i /\ Min({i, j}) <= j
<1>1. \E x \in {i, j} : \A y \in {i, j} : x <= y
  <2>1. CASE i <= j
    BY <2>1
  <2>2. CASE j <= i
    BY <2>2
  <2>. QED
    BY <2>1, <2>2
<1>. QED
  BY <1>1 DEF Min

LEMMA Constants ==
  /\ NoVectors \in [Slots -> Texts \cup {None}]
  /\ NoDoc \in DocType
  /\ NoJob \in JobType /\ NewJob \in JobType
  /\ NoRow \in RowType /\ NoRows \in [Products -> RowType]
  /\ NoneFresh \in [Slots -> SUBSET Products]
<1>. USE IndexAssumption DEF IndexAssumption
<1>1. NoVectors \in [Slots -> Texts \cup {None}]
  BY DEF NoVectors
<1>2. NoDoc \in DocType
  BY <1>1 DEF NoDoc, DocType
<1>3. NoJob \in JobType /\ NewJob \in JobType
  BY DEF NoJob, NewJob, JobType
<1>4. NoRow \in RowType
  BY <1>2 DEF NoRow, RowType
<1>5. NoRows \in [Products -> RowType]
  BY <1>4 DEF NoRows
<1>. QED
  BY <1>1, <1>2, <1>3, <1>4, <1>5 DEF NoneFresh

LEMMA SpendTypes ==
  ASSUME budget \in BudgetType, NEW kind \in {"edits", "archives", "faults", "resets"},
         NEW max, Spend(kind, max)
  PROVE  budget' \in BudgetType
BY DEF Spend, BudgetType

LEMMA InitTypes == Init => Types
BY Constants, IndexAssumption DEF IndexAssumption, Init, Types, StoreTypes, WorkerTypes, BudgetType

\* The end of a batch.
LEMMA RestTypes ==
  ASSUME WorkerTypes, NEW w \in Workers, Rest(w)
  PROVE  WorkerTypes'
BY Constants DEF WorkerTypes, Rest

\* Marking some jobs keeps the types.
LEMMA CatalogTypes ==
  ASSUME Types, NEW p \in Products, Catalog(p)
  PROVE  Types'
<1>1. CASE Edit(p)
  <2>1. budget' \in BudgetType
    BY <1>1, SpendTypes DEF Edit, Types
  <2>2. text' \in [Products -> Texts]
    BY <1>1 DEF Edit, Types, StoreTypes
  <2>. QED
    BY <1>1, <2>1, <2>2 DEF Edit, Types, StoreTypes, WorkerTypes, worker
<1>2. CASE Archive(p)
  <2>1. budget' \in BudgetType
    BY <1>2, SpendTypes DEF Archive, Types
  <2>2. archived' \in [Products -> BOOLEAN]
    <3>1. archived \in [Products -> BOOLEAN]
      BY DEF Types, StoreTypes
    <3>2. (~archived[p]) \in {TRUE, FALSE}
      OBVIOUS
    <3>. QED
      BY <1>2, <3>1, <3>2 DEF Archive
  <2>. QED
    BY <1>2, <2>1, <2>2 DEF Archive, Types, StoreTypes, WorkerTypes, worker
<1>3. CASE BackoffEnds(p)
  <2>1. job' \in [Products -> JobType]
    BY <1>3 DEF BackoffEnds, Types, StoreTypes, JobType
  <2>. QED
    BY <1>3, <2>1 DEF BackoffEnds, Types, StoreTypes, WorkerTypes, worker, catalog
<1>4. CASE LeaseExpires(p)
  <2>1. job' \in [Products -> JobType]
    BY <1>4 DEF LeaseExpires, Types, StoreTypes, JobType
  <2>. QED
    BY <1>4, <2>1 DEF LeaseExpires, Types, StoreTypes, WorkerTypes, worker, catalog
<1>5. CASE Reset(p)
  <2>1. budget' \in BudgetType
    BY <1>5, SpendTypes DEF Reset, Types
  <2>2. job' \in [Products -> JobType]
    BY <1>5, Constants DEF Reset, Types, StoreTypes
  <2>. QED
    BY <1>5, <2>1, <2>2 DEF Reset, Types, StoreTypes, WorkerTypes, worker, catalog
<1>. QED
  BY <1>1, <1>2, <1>3, <1>4, <1>5 DEF Catalog

LEMMA SweepTypes ==
  ASSUME Types, NEW w \in Workers, Prune(w) \/ EnqueueDrifted(w) \/ Idle(w) \/ Claim(w)
  PROVE  Types'
<1>1. pc' \in [Workers -> {"poll", "sweep", "claim", "load", "embed", "write", "fail"}]
  BY DEF Types, WorkerTypes, Prune, EnqueueDrifted, Idle, Claim
<1>2. CASE Prune(w)
  <2>1. doc' \in [Products -> DocType]
    BY <1>2, Constants DEF Prune, Types, StoreTypes
  <2>. QED
    BY <1>1, <1>2, <2>1 DEF Prune, Types, StoreTypes, WorkerTypes, worker, catalog
<1>3. CASE EnqueueDrifted(w)
  <2>1. job' \in [Products -> JobType]
    BY <1>3, Constants DEF EnqueueDrifted, Types, StoreTypes
  <2>. QED
    BY <1>1, <1>3, <2>1 DEF EnqueueDrifted, Types, StoreTypes, WorkerTypes, worker, catalog
<1>4. CASE Idle(w)
  BY <1>1, <1>4 DEF Idle, Types, StoreTypes, WorkerTypes, worker, catalog
<1>5. CASE Claim(w)
  <2>1. PICK S \in SUBSET {p \in Products : Claimable(p)} :
          /\ batch' = [batch EXCEPT ![w] = S]
          /\ job' = [p \in Products |->
               IF p \in S THEN [job[p] EXCEPT !.holder = w, !.leased = TRUE] ELSE job[p]]
    BY <1>5 DEF Claim
  <2>2. batch' \in [Workers -> SUBSET Products]
    BY <2>1 DEF Types, WorkerTypes
  <2>3. \A p \in Products : [job[p] EXCEPT !.holder = w, !.leased = TRUE] \in JobType
    BY DEF Types, StoreTypes, JobType
  <2>4. job' \in [Products -> JobType]
    BY <2>1, <2>3 DEF Types, StoreTypes
  <2>. QED
    BY <1>1, <1>5, <2>2, <2>4 DEF Claim, Types, StoreTypes, WorkerTypes, catalog
<1>. QED
  BY <1>2, <1>3, <1>4, <1>5

LEMMA WrittenType ==
  ASSUME Types, NEW w \in Workers, NEW p \in Loaded(w)
  PROVE  /\ p \in Products
         /\ Written(w, p) \in DocType
<1>1. p \in Products /\ rows[w][p] \in RowType /\ doc[p] \in DocType
  BY DEF Types, StoreTypes, WorkerTypes, Loaded
<1>2. rows[w][p].text \in Texts \cup {None} /\ doc[p].vec \in [Slots -> Texts \cup {None}]
  BY <1>1 DEF RowType, DocType
<1>3. [s \in Slots |-> IF p \in fresh[w][s] THEN rows[w][p].text ELSE doc[p].vec[s]]
        \in [Slots -> Texts \cup {None}]
  BY <1>2
<1>. QED
  BY <1>1, <1>2, <1>3 DEF Written, DocType

LEMMA BatchTypes ==
  ASSUME Types, NEW w \in Workers, Load(w) \/ Embed(w) \/ Write(w)
  PROVE  Types'
<1>1. CASE Load(w)
  <2>1. \A p \in Products : [text |-> text[p], doc |-> doc[p]] \in RowType
    BY DEF Types, StoreTypes, RowType
  <2>2. [p \in Products |-> IF p \in batch[w] /\ ~archived[p]
           THEN [text |-> text[p], doc |-> doc[p]] ELSE NoRow] \in [Products -> RowType]
    BY <2>1, Constants
  <2>3. rows' \in [Workers -> [Products -> RowType]]
    BY <1>1, <2>2 DEF Load, Types, WorkerTypes
  <2>. QED
    BY <1>1, <2>3 DEF Load, Types, StoreTypes, WorkerTypes, catalog
<1>2. CASE Embed(w)
  <2>1. \A s \in Slots : Stale(w, s) \in SUBSET Products
    BY DEF Types, WorkerTypes, Stale, Loaded
  <2>2. fresh' \in [Workers -> [Slots -> SUBSET Products]]
    <3>1. CASE fresh' = [fresh EXCEPT ![w] = [s \in Slots |-> Stale(w, s)]]
      BY <2>1, <3>1 DEF Types, WorkerTypes
    <3>2. ASSUME NEW failing \in Slots,
            fresh' = [fresh EXCEPT ![w] = [s \in Slots |-> IF s < failing THEN Stale(w, s) ELSE {}]]
          PROVE fresh' \in [Workers -> [Slots -> SUBSET Products]]
      <4>1. [s \in Slots |-> IF s < failing THEN Stale(w, s) ELSE {}] \in [Slots -> SUBSET Products]
        BY <2>1
      <4>. QED
        BY <3>2, <4>1 DEF Types, WorkerTypes
    <3>. QED
      BY <1>2, <3>1, <3>2 DEF Embed
  <2>3. error' \in [Workers -> {"none", "retryable", "permanent"}]
    BY <1>2 DEF Embed, Types, WorkerTypes
  <2>. QED
    BY <1>2, <2>2, <2>3 DEF Embed, Types, StoreTypes, WorkerTypes, catalog
<1>3. CASE Write(w)
  <2>1. \A p \in Writable(w) : p \in Loaded(w)
    BY DEF Writable
  <2>2. doc' \in [Products -> DocType]
    BY <1>3, <2>1, WrittenType DEF Write, Types, StoreTypes
  <2>3. CASE /\ job' = [p \in Products |-> IF p \in batch[w] THEN NoJob ELSE job[p]]
             /\ Rest(w)
    <3>1. job' \in [Products -> JobType]
      BY <2>3, Constants DEF Types, StoreTypes
    <3>2. WorkerTypes'
      BY <2>3, RestTypes DEF Types
    <3>. QED
      BY <1>3, <2>2, <3>1, <3>2 DEF Write, Types, StoreTypes, catalog
  <2>4. CASE /\ pc' = [pc EXCEPT ![w] = "fail"]
             /\ UNCHANGED <<job, worker>>
    BY <1>3, <2>2, <2>4 DEF Write, Types, StoreTypes, WorkerTypes, catalog, worker
  <2>. QED
    BY <1>3, <2>3, <2>4 DEF Write
<1>. QED
  BY <1>1, <1>2, <1>3

LEMMA FailedType ==
  ASSUME Types, NEW w \in Workers, NEW p \in Products
  PROVE  Failed(w, p) \in JobType
<1>. USE IndexAssumption DEF IndexAssumption
<1>1. job[p] \in JobType
  BY DEF Types, StoreTypes
<1>2. job[p].attempts \in 0..MaxAttempts
  BY <1>1 DEF JobType
<1>3. Min({job[p].attempts + 1, MaxAttempts}) \in 0..MaxAttempts
  BY <1>2, MinOfTwo
<1>4. (IF error[w] = "permanent" THEN MaxAttempts
       ELSE Min({job[p].attempts + 1, MaxAttempts})) \in 0..MaxAttempts
  BY <1>3
<1>. HIDE DEF IndexAssumption
<1>. QED
  BY <1>1, <1>4 DEF Failed, JobType

LEMMA FaultTypes ==
  ASSUME Types, NEW w \in Workers,
         Fail(w) \/ BatchError(w) \/ GiveUp(w) \/ Crash(w) \/ Stop(w)
  PROVE  Types'
<1>1. CASE Fail(w)
  <2>1. job' \in [Products -> JobType]
    BY <1>1, FailedType DEF Fail, Types, StoreTypes
  <2>. QED
    BY <1>1, <2>1, RestTypes DEF Fail, Types, StoreTypes, catalog
<1>2. CASE BatchError(w)
  <2>1. budget' \in BudgetType
    BY <1>2, SpendTypes DEF BatchError, Types
  <2>. QED
    BY <1>2, <2>1 DEF BatchError, Types, StoreTypes, WorkerTypes, catalog
<1>3. CASE GiveUp(w)
  <2>1. budget' \in BudgetType
    BY <1>3, SpendTypes DEF GiveUp, Types
  <2>. QED
    BY <1>3, <2>1, RestTypes DEF GiveUp, Types, StoreTypes, catalog
<1>4. CASE Crash(w)
  <2>1. budget' \in BudgetType
    BY <1>4, SpendTypes DEF Crash, Types
  <2>2. job' \in [Products -> JobType]
    BY <1>4 DEF Crash, Types, StoreTypes, JobType
  <2>. QED
    BY <1>4, <2>1, <2>2, RestTypes DEF Crash, Types, StoreTypes, catalog
<1>5. CASE Stop(w)
  <2>1. budget' \in BudgetType
    BY <1>5, SpendTypes DEF Stop, Types
  <2>2. job' \in [Products -> JobType]
    BY <1>5 DEF Stop, Types, StoreTypes, JobType
  <2>. QED
    BY <1>5, <2>1, <2>2, RestTypes DEF Stop, Types, StoreTypes, catalog
<1>. QED
  BY <1>1, <1>2, <1>3, <1>4, <1>5

LEMMA NextTypes == Types /\ [Next]_vars => Types'
<1>. SUFFICES ASSUME Types, [Next]_vars
              PROVE  Types'
  OBVIOUS
<1>1. CASE UNCHANGED vars
  BY <1>1 DEF vars, catalog, worker, Types, StoreTypes, WorkerTypes
<1>2. ASSUME NEW p \in Products, Catalog(p)
      PROVE  Types'
  BY <1>2, CatalogTypes
<1>3. ASSUME NEW w \in Workers,
             Prune(w) \/ Claim(w) \/ Batch(w) \/ BatchError(w) \/ GiveUp(w) \/ Crash(w) \/ Stop(w)
      PROVE  Types'
  BY <1>3, SweepTypes, BatchTypes, FaultTypes DEF Batch
<1>. QED
  BY <1>1, <1>2, <1>3 DEF Next, Catalog

LEMMA SpecTypes == Spec => []Types
<1>1. Types /\ [Next]_vars => Types'
  BY NextTypes
<1>. QED
  BY InitTypes, <1>1, PTL DEF Spec

\* Every reachable state has the types of TypeOK.
THEOREM TypeCorrect == Spec => []TypeOK
<1>1. Types => TypeOK
  BY DEF Types, StoreTypes, WorkerTypes, TypeOK
<1>. QED
  BY <1>1, SpecTypes, PTL

-----------------------------------------------------------------------------
(* Leases. Only the holder of a job deletes it, fails it or gives it back, *)
(* and nobody else claims it while the lease runs.                         *)

HeldBy(w, p) == job[p].queued /\ job[p].holder = w /\ job[p].leased

\* What one worker does to its own jobs leaves those of the others alone.
LEMMA OthersKeep ==
  ASSUME Types, Prompt, LeaseExclusive, NEW w \in Workers, NEW q \in Workers, q # w,
         NEW p \in batch[q]
  PROVE  /\ p \in Products /\ HeldBy(q, p)
         /\ p \notin batch[w]
         /\ job[p].holder # w
         /\ ~Claimable(p)
<1>1. p \in Products
  BY DEF Types, WorkerTypes
<1>2. HeldBy(q, p)
  BY DEF LeaseExclusive, HeldBy
<1>3. p \notin batch[w]
  BY <1>2 DEF LeaseExclusive, HeldBy
<1>. QED
  BY <1>1, <1>2, <1>3 DEF HeldBy, Claimable

LEMMA CatalogExclusive ==
  ASSUME Types, LeaseExclusive, NEW c \in Products, Catalog(c)
  PROVE  LeaseExclusive'
<1>. SUFFICES ASSUME Prompt, NEW w \in Workers, NEW p \in batch'[w]
              PROVE  HeldBy(w, p)'
  BY DEF LeaseExclusive, HeldBy
<1>1. batch' = batch
  BY DEF Catalog, Edit, Archive, BackoffEnds, LeaseExpires, Reset, worker
<1>2. p \in Products /\ HeldBy(w, p) /\ Held(p)
  BY <1>1 DEF LeaseExclusive, HeldBy, Held, Types, WorkerTypes
<1>3. CASE Edit(c) \/ Archive(c)
  BY <1>2, <1>3 DEF Edit, Archive, HeldBy
<1>4. CASE BackoffEnds(c)
  BY <1>2, <1>4 DEF BackoffEnds, HeldBy, Types, StoreTypes, JobType
<1>5. CASE LeaseExpires(c)
  <2>1. p # c
    BY <1>2, <1>5 DEF LeaseExpires
  <2>. QED
    BY <1>2, <1>5, <2>1 DEF LeaseExpires, HeldBy, Types, StoreTypes
<1>6. CASE Reset(c)
  <2>1. p # c
    BY <1>2, <1>6 DEF Reset
  <2>. QED
    BY <1>2, <1>6, <2>1 DEF Reset, HeldBy, Types, StoreTypes
<1>. QED
  BY <1>3, <1>4, <1>5, <1>6 DEF Catalog

LEMMA ClaimExclusive ==
  ASSUME Types, LeaseExclusive, NEW w \in Workers, Claim(w)
  PROVE  LeaseExclusive'
<1>. SUFFICES ASSUME Prompt, NEW q \in Workers, NEW p \in batch'[q]
              PROVE  HeldBy(q, p)'
  BY DEF LeaseExclusive, HeldBy
<1>1. PICK S \in SUBSET {x \in Products : Claimable(x)} :
        /\ batch' = [batch EXCEPT ![w] = S]
        /\ job' = [x \in Products |->
             IF x \in S THEN [job[x] EXCEPT !.holder = w, !.leased = TRUE] ELSE job[x]]
  BY DEF Claim
<1>2. CASE q = w
  <2>1. p \in S /\ p \in Products /\ Claimable(p)
    BY <1>1, <1>2 DEF Types, WorkerTypes
  <2>2. job[p] \in JobType
    BY <2>1 DEF Types, StoreTypes
  <2>3. job'[p] = [job[p] EXCEPT !.holder = w, !.leased = TRUE]
    BY <1>1, <2>1
  <2>. QED
    BY <1>2, <2>1, <2>2, <2>3 DEF HeldBy, JobType, Claimable
<1>3. CASE q # w
  <2>1. p \in batch[q]
    BY <1>1, <1>3 DEF Types, WorkerTypes
  <2>2. p \in Products /\ HeldBy(q, p) /\ p \notin S
    BY <1>3, <2>1, OthersKeep
  <2>. QED
    BY <1>1, <2>2 DEF HeldBy
<1>. QED
  BY <1>2, <1>3

\* Every way a batch ends.
LEMMA EndExclusive ==
  ASSUME Types, LeaseExclusive, NEW w \in Workers, Rest(w),
         \/ UNCHANGED job
         \/ job' = [p \in Products |-> IF p \in batch[w] THEN NoJob ELSE job[p]]
         \/ Fail(w) \/ Crash(w) \/ Stop(w)
  PROVE  LeaseExclusive'
<1>. SUFFICES ASSUME Prompt, NEW q \in Workers, NEW p \in batch'[q]
              PROVE  HeldBy(q, p)'
  BY DEF LeaseExclusive, HeldBy
<1>1. q # w /\ p \in batch[q]
  BY DEF Rest, Types, WorkerTypes
<1>2. p \in Products /\ HeldBy(q, p) /\ p \notin batch[w] /\ job[p].holder # w
  BY <1>1, OthersKeep
<1>3. job'[p] = job[p]
  BY <1>2 DEF Fail, Crash, Stop
<1>. QED
  BY <1>2, <1>3 DEF HeldBy

LEMMA WorkerExclusive ==
  ASSUME Types, LeaseExclusive, NEW w \in Workers,
         Prune(w) \/ Claim(w) \/ Batch(w) \/ BatchError(w) \/ GiveUp(w) \/ Crash(w) \/ Stop(w)
  PROVE  LeaseExclusive'
<1>1. CASE Claim(w)
  BY <1>1, ClaimExclusive
<1>2. CASE EnqueueDrifted(w)
  <2>1. batch' = batch
    BY <1>2 DEF EnqueueDrifted, worker
  <2>2. \A p \in Products : job[p].queued => job'[p] = job[p]
    BY <1>2 DEF EnqueueDrifted
  <2>. QED
    BY <2>1, <2>2 DEF LeaseExclusive, Types, WorkerTypes
<1>3. CASE Prune(w) \/ Idle(w) \/ Load(w) \/ Embed(w) \/ BatchError(w)
  <2>1. batch' = batch /\ job' = job
    BY <1>3 DEF Prune, Idle, Load, Embed, BatchError, worker
  <2>. QED
    BY <2>1 DEF LeaseExclusive
<1>4. CASE Write(w)
  <2>1. CASE UNCHANGED <<job, worker>>
    BY <2>1 DEF LeaseExclusive, worker
  <2>2. CASE /\ job' = [p \in Products |-> IF p \in batch[w] THEN NoJob ELSE job[p]]
             /\ Rest(w)
    BY <2>2, EndExclusive
  <2>. QED
    BY <1>4, <2>1, <2>2 DEF Write
<1>5. CASE Fail(w) \/ GiveUp(w) \/ Crash(w) \/ Stop(w)
  <2>1. Rest(w) /\ (UNCHANGED job \/ Fail(w) \/ Crash(w) \/ Stop(w))
    BY <1>5 DEF Fail, GiveUp, Crash, Stop
  <2>. QED
    BY <2>1, EndExclusive
<1>. QED
  BY <1>1, <1>2, <1>3, <1>4, <1>5 DEF Batch

LEMMA NextExclusive == Types /\ LeaseExclusive /\ [Next]_vars => LeaseExclusive'
<1>. SUFFICES ASSUME Types, LeaseExclusive, [Next]_vars
              PROVE  LeaseExclusive'
  OBVIOUS
<1>1. CASE UNCHANGED vars
  BY <1>1 DEF vars, worker, LeaseExclusive
<1>2. ASSUME NEW p \in Products, Catalog(p)
      PROVE  LeaseExclusive'
  BY <1>2, CatalogExclusive
<1>3. ASSUME NEW w \in Workers,
             Prune(w) \/ Claim(w) \/ Batch(w) \/ BatchError(w) \/ GiveUp(w) \/ Crash(w) \/ Stop(w)
      PROVE  LeaseExclusive'
  BY <1>3, WorkerExclusive
<1>. QED
  BY <1>1, <1>2, <1>3 DEF Next, Catalog

\* While workers outrun their leases and operators leave held jobs alone, a worker
\* holds every job it works on, so no two workers work on the same job.
THEOREM LeasesExclude == Spec => []LeaseExclusive
<1>1. Init => LeaseExclusive
  BY DEF Init, LeaseExclusive
<1>2. Types /\ LeaseExclusive /\ [Next]_vars => LeaseExclusive'
  BY NextExclusive
<1>. QED
  BY <1>1, <1>2, SpecTypes, PTL DEF Spec

-----------------------------------------------------------------------------
(* Vectors. What a worker loaded stays what is stored, or is pruned, until *)
(* it writes.                                                              *)

Sound(w) ==
  pc[w] \in {"embed", "write"} =>
    \A p \in Loaded(w) :
      /\ doc[p] \in {rows[w][p].doc, NoDoc}
      /\ \A s \in Slots : rows[w][p].doc.vec[s] \in {None, rows[w][p].doc.text}

Embedded(w) ==
  pc[w] = "write" /\ error[w] = "none" => \A s \in Slots : fresh[w][s] = Stale(w, s)

Match == VectorsMatch /\ \A w \in Workers : Sound(w) /\ Embedded(w)

LEMMA NoDocMatches == \A s \in Slots : NoDoc.vec[s] = None
BY DEF NoDoc, NoVectors

\* A worker whose own state and batch nobody touches stays sound.
LEMMA SoundKept ==
  ASSUME NEW w \in Workers, Sound(w), Embedded(w),
         UNCHANGED <<pc[w], batch[w], rows[w], fresh[w], error[w]>>,
         \A p \in Loaded(w) : doc'[p] \in {doc[p], NoDoc}
  PROVE  Sound(w)' /\ Embedded(w)'
<1>1. Loaded(w)' = Loaded(w) /\ \A s \in Slots : Stale(w, s)' = Stale(w, s)
  BY DEF Loaded, Stale
<1>. QED
  BY <1>1 DEF Sound, Embedded

\* A worker that is not between its load and its write has nothing to be wrong.
LEMMA SoundElsewhere ==
  ASSUME NEW w \in Workers, pc'[w] \notin {"embed", "write"}
  PROVE  Sound(w)' /\ Embedded(w)'
BY DEF Sound, Embedded

LEMMA WrittenMatches ==
  ASSUME Types, Match, NEW w \in Workers, pc[w] = "write", NEW p \in Writable(w), NEW s \in Slots
  PROVE  Written(w, p).vec[s] \in {None, Written(w, p).text}
<1>1. p \in Loaded(w)
  BY DEF Writable
<1>2. /\ doc[p] \in {rows[w][p].doc, NoDoc}
      /\ rows[w][p].doc.vec[s] \in {None, rows[w][p].doc.text}
  BY <1>1 DEF Match, Sound
<1>3. /\ Written(w, p).text = rows[w][p].text
      /\ Written(w, p).vec[s] = IF p \in fresh[w][s] THEN rows[w][p].text ELSE doc[p].vec[s]
  BY DEF Written
<1>4. CASE p \in fresh[w][s]
  BY <1>3, <1>4
<1>5. CASE p \notin fresh[w][s] /\ doc[p] = NoDoc
  BY <1>3, <1>5, NoDocMatches
<1>6. CASE p \notin fresh[w][s] /\ doc[p] = rows[w][p].doc
  <2>1. CASE error[w] = "none"
    <3>1. p \notin Stale(w, s)
      BY <1>6, <2>1 DEF Match, Embedded
    <3>2. rows[w][p].doc.text = rows[w][p].text
      BY <1>1, <3>1 DEF Stale
    <3>. QED
      BY <1>2, <1>3, <1>6, <3>2
  <2>2. CASE error[w] # "none"
    <3>1. rows[w][p].doc.text = None
      BY <2>2 DEF Writable
    <3>. QED
      BY <1>2, <1>3, <1>6, <3>1
  <2>. QED
    BY <2>1, <2>2
<1>. QED
  BY <1>2, <1>4, <1>5, <1>6

LEMMA WriteMatches ==
  ASSUME Types, Prompt, LeaseExclusive, Match, NEW w \in Workers, Write(w)
  PROVE  Match'
<1>1. pc[w] = "write"
  BY DEF Write
<1>2. VectorsMatch'
  <2>. SUFFICES ASSUME NEW p \in Products, NEW s \in Slots
                PROVE  doc'[p].vec[s] \in {None, doc'[p].text}
    BY DEF VectorsMatch
  <2>1. CASE p \in Writable(w)
    BY <1>1, <2>1, WrittenMatches DEF Write
  <2>2. CASE p \notin Writable(w)
    BY <2>2 DEF Write, Match, VectorsMatch
  <2>. QED
    BY <2>1, <2>2
<1>3. Sound(w)' /\ Embedded(w)'
  <2>1. pc'[w] \in {"poll", "fail"}
    BY DEF Write, Rest, Types, WorkerTypes
  <2>. QED
    BY <2>1, SoundElsewhere
<1>4. ASSUME NEW q \in Workers, q # w
      PROVE  Sound(q)' /\ Embedded(q)'
  <2>1. UNCHANGED <<pc[q], batch[q], rows[q], fresh[q], error[q]>>
    BY <1>4 DEF Write, Rest, worker, Types, WorkerTypes
  <2>2. \A p \in Loaded(q) : p \in Products /\ p \notin batch[w]
    BY <1>4, OthersKeep DEF Loaded
  <2>3. \A p \in Loaded(q) : doc'[p] = doc[p]
    BY <2>2 DEF Write, Writable, Loaded
  <2>. QED
    BY <2>1, <2>3, SoundKept DEF Match
<1>. QED
  BY <1>2, <1>3, <1>4 DEF Match

\* The steps of a worker that leave the documents as they are, or prune some.
LEMMA ReadMatches ==
  ASSUME Types, Match, NEW w \in Workers,
         \/ Prune(w) \/ EnqueueDrifted(w) \/ Claim(w) \/ Idle(w) \/ Load(w) \/ Embed(w)
         \/ BatchError(w) \/ Fail(w) \/ GiveUp(w) \/ Crash(w) \/ Stop(w)
  PROVE  Match'
<1>1. \A p \in Products : doc'[p] \in {doc[p], NoDoc}
  BY DEF Prune, EnqueueDrifted, Claim, Idle, Load, Embed, BatchError, Fail, GiveUp, Crash, Stop
<1>2. VectorsMatch'
  BY <1>1, NoDocMatches DEF Match, VectorsMatch
<1>3. ASSUME NEW q \in Workers, q # w
      PROVE  Sound(q)' /\ Embedded(q)'
  <2>1. UNCHANGED <<pc[q], batch[q], rows[q], fresh[q], error[q]>>
    BY <1>3 DEF Prune, EnqueueDrifted, Claim, Idle, Load, Embed, BatchError, Fail, GiveUp,
                Crash, Stop, Rest, worker, Types, WorkerTypes
  <2>2. \A p \in Loaded(q) : p \in Products
    BY DEF Loaded, Types, WorkerTypes
  <2>. QED
    BY <1>1, <2>1, <2>2, SoundKept DEF Match
<1>4. Sound(w)' /\ Embedded(w)'
  <2>1. CASE Load(w)
    <3>1. /\ pc'[w] = "embed" /\ doc' = doc
          /\ rows'[w] = [p \in Products |-> IF p \in batch[w] /\ ~archived[p]
                THEN [text |-> text[p], doc |-> doc[p]] ELSE NoRow]
      BY <2>1 DEF Load, Types, WorkerTypes
    <3>2. ASSUME NEW p \in Loaded(w)'
          PROVE  p \in Products /\ rows'[w][p].doc = doc[p]
      <4>1. p \in Products /\ rows'[w][p] # NoRow
        BY <2>1 DEF Loaded, Load, Types, WorkerTypes
      <4>. QED
        BY <3>1, <4>1
    <3>3. Sound(w)'
      BY <3>1, <3>2 DEF Sound, Match, VectorsMatch
    <3>. QED
      BY <3>1, <3>3 DEF Embedded
  <2>2. CASE Embed(w)
    <3>1. /\ pc[w] = "embed" /\ pc'[w] = "write"
          /\ UNCHANGED <<doc, batch, rows>>
      BY <2>2 DEF Embed, Types, WorkerTypes
    <3>2. Loaded(w)' = Loaded(w) /\ \A s \in Slots : Stale(w, s)' = Stale(w, s)
      BY <3>1 DEF Loaded, Stale
    <3>3. Sound(w)'
      BY <3>1, <3>2 DEF Sound, Match
    <3>4. Embedded(w)'
      <4>1. CASE fresh' = [fresh EXCEPT ![w] = [s \in Slots |-> Stale(w, s)]]
        <5>1. \A s \in Slots : fresh'[w][s] = Stale(w, s)
          BY <4>1 DEF Types, WorkerTypes
        <5>. QED
          BY <3>2, <5>1 DEF Embedded
      <4>2. CASE \E e \in {"retryable", "permanent"} : error' = [error EXCEPT ![w] = e]
        BY <4>2 DEF Embedded, Types, WorkerTypes
      <4>. QED
        BY <2>2, <4>1, <4>2 DEF Embed
    <3>. QED
      BY <3>3, <3>4
  <2>3. CASE \/ Prune(w) \/ EnqueueDrifted(w) \/ Claim(w) \/ Idle(w)
             \/ BatchError(w) \/ Fail(w) \/ GiveUp(w) \/ Crash(w) \/ Stop(w)
    <3>1. pc'[w] \in {"poll", "sweep", "claim", "load", "fail"}
      BY <2>3 DEF Prune, EnqueueDrifted, Claim, Idle, BatchError, Fail, GiveUp, Crash, Stop,
                  Rest, Types, WorkerTypes
    <3>. QED
      BY <3>1, SoundElsewhere
  <2>. QED
    BY <2>1, <2>2, <2>3
<1>. QED
  BY <1>2, <1>3, <1>4 DEF Match

LEMMA NextMatches ==
  ASSUME Prompt
  PROVE  Types /\ LeaseExclusive /\ Match /\ [Next]_vars => Match'
<1>. SUFFICES ASSUME Types, LeaseExclusive, Match, [Next]_vars
              PROVE  Match'
  OBVIOUS
<1>1. CASE UNCHANGED <<doc, pc, worker>>
  <2>1. VectorsMatch'
    BY <1>1 DEF Match, VectorsMatch
  <2>2. \A w \in Workers : Sound(w)' /\ Embedded(w)'
    BY <1>1, SoundKept DEF Match, worker
  <2>. QED
    BY <2>1, <2>2 DEF Match
<1>2. ASSUME NEW p \in Products, Catalog(p)
      PROVE  Match'
  <2>1. UNCHANGED <<doc, pc, worker>>
    BY <1>2 DEF Catalog, Edit, Archive, BackoffEnds, LeaseExpires, Reset
  <2>. QED
    BY <1>1, <2>1
<1>3. ASSUME NEW w \in Workers,
             Prune(w) \/ Claim(w) \/ Batch(w) \/ BatchError(w) \/ GiveUp(w) \/ Crash(w) \/ Stop(w)
      PROVE  Match'
  BY <1>3, ReadMatches, WriteMatches DEF Batch
<1>. QED
  BY <1>1, <1>2, <1>3 DEF Next, Catalog, vars

\* While leases make workers exclusive, every stored vector was embedded from the text
\* it is stored with, whichever providers, statements or processes fail.
THEOREM VectorsBelong ==
  ASSUME Prompt
  PROVE  Spec => []VectorsMatch
<1>1. Init => Match
  BY NoDocMatches DEF Init, Match, VectorsMatch, Sound, Embedded
<1>2. Types /\ LeaseExclusive /\ Match /\ [Next]_vars => Match'
  BY NextMatches
<1>3. Match => VectorsMatch
  BY DEF Match
<1>. QED
  BY <1>1, <1>2, <1>3, SpecTypes, LeasesExclude, PTL DEF Spec

-----------------------------------------------------------------------------
(* Stored vectors are kept, whoever writes when.                           *)

\* What a worker loaded of a product is a row of the catalog, with its text.
Texted == \A w \in Workers, p \in Products : rows[w][p] = NoRow \/ rows[w][p].text \in Texts

LEMMA TextedStep == Types /\ Texted /\ [Next]_vars => Texted'
<1>. SUFFICES ASSUME Types, Texted, [Next]_vars PROVE Texted'
  OBVIOUS
<1>1. CASE UNCHANGED rows
  BY <1>1 DEF Texted
<1>2. ASSUME NEW w \in Workers, Rest(w) PROVE Texted'
  BY <1>2 DEF Texted, Rest, NoRows, Types, WorkerTypes
<1>3. ASSUME NEW w \in Workers, Load(w) PROVE Texted'
  <2>. SUFFICES ASSUME NEW q \in Workers, NEW p \in Products
                PROVE  rows'[q][p] = NoRow \/ rows'[q][p].text \in Texts
    BY DEF Texted
  <2>1. CASE q # w
    BY <1>3, <2>1 DEF Texted, Load, Types, WorkerTypes
  <2>2. CASE q = w
    <3>1. rows'[w][p] = IF p \in batch[w] /\ ~archived[p]
                        THEN [text |-> text[p], doc |-> doc[p]] ELSE NoRow
      BY <1>3 DEF Load, Types, WorkerTypes
    <3>2. text[p] \in Texts
      BY DEF Types, StoreTypes
    <3>. QED
      BY <2>2, <3>1, <3>2
  <2>. QED
    BY <2>1, <2>2
<1>4. ASSUME NEW p \in Products, Catalog(p) PROVE UNCHANGED rows
  BY <1>4 DEF Catalog, Edit, Archive, BackoffEnds, LeaseExpires, Reset, worker
<1>5. ASSUME NEW w \in Workers,
             Prune(w) \/ Claim(w) \/ Batch(w) \/ BatchError(w) \/ GiveUp(w) \/ Crash(w) \/ Stop(w)
      PROVE  UNCHANGED rows \/ Rest(w) \/ Load(w)
  BY <1>5 DEF Batch, Prune, EnqueueDrifted, Claim, Idle, Embed, Write, BatchError, Fail, GiveUp,
              Crash, Stop, worker
<1>6. CASE UNCHANGED vars
  BY <1>1, <1>6 DEF vars, worker
<1>. QED
  BY <1>1, <1>2, <1>3, <1>4, <1>5, <1>6 DEF Next, Catalog

\* One step of the service keeps every vector of a document that stays.
KeepsVectors == \A p \in Products, s \in Slots :
    doc[p].vec[s] # None /\ doc'[p].text # None => doc'[p].vec[s] # None

LEMMA StepKeepsVectors == Types /\ Texted /\ [Next]_vars => KeepsVectors
<1>. SUFFICES ASSUME Types, Texted, [Next]_vars PROVE KeepsVectors
  OBVIOUS
<1>1. CASE UNCHANGED doc
  BY <1>1 DEF KeepsVectors
<1>2. ASSUME NEW w \in Workers, Prune(w) PROVE KeepsVectors
  <2>1. \A p \in Products : doc'[p] = doc[p] \/ doc'[p].text = None
    BY <1>2 DEF Prune, NoDoc
  <2>. QED
    BY <2>1 DEF KeepsVectors
<1>3. ASSUME NEW w \in Workers, Write(w) PROVE KeepsVectors
  <2>. SUFFICES ASSUME NEW p \in Products, NEW s \in Slots, doc[p].vec[s] # None
                PROVE  doc'[p].vec[s] # None
    BY DEF KeepsVectors
  <2>1. CASE p \notin Writable(w)
    BY <1>3, <2>1 DEF Write
  <2>2. CASE p \in Writable(w)
    <3>1. p \in Loaded(w)
      BY <2>2 DEF Writable
    <3>2. rows[w][p].text \in Texts
      BY <3>1 DEF Loaded, Texted
    <3>3. rows[w][p].text # None
      BY <3>2, IndexAssumption DEF IndexAssumption
    <3>4. doc'[p] = Written(w, p)
      BY <1>3, <2>2 DEF Write
    <3>5. Written(w, p).vec[s] = IF p \in fresh[w][s] THEN rows[w][p].text ELSE doc[p].vec[s]
      BY DEF Written
    <3>. QED
      BY <3>3, <3>4, <3>5
  <2>. QED
    BY <2>1, <2>2
<1>4. ASSUME NEW p \in Products, Catalog(p) PROVE UNCHANGED doc
  BY <1>4 DEF Catalog, Edit, Archive, BackoffEnds, LeaseExpires, Reset
<1>5. ASSUME NEW w \in Workers,
             Prune(w) \/ Claim(w) \/ Batch(w) \/ BatchError(w) \/ GiveUp(w) \/ Crash(w) \/ Stop(w)
      PROVE  UNCHANGED doc \/ Prune(w) \/ Write(w)
  BY <1>5 DEF Batch, EnqueueDrifted, Claim, Idle, Load, Embed, BatchError, Fail, GiveUp, Crash, Stop
<1>6. CASE UNCHANGED vars
  BY <1>1, <1>6 DEF vars
<1>. QED
  BY <1>1, <1>2, <1>3, <1>4, <1>5, <1>6 DEF Next, Catalog

\* No step destroys a vector of a document that stays: not the write of a worker whose
\* lease has expired, nor one after a provider failed. Neither leases nor their
\* promptness are needed for it: the upsert reads the vectors it keeps itself.
THEOREM VectorsAreKept == Spec => VectorsKept
<1>1. Init => Texted
  BY DEF Init, Texted, NoRows
<1>2. Types /\ Texted /\ [Next]_vars => Texted'
  BY TextedStep
<1>3. Types /\ Texted /\ [Next]_vars => [KeepsVectors]_vars
  BY StepKeepsVectors
<1>4. KeepsVectors <=> \A p \in Products, s \in Slots :
          doc[p].vec[s] # None /\ doc'[p].text # None => doc'[p].vec[s] # None
  BY DEF KeepsVectors
<1>. QED
  BY <1>1, <1>2, <1>3, <1>4, SpecTypes, PTL DEF Spec, VectorsKept
=============================================================================
