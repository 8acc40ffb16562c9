----------------------------- MODULE IndexQueue -----------------------------
(***************************************************************************)
(* The search index queue of the AI service (ai/app): a sweep finds the    *)
(* products whose document drifted from the catalog and queues a job for   *)
(* each; workers claim jobs under a lease, load the products, embed their  *)
(* texts, write documents and vectors, and complete or fail the jobs.      *)
(* Workers are the in-process IndexWorker of each replica and the drain of *)
(* the reindex_catalog job. A text stands for its hash; times are reduced  *)
(* to whether a job is due and whether its lease still runs.               *)
(***************************************************************************)
EXTENDS Integers, FiniteSets, FiniteSetsExt

CONSTANTS Products, Workers, Texts,
          Slots,       \* embedding slots with a configured provider, in order
          None,        \* no text, no vector, no lease holder
          Gone,        \* the worker_id of a process that died
          First,       \* the text of each product at the start
          MaxAttempts, \* SEARCH_INDEX_MAX_ATTEMPTS
          BatchSize,   \* SEARCH_INDEX_BATCH_SIZE
          Prompt,      \* workers outrun their leases, operators reset only free jobs
          MaxEdits,    \* bound: how often the catalog's texts change
          MaxArchives, \* bound: how often a product is archived or restored
          MaxFaults,   \* bound: database errors, crashes and shutdowns
          MaxResets    \* bound: resets by an operator

ASSUME IndexAssumption ==
  /\ Slots \subseteq Nat
  /\ None \notin Texts /\ First \in [Products -> Texts]
  /\ None \notin Workers /\ Gone \notin Workers /\ Gone # None
  /\ MaxAttempts \in Nat \ {0} /\ BatchSize \in Nat \ {0}
  /\ Prompt \in BOOLEAN
  /\ MaxEdits \in Nat /\ MaxArchives \in Nat /\ MaxFaults \in Nat /\ MaxResets \in Nat

VARIABLES text, archived, \* the products table, read-only to this service
          doc,            \* ai_search_documents: the text and vectors of each product
          job,            \* ai_search_index_jobs
          pc, batch,      \* what each worker is about to do, the products it claimed
          rows,           \* what load_rows gave it: product text and stored document
          fresh,          \* the products it has embedded for each slot
          error,          \* why its batch fails
          budget          \* how much of each bound is used

catalog == <<text, archived>>
worker  == <<batch, rows, fresh, error>>
vars    == <<catalog, doc, job, pc, worker, budget>>

NoVectors == [s \in Slots |-> None]
NoDoc == [text |-> None, vec |-> NoVectors]
NoJob == [queued |-> FALSE, attempts |-> 0, due |-> FALSE, holder |-> None, leased |-> FALSE]
NewJob == [queued |-> TRUE, attempts |-> 0, due |-> TRUE, holder |-> None, leased |-> FALSE]
NoRow == [text |-> None, doc |-> NoDoc]
NoRows == [p \in Products |-> NoRow]
NoneFresh == [s \in Slots |-> {}]

Init ==
  /\ text = First
  /\ archived = [p \in Products |-> FALSE]
  /\ doc = [p \in Products |-> NoDoc]
  /\ job = [p \in Products |-> NoJob]
  /\ pc = [w \in Workers |-> "poll"]
  /\ batch = [w \in Workers |-> {}]
  /\ rows = [w \in Workers |-> NoRows]
  /\ fresh = [w \in Workers |-> NoneFresh]
  /\ error = [w \in Workers |-> "none"]
  /\ budget = [edits |-> 0, archives |-> 0, faults |-> 0, resets |-> 0]

Spend(kind, max) == budget[kind] < max /\ budget' = [budget EXCEPT ![kind] = @ + 1]

-----------------------------------------------------------------------------
(* The catalog, changed by the web service.                                *)

Edit(p) ==
  /\ Spend("edits", MaxEdits)
  /\ \E t \in Texts \ {text[p]} : text' = [text EXCEPT ![p] = t]
  /\ UNCHANGED <<archived, doc, job, pc, worker>>

Archive(p) ==
  /\ Spend("archives", MaxArchives)
  /\ archived' = [archived EXCEPT ![p] = ~@]
  /\ UNCHANGED <<text, doc, job, pc, worker>>

-----------------------------------------------------------------------------
(* The sweep: prune the documents of archived products, then queue every   *)
(* product that drifted and has no job, in two transactions.               *)

Drifted(p) == /\ ~archived[p]
              /\ doc[p].text # text[p] \/ \E s \in Slots : doc[p].vec[s] = None

Prune(w) ==
  /\ pc[w] = "poll"
  /\ doc' = [p \in Products |-> IF archived[p] THEN NoDoc ELSE doc[p]]
  /\ pc' = [pc EXCEPT ![w] = "sweep"]
  /\ UNCHANGED <<catalog, job, worker, budget>>

\* ON CONFLICT DO NOTHING: a job that exists, exhausted or not, stays as it is.
EnqueueDrifted(w) ==
  /\ pc[w] = "sweep"
  /\ job' = [p \in Products |-> IF Drifted(p) /\ ~job[p].queued THEN NewJob ELSE job[p]]
  /\ pc' = [pc EXCEPT ![w] = "claim"]
  /\ UNCHANGED <<catalog, doc, worker, budget>>

-----------------------------------------------------------------------------
(* A batch.                                                                *)

ClaimableLeased(p) == job[p].queued /\ job[p].due /\ job[p].attempts < MaxAttempts    \* mutant: lease_until not checked
ClaimableUnowned(p) == ClaimableLeased(p) /\ job[p].holder = None    \* mutant: an expired lease is not taken over
Claimable(p) == /\ job[p].queued /\ job[p].due
                /\ job[p].attempts < MaxAttempts
                /\ ~job[p].leased

\* The oldest requests first; their order is left open.
Claim(w) ==
  /\ pc[w] \in {"poll", "claim"}
  /\ LET due == {p \in Products : Claimable(p)}
     IN /\ due # {}
        /\ \E S \in SUBSET due :
             /\ Cardinality(S) = Min({BatchSize, Cardinality(due)})
             /\ batch' = [batch EXCEPT ![w] = S]
             /\ job' = [p \in Products |->
                  IF p \in S THEN [job[p] EXCEPT !.holder = w, !.leased = TRUE] ELSE job[p]]
  /\ pc' = [pc EXCEPT ![w] = "load"]
  /\ UNCHANGED <<catalog, doc, rows, fresh, error, budget>>

\* Nothing is due: the loop waits and polls again.
Idle(w) ==
  /\ pc[w] = "claim"
  /\ \A p \in Products : ~Claimable(p)
  /\ pc' = [pc EXCEPT ![w] = "poll"]
  /\ UNCHANGED <<catalog, doc, job, worker, budget>>

\* The products of the batch that are active, each with its stored document.
Load(w) ==
  /\ pc[w] = "load"
  /\ rows' = [rows EXCEPT ![w] = [p \in Products |->
       IF p \in batch[w] /\ ~archived[p] THEN [text |-> text[p], doc |-> doc[p]] ELSE NoRow]]
  /\ pc' = [pc EXCEPT ![w] = "embed"]
  /\ UNCHANGED <<catalog, doc, job, batch, fresh, error, budget>>

Loaded(w) == {p \in batch[w] : rows[w][p] # NoRow}

\* The documents a slot has to embed: it has no vector, or one of another text.
Stale(w, s) == {p \in Loaded(w) : \/ rows[w][p].doc.vec[s] = None
                                  \/ rows[w][p].doc.text # rows[w][p].text}

\* The slots are embedded in order up to the first provider that fails.
Embed(w) ==
  /\ pc[w] = "embed"
  /\ \/ /\ fresh' = [fresh EXCEPT ![w] = [s \in Slots |-> Stale(w, s)]]
        /\ UNCHANGED error
     \/ \E failing \in Slots :
          /\ Stale(w, failing) # {}
          /\ fresh' = [fresh EXCEPT ![w] = [s \in Slots |-> IF s < failing THEN Stale(w, s) ELSE {}]]
          /\ \E e \in {"retryable", "permanent"} : error' = [error EXCEPT ![w] = e]
  /\ pc' = [pc EXCEPT ![w] = "write"]
  /\ UNCHANGED <<catalog, doc, job, batch, rows, budget>>

WritableAll(w) == Loaded(w)    \* mutant: a failed batch still rewrites indexed documents
WritableNone(w) == IF error[w] = "none" THEN Loaded(w) ELSE {}    \* mutant: a failed batch writes nothing
\* After a failure only products without a document are written.
Writable(w) == IF error[w] = "none" THEN Loaded(w)
               ELSE {p \in Loaded(w) : rows[w][p].doc.text = None}

WrittenPlain(w, p) == [text |-> rows[w][p].text,
                       vec |-> [s \in Slots |-> IF p \in fresh[w][s] THEN rows[w][p].text ELSE None]]    \* mutant: no COALESCE
\* The upsert: a slot that was not embedded keeps the vector stored by then.
Written(w, p) == [text |-> rows[w][p].text,
                  vec |-> [s \in Slots |-> IF p \in fresh[w][s] THEN rows[w][p].text ELSE doc[p].vec[s]]]

Rest(w) == /\ batch' = [batch EXCEPT ![w] = {}]
           /\ rows' = [rows EXCEPT ![w] = NoRows]
           /\ fresh' = [fresh EXCEPT ![w] = NoneFresh]
           /\ error' = [error EXCEPT ![w] = "none"]
           /\ pc' = [pc EXCEPT ![w] = "poll"]

\* One transaction writes the documents and, when all is well, deletes the jobs,
\* whoever holds them by now.
Write(w) ==
  /\ pc[w] = "write"
  /\ doc' = [p \in Products |-> IF p \in Writable(w) THEN Written(w, p) ELSE doc[p]]
  /\ \/ /\ error[w] = "none"
        /\ job' = [p \in Products |-> IF p \in batch[w] THEN NoJob ELSE job[p]]
        /\ Rest(w)
     \/ /\ error[w] # "none"
        /\ pc' = [pc EXCEPT ![w] = "fail"]
        /\ UNCHANGED <<job, worker>>
  /\ UNCHANGED <<catalog, budget>>

\* A statement fails, or building or embedding a document does in a way nobody
\* foresaw: the transaction stores nothing and the whole batch has failed.
BatchError(w) ==
  /\ pc[w] \in {"load", "embed", "write"}
  /\ Spend("faults", MaxFaults)
  /\ error' = [error EXCEPT ![w] = "retryable"]
  /\ pc' = [pc EXCEPT ![w] = "fail"]
  /\ UNCHANGED <<catalog, doc, job, batch, rows, fresh>>

\* fail() takes no notice of who holds the job. Attempts beyond the maximum mean
\* what the maximum means.
Failed(w, p) ==
  [job[p] EXCEPT !.attempts = IF error[w] = "permanent" THEN MaxAttempts
                              ELSE Min({@ + 1, MaxAttempts}),
                 !.due = FALSE, !.holder = None, !.leased = FALSE]

Fail(w) ==
  /\ pc[w] = "fail"
  /\ job' = [p \in Products |-> IF p \in batch[w] /\ job[p].queued THEN Failed(w, p) ELSE job[p]]
  /\ Rest(w)
  /\ UNCHANGED <<catalog, doc, budget>>

\* The sweep cannot queue, or the failures cannot be recorded ("leases will expire
\* instead"): the loop goes on with its next poll.
GiveUp(w) ==
  /\ pc[w] \in {"sweep", "fail"}
  /\ Spend("faults", MaxFaults)
  /\ Rest(w)
  /\ UNCHANGED <<catalog, doc, job>>

\* The process dies and is started anew under another worker_id; its leases run on.
Crash(w) ==
  /\ Spend("faults", MaxFaults)
  /\ job' = [p \in Products |-> IF job[p].holder = w THEN [job[p] EXCEPT !.holder = Gone] ELSE job[p]]
  /\ Rest(w)
  /\ UNCHANGED <<catalog, doc>>

\* IndexWorker.stop: the batch is cancelled and this process's leases given back.
Stop(w) ==
  /\ Spend("faults", MaxFaults)
  /\ job' = [p \in Products |-> IF job[p].holder = w
               THEN [job[p] EXCEPT !.holder = None, !.leased = FALSE] ELSE job[p]]
  /\ Rest(w)
  /\ UNCHANGED <<catalog, doc>>

-----------------------------------------------------------------------------
(* Time and operators.                                                     *)

BackoffEnds(p) ==
  /\ job[p].queued /\ ~job[p].due
  /\ job' = [job EXCEPT ![p].due = TRUE]
  /\ UNCHANGED <<catalog, doc, pc, worker, budget>>

Held(p) == \E w \in Workers : p \in batch[w]

LeaseExpires(p) ==
  /\ job[p].leased
  /\ Prompt => ~Held(p)
  /\ job' = [job EXCEPT ![p].leased = FALSE]
  /\ UNCHANGED <<catalog, doc, pc, worker, budget>>

\* reindex_catalog with --product-id or --all: the job is queued anew.
Reset(p) ==
  /\ Spend("resets", MaxResets)
  /\ Prompt => ~Held(p)
  /\ job' = [job EXCEPT ![p] = NewJob]
  /\ UNCHANGED <<catalog, doc, pc, worker>>

Batch(w) == EnqueueDrifted(w) \/ Idle(w) \/ Load(w) \/ Embed(w) \/ Write(w) \/ Fail(w)

Next ==
  \/ \E p \in Products :
       Edit(p) \/ Archive(p) \/ BackoffEnds(p) \/ LeaseExpires(p) \/ Reset(p)
  \/ \E w \in Workers :
       Prune(w) \/ Claim(w) \/ Batch(w) \/ BatchError(w) \/ GiveUp(w) \/ Crash(w) \/ Stop(w)

Spec == Init /\ [][Next]_vars

(* The loop of a running worker never stops: it finishes every batch,      *)
(* claims what it keeps finding due and sweeps again and again. Time       *)
(* passes.                                                                 *)
FairSpec ==
  /\ Spec
  /\ \A w \in Workers : WF_vars(Batch(w)) /\ SF_vars(Claim(w)) /\ SF_vars(Prune(w))
  /\ \A p \in Products : WF_vars(BackoffEnds(p)) /\ WF_vars(LeaseExpires(p))

-----------------------------------------------------------------------------
(* Properties.                                                             *)

JobType == [queued : BOOLEAN, attempts : 0..MaxAttempts, due : BOOLEAN,
            holder : Workers \cup {Gone, None}, leased : BOOLEAN]
DocType == [text : Texts \cup {None}, vec : [Slots -> Texts \cup {None}]]
RowType == [text : Texts \cup {None}, doc : DocType]
BudgetType == [edits : Nat, archives : Nat, faults : Nat, resets : Nat]

\* The types of the state.
TypeOK ==
  /\ text \in [Products -> Texts]
  /\ archived \in [Products -> BOOLEAN]
  /\ doc \in [Products -> DocType]
  /\ job \in [Products -> JobType]
  /\ pc \in [Workers -> {"poll", "sweep", "claim", "load", "embed", "write", "fail"}]
  /\ batch \in [Workers -> SUBSET Products]
  /\ rows \in [Workers -> [Products -> RowType]]
  /\ fresh \in [Workers -> [Slots -> SUBSET Products]]
  /\ error \in [Workers -> {"none", "retryable", "permanent"}]
  /\ budget \in BudgetType

\* Two workers never work on the same job (test_two_workers_never_claim_the_same_job):
\* a worker holds a running lease on every job of its batch until it has completed
\* or failed it, so complete and fail only ever touch jobs of their caller.
LeaseExclusive ==
  Prompt => \A w \in Workers : \A p \in batch[w] :
              job[p].queued /\ job[p].holder = w /\ job[p].leased

\* The vectors stored with a document were embedded from that document's text, in
\* both columns, whatever failed on the way: the drift query compares only the hash
\* of the text and would never find a vector of another text.
VectorsMatch == \A p \in Products, s \in Slots : doc[p].vec[s] \in {None, doc[p].text}

\* A stored vector is never destroyed while its product keeps its document
\* (test_a_failing_provider_never_destroys_a_stored_vector), also by the late write
\* of a worker that lost its lease.
VectorsKept ==
  [][\A p \in Products, s \in Slots :
       doc[p].vec[s] # None /\ doc'[p].text # None => doc'[p].vec[s] # None]_vars

Agrees(p) == doc[p].text = text[p] /\ \A s \in Slots : doc[p].vec[s] # None

Exhausted(p) == job[p].queued /\ job[p].attempts = MaxAttempts

\* The index heals: once edits and faults stop, every product's document agrees with
\* the catalog again, unless its job has used up its attempts; archived products have
\* none. No job is lost to a crash, a lease, a reset or a duplicate completion.
Healed ==
  \A p \in Products : <>[](IF archived[p] THEN doc[p] = NoDoc ELSE Agrees(p) \/ Exhausted(p))

\* Lexical search does not wait for an embedding provider: an active product comes to
\* have a document even when no provider ever answers
\* (test_a_new_product_is_still_stored_lexically_when_embedding_fails), and gets it
\* back when it is restored from the archive
\* (test_archiving_prunes_the_document_and_unarchiving_restores_it).
Documented == \A p \in Products : <>[](archived[p] \/ doc[p].text # None)
=============================================================================
