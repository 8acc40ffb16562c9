------------------------------- MODULE Search -------------------------------
(***************************************************************************)
(* A smart search from the web service to the providers behind the AI      *)
(* service: the gateway waits so long for the AI service and falls back to *)
(* its own lexical search; the AI service embeds the query with the first  *)
(* provider that answers, retrieves, and has the page reranked by the      *)
(* first reranker that answers. Concurrent searches share a circuit        *)
(* breaker per provider, a table of query vectors and a cache of ranks.    *)
(*                                                                         *)
(* A provider may answer, fail or time out at any time. Time is measured   *)
(* in ticks that something has left.                                       *)
(***************************************************************************)
EXTENDS Integers, Sequences, FiniteSets, SequencesExt

CONSTANTS Requests,      \* searches in flight
          Queries, Texts, None,
          Embedders,     \* embedding providers in order: primary, fallback
          Rerankers,     \* reranking providers in order
          First,         \* the text of the matching documents at the start
          Sizes,         \* of the pages: "undocumented", "single", "many"
          Threshold,     \* *_BREAKER_FAILURES
          MaxAttempts,   \* attempts of one embedding call
          Reset, Quota,  \* *_BREAKER_RESET_SECONDS, RERANKER_QUOTA_COOLDOWN_SECONDS
          QueryTTL,      \* SEARCH_QUERY_CACHE_TTL_SECONDS
          RankTTL,       \* SEARCH_RERANK_CACHE_TTL_SECONDS
          MaxEntries,    \* SEARCH_RERANK_CACHE_MAX_ENTRIES
          MaxSearches,   \* bound: searches
          MaxFailures,   \* bound: failures of providers
          MaxEdits       \* bound: changes of the documents

Providers == Range(Embedders) \cup Range(Rerankers)

ASSUME SearchAssumption ==
  /\ None \notin Providers \cup Texts \cup Queries
  /\ Embedders \in Seq(Range(Embedders)) /\ Rerankers \in Seq(Range(Rerankers))
  /\ Embedders # <<>> /\ Rerankers # <<>>
  /\ Range(Embedders) \cap Range(Rerankers) = {}
  /\ First \in Texts
  /\ Sizes \subseteq {"undocumented", "single", "many"}
  /\ {Threshold, MaxAttempts, Reset, Quota, QueryTTL, RankTTL, MaxEntries} \subseteq Nat \ {0}
  /\ {MaxSearches, MaxFailures, MaxEdits} \subseteq Nat

VARIABLES shown,     \* what the shopper has of each search
          pc, query, \* the AI service's work on it
          turn,      \* the place in the chain of providers it has come to
          tries,     \* attempts of its embedding call
          vector,    \* the query vector: by whom, and whose column it is compared with
          page,      \* the page it retrieved: how many candidates, their text
          rank,      \* the order: its outcome, and the text the scores were made for
          breaker,   \* CircuitBreaker of each provider
          row,       \* ai_search_query_embeddings
          entries,   \* CachedReranker: least recently used first
          text,      \* ai_search_documents
          budget,
          run,       \* history: failures of an embedding provider since it last answered
          rest       \* history: for how long a provider is to be left alone

search == <<query, turn, tries, vector, page, rank>>
history == <<run, rest>>
vars == <<shown, pc, search, breaker, row, entries, text, budget, history>>

NoVector == [by |-> None, slot |-> None]
NoPage == [size |-> "none", text |-> None]
NoRank == [outcome |-> "none", text |-> None]
NoRow == [by |-> None, left |-> 0]
Closed == [failures |-> 0, opened |-> FALSE, left |-> 0, span |-> Reset]

Init ==
  /\ shown = [r \in Requests |-> "none"]
  /\ pc = [r \in Requests |-> "idle"]
  /\ query = [r \in Requests |-> None]
  /\ turn = [r \in Requests |-> 1]
  /\ tries = [r \in Requests |-> 0]
  /\ vector = [r \in Requests |-> NoVector]
  /\ page = [r \in Requests |-> NoPage]
  /\ rank = [r \in Requests |-> NoRank]
  /\ breaker = [p \in Providers |-> Closed]
  /\ row = [q \in Queries |-> NoRow]
  /\ entries = <<>>
  /\ text = First
  /\ budget = [searches |-> 0, failures |-> 0, edits |-> 0]
  /\ run = [p \in Range(Embedders) |-> 0]
  /\ rest = [p \in Providers |-> 0]

Spend(kind, max) == budget[kind] < max /\ budget' = [budget EXCEPT ![kind] = @ + 1]

Least(a, b) == IF a < b THEN a ELSE b
Goto(r, step) == pc' = [pc EXCEPT ![r] = step]

-----------------------------------------------------------------------------
(* CircuitBreaker.                                                         *)

IsOpen(p) == breaker[p].left > 0

RecordSuccess(p) ==
  /\ breaker' = [breaker EXCEPT ![p] = Closed]

CountedOnce(b) ==    \* mutant: a failure of an open circuit does not count
  LET failures == Least(b.failures + 1, Threshold)
      trips == failures = Threshold /\ ~b.opened
  IN [b EXCEPT !.failures = failures, !.opened = @ \/ trips, !.left = IF trips THEN b.span ELSE @]
\* record_failure: opened_at is stamped anew whenever the threshold is reached.
Counted(b) ==
  LET failures == Least(b.failures + 1, Threshold)
      trips == failures = Threshold
  IN [b EXCEPT !.failures = failures, !.opened = @ \/ trips, !.left = IF trips THEN b.span ELSE @]

OpenedUnspanned(b) == [b EXCEPT !.failures = Threshold, !.opened = TRUE, !.left = b.span]    \* mutant
\* open_for: its span lasts until the next success.
OpenedFor(b) == [failures |-> Threshold, opened |-> TRUE, left |-> Quota, span |-> Quota]

-----------------------------------------------------------------------------
(* The web service.                                                        *)

\* CatalogSearchService.search routes a query to the AI service.
Begin(r) ==
  /\ pc[r] = "idle"
  /\ Spend("searches", MaxSearches)
  /\ \E q \in Queries : query' = [query EXCEPT ![r] = q]
  /\ shown' = [shown EXCEPT ![r] = "waiting"]
  /\ Goto(r, "lookup")
  /\ UNCHANGED <<turn, tries, vector, page, rank, breaker, row, entries, text, history>>

\* The gateway has waited long enough: the shopper gets lexical results, and the AI
\* service does not hear of it.
GatewayTimeout(r) ==
  /\ shown[r] = "waiting"
  /\ shown' = [shown EXCEPT ![r] = "lexical"]
  /\ UNCHANGED <<pc, search, breaker, row, entries, text, budget, history>>

\* The AI service's answer, good or bad, reaches a gateway that still waits.
Reply(r, what) ==
  /\ shown' = [shown EXCEPT ![r] = IF @ = "waiting" THEN what ELSE @]
  /\ Goto(r, "idle")
  /\ query' = [query EXCEPT ![r] = None]
  /\ turn' = [turn EXCEPT ![r] = 1]
  /\ tries' = [tries EXCEPT ![r] = 0]
  /\ vector' = [vector EXCEPT ![r] = NoVector]
  /\ page' = [page EXCEPT ![r] = NoPage]
  /\ rank' = [rank EXCEPT ![r] = NoRank]

Answer(r) ==
  /\ pc[r] = "answer"
  /\ Reply(r, "ranked")
  /\ UNCHANGED <<breaker, row, entries, text, budget, history>>

-----------------------------------------------------------------------------
(* The query vector: SearchService._query_vector, EmbeddingProviders and   *)
(* ResilientEmbeddingClient.                                               *)

Primary == Head(Embedders)

\* A stored vector that has not expired is taken for one of the primary's.
Lookup(r) ==
  /\ pc[r] = "lookup"
  /\ \/ /\ row[query[r]].left > 0
        /\ vector' = [vector EXCEPT ![r] = [by |-> row[query[r]].by, slot |-> Primary]]
        /\ Goto(r, "retrieve")
     \/ /\ row[query[r]].left = 0
        /\ Goto(r, "embed")
        /\ UNCHANGED vector
  /\ UNCHANGED <<shown, query, turn, tries, page, rank, breaker, row, entries, text, budget, history>>

NextTurnAround(chain, i) == IF i < Len(chain) THEN i + 1 ELSE 1    \* mutant: starts again
\* The next provider of the chain, 0 when there is none left.
NextTurn(chain, i) == IF i < Len(chain) THEN i + 1 ELSE 0

\* The provider does not serve: the next one is asked, or there is no query vector.
PassEmbed(r) ==
  LET next == NextTurn(Embedders, turn[r])
  IN /\ turn' = [turn EXCEPT ![r] = IF next = 0 THEN 1 ELSE next]
     /\ Goto(r, IF next = 0 THEN "retrieve" ELSE "embed")
     /\ tries' = [tries EXCEPT ![r] = 0]

CallEmbedder(r) ==
  /\ pc[r] = "embed"
  /\ \/ IsOpen(Embedders[turn[r]]) /\ PassEmbed(r)
     \/ /\ ~IsOpen(Embedders[turn[r]])
        /\ tries' = [tries EXCEPT ![r] = 1]
        /\ Goto(r, "embedding")
        /\ UNCHANGED turn
  /\ UNCHANGED <<shown, query, vector, page, rank, breaker, row, entries, text, budget, history>>

EmbedderAnswers(r) ==
  /\ pc[r] = "embedding"
  /\ LET p == Embedders[turn[r]]
     IN /\ vector' = [vector EXCEPT ![r] = [by |-> p, slot |-> p]]
        /\ RecordSuccess(p)
        /\ run' = [run EXCEPT ![p] = 0]
        /\ rest' = [rest EXCEPT ![p] = 0]
  /\ turn' = [turn EXCEPT ![r] = 1]
  /\ Goto(r, "retrieve")
  /\ UNCHANGED <<shown, query, tries, page, rank, row, entries, text, budget>>

\* A retryable error, after which the call is made again without a look at the breaker.
RetryEmbedder(r) ==
  /\ pc[r] = "embedding" /\ tries[r] < MaxAttempts
  /\ Spend("failures", MaxFailures)
  /\ tries' = [tries EXCEPT ![r] = @ + 1]
  /\ UNCHANGED <<shown, pc, query, turn, vector, page, rank, breaker, row, entries, text, history>>

\* A permanent error, or the last attempt.
EmbedderFails(r) ==
  /\ pc[r] = "embedding"
  /\ Spend("failures", MaxFailures)
  /\ LET p == Embedders[turn[r]]
     IN /\ breaker' = [breaker EXCEPT ![p] = Counted(@)]
        /\ run' = [run EXCEPT ![p] = Least(@ + 1, Threshold)]
        /\ rest' = [rest EXCEPT ![p] = IF run[p] + 1 >= Threshold THEN Reset ELSE 0]
  /\ PassEmbed(r)
  /\ UNCHANGED <<shown, query, vector, page, rank, row, entries, text>>

-----------------------------------------------------------------------------
(* Retrieval.                                                              *)

StorableAny(r) == tries[r] > 0 /\ vector[r] # NoVector    \* mutant: under the primary's key whoever made it
\* Only a vector the primary has just made is stored under its key.
Storable(r) == tries[r] > 0 /\ vector[r].by = Primary

\* What is found: so many candidates, with the text they have now.
Pages == [size : Sizes, text : {text}]

\* The page and its documents, and ON CONFLICT DO NOTHING the query vector.
Retrieve(r) ==
  /\ pc[r] = "retrieve"
  /\ \E found \in Pages : page' = [page EXCEPT ![r] = found]
  /\ IF Storable(r)
     THEN row' = IF row[query[r]] = NoRow
                 THEN [row EXCEPT ![query[r]] = [by |-> vector[r].by, left |-> QueryTTL]]
                 ELSE row
     ELSE UNCHANGED row
  /\ tries' = [tries EXCEPT ![r] = 0]
  /\ Goto(r, "rank")
  /\ UNCHANGED <<shown, query, turn, vector, rank, breaker, entries, text, budget, run, rest>>

-----------------------------------------------------------------------------
(* Reranking: CachedReranker, RerankerChain and ResilientReranker.         *)

KeyUntexted(r) == [query |-> query[r], size |-> page[r].size, text |-> First]    \* mutant: blind to the texts
\* rerank_cache_key.
Key(r) == [query |-> query[r], size |-> page[r].size, text |-> page[r].text]

Places(r) == {i \in 1..Len(entries) : entries[i].key = Key(r)}
Live(r) == {i \in Places(r) : entries[i].left > 0}
Others(r) == IF Places(r) = {} THEN entries ELSE RemoveAt(entries, CHOOSE i \in Places(r) : TRUE)

Ranked(r, outcome, t) == rank' = [rank EXCEPT ![r] = [outcome |-> outcome, text |-> t]]

\* Candidates without documents are not reranked; a cached order is taken, and an
\* expired one removed.
Rank(r) ==
  /\ pc[r] = "rank"
  /\ \/ /\ page[r].size = "undocumented"
        /\ Ranked(r, "skipped", None)
        /\ Goto(r, "answer")
        /\ UNCHANGED entries
     \/ /\ page[r].size # "undocumented"
        /\ \E i \in Live(r) :
             /\ entries' = Append(Others(r), entries[i])
             /\ Ranked(r, "applied", entries[i].text)
        /\ Goto(r, "answer")
     \/ /\ page[r].size # "undocumented" /\ Live(r) = {}
        /\ entries' = Others(r)
        /\ Goto(r, "rerank")
        /\ UNCHANGED rank
  /\ UNCHANGED <<shown, query, turn, tries, vector, page, breaker, row, text, budget, history>>

PassRerank(r) ==
  LET next == NextTurn(Rerankers, turn[r])
  IN /\ turn' = [turn EXCEPT ![r] = IF next = 0 THEN 1 ELSE next]
     /\ IF next = 0 THEN Ranked(r, "unavailable", None) /\ Goto(r, "answer")
        ELSE UNCHANGED rank /\ Goto(r, "rerank")

\* A single candidate is ranked without a call, which counts as a success of the provider.
CallReranker(r) ==
  /\ pc[r] = "rerank"
  /\ LET p == Rerankers[turn[r]]
     IN \/ IsOpen(p) /\ PassRerank(r) /\ UNCHANGED breaker
        \/ /\ ~IsOpen(p) /\ page[r].size = "single"
           /\ RecordSuccess(p)
           /\ Ranked(r, "skipped", None)
           /\ Goto(r, "answer")
           /\ UNCHANGED turn
        \/ /\ ~IsOpen(p) /\ page[r].size = "many"
           /\ Goto(r, "reranking")
           /\ UNCHANGED <<turn, rank, breaker>>
  /\ UNCHANGED <<shown, query, tries, vector, page, row, entries, text, budget, history>>

\* The newest entry last, the oldest dropped beyond the maximum.
Put(r) ==
  LET all == Append(Others(r), [key |-> Key(r), text |-> page[r].text, left |-> RankTTL])
  IN entries' = IF Len(all) > MaxEntries THEN Tail(all) ELSE all

RerankerAnswers(r) ==
  /\ pc[r] = "reranking"
  /\ RecordSuccess(Rerankers[turn[r]])
  /\ Ranked(r, "applied", page[r].text)
  /\ Put(r)
  /\ Goto(r, "answer")
  /\ UNCHANGED <<shown, query, turn, tries, vector, page, row, text, budget, history>>

\* Some candidates are missing from the answer: the provider works, its order is not used.
RerankerFallsShort(r) ==
  /\ pc[r] = "reranking"
  /\ Spend("failures", MaxFailures)
  /\ RecordSuccess(Rerankers[turn[r]])
  /\ PassRerank(r)
  /\ UNCHANGED <<shown, query, tries, vector, page, row, entries, text, history>>

RerankerFails(r) ==
  /\ pc[r] = "reranking"
  /\ Spend("failures", MaxFailures)
  /\ LET p == Rerankers[turn[r]] IN breaker' = [breaker EXCEPT ![p] = Counted(@)]
  /\ PassRerank(r)
  /\ UNCHANGED <<shown, query, tries, vector, page, row, entries, text, history>>

Calling(p) == {r \in Requests : pc[r] = "reranking" /\ Rerankers[turn[r]] = p}

\* The provider's allowance is exhausted.
QuotaExhausted(r) ==
  /\ pc[r] = "reranking"
  /\ Spend("failures", MaxFailures)
  /\ LET p == Rerankers[turn[r]]
     IN /\ breaker' = [breaker EXCEPT ![p] = OpenedFor(@)]
        /\ rest' = IF Calling(p) = {r} THEN [rest EXCEPT ![p] = Quota] ELSE rest
  /\ PassRerank(r)
  /\ UNCHANGED <<shown, query, tries, vector, page, row, entries, text, run>>

\* A statement fails, or the reranker's answer is no JSON: an exception nobody on the
\* way catches. The gateway serves lexical results.
Error(r) ==
  /\ pc[r] \in {"lookup", "retrieve", "reranking"}
  /\ Spend("failures", MaxFailures)
  /\ Reply(r, "lexical")
  /\ UNCHANGED <<breaker, row, entries, text, history>>

-----------------------------------------------------------------------------
(* Everything else.                                                        *)

\* The index is written.
Reindex ==
  /\ Spend("edits", MaxEdits)
  /\ \E t \in Texts \ {text} : text' = t
  /\ UNCHANGED <<shown, pc, search, breaker, row, entries, history>>

\* prune_query_cache of the index worker.
PruneQueries ==
  /\ row' = [q \in Queries |-> IF row[q].left = 0 THEN NoRow ELSE row[q]]
  /\ UNCHANGED <<shown, pc, search, breaker, entries, text, budget, history>>

Down(n) == IF n > 0 THEN n - 1 ELSE 0

Tick ==
  /\ breaker' = [p \in Providers |-> [breaker[p] EXCEPT !.left = Down(@)]]
  /\ row' = [q \in Queries |-> [row[q] EXCEPT !.left = Down(@)]]
  /\ entries' = [i \in 1..Len(entries) |-> [entries[i] EXCEPT !.left = Down(@)]]
  /\ rest' = [p \in Providers |-> Down(rest[p])]
  /\ UNCHANGED <<shown, pc, search, text, budget, run>>

Work(r) ==
  \/ Lookup(r) \/ CallEmbedder(r) \/ EmbedderAnswers(r) \/ RetryEmbedder(r) \/ EmbedderFails(r)
  \/ Retrieve(r) \/ Rank(r) \/ CallReranker(r) \/ RerankerAnswers(r)
  \/ RerankerFallsShort(r) \/ RerankerFails(r) \/ QuotaExhausted(r) \/ Answer(r)

Next ==
  \/ \E r \in Requests : Begin(r) \/ GatewayTimeout(r) \/ Work(r) \/ Error(r)
  \/ Reindex \/ PruneQueries \/ Tick

\* Calls end, by an answer, an error or a timeout, and the event loop runs what can run.
Spec == Init /\ [][Next]_vars /\ \A r \in Requests : WF_vars(Work(r))

-----------------------------------------------------------------------------
(* Properties.                                                             *)

VectorType == [by : Range(Embedders) \cup {None}, slot : Range(Embedders) \cup {None}]
BreakerType == [failures : 0..Threshold, opened : BOOLEAN,
                left : 0..Reset \cup 0..Quota, span : {Reset, Quota}]
KeyType == [query : Queries, size : {"single", "many"}, text : Texts]

\* The types of the state; the cache of ranks stays within its limit.
TypeOK ==
  /\ shown \in [Requests -> {"none", "waiting", "ranked", "lexical"}]
  /\ pc \in [Requests -> {"idle", "lookup", "embed", "embedding", "retrieve", "rank", "rerank",
                          "reranking", "answer"}]
  /\ query \in [Requests -> Queries \cup {None}]
  /\ turn \in [Requests -> 1..Len(Embedders) \cup 1..Len(Rerankers)]
  /\ tries \in [Requests -> 0..MaxAttempts]
  /\ vector \in [Requests -> VectorType]
  /\ page \in [Requests -> [size : {"none", "undocumented", "single", "many"}, text : Texts \cup {None}]]
  /\ rank \in [Requests -> [outcome : {"none", "skipped", "applied", "unavailable"}, text : Texts \cup {None}]]
  /\ breaker \in [Providers -> BreakerType]
  /\ row \in [Queries -> [by : Range(Embedders) \cup {None}, left : 0..QueryTTL]]
  /\ entries \in Seq([key : KeyType, text : Texts, left : 0..RankTTL]) /\ Len(entries) <= MaxEntries
  /\ text \in Texts
  /\ budget \in [searches : 0..MaxSearches, failures : 0..MaxFailures, edits : 0..MaxEdits]
  /\ run \in [Range(Embedders) -> 0..Threshold]
  /\ rest \in [Providers -> 0..Reset \cup 0..Quota]

\* A query vector is compared only with the column of the provider that made it,
\* whoever made it and however long ago (test_a_query_reports_which_column_its_vector_belongs_to):
\* vectors of two models have the same shape and no distance means anything between them.
SameColumn == \A r \in Requests : vector[r].by = vector[r].slot

\* An order that is called reranked was made for the texts of this very page, also when
\* it comes from the cache and the index was written in between.
RanksFresh == \A r \in Requests : rank[r].outcome = "applied" => rank[r].text = page[r].text

\* A reranking provider whose allowance is spent is left alone for the whole cooldown,
\* once no call that was under way at the announcement can answer any more
\* (test_a_spent_allowance_stops_calling_the_provider_at_all).
SpentLeftAlone == \A p \in Range(Rerankers) : rest[p] > 0 => Calling(p) = {}

\* No search starts to call an embedding provider that failed as often in a row as
\* configured before the reset time has passed since its last failure, in whatever order
\* the concurrent calls ended (test_the_circuit_opens_after_the_configured_run_of_failures).
FailingLeftAlone ==
  [][\A r \in Requests : pc[r] = "embed" /\ pc'[r] = "embedding" => rest[Embedders[turn[r]]] = 0]_vars

\* The shopper is answered, and the AI service ends every search it began, whatever the
\* providers do.
Answered == \A r \in Requests : pc[r] # "idle" ~> pc[r] = "idle" /\ shown[r] # "waiting"
=============================================================================
