------------------------------ MODULE Catalog ------------------------------
(***************************************************************************)
(* A catalog search, of a shopper through the web service or of the        *)
(* assistant's tool: read the text, resolve the filters, retrieve a page   *)
(* from the fused legs, rerank and cut it, hydrate it from the store; or   *)
(* serve the store's own full-text search.  Products are priced, sold and  *)
(* archived, and the index is written, between any two statements.  How    *)
(* providers fail is Search; here an embedding is there or not.            *)
(*                                                                         *)
(* What a word has to do with a product is a table (Brings): by meaning,   *)
(* in the document, in the store's own text vector, in its name by trigram *)
(* and in its place by trigram.                                            *)
(***************************************************************************)
EXTENDS Parser

CONSTANTS
    Products,               \* ids, from 1
    Detail,                 \* [category, origin, rating, reviews, created, name] of each
    Labels,                 \* the words of a category's name and of an origin
    Brings,                 \* [leg -> [word -> products]]
    Opening,                \* price and stock of each product at the start; stock: there or not
    Indexed,                \* the pairs documents, embedded to start from
    K, Weights, Candidates, Floor,         \* SEARCH_RRF_*, *_CANDIDATES, RELEVANCE_FLOOR
    Coverage,               \* SEARCH_INDEX_MIN_COVERAGE in percent
    Scores, MinScore, Gap, TopK,           \* RERANK_*; Gap in percent
    Smart, Routing,         \* the feature flags of the two services
    Queries,                \* [text, blank, explicit, size, tool]: blank text holds spaces,
                            \* tool: the assistant asks, within the AI service
    MaxEdits, MaxIndexed    \* bounds

ASSUME CatalogAssumption ==
    /\ IsFiniteSet(Products) /\ Products = 1..Cardinality(Products)
    /\ \A p \in Products :
           /\ {Detail[p].rating, Detail[p].reviews, Detail[p].created} \subseteq Nat
           /\ Opening[p].price \in Nat /\ Opening[p].stock \in {0, 1}
    /\ TopK \in Nat \ {0} /\ K \in Nat \ {0} /\ Scores \subseteq Nat
    /\ Weights \in [{"sem", "lex", "trg"} -> Nat]
    /\ \A start \in Indexed : start[2] \subseteq start[1] /\ start[1] \subseteq Products
    /\ \A q \in Queries :
           /\ q.text \in Seq(DOMAIN Chars) /\ q.size \in Nat \ {0} /\ (q.blank => q.text = <<>>)
           /\ \A n \in Names : \A v, w \in q.explicit[n] : v = w

VARIABLES
    shop,       \* price, stock and archived of each product
    documents, embedded,    \* the products with a document, and with a vector
    coverage,   \* IndexCoverage: what the AI service last counted
    pc, asked, intent, filters, vector,
    legs,       \* which sources the retrieval uses
    found,      \* the ids and the total it found
    ranked,     \* what the AI service answers
    answer,     \* what the shopper has
    seen,       \* history: the pages shown so far, and if nothing changed since
    edits, indexed

index == <<documents, embedded, coverage, indexed>>
request == <<pc, asked, intent, filters, vector, legs, found, ranked, answer>>
vars == <<shop, index, request, seen, edits>>

NoAnswer == [ids |-> <<>>, total |-> 0, mode |-> "none", reason |-> "none", reported |-> Nothing,
             dropped |-> 0]
NoQuery == [text |-> <<>>, blank |-> FALSE, explicit |-> Nothing, size |-> 1, tool |-> FALSE,
            ignored |-> {}, page |-> 1]
NoFound == [ids |-> <<>>, total |-> 0]
NoLegs == [semantic |-> FALSE, documents |-> FALSE]
NoIntent == [rejected |-> FALSE, text |-> <<>>, semantic |-> <<>>, language |-> "en",
             taken |-> {}, inferred |-> Nothing]
NoFilters == Resolve(NoIntent, Nothing, {})
Fresh == [ids |-> <<>>, steady |-> TRUE, sources |-> {}]

Init ==
    /\ shop = [p \in Products |->
           [price |-> Opening[p].price, stock |-> Opening[p].stock, archived |-> FALSE]]
    /\ \E start \in Indexed : documents = start[1] /\ embedded = start[2]
    /\ coverage = NoLegs
    /\ pc = "idle" /\ asked = NoQuery
    /\ intent = NoIntent /\ filters = NoFilters /\ vector = "none"
    /\ legs = NoLegs /\ found = NoFound /\ ranked = NoAnswer /\ answer = NoAnswer
    /\ seen = Fresh /\ edits = 0 /\ indexed = 0

-----------------------------------------------------------------------------
(* The catalog and its index.                                              *)

Active == {p \in Products : ~shop[p].archived}

(* IndexCoverage.update, at every round of the index worker. *)
Refresh ==
    /\ LET Enough(S) == Active # {} /\ 100 * Cardinality(S \cap Active) >= Coverage * Cardinality(Active)
       IN coverage' = [semantic |-> Enough(embedded), documents |-> Enough(documents)]
    /\ coverage' # coverage
    /\ seen' = [seen EXCEPT !.steady = FALSE]
    /\ UNCHANGED <<shop, documents, embedded, indexed, request, edits>>

Index == \E p \in Products \ (documents \cap embedded) :
    /\ indexed < MaxIndexed /\ indexed' = indexed + 1
    /\ documents' = documents \cup {p} /\ embedded' = embedded \cup {p}
    /\ seen' = [seen EXCEPT !.steady = FALSE]
    /\ UNCHANGED <<shop, coverage, request, edits>>

Change(p, row) ==
    /\ edits < MaxEdits /\ edits' = edits + 1 /\ row # shop[p]
    /\ shop' = [shop EXCEPT ![p] = row]
    /\ seen' = [seen EXCEPT !.steady = FALSE]
    /\ UNCHANGED <<index, request>>
Edit == \E p \in Products :
    \/ Change(p, [shop[p] EXCEPT !.archived = ~@])
    \/ Change(p, [shop[p] EXCEPT !.stock = 1 - @])
    \/ Change(p, [shop[p] EXCEPT !.price = 2 * @])

-----------------------------------------------------------------------------
(* filtered_products, and the legs over it.                                *)

Meets(p, name, values) ==
    CASE name = "category" -> values = {} \/ Detail[p].category \in values
      [] name = "min_price" -> \A v \in values : shop[p].price >= v
      [] name = "max_price" -> \A v \in values : shop[p].price <= v
      [] name = "in_stock_only" -> TRUE \in values => shop[p].stock > 0
      [] OTHER -> TRUE
Filtered(f) == {p \in Active : /\ \A n \in Names : Meets(p, n, f.by[n])
                               /\ f.origins = {} \/ Detail[p].origin \in f.origins}

Hits(leg, p, s) == Cardinality({i \in DOMAIN s : p \in Brings[leg][s[i]]})
Fuzzy(f, p, s) == Cardinality({leg \in {"name"} \cup (IF f.origins = {} THEN {"place"} ELSE {}) :
                                  \E i \in DOMAIN s : Chars[s[i]] >= 4 /\ p \in Brings[leg][s[i]]})

(* The best n by score, then id; equal scores share a rank. *)
Top(S, Score(_), n) ==
    LET Ahead(q, p) == Score(q) > Score(p) \/ (Score(q) = Score(p) /\ q < p)
        best == {p \in S : Cardinality({q \in S : Ahead(q, p)}) < n}
    IN [p \in best |-> 1 + Cardinality({q \in best : Score(q) > Score(p)})]

Pool(name, use, f) ==
    CASE name = "sem" -> IF use.semantic THEN Filtered(f) \cap embedded ELSE {}
      [] name = "lex" -> IF use.documents THEN Filtered(f) \cap documents ELSE Filtered(f)
      [] name = "trg" -> Filtered(f)
Match(name, use, f, s, p) ==
    CASE name = "sem" -> Hits("semantic", p, s)
      [] name = "lex" -> Hits(IF use.documents THEN "documents" ELSE "catalog", p, s)
      [] name = "trg" -> IF Fuzzy(f, p, s) > 0 THEN 1 ELSE 0
Leg(name, use, f, s) ==
    Top({p \in Pool(name, use, f) : Match(name, use, f, s, p) > 0},
        LAMBDA p : Match(name, use, f, s, p), Candidates[name])

(* Reciprocal rank fusion, in units of 1 / Scale. *)
Scale == FoldSet(LAMBDA i, n : n * (K + i), 1, Products)
Fuse(of) ==
    [p \in UNION {DOMAIN of[name] : name \in DOMAIN of} |->
        MapThenSumSet(LAMBDA name : Weights[name] * (Scale \div (K + of[name][p])),
                      {name \in DOMAIN of : p \in DOMAIN of[name]})]
Fused(use, f, s) ==
    RestrictValues(Fuse([name \in {"sem", "lex", "trg"} |-> Leg(name, use, f, s)]),
                   LAMBDA score : score >= Floor)

(* What has a key, in order of the keys, which are tuples: the largest first. *)
Above(a, b) == \E i \in DOMAIN a : a[i] > b[i] /\ \A j \in 1..(i - 1) : a[j] = b[j]
Ordered(key) ==
    [i \in 1..Cardinality(DOMAIN key) |->
        CHOOSE p \in DOMAIN key : Cardinality({q \in DOMAIN key : Above(key[q], key[p])}) = i - 1]
(* The rows that are in S, in their order. *)
Only(rows, S) ==
    LET place == Ordered([i \in {i \in DOMAIN rows : rows[i] \in S} |-> <<-i>>])
    IN [k \in DOMAIN place |-> rows[place[k]]]
PageOfOverlapping(rows) ==    \* mutant
    SubSeq(rows, (asked.page - 1) * (asked.size - 1) + 1, Min({asked.page * asked.size, Len(rows)}))
PageOf(rows) ==
    SubSeq(rows, (asked.page - 1) * asked.size + 1, Min({asked.page * asked.size, Len(rows)}))

SortKey(sort, p) ==
    CASE sort = "price_asc"  -> <<-shop[p].price, -p>>
      [] sort = "price_desc" -> <<shop[p].price, -p>>
      [] sort = "rating"     -> <<Detail[p].rating, Detail[p].reviews, -p>>
      [] OTHER               -> <<Detail[p].created, p>>
One(condition) == IF condition THEN 1 ELSE 0
Relevance(text, score, p) ==
    <<score[p], One(Labels[Detail[p].category] = text) + One(Labels[Detail[p].origin] = text),
      One(shop[p].stock > 0), Detail[p].rating, Detail[p].reviews, -p>>
SortBy(f) == CHOOSE k \in f.by["sort"] : TRUE
RowsOf(score, f, text) ==
    Ordered([p \in DOMAIN score |->
        <<One(Detail[p].name = text)>> \o
        (IF SortBy(f) = "relevance" THEN Relevance(text, score, p) ELSE SortKey(SortBy(f), p))])
FusedRows(use, f, text, s) == RowsOf(Fused(use, f, s), f, text)
BrowseRows(f) == Ordered([p \in Filtered(f) |-> SortKey(SortBy(f), p)])

-----------------------------------------------------------------------------
(* The request.                                                            *)

Goto(step) == pc' = step
Local == UNCHANGED <<shop, index, edits>>

Route(q) ==
    /\ asked' = q
    /\ Goto(IF IF q.tool THEN q.text # <<>> \/ q.blank ELSE Routing /\ q.text # <<>>
            THEN "parse" ELSE "lexical")
    /\ intent' = NoIntent /\ filters' = NoFilters
    /\ vector' = "none" /\ legs' = NoLegs /\ found' = NoFound /\ ranked' = NoAnswer /\ answer' = NoAnswer
    /\ Local

Ask ==
    /\ pc \in {"idle", "shown"}
    /\ \E q \in Queries : Route([NoQuery EXCEPT !.text = q.text, !.blank = q.blank, !.explicit = q.explicit,
                                               !.size = q.size, !.tool = q.tool])
    /\ seen' = Fresh
NextPage ==
    /\ pc = "shown" /\ asked.page * asked.size < answer.total
    /\ Route([asked EXCEPT !.page = @ + 1])
    /\ UNCHANGED seen
Dismiss == \E n \in Names :
    /\ pc = "shown" /\ ~asked.tool /\ answer.reported[n] # {}
    /\ Route([asked EXCEPT !.ignored = @ \cup {n}, !.page = 1])
    /\ seen' = Fresh

Tell(source, a) ==
    /\ answer' = a
    /\ seen' = [seen EXCEPT !.ids = @ \o a.ids, !.sources = @ \cup {<<source, legs>>}]
    /\ Goto("shown")

(* A contradiction is told; it is not an outage. *)
Settle(parsed, resolved) ==
    /\ intent' = parsed /\ filters' = resolved
    /\ IF parsed.rejected \/ resolved.rejected
       THEN Tell("ai", [NoAnswer EXCEPT !.mode = "rejected"])
       ELSE Goto("embed") /\ UNCHANGED <<answer, seen>>
Heard(parsed) == Settle(parsed, Resolve(parsed, asked.explicit, asked.ignored))
Understand ==
    /\ pc = "parse"
    /\ Heard(Parse(asked.text))
    /\ Local /\ UNCHANGED <<asked, vector, legs, found, ranked>>

Embed ==
    /\ pc = "embed"
    /\ vector' \in IF Smart /\ intent.semantic # <<>> THEN {"there", "failed"} ELSE {"none"}
    /\ Goto(IF intent.semantic = <<>> THEN "browse" ELSE "count")
    /\ Local /\ UNCHANGED <<asked, intent, filters, legs, found, ranked, answer, seen>>

(* _fused counts the eligible products, and lists a page of them in another  *)
(* statement; without any it lists what the filters leave, if there are some.*)
Counted(total) ==
    /\ found' = [ids |-> <<>>, total |-> total]
    /\ Goto(CASE total > 0 -> "page"
              [] total = 0 /\ HasFilters(filters) -> "browse"
              [] total = 0 /\ ~HasFilters(filters) -> "rank")
Count ==
    /\ pc = "count"
    /\ legs' = [semantic |-> vector = "there" /\ coverage.semantic, documents |-> coverage.documents]
    /\ Counted(Cardinality(DOMAIN Fused(legs', filters, intent.semantic)))
    /\ Local /\ UNCHANGED <<asked, intent, filters, vector, ranked, answer, seen>>
List ==
    /\ pc = "page"
    /\ found' = [found EXCEPT !.ids =
           PageOf(FusedRows(legs, filters, intent.text, intent.semantic))]
    /\ Goto("rank")
    /\ Local /\ UNCHANGED <<asked, intent, filters, vector, legs, ranked, answer, seen>>
Browse ==
    /\ pc = "browse"
    /\ found' = [found EXCEPT !.total = Cardinality(Filtered(filters))]
    /\ Goto("browse_page")
    /\ Local /\ UNCHANGED <<asked, intent, filters, vector, legs, ranked, answer, seen>>
BrowsePage ==
    /\ pc = "browse_page"
    /\ found' = [found EXCEPT !.ids = PageOf(BrowseRows(filters))]
    /\ Goto("rank")
    /\ Local /\ UNCHANGED <<asked, intent, filters, vector, legs, ranked, answer, seen>>

(* The reranker scores the first TopK and orders them by score, or leaves    *)
(* the order as it is; "unscored" stands for the candidates behind them.     *)
Unscored == -1
HeadOf(ids) == SubSeq(ids, 1, Min({TopK, Len(ids)}))
Turns(scores) == Ordered([i \in DOMAIN scores |-> <<scores[i], -i>>])
ByScore(ids, scores) ==
    LET turn == Turns(scores)
    IN [i \in DOMAIN ids |-> IF i \in DOMAIN turn THEN ids[turn[i]] ELSE ids[i]]
ScoresInOrder(ids, scores) ==
    LET turn == Turns(scores)
    IN [i \in DOMAIN ids |-> IF i \in DOMAIN turn THEN scores[turn[i]] ELSE Unscored]

(* apply_cutoff: the order is kept up to the first score that falls short. *)
Cut(ids, scores) ==
    LET floor == MinScore[intent.language]
        Short(i) == \/ scores[i] = Unscored \/ scores[i] < floor
                    \/ i > 1 /\ 100 * scores[i] < scores[i - 1] * Gap
        shorts == {i \in DOMAIN ids : Short(i)}
    IN IF shorts = {} \/ (floor = 0 /\ Gap = 0) THEN ids ELSE SubSeq(ids, 1, Min(shorts) - 1)

Mode(reranked) ==
    CASE intent.text = <<>> -> "browse"
      [] intent.text # <<>> /\ intent.semantic = <<>> -> "filters_only"
      [] intent.semantic # <<>> /\ ~legs.semantic -> "lexical"
      [] intent.semantic # <<>> /\ legs.semantic -> IF reranked THEN "hybrid_reranked" ELSE "hybrid"
Reason(mode, outcome) ==
    CASE mode = "lexical" -> IF ~Smart THEN "feature_disabled"
                             ELSE IF vector = "failed" THEN "embedding_unavailable" ELSE "index_incomplete"
      [] mode = "hybrid" /\ outcome = "unavailable" -> "reranker_unavailable"
      [] OTHER -> "none"

(* The cut is made in the reranker's order; another order is then restored.  *)
Answered(outcome, ids, scores) ==
    LET kept == IF scores = <<>> THEN ids ELSE Cut(ids, scores)
        byRelevance == SortBy(filters) = "relevance"
        order == IF byRelevance THEN kept ELSE Only(found.ids, Range(kept))
        dropped == Len(ids) - Len(kept)
        mode == Mode(outcome = "applied" /\ byRelevance)
    IN [ids |-> order, mode |-> mode, reason |-> Reason(mode, outcome), reported |-> filters.reported,
        total |-> IF dropped > 0 THEN (asked.page - 1) * asked.size + Len(kept) ELSE found.total,
        dropped |-> dropped]

Rank ==
    /\ pc = "rank"
    /\ LET ids == found.ids
           texts == Range(ids) \subseteq documents    \* a page without all its texts is not sent
       IN \/ \E outcome \in {"skipped"} \cup (IF texts THEN {"unavailable"} ELSE {}) :
                 ranked' = Answered(outcome, ids, <<>>)
          \/ /\ texts /\ Len(HeadOf(ids)) >= 2
             /\ \E scores \in [DOMAIN HeadOf(ids) -> Scores] :
                    ranked' = Answered("applied", ByScore(ids, scores), ScoresInOrder(ids, scores))
    /\ Goto("hydrate")
    /\ Local /\ UNCHANGED <<asked, intent, filters, vector, legs, found, answer, seen>>

(* list_by_ids: what is archived by now is left out, the order stays. *)
HydratedAll(ids) == ids    \* mutant
Hydrated(ids) == Only(ids, Active)
Hydrate ==
    /\ pc = "hydrate"
    /\ Tell("ai", [ranked EXCEPT !.ids = Hydrated(@)])
    /\ Local /\ UNCHANGED <<asked, intent, filters, vector, legs, found, ranked>>

-----------------------------------------------------------------------------
(* The store's own search: every word must match.                          *)

(* The page is then served by the store; the assistant is told of the error. *)
Unreachable ==
    /\ pc \in {"parse", "embed", "count", "page", "browse", "browse_page", "rank"}
    /\ IF asked.tool THEN Tell("ai", [NoAnswer EXCEPT !.mode = "failed"])
                     ELSE Goto("lexical") /\ UNCHANGED <<answer, seen>>
    /\ vector' = "unreachable" /\ found' = NoFound /\ legs' = NoLegs
    /\ Local /\ UNCHANGED <<asked, intent, filters, ranked>>

Content == Range(asked.text) \ Stopwords
StoreMatches(p) ==
    /\ p \in Active
    /\ ~asked.blank
    /\ asked.text # <<>> => Content # {} /\ \A w \in Content : p \in Brings["catalog"][w]
    /\ \A n \in Names : Meets(p, n, asked.explicit[n])
    /\ asked.explicit["origin"] = {} \/ Detail[p].origin \in asked.explicit["origin"]
StoreSort ==
    CASE asked.explicit["sort"] # {} -> CHOOSE k \in asked.explicit["sort"] : TRUE
      [] asked.explicit["sort"] = {} /\ asked.text # <<>> -> "relevance"
      [] asked.explicit["sort"] = {} /\ asked.text = <<>> -> "newest"
StoreKey(p) ==
    CASE StoreSort = "relevance" -> <<Hits("catalog", p, asked.text), -p>>
      [] StoreSort = "price_desc" /\ ~asked.tool -> <<shop[p].price, p>>
      [] StoreSort = "rating" /\ ~asked.tool -> <<Detail[p].rating, Detail[p].reviews, p>>
      [] OTHER -> SortKey(StoreSort, p)
StoreRows == Ordered([p \in {p \in Products : StoreMatches(p)} |-> StoreKey(p)])
StoreCounts ==
    /\ pc = "lexical"
    /\ found' = [ids |-> <<>>, total |-> Cardinality({p \in Products : StoreMatches(p)})]
    /\ Goto("lexical_page")
    /\ Local /\ UNCHANGED <<asked, intent, filters, vector, legs, ranked, answer, seen>>
StoreLists ==
    /\ pc = "lexical_page"
    /\ Tell("store", [NoAnswer EXCEPT
           !.ids = PageOf(StoreRows),
           !.total = found.total,
           !.mode = IF asked.text = <<>> THEN "browse" ELSE "lexical",
           !.reason = IF vector = "unreachable" THEN "search_unavailable" ELSE "none"])
    /\ Local /\ UNCHANGED <<asked, intent, filters, vector, legs, found, ranked>>

Next == Ask \/ NextPage \/ Dismiss \/ Understand \/ Embed \/ Count \/ List \/ Browse \/ BrowsePage
        \/ Rank \/ Hydrate \/ Unreachable \/ StoreCounts \/ StoreLists \/ Refresh \/ Index \/ Edit
Spec == Init /\ [][Next]_vars
-----------------------------------------------------------------------------
(* Properties.                                                             *)

(* Reading a text loses no word of it (IntentParser.parse, _strip): no word  *)
(* is read as two things, what is not read as a price, an availability or an *)
(* order is still searched for, and in its order; an amount right before a   *)
(* foreign currency that fits the window is not read as a price.             *)
NothingLost == pc = "embed" =>
    LET t == intent.text
        Read(i) == {s \in intent.taken : i \in s.from..(s.to - 1)}
        left == {i \in DOMAIN t : Read(i) = {}}
    IN /\ \A i \in DOMAIN t : Cardinality(Read(i)) <= 1
       /\ intent.semantic = [k \in 1..Cardinality(left) |->
              t[CHOOSE i \in left : Cardinality({j \in left : j <= i}) = k]]
       /\ \A i \in DOMAIN t, phrase \in Foreign :
              t[i] \in DOMAIN Amount /\ i + 1 \in Verbatim(t, phrase) /\ Letters(phrase) < Window
              => Read(i) = {}

(* No filter acts in silence (resolve_filters, SearchRepository): at every   *)
(* statement of a retrieval, what is counted or listed is on sale and meets  *)
(* what the shopper chose and, where nothing was chosen, what the answer will*)
(* report as read from the text; what was waved away is not reported, and a  *)
(* product that meets all this and matches the words is counted.             *)
Promised(p) ==
    LET Said(n) == IF asked.explicit[n] # {} THEN asked.explicit[n] ELSE filters.reported[n]
        origins == UNION {OriginsFor(k) : k \in Said("origin")}
    IN /\ p \in Active
       /\ Said("category") # {} => Detail[p].category \in Said("category")
       /\ origins # {} => Detail[p].origin \in origins
       /\ \A v \in Said("min_price") : shop[p].price >= v
       /\ \A v \in Said("max_price") : shop[p].price <= v
       /\ TRUE \in Said("in_stock_only") => shop[p].stock > 0
Matched(use, p) ==
    \/ use.semantic /\ p \in embedded /\ Hits("semantic", p, intent.semantic) > 0
    \/ use.documents /\ p \in documents /\ Hits("documents", p, intent.semantic) > 0
    \/ ~use.documents /\ Hits("catalog", p, intent.semantic) > 0
Right == {p \in Products : Promised(p)}
Retrieving == pc \in {"count", "page", "browse", "browse_page"} /\ vector' # "unreachable" /\ pc' # pc
OnlyPromised == Retrieving =>
    /\ \A n \in asked.ignored : filters.reported[n] = {}
    /\ Range(found'.ids) \subseteq Right
    /\ pc = "count" => found'.total <= Cardinality(Right)
    /\ pc = "browse" => found'.total = Cardinality(Right)
NoneMissed == Retrieving /\ pc = "count" =>
    found'.total >= Cardinality({p \in Right : Matched(legs', p)})
FiltersHonoured == [][OnlyPromised /\ NoneMissed]_vars

(* Turning pages (the LIMIT and OFFSET of both services, the fallback, the   *)
(* cutoff): while nothing changes and the same source answers, no product is *)
(* shown twice, and who reaches the last page has seen all that was counted. *)
PagesOnce == pc = "shown" /\ answer.mode \notin {"rejected", "failed"} /\ seen.steady /\ Cardinality(seen.sources) = 1 =>
    /\ IsInjective(seen.ids)
    /\ asked.page * asked.size >= answer.total /\ answer.dropped = 0 => Len(seen.ids) = answer.total

(* What is shown is what it says (catalog_search_service, _classify): nothing*)
(* archived; "hybrid" only if vectors were compared; plain word search is not*)
(* called normal where the AI service is to be asked; and a chosen order is  *)
(* not undone by the reranker or the hydration, the product of that very name*)
(* apart.                                                                    *)
Shown ==
    pc # "shown" /\ pc' = "shown" /\ answer'.mode \notin {"rejected", "failed"} =>
        LET sort == Chosen(asked.explicit, answer'.reported)["sort"]
            rows == Only(answer'.ids, {p \in Products : Detail[p].name # asked.text})
        IN /\ Range(answer'.ids) \subseteq Active
           /\ answer'.mode \in {"hybrid", "hybrid_reranked"} => vector = "there" /\ legs.semantic
           /\ answer'.mode = "lexical" /\ answer'.reason = "none" => ~Routing
           /\ seen.steady => \A i, j \in DOMAIN rows : i < j =>
                  /\ "price_asc" \in sort => shop[rows[i]].price <= shop[rows[j]].price
                  /\ "price_desc" \in sort => shop[rows[i]].price >= shop[rows[j]].price
AnswerTrue == [][Shown]_vars
=============================================================================
