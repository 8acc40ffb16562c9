---------------------------- MODULE SearchProofs ----------------------------
(***************************************************************************)
(* Proofs about Search for any searches, queries, texts, chains of         *)
(* providers and limits: its types, that a query vector stays with the     *)
(* column of its maker, that a cached order belongs to the texts of its    *)
(* page, that a spent allowance is respected and a failing provider left   *)
(* alone.                                                                  *)
(***************************************************************************)
EXTENDS Search, SequenceTheorems, TLAPS

Steps == {"idle", "lookup", "embed", "embedding", "retrieve", "rank", "rerank", "reranking", "answer"}
PageType == [size : {"none", "undocumented", "single", "many"}, text : Texts \cup {None}]
RankType == [outcome : {"none", "skipped", "applied", "unavailable"}, text : Texts \cup {None}]
EntryType == [key : KeyType, text : Texts, left : 0..RankTTL]

\* One search's part of the state is well typed.
SearchTypes ==
  /\ shown \in [Requests -> {"none", "waiting", "ranked", "lexical"}]
  /\ pc \in [Requests -> Steps]
  /\ query \in [Requests -> Queries \cup {None}]
  /\ turn \in [Requests -> Nat]
  /\ tries \in [Requests -> 0..MaxAttempts]
  /\ vector \in [Requests -> VectorType]
  /\ page \in [Requests -> PageType]
  /\ rank \in [Requests -> RankType]

\* How far a search has come says where in its chain it is, and what it has.
PositionOf(r) ==
  /\ turn[r] \in (IF pc[r] \in {"embed", "embedding"} THEN 1..Len(Embedders)
                  ELSE IF pc[r] \in {"rerank", "reranking", "answer"} THEN 1..Len(Rerankers) ELSE {1})
  /\ pc[r] # "idle" => query[r] \in Queries
  /\ pc[r] \in {"rank", "rerank", "reranking"} =>
       page[r].text \in Texts /\ page[r].size \in {"undocumented", "single", "many"}
  /\ pc[r] \in {"rerank", "reranking"} => page[r].size # "undocumented"
Position == \A r \in Requests : PositionOf(r)

BreakerTypes == breaker \in [Providers -> BreakerType]

TableTypes ==
  /\ row \in [Queries -> [by : Range(Embedders) \cup {None}, left : 0..QueryTTL]]
  /\ entries \in Seq(EntryType) /\ Len(entries) <= MaxEntries
  /\ text \in Texts

HistoryTypes ==
  /\ run \in [Range(Embedders) -> 0..Threshold]
  /\ rest \in [Providers -> 0..Reset \cup 0..Quota]

BudgetType == [searches : 0..MaxSearches, failures : 0..MaxFailures, edits : 0..MaxEdits]

Types ==
  /\ SearchTypes /\ Position
  /\ BreakerTypes /\ TableTypes /\ HistoryTypes
  /\ budget \in BudgetType

-----------------------------------------------------------------------------
(* What the definitions are built from.                                    *)

LEMMA Limits ==
  /\ Threshold \in Nat \ {0} /\ MaxAttempts \in Nat \ {0} /\ Reset \in Nat \ {0} /\ Quota \in Nat \ {0}
  /\ QueryTTL \in Nat \ {0} /\ RankTTL \in Nat \ {0} /\ MaxEntries \in Nat \ {0}
  /\ MaxSearches \in Nat /\ MaxFailures \in Nat /\ MaxEdits \in Nat
BY SearchAssumption DEF SearchAssumption

LEMMA Chains ==
  /\ Len(Embedders) \in Nat \ {0} /\ Len(Rerankers) \in Nat \ {0}
  /\ \A i \in 1..Len(Embedders) : Embedders[i] \in Range(Embedders)
  /\ \A i \in 1..Len(Rerankers) : Rerankers[i] \in Range(Rerankers)
  /\ Primary \in Range(Embedders)
<1>1. ASSUME NEW s, s \in Seq(Range(s)), s # <<>>
      PROVE  Len(s) \in Nat \ {0} /\ (\A i \in 1..Len(s) : s[i] \in Range(s)) /\ Head(s) = s[1]
  BY <1>1
<1>. QED
  BY <1>1, SearchAssumption DEF SearchAssumption, Primary

LEMMA NextTurns ==
  ASSUME NEW chain, Len(chain) \in Nat \ {0}, NEW i \in 1..Len(chain)
  PROVE  NextTurn(chain, i) = 0 \/ NextTurn(chain, i) \in 1..Len(chain)
BY DEF NextTurn

LEMMA LeastOfTwo ==
  ASSUME NEW i \in Nat, NEW j \in Nat
  PROVE  Least(i, j) \in 0..j
BY DEF Least

LEMMA Breakers ==
  /\ Closed \in BreakerType
  /\ \A c \in BreakerType : Counted(c) \in BreakerType /\ OpenedFor(c) \in BreakerType
<1>. USE SearchAssumption DEF SearchAssumption, BreakerType
<1>1. Closed \in BreakerType
  BY DEF Closed
<1>2. ASSUME NEW c \in BreakerType
      PROVE  Counted(c) \in BreakerType
  <2>1. Least(c.failures + 1, Threshold) \in 0..Threshold
    <3>1. c.failures + 1 \in Nat /\ Threshold \in Nat
      OBVIOUS
    <3>. QED
      BY <3>1, LeastOfTwo
  <2>2. c.span \in 0..Reset \cup 0..Quota
    OBVIOUS
  <2>. QED
    BY <2>1, <2>2 DEF Counted
<1>3. ASSUME NEW c \in BreakerType
      PROVE  OpenedFor(c) \in BreakerType
  BY DEF OpenedFor
<1>. QED
  BY <1>1, <1>2, <1>3

LEMMA SpendTypes ==
  ASSUME budget \in BudgetType,
         \/ Spend("searches", MaxSearches)
         \/ Spend("failures", MaxFailures)
         \/ Spend("edits", MaxEdits)
  PROVE  budget' \in BudgetType
<1>. USE Limits DEF Spend, BudgetType
<1>1. CASE Spend("searches", MaxSearches)
  BY <1>1
<1>2. CASE Spend("failures", MaxFailures)
  BY <1>2
<1>3. CASE Spend("edits", MaxEdits)
  BY <1>3
<1>. QED
  BY <1>1, <1>2, <1>3

\* The entries of other keys are entries, and one fewer if this key has one.
LEMMA OthersTypes ==
  ASSUME NEW E, entries \in Seq(E), NEW r \in Requests
  PROVE  /\ Others(r) \in Seq(E)
         /\ Len(Others(r)) <= Len(entries)
         /\ Places(r) # {} => Len(Others(r)) = Len(entries) - 1
<1>1. CASE Places(r) = {}
  BY <1>1 DEF Others
<1>2. CASE Places(r) # {}
  <2>1. PICK at \in 1..Len(entries) : Others(r) = RemoveAt(entries, at)
    BY <1>2 DEF Others, Places
  <2>2. PICK before : before = SubSeq(entries, 1, at - 1)
    OBVIOUS
  <2>3. PICK after : after = SubSeq(entries, at + 1, Len(entries))
    OBVIOUS
  <2>4. before \in Seq(E) /\ Len(before) = at - 1
    BY <2>2, SubSeqProperties
  <2>5. after \in Seq(E) /\ Len(after) = Len(entries) - at
    BY <2>3, SubSeqProperties
  <2>6. before \o after \in Seq(E) /\ Len(before \o after) = Len(before) + Len(after)
    BY <2>4, <2>5, ConcatProperties, Zenon
  <2>7. Others(r) = before \o after
    BY <2>1, <2>2, <2>3, Zenon DEF RemoveAt
  <2>8. ASSUME NEW n, n = Len(before \o after)
        PROVE  n = Len(entries) - 1 /\ n <= Len(entries)
    <3>1. n = (at - 1) + (Len(entries) - at)
      BY <2>4, <2>5, <2>6, <2>8, Zenon
    <3>2. Len(entries) \in Nat
      BY LenProperties
    <3>. QED
      BY <3>1, <3>2
  <2>. QED
    BY <2>6, <2>7, <2>8, Zenon
<1>. QED
  BY <1>1, <1>2

\* A new order in the cache: the oldest goes when there is no room.
LEMMA PutTypes ==
  ASSUME NEW E, entries \in Seq(E), Len(entries) <= MaxEntries, NEW r \in Requests, Put(r),
         [key |-> Key(r), text |-> page[r].text, left |-> RankTTL] \in E
  PROVE  entries' \in Seq(E) /\ Len(entries') <= MaxEntries
<1>. DEFINE all == Append(Others(r), [key |-> Key(r), text |-> page[r].text, left |-> RankTTL])
<1>1. Others(r) \in Seq(E) /\ Len(Others(r)) <= Len(entries)
  BY OthersTypes
<1>2. all \in Seq(E) /\ Len(all) = Len(Others(r)) + 1 /\ all # <<>>
  BY <1>1, AppendProperties
<1>3. Tail(all) \in Seq(E) /\ Len(Tail(all)) = Len(all) - 1
  BY <1>2, HeadTailProperties
<1>. QED
  BY <1>1, <1>2, <1>3, LenProperties, SearchAssumption DEF SearchAssumption, Put

\* Taking a cached order moves it to the end.
LEMMA TakeTypes ==
  ASSUME NEW E, entries \in Seq(E), NEW r \in Requests, NEW i \in Live(r)
  PROVE  /\ Append(Others(r), entries[i]) \in Seq(E)
         /\ Len(Append(Others(r), entries[i])) = Len(entries)
         /\ entries[i] \in E
<1>1. Places(r) # {} /\ i \in 1..Len(entries)
  BY DEF Live, Places
<1>2. Others(r) \in Seq(E) /\ Len(Others(r)) = Len(entries) - 1
  BY <1>1, OthersTypes
<1>3. entries[i] \in E
  BY <1>1, ElementOfSeq
<1>. QED
  BY <1>2, <1>3, AppendProperties

-----------------------------------------------------------------------------
(* Types.                                                                  *)

LEMMA InitTypes == Init => Types
<1>. SUFFICES ASSUME Init PROVE Types
  OBVIOUS
<1>1. SearchTypes
  BY Limits DEF Init, SearchTypes, Steps, VectorType, PageType, RankType, NoVector, NoPage, NoRank
<1>2. Position
  BY DEF Init, Position, PositionOf
<1>3. BreakerTypes
  BY Breakers DEF Init, BreakerTypes
<1>4. TableTypes
  <2>1. NoRow \in [by : Range(Embedders) \cup {None}, left : 0..QueryTTL]
    BY Limits DEF NoRow
  <2>2. entries \in Seq(EntryType) /\ Len(entries) <= MaxEntries
    BY Limits, EmptySeq DEF Init
  <2>. QED
    BY <2>1, <2>2, SearchAssumption DEF SearchAssumption, Init, TableTypes
<1>5. HistoryTypes
  BY Limits DEF Init, HistoryTypes
<1>6. budget \in BudgetType
  BY Limits DEF Init, BudgetType
<1>. QED
  BY <1>1, <1>2, <1>3, <1>4, <1>5, <1>6 DEF Types

\* The others stay where they are.
LEMMA Moves ==
  ASSUME Position, NEW r \in Requests, PositionOf(r)',
         \A q \in Requests \ {r} :
           /\ pc'[q] = pc[q] /\ turn'[q] = turn[q]
           /\ query'[q] = query[q] /\ page'[q] = page[q]
  PROVE  Position'
BY DEF Position, PositionOf

\* The end of a search.
LEMMA ReplyTypes ==
  ASSUME SearchTypes, Position, NEW r \in Requests,
         NEW what \in {"ranked", "lexical"}, Reply(r, what)
  PROVE  SearchTypes' /\ Position'
<1>1. SearchTypes'
  BY Limits DEF SearchTypes, Steps, VectorType, PageType, RankType, NoVector, NoPage, NoRank, Reply, Goto
<1>2. PositionOf(r)'
  BY DEF SearchTypes, PositionOf, Reply, Goto
<1>3. Position'
  BY <1>2, Moves DEF SearchTypes, Reply, Goto
<1>. QED
  BY <1>1, <1>3

LEMMA PassEmbedTypes ==
  ASSUME SearchTypes, Position, NEW r \in Requests, pc[r] \in {"embed", "embedding"}, PassEmbed(r),
         UNCHANGED <<shown, query, vector, page, rank>>
  PROVE  SearchTypes' /\ Position'
<1>1. turn[r] \in 1..Len(Embedders)
  BY DEF Position, PositionOf
<1>2. NextTurn(Embedders, turn[r]) = 0 \/ NextTurn(Embedders, turn[r]) \in 1..Len(Embedders)
  BY <1>1, Chains, NextTurns
<1>3. SearchTypes'
  BY <1>2, Chains, Limits DEF SearchTypes, Steps, PassEmbed, Goto
<1>4. PositionOf(r)'
  BY <1>2, Chains DEF SearchTypes, Position, PositionOf, PassEmbed, Goto
<1>5. Position'
  BY <1>4, Moves DEF SearchTypes, PassEmbed, Goto
<1>. QED
  BY <1>3, <1>5

LEMMA PassRerankTypes ==
  ASSUME SearchTypes, Position, NEW r \in Requests, pc[r] \in {"rerank", "reranking"}, PassRerank(r),
         UNCHANGED <<shown, query, tries, vector, page>>
  PROVE  SearchTypes' /\ Position'
<1>1. turn[r] \in 1..Len(Rerankers)
  BY DEF Position, PositionOf
<1>2. NextTurn(Rerankers, turn[r]) = 0 \/ NextTurn(Rerankers, turn[r]) \in 1..Len(Rerankers)
  BY <1>1, Chains, NextTurns
<1>3. SearchTypes'
  <2>1. CASE NextTurn(Rerankers, turn[r]) = 0
    <3>1. /\ turn' = [turn EXCEPT ![r] = 1]
          /\ pc' = [pc EXCEPT ![r] = "answer"]
          /\ rank' = [rank EXCEPT ![r] = [outcome |-> "unavailable", text |-> None]]
      BY <2>1 DEF PassRerank, Ranked, Goto
    <3>2. [outcome |-> "unavailable", text |-> None] \in RankType
      BY DEF RankType
    <3>. QED
      BY <3>1, <3>2 DEF SearchTypes, Steps
  <2>2. CASE NextTurn(Rerankers, turn[r]) \in 1..Len(Rerankers)
    <3>1. NextTurn(Rerankers, turn[r]) # 0 /\ NextTurn(Rerankers, turn[r]) \in Nat
      BY <2>2, Chains
    <3>2. /\ turn' = [turn EXCEPT ![r] = NextTurn(Rerankers, turn[r])]
          /\ pc' = [pc EXCEPT ![r] = "rerank"]
          /\ rank' = rank
      BY <3>1 DEF PassRerank, Goto
    <3>. QED
      BY <3>1, <3>2 DEF SearchTypes, Steps
  <2>. QED
    BY <1>2, <2>1, <2>2
<1>4. PositionOf(r)'
  BY <1>2, Chains DEF SearchTypes, Position, PositionOf, PassRerank, Ranked, Goto
<1>5. Position'
  BY <1>4, Moves DEF SearchTypes, PassRerank, Ranked, Goto
<1>. QED
  BY <1>3, <1>5

LEMMA WebTypes ==
  ASSUME Types, NEW r \in Requests,
         Begin(r) \/ GatewayTimeout(r) \/ Answer(r) \/ Error(r)
  PROVE  Types'
<1>. USE DEF Types
<1>1. CASE Begin(r)
  <2>1. SearchTypes'
    BY <1>1 DEF Begin, SearchTypes, Steps, Goto
  <2>2. PositionOf(r)'
    BY <1>1 DEF Begin, SearchTypes, Position, PositionOf, Goto
  <2>3. Position'
    BY <1>1, <2>2, Moves DEF Begin, SearchTypes, Goto
  <2>4. budget' \in BudgetType
    BY <1>1, SpendTypes DEF Begin
  <2>. QED
    BY <1>1, <2>1, <2>3, <2>4 DEF Begin, BreakerTypes, TableTypes, HistoryTypes, history
<1>2. CASE GatewayTimeout(r)
  BY <1>2 DEF GatewayTimeout, SearchTypes, Position, PositionOf, BreakerTypes, TableTypes,
              HistoryTypes, history, search
<1>3. CASE Answer(r)
  <2>1. SearchTypes' /\ Position'
    BY <1>3, ReplyTypes DEF Answer
  <2>. QED
    BY <1>3, <2>1 DEF Answer, BreakerTypes, TableTypes, HistoryTypes, history
<1>4. CASE Error(r)
  <2>1. SearchTypes' /\ Position'
    BY <1>4, ReplyTypes DEF Error
  <2>2. budget' \in BudgetType
    BY <1>4, SpendTypes DEF Error
  <2>. QED
    BY <1>4, <2>1, <2>2 DEF Error, BreakerTypes, TableTypes, HistoryTypes, history
<1>. QED
  BY <1>1, <1>2, <1>3, <1>4

LEMMA BreakerStays ==
  ASSUME BreakerTypes, NEW p \in Providers,
         \/ RecordSuccess(p)
         \/ breaker' = [breaker EXCEPT ![p] = Counted(@)]
         \/ breaker' = [breaker EXCEPT ![p] = OpenedFor(@)]
  PROVE  BreakerTypes'
BY Breakers DEF BreakerTypes, RecordSuccess

LEMMA EmbedTypes ==
  ASSUME Types, NEW r \in Requests,
         Lookup(r) \/ CallEmbedder(r) \/ EmbedderAnswers(r) \/ RetryEmbedder(r) \/ EmbedderFails(r)
  PROVE  Types'
<1>. USE DEF Types
<1>1. CASE Lookup(r)
  <2>1. query[r] \in Queries
    BY <1>1 DEF Lookup, Position, PositionOf
  <2>2. [by |-> row[query[r]].by, slot |-> Primary] \in VectorType
    BY <2>1, Chains DEF VectorType, TableTypes
  <2>3. SearchTypes'
    BY <1>1, <2>2 DEF Lookup, SearchTypes, Steps, Goto
  <2>4. PositionOf(r)'
    <3>1. turn[r] = 1 /\ 1 \in 1..Len(Embedders)
      BY <1>1, Chains DEF Lookup, Position, PositionOf
    <3>2. pc'[r] \in {"embed", "retrieve"} /\ turn' = turn /\ query' = query
      BY <1>1 DEF Lookup, SearchTypes, Goto
    <3>. QED
      BY <2>1, <3>1, <3>2 DEF PositionOf
  <2>5. Position'
    BY <1>1, <2>4, Moves DEF Lookup, SearchTypes, Goto
  <2>. QED
    BY <1>1, <2>3, <2>5 DEF Lookup, BreakerTypes, TableTypes, HistoryTypes, history
<1>2. CASE CallEmbedder(r)
  <2>1. SearchTypes' /\ Position'
    <3>1. CASE PassEmbed(r)
      BY <1>2, <3>1, PassEmbedTypes DEF CallEmbedder
    <3>2. CASE tries' = [tries EXCEPT ![r] = 1] /\ Goto(r, "embedding") /\ UNCHANGED turn
      <4>1. SearchTypes'
        BY <1>2, <3>2, Limits DEF CallEmbedder, SearchTypes, Steps, Goto
      <4>2. PositionOf(r)'
        BY <1>2, <3>2 DEF CallEmbedder, SearchTypes, Position, PositionOf, Goto
      <4>. QED
        BY <1>2, <3>2, <4>1, <4>2, Moves DEF CallEmbedder, SearchTypes, Goto
    <3>. QED
      BY <1>2, <3>1, <3>2 DEF CallEmbedder
  <2>. QED
    BY <1>2, <2>1 DEF CallEmbedder, BreakerTypes, TableTypes, HistoryTypes, history
<1>3. CASE EmbedderAnswers(r)
  <2>. DEFINE p == Embedders[turn[r]]
  <2>1. p \in Range(Embedders)
    BY <1>3, Chains DEF EmbedderAnswers, Position, PositionOf
  <2>2. SearchTypes'
    BY <1>3, <2>1 DEF EmbedderAnswers, SearchTypes, Steps, VectorType, Goto
  <2>3. PositionOf(r)'
    BY <1>3 DEF EmbedderAnswers, SearchTypes, Position, PositionOf, Goto
  <2>4. Position'
    BY <1>3, <2>3, Moves DEF EmbedderAnswers, SearchTypes, Goto
  <2>5. BreakerTypes'
    BY <1>3, <2>1, BreakerStays DEF EmbedderAnswers, Providers
  <2>6. HistoryTypes'
    BY <1>3, <2>1, Limits DEF EmbedderAnswers, HistoryTypes, Providers
  <2>. QED
    BY <1>3, <2>2, <2>4, <2>5, <2>6 DEF EmbedderAnswers, TableTypes
<1>4. CASE RetryEmbedder(r)
  <2>1. SearchTypes'
    BY <1>4, Limits DEF RetryEmbedder, SearchTypes
  <2>2. budget' \in BudgetType
    BY <1>4, SpendTypes DEF RetryEmbedder
  <2>. QED
    BY <1>4, <2>1, <2>2 DEF RetryEmbedder, Position, PositionOf, BreakerTypes, TableTypes,
                            HistoryTypes, history
<1>5. CASE EmbedderFails(r)
  <2>. DEFINE p == Embedders[turn[r]]
  <2>1. p \in Range(Embedders)
    BY <1>5, Chains DEF EmbedderFails, Position, PositionOf
  <2>2. SearchTypes' /\ Position'
    BY <1>5, PassEmbedTypes DEF EmbedderFails
  <2>3. BreakerTypes'
    BY <1>5, <2>1, BreakerStays DEF EmbedderFails, Providers
  <2>4. HistoryTypes'
    <3>1. /\ run \in [Range(Embedders) -> 0..Threshold]
          /\ rest \in [Providers -> 0..Reset \cup 0..Quota]
      BY DEF HistoryTypes
    <3>2. run[p] \in 0..Threshold /\ Threshold \in Nat
      BY <2>1, <3>1, Limits
    <3>3. Least(run[p] + 1, Threshold) \in 0..Threshold
      <4>. HIDE DEF p, Types
      <4>1. run[p] + 1 \in Nat
        BY <3>2
      <4>. QED
        BY <3>2, <4>1, LeastOfTwo
    <3>4. run' = [run EXCEPT ![p] = Least(run[p] + 1, Threshold)]
      BY <1>5 DEF EmbedderFails
    <3>5. run' \in [Range(Embedders) -> 0..Threshold]
      BY <3>1, <3>3, <3>4
    <3>6. PICK d \in {Reset, 0} : rest' = [rest EXCEPT ![p] = d]
      BY <1>5 DEF EmbedderFails
    <3>7. d \in 0..Reset \cup 0..Quota
      BY <3>6, Limits
    <3>8. rest' \in [Providers -> 0..Reset \cup 0..Quota]
      BY <3>1, <3>6, <3>7
    <3>. QED
      BY <3>5, <3>8 DEF HistoryTypes
  <2>5. budget' \in BudgetType
    BY <1>5, SpendTypes DEF EmbedderFails
  <2>. QED
    BY <1>5, <2>2, <2>3, <2>4, <2>5 DEF EmbedderFails, TableTypes
<1>. QED
  BY <1>1, <1>2, <1>3, <1>4, <1>5

LEMMA RetrieveTypes ==
  ASSUME Types, NEW r \in Requests, Retrieve(r)
  PROVE  Types'
<1>. USE DEF Types
<1>1. PICK found \in Pages : page' = [page EXCEPT ![r] = found]
  BY DEF Retrieve
<1>2. found \in [size : {"undocumented", "single", "many"}, text : Texts]
  BY SearchAssumption DEF SearchAssumption, Pages, TableTypes
<1>3. SearchTypes'
  BY <1>1, <1>2, Limits DEF Retrieve, SearchTypes, Steps, PageType, Goto
<1>4. PositionOf(r)'
  <2>1. turn'[r] = 1 /\ pc'[r] = "rank" /\ query'[r] \in Queries /\ page'[r] = found
    BY <1>1 DEF Retrieve, SearchTypes, Position, PositionOf, Goto
  <2>. QED
    BY <2>1, <1>2 DEF PositionOf
<1>5. Position'
  BY <1>1, <1>4, Moves DEF Retrieve, SearchTypes, Goto
<1>6. query[r] \in Queries
  BY DEF Retrieve, Position, PositionOf
<1>7. row' \in [Queries -> [by : Range(Embedders) \cup {None}, left : 0..QueryTTL]]
  <2>1. [by |-> vector[r].by, left |-> QueryTTL] \in [by : Range(Embedders) \cup {None}, left : 0..QueryTTL]
    BY Limits DEF SearchTypes, VectorType
  <2>2. \/ row' = row
        \/ row' = [row EXCEPT ![query[r]] = [by |-> vector[r].by, left |-> QueryTTL]]
    BY DEF Retrieve
  <2>. QED
    BY <1>6, <2>1, <2>2 DEF TableTypes
<1>8. HistoryTypes'
  BY <1>6, Limits DEF Retrieve, HistoryTypes
<1>. QED
  BY <1>3, <1>5, <1>7, <1>8 DEF Retrieve, BreakerTypes, TableTypes

LEMMA RankTypes ==
  ASSUME Types, NEW r \in Requests, Rank(r)
  PROVE  Types'
<1>. USE DEF Types
<1>1. PositionOf(r) /\ turn[r] = 1 /\ pc[r] = "rank"
  BY DEF Rank, Position, PositionOf
<1>2. CASE /\ page[r].size = "undocumented"
           /\ Ranked(r, "skipped", None)
           /\ Goto(r, "answer")
           /\ UNCHANGED entries
  <2>1. [outcome |-> "skipped", text |-> None] \in RankType
    BY DEF RankType
  <2>2. SearchTypes'
    BY <1>2, <2>1 DEF Rank, SearchTypes, Steps, Ranked, Goto
  <2>3. PositionOf(r)'
    BY <1>1, <1>2, Chains DEF Rank, SearchTypes, PositionOf, Goto
  <2>4. Position'
    BY <1>2, <2>3, Moves DEF Rank, SearchTypes, Goto
  <2>. QED
    BY <1>2, <2>2, <2>4 DEF Rank, BreakerTypes, TableTypes, HistoryTypes, history
<1>3. ASSUME NEW i \in Live(r),
             entries' = Append(Others(r), entries[i]),
             Ranked(r, "applied", entries[i].text),
             Goto(r, "answer")
      PROVE  Types'
  <2>1. entries' \in Seq(EntryType) /\ Len(entries') <= MaxEntries /\ entries[i] \in EntryType
    BY <1>3, TakeTypes DEF TableTypes
  <2>2. [outcome |-> "applied", text |-> entries[i].text] \in RankType
    BY <2>1 DEF RankType, EntryType
  <2>3. SearchTypes'
    BY <1>3, <2>2 DEF Rank, SearchTypes, Steps, Ranked, Goto
  <2>4. PositionOf(r)'
    BY <1>1, <1>3, Chains DEF Rank, SearchTypes, PositionOf, Goto
  <2>5. Position'
    BY <1>3, <2>4, Moves DEF Rank, SearchTypes, Goto
  <2>. QED
    BY <2>1, <2>3, <2>5 DEF Rank, BreakerTypes, TableTypes, HistoryTypes, history
<1>4. CASE /\ page[r].size # "undocumented" /\ Live(r) = {}
           /\ entries' = Others(r)
           /\ Goto(r, "rerank")
           /\ UNCHANGED rank
  <2>1. entries' \in Seq(EntryType) /\ Len(entries') <= Len(entries)
    BY <1>4, OthersTypes DEF TableTypes
  <2>2. Len(entries') <= MaxEntries
    BY <2>1, Limits, LenProperties DEF TableTypes
  <2>3. SearchTypes'
    BY <1>4 DEF Rank, SearchTypes, Steps, Goto
  <2>4. PositionOf(r)'
    BY <1>1, <1>4, Chains DEF Rank, SearchTypes, PositionOf, Goto
  <2>5. Position'
    BY <1>4, <2>4, Moves DEF Rank, SearchTypes, Goto
  <2>. QED
    BY <2>1, <2>2, <2>3, <2>5 DEF Rank, BreakerTypes, TableTypes, HistoryTypes, history
<1>. QED
  BY <1>2, <1>3, <1>4 DEF Rank

LEMMA RerankTypes ==
  ASSUME Types, NEW r \in Requests,
         \/ CallReranker(r) \/ RerankerAnswers(r) \/ RerankerFallsShort(r)
         \/ RerankerFails(r) \/ QuotaExhausted(r)
  PROVE  Types'
<1>. USE DEF Types
<1>. DEFINE p == Rerankers[turn[r]]
<1>1. /\ PositionOf(r) /\ pc[r] \in {"rerank", "reranking"} /\ turn[r] \in 1..Len(Rerankers)
      /\ p \in Range(Rerankers) /\ p \in Providers
  BY Chains DEF CallReranker, RerankerAnswers, RerankerFallsShort, RerankerFails, QuotaExhausted,
                Position, PositionOf, Providers
<1>2. CASE CallReranker(r)
  <2>1. CASE PassRerank(r) /\ UNCHANGED breaker
    <3>1. SearchTypes' /\ Position'
      BY <1>1, <1>2, <2>1, PassRerankTypes DEF CallReranker
    <3>. QED
      BY <1>2, <2>1, <3>1 DEF CallReranker, BreakerTypes, TableTypes, HistoryTypes, history
  <2>2. CASE RecordSuccess(p) /\ Ranked(r, "skipped", None) /\ Goto(r, "answer") /\ UNCHANGED turn
    <3>1. [outcome |-> "skipped", text |-> None] \in RankType
      BY DEF RankType
    <3>2. SearchTypes'
      BY <1>2, <2>2, <3>1 DEF CallReranker, SearchTypes, Steps, Ranked, Goto
    <3>3. PositionOf(r)'
      BY <1>1, <1>2, <2>2 DEF CallReranker, SearchTypes, PositionOf, Goto
    <3>4. Position'
      BY <1>2, <2>2, <3>3, Moves DEF CallReranker, SearchTypes, Ranked, Goto
    <3>5. BreakerTypes'
      BY <1>1, <2>2, BreakerStays
    <3>. QED
      BY <1>2, <2>2, <3>2, <3>4, <3>5 DEF CallReranker, TableTypes, HistoryTypes, history
  <2>3. CASE Goto(r, "reranking") /\ UNCHANGED <<turn, rank, breaker>>
    <3>1. SearchTypes'
      BY <1>2, <2>3 DEF CallReranker, SearchTypes, Steps, Goto
    <3>2. PositionOf(r)'
      BY <1>1, <1>2, <2>3 DEF CallReranker, SearchTypes, PositionOf, Goto
    <3>3. Position'
      BY <1>2, <2>3, <3>2, Moves DEF CallReranker, SearchTypes, Goto
    <3>. QED
      BY <1>2, <2>3, <3>1, <3>3 DEF CallReranker, BreakerTypes, TableTypes, HistoryTypes, history
  <2>. QED
    BY <1>2, <2>1, <2>2, <2>3 DEF CallReranker
<1>3. CASE RerankerAnswers(r)
  <2>1. page[r].text \in Texts /\ Key(r) \in KeyType
    BY <1>1, <1>3 DEF RerankerAnswers, PositionOf, Key, KeyType
  <2>2. [key |-> Key(r), text |-> page[r].text, left |-> RankTTL] \in EntryType
    BY <2>1, Limits DEF EntryType
  <2>3. entries' \in Seq(EntryType) /\ Len(entries') <= MaxEntries
    BY <1>3, <2>2, PutTypes DEF RerankerAnswers, TableTypes
  <2>4. [outcome |-> "applied", text |-> page[r].text] \in RankType
    BY <2>1 DEF RankType
  <2>5. SearchTypes'
    BY <1>3, <2>4 DEF RerankerAnswers, SearchTypes, Steps, Ranked, Goto
  <2>6. PositionOf(r)'
    BY <1>1, <1>3 DEF RerankerAnswers, SearchTypes, PositionOf, Goto
  <2>7. Position'
    BY <1>3, <2>6, Moves DEF RerankerAnswers, SearchTypes, Goto
  <2>8. BreakerTypes'
    BY <1>1, <1>3, BreakerStays DEF RerankerAnswers
  <2>. QED
    BY <1>3, <2>3, <2>5, <2>7, <2>8 DEF RerankerAnswers, TableTypes, HistoryTypes, history
<1>4. CASE RerankerFallsShort(r)
  <2>1. SearchTypes' /\ Position'
    BY <1>1, <1>4, PassRerankTypes DEF RerankerFallsShort
  <2>2. BreakerTypes'
    BY <1>1, <1>4, BreakerStays DEF RerankerFallsShort
  <2>3. budget' \in BudgetType
    BY <1>4, SpendTypes DEF RerankerFallsShort
  <2>. QED
    BY <1>4, <2>1, <2>2, <2>3 DEF RerankerFallsShort, TableTypes, HistoryTypes, history
<1>5. CASE RerankerFails(r)
  <2>1. SearchTypes' /\ Position'
    BY <1>1, <1>5, PassRerankTypes DEF RerankerFails
  <2>2. BreakerTypes'
    BY <1>1, <1>5, BreakerStays DEF RerankerFails
  <2>3. budget' \in BudgetType
    BY <1>5, SpendTypes DEF RerankerFails
  <2>. QED
    BY <1>5, <2>1, <2>2, <2>3 DEF RerankerFails, TableTypes, HistoryTypes, history
<1>6. CASE QuotaExhausted(r)
  <2>1. SearchTypes' /\ Position'
    BY <1>1, <1>6, PassRerankTypes DEF QuotaExhausted
  <2>2. BreakerTypes'
    BY <1>1, <1>6, BreakerStays DEF QuotaExhausted
  <2>3. budget' \in BudgetType
    BY <1>6, SpendTypes DEF QuotaExhausted
  <2>4. HistoryTypes'
    BY <1>1, <1>6, Limits DEF QuotaExhausted, HistoryTypes
  <2>. QED
    BY <1>6, <2>1, <2>2, <2>3, <2>4 DEF QuotaExhausted, TableTypes
<1>. QED
  BY <1>2, <1>3, <1>4, <1>5, <1>6

LEMMA DownTypes ==
  ASSUME NEW max \in Nat, NEW n \in 0..max
  PROVE  Down(n) \in 0..max /\ (Down(n) > 0 => n = Down(n) + 1)
BY DEF Down

LEMMA RestTypes ==
  ASSUME Types, Reindex \/ PruneQueries \/ Tick
  PROVE  Types'
<1>. USE DEF Types
<1>1. CASE Reindex
  <2>1. budget' \in BudgetType
    BY <1>1, SpendTypes DEF Reindex
  <2>. QED
    BY <1>1, <2>1 DEF Reindex, SearchTypes, Position, PositionOf, BreakerTypes, TableTypes,
                      HistoryTypes, history, search
<1>2. CASE PruneQueries
  <2>1. NoRow \in [by : Range(Embedders) \cup {None}, left : 0..QueryTTL]
    BY Limits DEF NoRow
  <2>2. TableTypes'
    BY <1>2, <2>1 DEF PruneQueries, TableTypes
  <2>. QED
    BY <1>2, <2>2 DEF PruneQueries, SearchTypes, Position, PositionOf, BreakerTypes,
                      HistoryTypes, history, search
<1>3. CASE Tick
  <2>1. BreakerTypes'
    <3>1. ASSUME NEW p \in Providers
          PROVE  [breaker[p] EXCEPT !.left = Down(@)] \in BreakerType
      <4>1. breaker[p] \in BreakerType
        BY DEF BreakerTypes
      <4>2. Down(breaker[p].left) \in 0..Reset \cup 0..Quota
        BY <4>1, DownTypes, Limits DEF BreakerType
      <4>. QED
        BY <4>1, <4>2 DEF BreakerType
    <3>. QED
      BY <1>3, <3>1 DEF Tick, BreakerTypes
  <2>2. row' \in [Queries -> [by : Range(Embedders) \cup {None}, left : 0..QueryTTL]]
    <3>1. ASSUME NEW q \in Queries
          PROVE  Down(row[q].left) \in 0..QueryTTL
      BY DownTypes, Limits DEF TableTypes
    <3>. QED
      BY <1>3, <3>1 DEF Tick, TableTypes
  <2>3. entries' \in Seq(EntryType) /\ Len(entries') = Len(entries)
    <3>1. ASSUME NEW i \in 1..Len(entries)
          PROVE  [entries[i] EXCEPT !.left = Down(@)] \in EntryType
      <4>1. entries[i] \in EntryType
        BY ElementOfSeq DEF TableTypes
      <4>2. Down(entries[i].left) \in 0..RankTTL
        BY <4>1, DownTypes, Limits DEF EntryType
      <4>. QED
        BY <4>1, <4>2 DEF EntryType
    <3>2. Len(entries) \in Nat
      BY LenProperties DEF TableTypes
    <3>. QED
      BY <1>3, <3>1, <3>2, IsASeq, LenProperties DEF Tick
  <2>4. HistoryTypes'
    <3>1. ASSUME NEW p \in Providers
          PROVE  Down(rest[p]) \in 0..Reset \cup 0..Quota
      BY DownTypes, Limits DEF HistoryTypes
    <3>. QED
      BY <1>3, <3>1 DEF Tick, HistoryTypes
  <2>. QED
    BY <1>3, <2>1, <2>2, <2>3, <2>4 DEF Tick, SearchTypes, Position, PositionOf, TableTypes, search
<1>. QED
  BY <1>1, <1>2, <1>3

LEMMA StepTypes == Types /\ [Next]_vars => Types'
<1>. SUFFICES ASSUME Types, [Next]_vars PROVE Types'
  OBVIOUS
<1>1. CASE UNCHANGED vars
  BY <1>1 DEF vars, search, history, Types, SearchTypes, Position, PositionOf, BreakerTypes,
              TableTypes, HistoryTypes
<1>2. CASE Next
  BY <1>2, WebTypes, EmbedTypes, RetrieveTypes, RankTypes, RerankTypes, RestTypes DEF Next, Work
<1>. QED
  BY <1>1, <1>2

LEMMA AlwaysTypes == Spec => []Types
BY InitTypes, StepTypes, PTL DEF Spec

\* The types of the state, and the cache of ranks within its limit
\* (CachedReranker._put), for any searches, chains and limits.
THEOREM TypeCorrect == Spec => []TypeOK
<1>1. Types => TypeOK
  <2>. SUFFICES ASSUME Types PROVE TypeOK
    OBVIOUS
  <2>1. turn \in [Requests -> 1..Len(Embedders) \cup 1..Len(Rerankers)]
    <3>1. ASSUME NEW r \in Requests
          PROVE  turn[r] \in 1..Len(Embedders) \cup 1..Len(Rerankers)
      BY Chains DEF Types, Position, PositionOf
    <3>. QED
      BY <3>1 DEF Types, SearchTypes
  <2>. QED
    BY <2>1 DEF Types, SearchTypes, Steps, PageType, RankType, EntryType, BreakerTypes, TableTypes,
                HistoryTypes, BudgetType, TypeOK
<1>. QED
  BY <1>1, AlwaysTypes, PTL

-----------------------------------------------------------------------------
(* Vectors and columns.                                                    *)

\* What is stored under a key of the primary is the primary's.
VectorsInv ==
  /\ \A r \in Requests : vector[r].by = vector[r].slot
  /\ \A q \in Queries : row[q].left > 0 => row[q].by = Primary

LEMMA VectorsStep == Types /\ VectorsInv /\ [Next]_vars => VectorsInv'
<1>. SUFFICES ASSUME Types, VectorsInv, [Next]_vars PROVE VectorsInv'
  OBVIOUS
<1>. USE DEF VectorsInv
<1>1. ASSUME UNCHANGED <<vector, row>> PROVE VectorsInv'
  BY <1>1
<1>2. ASSUME NEW r \in Requests, NEW what, Reply(r, what), UNCHANGED row PROVE VectorsInv'
  BY <1>2 DEF Reply, NoVector, Types, SearchTypes
<1>3. ASSUME NEW r \in Requests, Lookup(r) PROVE VectorsInv'
  <2>1. query[r] \in Queries
    BY <1>3 DEF Lookup, Types, Position, PositionOf
  <2>2. CASE row[query[r]].left > 0 /\ vector' = [vector EXCEPT ![r] = [by |-> row[query[r]].by, slot |-> Primary]]
    BY <1>3, <2>1, <2>2 DEF Lookup, Types, SearchTypes
  <2>3. CASE UNCHANGED vector
    BY <1>3, <2>3 DEF Lookup
  <2>. QED
    BY <1>3, <2>2, <2>3 DEF Lookup
<1>4. ASSUME NEW r \in Requests, EmbedderAnswers(r) PROVE VectorsInv'
  BY <1>4 DEF EmbedderAnswers, Types, SearchTypes
<1>5. ASSUME NEW r \in Requests, Retrieve(r) PROVE VectorsInv'
  <2>1. query[r] \in Queries
    BY <1>5 DEF Retrieve, Types, Position, PositionOf
  <2>2. \/ row' = row
        \/ /\ row' = [row EXCEPT ![query[r]] = [by |-> vector[r].by, left |-> QueryTTL]]
           /\ vector[r].by = Primary
    BY <1>5 DEF Retrieve, Storable
  <2>3. \A q \in Queries : row'[q] = row[q] \/ row'[q].by = Primary
    BY <2>1, <2>2 DEF Types, TableTypes
  <2>4. vector' = vector
    BY <1>5 DEF Retrieve
  <2>5. \A q \in Queries : row'[q].left > 0 => row'[q].by = Primary
    BY <2>3
  <2>. QED
    BY <2>4, <2>5
<1>6. ASSUME PruneQueries PROVE VectorsInv'
  BY <1>6 DEF PruneQueries, NoRow, search
<1>7. ASSUME Tick PROVE VectorsInv'
  <2>1. ASSUME NEW q \in Queries, row'[q].left > 0
        PROVE  row'[q].by = Primary
    <3>1. row'[q].by = row[q].by /\ row'[q].left = Down(row[q].left)
      BY <1>7 DEF Tick, Types, TableTypes
    <3>2. row[q].left > 0
      BY <2>1, <3>1, DownTypes, Limits DEF Types, TableTypes
    <3>. QED
      BY <3>1, <3>2
  <2>. QED
    BY <1>7, <2>1 DEF Tick, search
<1>8. ASSUME NEW r \in Requests,
             \/ Begin(r) \/ GatewayTimeout(r) \/ CallEmbedder(r) \/ RetryEmbedder(r) \/ EmbedderFails(r)
             \/ Rank(r) \/ CallReranker(r) \/ RerankerAnswers(r) \/ RerankerFallsShort(r)
             \/ RerankerFails(r) \/ QuotaExhausted(r)
      PROVE  VectorsInv'
  BY <1>1, <1>8 DEF Begin, GatewayTimeout, CallEmbedder, RetryEmbedder, EmbedderFails, Rank, CallReranker,
                    RerankerAnswers, RerankerFallsShort, RerankerFails, QuotaExhausted, search
<1>. QED
  BY <1>1, <1>2, <1>3, <1>4, <1>5, <1>6, <1>7, <1>8
     DEF Next, Work, Answer, Error, Reindex, vars, search

\* A query vector is compared with the column of the provider that made it, for any
\* searches, queries and providers (_query_vector's used_slot and cache key).
THEOREM VectorsStayInColumn == Spec => []SameColumn
<1>1. Init => VectorsInv
  BY DEF Init, VectorsInv, NoVector, NoRow
<1>2. VectorsInv => SameColumn
  BY DEF VectorsInv, SameColumn
<1>. QED
  BY <1>1, <1>2, VectorsStep, AlwaysTypes, PTL DEF Spec

-----------------------------------------------------------------------------
(* Cached orders.                                                          *)

\* An entry scored the texts of its key.
Honest == {e \in EntryType : e.text = e.key.text}

RanksInv ==
  /\ entries \in Seq(Honest)
  /\ \A r \in Requests : rank[r].outcome = "applied" => rank[r].text = page[r].text
  /\ \A r \in Requests : pc[r] # "answer" => rank[r] = NoRank

LEMMA RanksStep == Types /\ RanksInv /\ [Next]_vars => RanksInv'
<1>. SUFFICES ASSUME Types, RanksInv, [Next]_vars PROVE RanksInv'
  OBVIOUS
<1>. USE DEF RanksInv
<1>1. ASSUME UNCHANGED <<entries, rank, page>>, \A r \in Requests : pc'[r] # "answer" => rank[r] = NoRank
      PROVE  RanksInv'
  BY <1>1
<1>2. ASSUME NEW r \in Requests, NEW what, Reply(r, what), UNCHANGED entries PROVE RanksInv'
  BY <1>2 DEF Reply, Goto, NoRank, NoPage, Types, SearchTypes
<1>3. ASSUME NEW r \in Requests, PassRerank(r), pc[r] \in {"rerank", "reranking"},
             UNCHANGED <<entries, page>>
      PROVE  RanksInv'
  <2>1. CASE Ranked(r, "unavailable", None) /\ Goto(r, "answer")
    BY <1>3, <2>1 DEF Ranked, Goto, Types, SearchTypes
  <2>2. CASE UNCHANGED rank /\ Goto(r, "rerank")
    BY <1>3, <2>2 DEF Goto, Types, SearchTypes
  <2>. QED
    BY <1>3, <2>1, <2>2 DEF PassRerank
<1>4. ASSUME NEW r \in Requests, Retrieve(r) PROVE RanksInv'
  <2>1. rank[r] = NoRank /\ rank' = rank /\ entries' = entries
    BY <1>4 DEF Retrieve
  <2>2. \A q \in Requests : q # r => page'[q] = page[q] /\ pc'[q] = pc[q]
    BY <1>4 DEF Retrieve, Goto, Types, SearchTypes
  <2>3. \A q \in Requests : rank'[q].outcome = "applied" => rank'[q].text = page'[q].text
    BY <2>1, <2>2 DEF NoRank
  <2>4. \A q \in Requests : pc'[q] # "answer" => rank'[q] = NoRank
    BY <2>1, <2>2
  <2>. QED
    BY <2>1, <2>3, <2>4
<1>5. ASSUME NEW r \in Requests, Rank(r) PROVE RanksInv'
  <2>1. CASE Ranked(r, "skipped", None) /\ Goto(r, "answer") /\ UNCHANGED entries
    BY <1>5, <2>1 DEF Rank, Ranked, Goto, Types, SearchTypes
  <2>2. ASSUME NEW i \in Live(r), entries' = Append(Others(r), entries[i]),
               Ranked(r, "applied", entries[i].text), Goto(r, "answer")
        PROVE  RanksInv'
    <3>1. entries' \in Seq(Honest) /\ entries[i] \in Honest
      BY <2>2, TakeTypes
    <3>2. entries[i].text = page[r].text
      BY <3>1 DEF Honest, Live, Places, Key
    <3>. QED
      BY <1>5, <2>2, <3>1, <3>2 DEF Rank, Ranked, Goto, Types, SearchTypes
  <2>3. CASE entries' = Others(r) /\ Goto(r, "rerank") /\ UNCHANGED rank
    <3>1. entries' \in Seq(Honest)
      BY <2>3, OthersTypes
    <3>. QED
      BY <1>5, <2>3, <3>1 DEF Rank, Goto, Types, SearchTypes
  <2>. QED
    BY <1>5, <2>1, <2>2, <2>3 DEF Rank
<1>6. ASSUME NEW r \in Requests, CallReranker(r) PROVE RanksInv'
  <2>1. CASE PassRerank(r)
    BY <1>3, <1>6, <2>1 DEF CallReranker
  <2>2. CASE Ranked(r, "skipped", None) /\ Goto(r, "answer")
    BY <1>6, <2>2 DEF CallReranker, Ranked, Goto, Types, SearchTypes
  <2>3. CASE Goto(r, "reranking") /\ UNCHANGED rank
    BY <1>6, <2>3 DEF CallReranker, Goto, Types, SearchTypes
  <2>. QED
    BY <1>6, <2>1, <2>2, <2>3 DEF CallReranker
<1>7. ASSUME NEW r \in Requests, RerankerAnswers(r) PROVE RanksInv'
  <2>1. page[r].text \in Texts /\ Key(r) \in KeyType /\ Key(r).text = page[r].text
    BY <1>7 DEF RerankerAnswers, Types, Position, PositionOf, Key, KeyType
  <2>2. [key |-> Key(r), text |-> page[r].text, left |-> RankTTL] \in Honest
    BY <2>1, Limits DEF Honest, EntryType
  <2>3. entries' \in Seq(Honest)
    BY <1>7, <2>2, PutTypes DEF RerankerAnswers, Types, TableTypes
  <2>. QED
    BY <1>7, <2>3 DEF RerankerAnswers, Ranked, Goto, Types, SearchTypes
<1>8. ASSUME NEW r \in Requests, RerankerFallsShort(r) \/ RerankerFails(r) \/ QuotaExhausted(r)
      PROVE  RanksInv'
  BY <1>3, <1>8 DEF RerankerFallsShort, RerankerFails, QuotaExhausted
<1>9. ASSUME NEW r \in Requests,
             \/ Begin(r) \/ GatewayTimeout(r) \/ Lookup(r) \/ CallEmbedder(r) \/ EmbedderAnswers(r)
             \/ RetryEmbedder(r) \/ EmbedderFails(r)
      PROVE  RanksInv'
  <2>1. \A q \in Requests : pc'[q] = pc[q] \/ (pc[q] # "answer" /\ pc'[q] # "answer")
    BY <1>9 DEF Begin, GatewayTimeout, Lookup, CallEmbedder, EmbedderAnswers, RetryEmbedder, EmbedderFails,
                PassEmbed, Goto, Types, SearchTypes
  <2>. QED
    BY <1>1, <1>9, <2>1 DEF Begin, GatewayTimeout, Lookup, CallEmbedder, EmbedderAnswers, RetryEmbedder,
                            EmbedderFails, search
<1>10. ASSUME Tick PROVE RanksInv'
  <2>1. ASSUME NEW i \in 1..Len(entries)
        PROVE  [entries[i] EXCEPT !.left = Down(@)] \in Honest
    <3>1. entries[i] \in Honest
      BY ElementOfSeq
    <3>2. Down(entries[i].left) \in 0..RankTTL
      BY <3>1, DownTypes, Limits DEF Honest, EntryType
    <3>. QED
      BY <3>1, <3>2 DEF Honest, EntryType
  <2>2. entries' \in Seq(Honest)
    BY <1>10, <2>1, IsASeq, LenProperties DEF Tick
  <2>. QED
    BY <1>10, <2>2 DEF Tick, search
<1>. QED
  BY <1>1, <1>2, <1>4, <1>5, <1>6, <1>7, <1>8, <1>9, <1>10
     DEF Next, Work, Answer, Error, Reindex, PruneQueries, vars, search

\* An order called reranked was made for the texts of its page, for any searches, texts
\* and size of the cache (rerank_cache_key).
THEOREM RanksBelong == Spec => []RanksFresh
<1>1. Init => RanksInv
  BY EmptySeq DEF Init, RanksInv, NoRank
<1>2. RanksInv => RanksFresh
  BY DEF RanksInv, RanksFresh
<1>. QED
  BY <1>1, <1>2, RanksStep, AlwaysTypes, PTL DEF Spec

-----------------------------------------------------------------------------
(* Quotas.                                                                 *)

\* Whoever is to be left alone has an open circuit for at least as long.
QuotaInv ==
  \A p \in Range(Rerankers) :
    rest[p] > 0 => Calling(p) = {} /\ breaker[p].left >= rest[p]

\* Nobody else starts to call a reranker.
LEMMA CallsEnd ==
  ASSUME NEW r \in Requests, pc'[r] # "reranking",
         \A q \in Requests \ {r} : pc'[q] = pc[q] /\ turn'[q] = turn[q]
  PROVE  \A p : Calling(p)' \subseteq Calling(p)
BY DEF Calling

LEMMA Disjoint == \A p \in Range(Rerankers) : p \in Providers /\ p \notin Range(Embedders)
BY SearchAssumption DEF SearchAssumption, Providers

\* A search that moves without a call of a reranker and without news of one.
LEMMA QuotaKept ==
  ASSUME QuotaInv, NEW r \in Requests, pc'[r] # "reranking",
         \A q \in Requests \ {r} : pc'[q] = pc[q] /\ turn'[q] = turn[q],
         \A p \in Range(Rerankers) : breaker'[p] = breaker[p] /\ rest'[p] = rest[p]
  PROVE  QuotaInv'
<1>. SUFFICES ASSUME NEW p \in Range(Rerankers), rest'[p] > 0
              PROVE  Calling(p)' = {} /\ breaker'[p].left >= rest'[p]
  BY DEF QuotaInv
<1>1. Calling(p) = {} /\ breaker[p].left >= rest[p]
  BY DEF QuotaInv
<1>. QED
  BY <1>1, CallsEnd

LEMMA PassRerankMoves ==
  ASSUME Types, NEW r \in Requests, PassRerank(r)
  PROVE  /\ pc'[r] \in {"rerank", "answer"}
         /\ \A q \in Requests \ {r} : pc'[q] = pc[q] /\ turn'[q] = turn[q]
<1>1. \/ pc' = [pc EXCEPT ![r] = "rerank"]
      \/ pc' = [pc EXCEPT ![r] = "answer"]
  BY DEF PassRerank, Goto
<1>2. \A q \in Requests \ {r} : turn'[q] = turn[q]
  BY DEF PassRerank, Types, SearchTypes
<1>. QED
  BY <1>1, <1>2 DEF Types, SearchTypes

\* News of the provider a search is calling: it is not one to be left alone.
LEMMA QuotaNews ==
  ASSUME Types, QuotaInv, NEW r \in Requests, pc[r] = "reranking", pc'[r] # "reranking",
         \A q \in Requests \ {r} : pc'[q] = pc[q] /\ turn'[q] = turn[q],
         \A p \in Range(Rerankers) : p # Rerankers[turn[r]] => breaker'[p] = breaker[p],
         rest' = rest
  PROVE  QuotaInv'
<1>. SUFFICES ASSUME NEW p \in Range(Rerankers), rest'[p] > 0
              PROVE  Calling(p)' = {} /\ breaker'[p].left >= rest'[p]
  BY DEF QuotaInv
<1>1. Calling(p) = {} /\ breaker[p].left >= rest[p]
  BY DEF QuotaInv
<1>2. p # Rerankers[turn[r]]
  BY <1>1 DEF Calling
<1>3. Calling(p)' \subseteq Calling(p)
  BY CallsEnd
<1>. QED
  BY <1>1, <1>2, <1>3

LEMMA QuotaStep == Types /\ QuotaInv /\ [Next]_vars => QuotaInv'
<1>. SUFFICES ASSUME Types, QuotaInv, [Next]_vars PROVE QuotaInv'
  OBVIOUS
<1>1. ASSUME UNCHANGED <<pc, turn, breaker, rest>> PROVE QuotaInv'
  BY <1>1 DEF QuotaInv, Calling
<1>2. ASSUME NEW r \in Requests, NEW what, Reply(r, what), UNCHANGED <<breaker, rest>> PROVE QuotaInv'
  <2>1. pc'[r] # "reranking" /\ \A q \in Requests \ {r} : pc'[q] = pc[q] /\ turn'[q] = turn[q]
    BY <1>2 DEF Reply, Goto, Types, SearchTypes
  <2>. QED
    BY <1>2, <2>1, QuotaKept
<1>3. ASSUME NEW r \in Requests,
             \/ Begin(r) \/ Lookup(r) \/ CallEmbedder(r) \/ RetryEmbedder(r) \/ Retrieve(r) \/ Rank(r)
      PROVE  QuotaInv'
  <2>1. pc'[r] # "reranking" /\ \A q \in Requests \ {r} : pc'[q] = pc[q] /\ turn'[q] = turn[q]
    BY <1>3 DEF Begin, Lookup, CallEmbedder, RetryEmbedder, Retrieve, Rank, PassEmbed, Goto,
                Types, SearchTypes
  <2>2. breaker' = breaker /\ rest' = rest
    BY <1>3 DEF Begin, Lookup, CallEmbedder, RetryEmbedder, Retrieve, Rank, history
  <2>. QED
    BY <2>1, <2>2, QuotaKept
<1>4. ASSUME NEW r \in Requests, EmbedderAnswers(r) \/ EmbedderFails(r) PROVE QuotaInv'
  <2>1. pc'[r] # "reranking" /\ \A q \in Requests \ {r} : pc'[q] = pc[q] /\ turn'[q] = turn[q]
    BY <1>4 DEF EmbedderAnswers, EmbedderFails, PassEmbed, Goto, Types, SearchTypes
  <2>2. Embedders[turn[r]] \in Range(Embedders)
    BY <1>4, Chains DEF EmbedderAnswers, EmbedderFails, Types, Position, PositionOf
  <2>3. \A p \in Range(Rerankers) : breaker'[p] = breaker[p] /\ rest'[p] = rest[p]
    BY <1>4, <2>2, Disjoint DEF EmbedderAnswers, EmbedderFails, RecordSuccess, Types, BreakerTypes,
                                HistoryTypes
  <2>. QED
    BY <2>1, <2>3, QuotaKept
<1>5. ASSUME NEW r \in Requests, CallReranker(r) PROVE QuotaInv'
  <2>. DEFINE s == Rerankers[turn[r]]
  <2>1. s \in Range(Rerankers) /\ s \in Providers
    BY <1>5, Chains, Disjoint DEF CallReranker, Types, Position, PositionOf
  <2>2. CASE PassRerank(r) /\ UNCHANGED breaker
    BY <1>5, <2>2, PassRerankMoves, QuotaKept DEF CallReranker, history
  <2>3. CASE ~IsOpen(s) /\ RecordSuccess(s) /\ Goto(r, "answer") /\ UNCHANGED turn
    <3>1. ASSUME NEW p \in Range(Rerankers), rest'[p] > 0
          PROVE  Calling(p)' = {} /\ breaker'[p].left >= rest'[p]
      <4>1. rest[p] > 0 /\ rest' = rest
        BY <1>5, <3>1 DEF CallReranker, history
      <4>2. Calling(p) = {} /\ breaker[p].left >= rest[p]
        BY <4>1 DEF QuotaInv
      <4>3. rest[p] \in Nat /\ breaker[p].left \in Nat
        BY Disjoint, Limits DEF Types, HistoryTypes, BreakerTypes, BreakerType
      <4>4. p # s
        BY <2>3, <4>1, <4>2, <4>3 DEF IsOpen
      <4>5. breaker'[p] = breaker[p]
        BY <2>1, <2>3, <4>4, Disjoint DEF RecordSuccess, Types, BreakerTypes
      <4>6. Calling(p)' \subseteq Calling(p)
        BY <2>3, CallsEnd DEF Goto, Types, SearchTypes
      <4>. QED
        BY <4>1, <4>2, <4>5, <4>6
    <3>. QED
      BY <3>1 DEF QuotaInv
  <2>4. CASE ~IsOpen(s) /\ Goto(r, "reranking") /\ UNCHANGED <<turn, breaker>>
    <3>1. ASSUME NEW p \in Range(Rerankers), rest'[p] > 0
          PROVE  Calling(p)' = {} /\ breaker'[p].left >= rest'[p]
      <4>1. rest[p] > 0 /\ rest' = rest
        BY <1>5, <3>1 DEF CallReranker, history
      <4>2. Calling(p) = {} /\ breaker[p].left >= rest[p]
        BY <4>1 DEF QuotaInv
      <4>3. rest[p] \in Nat /\ breaker[p].left \in Nat
        BY Disjoint, Limits DEF Types, HistoryTypes, BreakerTypes, BreakerType
      <4>4. p # s
        BY <2>4, <4>1, <4>2, <4>3 DEF IsOpen
      <4>5. Calling(p)' = {}
        BY <2>4, <4>2, <4>4 DEF Calling, Goto, Types, SearchTypes
      <4>. QED
        BY <2>4, <4>1, <4>2, <4>5
    <3>. QED
      BY <3>1 DEF QuotaInv
  <2>. QED
    BY <1>5, <2>2, <2>3, <2>4 DEF CallReranker
<1>6. ASSUME NEW r \in Requests, RerankerAnswers(r) \/ RerankerFallsShort(r) \/ RerankerFails(r)
      PROVE  QuotaInv'
  <2>1. pc[r] = "reranking" /\ (PassRerank(r) \/ (Goto(r, "answer") /\ turn' = turn)) /\ rest' = rest
    BY <1>6 DEF RerankerAnswers, RerankerFallsShort, RerankerFails, history
  <2>2. \A p \in Range(Rerankers) : p # Rerankers[turn[r]] => breaker'[p] = breaker[p]
    BY <1>6, Disjoint DEF RerankerAnswers, RerankerFallsShort, RerankerFails, RecordSuccess, Types, BreakerTypes
  <2>3. pc'[r] # "reranking" /\ \A q \in Requests \ {r} : pc'[q] = pc[q] /\ turn'[q] = turn[q]
    <3>1. CASE PassRerank(r)
      BY <3>1, PassRerankMoves
    <3>2. CASE Goto(r, "answer") /\ turn' = turn
      BY <3>2 DEF Goto, Types, SearchTypes
    <3>. QED
      BY <2>1, <3>1, <3>2
  <2>4. pc[r] = "reranking" /\ rest' = rest
    BY <2>1
  <2>. QED
    BY <2>2, <2>3, <2>4, QuotaNews
<1>7. ASSUME NEW r \in Requests, QuotaExhausted(r) PROVE QuotaInv'
  <2>. DEFINE s == Rerankers[turn[r]]
  <2>1. s \in Range(Rerankers) /\ s \in Providers /\ pc[r] = "reranking" /\ PassRerank(r)
    BY <1>7, Chains, Disjoint DEF QuotaExhausted, Types, Position, PositionOf
  <2>2. /\ \A p \in Range(Rerankers) : p # Rerankers[turn[r]] => breaker'[p] = breaker[p]
        /\ breaker'[s].left = Quota
    BY <1>7, <2>1, Disjoint DEF QuotaExhausted, OpenedFor, Types, BreakerTypes
  <2>3. CASE Calling(s) # {r}
    <3>1. rest' = rest
      BY <1>7, <2>3 DEF QuotaExhausted
    <3>2. pc'[r] # "reranking" /\ \A q \in Requests \ {r} : pc'[q] = pc[q] /\ turn'[q] = turn[q]
      BY <2>1, PassRerankMoves
    <3>. QED
      BY <2>1, <2>2, <3>1, <3>2, QuotaNews
  <2>4. CASE Calling(s) = {r}
    <3>1. rest' = [rest EXCEPT ![s] = Quota]
      BY <1>7, <2>4 DEF QuotaExhausted
    <3>2. ASSUME NEW p \in Range(Rerankers), rest'[p] > 0
          PROVE  Calling(p)' = {} /\ breaker'[p].left >= rest'[p]
      <4>1. Calling(p)' \subseteq Calling(p) \ {r}
        BY <2>1, PassRerankMoves DEF Calling
      <4>2. CASE p = s
        <5>1. rest'[p] = Quota
          BY <2>1, <3>1, <4>2 DEF Types, HistoryTypes
        <5>. QED
          BY <2>2, <2>4, <4>1, <4>2, <5>1, Limits
      <4>3. CASE p # s
        <5>1. rest'[p] = rest[p] /\ rest[p] > 0
          BY <3>1, <3>2, <4>3, Disjoint DEF Types, HistoryTypes
        <5>. QED
          BY <2>2, <4>1, <4>3, <5>1 DEF QuotaInv
      <4>. QED
        BY <4>2, <4>3
    <3>. QED
      BY <3>2 DEF QuotaInv
  <2>. QED
    BY <2>3, <2>4
<1>8. ASSUME Tick PROVE QuotaInv'
  <2>1. ASSUME NEW p \in Range(Rerankers), rest'[p] > 0
        PROVE  Calling(p)' = {} /\ breaker'[p].left >= rest'[p]
    <3>1. rest'[p] = Down(rest[p]) /\ breaker'[p].left = Down(breaker[p].left)
      BY <1>8, Disjoint DEF Tick, Types, HistoryTypes, BreakerTypes, BreakerType
    <3>2. rest[p] \in Nat /\ breaker[p].left \in Nat
      BY Disjoint, Limits DEF Types, HistoryTypes, BreakerTypes, BreakerType
    <3>3. rest[p] > 0
      BY <2>1, <3>1, <3>2 DEF Down
    <3>4. Calling(p) = {} /\ breaker[p].left >= rest[p]
      BY <3>3 DEF QuotaInv
    <3>5. Calling(p)' = Calling(p)
      BY <1>8 DEF Tick, Calling, search
    <3>. QED
      BY <3>1, <3>2, <3>4, <3>5 DEF Down
  <2>. QED
    BY <2>1 DEF QuotaInv
<1>. QED
  BY <1>1, <1>2, <1>3, <1>4, <1>5, <1>6, <1>7, <1>8
     DEF Next, Work, GatewayTimeout, Answer, Error, Reindex, PruneQueries, vars, search, history

\* A reranking provider whose allowance is spent is left alone for its cooldown, for any
\* searches, chains and times (CircuitBreaker.open_for).
THEOREM QuotaRespected == Spec => []SpentLeftAlone
<1>1. Init => QuotaInv
  BY Disjoint DEF Init, QuotaInv
<1>2. QuotaInv => SpentLeftAlone
  BY DEF QuotaInv, SpentLeftAlone
<1>. QED
  BY <1>1, <1>2, QuotaStep, AlwaysTypes, PTL DEF Spec

-----------------------------------------------------------------------------
(* Failing embedding providers.                                            *)

\* The circuit of an embedding provider counts what the history counts, and is open for
\* as long as the provider is to be left alone.
FailingInv ==
  \A p \in Range(Embedders) :
    /\ breaker[p].failures = run[p]
    /\ breaker[p].span = Reset
    /\ breaker[p].left >= rest[p]

LEMMA EmbeddersAre == \A p \in Range(Embedders) : p \in Providers /\ p \notin Range(Rerankers)
BY SearchAssumption DEF SearchAssumption, Providers

\* News of a reranker changes no circuit of an embedding provider.
LEMMA FailingKept ==
  ASSUME FailingInv, \A p \in Range(Embedders) : UNCHANGED <<breaker[p], run[p], rest[p]>>
  PROVE  FailingInv'
BY DEF FailingInv

\* A failure counts in the circuit as in the history.
LEMMA FailureCounts ==
  ASSUME Types, FailingInv, NEW r \in Requests, EmbedderFails(r)
  PROVE  FailingInv'
<1>. DEFINE s == Embedders[turn[r]]
<1>1. s \in Range(Embedders) /\ s \in Providers
  BY Chains, EmbeddersAre DEF EmbedderFails, Types, Position, PositionOf
<1>2. /\ breaker' = [breaker EXCEPT ![s] = Counted(@)]
      /\ run' = [run EXCEPT ![s] = Least(@ + 1, Threshold)]
      /\ rest' = [rest EXCEPT ![s] = IF run[s] + 1 >= Threshold THEN Reset ELSE 0]
  BY DEF EmbedderFails
<1>. HIDE DEF s
<1>3. ASSUME NEW p \in Range(Embedders), p # s
      PROVE  UNCHANGED <<breaker[p], run[p], rest[p]>>
  BY <1>2, <1>3, EmbeddersAre DEF Types, BreakerTypes, HistoryTypes
<1>4. /\ breaker[s].failures = run[s] /\ breaker[s].span = Reset
      /\ breaker[s] \in BreakerType /\ run[s] \in 0..Threshold
  BY <1>1 DEF FailingInv, Types, BreakerTypes, HistoryTypes
<1>5. /\ breaker'[s] = Counted(breaker[s])
      /\ run'[s] = Least(run[s] + 1, Threshold)
      /\ rest'[s] = IF run[s] + 1 >= Threshold THEN Reset ELSE 0
  BY <1>1, <1>2 DEF Types, BreakerTypes, HistoryTypes
<1>. DEFINE f == Least(run[s] + 1, Threshold)
<1>6. /\ breaker'[s].failures = f /\ breaker'[s].span = Reset
      /\ breaker'[s].left = IF f = Threshold THEN Reset ELSE breaker[s].left
  BY <1>4, <1>5 DEF Counted, BreakerType
<1>7. run[s] + 1 >= Threshold => f = Threshold
  BY <1>4, Limits DEF Least
<1>8. breaker[s].left \in Nat /\ Reset \in Nat
  BY <1>4, Limits DEF BreakerType
<1>. HIDE DEF f
<1>9. breaker'[s].left >= rest'[s]
  BY <1>5, <1>6, <1>7, <1>8
<1>10. run'[s] = f
  BY <1>5 DEF f
<1>. QED
  BY <1>3, <1>6, <1>9, <1>10 DEF FailingInv

LEMMA FailingStep == Types /\ FailingInv /\ [Next]_vars => FailingInv'
<1>. SUFFICES ASSUME Types, FailingInv, [Next]_vars PROVE FailingInv'
  OBVIOUS
<1>1. CASE UNCHANGED <<breaker, run, rest>>
  BY <1>1, FailingKept
<1>2. ASSUME NEW r \in Requests, EmbedderAnswers(r) PROVE FailingInv'
  <2>. DEFINE s == Embedders[turn[r]]
  <2>1. s \in Range(Embedders) /\ s \in Providers
    BY <1>2, Chains, EmbeddersAre DEF EmbedderAnswers, Types, Position, PositionOf
  <2>2. /\ breaker' = [breaker EXCEPT ![s] = Closed]
        /\ run' = [run EXCEPT ![s] = 0] /\ rest' = [rest EXCEPT ![s] = 0]
    BY <1>2 DEF EmbedderAnswers, RecordSuccess
  <2>. HIDE DEF s
  <2>3. breaker'[s] = Closed /\ run'[s] = 0 /\ rest'[s] = 0
    BY <2>1, <2>2 DEF Types, BreakerTypes, HistoryTypes
  <2>4. \A p \in Range(Embedders) : p # s => UNCHANGED <<breaker[p], run[p], rest[p]>>
    BY <2>2, EmbeddersAre DEF Types, BreakerTypes, HistoryTypes
  <2>. QED
    BY <2>3, <2>4 DEF FailingInv, Closed
<1>3. ASSUME NEW r \in Requests,
             \/ CallReranker(r) \/ RerankerAnswers(r) \/ RerankerFallsShort(r)
             \/ RerankerFails(r) \/ QuotaExhausted(r)
      PROVE  FailingInv'
  <2>. DEFINE s == Rerankers[turn[r]]
  <2>1. s \in Range(Rerankers)
    BY <1>3, Chains DEF CallReranker, RerankerAnswers, RerankerFallsShort, RerankerFails,
                        QuotaExhausted, Types, Position, PositionOf
  <2>2. \/ UNCHANGED <<breaker, run, rest>>
        \/ (\E b : breaker' = [breaker EXCEPT ![s] = b]) /\ UNCHANGED <<run, rest>>
        \/ (\E b : breaker' = [breaker EXCEPT ![s] = b]) /\ UNCHANGED run
           /\ (rest' = rest \/ rest' = [rest EXCEPT ![s] = Quota])
    BY <1>3 DEF CallReranker, RerankerAnswers, RerankerFallsShort, RerankerFails, QuotaExhausted,
                RecordSuccess, history
  <2>. HIDE DEF s
  <2>3. \A p \in Range(Embedders) : p # s
    BY <2>1, EmbeddersAre
  <2>4. \A p \in Range(Embedders) : UNCHANGED <<breaker[p], run[p], rest[p]>>
    BY <2>2, <2>3, EmbeddersAre DEF Types, BreakerTypes, HistoryTypes
  <2>. QED
    BY <2>4, FailingKept
<1>4. ASSUME Tick PROVE FailingInv'
  <2>. SUFFICES ASSUME NEW p \in Range(Embedders)
                PROVE  /\ breaker'[p].failures = run'[p] /\ breaker'[p].span = Reset
                       /\ breaker'[p].left >= rest'[p]
    BY DEF FailingInv
  <2>1. /\ rest'[p] = Down(rest[p]) /\ breaker'[p].left = Down(breaker[p].left)
        /\ breaker'[p].failures = breaker[p].failures /\ breaker'[p].span = breaker[p].span
        /\ run' = run
    BY <1>4, EmbeddersAre DEF Tick, Types, HistoryTypes, BreakerTypes, BreakerType
  <2>2. rest[p] \in Nat /\ breaker[p].left \in Nat
    BY EmbeddersAre, Limits DEF Types, HistoryTypes, BreakerTypes, BreakerType
  <2>3. /\ breaker[p].failures = run[p] /\ breaker[p].span = Reset
        /\ breaker[p].left >= rest[p]
    BY DEF FailingInv
  <2>. QED
    BY <2>1, <2>2, <2>3 DEF Down
<1>5. ASSUME NEW r \in Requests,
             \/ Begin(r) \/ GatewayTimeout(r) \/ Error(r) \/ Lookup(r) \/ CallEmbedder(r)
             \/ RetryEmbedder(r) \/ Retrieve(r) \/ Rank(r) \/ Answer(r)
      PROVE  UNCHANGED <<breaker, run, rest>>
  BY <1>5 DEF Begin, GatewayTimeout, Error, Lookup, CallEmbedder, RetryEmbedder, Retrieve, Rank,
              Answer, history
<1>6. ASSUME Reindex \/ PruneQueries \/ UNCHANGED vars
      PROVE  UNCHANGED <<breaker, run, rest>>
  BY <1>6 DEF Reindex, PruneQueries, vars, history
<1>. QED
  BY <1>1, <1>2, <1>3, <1>4, <1>5, <1>6, FailureCounts DEF Next, Work

\* Who begins to call an embedding provider may: its circuit is closed.
NoneCallsFailing ==
  \A r \in Requests : pc[r] = "embed" /\ pc'[r] = "embedding" => rest[Embedders[turn[r]]] = 0

LEMMA StepLeavesFailing == Types /\ FailingInv /\ [Next]_vars => NoneCallsFailing
<1>. SUFFICES ASSUME Types, FailingInv, [Next]_vars,
                     NEW q \in Requests, pc[q] = "embed", pc'[q] = "embedding"
              PROVE  rest[Embedders[turn[q]]] = 0
  BY DEF NoneCallsFailing
<1>1. CallEmbedder(q)
  <2>1. ASSUME NEW r \in Requests, Begin(r) \/ GatewayTimeout(r) \/ Work(r) \/ Error(r)
        PROVE  CallEmbedder(q)
    <3>1. \/ CallEmbedder(r)
          \/ EmbedderFails(r) /\ pc[r] = "embedding"
          \/ \E step \in Steps \ {"embedding"} : pc' = [pc EXCEPT ![r] = step]
          \/ UNCHANGED pc
      BY <2>1 DEF Begin, GatewayTimeout, Work, Error, Reply, Goto, Lookup, EmbedderAnswers,
                  RetryEmbedder, EmbedderFails, Retrieve, Rank, CallReranker, RerankerAnswers,
                  RerankerFallsShort, RerankerFails, QuotaExhausted, Answer, PassRerank, Steps
    <3>2. CASE UNCHANGED pc
      BY <3>2
    <3>3. CASE \E step \in Steps \ {"embedding"} : pc' = [pc EXCEPT ![r] = step]
      BY <3>3 DEF Types, SearchTypes
    <3>4. CASE EmbedderFails(r) /\ pc[r] = "embedding"
      BY <3>4 DEF EmbedderFails, PassEmbed, Goto, Types, SearchTypes
    <3>5. CASE CallEmbedder(r)
      <4>1. pc' = [pc EXCEPT ![r] = pc'[r]]
        BY <3>5 DEF CallEmbedder, PassEmbed, Goto, Types, SearchTypes
      <4>2. q = r
        BY <4>1 DEF Types, SearchTypes
      <4>. QED
        BY <3>5, <4>2
    <3>. QED
      BY <3>1, <3>2, <3>3, <3>4, <3>5
  <2>2. CASE Reindex \/ PruneQueries \/ Tick \/ UNCHANGED vars
    BY <2>2 DEF Reindex, PruneQueries, Tick, vars
  <2>. QED
    BY <2>1, <2>2 DEF Next
<1>. DEFINE s == Embedders[turn[q]]
<1>2. ~IsOpen(s)
  BY <1>1 DEF CallEmbedder, PassEmbed, Goto, Types, SearchTypes
<1>3. s \in Range(Embedders) /\ s \in Providers
  BY Chains, EmbeddersAre DEF Types, Position, PositionOf
<1>. HIDE DEF s
<1>4. rest[s] \in Nat /\ breaker[s].left \in Nat
  BY <1>3, Limits DEF Types, HistoryTypes, BreakerTypes, BreakerType
<1>5. breaker[s].left >= rest[s]
  BY <1>3 DEF FailingInv
<1>6. rest[s] = 0
  BY <1>2, <1>4, <1>5 DEF IsOpen
<1>. QED
  BY <1>6 DEF s

\* An embedding provider that failed as often in a row as configured is not called again
\* before the reset time has passed since its last failure: the circuit counts every
\* failure of the calls that were under way when it opened, and is stamped anew by each
\* (CircuitBreaker.record_failure).
THEOREM FailingIsLeftAlone == Spec => FailingLeftAlone
<1>1. Init => FailingInv
  BY EmbeddersAre DEF Init, FailingInv, Closed
<1>2. Types /\ FailingInv /\ [Next]_vars => [NoneCallsFailing]_vars
  BY StepLeavesFailing
<1>3. NoneCallsFailing <=> \A r \in Requests :
        pc[r] = "embed" /\ pc'[r] = "embedding" => rest[Embedders[turn[r]]] = 0
  BY DEF NoneCallsFailing
<1>. QED
  BY <1>1, <1>2, <1>3, FailingStep, AlwaysTypes, PTL DEF Spec, FailingLeftAlone
=============================================================================
