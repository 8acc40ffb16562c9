------------------------------- MODULE Parser -------------------------------
(***************************************************************************)
(* What the AI service reads out of a search text (IntentParser, the alias *)
(* library) and which filters a search then has (resolve_filters).  A text *)
(* is a sequence of words: it has been normalised, folded and split where  *)
(* it has spaces, before "%" or after "$".  Values that may be absent are  *)
(* sets of at most one element.                                            *)
(***************************************************************************)
EXTENDS Integers, Sequences, FiniteSets, SequencesExt, FiniteSetsExt

CONSTANTS
    Chars,                  \* the length of every word
    Amount,                 \* the words written in digits, and their value
    Number,                 \* the number words, and their value
    And, Ten,               \* number words with "wa" before them; the Arabic ten
    Dollars, Sign,          \* the words for the shop's currency; "$" among them
    Foreign,                \* other currencies, as phrases
    Stopwords, Arabic, Latin,
    Clitics,                \* what a word is without its particle or suffix
    MaxPhrases, MinPhrases, Available,    \* phrases, in the order of the file
    Ranges,                 \* templates: the words before {a}, and between {a} and {b}
    Sorts,                  \* <<key, phrases>> in the order of SORT_KEYS
    Categories,             \* [key, alpha, aliases], alpha: place of the slug in the alphabet
    Places,                 \* [key, aliases, origins, children]
    WeakMax                 \* weak_alias_max_extra_tokens

Window == 12
Names == {"category", "origin", "min_price", "max_price", "in_stock_only", "sort"}
Nothing == [n \in Names |-> {}]

-----------------------------------------------------------------------------
(* Phrases in a text.                                                      *)

Positions(t) == [i \in DOMAIN t |-> i]
(* The letters of the words, with a blank behind each. *)
Length(words) == FoldLeft(LAMBDA sum, w : sum + Chars[w] + 1, 0, words)
Letters(phrase) == Length(phrase) - 1
Offset(t, i) == Length(SubSeq(t, 1, i - 1))

(* A span holds the words from..to-1, and the blank behind them if trail = 1. *)
Span(i, j, trail) == [from |-> i, to |-> j, trail |-> trail]
Overlaps(s, taken) == \E o \in taken : s.from < o.to /\ o.from < s.to

WordFits(word, phrase, j) ==
    word = phrase[j] \/ (j \in {1, Len(phrase)} /\ phrase[j] \in Clitics[word])
(* Phrases are made of words; those of availability and order have no     *)
(* figures in them.                                                        *)
ASSUME ParserAssumption ==
    LET Phrases == Seq(Seq(DOMAIN Chars))
    IN /\ \A w \in DOMAIN Chars : Chars[w] \in Nat
       /\ Foreign \subseteq Seq(DOMAIN Chars)
       /\ {MaxPhrases, MinPhrases, Available} \subseteq Phrases
       /\ Ranges \in Seq(Seq(DOMAIN Chars) \X Seq(DOMAIN Chars))
       /\ Sorts \in Seq(Range(Sorts)) /\ \A s \in Range(Sorts) : s[2] \in Phrases
       /\ \A phrases \in {Available} \cup {s[2] : s \in Range(Sorts)} :
              \A k \in DOMAIN phrases, w \in DOMAIN Amount :
                  \A j \in DOMAIN phrases[k] : ~WordFits(w, phrases[k], j)

Occurrences(t, phrase) ==
    {i \in 1..(Len(t) - Len(phrase) + 1) :
        \A j \in DOMAIN phrase : WordFits(t[i + j - 1], phrase, j)}

Verbatim(t, phrase) ==
    {i \in 1..(Len(t) - Len(phrase) + 1) : \A j \in DOMAIN phrase : t[i + j - 1] = phrase[j]}

(* sorted(aliases, key=len, reverse=True): the place of the k-th phrase. *)
Turn(phrases, k) == Cardinality({j \in DOMAIN phrases :
    \/ Letters(phrases[j]) > Letters(phrases[k])
    \/ Letters(phrases[j]) = Letters(phrases[k]) /\ j < k})

Earliest(S, Place(_)) == {x \in S : \A y \in S : Place(x) <= Place(y)}

FirstMatch(t, phrases, taken) ==
    LET spans == {[turn |-> Turn(phrases, k),
                   span |-> Span(Min(Occurrences(t, phrases[k])),
                                 Min(Occurrences(t, phrases[k])) + Len(phrases[k]), 0)] :
                  k \in {k \in DOMAIN phrases : Occurrences(t, phrases[k]) # {}}}
        free == {m \in spans : ~Overlaps(m.span, taken)}
    IN {m.span : m \in Earliest(free, LAMBDA m : m.turn)}

-----------------------------------------------------------------------------
(* Prices.                                                                 *)

(* Digits, with the currency before or behind (NUMBER_PATTERN).            *)
Figures(t, i) ==
    LET a == IF i \in DOMAIN t /\ t[i] \in Dollars THEN i + 1 ELSE i
        dollars == a + 1 \in DOMAIN t /\ t[a + 1] \in Dollars
    IN IF a \notin DOMAIN t \/ t[a] \notin DOMAIN Amount THEN {}
       ELSE {[value |-> Amount[t[a]], to |-> IF dollars THEN a + 2 ELSE a + 1,
              trail |-> IF ~dollars /\ a + 1 \in DOMAIN t THEN 1 ELSE 0]}

(* One or two number words; two that make no number are no price at all.   *)
Together(a, b, ten) ==
    CASE a = 100                          -> {100 + b}
      [] a # 100 /\ b = 100               -> {a * 100}
      [] 100 \notin {a, b} /\ ten /\ a \in 1..9 -> {10 + a}
      [] a >= 20 /\ b < 10 /\ a # 100     -> {a + b}
      [] b >= 20 /\ a < 10 /\ b # 100     -> {b + a}
      [] OTHER                            -> {}
Spoken(t, i) ==
    LET a == IF i \in DOMAIN t /\ t[i] = Sign THEN i + 1 ELSE i
        b == a + 1
    IN IF a \notin DOMAIN t \/ t[a] \notin DOMAIN Number THEN {}
       ELSE IF b \in DOMAIN t /\ t[b] \in DOMAIN Number
       THEN {[value |-> v, to |-> b + 1, trail |-> 0] :
                v \in Together(Number[t[a]], Number[t[b]], t[b] = Ten)}
       ELSE {[value |-> Number[t[a]], trail |-> 0,
              to |-> IF b \in DOMAIN t /\ t[b] \in And THEN b + 1 ELSE b]}

Price(t, i) == IF Figures(t, i) # {} THEN Figures(t, i) ELSE Spoken(t, i)

ForeignNearAnywhere(t, s) ==    \* mutant
    \E phrase \in Foreign : \E i \in Verbatim(t, phrase) : i \in s.from..(s.to - 1)
(* A foreign currency within Window letters of an amount: not our price.   *)
ForeignNear(t, s) == \E phrase \in Foreign : \E i \in Verbatim(t, phrase) :
    /\ Offset(t, i) >= Offset(t, s.from) - Window
    /\ Offset(t, i) + Letters(phrase) <= Offset(t, s.to) - 1 + s.trail + Window

RangeAt(t, template, i) ==
    LET before == template[1]
        mid == template[2]
    IN UNION {{[bounds |-> {low.value, high.value}, span |-> Span(i, high.to, 0)] :
                  high \in IF low.to \in Occurrences(t, mid) THEN Figures(t, low.to + Len(mid)) ELSE {}} :
              low \in IF before = <<>> \/ i \in Occurrences(t, before)
                      THEN Figures(t, i + Len(before)) ELSE {}}
(* re.finditer: from the left, none that begins within the one before.     *)
Scan(t, template) ==
    FoldLeft(LAMBDA seen, i :
                 seen \cup {m \in RangeAt(t, template, i) : ~Overlaps(m.span, {x.span : x \in seen})},
             {}, Positions(t))
RangesOf(t, template) == {m \in Scan(t, template) : ~ForeignNear(t, m.span)}

PriceRange(t) ==
    LET some == {k \in DOMAIN Ranges : RangesOf(t, Ranges[k]) # {}}
    IN IF some = {} THEN {} ELSE Earliest(RangesOf(t, Ranges[Min(some)]), LAMBDA m : m.span.from)

BoundedPrice(t, phrases, taken) ==
    LET PricesAt(k, i) == {[place |-> Turn(phrases, k) * (Len(t) + 1) + i, value |-> n.value,
                           span |-> Span(i, n.to, n.trail)] : n \in Price(t, i + Len(phrases[k]))}
        found == UNION {UNION {PricesAt(k, i) : i \in Occurrences(t, phrases[k])} : k \in DOMAIN phrases}
        good == {m \in found : ~Overlaps(m.span, taken) /\ ~ForeignNear(t, m.span)}
    IN Earliest(good, LAMBDA m : m.place)

(* The bounds, and the spans they were read from. *)
Bounds(between, max, min) ==
    IF between # {}
    THEN [min |-> {Min(m.bounds) : m \in between}, max |-> {Max(m.bounds) : m \in between},
          spans |-> {m.span : m \in between}]
    ELSE [min |-> {m.value : m \in min}, max |-> {m.value : m \in max},
          spans |-> {m.span : m \in max \cup min}]
WithMin(t, between, max) == Bounds(between, max, BoundedPrice(t, MinPhrases, {m.span : m \in max}))
Prices(t) == WithMin(t, PriceRange(t), BoundedPrice(t, MaxPhrases, {}))

-----------------------------------------------------------------------------
(* Availability, order, category and origin.                               *)

SortOf(t, taken) ==
    LET some == {k \in DOMAIN Sorts : FirstMatch(t, Sorts[k][2], taken) # {}}
    IN IF some = {} THEN [key |-> {}, spans |-> {}]
       ELSE [key |-> {Sorts[Min(some)][1]}, spans |-> FirstMatch(t, Sorts[Min(some)][2], taken)]

Strip(t, taken) ==
    FoldLeft(LAMBDA kept, i : IF Overlaps(Span(i, i + 1, 0), taken) THEN kept ELSE Append(kept, t[i]),
             <<>>, Positions(t))

WeakApplies(phrase, semantic) ==
    Cardinality({i \in DOMAIN semantic :
        /\ semantic[i] \notin Range(phrase) \cup Stopwords \cup DOMAIN Amount}) <= WeakMax
Applying(t, semantic, aliases) ==
    {a \in aliases : /\ Occurrences(t, a.phrase) # {}
                     /\ a.strong \/ WeakApplies(a.phrase, semantic)}

(* The longest alias decides, and of equals the first of the file.         *)
BestAlias(t, semantic, table) ==
    LET hits == {k \in DOMAIN table : Applying(t, semantic, table[k].aliases) # {}}
        Longest(k) == Max({Letters(a.phrase) : a \in Applying(t, semantic, table[k].aliases)})
        best == {k \in hits : \A j \in hits : Longest(j) <= Longest(k)}
    IN IF hits = {} THEN {} ELSE {Min(best)}

Language(t) ==
    LET ar == \E i \in DOMAIN t : t[i] \in Arabic
        en == \E i \in DOMAIN t : t[i] \in Latin
    IN IF ar /\ en THEN "mixed" ELSE IF ar THEN "ar" ELSE "en"

(* Of several categories the head noun wins: the first in Arabic, else the last. *)
CategoryOf(t, semantic) ==
    LET hits == {k \in DOMAIN Categories : Applying(t, semantic, Categories[k].aliases) # {}}
        At(k) == Min(UNION {Occurrences(t, a.phrase) : a \in Applying(t, semantic, Categories[k].aliases)})
        Before(j, k) == At(j) < At(k) \/ (At(j) = At(k) /\ Categories[j].alpha < Categories[k].alpha)
        heads == {k \in hits : \A j \in hits \ {k} :
                     IF Language(t) = "ar" THEN Before(k, j) ELSE Before(j, k)}
    IN {Categories[k].key : k \in IF Cardinality(hits) > 1 THEN heads
                                  ELSE BestAlias(t, semantic, Categories)}
OriginOf(t, semantic) == {Places[k].key : k \in BestAlias(t, semantic, Places)}

-----------------------------------------------------------------------------
(* Prices first, then availability, the order, and the words that are left. *)
Intent(t, prices, stock, sort, semantic) ==
    [rejected |-> \E a \in prices.min, b \in prices.max : a > b,
     text |-> t, semantic |-> semantic, language |-> Language(t),
     taken |-> prices.spans \cup stock \cup sort.spans,
     inferred |-> [n \in Names |->
         CASE n = "category" -> CategoryOf(t, semantic)
           [] n = "origin" -> OriginOf(t, semantic)
           [] n = "min_price" -> prices.min
           [] n = "max_price" -> prices.max
           [] n = "in_stock_only" -> IF stock = {} THEN {} ELSE {TRUE}
           [] n = "sort" -> sort.key]]
WithRest(t, prices, stock, sort) ==
    Intent(t, prices, stock, sort, Strip(t, prices.spans \cup stock \cup sort.spans))
WithSort(t, prices, stock) == WithRest(t, prices, stock, SortOf(t, prices.spans \cup stock))
WithStock(t, prices) == WithSort(t, prices, FirstMatch(t, Available, prices.spans))
Parse(t) == WithStock(t, Prices(t))

(* The origins of a place and of the places within it. *)
Within(key) ==
    LET Inner(S) == S \cup UNION {p.children : p \in {q \in Range(Places) : q.key \in S}}
        reach[n \in 0..Len(Places)] == IF n = 0 THEN {key} ELSE Inner(reach[n - 1])
    IN reach[Len(Places)]
OriginsFor(key) == UNION {p.origins : p \in {q \in Range(Places) : q.key \in Within(key)}}

(* What was chosen wins; what was read and not waved away fills the rest,  *)
(* and is reported even where a choice displaces it.                       *)
AppliedAnyway(intent, ignored, n) == intent.inferred[n]    \* mutant
Applied(intent, ignored, n) == IF n \in ignored THEN {} ELSE intent.inferred[n]
Filters(intent, taken, effective, ignored) ==
    [rejected |-> \E a \in effective["min_price"], b \in effective["max_price"] : a > b,
     by |-> [effective EXCEPT
                !["in_stock_only"] = IF @ = {} THEN {FALSE} ELSE @,
                !["sort"] = CASE @ # {} -> @
                              [] @ = {} /\ intent.text # <<>> -> {"relevance"}
                              [] @ = {} /\ intent.text = <<>> -> {"newest"}],
     origins |-> UNION {OriginsFor(k) : k \in effective["origin"]},
     reported |-> taken,
     ignored |-> ignored \cap Names]
Chosen(explicit, taken) == [n \in Names |-> IF explicit[n] # {} THEN explicit[n] ELSE taken[n]]
Merge(intent, explicit, taken, ignored) == Filters(intent, taken, Chosen(explicit, taken), ignored)
Resolve(intent, explicit, ignored) ==
    Merge(intent, explicit, [n \in Names |-> Applied(intent, ignored, n)], ignored)

HasFilters(f) == \/ f.by["category"] # {} \/ f.origins # {} \/ f.by["min_price"] # {}
                 \/ f.by["max_price"] # {} \/ TRUE \in f.by["in_stock_only"]
=============================================================================
