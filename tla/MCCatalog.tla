----------------------------- MODULE MCCatalog ------------------------------
(* Four products and a vocabulary taken from search_aliases.yaml; the Arabic *)
(* words are transliterated, with their own length.                          *)
EXTENDS Catalog, TLC

MCChars ==
    "olive" :> 5 @@ "oil" :> 3 @@ "soap" :> 4 @@ "clay" :> 4 @@ "red" :> 3 @@ "gift" :> 4
    @@ "chouf" :> 5 @@ "deir" :> 4 @@ "qamar" :> 5 @@ "for" :> 3 @@ "and" :> 3 @@ "between" :> 7
    @@ "under" :> 5 @@ "less" :> 4 @@ "than" :> 4 @@ "over" :> 4 @@ "in" :> 2 @@ "stock" :> 5
    @@ "cheapest" :> 8 @@ "five" :> 4 @@ "twenty" :> 6 @@ "10" :> 2 @@ "20" :> 2 @@ "$" :> 1
    @@ "dollars" :> 7 @@ "euros" :> 5 @@ "lebanese" :> 8 @@ "pounds" :> 6
    @@ "taht" :> 3 @@ "khamsa" :> 4 @@ "waishrin" :> 6
    @@ "sabun" :> 5 @@ "walsabun" :> 8 @@ "zayt" :> 3
Words == DOMAIN MCChars
Every(f) == [w \in Words |-> IF w \in DOMAIN f THEN f[w] ELSE {}]

MCAmount == "10" :> 10 @@ "20" :> 20
MCNumber == "five" :> 5 @@ "twenty" :> 20 @@ "khamsa" :> 5
MCArabic == {"taht", "khamsa", "waishrin", "sabun", "walsabun", "zayt"}
MCLatin == Words \ (MCArabic \cup {"10", "20", "$"})
MCClitics == Every("walsabun" :> {"sabun"})
MCForeign == {<<"euros">>, <<"pounds">>, <<"lebanese", "pounds">>}
MCMaxPhrases == <<<<"under">>, <<"less", "than">>, <<"taht">>>>
MCMinPhrases == <<<<"over">>>>
MCAvailable == <<<<"in", "stock">>>>
MCRanges == <<<<<<"between">>, <<"and">>>>>>
MCSorts == <<<<"price_asc", <<<<"cheapest">>>>>>>>
Strong(phrase) == [phrase |-> phrase, strong |-> TRUE]
Weak(phrase) == [phrase |-> phrase, strong |-> FALSE]
MCCategories == <<
    [key |-> "olive-oil", alpha |-> 2, aliases |-> {Strong(<<"olive", "oil">>), Weak(<<"olive">>), Weak(<<"zayt">>)}],
    [key |-> "ceramics", alpha |-> 1, aliases |-> {Weak(<<"clay">>)}],
    [key |-> "soap-skincare", alpha |-> 3, aliases |-> {Strong(<<"soap">>), Strong(<<"sabun">>)}]>>
MCPlaces == <<
    [key |-> "chouf", aliases |-> {Strong(<<"chouf">>)}, origins |-> {"Chouf"}, children |-> {"deir-el-qamar"}],
    [key |-> "deir-el-qamar", aliases |-> {Strong(<<"deir", "qamar">>)}, origins |-> {"Deir el Qamar"}, children |-> {}]>>

MCDetail == [p \in 1..4 |->
    [category |-> <<"olive-oil", "soap-skincare", "soap-skincare", "ceramics">>[p],
     origin |-> <<"Deir el Qamar", "Chouf", "Beirut", "Chouf">>[p],
     rating |-> <<4, 5, 5, 3>>[p], reviews |-> <<2, 1, 3, 1>>[p], created |-> p,
     name |-> <<<<"olive", "oil">>, <<"olive", "soap">>, <<"soap">>, <<"red", "clay">>>>[p]]]
MCOpening == [p \in 1..4 |-> [price |-> <<10, 30, 20, 20>>[p], stock |-> <<1, 1, 0, 1>>[p]]]
MCIndexed == {<<1..4, 2..4>>, <<2..4, 2..4>>}
MCLabels == "olive-oil" :> <<>> @@ "soap-skincare" :> <<"soap">> @@ "ceramics" :> <<"clay">>
            @@ "Deir el Qamar" :> <<"deir", "qamar">> @@ "Chouf" :> <<"chouf">> @@ "Beirut" :> <<>>
MCBrings ==
    "semantic" :> Every("olive" :> {1, 2} @@ "oil" :> {1} @@ "soap" :> {2, 3} @@ "clay" :> {4} @@ "red" :> {3, 4}
                        @@ "gift" :> {2, 4} @@ "sabun" :> {2, 3} @@ "walsabun" :> {2, 3} @@ "zayt" :> {1, 2})
    @@ "documents" :> Every("olive" :> {1, 2} @@ "oil" :> {1, 2} @@ "soap" :> {2, 3} @@ "clay" :> {4} @@ "red" :> {4}
                            @@ "chouf" :> {2, 4} @@ "deir" :> {1} @@ "qamar" :> {1} @@ "sabun" :> {2, 3} @@ "zayt" :> {1})
    @@ "catalog" :> Every("olive" :> {1, 2} @@ "oil" :> {1, 2} @@ "soap" :> {2, 3} @@ "clay" :> {4} @@ "red" :> {4}
                          @@ "chouf" :> {4} @@ "stock" :> {3})
    @@ "name" :> Every("olive" :> {1, 2} @@ "soap" :> {2, 3} @@ "clay" :> {4})
    @@ "place" :> Every("chouf" :> {2, 4} @@ "deir" :> {1} @@ "qamar" :> {1})

Query(text) == [text |-> text, blank |-> FALSE, explicit |-> Nothing, size |-> 2, tool |-> FALSE]
With(query, name, value) == [query EXCEPT !.explicit[name] = {value}]
Tool(query, sort) == [With(query, "sort", sort) EXCEPT !.tool = TRUE]
MCQueries == {
    Tool(Query(<<"cheapest", "olive", "oil">>), "rating"),
    Tool([Query(<<>>) EXCEPT !.blank = TRUE], "price_desc"),
    Tool(With(Query(<<>>), "in_stock_only", TRUE), "rating"),
    With([Query(<<>>) EXCEPT !.blank = TRUE], "sort", "newest"),
    With(Query(<<>>), "category", "soap-skincare"),
    Query(<<"olive", "soap", "under", "20">>),
    [Query(<<"red", "olive">>) EXCEPT !.size = 3],
    Query(<<"soap", "between", "10", "and", "20", "over", "20">>),
    Query(<<"cheapest", "soap", "for", "chouf">>),
    Query(<<"soap", "under", "20", "euros", "in", "stock">>),
    Query(<<"cheapest", "red", "clay", "under", "$", "20">>),
    Query(<<"clay", "under", "20", "lebanese", "pounds">>),
    Query(<<"cheapest", "in", "stock">>),
    Query(<<"gift", "under", "twenty", "five", "dollars">>),
    Query(<<"soap", "over", "20", "less", "than", "10">>),
    Query(<<"zayt", "walsabun", "taht", "khamsa", "waishrin">>),
    Query(<<"deir", "qamar", "clay">>),
    With(With(Query(<<"olive">>), "origin", "chouf"), "in_stock_only", TRUE),
    With(Query(<<"soap", "under", "20">>), "max_price", 30),
    With(Query(<<"olive", "soap">>), "sort", "price_desc"),
    With(Query(<<"cheapest", "olive", "oil">>), "min_price", 10)}
MCCandidates == "sem" :> 4 @@ "lex" :> 4 @@ "trg" :> 2
MCWeights == "sem" :> 2 @@ "lex" :> 2 @@ "trg" :> 1
MCMinScore == "en" :> 2 @@ "ar" :> 1 @@ "mixed" :> 1
=============================================================================
