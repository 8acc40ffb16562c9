SPECIFICATION Spec
CONSTANTS
    Chars <- MCChars
    Amount <- MCAmount
    Number <- MCNumber
    And = {"waishrin"}
    Ten = "ashr"
    Dollars = {"dollars", "$"}
    Sign = "$"
    Foreign <- MCForeign
    Stopwords = {"for", "and", "in", "under", "over", "than", "between"}
    Arabic <- MCArabic
    Latin <- MCLatin
    Clitics <- MCClitics
    MaxPhrases <- MCMaxPhrases
    MinPhrases <- MCMinPhrases
    Available <- MCAvailable
    Ranges <- MCRanges
    Sorts <- MCSorts
    Categories <- MCCategories
    Places <- MCPlaces
    WeakMax = 1
    Products = {1, 2, 3, 4}
    Detail <- MCDetail
    Labels <- MCLabels
    Brings <- MCBrings
    Opening <- MCOpening
    Indexed <- MCIndexed
    K = 60
    Weights <- MCWeights
    Candidates <- MCCandidates
    Floor = 246000
    Coverage = 95
    Scores = {1, 4}
    MinScore <- MCMinScore
    Gap = 35
    TopK = 2
    Smart = TRUE
    Routing = TRUE
    Queries <- MCQueries
    MaxEdits = 1
    MaxIndexed = 1
INVARIANTS  PagesOnce
PROPERTIES  AnswerTrue
CHECK_DEADLOCK FALSE
