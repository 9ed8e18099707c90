\* Two tasks of any kind, tools declared, a page that holds both; two answers
\* of the operator, one restart or lease that ends.
CONSTANTS
    Tasks <- Two
    Kinds <- AllKinds
    DeclaresTools = TRUE
    PageLimit = 2
    MaxAnswers = 2
    MaxMishaps = 1
    NULL = NULL
SPECIFICATION FairSpec
INVARIANTS AnswersInOrder
PROPERTIES AnswersArrive MatchesNotHidden
