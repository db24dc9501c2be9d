CONSTANTS
    N = 5
    Objectives = 2
    Values = {0, 1, 2}
    Vectors <- FourVectors
    Problems <- ManyProblems
    Ratio = 60
    Unit = 4
SPECIFICATION Spec
INVARIANTS RelationIsLexicographic RanksAreLayers PreferredIsCheaper ElitesBest BestBreeds
PROPERTIES RankingEnds
CHECK_DEADLOCK FALSE
