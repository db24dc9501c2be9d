CONSTANTS
    Chains <- Algorithms
    Tag <- AllTags
    SetId <- EightSets
    Mapping <- TenMappings
    PopSize = 3
    Main = "main"
SPECIFICATION Spec
INVARIANTS TypeOK TagsAgree ParentsAreSelected InputsOutliveClear RankedAreEvaluated
           PopulationKept ElitesSurvive NothingLeft
PROPERTIES SelectedUntouched
CHECK_DEADLOCK FALSE
