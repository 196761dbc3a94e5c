\* Every question of each topic.
SPECIFICATION Spec
CONSTANTS
    Tolerance = 1
    Raises = Raises
    MaxJobs = 4
    PerArm = 2
    RerunItems = 1
INVARIANTS
    CorrectMeansTheSameAnswer
    WrongAnswersAreLaidToTheirRules
    MoneyIsCountedOnce
    DroppedRulesAreToldApart
    DeclinedAnswersAreCounted
    PicksCoverThePatterns
    ProbedVerifiersCanBeTrusted
    ClaimsFollowFromThePairs
    OrderOfFilesDoesNotShow
    LedgersAddUp
    PassesTellWhatHappened
PROPERTIES
    EveryPassEnds
