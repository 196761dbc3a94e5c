\* Two workers that drain and may die, two producers racing in their process and one
\* locked out from its own terminal: safety, refinement and liveness.
SPECIFICATION FairSpec
CONSTANTS
    w1 = w1  w2 = w2  p1 = p1  p2 = p2  p3 = p3  gold = gold  free = free
    Workers = {w1, w2}
    Producers = {p1, p2, p3}
    ProcessOf <- OneTerminal
    Questions = {gold, free}
    GoldQuestions = {gold}
    MaxIdle = 2
    MaxRows = 2
INVARIANTS
    TypeOK
    ClaimedRowsAreAccountedFor
    ReceiptsAreHonoured
PROPERTIES
    ImplementsPromise
    EveryRowIsSettled
