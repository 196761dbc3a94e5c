\* A row whose answer the verifier rejected to the end.
SPECIFICATION Spec
CONSTANTS
    w1 = w1  w2 = w2  p1 = p1  p2 = p2  p3 = p3  gold = gold  free = free
    Workers = {w1}
    Producers = {p1}
    ProcessOf <- OneProcess
    Questions = {gold, free}
    GoldQuestions = {gold}
    MaxIdle = 0
    MaxRows = 2
INVARIANT RejectedAnswersAreFailed
