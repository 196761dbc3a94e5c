\* Four attempts, a budget of two dear calls: every way a Level 2 run can stop.
SPECIFICATION Spec
CONSTANTS
    sqlA = sqlA  sqlB = sqlB
    noColumn = noColumn  noTable = noTable  softDelete = softDelete  fanOut = fanOut
    overloaded = overloaded
    NoSql = NoSql  NoError = NoError
    Sqls = {sqlA, sqlB, NoSql}
    DbErrors = {noColumn, noTable}
    Complaints = {softDelete, fanOut}
    ApiErrors = {overloaded}
    MaxAttempts = 4
    Budget = 4
    MaxCallCost = 2
INVARIANTS
    TypeOK
    SuccessIsTheVerifiedQuery
    ConversationFollowsTheAttempts
    StopsAtTheFirstRepeat
    LedgerIsBounded
PROPERTIES
    Terminates
    KeepsTheContract
    UntilAComplaintItIsLevel1
\* A run that has ended takes no further step.
CHECK_DEADLOCK FALSE
