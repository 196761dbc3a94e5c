\* Four attempts, a budget of two dear calls: every way a Level 1 run can stop.
SPECIFICATION Spec
CONSTANTS
    sqlA = sqlA  sqlB = sqlB
    parseError = parseError  noColumn = noColumn  noTable = noTable
    overloaded = overloaded
    NoSql = NoSql  NoError = NoError
    Sqls = {sqlA, sqlB, NoSql}
    DbErrors = {parseError, noColumn, noTable}
    ApiErrors = {overloaded}
    MaxAttempts = 4
    Budget = 4
    MaxCallCost = 2
INVARIANTS
    TypeOK
    StopsAtTheFirstRepeat
    LedgerIsBounded
PROPERTIES
    Terminates
    KeepsTheContract
\* A run that has ended takes no further step.
CHECK_DEADLOCK FALSE
