------------------------------ MODULE AgentLoop ------------------------------
(***************************************************************************)
(* Level 1, agent/loop.py run_question: ask the model for SQL, run it on   *)
(* the warehouse, and send the error back until a query executes.          *)
(*                                                                         *)
(* SQL texts, database errors and API errors are abstract values, compared *)
(* for equality as the loop compares them.  An iteration of the for loop   *)
(* is three steps: the budget check, the model call, the query.  Every     *)
(* iteration appends one attempt, so the loop index is Len(attempts) + 1.  *)
(***************************************************************************)
EXTENDS Naturals, Sequences

CONSTANTS
    MaxAttempts,    \* max_attempts
    Budget,         \* budget_usd, in units of cost
    MaxCallCost,    \* the most one answered call is priced at
    Sqls,           \* the queries the model can produce
    DbErrors,       \* what the database (or the query timeout) can complain of
    ApiErrors,      \* the retryable failures of a call: 429, 5xx, timeouts
    NoSql,          \* the empty text: of a failed call, or of a reply without text
    NoError

ASSUME AgentAssumption ==
    /\ MaxAttempts \in Nat /\ Budget \in Nat /\ MaxCallCost \in Nat
    /\ NoError \notin DbErrors \cup ApiErrors
    /\ DbErrors \cap ApiErrors = {}

\* FATAL_CALL_ERRORS, by the reason triage_call_failure stops the run with.
Refusals == {"credential", "bad_request"}

ASSUME RefusalAssumption ==
    /\ Refusals \cap (DbErrors \cup ApiErrors) = {}
    /\ NoError \notin Refusals

VARIABLES
    pc,             \* "setup", "top" of the loop, "calling", "querying", "done", "raised"
    sql,            \* the query of the attempt in progress
    attempts,       \* the attempts, in order
    ledger,         \* UsageLedger: the calls recorded and what they add up to
    seenSql, seenErrors,
    termination

vars == <<pc, sql, attempts, ledger, seenSql, seenErrors, termination>>

Attempts == [sql    : Sqls \cup {NoSql},
             error  : DbErrors \cup ApiErrors \cup Refusals \cup {NoError},
             called : BOOLEAN]     \* usage.outcome = "ok"

Init ==
    /\ pc = "setup"
    /\ sql = NoSql
    /\ attempts = <<>>
    /\ ledger = [calls |-> 0, cost |-> 0]
    /\ seenSql = {} /\ seenErrors = {}
    /\ termination = "max_attempts"

-----------------------------------------------------------------------------
Stop(reason) == pc' = "done" /\ termination' = reason

NothingRecorded == UNCHANGED <<sql, attempts, ledger, seenSql, seenErrors>>

\* The role's model and, with no client given, the credential are looked up first.
SetUp == pc = "setup" /\ pc' = "top" /\ NothingRecorded /\ UNCHANGED termination

\* An unknown role, a missing credential: the caller gets no run at all.
Raise == pc = "setup" /\ pc' = "raised" /\ NothingRecorded /\ UNCHANGED termination

\* The for loop runs out: the reason is the one it started with.
RunsOut ==
    /\ pc = "top"
    /\ Len(attempts) >= MaxAttempts
    /\ Stop(termination)
    /\ NothingRecorded

OverBudget ==
    /\ pc = "top"
    /\ Len(attempts) < MaxAttempts
    /\ ledger.cost >= Budget
    /\ Stop("budget")
    /\ NothingRecorded

\* Mutant of Ask: a budget that nobody checks before spending.
Ask_Unchecked ==
    /\ pc = "top"
    /\ Len(attempts) < MaxAttempts
    /\ pc' = "calling"
    /\ NothingRecorded
    /\ UNCHANGED termination

Ask ==
    /\ pc = "top"
    /\ Len(attempts) < MaxAttempts
    /\ ledger.cost < Budget
    /\ pc' = "calling"
    /\ NothingRecorded
    /\ UNCHANGED termination

\* UsageLedger.record: one more call, at its own cost.
Record(cost) == ledger' = [calls |-> ledger.calls + 1, cost |-> ledger.cost + cost]

Answered(s, cost) ==
    /\ pc = "calling"
    /\ sql' = s
    /\ Record(cost)
    /\ pc' = "querying"
    /\ UNCHANGED <<attempts, seenSql, seenErrors, termination>>

\* Mutant of CallFailed: its message joins seen_errors.
CallFailed_Remembered(message) ==
    /\ pc = "calling"
    /\ Record(0)
    /\ attempts' = Append(attempts, [sql |-> NoSql, error |-> message, called |-> FALSE])
    /\ seenErrors' = seenErrors \cup {message}
    /\ UNCHANGED <<sql, seenSql>>

\* CallUsage(model_id, "error") has no tokens, so the call costs nothing here.
CallFailed(message) ==
    /\ pc = "calling"
    /\ Record(0)
    /\ attempts' = Append(attempts, [sql |-> NoSql, error |-> message, called |-> FALSE])
    /\ UNCHANGED <<sql, seenSql, seenErrors>>

\* Mutant of CallRetried: a retry that does not use up an attempt.
CallRetried_Free(e) == pc = "calling" /\ pc' = "top" /\ NothingRecorded /\ UNCHANGED termination

CallRetried(e) ==
    /\ CallFailed(e)
    /\ pc' = "top"
    /\ UNCHANGED termination

CallRefused(reason) == CallFailed(reason) /\ Stop(reason)

Attempted(error) ==
    /\ pc = "querying"
    /\ attempts' = Append(attempts, [sql |-> sql, error |-> error, called |-> TRUE])
    /\ UNCHANGED <<sql, ledger>>

QueryRuns == Attempted(NoError) /\ Stop("success") /\ UNCHANGED <<seenSql, seenErrors>>

\* Mutant of Repeats: both must come back.
Repeats_Both(e) == sql \in seenSql /\ e \in seenErrors

Repeats(e) == sql \in seenSql \/ e \in seenErrors

\* Mutant of QueryFails: an error of the database that nobody catches.
QueryFails_Uncaught(e) ==
    pc = "querying" /\ pc' = "raised" /\ NothingRecorded /\ UNCHANGED termination

QueryFails(e) ==
    /\ Attempted(e)
    /\ IF Repeats(e)
         THEN Stop("no_progress") /\ UNCHANGED <<seenSql, seenErrors>>
         ELSE /\ pc' = "top"
              /\ seenSql' = seenSql \cup {sql}
              /\ seenErrors' = seenErrors \cup {e}
              /\ UNCHANGED termination

Next ==
    \/ SetUp \/ Raise \/ RunsOut \/ OverBudget \/ Ask \/ QueryRuns
    \/ \E s \in Sqls, cost \in 0..MaxCallCost : Answered(s, cost)
    \/ \E e \in ApiErrors : CallRetried(e)
    \/ \E reason \in Refusals : CallRefused(reason)
    \/ \E e \in DbErrors : QueryFails(e)

\* A call and a query both end, by answer or by timeout, and the loop goes on.
Spec == Init /\ [][Next]_vars /\ WF_vars(Next)

-----------------------------------------------------------------------------
TypeOK ==
    /\ pc \in {"setup", "top", "calling", "querying", "done", "raised"}
    /\ sql \in Sqls \cup {NoSql}
    /\ attempts \in Seq(Attempts)
    /\ ledger \in [calls : Nat, cost : Nat]
    /\ seenSql \subseteq Sqls /\ seenErrors \subseteq DbErrors
    /\ termination \in {"success", "max_attempts", "budget", "no_progress"} \cup Refusals

\* The attempts that reached the database and failed there.
Failures == {i \in DOMAIN attempts : attempts[i].called /\ attempts[i].error # NoError}

RepeatsEarlier(i) ==
    \E j \in Failures : j < i /\ (attempts[j].sql = attempts[i].sql
                                 \/ attempts[j].error = attempts[i].error)

\* "The same query twice, or the same complaint twice" stops the run at once and
\* nothing else does: failed calls in between neither hide a repeat nor count
\* as one.
StopsAtTheFirstRepeat ==
    \A i \in Failures :
        RepeatsEarlier(i) <=> i = Len(attempts) /\ termination = "no_progress"

\* The cap is checked before each call, so what the ledger knows of exceeds it by less
\* than one call; no call goes missing from the ledger and no attempt is in it twice.
LedgerIsBounded ==
    /\ ledger.cost < Budget + MaxCallCost \/ ledger.cost = 0
    /\ termination = "budget" => ledger.cost >= Budget
    /\ ledger.calls = Len(attempts) + (IF pc = "querying" THEN 1 ELSE 0)

\* Whatever the model, the API and the database do, the run ends.
Terminates == <>(pc \in {"done", "raised"})

KindOf(a) ==
    CASE a.error \in Refusals -> "refused"
      [] a.error \in ApiErrors -> "call_failed"
      [] a.error \in DbErrors -> "db_error"
      [] OTHER -> "accepted"

Log == [i \in DOMAIN attempts |-> KindOf(attempts[i])]

Verdict == CASE pc = "done"   -> termination
             [] pc = "raised" -> "raised"
             [] OTHER         -> "running"

Contract == INSTANCE AnswerContract WITH log <- Log, verdict <- Verdict

\* Level 1 keeps the contract of an answering run, and "never raises on a model or SQL
\* failure": a run that raises has called nobody, and so has lost no attempt and no money.
KeepsTheContract ==
    Contract!Init /\ [][Contract!Next /\ (Contract!Raise => ledger.calls = 0)]_(Contract!vars)

=============================================================================
