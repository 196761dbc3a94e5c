----------------------------- MODULE VerifiedLoop -----------------------------
(***************************************************************************)
(* Level 2, verify/loop.py run_verified: ask the model for SQL, run it,    *)
(* verify it, and send back the error or the verifier's complaint until a  *)
(* query both executes and passes.  Three parallel records are kept: the   *)
(* attempts of the result, the conversation the next call is built from,   *)
(* and the two sets that detect a repetition.                              *)
(*                                                                         *)
(* The verifier is any function of the attempt: it accepts, complains or   *)
(* raises.  The abstractions are those of AgentLoop.                       *)
(***************************************************************************)
EXTENDS Naturals, Sequences

CONSTANTS
    MaxAttempts, Budget, MaxCallCost, Sqls, DbErrors, ApiErrors, NoSql, NoError,
    Complaints      \* what the verifier can object, as VerifyResult.feedback puts it

\* FATAL_CALL_ERRORS, by the reason triage_call_failure stops the run with.
Refusals == {"credential", "bad_request"}

CallErrors == ApiErrors \cup Refusals

ASSUME VerifiedAssumption ==
    /\ MaxAttempts \in Nat /\ Budget \in Nat /\ MaxCallCost \in Nat
    /\ NoError \notin DbErrors \cup CallErrors \cup Complaints
    /\ DbErrors \cap CallErrors = {} /\ ApiErrors \cap Refusals = {}
    /\ Complaints \cap (DbErrors \cup CallErrors) = {}

VARIABLES
    pc,             \* "setup", "top" of the loop, "calling", "querying", "done", "raised"
    sql,            \* the query of the attempt in progress
    attempts,       \* VerifiedAttempts: each attempt with the complaint about it
    conversation,   \* plain_attempts: the turns _build_messages is given
    ledger,         \* UsageLedger: the calls recorded and what they add up to
    seenSql, seenFeedback,
    termination

vars == <<pc, sql, attempts, conversation, ledger, seenSql, seenFeedback, termination>>

Turns == [sql : Sqls \cup {NoSql}, feedback : DbErrors \cup CallErrors \cup Complaints]

Attempts == [sql       : Sqls \cup {NoSql},
             error     : DbErrors \cup CallErrors \cup {NoError},
             complaint : Complaints \cup {NoError}]

Init ==
    /\ pc = "setup"
    /\ sql = NoSql
    /\ attempts = <<>> /\ conversation = <<>>
    /\ ledger = [calls |-> 0, cost |-> 0]
    /\ seenSql = {} /\ seenFeedback = {}
    /\ termination = "max_attempts"

-----------------------------------------------------------------------------
Stop(reason) == pc' = "done" /\ termination' = reason

NothingRecorded == UNCHANGED <<sql, attempts, conversation, ledger, seenSql, seenFeedback>>

\* The role and, with no client given, the credential are looked up first.
SetUp == pc = "setup" /\ pc' = "top" /\ NothingRecorded /\ UNCHANGED termination

\* A setup that fails, or a verifier that raises: the caller gets no run at all.
Raise ==
    /\ pc \in {"setup", "querying"}
    /\ pc' = "raised"
    /\ NothingRecorded
    /\ UNCHANGED termination

\* The for loop runs out: the reason is the one it started with.
RunsOut ==
    /\ pc = "top"
    /\ Len(attempts) >= MaxAttempts
    /\ Stop(termination)
    /\ NothingRecorded

OverBudget ==
    /\ pc = "top"
    /\ Len(attempts) < MaxAttempts
    /\ ledger.cost >= Budget
    /\ Stop("budget")
    /\ NothingRecorded

\* Mutant of Ask: a budget that nobody checks before spending.
Ask_Unchecked ==
    /\ pc = "top"
    /\ Len(attempts) < MaxAttempts
    /\ pc' = "calling"
    /\ NothingRecorded
    /\ UNCHANGED termination

Ask ==
    /\ pc = "top"
    /\ Len(attempts) < MaxAttempts
    /\ ledger.cost < Budget
    /\ pc' = "calling"
    /\ NothingRecorded
    /\ UNCHANGED termination

\* UsageLedger.record: one more call, at its own cost.
Record(cost) == ledger' = [calls |-> ledger.calls + 1, cost |-> ledger.cost + cost]

Answered(s, cost) ==
    /\ pc = "calling"
    /\ sql' = s
    /\ Record(cost)
    /\ pc' = "querying"
    /\ UNCHANGED <<attempts, conversation, seenSql, seenFeedback, termination>>

\* What the next call is told: the assistant's query, and what was wrong with it.
Tell(s, feedback) == conversation' = Append(conversation, [sql |-> s, feedback |-> feedback])

\* Mutants of CallFailed: its message joins seen_feedback; it is left out of the
\* conversation; it clears what was seen.
CallFailed_Remembered(message) ==
    /\ pc = "calling"
    /\ Record(0)
    /\ attempts' = Append(attempts, [sql |-> NoSql, error |-> message, complaint |-> NoError])
    /\ Tell(NoSql, message)
    /\ seenFeedback' = seenFeedback \cup {message}
    /\ UNCHANGED <<sql, seenSql>>

CallFailed_Untold(message) ==
    /\ pc = "calling"
    /\ Record(0)
    /\ attempts' = Append(attempts, [sql |-> NoSql, error |-> message, complaint |-> NoError])
    /\ UNCHANGED <<sql, conversation, seenSql, seenFeedback>>

CallFailed_Forgets(message) ==
    /\ pc = "calling"
    /\ Record(0)
    /\ attempts' = Append(attempts, [sql |-> NoSql, error |-> message, complaint |-> NoError])
    /\ Tell(NoSql, message)
    /\ seenSql' = {} /\ seenFeedback' = {}
    /\ UNCHANGED sql

CallFailed(message) ==
    /\ pc = "calling"
    /\ Record(0)
    /\ attempts' = Append(attempts, [sql |-> NoSql, error |-> message, complaint |-> NoError])
    /\ Tell(NoSql, message)
    /\ UNCHANGED <<sql, seenSql, seenFeedback>>

\* Mutants: a retry that uses up no attempt; a refused call that is retried.
CallRetried_Free(e) == pc = "calling" /\ pc' = "top" /\ NothingRecorded /\ UNCHANGED termination

CallRefused_Retried(reason) == CallFailed(reason) /\ pc' = "top" /\ UNCHANGED termination

CallRetried(e) == CallFailed(e) /\ pc' = "top" /\ UNCHANGED termination

CallRefused(reason) == CallFailed(reason) /\ Stop(reason)

Attempted(error, complaint) ==
    /\ pc = "querying"
    /\ attempts' = Append(attempts, [sql |-> sql, error |-> error, complaint |-> complaint])
    /\ UNCHANGED <<sql, ledger>>

Accept ==
    /\ Attempted(NoError, NoError)
    /\ Stop("success")
    /\ UNCHANGED <<conversation, seenSql, seenFeedback>>

\* Mutant of Repeats: compared with the last turn only.
Repeats_LastTurn(feedback) ==
    \E i \in DOMAIN conversation :
        i = Len(conversation) /\ (conversation[i].sql = sql \/ conversation[i].feedback = feedback)

Repeats(feedback) == sql \in seenSql \/ feedback \in seenFeedback

\* The tail of the loop body, for an attempt that is sent back.
SendBack(feedback) ==
    IF Repeats(feedback)
      THEN Stop("no_progress") /\ UNCHANGED <<conversation, seenSql, seenFeedback>>
      ELSE /\ pc' = "top"
           /\ seenSql' = seenSql \cup {sql}
           /\ seenFeedback' = seenFeedback \cup {feedback}
           /\ Tell(sql, feedback)
           /\ UNCHANGED termination

\* The verifiers look at no query that did not run.
QueryFails(e) == Attempted(e, NoError) /\ SendBack(e)

\* Mutant of Reject: a query that runs is a success, verified or not.
Reject_Ignored(c) ==
    Attempted(NoError, c) /\ Stop("success") /\ UNCHANGED <<conversation, seenSql, seenFeedback>>

Reject(c) == Attempted(NoError, c) /\ SendBack(c)

Next ==
    \/ SetUp \/ Raise \/ RunsOut \/ OverBudget \/ Ask \/ Accept
    \/ \E s \in Sqls, cost \in 0..MaxCallCost : Answered(s, cost)
    \/ \E e \in ApiErrors : CallRetried(e)
    \/ \E reason \in Refusals : CallRefused(reason)
    \/ \E e \in DbErrors : QueryFails(e)
    \/ \E c \in Complaints : Reject(c)

\* A call and a query both end, by answer or by timeout, and the loop goes on.
Spec == Init /\ [][Next]_vars /\ WF_vars(Next)

-----------------------------------------------------------------------------
TypeOK ==
    /\ pc \in {"setup", "top", "calling", "querying", "done", "raised"}
    /\ sql \in Sqls \cup {NoSql}
    /\ attempts \in Seq(Attempts)
    /\ conversation \in Seq(Turns)
    /\ ledger \in [calls : Nat, cost : Nat]
    /\ seenSql \subseteq Sqls /\ seenFeedback \subseteq DbErrors \cup Complaints
    /\ termination \in {"success", "max_attempts", "budget", "no_progress"} \cup Refusals

FeedbackOn(a) == IF a.error = NoError THEN a.complaint ELSE a.error

Accepted(a) == a.error = NoError /\ a.complaint = NoError

\* The attempts that were sent back: they ran and broke a rule, or did not run.
SentBack == {i \in DOMAIN attempts : FeedbackOn(attempts[i]) \in DbErrors \cup Complaints}

\* An answer goes out as a success only when the verifiers passed that very
\* query, the last one; no accepted query is ever followed by another call.
SuccessIsTheVerifiedQuery ==
    \A i \in DOMAIN attempts :
        Accepted(attempts[i]) <=> i = Len(attempts) /\ pc = "done" /\ termination = "success"

\* Before every call the model is told of each earlier attempt, in order, with
\* its own query and its own complaint; of a mid-run attempt nothing is told
\* twice or attributed to another.
ConversationFollowsTheAttempts ==
    pc \in {"top", "calling"} =>
        /\ Len(conversation) = Len(attempts)
        /\ \A i \in DOMAIN attempts :
            /\ conversation[i].sql = attempts[i].sql
            /\ conversation[i].feedback = FeedbackOn(attempts[i])

RepeatsEarlier(i) ==
    \E j \in SentBack : j < i /\ (attempts[j].sql = attempts[i].sql
                                 \/ FeedbackOn(attempts[j]) = FeedbackOn(attempts[i]))

\* The run stops at the first query or complaint that comes back, and only then,
\* across database errors, verifier complaints and failed calls in any order.
StopsAtTheFirstRepeat ==
    \A i \in SentBack :
        RepeatsEarlier(i) <=> i = Len(attempts) /\ termination = "no_progress"

\* The cap is checked before each call, so the ledger exceeds it by less than
\* one call, and every recorded call belongs to one attempt.
LedgerIsBounded ==
    /\ ledger.cost < Budget + MaxCallCost \/ ledger.cost = 0
    /\ termination = "budget" => ledger.cost >= Budget
    /\ pc # "raised" => ledger.calls = Len(attempts) + (IF pc = "querying" THEN 1 ELSE 0)

\* Whatever the model, the API, the database and the verifier do, the run ends.
Terminates == <>(pc \in {"done", "raised"})

KindOf(a) ==
    CASE a.error \in Refusals -> "refused"
      [] a.error \in ApiErrors -> "call_failed"
      [] a.error \in DbErrors -> "db_error"
      [] a.complaint \in Complaints -> "rejected"
      [] OTHER -> "accepted"

\* Level 2 keeps the contract of an answering run: every stop has a reason that
\* fits the attempts before it, whichever of the parts failed.
Log == [i \in DOMAIN attempts |-> KindOf(attempts[i])]

Verdict == CASE pc = "done"   -> termination
             [] pc = "raised" -> "raised"
             [] OTHER         -> "running"

Contract == INSTANCE AnswerContract WITH log <- Log, verdict <- Verdict

KeepsTheContract == Contract!Spec

\* Until its verifier first complains or raises, Level 2 takes the steps of Level 1 and no
\* other: the worker's runs on questions outside the gold set, which have no rules, are
\* Level 1 runs to the end.
Level1 == INSTANCE AgentLoop WITH
    attempts <- [i \in DOMAIN attempts |->
        [sql |-> attempts[i].sql, error |-> attempts[i].error,
         called |-> attempts[i].error \notin CallErrors]],
    seenErrors <- seenFeedback

UntilAComplaintItIsLevel1 ==
    [][(\A i \in DOMAIN attempts' : attempts'[i].complaint = NoError)
        => Level1!Next \/ (Raise /\ pc = "querying")]_(Level1!vars)

=============================================================================
