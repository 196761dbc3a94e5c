-------------------------- MODULE AgentLoop_proofs --------------------------
(***************************************************************************)
(* Proofs about AgentLoop, for any queries, errors, prices, budget and     *)
(* number of attempts: its invariants, and that it keeps the contract of   *)
(* AnswerContract.                                                         *)
(*                                                                         *)
(* StopsAtTheFirstRepeat speaks of the attempts alone and the code decides *)
(* by its two sets, so the invariant adds that those sets are the queries  *)
(* and the errors of the failures; LedgerIsBounded needs what each pc      *)
(* implies of the budget and, for the contract, that a run in its setup    *)
(* has called nobody.                                                      *)
(***************************************************************************)
EXTENDS AgentLoop, TLAPS, SequenceTheorems

PcAgrees ==
    /\ pc # "done" => termination = "max_attempts"
    /\ pc = "setup" => ledger.calls = 0
    /\ pc = "calling" => ledger.cost < Budget
    /\ pc \in {"calling", "querying"} => Len(attempts) < MaxAttempts
    /\ pc = "querying" => sql \in Sqls

SeenIsWhatFailed ==
    pc # "done" =>
        /\ \A s : s \in seenSql <=> \E i \in Failures : attempts[i].sql = s
        /\ \A e : e \in seenErrors <=> \E i \in Failures : attempts[i].error = e

IInv ==
    /\ TypeOK
    /\ PcAgrees
    /\ SeenIsWhatFailed
    /\ StopsAtTheFirstRepeat
    /\ LedgerIsBounded

-----------------------------------------------------------------------------
LEMMA AttemptsDomain ==
    ASSUME TypeOK
    PROVE  /\ attempts \in Seq(Attempts)
           /\ Len(attempts) \in Nat
           /\ DOMAIN attempts = 1..Len(attempts)
           /\ Failures \subseteq 1..Len(attempts)
  <1>1. attempts \in Seq(Attempts)
    BY DEF TypeOK
  <1>. QED
    BY <1>1, LenProperties DEF Failures

\* One more attempt: the earlier ones keep their place, and it is a failure
\* when the query was sent and did not run.
LEMMA OneMoreAttempt ==
    ASSUME TypeOK, NEW a \in Attempts, attempts' = Append(attempts, a)
    PROVE  /\ attempts' \in Seq(Attempts)
           /\ Len(attempts') = Len(attempts) + 1
           /\ \A i \in 1..Len(attempts) : attempts'[i] = attempts[i]
           /\ attempts'[Len(attempts) + 1] = a
           /\ Failures' = Failures \cup
                (IF a.called /\ a.error # NoError THEN {Len(attempts) + 1} ELSE {})
  <1>1. /\ attempts' \in Seq(Attempts)
        /\ Len(attempts') = Len(attempts) + 1
        /\ \A i \in 1..Len(attempts) : attempts'[i] = attempts[i]
        /\ attempts'[Len(attempts) + 1] = a
    BY AttemptsDomain, AppendProperties
  <1>2. /\ DOMAIN attempts = 1..Len(attempts) /\ Len(attempts) \in Nat
        /\ DOMAIN attempts' = 1..(Len(attempts) + 1)
    BY <1>1, AttemptsDomain, LenProperties
  <1>3. \A i \in 1..Len(attempts) : i \in Failures' <=> i \in Failures
    BY <1>1, <1>2 DEF Failures
  <1>4. Len(attempts) + 1 \in Failures' <=> a.called /\ a.error # NoError
    BY <1>1, <1>2 DEF Failures
  <1>5. /\ Failures' \subseteq 1..(Len(attempts) + 1)
        /\ Failures \subseteq 1..Len(attempts)
        /\ 1..(Len(attempts) + 1) = 1..Len(attempts) \cup {Len(attempts) + 1}
    BY <1>2 DEF Failures
  <1>. QED
    BY <1>1, <1>3, <1>4, <1>5

\* What an earlier attempt repeats does not depend on a later one.
LEMMA EarlierRepeatsStay ==
    ASSUME TypeOK, NEW a \in Attempts, attempts' = Append(attempts, a),
           NEW i \in Failures
    PROVE  RepeatsEarlier(i)' <=> RepeatsEarlier(i)
  <1>1. /\ \A j \in 1..Len(attempts) : attempts'[j] = attempts[j]
        /\ \A j \in Failures' : j \in Failures \/ j = Len(attempts) + 1
        /\ Failures \subseteq Failures'
        /\ Len(attempts) \in Nat /\ Failures \subseteq 1..Len(attempts)
    BY OneMoreAttempt, AttemptsDomain
  <1>2. \A j \in Failures' : j < i => j \in Failures
    BY <1>1
  <1>. QED
    BY <1>1, <1>2 DEF RepeatsEarlier

\* While a run goes on, none of its failures is a repetition.
LEMMA NoRepeatYet ==
    ASSUME IInv, pc # "done", NEW i \in Failures
    PROVE  ~RepeatsEarlier(i)
  BY DEF IInv, PcAgrees, StopsAtTheFirstRepeat

-----------------------------------------------------------------------------
(* The invariant holds at first, and every step keeps it.                  *)

LEMMA InitIInv ==
    ASSUME Init
    PROVE  IInv
  <1>. USE DEF Init
  <1>1. Len(attempts) = 0 /\ Failures = {}
    BY DEF Failures
  <1>2. TypeOK
    <2>1. attempts \in Seq(Attempts)
      BY EmptySeq
    <2>2. 0 \in Nat
      OBVIOUS
    <2>. QED
      BY <2>1, <2>2 DEF TypeOK
  <1>3. PcAgrees /\ SeenIsWhatFailed
    BY <1>1 DEF PcAgrees, SeenIsWhatFailed
  <1>4. StopsAtTheFirstRepeat /\ LedgerIsBounded
    BY <1>1 DEF StopsAtTheFirstRepeat, LedgerIsBounded
  <1>. QED
    BY <1>2, <1>3, <1>4 DEF IInv

\* The steps of the loop that make no attempt.
LEMMA WithoutAttempt ==
    ASSUME IInv,
           \/ SetUp \/ Raise \/ RunsOut \/ OverBudget \/ Ask
           \/ \E s \in Sqls, cost \in 0..MaxCallCost : Answered(s, cost)
    PROVE  IInv'
  <1>1. TypeOK /\ PcAgrees /\ SeenIsWhatFailed /\ StopsAtTheFirstRepeat /\ LedgerIsBounded
    BY DEF IInv
  <1>2. /\ attempts' = attempts /\ seenSql' = seenSql /\ seenErrors' = seenErrors
        /\ pc # "done"
        /\ termination' = "budget" \/ termination' = termination
    BY DEF SetUp, Raise, RunsOut, OverBudget, Ask, Answered, Stop, NothingRecorded
  <1>3. /\ Failures' = Failures
        /\ \A i : RepeatsEarlier(i)' <=> RepeatsEarlier(i)
    BY <1>2 DEF Failures, RepeatsEarlier
  <1>4. termination = "max_attempts" /\ termination' # "no_progress"
    BY <1>1, <1>2 DEF PcAgrees
  <1>5. SeenIsWhatFailed' /\ StopsAtTheFirstRepeat'
    BY <1>1, <1>2, <1>3, <1>4 DEF SeenIsWhatFailed, StopsAtTheFirstRepeat
  <1>6. TypeOK' /\ PcAgrees' /\ LedgerIsBounded'
    <2>0. /\ Len(attempts) \in Nat /\ MaxCallCost \in Nat /\ Budget \in Nat
          /\ ledger \in [calls : Nat, cost : Nat]
      BY <1>1, AttemptsDomain, AgentAssumption DEF TypeOK
    <2>1. CASE SetUp \/ Raise \/ RunsOut \/ OverBudget \/ Ask
      <3>1. /\ ledger' = ledger /\ sql' = sql /\ pc \in {"setup", "top"}
            /\ pc' \in {"top", "raised", "done", "calling"}
            /\ pc' # "done" => termination' = termination
            /\ pc' = "calling" =>
                 ledger.cost < Budget /\ Len(attempts) < MaxAttempts /\ termination' = termination
            /\ termination' = "budget" => ledger.cost >= Budget
        BY <1>4, <2>1 DEF SetUp, Raise, RunsOut, OverBudget, Ask, Stop, NothingRecorded
      <3>. QED
        BY <1>1, <1>2, <1>4, <3>1 DEF TypeOK, PcAgrees, LedgerIsBounded
    <2>2. CASE \E s \in Sqls, cost \in 0..MaxCallCost : Answered(s, cost)
      <3>1. PICK s \in Sqls, cost \in 0..MaxCallCost : Answered(s, cost)
        BY <2>2
      <3>2. /\ ledger' = [calls |-> ledger.calls + 1, cost |-> ledger.cost + cost]
            /\ sql' = s /\ pc = "calling" /\ pc' = "querying"
            /\ termination' = termination
        BY <3>1 DEF Answered, Record
      <3>3. cost \in Nat /\ cost <= MaxCallCost
        BY <2>0
      <3>4. /\ ledger' \in [calls : Nat, cost : Nat]
            /\ ledger'.calls = ledger.calls + 1 /\ ledger'.cost = ledger.cost + cost
        BY <2>0, <3>2, <3>3
      <3>5. ledger.cost < Budget
        BY <1>1, <3>2 DEF PcAgrees
      <3>6. ledger'.cost < Budget + MaxCallCost
        BY <2>0, <3>3, <3>4, <3>5
      <3>7. ledger'.calls = Len(attempts) + 1
        BY <1>1, <2>0, <3>2, <3>4 DEF LedgerIsBounded
      <3>8. TypeOK'
        BY <1>1, <1>2, <1>4, <3>2, <3>4 DEF TypeOK
      <3>9. PcAgrees' /\ LedgerIsBounded'
        BY <1>1, <1>2, <1>4, <3>2, <3>6, <3>7 DEF PcAgrees, LedgerIsBounded
      <3>. QED
        BY <3>8, <3>9
    <2>. QED
      BY <2>1, <2>2
  <1>. QED
    BY <1>5, <1>6 DEF IInv

\* A failed call is an attempt that reached no database: it repeats nothing.
LEMMA FailedCallKeepsIInv ==
    ASSUME IInv, NEW message \in ApiErrors \cup Refusals, CallFailed(message),
           \/ pc' = "top" /\ termination' = termination
           \/ pc' = "done" /\ termination' \in Refusals
    PROVE  IInv'
  <1>1. TypeOK /\ PcAgrees /\ SeenIsWhatFailed /\ StopsAtTheFirstRepeat /\ LedgerIsBounded
    BY DEF IInv
  <1>2. PICK a \in Attempts : a = [sql |-> NoSql, error |-> message, called |-> FALSE]
    BY DEF Attempts
  <1>3. /\ pc = "calling" /\ attempts' = Append(attempts, a)
        /\ ledger' = [calls |-> ledger.calls + 1, cost |-> ledger.cost + 0]
        /\ sql' = sql /\ seenSql' = seenSql /\ seenErrors' = seenErrors
    BY <1>2 DEF CallFailed, Record
  <1>4. /\ attempts' \in Seq(Attempts)
        /\ Len(attempts') = Len(attempts) + 1
        /\ \A i \in 1..Len(attempts) : attempts'[i] = attempts[i]
        /\ Failures' = Failures
        /\ Failures \subseteq 1..Len(attempts) /\ Len(attempts) \in Nat
    BY <1>1, <1>2, <1>3, OneMoreAttempt, AttemptsDomain
  <1>5. termination = "max_attempts" /\ termination' # "no_progress" /\ termination' # "budget"
    BY <1>1, <1>3 DEF PcAgrees, Refusals
  <1>6. SeenIsWhatFailed'
    BY <1>1, <1>3, <1>4 DEF SeenIsWhatFailed
  <1>7. StopsAtTheFirstRepeat'
    BY <1>1, <1>2, <1>3, <1>4, <1>5, EarlierRepeatsStay DEF StopsAtTheFirstRepeat
  <1>8. /\ ledger \in [calls : Nat, cost : Nat] /\ ledger' \in [calls : Nat, cost : Nat]
        /\ ledger'.calls = ledger.calls + 1 /\ ledger'.cost = ledger.cost
    <2>1. ledger \in [calls : Nat, cost : Nat]
      BY <1>1 DEF TypeOK
    <2>. QED
      BY <1>3, <2>1
  <1>9. TypeOK'
    BY <1>1, <1>3, <1>4, <1>5, <1>8 DEF TypeOK
  <1>10. PcAgrees'
    BY <1>5 DEF PcAgrees
  <1>11. LedgerIsBounded'
    BY <1>1, <1>3, <1>4, <1>5, <1>8 DEF LedgerIsBounded
  <1>. QED
    BY <1>6, <1>7, <1>9, <1>10, <1>11 DEF IInv

LEMMA SuccessKeepsIInv ==
    ASSUME IInv, QueryRuns
    PROVE  IInv'
  <1>1. TypeOK /\ PcAgrees /\ SeenIsWhatFailed /\ StopsAtTheFirstRepeat /\ LedgerIsBounded
    BY DEF IInv
  <1>2. PICK a \in Attempts : a = [sql |-> sql, error |-> NoError, called |-> TRUE]
    BY <1>1 DEF Attempts, TypeOK
  <1>3. /\ pc = "querying" /\ pc' = "done" /\ termination' = "success"
        /\ attempts' = Append(attempts, a)
        /\ UNCHANGED <<sql, ledger, seenSql, seenErrors>>
    BY <1>2 DEF QueryRuns, Attempted, Stop
  <1>4. /\ attempts' \in Seq(Attempts)
        /\ Len(attempts') = Len(attempts) + 1
        /\ Failures' = Failures
        /\ Failures \subseteq 1..Len(attempts) /\ Len(attempts) \in Nat
    BY <1>1, <1>2, <1>3, OneMoreAttempt, AttemptsDomain
  <1>5. termination = "max_attempts"
    BY <1>1, <1>3 DEF PcAgrees
  <1>6. StopsAtTheFirstRepeat'
    BY <1>1, <1>2, <1>3, <1>4, <1>5, EarlierRepeatsStay DEF StopsAtTheFirstRepeat
  <1>7. TypeOK'
    BY <1>1, <1>3, <1>4 DEF TypeOK
  <1>8. PcAgrees' /\ SeenIsWhatFailed' /\ LedgerIsBounded'
    BY <1>1, <1>3, <1>4 DEF PcAgrees, SeenIsWhatFailed, LedgerIsBounded
  <1>. QED
    BY <1>6, <1>7, <1>8 DEF IInv

\* A failed query stops the run exactly when it is a repetition.
LEMMA FailureKeepsIInv ==
    ASSUME IInv, NEW e \in DbErrors, QueryFails(e)
    PROVE  IInv'
  <1>1. TypeOK /\ PcAgrees /\ SeenIsWhatFailed /\ StopsAtTheFirstRepeat /\ LedgerIsBounded
    BY DEF IInv
  <1>2. PICK a \in Attempts : a = [sql |-> sql, error |-> e, called |-> TRUE]
    BY <1>1 DEF Attempts, TypeOK
  <1>3. /\ pc = "querying" /\ attempts' = Append(attempts, a)
        /\ UNCHANGED <<sql, ledger>>
    BY <1>2 DEF QueryFails, Attempted
  <1>4. a.called /\ a.error = e /\ a.sql = sql /\ e # NoError
    BY <1>2, AgentAssumption
  <1>0. PICK last \in Nat : last = Len(attempts) + 1
    BY <1>1, AttemptsDomain
  <1>5. /\ attempts' \in Seq(Attempts)
        /\ Len(attempts') = last
        /\ \A i \in 1..Len(attempts) : attempts'[i] = attempts[i]
        /\ attempts'[last] = a
        /\ Failures' = Failures \cup {last}
        /\ Failures \subseteq 1..Len(attempts) /\ Len(attempts) \in Nat
    BY <1>1, <1>3, <1>4, <1>0, OneMoreAttempt, AttemptsDomain
  <1>6. termination = "max_attempts" /\ sql \in Sqls
    BY <1>1, <1>3 DEF PcAgrees
  <1>7. \A i \in Failures : ~RepeatsEarlier(i)' /\ i # last
    BY <1>1, <1>3, <1>5, <1>0, EarlierRepeatsStay, NoRepeatYet
  <1>8. RepeatsEarlier(last)' <=> Repeats(e)
    <2>1. RepeatsEarlier(last)' <=>
            \E j \in Failures : attempts[j].sql = sql \/ attempts[j].error = e
      <3>1. /\ \A j \in Failures : j \in Failures' /\ j < last /\ attempts'[j] = attempts[j]
            /\ \A j \in Failures' : j < last => j \in Failures
        BY <1>5, <1>0
      <3>2. attempts'[last].sql = sql /\ attempts'[last].error = e
        BY <1>4, <1>5
      <3>. QED
        BY <3>1, <3>2 DEF RepeatsEarlier
    <2>2. /\ sql \in seenSql <=> \E j \in Failures : attempts[j].sql = sql
          /\ e \in seenErrors <=> \E j \in Failures : attempts[j].error = e
      BY <1>1, <1>3 DEF SeenIsWhatFailed
    <2>. QED
      BY <2>1, <2>2 DEF Repeats
  <1>9. CASE Repeats(e)
    <2>1. /\ pc' = "done" /\ termination' = "no_progress"
          /\ UNCHANGED <<seenSql, seenErrors>>
      BY <1>9 DEF QueryFails, Stop
    <2>2. StopsAtTheFirstRepeat'
      BY <1>5, <1>7, <1>8, <1>9, <2>1 DEF StopsAtTheFirstRepeat
    <2>3. TypeOK'
      BY <1>1, <1>3, <1>5, <2>1 DEF TypeOK
    <2>4. PcAgrees' /\ SeenIsWhatFailed' /\ LedgerIsBounded'
      BY <1>1, <1>3, <1>5, <1>0, <2>1 DEF PcAgrees, SeenIsWhatFailed, LedgerIsBounded
    <2>. QED
      BY <2>2, <2>3, <2>4 DEF IInv
  <1>10. CASE ~Repeats(e)
    <2>1. /\ pc' = "top" /\ termination' = termination
          /\ seenSql' = seenSql \cup {sql}
          /\ seenErrors' = seenErrors \cup {e}
      BY <1>10 DEF QueryFails
    <2>2. StopsAtTheFirstRepeat'
      BY <1>5, <1>6, <1>7, <1>8, <1>10, <2>1 DEF StopsAtTheFirstRepeat
    <2>3. TypeOK'
      BY <1>1, <1>3, <1>5, <1>6, <2>1 DEF TypeOK
    <2>4. SeenIsWhatFailed'
      <3>1. \A s : (\E i \in Failures' : attempts'[i].sql = s)
                     <=> ((\E i \in Failures : attempts[i].sql = s) \/ s = sql)
        BY <1>4, <1>5, <1>0
      <3>2. \A m : (\E i \in Failures' : attempts'[i].error = m)
                     <=> ((\E i \in Failures : attempts[i].error = m) \/ m = e)
        BY <1>4, <1>5, <1>0
      <3>. QED
        BY <1>1, <1>3, <2>1, <3>1, <3>2 DEF SeenIsWhatFailed
    <2>5. PcAgrees' /\ LedgerIsBounded'
      BY <1>1, <1>3, <1>5, <1>6, <1>0, <2>1 DEF PcAgrees, LedgerIsBounded
    <2>. QED
      BY <2>2, <2>3, <2>4, <2>5 DEF IInv
  <1>. QED
    BY <1>9, <1>10

LEMMA Inductive ==
    ASSUME IInv, [Next]_vars
    PROVE  IInv'
  <1>1. CASE \/ SetUp \/ Raise \/ RunsOut \/ OverBudget \/ Ask
             \/ \E s \in Sqls, cost \in 0..MaxCallCost : Answered(s, cost)
    BY <1>1, WithoutAttempt
  <1>2. CASE QueryRuns
    BY <1>2, SuccessKeepsIInv
  <1>3. ASSUME NEW e \in ApiErrors, CallRetried(e)
        PROVE  IInv'
    BY <1>3, FailedCallKeepsIInv DEF CallRetried
  <1>4. ASSUME NEW reason \in Refusals, CallRefused(reason)
        PROVE  IInv'
    BY <1>4, FailedCallKeepsIInv DEF CallRefused, Stop
  <1>5. ASSUME NEW e \in DbErrors, QueryFails(e)
        PROVE  IInv'
    BY <1>5, FailureKeepsIInv
  <1>6. CASE UNCHANGED vars
    <2>. USE <1>6 DEF vars
    <2>1. Failures' = Failures /\ \A i : RepeatsEarlier(i)' <=> RepeatsEarlier(i)
      BY DEF Failures, RepeatsEarlier
    <2>. QED
      BY <2>1 DEF IInv, TypeOK, PcAgrees, SeenIsWhatFailed, StopsAtTheFirstRepeat,
                  LedgerIsBounded
  <1>. QED
    BY <1>1, <1>2, <1>3, <1>4, <1>5, <1>6 DEF Next

-----------------------------------------------------------------------------
(* The invariants of the specification.                                    *)

\* The inductive invariant holds of every reachable state of run_question.
THEOREM Invariance == Spec => []IInv
  <1>1. Init => IInv
    BY InitIInv
  <1>2. IInv /\ [Next]_vars => IInv'
    BY Inductive
  <1>. QED
    BY <1>1, <1>2, PTL DEF Spec

\* Every variable of the Level 1 loop keeps its type.
THEOREM TypeCorrect == Spec => []TypeOK
  <1>1. IInv => TypeOK
    BY DEF IInv
  <1>. QED
    BY <1>1, Invariance, PTL

\* A run of Level 1 stops at the first repeated query or error, and says "no
\* progress" of nothing else.
THEOREM StopsAtRepeats == Spec => []StopsAtTheFirstRepeat
  <1>1. IInv => StopsAtTheFirstRepeat
    BY DEF IInv
  <1>. QED
    BY <1>1, Invariance, PTL

\* The cap is overshot by less than one call, and every call is in the ledger.
THEOREM BudgetHolds == Spec => []LedgerIsBounded
  <1>1. IInv => LedgerIsBounded
    BY DEF IInv
  <1>. QED
    BY <1>1, Invariance, PTL

-----------------------------------------------------------------------------
(* Level 1 keeps the contract of AnswerContract.                           *)

Kinds == {"accepted", "refused", "call_failed", "db_error"}

LEMMA LogFollowsAttempts ==
    ASSUME TypeOK
    PROVE  /\ Log \in Seq(Kinds)
           /\ Len(Log) = Len(attempts)
           /\ DOMAIN Log = 1..Len(attempts)
           /\ \A i \in 1..Len(attempts) : Log[i] = KindOf(attempts[i])
  <1>1. Len(attempts) \in Nat /\ DOMAIN attempts = 1..Len(attempts)
    BY AttemptsDomain
  <1>2. Log \in [1..Len(attempts) -> Kinds]
    BY <1>1 DEF Log, KindOf, Kinds
  <1>3. Log \in Seq(Kinds)
    BY <1>1, <1>2, SeqDef
  <1>4. Len(Log) \in Nat /\ 1..Len(Log) = 1..Len(attempts)
    BY <1>2, <1>3, LenProperties
  <1>5. \A m, n \in Nat : 1..m = 1..n => m = n
    OBVIOUS
  <1>6. Len(Log) = Len(attempts)
    BY <1>1, <1>4, <1>5
  <1>. QED
    BY <1>1, <1>2, <1>3, <1>6 DEF Log

\* One more attempt is one more entry of the log.
LEMMA LogGrows ==
    ASSUME TypeOK, NEW a \in Attempts, attempts' = Append(attempts, a)
    PROVE  Log' = Append(Log, KindOf(a))
  <1>1. /\ Len(attempts) \in Nat
        /\ DOMAIN attempts' = 1..(Len(attempts) + 1)
        /\ \A i \in 1..Len(attempts) : attempts'[i] = attempts[i]
        /\ attempts'[Len(attempts) + 1] = a
    BY OneMoreAttempt, AttemptsDomain, LenProperties
  <1>2. Log' = [i \in 1..(Len(attempts) + 1) |-> KindOf(attempts'[i])]
    BY <1>1 DEF Log, KindOf
  <1>3. /\ Append(Log, KindOf(a)) \in Seq(Kinds)
        /\ Len(Append(Log, KindOf(a))) = Len(attempts) + 1
        /\ \A i \in 1..Len(attempts) : Append(Log, KindOf(a))[i] = KindOf(attempts[i])
        /\ Append(Log, KindOf(a))[Len(attempts) + 1] = KindOf(a)
    <2>1. KindOf(a) \in Kinds
      BY DEF KindOf, Kinds
    <2>. QED
      BY <2>1, LogFollowsAttempts, AppendProperties
  <1>4. Append(Log, KindOf(a)) \in [1..(Len(attempts) + 1) -> Kinds]
    BY <1>3, LenProperties
  <1>5. \A i \in 1..(Len(attempts) + 1) : Append(Log, KindOf(a))[i] = KindOf(attempts'[i])
    <2>1. \A i \in 1..(Len(attempts) + 1) : i \in 1..Len(attempts) \/ i = Len(attempts) + 1
      BY <1>1
    <2>. QED
      BY <1>1, <1>3, <2>1
  <1>. QED
    BY <1>2, <1>4, <1>5

\* A step of the loop that makes an attempt is one of the contract's.
LEMMA AttemptIsTried ==
    ASSUME IInv, pc \in {"calling", "querying"},
           NEW a \in Attempts, attempts' = Append(attempts, a),
           Verdict' \in Contract!Reasons(KindOf(a)), Verdict' # "raised"
    PROVE  Contract!Next /\ ~Contract!Raise
  <1>1. TypeOK /\ Len(attempts) < MaxAttempts
    BY DEF IInv, PcAgrees
  <1>2. Log' = Append(Log, KindOf(a)) /\ Len(Log) < MaxAttempts /\ Verdict = "running"
    BY <1>1, LogGrows, LogFollowsAttempts DEF Verdict
  <1>3. KindOf(a) \in {"accepted", "refused", "call_failed", "db_error"}
    BY DEF KindOf
  <1>. QED
    BY <1>2, <1>3 DEF Contract!Next, Contract!Try, Contract!Raise, Contract!Sent

LEMMA FailedCallIsTried ==
    ASSUME IInv, NEW message \in ApiErrors \cup Refusals, CallFailed(message),
           \/ message \in ApiErrors /\ pc' = "top"
           \/ message \in Refusals /\ pc' = "done" /\ termination' = message
    PROVE  Contract!Next /\ ~Contract!Raise
  <1>1. PICK a \in Attempts : a = [sql |-> NoSql, error |-> message, called |-> FALSE]
    BY DEF Attempts
  <1>2. pc = "calling" /\ attempts' = Append(attempts, a)
    BY <1>1 DEF CallFailed
  <1>3. CASE message \in ApiErrors /\ pc' = "top"
    <2>1. KindOf(a) = "call_failed"
      <3>1. message \notin Refusals /\ message \notin DbErrors
        BY <1>3, AgentAssumption, RefusalAssumption
      <3>. QED
        BY <1>1, <1>3, <3>1 DEF KindOf
    <2>2. Verdict' = "running"
      BY <1>3 DEF Verdict
    <2>. QED
      BY <1>2, <2>1, <2>2, AttemptIsTried DEF Contract!Reasons, Contract!Sent
  <1>4. CASE message \in Refusals /\ pc' = "done" /\ termination' = message
    <2>1. KindOf(a) = "refused"
      <3>1. message \notin ApiErrors /\ message \notin DbErrors
        BY <1>4, RefusalAssumption
      <3>. QED
        BY <1>1, <1>4, <3>1 DEF KindOf
    <2>2. Verdict' \in {"credential", "bad_request"}
      BY <1>4 DEF Verdict, Refusals
    <2>. QED
      BY <1>2, <2>1, <2>2, AttemptIsTried DEF Contract!Reasons, Contract!Sent
  <1>. QED
    BY <1>3, <1>4

LEMMA SuccessIsTried ==
    ASSUME IInv, QueryRuns
    PROVE  Contract!Next /\ ~Contract!Raise
  <1>1. PICK a \in Attempts : a = [sql |-> sql, error |-> NoError, called |-> TRUE]
    BY DEF IInv, Attempts, TypeOK
  <1>2. pc = "querying" /\ attempts' = Append(attempts, a)
    BY <1>1 DEF QueryRuns, Attempted
  <1>3. KindOf(a) = "accepted"
    BY <1>1, AgentAssumption, RefusalAssumption DEF KindOf
  <1>4. Verdict' = "success"
    BY DEF QueryRuns, Stop, Verdict
  <1>. QED
    BY <1>2, <1>3, <1>4, AttemptIsTried DEF Contract!Reasons, Contract!Sent

\* A failed query ends the run for no progress only after an earlier one was sent back.
LEMMA FailureIsTried ==
    ASSUME IInv, NEW e \in DbErrors, QueryFails(e)
    PROVE  Contract!Next /\ ~Contract!Raise
  <1>1. PICK a \in Attempts : a = [sql |-> sql, error |-> e, called |-> TRUE]
    BY DEF IInv, Attempts, TypeOK
  <1>2. pc = "querying" /\ attempts' = Append(attempts, a)
    BY <1>1 DEF QueryFails, Attempted
  <1>3. KindOf(a) = "db_error"
    <2>1. e \notin ApiErrors /\ e \notin Refusals
      BY AgentAssumption, RefusalAssumption
    <2>. QED
      BY <1>1, <2>1 DEF KindOf
  <1>4. CASE ~Repeats(e)
    <2>1. Verdict' = "running"
      BY <1>4 DEF QueryFails, Verdict
    <2>. QED
      BY <1>2, <1>3, <2>1, AttemptIsTried DEF Contract!Reasons, Contract!Sent
  <1>5. CASE Repeats(e)
    <2>1. Verdict' = "no_progress"
      BY <1>5 DEF QueryFails, Stop, Verdict
    <2>2. PICK i \in Failures : TRUE
      BY <1>2, <1>5 DEF IInv, SeenIsWhatFailed, Repeats
    <2>3. /\ i \in DOMAIN Log /\ Log[i] = KindOf(attempts[i])
          /\ attempts[i].called /\ attempts[i].error # NoError
      BY <2>2, LogFollowsAttempts, AttemptsDomain DEF IInv, Failures
    <2>4. KindOf(attempts[i]) = "db_error"
      <3>1. attempts[i].error \in DbErrors
        BY <1>2, <2>2 DEF IInv, SeenIsWhatFailed, TypeOK
      <3>2. attempts[i].error \notin ApiErrors /\ attempts[i].error \notin Refusals
        BY <3>1, AgentAssumption, RefusalAssumption
      <3>. QED
        BY <3>1, <3>2 DEF KindOf
    <2>. QED
      BY <1>2, <1>3, <2>1, <2>3, <2>4, AttemptIsTried DEF Contract!Reasons, Contract!Sent
  <1>. QED
    BY <1>4, <1>5

LEMMA StepKeepsContract ==
    ASSUME IInv, [Next]_vars
    PROVE  [Contract!Next /\ (Contract!Raise => ledger.calls = 0)]_(Contract!vars)
  <1>1. /\ TypeOK /\ Len(Log) = Len(attempts)
        /\ pc # "done" => termination = "max_attempts"
    BY LogFollowsAttempts DEF IInv, PcAgrees
  <1>2. ASSUME UNCHANGED attempts
        PROVE  Log' = Log
    BY <1>2 DEF Log, KindOf
  <1>3. CASE SetUp \/ Ask \/ \E s \in Sqls, cost \in 0..MaxCallCost : Answered(s, cost)
    <2>1. UNCHANGED attempts /\ Verdict' = Verdict
      BY <1>3 DEF SetUp, Ask, Answered, NothingRecorded, Verdict
    <2>. QED
      BY <1>2, <2>1 DEF Contract!vars
  <1>4. CASE RunsOut
    <2>1. /\ UNCHANGED attempts /\ Verdict = "running" /\ Verdict' = "max_attempts"
          /\ ~(Len(Log) < MaxAttempts)
      BY <1>1, <1>4, AttemptsDomain, AgentAssumption DEF RunsOut, Stop, NothingRecorded, Verdict
    <2>. QED
      BY <1>2, <2>1 DEF Contract!Next, Contract!GiveUp, Contract!Raise
  <1>5. CASE OverBudget
    <2>1. /\ UNCHANGED attempts /\ Verdict = "running" /\ Verdict' = "budget"
          /\ Len(Log) < MaxAttempts
      BY <1>1, <1>5 DEF OverBudget, Stop, NothingRecorded, Verdict
    <2>. QED
      BY <1>2, <2>1 DEF Contract!Next, Contract!GiveUp, Contract!Raise
  <1>6. CASE QueryRuns
    BY <1>6, SuccessIsTried
  <1>7. ASSUME NEW e \in ApiErrors, CallRetried(e)
        PROVE  Contract!Next /\ ~Contract!Raise
    BY <1>7, FailedCallIsTried DEF CallRetried
  <1>8. ASSUME NEW reason \in Refusals, CallRefused(reason)
        PROVE  Contract!Next /\ ~Contract!Raise
    BY <1>8, FailedCallIsTried DEF CallRefused, Stop
  <1>9. ASSUME NEW e \in DbErrors, QueryFails(e)
        PROVE  Contract!Next /\ ~Contract!Raise
    BY <1>9, FailureIsTried
  <1>10. CASE UNCHANGED vars
    <2>1. UNCHANGED attempts /\ Verdict' = Verdict
      BY <1>10 DEF vars, Verdict
    <2>. QED
      BY <1>2, <2>1 DEF Contract!vars
  <1>11. CASE Raise
    <2>1. UNCHANGED attempts /\ Verdict = "running" /\ Verdict' = "raised" /\ ledger.calls = 0
      BY <1>11 DEF Raise, NothingRecorded, Verdict, IInv, PcAgrees
    <2>. QED
      BY <1>2, <2>1 DEF Contract!Next, Contract!Raise
  <1>. QED
    BY <1>3, <1>4, <1>5, <1>6, <1>7, <1>8, <1>9, <1>10, <1>11 DEF Next

\* A Level 1 run stops for one named reason that fits its attempts.  It may raise in its
\* setup; after its first call no failure of the model or the database makes it raise.
THEOREM ContractKept == Spec => KeepsTheContract
  <1>1. Init => Contract!Init
    BY DEF Init, Log, Verdict, Contract!Init
  <1>2. IInv /\ [Next]_vars =>
            [Contract!Next /\ (Contract!Raise => ledger.calls = 0)]_(Contract!vars)
    BY StepKeepsContract
  <1>. QED
    BY <1>1, <1>2, Invariance, PTL DEF Spec, KeepsTheContract

=============================================================================
