------------------------- MODULE VerifiedLoop_proofs -------------------------
(***************************************************************************)
(* Proofs about VerifiedLoop, for any queries, errors, complaints, prices, *)
(* budget and number of attempts.                                          *)
(*                                                                         *)
(* The invariants of the runs speak of the attempts alone; what makes them *)
(* inductive is that the two seen-sets are exactly the queries and the     *)
(* feedback of the attempts that were sent back, and what each pc implies  *)
(* of the budget, the attempts left and the termination so far.            *)
(***************************************************************************)
EXTENDS VerifiedLoop, TLAPS, SequenceTheorems

PcAgrees ==
    /\ pc # "done" => termination = "max_attempts"
    /\ pc = "calling" => ledger.cost < Budget
    /\ pc \in {"calling", "querying"} => Len(attempts) < MaxAttempts
    /\ pc = "querying" => sql \in Sqls

SeenIsWhatWasSentBack ==
    termination # "no_progress" =>
        /\ \A s : s \in seenSql <=> \E i \in SentBack : attempts[i].sql = s
        /\ \A f : f \in seenFeedback <=> \E i \in SentBack : FeedbackOn(attempts[i]) = f

ConversationIsUpToDate ==
    pc \notin {"done", "raised"} =>
        /\ Len(conversation) = Len(attempts)
        /\ \A i \in 1..Len(attempts) :
            /\ conversation[i].sql = attempts[i].sql
            /\ conversation[i].feedback = FeedbackOn(attempts[i])

IInv ==
    /\ TypeOK
    /\ PcAgrees
    /\ SeenIsWhatWasSentBack
    /\ ConversationIsUpToDate
    /\ SuccessIsTheVerifiedQuery
    /\ StopsAtTheFirstRepeat
    /\ LedgerIsBounded

-----------------------------------------------------------------------------
(* Sequences and the kinds of an attempt.                                  *)

LEMMA AttemptsDomain ==
    ASSUME TypeOK
    PROVE  /\ attempts \in Seq(Attempts) /\ conversation \in Seq(Turns)
           /\ Len(attempts) \in Nat /\ Len(conversation) \in Nat
           /\ DOMAIN attempts = 1..Len(attempts)
           /\ \A i \in 1..Len(attempts) : attempts[i] \in Attempts
  <1>1. attempts \in Seq(Attempts) /\ conversation \in Seq(Turns)
    BY DEF TypeOK
  <1>. QED
    BY <1>1, LenProperties, ElementOfSeq

\* One more attempt: the earlier ones keep their place and their feedback.
LEMMA OneMoreAttempt ==
    ASSUME TypeOK, NEW a \in Attempts, attempts' = Append(attempts, a)
    PROVE  /\ attempts' \in Seq(Attempts)
           /\ Len(attempts') = Len(attempts) + 1
           /\ DOMAIN attempts' = 1..(Len(attempts) + 1)
           /\ \A i \in 1..Len(attempts) : attempts'[i] = attempts[i]
           /\ attempts'[Len(attempts) + 1] = a
           /\ SentBack \subseteq 1..Len(attempts)
           /\ SentBack' = SentBack \cup
                (IF FeedbackOn(a) \in DbErrors \cup Complaints
                   THEN {Len(attempts) + 1} ELSE {})
  <1>1. /\ attempts' \in Seq(Attempts)
        /\ Len(attempts') = Len(attempts) + 1
        /\ \A i \in 1..Len(attempts) : attempts'[i] = attempts[i]
        /\ attempts'[Len(attempts) + 1] = a
    BY AttemptsDomain, AppendProperties
  <1>2. /\ DOMAIN attempts = 1..Len(attempts) /\ Len(attempts) \in Nat
        /\ DOMAIN attempts' = 1..(Len(attempts) + 1)
    BY <1>1, AttemptsDomain, LenProperties
  <1>3. SentBack \subseteq 1..Len(attempts)
    BY <1>2 DEF SentBack
  <1>4. SentBack' = SentBack \cup
                (IF FeedbackOn(a) \in DbErrors \cup Complaints
                   THEN {Len(attempts) + 1} ELSE {})
    <2>1. \A i \in 1..Len(attempts) : i \in SentBack' <=> i \in SentBack
      BY <1>1, <1>2 DEF SentBack, FeedbackOn
    <2>2. Len(attempts) + 1 \in SentBack' <=> FeedbackOn(a) \in DbErrors \cup Complaints
      BY <1>1, <1>2 DEF SentBack, FeedbackOn
    <2>3. SentBack' \subseteq 1..(Len(attempts) + 1)
      BY <1>2 DEF SentBack
    <2>4. 1..(Len(attempts) + 1) = 1..Len(attempts) \cup {Len(attempts) + 1}
      BY <1>2
    <2>. QED
      BY <1>3, <2>1, <2>2, <2>3, <2>4
  <1>. QED
    BY <1>1, <1>2, <1>3, <1>4

\* One more turn of the conversation.
LEMMA OneMoreTurn ==
    ASSUME TypeOK, NEW t \in Turns, conversation' = Append(conversation, t)
    PROVE  /\ conversation' \in Seq(Turns)
           /\ Len(conversation') = Len(conversation) + 1
           /\ \A i \in 1..Len(conversation) : conversation'[i] = conversation[i]
           /\ conversation'[Len(conversation) + 1] = t
  BY AttemptsDomain, AppendProperties

\* The attempts before the last repeat nothing new when one more is made.
LEMMA EarlierRepeatsStay ==
    ASSUME TypeOK, NEW a \in Attempts, attempts' = Append(attempts, a),
           NEW i \in SentBack
    PROVE  RepeatsEarlier(i)' <=> RepeatsEarlier(i)
  <1>1. /\ \A j \in 1..Len(attempts) : attempts'[j] = attempts[j]
        /\ SentBack \subseteq 1..Len(attempts)
        /\ \A j \in SentBack' : j \in SentBack \/ j = Len(attempts) + 1
        /\ SentBack \subseteq SentBack'
        /\ Len(attempts) \in Nat
    BY OneMoreAttempt, AttemptsDomain
  <1>2. i \in 1..Len(attempts) /\ \A j \in SentBack : j \in 1..Len(attempts)
    BY <1>1
  <1>3. \A j \in SentBack' : j < i => j \in SentBack
    BY <1>1, <1>2
  <1>. QED
    BY <1>1, <1>2, <1>3 DEF RepeatsEarlier, FeedbackOn

-----------------------------------------------------------------------------
(* The invariant holds at first, and after a step that makes no attempt.   *)

LEMMA InitIInv ==
    ASSUME Init
    PROVE  IInv
  <1>. USE DEF Init
  <1>1. Len(attempts) = 0 /\ Len(conversation) = 0 /\ DOMAIN attempts = {} /\ SentBack = {}
    BY DEF SentBack
  <1>2. TypeOK
    <2>1. attempts \in Seq(Attempts) /\ conversation \in Seq(Turns)
      BY EmptySeq
    <2>. QED
      BY <2>1 DEF TypeOK
  <1>3. PcAgrees
    BY DEF PcAgrees
  <1>4. SeenIsWhatWasSentBack /\ ConversationIsUpToDate
    BY <1>1 DEF SeenIsWhatWasSentBack, ConversationIsUpToDate
  <1>5. SuccessIsTheVerifiedQuery /\ StopsAtTheFirstRepeat
    BY <1>1 DEF SuccessIsTheVerifiedQuery, StopsAtTheFirstRepeat
  <1>6. LedgerIsBounded
    BY <1>1 DEF LedgerIsBounded
  <1>. QED
    BY <1>2, <1>3, <1>4, <1>5, <1>6 DEF IInv

\* The steps that record nothing, and the one that records an answered call.
LEMMA NoAttemptIsMade ==
    ASSUME IInv, TypeOK', PcAgrees', LedgerIsBounded',
           UNCHANGED <<attempts, conversation, seenSql, seenFeedback>>,
           pc \notin {"done", "raised"},
           termination' \notin {"success", "no_progress"}
    PROVE  IInv'
  <1>1. SentBack' = SentBack
    BY DEF SentBack, FeedbackOn
  <1>2. termination = "max_attempts"
    BY DEF IInv, PcAgrees
  <1>3. SeenIsWhatWasSentBack'
    BY <1>1, <1>2 DEF IInv, SeenIsWhatWasSentBack, FeedbackOn
  <1>4. ConversationIsUpToDate'
    BY DEF IInv, ConversationIsUpToDate, FeedbackOn
  <1>5. SuccessIsTheVerifiedQuery'
    BY <1>2 DEF IInv, SuccessIsTheVerifiedQuery, Accepted
  <1>6. StopsAtTheFirstRepeat'
    <2>1. \A i \in SentBack : ~RepeatsEarlier(i)
      BY <1>2 DEF IInv, StopsAtTheFirstRepeat
    <2>2. \A i \in SentBack : ~RepeatsEarlier(i)'
      BY <1>1, <2>1 DEF RepeatsEarlier, FeedbackOn
    <2>. QED
      BY <1>1, <2>2 DEF StopsAtTheFirstRepeat
  <1>. QED
    BY <1>3, <1>4, <1>5, <1>6 DEF IInv

LEMMA WithoutAttempt ==
    ASSUME IInv,
           \/ SetUp \/ Raise \/ RunsOut \/ OverBudget \/ Ask
           \/ \E s \in Sqls, cost \in 0..MaxCallCost : Answered(s, cost)
    PROVE  IInv'
  <1>1. TypeOK /\ PcAgrees /\ LedgerIsBounded
    BY DEF IInv
  <1>2. /\ Len(attempts) \in Nat /\ ledger.cost \in Nat /\ ledger.calls \in Nat
        /\ MaxAttempts \in Nat /\ Budget \in Nat /\ MaxCallCost \in Nat
    BY <1>1, AttemptsDomain, VerifiedAssumption DEF TypeOK
  <1>3. CASE SetUp \/ Raise \/ RunsOut \/ OverBudget \/ Ask
    <2>1. UNCHANGED <<sql, attempts, conversation, ledger, seenSql, seenFeedback>>
      BY <1>3 DEF SetUp, Raise, RunsOut, OverBudget, Ask, NothingRecorded
    <2>2. pc \in {"setup", "top", "querying"}
      BY <1>3 DEF SetUp, Raise, RunsOut, OverBudget, Ask
    <2>3. termination = "max_attempts"
      BY <1>1, <2>2 DEF PcAgrees
    <2>4. /\ termination' \in {"max_attempts", "budget"}
          /\ termination' = "budget" => ledger.cost >= Budget
          /\ pc' # "done" => termination' = termination
      BY <1>3, <2>3 DEF SetUp, Raise, RunsOut, OverBudget, Ask, Stop
    <2>5. TypeOK'
      BY <1>1, <1>3, <2>1, <2>4 DEF TypeOK, SetUp, Raise, RunsOut, OverBudget, Ask, Stop
    <2>6. PcAgrees'
      <3>1. pc' = "calling" => ledger.cost < Budget /\ Len(attempts) < MaxAttempts
        BY <1>3 DEF SetUp, Raise, RunsOut, OverBudget, Ask, Stop
      <3>2. pc' # "querying"
        BY <1>3 DEF SetUp, Raise, RunsOut, OverBudget, Ask, Stop
      <3>. QED
        BY <2>1, <2>3, <2>4, <3>1, <3>2 DEF PcAgrees
    <2>7. LedgerIsBounded'
      <3>1. pc' # "querying" /\ (pc = "querying" => pc' = "raised")
        BY <1>3 DEF SetUp, Raise, RunsOut, OverBudget, Ask, Stop
      <3>. QED
        BY <1>1, <2>1, <2>2, <2>4, <3>1 DEF LedgerIsBounded
    <2>. QED
      BY <2>1, <2>2, <2>4, <2>5, <2>6, <2>7, NoAttemptIsMade
  <1>4. ASSUME NEW s \in Sqls, NEW cost \in 0..MaxCallCost, Answered(s, cost)
        PROVE  IInv'
    <2>. USE <1>4 DEF Answered, Record
    <2>1. pc = "calling" /\ ledger.cost < Budget /\ Len(attempts) < MaxAttempts
          /\ termination = "max_attempts"
      BY <1>1 DEF PcAgrees
    <2>2. /\ ledger' \in [calls : Nat, cost : Nat]
          /\ ledger'.calls = ledger.calls + 1
          /\ ledger'.cost < Budget + MaxCallCost
      BY <1>2, <2>1
    <2>3. TypeOK'
      BY <1>1, <2>2 DEF TypeOK
    <2>4. PcAgrees'
      BY <2>1 DEF PcAgrees
    <2>5. LedgerIsBounded'
      BY <1>1, <1>2, <2>1, <2>2 DEF LedgerIsBounded
    <2>. QED
      BY <2>1, <2>3, <2>4, <2>5, NoAttemptIsMade
  <1>. QED
    BY <1>3, <1>4

-----------------------------------------------------------------------------
(* The steps that make an attempt.                                         *)

\* A failed call is told to the model but is not something it can repeat.
LEMMA FailedCallKeepsIInv ==
    ASSUME IInv, NEW message \in CallErrors, CallFailed(message),
           \/ pc' = "top" /\ UNCHANGED termination
           \/ pc' = "done" /\ termination' \in Refusals
    PROVE  IInv'
  <1>. DEFINE a == [sql |-> NoSql, error |-> message, complaint |-> NoError]
              t == [sql |-> NoSql, feedback |-> message]
  <1>1. /\ TypeOK /\ PcAgrees /\ LedgerIsBounded /\ SeenIsWhatWasSentBack
        /\ ConversationIsUpToDate /\ SuccessIsTheVerifiedQuery /\ StopsAtTheFirstRepeat
    BY DEF IInv
  <1>2. /\ Len(attempts) \in Nat /\ Len(conversation) \in Nat
        /\ ledger.cost \in Nat /\ ledger.calls \in Nat
        /\ MaxAttempts \in Nat /\ Budget \in Nat /\ MaxCallCost \in Nat
    BY <1>1, AttemptsDomain, VerifiedAssumption DEF TypeOK
  <1>3. /\ pc = "calling" /\ termination = "max_attempts"
        /\ ledger.cost < Budget /\ Len(attempts) < MaxAttempts
    BY <1>1 DEF PcAgrees, CallFailed
  <1>4. /\ a \in Attempts /\ t \in Turns
        /\ attempts' = Append(attempts, a) /\ conversation' = Append(conversation, t)
        /\ UNCHANGED <<sql, seenSql, seenFeedback>>
    BY DEF CallFailed, Tell, Attempts, Turns
  <1>5. /\ message # NoError /\ message \notin DbErrors \cup Complaints
        /\ FeedbackOn(a) = message /\ ~Accepted(a)
    BY VerifiedAssumption DEF FeedbackOn, Accepted, CallErrors
  <1>. HIDE DEF a, t
  <1>6. /\ attempts' \in Seq(Attempts)
        /\ Len(attempts') = Len(attempts) + 1
        /\ DOMAIN attempts' = 1..(Len(attempts) + 1) /\ DOMAIN attempts = 1..Len(attempts)
        /\ \A i \in 1..Len(attempts) : attempts'[i] = attempts[i]
        /\ attempts'[Len(attempts) + 1] = a
        /\ SentBack \subseteq 1..Len(attempts)
        /\ SentBack' = SentBack
    BY <1>1, <1>4, <1>5, OneMoreAttempt, AttemptsDomain
  <1>7. /\ conversation' \in Seq(Turns)
        /\ Len(conversation') = Len(conversation) + 1
        /\ \A i \in 1..Len(conversation) : conversation'[i] = conversation[i]
        /\ conversation'[Len(conversation) + 1] = t
    BY <1>1, <1>4, OneMoreTurn
  <1>8. ledger' \in [calls : Nat, cost : Nat]
        /\ ledger'.calls = ledger.calls + 1 /\ ledger'.cost = ledger.cost
    BY <1>2 DEF CallFailed, Record
  <1>9. termination' \notin {"success", "no_progress", "budget"}
    BY <1>3 DEF Refusals
  <1>10. TypeOK'
    BY <1>1, <1>4, <1>6, <1>7, <1>8 DEF TypeOK
  <1>11. PcAgrees'
    BY <1>3 DEF PcAgrees
  <1>12. SeenIsWhatWasSentBack'
    <2>1. \A i \in SentBack : attempts'[i] = attempts[i]
      BY <1>6
    <2>2. /\ \A s : s \in seenSql <=> \E i \in SentBack : attempts[i].sql = s
          /\ \A f : f \in seenFeedback <=> \E i \in SentBack : FeedbackOn(attempts[i]) = f
      BY <1>1, <1>3 DEF SeenIsWhatWasSentBack
    <2>3. /\ \A s : s \in seenSql' <=> \E i \in SentBack' : attempts'[i].sql = s
          /\ \A f : f \in seenFeedback' <=> \E i \in SentBack' : FeedbackOn(attempts'[i]) = f
      BY <1>4, <1>6, <2>1, <2>2
    <2>. QED
      BY <2>3 DEF SeenIsWhatWasSentBack, FeedbackOn
  <1>13. ConversationIsUpToDate'
    <2>1. /\ Len(conversation) = Len(attempts)
          /\ \A i \in 1..Len(attempts) :
              /\ conversation[i].sql = attempts[i].sql
              /\ conversation[i].feedback = FeedbackOn(attempts[i])
      BY <1>1, <1>3 DEF ConversationIsUpToDate
    <2>2. t.sql = a.sql /\ t.feedback = FeedbackOn(a)
      BY <1>5 DEF a, t
    <2>3. \A i \in 1..Len(attempts') : i \in 1..Len(attempts) \/ i = Len(attempts) + 1
      BY <1>2, <1>6
    <2>4. \A i \in 1..Len(attempts') :
            /\ conversation'[i].sql = attempts'[i].sql
            /\ conversation'[i].feedback = FeedbackOn(attempts'[i])
      BY <1>6, <1>7, <2>1, <2>2, <2>3
    <2>5. Len(conversation') = Len(attempts')
      BY <1>6, <1>7, <2>1
    <2>. QED
      BY <2>4, <2>5 DEF ConversationIsUpToDate, FeedbackOn
  <1>14. SuccessIsTheVerifiedQuery'
    <2>1. \A i \in 1..Len(attempts) : ~Accepted(attempts[i])
      BY <1>1, <1>3, <1>6 DEF SuccessIsTheVerifiedQuery
    <2>2. \A i \in 1..Len(attempts') : i \in 1..Len(attempts) \/ i = Len(attempts) + 1
      BY <1>2, <1>6
    <2>. QED
      BY <1>5, <1>6, <1>9, <2>1, <2>2 DEF SuccessIsTheVerifiedQuery, Accepted
  <1>15. StopsAtTheFirstRepeat'
    <2>1. \A i \in SentBack : ~RepeatsEarlier(i)'
      BY <1>1, <1>3, <1>4, EarlierRepeatsStay DEF StopsAtTheFirstRepeat
    <2>. QED
      BY <1>6, <1>9, <2>1 DEF StopsAtTheFirstRepeat
  <1>16. LedgerIsBounded'
    BY <1>1, <1>2, <1>3, <1>6, <1>8, <1>9 DEF LedgerIsBounded
  <1>. QED
    BY <1>10, <1>11, <1>12, <1>13, <1>14, <1>15, <1>16 DEF IInv

\* The query that executes and passes ends the run.
LEMMA AcceptKeepsIInv ==
    ASSUME IInv, Accept
    PROVE  IInv'
  <1>. DEFINE a == [sql |-> sql, error |-> NoError, complaint |-> NoError]
  <1>1. /\ TypeOK /\ PcAgrees /\ LedgerIsBounded /\ SeenIsWhatWasSentBack
        /\ SuccessIsTheVerifiedQuery /\ StopsAtTheFirstRepeat
    BY DEF IInv
  <1>2. /\ Len(attempts) \in Nat /\ ledger.cost \in Nat /\ ledger.calls \in Nat
    BY <1>1, AttemptsDomain DEF TypeOK
  <1>3. /\ pc = "querying" /\ termination = "max_attempts"
        /\ pc' = "done" /\ termination' = "success"
        /\ UNCHANGED <<sql, conversation, ledger, seenSql, seenFeedback>>
    BY <1>1 DEF PcAgrees, Accept, Attempted, Stop
  <1>4. a \in Attempts /\ attempts' = Append(attempts, a)
    BY <1>1 DEF Accept, Attempted, Attempts, TypeOK
  <1>5. FeedbackOn(a) \notin DbErrors \cup Complaints /\ Accepted(a)
    BY VerifiedAssumption DEF FeedbackOn, Accepted
  <1>. HIDE DEF a
  <1>6. /\ attempts' \in Seq(Attempts)
        /\ Len(attempts') = Len(attempts) + 1
        /\ DOMAIN attempts' = 1..(Len(attempts) + 1) /\ DOMAIN attempts = 1..Len(attempts)
        /\ \A i \in 1..Len(attempts) : attempts'[i] = attempts[i]
        /\ attempts'[Len(attempts) + 1] = a
        /\ SentBack \subseteq 1..Len(attempts)
        /\ SentBack' = SentBack
    BY <1>1, <1>4, <1>5, OneMoreAttempt, AttemptsDomain
  <1>7. TypeOK'
    BY <1>1, <1>3, <1>6 DEF TypeOK
  <1>8. PcAgrees' /\ ConversationIsUpToDate'
    BY <1>3 DEF PcAgrees, ConversationIsUpToDate
  <1>9. SeenIsWhatWasSentBack'
    <2>1. /\ \A s : s \in seenSql <=> \E i \in SentBack : attempts[i].sql = s
          /\ \A f : f \in seenFeedback <=> \E i \in SentBack : FeedbackOn(attempts[i]) = f
      BY <1>1, <1>3 DEF SeenIsWhatWasSentBack
    <2>2. /\ \A s : s \in seenSql' <=> \E i \in SentBack' : attempts'[i].sql = s
          /\ \A f : f \in seenFeedback' <=> \E i \in SentBack' : FeedbackOn(attempts'[i]) = f
      BY <1>3, <1>6, <2>1
    <2>. QED
      BY <2>2 DEF SeenIsWhatWasSentBack, FeedbackOn
  <1>10. SuccessIsTheVerifiedQuery'
    <2>1. \A i \in 1..Len(attempts) : ~Accepted(attempts[i])
      BY <1>1, <1>3, <1>6 DEF SuccessIsTheVerifiedQuery
    <2>2. \A i \in 1..(Len(attempts) + 1) :
            Accepted(attempts'[i]) <=> i = Len(attempts) + 1
      BY <1>2, <1>5, <1>6, <2>1
    <2>. QED
      BY <1>3, <1>6, <2>2 DEF SuccessIsTheVerifiedQuery, Accepted
  <1>11. StopsAtTheFirstRepeat'
    <2>1. \A i \in SentBack : ~RepeatsEarlier(i)'
      BY <1>1, <1>3, <1>4, EarlierRepeatsStay DEF StopsAtTheFirstRepeat
    <2>. QED
      BY <1>3, <1>6, <2>1 DEF StopsAtTheFirstRepeat
  <1>12. LedgerIsBounded'
    BY <1>1, <1>2, <1>3, <1>6 DEF LedgerIsBounded
  <1>. QED
    BY <1>7, <1>8, <1>9, <1>10, <1>11, <1>12 DEF IInv

\* An attempt that is sent back: told and remembered, or the first repetition.
LEMMA SendBackKeepsIInv ==
    ASSUME IInv, NEW feedback \in DbErrors \cup Complaints, NEW a \in Attempts,
           pc = "querying", attempts' = Append(attempts, a), UNCHANGED <<sql, ledger>>,
           SendBack(feedback),
           a.sql = sql, FeedbackOn(a) = feedback, ~Accepted(a)
    PROVE  IInv'
  <1>. DEFINE t == [sql |-> sql, feedback |-> feedback]
  <1>1. /\ TypeOK /\ PcAgrees /\ LedgerIsBounded /\ SeenIsWhatWasSentBack
        /\ ConversationIsUpToDate /\ SuccessIsTheVerifiedQuery /\ StopsAtTheFirstRepeat
    BY DEF IInv
  <1>2. /\ Len(attempts) \in Nat /\ Len(conversation) \in Nat
        /\ ledger.cost \in Nat /\ ledger.calls \in Nat
    BY <1>1, AttemptsDomain DEF TypeOK
  <1>3. termination = "max_attempts" /\ sql \in Sqls /\ Len(attempts) < MaxAttempts
    BY <1>1 DEF PcAgrees
  <1>. PICK n \in Nat : n = Len(attempts) + 1
    BY <1>2
  <1>4. /\ attempts' \in Seq(Attempts)
        /\ Len(attempts') = n
        /\ DOMAIN attempts' = 1..n /\ DOMAIN attempts = 1..Len(attempts)
        /\ \A i \in 1..Len(attempts) : attempts'[i] = attempts[i]
        /\ attempts'[n] = a
        /\ SentBack \subseteq 1..Len(attempts)
        /\ SentBack' = SentBack \cup {n}
        /\ n \notin 1..Len(attempts) /\ n \in Nat
        /\ \A i \in 1..n : i \in 1..Len(attempts) \/ i = n
    BY <1>1, <1>2, OneMoreAttempt, AttemptsDomain
  <1>5. /\ \A s : s \in seenSql <=> \E i \in SentBack : attempts[i].sql = s
        /\ \A f : f \in seenFeedback <=> \E i \in SentBack : FeedbackOn(attempts[i]) = f
    BY <1>1, <1>3 DEF SeenIsWhatWasSentBack
  <1>6. /\ Repeats(feedback) => /\ pc' = "done" /\ termination' = "no_progress"
                                /\ UNCHANGED <<conversation, seenSql, seenFeedback>>
        /\ ~Repeats(feedback) => /\ pc' = "top" /\ UNCHANGED termination
                                 /\ seenSql' = seenSql \cup {sql}
                                 /\ seenFeedback' = seenFeedback \cup {feedback}
                                 /\ conversation' = Append(conversation, t)
    BY DEF SendBack, Stop, Tell
  <1>7. RepeatsEarlier(n)' <=> Repeats(feedback)
    <2>1. \A j \in SentBack' : j < n <=> j \in SentBack
      BY <1>2, <1>4
    <2>2. RepeatsEarlier(n)' <=>
            \E j \in SentBack : \/ attempts[j].sql = a.sql
                                \/ FeedbackOn(attempts[j]) = FeedbackOn(a)
      <3>1. RepeatsEarlier(n)' <=>
              \E j \in SentBack' : j < n /\ (\/ attempts'[j].sql = attempts'[n].sql
                                             \/ FeedbackOn(attempts'[j]) = FeedbackOn(attempts'[n]))
        BY DEF RepeatsEarlier, FeedbackOn
      <3>2. \A j \in SentBack : attempts'[j] = attempts[j]
        BY <1>4
      <3>. QED
        BY <1>4, <2>1, <3>1, <3>2
    <2>. QED
      BY <1>5, <2>2 DEF Repeats
  <1>8. TypeOK'
    <2>1. sql \in Sqls \cup {NoSql} /\ t \in Turns
      BY <1>1 DEF TypeOK, Turns
    <2>. HIDE DEF t
    <2>2. CASE Repeats(feedback)
      BY <1>1, <1>4, <1>6, <2>2 DEF TypeOK
    <2>3. CASE ~Repeats(feedback)
      <3>1. conversation' \in Seq(Turns)
        BY <1>1, <1>6, <2>1, <2>3, OneMoreTurn
      <3>2. seenFeedback' \subseteq DbErrors \cup Complaints
        BY <1>1, <1>6, <2>3 DEF TypeOK
      <3>3. seenSql' \subseteq Sqls
        BY <1>1, <1>3, <1>6, <2>3 DEF TypeOK
      <3>. QED
        BY <1>1, <1>4, <1>6, <2>3, <3>1, <3>2, <3>3 DEF TypeOK
    <2>. QED
      BY <2>2, <2>3
  <1>9. PcAgrees'
    BY <1>3, <1>6 DEF PcAgrees
  <1>10. SeenIsWhatWasSentBack'
    <2>1. CASE Repeats(feedback)
      BY <1>6, <2>1 DEF SeenIsWhatWasSentBack
    <2>2. CASE ~Repeats(feedback)
      <3>1. \A i \in SentBack : attempts'[i] = attempts[i]
        BY <1>4
      <3>2. \A s : s \in seenSql' <=> \E i \in SentBack' : attempts'[i].sql = s
        BY <1>4, <1>5, <1>6, <2>2, <3>1
      <3>3. \A f : f \in seenFeedback' <=> \E i \in SentBack' : FeedbackOn(attempts'[i]) = f
        BY <1>4, <1>5, <1>6, <2>2, <3>1
      <3>. QED
        BY <3>2, <3>3 DEF SeenIsWhatWasSentBack, FeedbackOn
    <2>. QED
      BY <2>1, <2>2
  <1>11. ConversationIsUpToDate'
    <2>1. CASE Repeats(feedback)
      BY <1>6, <2>1 DEF ConversationIsUpToDate
    <2>2. CASE ~Repeats(feedback)
      <3>1. /\ Len(conversation) = Len(attempts)
            /\ \A i \in 1..Len(attempts) :
                /\ conversation[i].sql = attempts[i].sql
                /\ conversation[i].feedback = FeedbackOn(attempts[i])
        BY <1>1 DEF ConversationIsUpToDate
      <3>2. t \in Turns /\ t.sql = a.sql /\ t.feedback = FeedbackOn(a)
        BY <1>3 DEF Turns
      <3>. HIDE DEF t
      <3>3. /\ Len(conversation') = Len(conversation) + 1
            /\ \A i \in 1..Len(conversation) : conversation'[i] = conversation[i]
            /\ conversation'[Len(conversation) + 1] = t
        BY <1>1, <1>6, <2>2, <3>2, OneMoreTurn
      <3>4. \A i \in 1..n :
              /\ conversation'[i].sql = attempts'[i].sql
              /\ conversation'[i].feedback = FeedbackOn(attempts'[i])
        BY <1>4, <3>1, <3>2, <3>3
      <3>5. Len(conversation') = Len(attempts')
        BY <1>4, <3>1, <3>3
      <3>. QED
        BY <1>4, <3>4, <3>5 DEF ConversationIsUpToDate, FeedbackOn
    <2>. QED
      BY <2>1, <2>2
  <1>12. SuccessIsTheVerifiedQuery'
    <2>1. \A i \in 1..Len(attempts) : ~Accepted(attempts[i])
      BY <1>1, <1>3, <1>4 DEF SuccessIsTheVerifiedQuery
    <2>2. \A i \in 1..n : ~Accepted(attempts'[i])
      BY <1>4, <2>1
    <2>3. termination' # "success"
      BY <1>3, <1>6
    <2>. QED
      BY <1>4, <2>2, <2>3 DEF SuccessIsTheVerifiedQuery, Accepted
  <1>13. StopsAtTheFirstRepeat'
    <2>1. \A i \in SentBack : ~RepeatsEarlier(i)' /\ i # n
      BY <1>1, <1>3, <1>4, EarlierRepeatsStay DEF StopsAtTheFirstRepeat
    <2>2. Repeats(feedback) <=> termination' = "no_progress"
      BY <1>3, <1>6
    <2>3. \A i \in SentBack' :
            RepeatsEarlier(i)' <=> i = n /\ termination' = "no_progress"
      BY <1>4, <1>7, <2>1, <2>2
    <2>. QED
      BY <1>4, <2>3 DEF StopsAtTheFirstRepeat
  <1>14. LedgerIsBounded'
    BY <1>1, <1>2, <1>3, <1>4, <1>6 DEF LedgerIsBounded
  <1>. QED
    BY <1>8, <1>9, <1>10, <1>11, <1>12, <1>13, <1>14 DEF IInv

LEMMA FeedbackOnFailure ==
    ASSUME NEW s, NEW e \in DbErrors
    PROVE  LET a == [sql |-> s, error |-> e, complaint |-> NoError] IN
             /\ a.sql = s /\ FeedbackOn(a) = e /\ ~Accepted(a)
             /\ KindOf(a) \in {"db_error", "rejected"}
  <1>1. e # NoError /\ e \notin ApiErrors /\ e \notin Refusals
    BY VerifiedAssumption DEF CallErrors
  <1>. QED
    BY <1>1 DEF FeedbackOn, Accepted, KindOf

LEMMA FeedbackOnRejection ==
    ASSUME NEW s, NEW c \in Complaints
    PROVE  LET a == [sql |-> s, error |-> NoError, complaint |-> c] IN
             /\ a.sql = s /\ FeedbackOn(a) = c /\ ~Accepted(a)
             /\ KindOf(a) \in {"db_error", "rejected"}
  <1>1. /\ c # NoError
        /\ NoError \notin DbErrors /\ NoError \notin ApiErrors /\ NoError \notin Refusals
    BY VerifiedAssumption DEF CallErrors
  <1>. QED
    BY <1>1 DEF FeedbackOn, Accepted, KindOf

\* What the two kinds of sent-back attempt have in common.
LEMMA SentBackStep ==
    ASSUME IInv,
           \/ \E e \in DbErrors : QueryFails(e)
           \/ \E c \in Complaints : Reject(c)
    PROVE  \E feedback \in DbErrors \cup Complaints, a \in Attempts :
             /\ pc = "querying" /\ attempts' = Append(attempts, a)
             /\ UNCHANGED <<sql, ledger>>
             /\ SendBack(feedback)
             /\ a.sql = sql /\ FeedbackOn(a) = feedback /\ ~Accepted(a)
             /\ KindOf(a) \in {"db_error", "rejected"}
  <1>1. sql \in Sqls \cup {NoSql}
    BY DEF IInv, TypeOK
  <1>2. CASE \E e \in DbErrors : QueryFails(e)
    <2>1. PICK e \in DbErrors : QueryFails(e)
      BY <1>2
    <2>2. PICK a \in Attempts : a = [sql |-> sql, error |-> e, complaint |-> NoError]
      BY <1>1 DEF Attempts
    <2>3. /\ pc = "querying" /\ attempts' = Append(attempts, a)
          /\ UNCHANGED <<sql, ledger>> /\ SendBack(e)
      BY <2>1, <2>2 DEF QueryFails, Attempted
    <2>4. /\ a.sql = sql /\ FeedbackOn(a) = e /\ ~Accepted(a)
          /\ KindOf(a) \in {"db_error", "rejected"}
      BY <2>2, FeedbackOnFailure
    <2>. QED
      BY <2>3, <2>4
  <1>3. CASE \E c \in Complaints : Reject(c)
    <2>1. PICK c \in Complaints : Reject(c)
      BY <1>3
    <2>2. PICK a \in Attempts : a = [sql |-> sql, error |-> NoError, complaint |-> c]
      BY <1>1 DEF Attempts
    <2>3. /\ pc = "querying" /\ attempts' = Append(attempts, a)
          /\ UNCHANGED <<sql, ledger>> /\ SendBack(c)
      BY <2>1, <2>2 DEF Reject, Attempted
    <2>4. /\ a.sql = sql /\ FeedbackOn(a) = c /\ ~Accepted(a)
          /\ KindOf(a) \in {"db_error", "rejected"}
      BY <2>2, FeedbackOnRejection
    <2>. QED
      BY <2>3, <2>4
  <1>. QED
    BY <1>2, <1>3

-----------------------------------------------------------------------------
(* The invariants of the specification.                                    *)

LEMMA Inductive ==
    ASSUME IInv, [Next]_vars
    PROVE  IInv'
  <1>1. CASE \/ SetUp \/ Raise \/ RunsOut \/ OverBudget \/ Ask
             \/ \E s \in Sqls, cost \in 0..MaxCallCost : Answered(s, cost)
    BY <1>1, WithoutAttempt
  <1>2. CASE Accept
    BY <1>2, AcceptKeepsIInv
  <1>3. ASSUME NEW e \in ApiErrors, CallRetried(e)
        PROVE  IInv'
    BY <1>3, FailedCallKeepsIInv DEF CallRetried, CallErrors
  <1>4. ASSUME NEW reason \in Refusals, CallRefused(reason)
        PROVE  IInv'
    BY <1>4, FailedCallKeepsIInv DEF CallRefused, CallErrors, Stop
  <1>5. CASE \/ \E e \in DbErrors : QueryFails(e)
             \/ \E c \in Complaints : Reject(c)
    BY <1>5, SentBackStep, SendBackKeepsIInv
  <1>6. CASE UNCHANGED vars
    <2>. USE <1>6 DEF vars
    <2>1. SentBack' = SentBack /\ \A i : RepeatsEarlier(i)' <=> RepeatsEarlier(i)
      BY DEF SentBack, FeedbackOn, RepeatsEarlier
    <2>. QED
      BY <2>1 DEF IInv, TypeOK, PcAgrees, SeenIsWhatWasSentBack, ConversationIsUpToDate,
                  SuccessIsTheVerifiedQuery, StopsAtTheFirstRepeat, LedgerIsBounded,
                  FeedbackOn, Accepted
  <1>. QED
    BY <1>1, <1>2, <1>3, <1>4, <1>5, <1>6 DEF Next

THEOREM Invariance == Spec => []IInv
  <1>1. Init => IInv
    BY InitIInv
  <1>2. IInv /\ [Next]_vars => IInv'
    BY Inductive
  <1>. QED
    BY <1>1, <1>2, PTL DEF Spec

\* Every variable keeps its type.
THEOREM TypeCorrect == Spec => []TypeOK
  <1>1. IInv => TypeOK
    BY DEF IInv
  <1>. QED
    BY <1>1, Invariance, PTL

\* A success is always the last query, and one the verifier passed.
THEOREM SuccessIsVerified == Spec => []SuccessIsTheVerifiedQuery
  <1>1. IInv => SuccessIsTheVerifiedQuery
    BY DEF IInv
  <1>. QED
    BY <1>1, Invariance, PTL

\* The conversation and the attempts never drift apart while a run goes on.
THEOREM ConversationFollows == Spec => []ConversationFollowsTheAttempts
  <1>1. ASSUME IInv
        PROVE  ConversationFollowsTheAttempts
    BY <1>1, AttemptsDomain DEF IInv, ConversationIsUpToDate, ConversationFollowsTheAttempts
  <1>. QED
    BY <1>1, Invariance, PTL

\* A run stops at the first repetition, and "no progress" means nothing else.
THEOREM StopsAtRepeats == Spec => []StopsAtTheFirstRepeat
  <1>1. IInv => StopsAtTheFirstRepeat
    BY DEF IInv
  <1>. QED
    BY <1>1, Invariance, PTL

\* No run overshoots its budget by a whole call, and no call goes unrecorded.
THEOREM BudgetHolds == Spec => []LedgerIsBounded
  <1>1. IInv => LedgerIsBounded
    BY DEF IInv
  <1>. QED
    BY <1>1, Invariance, PTL

-----------------------------------------------------------------------------
(* Level 2 keeps the contract of AnswerContract.                           *)

Kinds == {"accepted", "refused", "call_failed", "rejected", "db_error"}

\* Whatever an attempt is, it is of one of the kinds of the contract.
LEMMA EveryKind == \A a : KindOf(a) \in Kinds
  BY DEF KindOf, Kinds

LEMMA LogFollowsAttempts ==
    ASSUME TypeOK
    PROVE  /\ Log \in Seq(Kinds)
           /\ Len(Log) = Len(attempts)
           /\ DOMAIN Log = 1..Len(attempts)
           /\ \A i \in 1..Len(attempts) : Log[i] = KindOf(attempts[i])
  <1>1. Len(attempts) \in Nat /\ DOMAIN attempts = 1..Len(attempts)
    BY AttemptsDomain
  <1>2. Log \in [1..Len(attempts) -> Kinds]
    BY <1>1, EveryKind DEF Log
  <1>3. Log \in Seq(Kinds)
    BY <1>1, <1>2, SeqDef
  <1>4. Len(Log) \in Nat /\ 1..Len(Log) = 1..Len(attempts)
    BY <1>2, <1>3, LenProperties
  <1>5. \A m, n \in Nat : 1..m = 1..n => m = n
    OBVIOUS
  <1>6. Len(Log) = Len(attempts)
    BY <1>1, <1>4, <1>5
  <1>. QED
    BY <1>1, <1>2, <1>3, <1>6 DEF Log

\* One more attempt is one more entry of the log.
LEMMA LogGrows ==
    ASSUME TypeOK, NEW a \in Attempts, attempts' = Append(attempts, a)
    PROVE  Log' = Append(Log, KindOf(a))
  <1>1. /\ Len(attempts) \in Nat
        /\ DOMAIN attempts' = 1..(Len(attempts) + 1)
        /\ \A i \in 1..Len(attempts) : attempts'[i] = attempts[i]
        /\ attempts'[Len(attempts) + 1] = a
    BY OneMoreAttempt, AttemptsDomain
  <1>2. Log' = [i \in 1..(Len(attempts) + 1) |-> KindOf(attempts'[i])]
    BY <1>1 DEF Log, KindOf
  <1>3. /\ Append(Log, KindOf(a)) \in Seq(Kinds)
        /\ Len(Append(Log, KindOf(a))) = Len(attempts) + 1
        /\ \A i \in 1..Len(attempts) : Append(Log, KindOf(a))[i] = KindOf(attempts[i])
        /\ Append(Log, KindOf(a))[Len(attempts) + 1] = KindOf(a)
    BY LogFollowsAttempts, EveryKind, AppendProperties
  <1>4. /\ Append(Log, KindOf(a)) \in [1..(Len(attempts) + 1) -> Kinds]
    BY <1>3, LenProperties
  <1>5. \A i \in 1..(Len(attempts) + 1) : Append(Log, KindOf(a))[i] = KindOf(attempts'[i])
    <2>1. \A i \in 1..(Len(attempts) + 1) : i \in 1..Len(attempts) \/ i = Len(attempts) + 1
      BY <1>1
    <2>. QED
      BY <1>1, <1>3, <2>1
  <1>. QED
    BY <1>2, <1>4, <1>5

\* A refusal, and a call that failed but may be retried, in the contract's terms.
LEMMA FailedCallIsTried ==
    ASSUME IInv, NEW message \in CallErrors, CallFailed(message),
           \/ message \in ApiErrors /\ pc' = "top" /\ UNCHANGED termination
           \/ message \in Refusals /\ pc' = "done" /\ termination' = message
    PROVE  Contract!Next
  <1>1. TypeOK /\ pc = "calling" /\ Len(attempts) < MaxAttempts
    BY DEF IInv, PcAgrees, CallFailed
  <1>2. PICK a \in Attempts : a = [sql |-> NoSql, error |-> message, complaint |-> NoError]
    BY DEF Attempts
  <1>3. Log' = Append(Log, KindOf(a))
    BY <1>1, <1>2, LogGrows DEF CallFailed
  <1>4. Verdict = "running" /\ Len(Log) < MaxAttempts
    BY <1>1, LogFollowsAttempts DEF Verdict
  <1>5. CASE message \in ApiErrors /\ pc' = "top"
    <2>1. KindOf(a) = "call_failed"
      <3>1. message \notin Refusals /\ message \notin DbErrors /\ NoError \notin Complaints
        BY <1>5, VerifiedAssumption DEF CallErrors
      <3>. QED
        BY <1>2, <1>5, <3>1 DEF KindOf
    <2>2. Verdict' = "running"
      BY <1>5 DEF Verdict
    <2>. QED
      BY <1>3, <1>4, <2>1, <2>2
      DEF Contract!Next, Contract!Try, Contract!Reasons, Contract!Sent
  <1>6. CASE message \in Refusals /\ pc' = "done" /\ termination' = message
    <2>1. KindOf(a) = "refused"
      <3>1. message \notin ApiErrors /\ message \notin DbErrors /\ NoError \notin Complaints
        BY <1>6, VerifiedAssumption DEF CallErrors
      <3>. QED
        BY <1>2, <1>6, <3>1 DEF KindOf
    <2>2. Verdict' \in {"credential", "bad_request"}
      BY <1>6 DEF Verdict, Refusals
    <2>. QED
      BY <1>3, <1>4, <2>1, <2>2
      DEF Contract!Next, Contract!Try, Contract!Reasons, Contract!Sent
  <1>. QED
    BY <1>5, <1>6

LEMMA AcceptIsTried ==
    ASSUME IInv, Accept
    PROVE  Contract!Next
  <1>1. TypeOK /\ pc = "querying" /\ Len(attempts) < MaxAttempts
    BY DEF IInv, PcAgrees, Accept, Attempted
  <1>2. PICK a \in Attempts : a = [sql |-> sql, error |-> NoError, complaint |-> NoError]
    BY <1>1 DEF Attempts, TypeOK
  <1>3. Log' = Append(Log, KindOf(a))
    BY <1>1, <1>2, LogGrows DEF Accept, Attempted
  <1>4. Verdict = "running" /\ Len(Log) < MaxAttempts /\ Verdict' = "success"
    BY <1>1, LogFollowsAttempts DEF Verdict, Accept, Stop
  <1>5. KindOf(a) = "accepted"
    BY <1>2, VerifiedAssumption DEF KindOf, CallErrors
  <1>. QED
    BY <1>3, <1>4, <1>5 DEF Contract!Next, Contract!Try, Contract!Reasons, Contract!Sent

\* "No progress" is only said when an earlier attempt was already sent back.
LEMMA SendBackIsTried ==
    ASSUME IInv, NEW feedback \in DbErrors \cup Complaints, NEW a \in Attempts,
           pc = "querying", attempts' = Append(attempts, a),
           SendBack(feedback), KindOf(a) \in {"db_error", "rejected"}
    PROVE  Contract!Next
  <1>1. /\ TypeOK /\ Len(attempts) < MaxAttempts
        /\ termination = "max_attempts" /\ SeenIsWhatWasSentBack
    BY DEF IInv, PcAgrees
  <1>2. Log' = Append(Log, KindOf(a))
    BY <1>1, LogGrows
  <1>3. Verdict = "running" /\ Len(Log) < MaxAttempts
    BY <1>1, LogFollowsAttempts DEF Verdict
  <1>4. CASE Repeats(feedback)
    <2>1. Verdict' = "no_progress"
      BY <1>4 DEF Verdict, SendBack, Stop
    <2>2. PICK i \in SentBack : TRUE
      BY <1>1, <1>4 DEF Repeats, SeenIsWhatWasSentBack
    <2>3. i \in DOMAIN Log /\ Log[i] = KindOf(attempts[i])
      BY <1>1, <2>2, LogFollowsAttempts, AttemptsDomain DEF SentBack
    <2>4. KindOf(attempts[i]) \in {"db_error", "rejected"}
      <3>1. FeedbackOn(attempts[i]) \in DbErrors \cup Complaints
        BY <2>2 DEF SentBack
      <3>2. CASE attempts[i].error = NoError
        <4>1. /\ attempts[i].complaint \in Complaints \/ attempts[i].complaint \in DbErrors
              /\ NoError \notin DbErrors /\ NoError \notin ApiErrors /\ NoError \notin Refusals
          BY <3>1, <3>2, VerifiedAssumption DEF FeedbackOn, CallErrors
        <4>2. attempts[i] \in Attempts
          BY <1>1, <2>3, LogFollowsAttempts, AttemptsDomain
        <4>3. attempts[i].complaint \in Complaints
          BY <4>1, <4>2 DEF Attempts
        <4>. QED
          BY <3>2, <4>1, <4>3 DEF KindOf
      <3>3. CASE attempts[i].error # NoError
        <4>1. attempts[i].error \in DbErrors \cup Complaints
          BY <3>1, <3>3 DEF FeedbackOn
        <4>2. attempts[i] \in Attempts
          BY <1>1, <2>3, LogFollowsAttempts, AttemptsDomain
        <4>3. attempts[i].error \in DbErrors
          BY <3>3, <4>1, <4>2, VerifiedAssumption DEF Attempts, CallErrors
        <4>4. attempts[i].error \notin ApiErrors /\ attempts[i].error \notin Refusals
          BY <4>3, VerifiedAssumption DEF CallErrors
        <4>. QED
          BY <4>3, <4>4 DEF KindOf
      <3>. QED
        BY <3>2, <3>3
    <2>. QED
      BY <1>2, <1>3, <2>1, <2>3, <2>4
      DEF Contract!Next, Contract!Try, Contract!Reasons, Contract!Sent
  <1>5. CASE ~Repeats(feedback)
    <2>1. Verdict' = "running"
      BY <1>5 DEF Verdict, SendBack
    <2>. QED
      BY <1>2, <1>3, <2>1
      DEF Contract!Next, Contract!Try, Contract!Reasons, Contract!Sent
  <1>. QED
    BY <1>4, <1>5

LEMMA StepKeepsContract ==
    ASSUME IInv, [Next]_vars
    PROVE  [Contract!Next]_(Contract!vars)
  <1>1. TypeOK /\ Len(Log) = Len(attempts) /\ (pc # "done" => termination = "max_attempts")
    BY LogFollowsAttempts DEF IInv, PcAgrees
  <1>2. ASSUME UNCHANGED attempts
        PROVE  Log' = Log
    BY <1>2 DEF Log, KindOf
  <1>3. CASE SetUp \/ Ask \/ \E s \in Sqls, cost \in 0..MaxCallCost : Answered(s, cost)
    <2>1. UNCHANGED attempts /\ Verdict' = Verdict
      BY <1>3 DEF SetUp, Ask, Answered, NothingRecorded, Verdict
    <2>. QED
      BY <1>2, <2>1 DEF Contract!vars
  <1>4. CASE Raise
    <2>1. UNCHANGED attempts /\ Verdict = "running" /\ Verdict' = "raised"
      BY <1>4 DEF Raise, NothingRecorded, Verdict
    <2>. QED
      BY <1>2, <2>1 DEF Contract!Next, Contract!Raise
  <1>5. CASE RunsOut
    <2>1. /\ UNCHANGED attempts /\ Verdict = "running" /\ Verdict' = "max_attempts"
          /\ ~(Len(Log) < MaxAttempts)
      BY <1>1, <1>5, AttemptsDomain, VerifiedAssumption
      DEF RunsOut, Stop, NothingRecorded, Verdict
    <2>. QED
      BY <1>2, <2>1 DEF Contract!Next, Contract!GiveUp
  <1>6. CASE OverBudget
    <2>1. /\ UNCHANGED attempts /\ Verdict = "running" /\ Verdict' = "budget"
          /\ Len(Log) < MaxAttempts
      BY <1>1, <1>6 DEF OverBudget, Stop, NothingRecorded, Verdict
    <2>. QED
      BY <1>2, <2>1 DEF Contract!Next, Contract!GiveUp
  <1>7. CASE Accept
    BY <1>7, AcceptIsTried
  <1>8. ASSUME NEW e \in ApiErrors, CallRetried(e)
        PROVE  Contract!Next
    BY <1>8, FailedCallIsTried DEF CallRetried, CallErrors
  <1>9. ASSUME NEW reason \in Refusals, CallRefused(reason)
        PROVE  Contract!Next
    BY <1>9, FailedCallIsTried DEF CallRefused, CallErrors, Stop
  <1>10. CASE \/ \E e \in DbErrors : QueryFails(e)
              \/ \E c \in Complaints : Reject(c)
    BY <1>10, SentBackStep, SendBackIsTried
  <1>11. CASE UNCHANGED vars
    <2>1. UNCHANGED attempts /\ Verdict' = Verdict
      BY <1>11 DEF vars, Verdict
    <2>. QED
      BY <1>2, <2>1 DEF Contract!vars
  <1>. QED
    BY <1>3, <1>4, <1>5, <1>6, <1>7, <1>8, <1>9, <1>10, <1>11 DEF Next

\* A Level 2 run stops for one named reason that fits its attempts, or raises.
THEOREM ContractKept == Spec => KeepsTheContract
  <1>1. Init => Contract!Init
    BY DEF Init, Log, Verdict, Contract!Init
  <1>2. IInv /\ [Next]_vars => [Contract!Next]_(Contract!vars)
    BY StepKeepsContract
  <1>. QED
    BY <1>1, <1>2, Invariance, PTL DEF Spec, KeepsTheContract, Contract!Spec

-----------------------------------------------------------------------------
(* Level 2 without complaints is Level 1.                                  *)

Level1Attempt(a) == [sql |-> a.sql, error |-> a.error, called |-> a.error \notin CallErrors]

Level1Attempts == [i \in DOMAIN attempts |-> Level1Attempt(attempts[i])]

\* One more attempt is one more attempt of Level 1.
LEMMA Level1AttemptsGrow ==
    ASSUME TypeOK, NEW a \in Attempts, attempts' = Append(attempts, a)
    PROVE  Level1Attempts' = Append(Level1Attempts, Level1Attempt(a))
  <1>. DEFINE All == {Level1Attempt(x) : x \in Attempts}
              n == Len(attempts)
  <1>1. /\ n \in Nat
        /\ DOMAIN attempts = 1..n /\ DOMAIN attempts' = 1..(n + 1)
        /\ \A i \in 1..n : attempts[i] \in Attempts /\ attempts'[i] = attempts[i]
        /\ attempts'[n + 1] = a
    BY OneMoreAttempt, AttemptsDomain
  <1>2. Level1Attempts = [i \in 1..n |-> Level1Attempt(attempts[i])]
    BY <1>1 DEF Level1Attempts
  <1>3. Level1Attempts' = [i \in 1..(n + 1) |-> Level1Attempt(attempts'[i])]
    BY <1>1 DEF Level1Attempts, Level1Attempt
  <1>. HIDE DEF n
  <1>4. Level1Attempts \in Seq(All) /\ Len(Level1Attempts) = n
    <2>1. Level1Attempts \in [1..n -> All]
      BY <1>1, <1>2
    <2>2. Level1Attempts \in Seq(All)
      BY <1>1, <2>1, SeqDef
    <2>3. Len(Level1Attempts) \in Nat /\ 1..Len(Level1Attempts) = 1..n
      BY <2>1, <2>2, LenProperties
    <2>4. \A k, m \in Nat : 1..k = 1..m => k = m
      OBVIOUS
    <2>. QED
      BY <1>1, <2>2, <2>3, <2>4
  <1>5. Level1Attempt(a) \in All
    OBVIOUS
  <1>. DEFINE more == Append(Level1Attempts, Level1Attempt(a))
  <1>. HIDE DEF All
  <1>6. /\ more \in Seq(All) /\ Len(more) = n + 1
        /\ \A i \in 1..n : more[i] = Level1Attempts[i]
        /\ more[n + 1] = Level1Attempt(a)
    BY <1>4, <1>5, AppendProperties
  <1>7. more \in [1..(n + 1) -> All]
    BY <1>6, LenProperties
  <1>8. \A i \in 1..(n + 1) : more[i] = Level1Attempt(attempts'[i])
    <2>1. \A i \in 1..(n + 1) : i \in 1..n \/ i = n + 1
      BY <1>1
    <2>. QED
      BY <1>1, <1>2, <1>6, <2>1
  <1>. HIDE DEF more
  <1>9. Level1Attempts' = more
    BY <1>3, <1>7, <1>8
  <1>. QED
    BY <1>9 DEF more

LEMMA Level1AttemptsLength ==
    ASSUME TypeOK
    PROVE  Len(Level1Attempts) = Len(attempts)
  <1>. DEFINE All == {Level1Attempt(x) : x \in Attempts}
  <1>1. /\ Len(attempts) \in Nat /\ DOMAIN attempts = 1..Len(attempts)
        /\ \A i \in 1..Len(attempts) : attempts[i] \in Attempts
    BY AttemptsDomain
  <1>2. Level1Attempts \in [1..Len(attempts) -> All]
    BY <1>1 DEF Level1Attempts
  <1>3. Level1Attempts \in Seq(All)
    BY <1>1, <1>2, SeqDef
  <1>4. Len(Level1Attempts) \in Nat /\ 1..Len(Level1Attempts) = 1..Len(attempts)
    BY <1>2, <1>3, LenProperties
  <1>5. \A k, m \in Nat : 1..k = 1..m => k = m
    OBVIOUS
  <1>. QED
    BY <1>1, <1>4, <1>5

LEMMA FailedCallIsOfLevel1 ==
    ASSUME IInv, NEW message \in CallErrors, CallFailed(message)
    PROVE  Level1!CallFailed(message)
  <1>1. TypeOK /\ pc = "calling"
    BY DEF IInv, CallFailed
  <1>2. PICK a \in Attempts : a = [sql |-> NoSql, error |-> message, complaint |-> NoError]
    BY DEF Attempts
  <1>3. Level1Attempts' = Append(Level1Attempts, Level1Attempt(a))
    BY <1>1, <1>2, Level1AttemptsGrow DEF CallFailed
  <1>4. Level1Attempt(a) = [sql |-> NoSql, error |-> message, called |-> FALSE]
    BY <1>2 DEF Level1Attempt
  <1>. QED
    BY <1>1, <1>3, <1>4
    DEF Level1!CallFailed, Level1!Record, CallFailed, Record, Level1Attempts, Level1Attempt

LEMMA AttemptedIsOfLevel1 ==
    ASSUME IInv, NEW e \in DbErrors \cup {NoError}, Attempted(e, NoError)
    PROVE  Level1!Attempted(e)
  <1>1. TypeOK /\ pc = "querying" /\ sql \in Sqls \cup {NoSql}
    BY DEF IInv, TypeOK, Attempted
  <1>2. PICK a \in Attempts : a = [sql |-> sql, error |-> e, complaint |-> NoError]
    BY <1>1 DEF Attempts
  <1>3. Level1Attempts' = Append(Level1Attempts, Level1Attempt(a))
    BY <1>1, <1>2, Level1AttemptsGrow DEF Attempted
  <1>4. e \notin CallErrors
    BY VerifiedAssumption
  <1>5. Level1Attempt(a) = [sql |-> sql, error |-> e, called |-> TRUE]
    BY <1>2, <1>4 DEF Level1Attempt
  <1>. QED
    BY <1>1, <1>3, <1>5
    DEF Level1!Attempted, Attempted, Level1Attempts, Level1Attempt

LEMMA StepIsOfLevel1 ==
    ASSUME IInv, [Next]_vars,
           \A i \in DOMAIN attempts' : attempts'[i].complaint = NoError
    PROVE  Level1!Next \/ (Raise /\ pc = "querying") \/ UNCHANGED Level1!vars
  <1>1. TypeOK /\ Len(Level1Attempts) = Len(attempts)
    BY Level1AttemptsLength DEF IInv
  <1>2. ASSUME UNCHANGED attempts
        PROVE  Level1Attempts' = Level1Attempts
    BY <1>2 DEF Level1Attempts, Level1Attempt
  <1>3. CASE UNCHANGED vars
    BY <1>2, <1>3 DEF vars, Level1!vars, Level1Attempts, Level1Attempt
  <1>13. CASE SetUp
    <2>1. Level1!SetUp
      BY <1>2, <1>13
      DEF SetUp, NothingRecorded, Level1!SetUp, Level1!NothingRecorded, Level1Attempts,
          Level1Attempt
    <2>. QED
      BY <2>1 DEF Level1!Next
  <1>14. CASE Raise /\ pc = "setup"
    <2>1. Level1!Raise
      BY <1>2, <1>14
      DEF Raise, NothingRecorded, Level1!Raise, Level1!NothingRecorded, Level1Attempts,
          Level1Attempt
    <2>. QED
      BY <2>1 DEF Level1!Next
  <1>4. CASE RunsOut
    <2>1. Level1!RunsOut
      BY <1>1, <1>2, <1>4
      DEF RunsOut, NothingRecorded, Stop, Level1!RunsOut, Level1!NothingRecorded, Level1!Stop,
          Level1Attempts, Level1Attempt
    <2>. QED
      BY <2>1 DEF Level1!Next
  <1>5. CASE OverBudget
    <2>1. Level1!OverBudget
      BY <1>1, <1>2, <1>5
      DEF OverBudget, NothingRecorded, Stop, Level1!OverBudget, Level1!NothingRecorded,
          Level1!Stop, Level1Attempts, Level1Attempt
    <2>. QED
      BY <2>1 DEF Level1!Next
  <1>6. CASE Ask
    <2>1. Level1!Ask
      BY <1>1, <1>2, <1>6
      DEF Ask, NothingRecorded, Level1!Ask, Level1!NothingRecorded, Level1Attempts, Level1Attempt
    <2>. QED
      BY <2>1 DEF Level1!Next
  <1>7. ASSUME NEW s \in Sqls, NEW cost \in 0..MaxCallCost, Answered(s, cost)
        PROVE  Level1!Next
    <2>1. Level1!Answered(s, cost)
      BY <1>2, <1>7
      DEF Answered, Record, Level1!Answered, Level1!Record, Level1Attempts, Level1Attempt
    <2>. QED
      BY <2>1 DEF Level1!Next
  <1>8. CASE Accept
    <2>1. Level1!Attempted(NoError)
      BY <1>8, AttemptedIsOfLevel1 DEF Accept
    <2>2. Level1!QueryRuns
      BY <1>8, <2>1 DEF Accept, Stop, Level1!QueryRuns, Level1!Stop
    <2>. QED
      BY <2>2 DEF Level1!Next
  <1>9. ASSUME NEW e \in ApiErrors, CallRetried(e)
        PROVE  Level1!Next
    <2>1. Level1!CallFailed(e)
      BY <1>9, FailedCallIsOfLevel1 DEF CallRetried, CallErrors
    <2>2. Level1!CallRetried(e)
      BY <1>9, <2>1 DEF CallRetried, Level1!CallRetried
    <2>. QED
      BY <2>2 DEF Level1!Next
  <1>10. ASSUME NEW reason \in Refusals, CallRefused(reason)
         PROVE  Level1!Next
    <2>1. Level1!CallFailed(reason)
      BY <1>10, FailedCallIsOfLevel1 DEF CallRefused, CallErrors
    <2>2. Level1!CallRefused(reason)
      BY <1>10, <2>1 DEF CallRefused, Stop, Level1!CallRefused, Level1!Stop
    <2>. QED
      BY <2>2 DEF Level1!Next, Level1!Refusals, Refusals
  <1>11. ASSUME NEW e \in DbErrors, QueryFails(e)
         PROVE  Level1!Next
    <2>1. Level1!Attempted(e)
      BY <1>11, AttemptedIsOfLevel1 DEF QueryFails
    <2>2. Level1!QueryFails(e)
      BY <1>11, <2>1
      DEF QueryFails, SendBack, Repeats, Stop, Level1!QueryFails, Level1!Repeats, Level1!Stop
    <2>. QED
      BY <2>2 DEF Level1!Next
  <1>12. ASSUME NEW c \in Complaints, Reject(c)
         PROVE  FALSE
    <2>1. sql \in Sqls \cup {NoSql}
      BY <1>1 DEF TypeOK
    <2>2. PICK a \in Attempts : a = [sql |-> sql, error |-> NoError, complaint |-> c]
      BY <2>1 DEF Attempts
    <2>3. /\ attempts'[Len(attempts) + 1] = a /\ Len(attempts) \in Nat
          /\ DOMAIN attempts' = 1..(Len(attempts) + 1)
      BY <1>1, <1>12, <2>2, OneMoreAttempt, AttemptsDomain DEF Reject, Attempted
    <2>4. a.complaint = c /\ c # NoError
      BY <2>2, VerifiedAssumption
    <2>. QED
      BY <2>3, <2>4
  <1>. QED
    BY <1>3, <1>4, <1>5, <1>6, <1>7, <1>8, <1>9, <1>10, <1>11, <1>12, <1>13, <1>14
    DEF Next, Raise

\* Until its verifier first complains or raises a Level 2 run is a Level 1 run, step by
\* step, setup included: verification changes nothing but what it objects to.
THEOREM Level1UntilAComplaint == Spec => UntilAComplaintItIsLevel1
  <1>1. IInv /\ [Next]_vars =>
            [(\A i \in DOMAIN attempts' : attempts'[i].complaint = NoError)
                => Level1!Next \/ (Raise /\ pc = "querying")]_(Level1!vars)
    BY StepIsOfLevel1
  <1>. QED
    BY <1>1, Invariance, PTL DEF Spec, UntilAComplaintItIsLevel1

=============================================================================
