------------------------ MODULE QuestionQueue_proofs -------------------------
(***************************************************************************)
(* Proofs about QuestionQueue, for any workers, producers, processes,      *)
(* questions and bounds.                                                   *)
(*                                                                         *)
(* The invariants of the runs are not inductive as they stand: IInv adds   *)
(* where a worker's row and a producer's draft are tied to its pc, that    *)
(* unfinished rows carry no result, and that the k-th receipt is for row   *)
(* k, which is what makes the PRIMARY KEY enough of a guard for enqueue.   *)
(***************************************************************************)
EXTENDS QuestionQueue, TLAPS, SequenceTheorems

WorkersHoldWhatTheyAnswer ==
    /\ \A w \in Workers : pc[w] \in {"down", "polling", "answering"}
    /\ \A w \in Workers : held[w] # 0 <=> pc[w] = "answering"

ClaimedIffHeldOrAbandoned ==
    /\ \A i \in Claimed : i \in abandoned \/ \E w \in Workers : held[w] = i
    /\ \A i \in abandoned : i \in Claimed
    /\ \A w \in Workers : held[w] # 0 => held[w] \in Claimed
    /\ \A w \in Workers : held[w] \notin abandoned

UnfinishedRowsHaveNoResult ==
    \A i \in Queued \cup Claimed : table[i].result = "none"

DraftsAreInRange ==
    \A p \in Producers : pc[p] = "inserting" => draft[p].id \in 1..(Len(table) + 1)

ReceiptsMatchRows ==
    /\ Len(receipts) = Len(table)
    /\ \A k \in 1..Len(table) :
        receipts[k].id = k /\ receipts[k].question = table[k].question

IInv ==
    /\ TypeOK
    /\ WorkersHoldWhatTheyAnswer
    /\ ClaimsAreExclusive
    /\ ClaimedIffHeldOrAbandoned
    /\ UnfinishedRowsHaveNoResult
    /\ TakenRowsAreAPrefix
    /\ DraftsAreInRange
    /\ ReceiptsMatchRows

-----------------------------------------------------------------------------
(* What the statements of queue/store.py do to the table.                  *)

\* An INSERT adds one row at the end and leaves the others alone.
LEMMA TableAppended ==
    ASSUME TypeOK, NEW p \in Producers
    PROVE  /\ NewRow(p) \in Rows
           /\ Append(table, NewRow(p)) \in Seq(Rows)
           /\ Len(Append(table, NewRow(p))) = Len(table) + 1
           /\ \A j \in 1..Len(table) : Append(table, NewRow(p))[j] = table[j]
           /\ Append(table, NewRow(p))[Len(table) + 1] = NewRow(p)
  <1>1. NewRow(p) \in Rows
    BY DEF TypeOK, NewRow, Rows, RunOutcomes
  <1>2. table \in Seq(Rows)
    BY DEF TypeOK
  <1>. QED
    BY <1>1, <1>2, AppendProperties

LEMMA TableDomain ==
    ASSUME TypeOK
    PROVE  /\ table \in Seq(Rows)
           /\ Len(table) \in Nat
           /\ DOMAIN table = 1..Len(table)
           /\ \A i \in 1..Len(table) : table[i] \in Rows
  <1>1. table \in Seq(Rows)
    BY DEF TypeOK
  <1>. QED
    BY <1>1, LenProperties, ElementOfSeq

\* An UPDATE changes one row and leaves the others alone.
LEMMA TableUpdated ==
    ASSUME TypeOK, NEW i \in 1..Len(table), NEW r \in Rows
    PROVE  /\ [table EXCEPT ![i] = r] \in Seq(Rows)
           /\ Len([table EXCEPT ![i] = r]) = Len(table)
           /\ \A j \in 1..Len(table) :
                [table EXCEPT ![i] = r][j] = IF j = i THEN r ELSE table[j]
  BY TableDomain, ExceptSeq

\* The rows that `claim` and that `finish` or `fail` leave behind.
LEMMA RowTaken ==
    ASSUME NEW row \in Rows
    PROVE  /\ Taken(row) \in Rows
           /\ Taken(row).question = row.question
           /\ Taken(row).status = "claimed"
           /\ Taken(row).result = row.result
  BY DEF Rows, Taken

LEMMA RowSettled ==
    ASSUME NEW row \in Rows, NEW outcome \in Outcomes(row.question)
    PROVE  /\ outcome \in RunOutcomes
           /\ StatusFor(outcome) \in {"done", "failed"}
           /\ Settled(row, outcome) \in Rows
  <1>1. outcome \in RunOutcomes
    BY DEF Outcomes
  <1>2. StatusFor(outcome) \in {"done", "failed"}
    BY DEF StatusFor
  <1>. QED
    BY <1>1, <1>2 DEF Settled, Rows

-----------------------------------------------------------------------------
(* The three steps that change the table, as facts about Len and rows.     *)

LEMMA InsertChangesTable ==
    ASSUME IInv, NEW p \in Producers, Insert(p)
    PROVE  /\ table' \in Seq(Rows)
           /\ Len(table') = Len(table) + 1
           /\ draft[p].id = Len(table) + 1
           /\ \A j \in 1..Len(table) : table'[j] = table[j]
           /\ table'[Len(table) + 1] = NewRow(p)
           /\ receipts' = Append(receipts, draft[p])
  <1>1. TypeOK /\ DraftsAreInRange
    BY DEF IInv
  <1>2. draft[p].id \in 1..(Len(table) + 1) /\ draft[p].id \notin DOMAIN table
    BY <1>1 DEF Insert, DraftsAreInRange
  <1>3. draft[p].id = Len(table) + 1
    BY <1>1, <1>2, TableDomain
  <1>. QED
    BY <1>1, <1>3, TableAppended DEF Insert

LEMMA ClaimChangesTable ==
    ASSUME IInv, NEW w \in Workers, Claim(w)
    PROVE  \E i \in 1..Len(table) :
             /\ i \in Queued /\ \A j \in Queued : i <= j
             /\ table' \in Seq(Rows)
             /\ Len(table') = Len(table)
             /\ \A j \in 1..Len(table) :
                  table'[j] = IF j = i THEN Taken(table[i]) ELSE table[j]
             /\ held' = [held EXCEPT ![w] = i]
  <1>1. TypeOK
    BY DEF IInv
  <1>2. PICK i \in DOMAIN table :
          /\ OldestQueued(i)
          /\ table' = [table EXCEPT ![i] = Taken(table[i])]
          /\ held' = [held EXCEPT ![w] = i]
    BY DEF Claim
  <1>3. i \in 1..Len(table) /\ table[i] \in Rows
    BY <1>1, <1>2, TableDomain
  <1>4. Taken(table[i]) \in Rows
    BY <1>3, RowTaken
  <1>5. i \in Queued /\ \A j \in Queued : i <= j
    BY <1>2 DEF OldestQueued
  <1>. QED
    BY <1>1, <1>2, <1>3, <1>4, <1>5, TableUpdated

LEMMA SettleChangesTable ==
    ASSUME IInv, NEW w \in Workers, Settle(w)
    PROVE  LET i == held[w] IN
             /\ i \in 1..Len(table) /\ i \in Claimed /\ i # 0
             /\ table' \in Seq(Rows)
             /\ Len(table') = Len(table)
             /\ \E outcome \in RunOutcomes :
                  /\ StatusFor(outcome) \in {"done", "failed"}
                  /\ \A j \in 1..Len(table) :
                       table'[j] = IF j = i THEN Settled(table[i], outcome) ELSE table[j]
  <1>. DEFINE i == held[w]
  <1>1. TypeOK
    BY DEF IInv
  <1>2. i # 0 /\ i \in Claimed
    BY DEF IInv, Settle, WorkersHoldWhatTheyAnswer, ClaimedIffHeldOrAbandoned
  <1>3. i \in 1..Len(table) /\ table[i] \in Rows
    BY <1>1, <1>2, TableDomain DEF Claimed
  <1>4. PICK outcome \in Outcomes(table[i].question) :
          table' = [table EXCEPT ![i] = Settled(table[i], outcome)]
    BY DEF Settle
  <1>5. /\ outcome \in RunOutcomes
        /\ StatusFor(outcome) \in {"done", "failed"}
        /\ Settled(table[i], outcome) \in Rows
    BY <1>3, RowSettled
  <1>. QED
    BY <1>1, <1>2, <1>3, <1>4, <1>5, TableUpdated

-----------------------------------------------------------------------------
(* The invariant holds at first.                                           *)

LEMMA InitIInv ==
    ASSUME Init
    PROVE  IInv
  <1>. USE DEF Init
  <1>1. table = <<>> /\ Len(table) = 0 /\ Queued = {} /\ Claimed = {}
    BY DEF Queued, Claimed
  <1>2. TypeOK
    <2>1. pc \in [Actors -> {"down", "polling", "answering", "away", "reading", "inserting"}]
      OBVIOUS
    <2>2. table \in Seq(Rows) /\ receipts \in Seq([question : Questions, id : Nat])
      BY EmptySeq
    <2>. QED
      BY <2>1, <2>2 DEF TypeOK
  <1>3. WorkersHoldWhatTheyAnswer
    BY DEF WorkersHoldWhatTheyAnswer, Actors
  <1>4. ClaimsAreExclusive
    BY DEF ClaimsAreExclusive
  <1>5. ClaimedIffHeldOrAbandoned /\ UnfinishedRowsHaveNoResult
    BY <1>1 DEF ClaimedIffHeldOrAbandoned, UnfinishedRowsHaveNoResult
  <1>6. TakenRowsAreAPrefix
    BY <1>1 DEF TakenRowsAreAPrefix
  <1>7. DraftsAreInRange
    BY QueueAssumption DEF DraftsAreInRange, Actors
  <1>8. ReceiptsMatchRows
    BY <1>1 DEF ReceiptsMatchRows
  <1>. QED
    BY <1>2, <1>3, <1>4, <1>5, <1>6, <1>7, <1>8 DEF IInv

-----------------------------------------------------------------------------
(* Every step preserves it.                                                *)

\* The steps that leave table, held, receipts and abandoned alone.
LEMMA QuietStep ==
    ASSUME IInv, TypeOK', DraftsAreInRange',
           UNCHANGED <<table, held, receipts, abandoned>>,
           \A w \in Workers : /\ pc'[w] \in {"down", "polling", "answering"}
                              /\ pc'[w] = "answering" <=> pc[w] = "answering"
    PROVE  IInv'
  <1>1. Queued' = Queued /\ Claimed' = Claimed
    BY DEF Queued, Claimed
  <1>2. WorkersHoldWhatTheyAnswer'
    BY DEF IInv, WorkersHoldWhatTheyAnswer
  <1>3. ClaimsAreExclusive' /\ ClaimedIffHeldOrAbandoned'
    BY <1>1 DEF IInv, ClaimsAreExclusive, ClaimedIffHeldOrAbandoned
  <1>4. UnfinishedRowsHaveNoResult' /\ TakenRowsAreAPrefix' /\ ReceiptsMatchRows'
    BY <1>1 DEF IInv, UnfinishedRowsHaveNoResult, TakenRowsAreAPrefix, ReceiptsMatchRows
  <1>. QED
    BY <1>2, <1>3, <1>4 DEF IInv

\* A producer's step that does not insert.
LEMMA ProducerWaits ==
    ASSUME IInv, NEW p \in Producers,
           \/ \E q \in Questions : Connect(p, q)
           \/ ConnectRefused(p)
           \/ ReadNextId(p)
           \/ InsertRefused(p)
    PROVE  IInv'
  <1>1. TypeOK /\ p \in Actors /\ p \notin Workers /\ Len(table) \in Nat
    BY QueueAssumption, TableDomain DEF IInv, Actors
  <1>2. DraftsAreInRange /\ \A w \in Workers : pc[w] \in {"down", "polling", "answering"}
    BY DEF IInv, WorkersHoldWhatTheyAnswer
  <1>3. ASSUME NEW q \in Questions, Connect(p, q)
        PROVE  IInv'
    <2>. USE <1>3 DEF Connect
    <2>1. TypeOK'
      BY <1>1 DEF TypeOK
    <2>2. DraftsAreInRange'
      BY <1>1, <1>2 DEF DraftsAreInRange, TypeOK, Actors
    <2>3. \A w \in Workers : pc'[w] = pc[w]
      BY <1>1 DEF TypeOK, Actors
    <2>. QED
      BY <1>2, <2>1, <2>2, <2>3, QuietStep
  <1>4. CASE ConnectRefused(p)
    <2>. USE <1>4 DEF ConnectRefused
    <2>1. TypeOK'
      BY <1>1 DEF TypeOK
    <2>2. DraftsAreInRange'
      BY <1>1, <1>2 DEF DraftsAreInRange
    <2>. QED
      BY <1>2, <2>1, <2>2, QuietStep
  <1>5. CASE ReadNextId(p)
    <2>. USE <1>5 DEF ReadNextId
    <2>1. draft' \in [Producers -> [question : Questions, id : Nat]]
      <3>1. Len(table) + 1 \in Nat
        BY <1>1
      <3>. QED
        BY <1>1, <3>1 DEF TypeOK
    <2>2. TypeOK'
      BY <1>1, <2>1 DEF TypeOK
    <2>3. draft'[p].id \in 1..(Len(table) + 1)
      <3>1. draft'[p].id = Len(table) + 1
        BY <1>1 DEF TypeOK
      <3>. QED
        BY <1>1, <3>1
    <2>4. DraftsAreInRange'
      BY <1>1, <1>2, <2>3 DEF DraftsAreInRange, TypeOK, Actors
    <2>5. \A w \in Workers : pc'[w] = pc[w]
      BY <1>1 DEF TypeOK, Actors
    <2>. QED
      BY <1>2, <2>2, <2>4, <2>5, QuietStep
  <1>6. CASE InsertRefused(p)
    <2>. USE <1>6 DEF InsertRefused, HangUp
    <2>1. TypeOK'
      BY <1>1 DEF TypeOK
    <2>2. DraftsAreInRange'
      BY <1>1, <1>2 DEF DraftsAreInRange, TypeOK, Actors
    <2>3. \A w \in Workers : pc'[w] = pc[w]
      BY <1>1 DEF TypeOK, Actors
    <2>. QED
      BY <1>2, <2>1, <2>2, <2>3, QuietStep
  <1>. QED
    BY <1>3, <1>4, <1>5, <1>6

\* A worker's step that neither claims nor settles.
LEMMA WorkerWaits ==
    ASSUME IInv, NEW w \in Workers, Start(w) \/ PollEmpty(w)
    PROVE  IInv'
  <1>1. TypeOK /\ w \in Actors /\ w \notin Producers
    BY QueueAssumption DEF IInv, Actors
  <1>2. UNCHANGED <<table, held, draft, told, receipts, abandoned>>
    BY DEF Start, PollEmpty
  <1>3. /\ pc[w] # "answering"
        /\ \/ pc' = pc
           \/ pc' = [pc EXCEPT ![w] = "polling"]
           \/ pc' = [pc EXCEPT ![w] = "down"]
    BY DEF Start, PollEmpty
  <1>4. open' \subseteq Actors /\ idle' \in [Workers -> Nat]
    <2>1. CASE Start(w)
      BY <1>1, <2>1 DEF TypeOK, Start
    <2>2. CASE PollEmpty(w)
      <3>1. open' \subseteq open
        BY <2>2 DEF PollEmpty
      <3>2. \/ idle' = idle
            \/ idle' = [idle EXCEPT ![w] = 0]
            \/ idle' = [idle EXCEPT ![w] = idle[w] + 1]
        <4>1. CASE MaxIdle = 0
          BY <2>2, <4>1 DEF PollEmpty
        <4>2. CASE MaxIdle # 0
          BY <2>2, <4>2 DEF PollEmpty
        <4>. QED
          BY <4>1, <4>2
      <3>3. idle \in [Workers -> Nat]
        BY <1>1 DEF TypeOK
      <3>4. idle[w] \in Nat
        BY <3>3
      <3>5. idle[w] + 1 \in Nat
        BY <3>4
      <3>6. idle' \in [Workers -> Nat]
        BY <3>2, <3>3, <3>5
      <3>. QED
        BY <1>1, <3>1, <3>6 DEF TypeOK
    <2>. QED
      BY <2>1, <2>2
  <1>5. TypeOK'
    BY <1>1, <1>2, <1>3, <1>4 DEF TypeOK
  <1>6. DraftsAreInRange'
    BY <1>1, <1>2, <1>3 DEF IInv, DraftsAreInRange, TypeOK, Actors
  <1>7. \A v \in Workers : /\ pc'[v] \in {"down", "polling", "answering"}
                           /\ pc'[v] = "answering" <=> pc[v] = "answering"
    BY <1>1, <1>3 DEF IInv, WorkersHoldWhatTheyAnswer, TypeOK, Actors
  <1>. QED
    BY <1>2, <1>5, <1>6, <1>7, QuietStep

LEMMA WorkerDies ==
    ASSUME IInv, NEW w \in Workers, Die(w)
    PROVE  IInv'
  <1>. USE DEF Die
  <1>1. TypeOK /\ w \in Actors /\ w \notin Producers
    BY QueueAssumption DEF IInv, Actors
  <1>2. /\ WorkersHoldWhatTheyAnswer /\ ClaimsAreExclusive /\ ClaimedIffHeldOrAbandoned
        /\ DraftsAreInRange
    BY DEF IInv
  <1>3. TypeOK'
    BY <1>1 DEF TypeOK
  <1>4. /\ pc \in [Actors -> {"down", "polling", "answering", "away", "reading", "inserting"}]
        /\ held \in [Workers -> Nat]
        /\ Workers \subseteq Actors /\ Producers \subseteq Actors
    BY <1>1 DEF TypeOK, Actors
  <1>5. /\ held'[w] = 0 /\ \A v \in Workers : v # w => held'[v] = held[v]
        /\ pc'[w] = "down" /\ \A v \in Actors : v # w => pc'[v] = pc[v]
    BY <1>1, <1>4
  <1>6. Queued' = Queued /\ Claimed' = Claimed
    BY DEF Queued, Claimed
  <1>7. WorkersHoldWhatTheyAnswer' /\ ClaimsAreExclusive'
    BY <1>2, <1>4, <1>5 DEF WorkersHoldWhatTheyAnswer, ClaimsAreExclusive
  <1>8. ClaimedIffHeldOrAbandoned'
    <2>1. CASE held[w] = 0
      BY <1>2, <1>5, <1>6, <2>1 DEF ClaimedIffHeldOrAbandoned
    <2>2. CASE held[w] # 0
      <3>1. abandoned' = abandoned \cup {held[w]}
        BY <2>2
      <3>2. \A v \in Workers : v # w => held'[v] # held[w] \/ held'[v] = 0
        BY <1>2, <1>5 DEF ClaimsAreExclusive
      <3>3. 0 \notin abandoned'
        BY <1>2, <2>2, <3>1, <1>1, TableDomain DEF ClaimedIffHeldOrAbandoned, Claimed
      <3>. QED
        BY <1>2, <1>5, <1>6, <2>2, <3>1, <3>2, <3>3 DEF ClaimedIffHeldOrAbandoned
    <2>. QED
      BY <2>1, <2>2
  <1>9. UnfinishedRowsHaveNoResult' /\ TakenRowsAreAPrefix' /\ ReceiptsMatchRows'
    BY <1>6 DEF IInv, UnfinishedRowsHaveNoResult, TakenRowsAreAPrefix, ReceiptsMatchRows
  <1>10. DraftsAreInRange'
    BY <1>1, <1>2, <1>4, <1>5 DEF DraftsAreInRange
  <1>. QED
    BY <1>3, <1>7, <1>8, <1>9, <1>10 DEF IInv

\* Insert: the new row is queued, and it is the last.
LEMMA ProducerInserts ==
    ASSUME IInv, NEW p \in Producers, Insert(p)
    PROVE  IInv'
  <1>1. TypeOK /\ p \in Actors /\ p \notin Workers
    BY QueueAssumption DEF IInv, Actors
  <1>2. /\ WorkersHoldWhatTheyAnswer /\ ClaimsAreExclusive /\ ClaimedIffHeldOrAbandoned
        /\ UnfinishedRowsHaveNoResult /\ TakenRowsAreAPrefix
        /\ DraftsAreInRange /\ ReceiptsMatchRows
    BY DEF IInv
  <1>3. /\ table' \in Seq(Rows) /\ Len(table) \in Nat
        /\ Len(table') = Len(table) + 1
        /\ draft[p].id = Len(table) + 1
        /\ \A j \in 1..Len(table) : table'[j] = table[j]
        /\ table'[Len(table) + 1] = NewRow(p)
        /\ receipts' = Append(receipts, draft[p])
    BY <1>1, InsertChangesTable, TableDomain
  <1>4. DOMAIN table = 1..Len(table) /\ DOMAIN table' = 1..(Len(table) + 1)
    BY <1>1, <1>3, TableDomain, LenProperties
  <1>5. UNCHANGED <<held, idle, draft, abandoned>> /\ pc' = [pc EXCEPT ![p] = "away"]
    BY DEF Insert, HangUp
  <1>6. Claimed' = Claimed /\ Queued' = Queued \cup {Len(table) + 1}
    BY <1>3, <1>4 DEF Claimed, Queued, NewRow
  <1>7. /\ receipts \in Seq([question : Questions, id : Nat])
        /\ draft[p] \in [question : Questions, id : Nat]
    BY <1>1 DEF TypeOK
  <1>8. /\ receipts' \in Seq([question : Questions, id : Nat])
        /\ Len(receipts') = Len(receipts) + 1
        /\ \A k \in 1..Len(receipts) : receipts'[k] = receipts[k]
        /\ receipts'[Len(receipts) + 1] = draft[p]
    BY <1>3, <1>7, AppendProperties
  <1>9. TypeOK'
    <2>1. open' \subseteq Actors /\ told' \in [Producers -> {"nothing", "queued", "locked", "duplicate id"}]
      BY <1>1 DEF TypeOK, Insert, HangUp
    <2>. QED
      BY <1>1, <1>3, <1>5, <1>8, <2>1 DEF TypeOK
  <1>10. \A w \in Workers : pc'[w] = pc[w]
    BY <1>1, <1>5 DEF TypeOK, Actors
  <1>11. WorkersHoldWhatTheyAnswer' /\ ClaimsAreExclusive' /\ ClaimedIffHeldOrAbandoned'
    BY <1>2, <1>5, <1>6, <1>10
    DEF WorkersHoldWhatTheyAnswer, ClaimsAreExclusive, ClaimedIffHeldOrAbandoned
  <1>12. UnfinishedRowsHaveNoResult'
    <2>1. NewRow(p).result = "none"
      BY DEF NewRow
    <2>2. \A i \in Queued \cup Claimed : i \in 1..Len(table)
      BY <1>4 DEF Queued, Claimed
    <2>. QED
      BY <1>2, <1>3, <1>6, <2>1, <2>2 DEF UnfinishedRowsHaveNoResult
  <1>13. TakenRowsAreAPrefix'
    <2>. SUFFICES ASSUME NEW i \in 1..(Len(table) + 1), NEW j \in 1..(Len(table) + 1),
                         i < j, i \in Queued'
                  PROVE  j \in Queued'
      BY <1>4 DEF TakenRowsAreAPrefix
    <2>1. CASE j = Len(table) + 1
      BY <1>6, <2>1
    <2>2. CASE j # Len(table) + 1
      <3>1. i \in 1..Len(table) /\ j \in 1..Len(table) /\ i \in Queued
        BY <1>3, <1>6, <2>2
      <3>. QED
        BY <1>2, <1>4, <1>6, <3>1 DEF TakenRowsAreAPrefix
    <2>. QED
      BY <2>1, <2>2
  <1>14. DraftsAreInRange'
    <2>. SUFFICES ASSUME NEW r \in Producers, pc'[r] = "inserting"
                  PROVE  draft'[r].id \in 1..(Len(table') + 1)
      BY DEF DraftsAreInRange
    <2>1. pc[r] = "inserting"
      BY <1>1, <1>5 DEF TypeOK, Actors
    <2>2. draft[r].id \in 1..(Len(table) + 1)
      BY <1>2, <2>1 DEF DraftsAreInRange
    <2>. QED
      BY <1>3, <1>5, <2>2
  <1>15. ReceiptsMatchRows'
    <2>1. NewRow(p).question = draft[p].question
      BY DEF NewRow
    <2>2. Len(receipts') = Len(table')
      BY <1>2, <1>3, <1>8 DEF ReceiptsMatchRows
    <2>. SUFFICES ASSUME NEW k \in 1..(Len(table) + 1)
                  PROVE  receipts'[k].id = k /\ receipts'[k].question = table'[k].question
      BY <1>3, <2>2 DEF ReceiptsMatchRows
    <2>3. CASE k = Len(table) + 1
      BY <1>2, <1>3, <1>8, <2>1, <2>3 DEF ReceiptsMatchRows
    <2>4. CASE k # Len(table) + 1
      <3>1. k \in 1..Len(table)
        BY <1>3, <2>4
      <3>. QED
        BY <1>2, <1>3, <1>8, <3>1 DEF ReceiptsMatchRows
    <2>. QED
      BY <2>3, <2>4
  <1>. QED
    BY <1>9, <1>11, <1>12, <1>13, <1>14, <1>15 DEF IInv

\* Claim: the oldest queued row becomes claimed, and held by w alone.
LEMMA WorkerClaims ==
    ASSUME IInv, NEW w \in Workers, Claim(w)
    PROVE  IInv'
  <1>1. TypeOK /\ w \in Actors /\ w \notin Producers
    BY QueueAssumption DEF IInv, Actors
  <1>2. /\ WorkersHoldWhatTheyAnswer /\ ClaimsAreExclusive /\ ClaimedIffHeldOrAbandoned
        /\ UnfinishedRowsHaveNoResult /\ TakenRowsAreAPrefix
        /\ DraftsAreInRange /\ ReceiptsMatchRows
    BY DEF IInv
  <1>3. PICK i \in 1..Len(table) :
          /\ i \in Queued /\ \A j \in Queued : i <= j
          /\ table' \in Seq(Rows)
          /\ Len(table') = Len(table)
          /\ \A j \in 1..Len(table) :
               table'[j] = IF j = i THEN Taken(table[i]) ELSE table[j]
          /\ held' = [held EXCEPT ![w] = i]
    BY ClaimChangesTable
  <1>4. Len(table) \in Nat /\ DOMAIN table = 1..Len(table) /\ DOMAIN table' = 1..Len(table)
    BY <1>1, <1>3, TableDomain, LenProperties
  <1>5. /\ Taken(table[i]).question = table[i].question
        /\ Taken(table[i]).status = "claimed"
        /\ Taken(table[i]).result = table[i].result
        /\ table[i].status = "queued"
    BY <1>1, <1>3, TableDomain, RowTaken DEF Queued
  <1>6. Queued' = Queued \ {i} /\ Claimed' = Claimed \cup {i} /\ i \notin Claimed
    BY <1>3, <1>4, <1>5 DEF Queued, Claimed
  <1>7. /\ pc[w] = "polling" /\ pc' = [pc EXCEPT ![w] = "answering"]
        /\ UNCHANGED <<open, idle, draft, told, receipts, abandoned>>
    BY DEF Claim
  <1>8. TypeOK'
    <2>1. i \in Nat
      BY <1>3, <1>4
    <2>2. held' \in [Workers -> Nat]
      BY <1>1, <1>3, <2>1 DEF TypeOK
    <2>. QED
      BY <1>1, <1>3, <1>7, <2>2 DEF TypeOK
  <1>9. /\ pc \in [Actors -> {"down", "polling", "answering", "away", "reading", "inserting"}]
        /\ held \in [Workers -> Nat]
        /\ Workers \subseteq Actors /\ Producers \subseteq Actors
    BY <1>1 DEF TypeOK, Actors
  <1>10. /\ held'[w] = i /\ \A v \in Workers : v # w => held'[v] = held[v]
         /\ pc'[w] = "answering" /\ \A v \in Actors : v # w => pc'[v] = pc[v]
    BY <1>1, <1>3, <1>7, <1>9
  <1>11. WorkersHoldWhatTheyAnswer'
    <2>1. i # 0
      BY <1>3, <1>4
    <2>. QED
      BY <1>2, <1>9, <1>10, <2>1 DEF WorkersHoldWhatTheyAnswer
  <1>12. \A v \in Workers : held[v] # i
    BY <1>2, <1>3, <1>4, <1>6 DEF ClaimedIffHeldOrAbandoned
  <1>13. ClaimsAreExclusive'
    BY <1>2, <1>10, <1>12 DEF ClaimsAreExclusive
  <1>14. ClaimedIffHeldOrAbandoned'
    <2>1. held[w] = 0
      BY <1>2, <1>7 DEF WorkersHoldWhatTheyAnswer
    <2>2. i \notin abandoned /\ 0 \notin Claimed
      BY <1>2, <1>4, <1>6 DEF ClaimedIffHeldOrAbandoned, Claimed
    <2>. QED
      BY <1>2, <1>6, <1>7, <1>10, <2>1, <2>2 DEF ClaimedIffHeldOrAbandoned
  <1>15. UnfinishedRowsHaveNoResult'
    <2>1. \A j \in Queued \cup Claimed : j \in 1..Len(table) /\ table[j].result = "none"
      BY <1>2, <1>4 DEF UnfinishedRowsHaveNoResult, Queued, Claimed
    <2>. QED
      BY <1>3, <1>5, <1>6, <2>1 DEF UnfinishedRowsHaveNoResult
  <1>16. TakenRowsAreAPrefix'
    <2>. SUFFICES ASSUME NEW j \in 1..Len(table), NEW k \in 1..Len(table), j < k, j \in Queued'
                  PROVE  k \in Queued'
      BY <1>4 DEF TakenRowsAreAPrefix
    <2>1. k \in Queued /\ i <= j
      BY <1>2, <1>3, <1>4, <1>6 DEF TakenRowsAreAPrefix
    <2>2. k # i
      BY <1>4, <2>1
    <2>. QED
      BY <1>6, <2>1, <2>2
  <1>17. DraftsAreInRange'
    BY <1>1, <1>2, <1>3, <1>7, <1>9, <1>10 DEF DraftsAreInRange
  <1>18. ReceiptsMatchRows'
    BY <1>2, <1>3, <1>5, <1>7 DEF ReceiptsMatchRows
  <1>. QED
    BY <1>8, <1>11, <1>13, <1>14, <1>15, <1>16, <1>17, <1>18 DEF IInv

\* Settle: the row w holds is finished, and held by nobody.
LEMMA WorkerSettles ==
    ASSUME IInv, NEW w \in Workers, Settle(w)
    PROVE  IInv'
  <1>. DEFINE i == held[w]
  <1>1. TypeOK /\ w \in Actors /\ w \notin Producers
    BY QueueAssumption DEF IInv, Actors
  <1>2. /\ WorkersHoldWhatTheyAnswer /\ ClaimsAreExclusive /\ ClaimedIffHeldOrAbandoned
        /\ UnfinishedRowsHaveNoResult /\ TakenRowsAreAPrefix
        /\ DraftsAreInRange /\ ReceiptsMatchRows
    BY DEF IInv
  <1>3. /\ i \in 1..Len(table) /\ i \in Claimed /\ i # 0
        /\ table' \in Seq(Rows)
        /\ Len(table') = Len(table)
    BY SettleChangesTable
  <1>4. PICK outcome \in RunOutcomes :
          /\ StatusFor(outcome) \in {"done", "failed"}
          /\ \A j \in 1..Len(table) :
               table'[j] = IF j = i THEN Settled(table[i], outcome) ELSE table[j]
    BY SettleChangesTable
  <1>5. Len(table) \in Nat /\ DOMAIN table = 1..Len(table) /\ DOMAIN table' = 1..Len(table)
    BY <1>1, <1>3, TableDomain, LenProperties
  <1>6. /\ Settled(table[i], outcome).question = table[i].question
        /\ Settled(table[i], outcome).status \in {"done", "failed"}
    BY <1>4 DEF Settled
  <1>7. Queued' = Queued /\ Claimed' = Claimed \ {i}
    BY <1>3, <1>4, <1>5, <1>6 DEF Queued, Claimed
  <1>8. /\ pc[w] = "answering" /\ pc' = [pc EXCEPT ![w] = "polling"]
        /\ held' = [held EXCEPT ![w] = 0] /\ idle' = [idle EXCEPT ![w] = 0]
        /\ UNCHANGED <<open, draft, told, receipts, abandoned>>
    BY DEF Settle
  <1>9. TypeOK'
    BY <1>1, <1>3, <1>8 DEF TypeOK
  <1>10. /\ pc \in [Actors -> {"down", "polling", "answering", "away", "reading", "inserting"}]
         /\ held \in [Workers -> Nat]
         /\ Workers \subseteq Actors /\ Producers \subseteq Actors
    BY <1>1 DEF TypeOK, Actors
  <1>11. /\ held'[w] = 0 /\ \A v \in Workers : v # w => held'[v] = held[v]
         /\ pc'[w] = "polling" /\ \A v \in Actors : v # w => pc'[v] = pc[v]
    BY <1>1, <1>8, <1>10
  <1>12. WorkersHoldWhatTheyAnswer' /\ ClaimsAreExclusive'
    BY <1>2, <1>10, <1>11 DEF WorkersHoldWhatTheyAnswer, ClaimsAreExclusive
  <1>13. ClaimedIffHeldOrAbandoned'
    <2>1. \A v \in Workers : v # w => held[v] # i
      BY <1>2, <1>3 DEF ClaimsAreExclusive
    <2>2. i \notin abandoned /\ 0 \notin Claimed
      BY <1>2, <1>5 DEF ClaimedIffHeldOrAbandoned, Claimed
    <2>. QED
      BY <1>2, <1>7, <1>8, <1>11, <2>1, <2>2 DEF ClaimedIffHeldOrAbandoned
  <1>14. UnfinishedRowsHaveNoResult'
    <2>1. \A j \in Queued \cup Claimed : j \in 1..Len(table) /\ table[j].result = "none"
      BY <1>2, <1>5 DEF UnfinishedRowsHaveNoResult, Queued, Claimed
    <2>2. i \notin Queued
      BY <1>3 DEF Queued, Claimed
    <2>. QED
      BY <1>4, <1>7, <2>1, <2>2 DEF UnfinishedRowsHaveNoResult
  <1>15. TakenRowsAreAPrefix'
    BY <1>2, <1>5, <1>7 DEF TakenRowsAreAPrefix
  <1>16. DraftsAreInRange'
    BY <1>1, <1>2, <1>3, <1>8, <1>10, <1>11 DEF DraftsAreInRange
  <1>17. ReceiptsMatchRows'
    BY <1>2, <1>3, <1>4, <1>6, <1>8 DEF ReceiptsMatchRows
  <1>. QED
    BY <1>9, <1>12, <1>13, <1>14, <1>15, <1>16, <1>17 DEF IInv

-----------------------------------------------------------------------------
(* The invariants of the specification.                                    *)

LEMMA Inductive ==
    ASSUME IInv, [Next]_vars
    PROVE  IInv'
  <1>1. CASE \E p \in Producers, q \in Questions : Connect(p, q)
    BY <1>1, ProducerWaits
  <1>2. ASSUME NEW p \in Producers,
               ConnectRefused(p) \/ ReadNextId(p) \/ Insert(p) \/ InsertRefused(p)
        PROVE  IInv'
    BY <1>2, ProducerWaits, ProducerInserts
  <1>3. ASSUME NEW w \in Workers, Start(w) \/ WorkerStep(w) \/ Die(w)
        PROVE  IInv'
    BY <1>3, WorkerWaits, WorkerClaims, WorkerSettles, WorkerDies DEF WorkerStep
  <1>4. CASE UNCHANGED vars
    <2>. USE <1>4 DEF vars
    <2>1. Queued' = Queued /\ Claimed' = Claimed
      BY DEF Queued, Claimed
    <2>. QED
      BY <2>1 DEF IInv, TypeOK, WorkersHoldWhatTheyAnswer, ClaimsAreExclusive,
                  ClaimedIffHeldOrAbandoned, UnfinishedRowsHaveNoResult,
                  TakenRowsAreAPrefix, DraftsAreInRange, ReceiptsMatchRows
  <1>. QED
    BY <1>1, <1>2, <1>3, <1>4 DEF Next

THEOREM Invariance == Spec => []IInv
  <1>1. Init => IInv
    BY InitIInv
  <1>2. IInv /\ [Next]_vars => IInv'
    BY Inductive
  <1>. QED
    BY <1>1, <1>2, PTL DEF Spec

\* Every variable keeps its type.
THEOREM TypeCorrect == Spec => []TypeOK
  <1>1. IInv => TypeOK
    BY DEF IInv
  <1>. QED
    BY <1>1, Invariance, PTL

\* However many workers poll, no two ever hold the same row.
THEOREM ExclusiveClaims == Spec => []ClaimsAreExclusive
  <1>1. IInv => ClaimsAreExclusive
    BY DEF IInv
  <1>. QED
    BY <1>1, Invariance, PTL

\* A row marked `claimed` is being worked on by one worker, or its worker died.
THEOREM NoClaimIsLost == Spec => []ClaimedRowsAreAccountedFor
  <1>1. ASSUME IInv
        PROVE  ClaimedRowsAreAccountedFor
    <2>1. TypeOK /\ ClaimedIffHeldOrAbandoned
      BY <1>1 DEF IInv
    <2>2. 0 \notin Claimed
      BY <2>1, TableDomain DEF Claimed
    <2>. QED
      BY <2>1, <2>2 DEF ClaimedRowsAreAccountedFor, ClaimedIffHeldOrAbandoned
  <1>. QED
    BY <1>1, Invariance, PTL

\* Rows are taken oldest first, over the whole history of the table.
THEOREM OldestFirst == Spec => []TakenRowsAreAPrefix
  <1>1. IInv => TakenRowsAreAPrefix
    BY DEF IInv
  <1>. QED
    BY <1>1, Invariance, PTL

\* A producer told an id has that row, with its question, to itself.
THEOREM ReceiptsHold == Spec => []ReceiptsAreHonoured
  <1>1. ASSUME IInv
        PROVE  ReceiptsAreHonoured
    <2>1. TypeOK /\ ReceiptsMatchRows
      BY <1>1 DEF IInv
    <2>2. DOMAIN table = 1..Len(table) /\ DOMAIN receipts = 1..Len(table)
      BY <2>1, TableDomain, LenProperties DEF TypeOK, ReceiptsMatchRows
    <2>. QED
      BY <2>1, <2>2 DEF ReceiptsAreHonoured, ReceiptsMatchRows
  <1>. QED
    BY <1>1, Invariance, PTL

-----------------------------------------------------------------------------
(* What a step may do to a row, and the refinement.                        *)

LEMMA UntouchedRowsMoveLegally ==
    ASSUME TypeOK, NEW i \in DOMAIN table, table' = table
    PROVE  i \in DOMAIN table' /\ LegalMove(table[i], table'[i])
  BY DEF LegalMove

\* Rows are never deleted and only move forward, each closed once.
THEOREM RowsMoveForward == Spec => RowsOnlyMoveForward
  <1>1. ASSUME IInv, Next, NEW i \in DOMAIN table
        PROVE  i \in DOMAIN table' /\ LegalMove(table[i], table'[i])
    <2>1. TypeOK /\ i \in 1..Len(table) /\ Len(table) \in Nat
      BY <1>1, TableDomain DEF IInv
    <2>2. CASE table' = table
      BY <2>1, <2>2, UntouchedRowsMoveLegally
    <2>3. ASSUME NEW p \in Producers, Insert(p)
          PROVE  i \in DOMAIN table' /\ LegalMove(table[i], table'[i])
      <3>1. table' \in Seq(Rows) /\ Len(table') = Len(table) + 1 /\ table'[i] = table[i]
        BY <1>1, <2>1, <2>3, InsertChangesTable
      <3>. QED
        BY <2>1, <3>1, LenProperties DEF LegalMove
    <2>4. ASSUME NEW w \in Workers, Claim(w)
          PROVE  i \in DOMAIN table' /\ LegalMove(table[i], table'[i])
      <3>1. PICK k \in 1..Len(table) :
              /\ k \in Queued
              /\ table' \in Seq(Rows) /\ Len(table') = Len(table)
              /\ table'[i] = IF i = k THEN Taken(table[k]) ELSE table[i]
        BY <1>1, <2>1, <2>4, ClaimChangesTable
      <3>2. i \in DOMAIN table'
        BY <2>1, <3>1, LenProperties
      <3>. QED
        BY <3>1, <3>2 DEF LegalMove, Queued
    <2>5. ASSUME NEW w \in Workers, Settle(w)
          PROVE  i \in DOMAIN table' /\ LegalMove(table[i], table'[i])
      <3>1. /\ held[w] \in 1..Len(table) /\ held[w] \in Claimed
            /\ table' \in Seq(Rows) /\ Len(table') = Len(table)
        BY <1>1, <2>5, SettleChangesTable
      <3>2. PICK outcome \in RunOutcomes :
              /\ StatusFor(outcome) \in {"done", "failed"}
              /\ table'[i] = IF i = held[w] THEN Settled(table[i], outcome) ELSE table[i]
        BY <1>1, <2>1, <2>5, SettleChangesTable
      <3>3. i \in DOMAIN table'
        BY <2>1, <3>1, LenProperties
      <3>4. CASE i = held[w]
        <4>1. table[i].status = "claimed" /\ table[i].result = "none"
          BY <1>1, <3>1, <3>4 DEF IInv, UnfinishedRowsHaveNoResult, Claimed
        <4>2. outcome # "none"
          BY DEF RunOutcomes
        <4>. QED
          BY <3>2, <3>3, <3>4, <4>1, <4>2 DEF LegalMove, Settled
      <3>5. CASE i # held[w]
        BY <3>2, <3>3, <3>5 DEF LegalMove
      <3>. QED
        BY <3>4, <3>5
    <2>. QED
      BY <1>1, <2>2, <2>3, <2>4, <2>5
      DEF Next, WorkerStep, Connect, ConnectRefused, ReadNextId, InsertRefused,
          Start, PollEmpty, Die
  <1>2. ASSUME IInv, [Next]_vars
        PROVE  [\A i \in DOMAIN table : i \in DOMAIN table' /\ LegalMove(table[i], table'[i])]_vars
    BY <1>1, <1>2
  <1>. QED
    BY <1>2, Invariance, PTL DEF Spec, RowsOnlyMoveForward

JobRecords == [question : Questions, stage : {"queued", "claimed", "done", "failed"}]

LEMMA JobsMirrorTable ==
    ASSUME TypeOK
    PROVE  /\ Jobs \in Seq(JobRecords)
           /\ Len(Jobs) = Len(table)
           /\ DOMAIN Jobs = 1..Len(table)
           /\ \A i \in 1..Len(table) :
                /\ Jobs[i].question = table[i].question
                /\ Jobs[i].stage = table[i].status
                /\ Jobs[i] = [question |-> table[i].question, stage |-> table[i].status]
  <1>1. Len(table) \in Nat /\ DOMAIN table = 1..Len(table)
        /\ \A i \in 1..Len(table) : table[i] \in Rows
    BY TableDomain
  <1>2. Jobs \in [1..Len(table) -> JobRecords]
    BY <1>1 DEF Jobs, JobRecords, Rows
  <1>3. Jobs \in Seq(JobRecords)
    BY <1>1, <1>2, SeqDef
  <1>4. Len(Jobs) = Len(table)
    <2>1. Len(Jobs) \in Nat /\ DOMAIN Jobs = 1..Len(Jobs)
      BY <1>3, LenProperties
    <2>2. 1..Len(Jobs) = 1..Len(table)
      BY <1>2, <2>1
    <2>3. \A m, n \in Nat : 1..m = 1..n => m = n
      OBVIOUS
    <2>. QED
      BY <1>1, <2>1, <2>2, <2>3
  <1>. QED
    BY <1>1, <1>2, <1>3, <1>4 DEF Jobs

JobsFollowTable ==
    /\ Jobs \in Seq(JobRecords)
    /\ Len(Jobs) = Len(table)
    /\ \A i \in 1..Len(table) :
        Jobs[i] = [question |-> table[i].question, stage |-> table[i].status]

LEMMA JobsFollowTableNext == TypeOK' => JobsFollowTable'
  <1>1. TypeOK => JobsFollowTable
    BY JobsMirrorTable DEF JobsFollowTable
  <1>. QED
    BY <1>1, PTL

LEMMA InsertAccepts ==
    ASSUME IInv, NEW p \in Producers, Insert(p), JobsFollowTable'
    PROVE  Promise!Next
  <1>1. TypeOK
    BY DEF IInv
  <1>2. /\ Len(table) \in Nat
        /\ Len(table') = Len(table) + 1
        /\ \A j \in 1..Len(table) : table'[j] = table[j]
        /\ table'[Len(table) + 1] = NewRow(p)
    BY <1>1, InsertChangesTable, TableDomain
  <1>. DEFINE job == [question |-> draft[p].question, stage |-> "queued"]
  <1>3. job \in JobRecords /\ draft[p].question \in Questions
    BY <1>1 DEF TypeOK, JobRecords
  <1>4. /\ Append(Jobs, job) \in Seq(JobRecords)
        /\ Len(Append(Jobs, job)) = Len(table) + 1
        /\ \A j \in 1..Len(table) : Append(Jobs, job)[j] = Jobs[j]
        /\ Append(Jobs, job)[Len(table) + 1] = job
    <2>. HIDE DEF job
    <2>. QED
      BY <1>1, <1>3, JobsMirrorTable, AppendProperties
  <1>5. \A j \in 1..Len(table) : Jobs'[j] = Jobs[j]
    BY <1>1, <1>2, JobsMirrorTable DEF JobsFollowTable
  <1>6. Jobs'[Len(table) + 1] = job
    BY <1>2 DEF NewRow, JobsFollowTable
  <1>7. Jobs' = Append(Jobs, job)
    <2>. HIDE DEF job
    <2>1. \A j \in 1..Len(Jobs') : Jobs'[j] = Append(Jobs, job)[j]
      <3>1. Len(Jobs') = Len(table) + 1
        BY <1>2 DEF JobsFollowTable
      <3>2. \A j \in 1..(Len(table) + 1) : j \in 1..Len(table) \/ j = Len(table) + 1
        BY <1>2
      <3>. QED
        BY <1>4, <1>5, <1>6, <3>1, <3>2
    <2>. QED
      BY <1>2, <1>4, <2>1, SeqEqual DEF JobsFollowTable
  <1>. QED
    BY <1>3, <1>7 DEF Promise!Next, Promise!Accept

\* A new status of one row is a new stage of one job.
LEMMA OneJobChanges ==
    ASSUME TypeOK, TypeOK', NEW i \in 1..Len(table),
           NEW stage \in {"claimed", "done", "failed"},
           Len(table') = Len(table),
           table'[i].question = table[i].question, table'[i].status = stage,
           \A j \in 1..Len(table) : j # i => table'[j] = table[j]
    PROVE  Jobs' = [Jobs EXCEPT ![i].stage = stage]
  <1>1. /\ Len(table) \in Nat
        /\ DOMAIN table = 1..Len(table) /\ DOMAIN table' = 1..Len(table)
    BY TableDomain, LenProperties DEF TypeOK
  <1>2. Jobs = [j \in 1..Len(table) |->
                  [question |-> table[j].question, stage |-> table[j].status]]
    BY <1>1 DEF Jobs
  <1>3. Jobs' = [j \in 1..Len(table) |->
                  [question |-> table'[j].question, stage |-> table'[j].status]]
    BY <1>1 DEF Jobs
  <1>4. [Jobs EXCEPT ![i].stage = stage]
          = [j \in 1..Len(table) |->
                [question |-> table'[j].question, stage |-> table'[j].status]]
    <2>1. Jobs[i] = [question |-> table[i].question, stage |-> table[i].status]
      BY <1>2
    <2>2. [Jobs[i] EXCEPT !.stage = stage]
            = [question |-> table'[i].question, stage |-> table'[i].status]
      BY <2>1
    <2>. QED
      BY <1>2, <2>2
  <1>. QED
    BY <1>3, <1>4

LEMMA ClaimTakes ==
    ASSUME IInv, TypeOK', NEW w \in Workers, Claim(w)
    PROVE  Promise!Next
  <1>1. TypeOK /\ TakenRowsAreAPrefix
    BY DEF IInv
  <1>2. PICK i \in 1..Len(table) :
          /\ i \in Queued /\ \A j \in Queued : i <= j
          /\ Len(table') = Len(table)
          /\ \A j \in 1..Len(table) :
               table'[j] = IF j = i THEN Taken(table[i]) ELSE table[j]
    BY ClaimChangesTable
  <1>3. table[i] \in Rows /\ DOMAIN table = 1..Len(table) /\ Len(table) \in Nat
    BY <1>1, <1>2, TableDomain
  <1>4. Jobs' = [Jobs EXCEPT ![i].stage = "claimed"]
    BY <1>1, <1>2, <1>3, OneJobChanges, RowTaken
  <1>5. Jobs[i].stage = "queued" /\ i \in DOMAIN Jobs
    BY <1>1, <1>2, <1>3, JobsMirrorTable DEF Queued
  <1>6. \A j \in 1..(i - 1) : Jobs[j].stage # "queued"
    <2>. SUFFICES ASSUME NEW j \in 1..(i - 1), Jobs[j].stage = "queued"
                  PROVE  FALSE
      OBVIOUS
    <2>1. j \in 1..Len(table) /\ j < i
      BY <1>2, <1>3
    <2>2. j \in Queued
      BY <1>1, <1>3, <2>1, JobsMirrorTable DEF Queued
    <2>. QED
      BY <1>2, <1>3, <2>1, <2>2
  <1>. QED
    BY <1>4, <1>5, <1>6 DEF Promise!Next, Promise!Take

LEMMA SettleCloses ==
    ASSUME IInv, TypeOK', NEW w \in Workers, Settle(w)
    PROVE  Promise!Next
  <1>. DEFINE i == held[w]
  <1>1. TypeOK
    BY DEF IInv
  <1>2. i \in 1..Len(table) /\ i \in Claimed /\ Len(table') = Len(table)
    BY SettleChangesTable
  <1>3. PICK outcome \in RunOutcomes :
          /\ StatusFor(outcome) \in {"done", "failed"}
          /\ \A j \in 1..Len(table) :
               table'[j] = IF j = i THEN Settled(table[i], outcome) ELSE table[j]
    BY SettleChangesTable
  <1>4. Jobs' = [Jobs EXCEPT ![i].stage = StatusFor(outcome)]
    BY <1>1, <1>2, <1>3, OneJobChanges DEF Settled
  <1>5. Jobs[i].stage = "claimed" /\ i \in DOMAIN Jobs
    BY <1>1, <1>2, JobsMirrorTable DEF Claimed
  <1>. QED
    BY <1>3, <1>4, <1>5 DEF Promise!Next, Promise!Close

LEMMA StepIsPromised ==
    ASSUME IInv, IInv', [Next]_vars
    PROVE  [Promise!Next]_Jobs
  <1>1. CASE table' = table
    BY <1>1 DEF Jobs
  <1>2. ASSUME NEW p \in Producers, Insert(p)
        PROVE  Promise!Next
    BY <1>2, JobsFollowTableNext, InsertAccepts DEF IInv
  <1>3. ASSUME NEW w \in Workers, Claim(w) \/ Settle(w)
        PROVE  Promise!Next
    BY <1>3, ClaimTakes, SettleCloses DEF IInv
  <1>. QED
    BY <1>1, <1>2, <1>3
    DEF Next, vars, WorkerStep, Connect, ConnectRefused, ReadNextId, InsertRefused,
        Start, PollEmpty, Die

\* The queue keeps its promise: oldest first, at most once, closed for good.
THEOREM Refinement == Spec => ImplementsPromise
  <1>1. Init => Promise!Init
    BY DEF Init, Jobs, Promise!Init
  <1>2. IInv /\ IInv' /\ [Next]_vars => [Promise!Next]_Jobs
    BY StepIsPromised
  <1>. QED
    BY <1>1, <1>2, Invariance, PTL DEF Spec, ImplementsPromise, Promise!Spec

=============================================================================
