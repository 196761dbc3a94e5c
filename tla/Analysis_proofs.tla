-------------------------- MODULE Analysis_proofs ----------------------------
(* What a pass over the gold set shows and reports is what its jobs        *)
(* answered, for every number of items and of threads; triage counts what  *)
(* it declines, of any number of runs, and picks evenly, of any items;     *)
(* ledgers add up, of any calls; the questions about money agree, of any   *)
(* warehouse; answers are compared as they should be, within any           *)
(* tolerance, and wrong ones are laid to the rules they could come from;   *)
(* verifiers that pass the probes can be trusted, with any query.          *)
EXTENDS MCAnalysis, FoldLemmas, SequenceTheorems, TLAPS

-----------------------------------------------------------------------------
(* The invariant.                                                          *)

Cells == Arms \X Items

PassOK ==
    /\ pass = [kind |-> pass.kind, items |-> pass.items]
    /\ pass.kind \in {"none", "trap", "batch", "swap"} /\ pass.items \in Nat
    /\ stage \in {"idle", "gathering", "raising", "done", "raised"}
    /\ stage = "idle" <=> pass.kind = "none"

\* What is over was started, and answered as a job of this pass can.
PoolOK ==
    /\ started \in 0..Len(Jobs)
    /\ answers = [j \in DOMAIN answers |-> answers[j]]
    /\ DOMAIN answers \subseteq Cells
    /\ \A j \in DOMAIN answers : answers[j] \in AnswersOf(pass.kind)

\* What was gathered is what the jobs answered; only the trap goes on over a dead one.
GatheredOK ==
    /\ gathered = [j \in DOMAIN gathered |-> answers[j]] /\ DOMAIN gathered \subseteq DOMAIN answers
    /\ pass.kind # "trap" => \A j \in DOMAIN gathered : answers[j] # Died
    /\ stage = "done" => DOMAIN gathered = Cells
    /\ stage \in {"raising", "raised"} =>
           pass.kind # "trap" /\ \E j \in DOMAIN answers : answers[j] = Died
    /\ stage = "raised" => DOMAIN answers = Cells

\* A batch has one row for each answer gathered.
RowsOK ==
    /\ rows \in Seq(Items)
    /\ \A m, n \in 1..Len(rows) : rows[m] = rows[n] => m = n
    /\ pass.kind = "batch" =>
           \A i \in Items : <<"governed", i>> \in DOMAIN gathered <=> \E n \in 1..Len(rows) : rows[n] = i

\* The reveal holds the grid it read; a late one was read of a trap that is over.
RevealOK ==
    /\ revealed \in BOOLEAN
    /\ reveal # <<>> =>
           /\ pass.kind = "trap" /\ revealed
           /\ reveal = <<[table |-> reveal[1].table, late |-> reveal[1].late]>>
           /\ reveal[1].late \in BOOLEAN
           /\ reveal[1].late => stage = "done" /\ reveal[1].table = Grid(gathered, TRUE)

ScreenOK ==
    /\ screen = [table |-> screen.table, board |-> screen.board, late |-> screen.late]
    /\ screen.late \in BOOLEAN
    /\ ~revealed => Range(screen.table) \subseteq {"pending", "landed"}
    /\ screen.late =>
           /\ stage = "done"
           /\ screen = [table |-> Grid(gathered, TRUE), board |-> <<Scoreboard(gathered)>>, late |-> TRUE]

PassInv == PassOK /\ PoolOK /\ GatheredOK /\ RowsOK /\ RevealOK /\ ScreenOK

-----------------------------------------------------------------------------
(* The jobs are the cells of the pass.                                     *)

\* The arms of each pass.
LEMMA ArmsAreFew ==
    /\ pass.kind = "trap" => Arms = {"L3", "L0"} /\ ArmsOf(pass.kind) = <<"L3", "L0">>
    /\ pass.kind = "swap" => Arms = {"ast", "regex"} /\ ArmsOf(pass.kind) = <<"ast", "regex">>
    /\ pass.kind \notin {"trap", "swap"} => Arms = {"governed"} /\ ArmsOf(pass.kind) = <<"governed">>
  BY DEF Arms, ArmsOf, ToSet

\* The nth job is of an arm there is, on an item there is.
LEMMA JobOfPlace ==
    ASSUME NEW m \in Nat, NEW k \in 1..2, NEW n \in 1..(k * m)
    PROVE  ((n - 1) \div m) + 1 \in 1..k /\ ((n - 1) % m) + 1 \in 1..m
  <1>1. CASE k = 1
    <2>1. m > 0 /\ n - 1 \in 0..(m - 1)
      BY <1>1
    <2>2. (n - 1) \div m = 0 /\ (n - 1) % m = n - 1
      BY <2>1
    <2>. QED
      BY <1>1, <2>1, <2>2
  <1>2. CASE k = 2
    <2>1. k * m = m + m
      BY <1>2
    <2>2. CASE n <= m
      <3>1. m > 0 /\ n - 1 \in 0..(m - 1)
        BY <2>1, <2>2
      <3>2. (n - 1) \div m = 0 /\ (n - 1) % m = n - 1
        BY <3>1
      <3>. QED
        BY <1>2, <3>1, <3>2
    <2>3. CASE n > m
      <3>. DEFINE i == n - 1 - m
      <3>1. m > 0 /\ i \in 0..(m - 1) /\ n - 1 = m + i
        BY <2>1, <2>3
      <3>. HIDE DEF i
      <3>2. (m + i) \div m = 1 /\ (m + i) % m = i
        BY <3>1
      <3>. QED
        BY <1>2, <3>1, <3>2
    <2>. QED
      BY <2>1, <2>2, <2>3
  <1>. QED
    BY <1>1, <1>2

\* Every item of every arm has its place among the jobs.
LEMMA PlaceOfJob ==
    ASSUME NEW m \in Nat, NEW k \in 1..2, NEW a \in 1..k, NEW i \in 1..m
    PROVE  \E n \in 1..(k * m) : (n - 1) \div m = a - 1 /\ (n - 1) % m = i - 1
  <1>1. CASE a = 1
    <2>1. i \in 1..(k * m)
      <3>1. k = 1 \/ k = 2
        OBVIOUS
      <3>. QED
        BY <3>1
    <2>2. i - 1 \in 0..(m - 1) /\ m > 0
      OBVIOUS
    <2>3. (i - 1) \div m = 0 /\ (i - 1) % m = i - 1
      BY <2>2
    <2>. QED
      BY <1>1, <2>1, <2>3
  <1>2. CASE a = 2
    <2>1. k = 2 /\ m > 0
      BY <1>2
    <2>2. m + i \in 1..(k * m) /\ (m + i) - 1 = m + (i - 1) /\ i - 1 \in 0..(m - 1)
      BY <2>1
    <2>. DEFINE l == i - 1
    <2>. HIDE DEF l
    <2>3. l \in 0..(m - 1)
      BY <2>2 DEF l
    <2>4. (m + l) \div m = 1 /\ (m + l) % m = l
      BY <2>1, <2>3
    <2>. QED
      BY <1>2, <2>2, <2>4 DEF l
  <1>. QED
    BY <1>1, <1>2

\* The jobs are the cells, each once.
LEMMA JobsAreTheCells ==
    ASSUME pass.items \in Nat
    PROVE  /\ Len(Jobs) \in Nat /\ DOMAIN Jobs = 1..Len(Jobs)
           /\ ToSet(Jobs) = Cells
  <1>. DEFINE m == pass.items
              arms == ArmsOf(pass.kind)
              k == Len(arms)
              job == [n \in 1..(k * m) |-> <<arms[((n - 1) \div m) + 1], ((n - 1) % m) + 1>>]
  <1>1. Jobs = job
    BY Zenon DEF Jobs
  <1>2. k \in 1..2 /\ k * m \in Nat /\ Arms = {arms[a] : a \in 1..k}
    BY DEF ArmsOf, Arms, ToSet
  <1>3. Len(job) = k * m /\ DOMAIN job = 1..(k * m)
    BY <1>2
  <1>4. ASSUME NEW n \in 1..(k * m)
        PROVE  job[n] \in Cells
    <2>1. ((n - 1) \div m) + 1 \in 1..k /\ ((n - 1) % m) + 1 \in 1..m
      <3>. HIDE DEF m, k
      <3>. QED
        BY <1>2, JobOfPlace DEF m
    <2>. QED
      BY <1>2, <2>1 DEF Cells, Items
  <1>5. ASSUME NEW c \in Cells
        PROVE  \E n \in 1..(k * m) : job[n] = c
    <2>1. PICK a \in 1..k, i \in 1..m : c = <<arms[a], i>>
      BY <1>2 DEF Cells, Items
    <2>2. PICK n \in 1..(k * m) : (n - 1) \div m = a - 1 /\ (n - 1) % m = i - 1
      <3>. HIDE DEF m, k
      <3>. QED
        BY <1>2, PlaceOfJob DEF m
    <2>3. job[n] = <<arms[((n - 1) \div m) + 1], ((n - 1) % m) + 1>>
      OBVIOUS
    <2>4. job[n] = c
      BY <2>1, <2>2, <2>3
    <2>. QED
      BY <2>4
  <1>. QED
    BY <1>1, <1>2, <1>3, <1>4, <1>5 DEF ToSet

\* What is read off the pass alone is left alone with it.
LEMMA SamePass ==
    ASSUME UNCHANGED pass
    PROVE  /\ Arms' = Arms /\ Items' = Items /\ Cells' = Cells /\ Jobs' = Jobs
           /\ AnswersOf(pass.kind)' = AnswersOf(pass.kind)
  <1>1. Arms' = Arms /\ Items' = Items
    BY DEF Arms, Items
  <1>2. Cells' = Cells
    BY <1>1 DEF Cells
  <1>3. Jobs' = Jobs
    BY DEF Jobs
  <1>. QED
    BY <1>1, <1>2, <1>3

\* What is read off the cells is left alone with them.
LEMMA SameGrid ==
    ASSUME UNCHANGED <<pass, gathered>>
    PROVE  Grid(gathered, TRUE)' = Grid(gathered, TRUE) /\ Scoreboard(gathered)' = Scoreboard(gathered)
  <1>1. Grid(gathered, TRUE)' = Grid(gathered, TRUE)
    BY DEF Grid, Jobs
  <1>2. Scoreboard(gathered)' = Scoreboard(gathered)
    BY DEF Scoreboard, Arms, OfArm, Items
  <1>. QED
    BY <1>1, <1>2

\* Nothing of a grid that is empty can tell an outcome.
LEMMA EmptyGridIsPending ==
    /\ Range(Grid(<<>>, FALSE)) \subseteq {"pending", "landed"}
    /\ Range(Grid(<<>>, FALSE)') \subseteq {"pending", "landed"}
  <1>1. ASSUME NEW S
        PROVE  Range([j \in S |->
                   CASE j \notin DOMAIN <<>> \/ (j \in DOMAIN <<>> /\ <<>>[j] = Died) -> "pending"
                     [] j \in DOMAIN <<>> /\ <<>>[j] # Died -> IF FALSE THEN <<>>[j].outcome ELSE "landed"])
                   \subseteq {"pending", "landed"}
    <2>1. DOMAIN <<>> = {}
      OBVIOUS
    <2>. QED
      BY <2>1 DEF Range
  <1>. QED
    BY <1>1 DEF Grid

\* A grid drawn with the scores hidden tells only what has landed.
LEMMA HiddenGrid ==
    ASSUME NEW cells
    PROVE  Range(Grid(cells, FALSE)) \subseteq {"pending", "landed"}
  BY DEF Grid, Range

-----------------------------------------------------------------------------
(* Every step keeps the invariant.                                         *)

\* Before anything runs.
LEMMA PassInitial == PassInit => PassInv
  <1>. SUFFICES ASSUME PassInit
                PROVE  PassInv
    OBVIOUS
  <1>. USE DEF PassInit, NoPass, Blank
  <1>1. PassOK
    BY DEF PassOK
  <1>2. Len(Jobs) \in Nat
    BY JobsAreTheCells
  <1>3. PoolOK
    BY <1>2 DEF PoolOK
  <1>4. GatheredOK
    BY DEF GatheredOK
  <1>5. RowsOK
    BY DEF RowsOK
  <1>6. RevealOK
    BY DEF RevealOK
  <1>7. ScreenOK
    BY DEF ScreenOK, Range
  <1>. QED
    BY <1>1, <1>3, <1>4, <1>5, <1>6, <1>7 DEF PassInv

\* A new pass has nothing in it.
LEMMA FreshIsEmpty ==
    ASSUME NEW kind \in {"trap", "batch", "swap"}, NEW items \in Nat, Fresh(kind, items),
           reveal = <<>>, UNCHANGED reveal
    PROVE  PassOK' /\ PoolOK' /\ GatheredOK' /\ RowsOK' /\ RevealOK'
  <1>. USE DEF Fresh
  <1>1. PassOK'
    BY DEF PassOK
  <1>2. (Len(Jobs) \in Nat)'
    BY JobsAreTheCells, <1>1, PTL DEF PassOK
  <1>3. PoolOK'
    BY <1>2 DEF PoolOK
  <1>4. GatheredOK'
    BY DEF GatheredOK
  <1>5. RowsOK'
    BY DEF RowsOK
  <1>6. RevealOK'
    BY DEF RevealOK
  <1>. QED
    BY <1>1, <1>3, <1>4, <1>5, <1>6

\* Opening a pass: the pool is empty and the grid shows nothing.
LEMMA BeginKeeps ==
    ASSUME PassInv, NEW kind \in {"trap", "batch", "swap"}, NEW items \in Nat, Begin(kind, items)
    PROVE  PassInv'
  <1>1. reveal = <<>>
    BY DEF PassInv, PassOK, RevealOK, Begin
  <1>2. PassOK' /\ PoolOK' /\ GatheredOK' /\ RowsOK' /\ RevealOK'
    BY <1>1, FreshIsEmpty DEF Begin
  <1>3. ScreenOK'
    <2>. DEFINE table == IF kind = "trap" THEN Grid(<<>>, FALSE)' ELSE <<>>
    <2>1. screen' = [table |-> table, board |-> <<>>, late |-> FALSE]
      BY DEF Begin, Blank
    <2>2. Range(table) \subseteq {"pending", "landed"}
      <3>1. CASE kind = "trap"
        BY <3>1, EmptyGridIsPending
      <3>2. CASE kind # "trap"
        BY <3>2 DEF Range
      <3>. QED
        BY <3>1, <3>2
    <2>3. revealed' = FALSE
      BY DEF Begin, Fresh
    <2>. HIDE DEF table
    <2>. QED
      BY <2>1, <2>2, <2>3 DEF ScreenOK
  <1>. QED
    BY <1>2, <1>3 DEF PassInv

\* Running a trap again: the old scores stay, but nothing says they are late.
LEMMA RerunKeeps ==
    ASSUME PassInv, Rerun
    PROVE  PassInv'
  <1>1. PassOK' /\ PoolOK' /\ GatheredOK' /\ RowsOK' /\ RevealOK'
    BY FreshIsEmpty DEF PassInv, PassOK, Rerun
  <1>2. ScreenOK'
    <2>1. screen' = [table |-> Grid(<<>>, FALSE), board |-> screen.board, late |-> FALSE]
      <3>1. screen = [table |-> screen.table, board |-> screen.board, late |-> screen.late]
        BY DEF PassInv, ScreenOK
      <3>. QED
        BY <3>1 DEF Rerun
    <2>2. Range(screen'.table) \subseteq {"pending", "landed"}
      BY <2>1, EmptyGridIsPending
    <2>3. screen'.late = FALSE /\ revealed' = FALSE
         /\ screen' = [table |-> screen'.table, board |-> screen'.board, late |-> screen'.late]
      BY <2>1 DEF Rerun, Fresh
    <2>. QED
      BY <2>2, <2>3 DEF ScreenOK, Range
  <1>. QED
    BY <1>1, <1>2 DEF PassInv

\* What the button did and what the view shows is left alone by the pool.
LEMMA ScreenStays ==
    ASSUME PassInv, UNCHANGED <<pass, stage, revealed, reveal, screen>>,
           UNCHANGED gathered \/ stage = "gathering"
    PROVE  RevealOK' /\ ScreenOK'
  <1>1. CASE stage = "gathering"
    <2>1. RevealOK'
      BY <1>1 DEF PassInv, RevealOK
    <2>2. ScreenOK'
      BY <1>1 DEF PassInv, ScreenOK
    <2>. QED
      BY <2>1, <2>2
  <1>2. CASE UNCHANGED gathered
    <2>1. Grid(gathered, TRUE)' = Grid(gathered, TRUE) /\ Scoreboard(gathered)' = Scoreboard(gathered)
      BY <1>2, SameGrid
    <2>2. RevealOK'
      BY <2>1 DEF PassInv, RevealOK
    <2>3. ScreenOK'
      BY <2>1 DEF PassInv, ScreenOK
    <2>. QED
      BY <2>2, <2>3
  <1>. QED
    BY <1>1, <1>2

\* A job is taken; there was one to take.
LEMMA TakeJobKeeps ==
    ASSUME PassInv, TakeJob
    PROVE  PassInv'
  <1>. USE DEF TakeJob
  <1>1. Cells' = Cells /\ Jobs' = Jobs /\ Items' = Items /\ AnswersOf(pass.kind)' = AnswersOf(pass.kind)
    BY SamePass
  <1>2. Len(Jobs) \in Nat
    BY JobsAreTheCells DEF PassInv, PassOK
  <1>3. PassOK'
    BY DEF PassInv, PassOK
  <1>4. PoolOK'
    BY <1>1, <1>2 DEF PassInv, PoolOK
  <1>5. GatheredOK'
    BY <1>1 DEF PassInv, GatheredOK
  <1>6. RowsOK'
    BY <1>1 DEF PassInv, RowsOK
  <1>7. RevealOK' /\ ScreenOK'
    BY ScreenStays
  <1>. QED
    BY <1>3, <1>4, <1>5, <1>6, <1>7 DEF PassInv

\* A job that runs is a cell of the pass.
LEMMA RunningIsInside ==
    ASSUME PassInv
    PROVE  Running \subseteq Cells
  <1>1. Len(Jobs) \in Nat /\ DOMAIN Jobs = 1..Len(Jobs) /\ ToSet(Jobs) = Cells
    BY JobsAreTheCells DEF PassInv, PassOK
  <1>. QED
    BY <1>1 DEF PassInv, PoolOK, Running, ToSet

\* An answer that comes changes no other, and none of those gathered.
LEMMA FinishJobKeeps ==
    ASSUME PassInv, NEW j \in Running, NEW answer \in AnswersOf(pass.kind), FinishJob(j, answer)
    PROVE  PassInv'
  <1>. USE DEF FinishJob
  <1>1. Cells' = Cells /\ Jobs' = Jobs /\ Items' = Items /\ AnswersOf(pass.kind)' = AnswersOf(pass.kind)
    BY SamePass
  <1>2. j \in Cells /\ j \notin DOMAIN answers
    BY RunningIsInside DEF Running
  <1>3. /\ DOMAIN answers' = DOMAIN answers \cup {j}
        /\ answers'[j] = answer
        /\ \A k \in DOMAIN answers : answers'[k] = answers[k]
        /\ answers' = [k \in DOMAIN answers' |-> answers'[k]]
    BY <1>2
  <1>4. PassOK'
    BY DEF PassInv, PassOK
  <1>5. PoolOK'
    BY <1>1, <1>2, <1>3 DEF PassInv, PoolOK
  <1>6. GatheredOK'
    <2>1. gathered = [k \in DOMAIN gathered |-> answers'[k]]
      BY <1>3 DEF PassInv, GatheredOK
    <2>2. pass.kind # "trap" => \A k \in DOMAIN gathered : answers'[k] # Died
      BY <1>3 DEF PassInv, GatheredOK
    <2>3. stage \in {"raising", "raised"} =>
              pass.kind # "trap" /\ \E k \in DOMAIN answers' : answers'[k] = Died
      BY <1>3 DEF PassInv, GatheredOK
    <2>4. stage = "raised" => DOMAIN answers' = Cells
      BY <1>2, <1>3 DEF PassInv, GatheredOK
    <2>5. DOMAIN gathered \subseteq DOMAIN answers' /\ (stage = "done" => DOMAIN gathered = Cells)
      BY <1>3 DEF PassInv, GatheredOK
    <2>. QED
      BY <1>1, <2>1, <2>2, <2>3, <2>4, <2>5 DEF GatheredOK, Died, JobAnswer
  <1>7. RowsOK'
    BY <1>1 DEF PassInv, RowsOK
  <1>8. RevealOK' /\ ScreenOK'
    BY ScreenStays
  <1>. QED
    BY <1>4, <1>5, <1>6, <1>7, <1>8 DEF PassInv

\* An answer is gathered, with a row of the batch; a dead one ends the batch and the swap.
LEMMA GatherKeeps ==
    ASSUME PassInv, NEW j \in DOMAIN answers, Gather(j)
    PROVE  PassInv'
  <1>1. /\ Cells' = Cells /\ Jobs' = Jobs /\ Items' = Items
        /\ AnswersOf(pass.kind)' = AnswersOf(pass.kind)
    BY SamePass DEF Gather
  <1>2. PassOK'
    BY DEF PassInv, PassOK, Gather
  <1>3. PoolOK'
    BY <1>1 DEF PassInv, PoolOK, Gather
  <1>4. CASE answers[j] = Died /\ pass.kind # "trap"
    <2>1. UNCHANGED <<pass, answers, gathered, rows, revealed, reveal, screen>> /\ stage' = "raising"
      BY <1>4 DEF Gather
    <2>2. GatheredOK'
      BY <1>1, <1>4, <2>1 DEF PassInv, GatheredOK, Died, JobAnswer
    <2>3. RowsOK'
      BY <1>1, <2>1 DEF PassInv, RowsOK
    <2>4. reveal = <<>> /\ ~screen.late
      BY <1>4 DEF PassInv, RevealOK, ScreenOK, Gather
    <2>5. RevealOK'
      BY <2>1, <2>4 DEF PassInv, RevealOK
    <2>6. ScreenOK'
      BY <2>1, <2>4 DEF PassInv, ScreenOK
    <2>. QED
      BY <1>2, <1>3, <2>2, <2>3, <2>5, <2>6 DEF PassInv
  <1>5. CASE ~(answers[j] = Died /\ pass.kind # "trap")
    <2>1. /\ UNCHANGED <<pass, stage, answers, revealed, reveal, screen>>
          /\ stage = "gathering" /\ j \notin DOMAIN gathered
          /\ DOMAIN gathered' = DOMAIN gathered \cup {j}
          /\ gathered' = [k \in DOMAIN gathered' |-> IF k = j THEN answers[j] ELSE gathered[k]]
          /\ rows' = IF pass.kind = "batch" THEN Append(rows, j[2]) ELSE rows
      BY <1>5 DEF Gather
    <2>2. GatheredOK'
      <3>1. gathered' = [k \in DOMAIN gathered' |-> answers[k]]
        BY <2>1 DEF PassInv, GatheredOK
      <3>. QED
        BY <1>1, <1>5, <2>1, <3>1 DEF PassInv, GatheredOK, Died, JobAnswer
    <2>3. RowsOK'
      <3>1. CASE pass.kind # "batch"
        BY <1>1, <2>1, <3>1 DEF PassInv, RowsOK
      <3>2. CASE pass.kind = "batch"
        <4>1. j[2] \in Items /\ j = <<"governed", j[2]>>
          BY <3>2, ArmsAreFew DEF PassInv, PoolOK, Cells
        <4>2. rows \in Seq(Items) /\ rows' = Append(rows, j[2])
          BY <2>1, <3>2 DEF PassInv, RowsOK
        <4>3. /\ rows' \in Seq(Items) /\ Len(rows') = Len(rows) + 1 /\ Len(rows) \in Nat
              /\ rows'[Len(rows) + 1] = j[2] /\ \A n \in 1..Len(rows) : rows'[n] = rows[n]
          BY <4>1, <4>2
        <4>4. \A n \in 1..Len(rows) : rows[n] # j[2]
          BY <2>1, <3>2, <4>1 DEF PassInv, RowsOK
        <4>5. \A m, n \in 1..Len(rows') : rows'[m] = rows'[n] => m = n
          BY <4>3, <4>4 DEF PassInv, RowsOK
        <4>6. ASSUME NEW i \in Items
              PROVE  <<"governed", i>> \in DOMAIN gathered' <=> \E n \in 1..Len(rows') : rows'[n] = i
          <5>1. <<"governed", i>> \in DOMAIN gathered <=> \E n \in 1..Len(rows) : rows[n] = i
            BY <3>2 DEF PassInv, RowsOK
          <5>2. <<"governed", i>> \in DOMAIN gathered' <=> <<"governed", i>> \in DOMAIN gathered \/ i = j[2]
            BY <2>1, <4>1
          <5>3. (\E n \in 1..Len(rows') : rows'[n] = i) <=> (\E n \in 1..Len(rows) : rows[n] = i) \/ i = j[2]
            BY <4>3
          <5>. QED
            BY <5>1, <5>2, <5>3
        <4>. QED
          BY <1>1, <4>3, <4>5, <4>6 DEF RowsOK
      <3>. QED
        BY <3>1, <3>2
    <2>4. RevealOK' /\ ScreenOK'
      BY <2>1, ScreenStays
    <2>. QED
      BY <1>2, <1>3, <2>2, <2>3, <2>4 DEF PassInv
  <1>. QED
    BY <1>4, <1>5

\* The trap is shown whole once every cell was gathered.
LEMMA EndKeeps ==
    ASSUME PassInv, End
    PROVE  PassInv'
  <1>. USE DEF End
  <1>1. /\ Cells' = Cells /\ Jobs' = Jobs /\ Items' = Items
        /\ AnswersOf(pass.kind)' = AnswersOf(pass.kind)
    BY SamePass
  <1>2. DOMAIN gathered = Cells
    BY JobsAreTheCells DEF PassInv, PassOK
  <1>3. PassOK'
    BY DEF PassInv, PassOK
  <1>4. PoolOK'
    BY <1>1 DEF PassInv, PoolOK
  <1>5. GatheredOK'
    BY <1>1, <1>2 DEF PassInv, GatheredOK
  <1>6. RowsOK'
    BY <1>1 DEF PassInv, RowsOK
  <1>7. RevealOK'
    <2>1. reveal # <<>> => ~reveal[1].late
      BY DEF PassInv, RevealOK
    <2>. QED
      BY <2>1 DEF PassInv, RevealOK
  <1>8. ScreenOK'
    <2>1. /\ screen.late = FALSE
          /\ screen = [table |-> screen.table, board |-> screen.board, late |-> screen.late]
      BY DEF PassInv, ScreenOK
    <2>. DEFINE table == IF pass.kind = "trap" THEN Grid(gathered, revealed) ELSE screen.table
    <2>2. screen' = [table |-> table, board |-> screen.board, late |-> FALSE] /\ revealed' = revealed
      <3>1. CASE pass.kind = "trap"
        <4>1. screen' = [screen EXCEPT !.table = table] /\ revealed' = revealed
          BY <3>1
        <4>. HIDE DEF table, End
        <4>2. screen' = [table |-> table, board |-> screen.board, late |-> screen.late]
          BY <2>1, <4>1
        <4>. QED
          BY <2>1, <4>1, <4>2
      <3>2. CASE pass.kind # "trap"
        BY <2>1, <3>2
      <3>. QED
        BY <3>1, <3>2
    <2>3. ~revealed => Range(table) \subseteq {"pending", "landed"}
      <3>1. CASE pass.kind = "trap"
        <4>1. ASSUME ~revealed
              PROVE  Range(Grid(gathered, FALSE)) \subseteq {"pending", "landed"}
          BY HiddenGrid
        <4>2. ~revealed => revealed = FALSE
          BY DEF PassInv, RevealOK
        <4>. QED
          BY <3>1, <4>1, <4>2
      <3>2. CASE pass.kind # "trap"
        BY <3>2 DEF PassInv, ScreenOK
      <3>. QED
        BY <3>1, <3>2
    <2>. HIDE DEF table, End
    <2>. QED
      BY <2>2, <2>3 DEF ScreenOK
  <1>. QED
    BY <1>3, <1>4, <1>5, <1>6, <1>7, <1>8 DEF PassInv

\* An exception leaves the pool when every job is over.
LEMMA EndRaisedKeeps ==
    ASSUME PassInv, EndRaised
    PROVE  PassInv'
  <1>. USE DEF EndRaised
  <1>1. /\ Cells' = Cells /\ Jobs' = Jobs /\ Items' = Items
        /\ AnswersOf(pass.kind)' = AnswersOf(pass.kind)
    BY SamePass
  <1>2. DOMAIN answers = Cells
    <2>1. DOMAIN Jobs = 1..Len(Jobs) /\ ToSet(Jobs) = Cells
      BY JobsAreTheCells DEF PassInv, PassOK
    <2>. QED
      BY <2>1 DEF PassInv, PoolOK, Running, ToSet
  <1>3. PassOK'
    BY DEF PassInv, PassOK
  <1>4. PoolOK'
    BY <1>1 DEF PassInv, PoolOK
  <1>5. GatheredOK'
    BY <1>1, <1>2 DEF PassInv, GatheredOK
  <1>6. RowsOK'
    BY <1>1 DEF PassInv, RowsOK
  <1>7. RevealOK'
    BY DEF PassInv, RevealOK
  <1>8. ScreenOK'
    BY DEF PassInv, ScreenOK
  <1>. QED
    BY <1>3, <1>4, <1>5, <1>6, <1>7, <1>8 DEF PassInv

\* The button and the view leave the pool alone.
LEMMA PoolStays ==
    ASSUME PassInv, UNCHANGED <<pass, stage, started, answers, gathered, rows>>
    PROVE  PassOK' /\ PoolOK' /\ GatheredOK' /\ RowsOK'
  <1>1. /\ Cells' = Cells /\ Jobs' = Jobs /\ Items' = Items
        /\ AnswersOf(pass.kind)' = AnswersOf(pass.kind)
    BY SamePass
  <1>2. PassOK'
    BY DEF PassInv, PassOK
  <1>3. PoolOK'
    BY <1>1 DEF PassInv, PoolOK
  <1>4. GatheredOK'
    BY <1>1 DEF PassInv, GatheredOK
  <1>5. RowsOK'
    BY <1>1 DEF PassInv, RowsOK
  <1>. QED
    BY <1>2, <1>3, <1>4, <1>5

\* The button reads the grid there is.
LEMMA PressRevealKeeps ==
    ASSUME PassInv, PressReveal
    PROVE  PassInv'
  <1>1. PassOK' /\ PoolOK' /\ GatheredOK' /\ RowsOK'
    BY PoolStays DEF PressReveal
  <1>2. Grid(gathered, TRUE)' = Grid(gathered, TRUE) /\ Scoreboard(gathered)' = Scoreboard(gathered)
    BY SameGrid DEF PressReveal
  <1>3. RevealOK'
    BY <1>2 DEF RevealOK, PressReveal
  <1>4. ScreenOK'
    BY <1>2 DEF PassInv, ScreenOK, PressReveal
  <1>. QED
    BY <1>1, <1>3, <1>4 DEF PassInv

\* The scores are read after it; on a trap that is over, of the same cells.
LEMMA ShowRevealKeeps ==
    ASSUME PassInv, ShowReveal
    PROVE  PassInv'
  <1>1. PassOK' /\ PoolOK' /\ GatheredOK' /\ RowsOK'
    BY PoolStays DEF ShowReveal
  <1>2. Grid(gathered, TRUE)' = Grid(gathered, TRUE) /\ Scoreboard(gathered)' = Scoreboard(gathered)
    BY SameGrid DEF ShowReveal
  <1>3. RevealOK'
    BY DEF PassInv, RevealOK, ShowReveal
  <1>4. ScreenOK'
    <2>1. /\ revealed /\ reveal[1].late \in BOOLEAN
          /\ reveal[1].late => stage = "done" /\ reveal[1].table = Grid(gathered, TRUE)
      BY DEF PassInv, RevealOK, ShowReveal
    <2>2. /\ screen' = [table |-> reveal[1].table, board |-> <<Scoreboard(gathered)>>, late |-> reveal[1].late]
          /\ UNCHANGED <<stage, revealed>>
      BY DEF ShowReveal
    <2>. QED
      BY <1>2, <2>1, <2>2 DEF ScreenOK
  <1>. QED
    BY <1>1, <1>3, <1>4 DEF PassInv

\* A reveal that raises shows nothing.
LEMMA RevealRaisesKeeps ==
    ASSUME PassInv, RevealRaises
    PROVE  PassInv'
  <1>1. PassOK' /\ PoolOK' /\ GatheredOK' /\ RowsOK'
    BY PoolStays DEF RevealRaises
  <1>2. Grid(gathered, TRUE)' = Grid(gathered, TRUE) /\ Scoreboard(gathered)' = Scoreboard(gathered)
    BY SameGrid DEF RevealRaises
  <1>3. RevealOK'
    BY DEF PassInv, RevealOK, RevealRaises
  <1>4. ScreenOK'
    BY <1>2 DEF PassInv, ScreenOK, RevealRaises
  <1>. QED
    BY <1>1, <1>3, <1>4 DEF PassInv

\* Closing the pass.
LEMMA PutAwayKeeps ==
    ASSUME PassInv, PutAway
    PROVE  PassInv'
  <1>1. PassInit'
    BY DEF PutAway, PassInit
  <1>. QED
    BY <1>1, PassInitial, PTL

\* Every step of a pass keeps the invariant.
LEMMA PassStep ==
    ASSUME PassInv, PassNext
    PROVE  PassInv'
  <1>1. CASE \E kind \in {"trap", "batch", "swap"}, items \in 0..MaxJobs :
                 Len(ArmsOf(kind)) * items <= MaxJobs /\ Begin(kind, items)
    BY <1>1, BeginKeeps
  <1>2. CASE TakeJob
    BY <1>2, TakeJobKeeps
  <1>3. CASE \E j \in Running, answer \in AnswersOf(pass.kind) : FinishJob(j, answer)
    BY <1>3, FinishJobKeeps
  <1>4. CASE \E j \in DOMAIN answers : Gather(j)
    BY <1>4, GatherKeeps
  <1>5. CASE End \/ EndRaised
    BY <1>5, EndKeeps, EndRaisedKeeps
  <1>6. CASE Rerun
    BY <1>6, RerunKeeps
  <1>7. CASE PressReveal \/ ShowReveal \/ RevealRaises
    BY <1>7, PressRevealKeeps, ShowRevealKeeps, RevealRaisesKeeps
  <1>8. CASE PutAway
    BY <1>8, PutAwayKeeps
  <1>. QED
    BY <1>1, <1>2, <1>3, <1>4, <1>5, <1>6, <1>7, <1>8 DEF PassNext, Advance

\* So does a step that leaves the pass alone, a question of the rest of the model.
LEMMA PassStutter ==
    ASSUME PassInv, UNCHANGED passVars
    PROVE  PassInv'
  <1>. USE DEF passVars
  <1>1. PassOK' /\ PoolOK' /\ GatheredOK' /\ RowsOK'
    BY PoolStays
  <1>2. Grid(gathered, TRUE)' = Grid(gathered, TRUE) /\ Scoreboard(gathered)' = Scoreboard(gathered)
    BY SameGrid
  <1>3. RevealOK'
    BY <1>2 DEF PassInv, RevealOK
  <1>4. ScreenOK'
    BY <1>2 DEF PassInv, ScreenOK
  <1>. QED
    BY <1>1, <1>3, <1>4 DEF PassInv

\* The pool and its main thread agree on every pass: what was gathered is what the jobs
\* answered, a row for each, and a reveal and a screen that say they are late show it whole.
THEOREM PassInvariance == Spec => []PassInv
  <1>1. Init => PassInv
    BY PassInitial DEF Init
  <1>2. PassInv /\ [Next]_<<asked, passVars>> => PassInv'
    BY PassStep, PassStutter DEF Next
  <1>. QED
    BY <1>1, <1>2, PTL DEF Spec

-----------------------------------------------------------------------------
(* Counting.                                                               *)

\* The table of two arms has every item that ran in both.
LEMMA PairsAreTheShared ==
    ASSUME NEW a, NEW b, IsFiniteSet(DOMAIN a \cap DOMAIN b),
           \A i \in DOMAIN a \cap DOMAIN b : a[i] \in BOOLEAN /\ b[i] \in BOOLEAN
    PROVE  Pairs(Compare(a, b)) = Cardinality(DOMAIN a \cap DOMAIN b)
  <1>. DEFINE S == DOMAIN a \cap DOMAIN b
              TT == {i \in S : a[i] = TRUE /\ b[i] = TRUE}
              TF == {i \in S : a[i] = TRUE /\ b[i] = FALSE}
              FT == {i \in S : a[i] = FALSE /\ b[i] = TRUE}
              FF == {i \in S : a[i] = FALSE /\ b[i] = FALSE}
              T == {i \in S : a[i] = TRUE}
              F == {i \in S : a[i] = FALSE}
  <1>1. S = T \cup F /\ T \cap F = {}
    OBVIOUS
  <1>2. T = TT \cup TF /\ TT \cap TF = {}
    OBVIOUS
  <1>3. F = FT \cup FF /\ FT \cap FF = {}
    OBVIOUS
  <1>0. /\ Compare(a, b) = Table(Cardinality(TT), Cardinality(TF), Cardinality(FT), Cardinality(FF))
        /\ IsFiniteSet(S)
    BY DEF Compare
  <1>. HIDE DEF S, T, F, TT, TF, FT, FF
  <1>4. Cardinality(S) = Cardinality(T) + Cardinality(F) /\ IsFiniteSet(T) /\ IsFiniteSet(F)
    BY <1>0, <1>1, CountInTwo
  <1>5. /\ Cardinality(T) = Cardinality(TT) + Cardinality(TF)
        /\ Cardinality(TT) \in Nat /\ Cardinality(TF) \in Nat
    BY <1>2, <1>4, CountInTwo
  <1>6. /\ Cardinality(F) = Cardinality(FT) + Cardinality(FF)
        /\ Cardinality(FT) \in Nat /\ Cardinality(FF) \in Nat
    BY <1>3, <1>4, CountInTwo
  <1>7. Cardinality(S) = Cardinality(TT) + Cardinality(TF)
                             + Cardinality(FT) + Cardinality(FF)
    BY <1>4, <1>5, <1>6
  <1>. QED
    BY <1>0, <1>7 DEF S, Pairs, Table

\* The cells of an arm are as many as its items.
LEMMA CountOfAnArm ==
    ASSUME NEW arm, NEW S, IsFiniteSet(S), NEW T,
           \A i \in S : <<arm, i>> \in T, \A t \in T : \E i \in S : t = <<arm, i>>
    PROVE  Cardinality(T) = Cardinality(S)
  <1>. DEFINE f == [i \in S |-> <<arm, i>>]
  <1>1. f \in Bijection(S, T)
    <2>1. f \in [S -> T]
      OBVIOUS
    <2>2. \A a, b \in S : f[a] = f[b] => a = b
      OBVIOUS
    <2>3. \A t \in T : \E s \in S : f[s] = t
      OBVIOUS
    <2>. QED
      BY <2>1, <2>2, <2>3 DEF Bijection, Injection, Surjection, IsInjective
  <1>2. ExistsBijection(S, T)
    BY <1>1 DEF ExistsBijection
  <1>. QED
    BY <1>2, FS_Bijection

\* Once a pass is over, what was gathered is all there is.
LEMMA DoneIsAll ==
    ASSUME PassInv, stage = "done"
    PROVE  /\ gathered = answers /\ DOMAIN answers = Cells
           /\ pass.kind \in {"trap", "batch", "swap"}
           /\ pass.items \in Nat
           /\ IsFiniteSet(Items) /\ Cardinality(Items) = pass.items
           /\ \A j \in Cells : answers[j] \in AnswersOf(pass.kind)
           /\ pass.kind # "trap" => \A j \in Cells : answers[j] # Died
  <1>1. pass.items \in Nat /\ pass.kind \in {"trap", "batch", "swap"}
    BY DEF PassInv, PassOK
  <1>2. IsFiniteSet(Items) /\ Cardinality(Items) = pass.items
    <2>1. IsFiniteSet(1..pass.items) /\ Cardinality(1..pass.items) = IF 1 > pass.items THEN 0 ELSE pass.items - 1 + 1
      BY <1>1, FS_Interval
    <2>. QED
      BY <1>1, <2>1 DEF Items
  <1>3. DOMAIN gathered = Cells /\ DOMAIN answers = Cells
    BY DEF PassInv, GatheredOK, PoolOK
  <1>4. gathered = answers
    BY <1>3 DEF PassInv, GatheredOK, PoolOK
  <1>. QED
    BY <1>1, <1>2, <1>3, <1>4 DEF PassInv, GatheredOK, PoolOK

\* The arm of a pass that is over has an answer to each item.
LEMMA WholeArm ==
    ASSUME PassInv, stage = "done", NEW arm \in Arms
    PROVE  OfArm(gathered, arm) = [i \in Items |-> answers[<<arm, i>>]]
  <1>1. {i \in Items : <<arm, i>> \in DOMAIN answers} = Items
    BY DoneIsAll DEF Cells
  <1>. QED
    BY <1>1, DoneIsAll DEF OfArm

-----------------------------------------------------------------------------
(* What PassInv says of the properties.                                    *)

\* Nothing shows before the reveal.
LEMMA NothingShows == PassInv => NothingShowsBeforeTheReveal
  BY DEF PassInv, ScreenOK, NothingShowsBeforeTheReveal

\* A late reveal shows the grid and the scores of the answers.
LEMMA LateIsExact == PassInv => LateRevealIsExact
  BY DoneIsAll DEF PassInv, ScreenOK, LateRevealIsExact

\* A dead job costs the trap its cell, and the others their report.
LEMMA DeadStay == PassInv => DeadJobsStayInTheirPlace
  <1>. SUFFICES ASSUME PassInv
                PROVE  DeadJobsStayInTheirPlace
    OBVIOUS
  <1>. DEFINE dead == {j \in DOMAIN answers : answers[j] = Died}
              board == Scoreboard(gathered)
  <1>1. stage = "done" /\ dead # {} => pass.kind = "trap"
    BY DoneIsAll
  <1>2. stage = "raised" => pass.kind # "trap" /\ dead # {} /\ DOMAIN answers = ToSet(Jobs)
    BY JobsAreTheCells DEF PassInv, GatheredOK, PassOK
  <1>3. ASSUME stage = "done", pass.kind = "trap"
        PROVE  /\ \A arm \in Arms :
                      board.arms[arm].total = pass.items - Cardinality({j \in dead : j[1] = arm})
               /\ Pairs(board.paired) =
                      Cardinality({i \in Items : \A arm \in Arms : Ran(answers[<<arm, i>>])})
    <2>1. ASSUME NEW arm \in Arms
          PROVE  board.arms[arm].total = pass.items - Cardinality({j \in dead : j[1] = arm})
      <3>. DEFINE D == {i \in Items : answers[<<arm, i>>] = Died}
                  L == {i \in Items : answers[<<arm, i>>] # Died}
                  J == {j \in dead : j[1] = arm}
      <3>1. board.arms[arm].total = Cardinality(L)
        BY <1>3, <2>1, WholeArm DEF Scoreboard, Summarise, Count
      <3>2. (\A i \in D : <<arm, i>> \in J) /\ (\A j \in J : \E i \in D : j = <<arm, i>>)
        <4>1. dead = {j \in Arms \X Items : answers[j] = Died}
          BY <1>3, DoneIsAll DEF Cells
        <4>. HIDE DEF dead
        <4>2. ASSUME NEW j \in J
              PROVE  \E i \in D : j = <<arm, i>>
          <5>1. j[2] \in Items /\ j = <<arm, j[2]>> /\ answers[j] = Died
            BY <4>1
          <5>. QED
            BY <5>1
        <4>3. ASSUME NEW i \in D
              PROVE  <<arm, i>> \in J
          BY <2>1, <4>1
        <4>. QED
          BY <4>2, <4>3
      <3>3. /\ IsFiniteSet(D) /\ Cardinality(D) \in Nat /\ Cardinality(L) \in Nat
            /\ Cardinality(Items) = Cardinality(D) + Cardinality(L)
        <4>1. Items = D \cup L /\ D \cap L = {} /\ IsFiniteSet(Items)
          BY <1>3, DoneIsAll
        <4>. HIDE DEF D, L
        <4>. QED
          BY <4>1, CountInTwo
      <3>4. Cardinality(J) = Cardinality(D)
        <4>. HIDE DEF D, J
        <4>. QED
          BY <3>2, <3>3, CountOfAnArm
      <3>. QED
        BY <1>3, <3>1, <3>3, <3>4, DoneIsAll
    <2>2. Pairs(board.paired) =
              Cardinality({i \in Items : \A arm \in Arms : Ran(answers[<<arm, i>>])})
      <3>. DEFINE a == CorrectByItem(OfArm(gathered, "L3"))
                  b == CorrectByItem(OfArm(gathered, "L0"))
                  shared == DOMAIN a \cap DOMAIN b
                  S(x, y) == {i \in shared : a[i] = x /\ b[i] = y}
      <3>1. /\ a = [i \in {i \in Items : Ran(answers[<<"L3", i>>])} |-> answers[<<"L3", i>>].outcome = "correct"]
            /\ b = [i \in {i \in Items : Ran(answers[<<"L0", i>>])} |-> answers[<<"L0", i>>].outcome = "correct"]
        <4>1. "L3" \in Arms /\ "L0" \in Arms
          BY <1>3, ArmsAreFew
        <4>. QED
          BY <1>3, <4>1, WholeArm DEF CorrectByItem
      <3>2. shared = {i \in Items : \A arm \in Arms : Ran(answers[<<arm, i>>])}
        BY <1>3, <3>1, ArmsAreFew
      <3>3. \A i \in shared : a[i] \in BOOLEAN /\ b[i] \in BOOLEAN
        BY <3>1
      <3>4. board.paired = Compare(a, b)
        BY DEF Scoreboard
      <3>5. IsFiniteSet(shared)
        <4>1. shared \in SUBSET Items
          BY <3>2
        <4>. QED
          BY <1>3, <4>1, DoneIsAll, FS_Subset
      <3>6. Pairs(Compare(a, b)) = Cardinality(shared)
        <4>. HIDE DEF a, b
        <4>. QED
          BY <3>3, <3>5, PairsAreTheShared
      <3>. QED
        BY <3>2, <3>4, <3>6, Zenon
    <2>. QED
      BY <2>1, <2>2
  <1>. QED
    BY <1>1, <1>2, <1>3 DEF DeadJobsStayInTheirPlace

-----------------------------------------------------------------------------
(* Sorting.                                                                *)

\* A report is about its items, in order and each once.
LEMMA ReportsSpeak == PassInv => ReportsSpeakForTheAnswers
  <1>. SUFFICES ASSUME PassInv, stage = "done"
                PROVE  ReportsSpeakForTheAnswers
    BY DEF ReportsSpeakForTheAnswers
  <1>0. pass.kind \in {"trap", "batch", "swap"} /\ gathered = answers
    BY DoneIsAll
  <1>1. ASSUME pass.kind = "batch"
        PROVE  /\ BatchReport.items = [i \in Items |-> [item |-> i, answer |-> answers[<<"governed", i>>]]]
               /\ BatchReport.counts.ran = BatchReport.counts.correct + BatchReport.counts.silent
               /\ BatchReport.counts.visible = pass.items - BatchReport.counts.ran
    <2>. DEFINE of == OfArm(gathered, "governed")
    <2>1. "governed" \in Arms /\ of = [i \in Items |-> answers[<<"governed", i>>]]
      BY <1>1, ArmsAreFew, WholeArm
    <2>2. BatchReport.items = [i \in Items |-> [item |-> i, answer |-> of[i]]]
      <3>1. rows \in Seq(Items) /\ Different(rows, 1..Len(rows)) /\ Onto(rows, 1..Len(rows), Items)
        <4>1. /\ rows \in Seq(Items)
              /\ \A m, n \in 1..Len(rows) : rows[m] = rows[n] => m = n
              /\ \A i \in Items : \E n \in 1..Len(rows) : rows[n] = i
          BY <1>0, <1>1, <2>1, DoneIsAll DEF PassInv, RowsOK, Cells
        <4>. QED
          BY <4>1 DEF Different, Onto
      <3>2. pass.items \in Nat /\ Items = 1..pass.items
        BY DoneIsAll DEF Items
      <3>3. BatchReport.items = RowsByItem(rows, of)
        BY DEF BatchReport, RowsByItem
      <3>. HIDE DEF of
      <3>4. RowsByItem(rows, of) = [i \in Items |-> [item |-> i, answer |-> of[i]]]
        BY <3>1, <3>2, RowsSortToItems
      <3>. QED
        BY <3>3, <3>4
    <2>3. /\ BatchReport.counts.ran = BatchReport.counts.correct + BatchReport.counts.silent
          /\ BatchReport.counts.visible = pass.items - BatchReport.counts.ran
      <3>. DEFINE C == {i \in Items : of[i].outcome = "correct"}
                  S == {i \in Items : of[i].outcome = "silent"}
                  V == {i \in Items : of[i].outcome = "visible"}
                  R == {i \in Items : Ran(of[i])}
      <3>1. \A i \in Items : of[i].outcome \in {"correct", "silent", "visible"}
        <4>1. ASSUME NEW i \in Items
              PROVE  of[i].outcome \in {"correct", "silent", "visible"}
          <5>1. <<"governed", i>> \in Cells
            BY <2>1 DEF Cells
          <5>2. answers[<<"governed", i>>] \in AnswersOf("batch") /\ answers[<<"governed", i>>] # Died
            BY <1>1, <5>1, DoneIsAll
          <5>3. answers[<<"governed", i>>].outcome \in {"correct", "silent", "visible"}
            BY <5>2 DEF AnswersOf, JobAnswer, Died
          <5>. QED
            BY <2>1, <5>3
        <4>. QED
          BY <4>1
      <3>2. /\ BatchReport.counts.ran = Cardinality(R)
            /\ BatchReport.counts.correct = Cardinality(C)
            /\ BatchReport.counts.silent = Cardinality(S)
            /\ BatchReport.counts.visible = Cardinality(V)
        <4>1. BatchReport.counts = Summarise(of)
          BY DEF BatchReport
        <4>2. DOMAIN of = Items
          BY <2>1
        <4>. HIDE DEF of
        <4>. QED
          BY <4>1, <4>2 DEF Summarise, Count
      <3>3. R = C \cup S /\ C \cap S = {}
        BY DEF Ran
      <3>4. Items = R \cup V /\ R \cap V = {}
        BY <3>1 DEF Ran
      <3>. HIDE DEF C, S, V, R
      <3>5. IsFiniteSet(R) /\ Cardinality(Items) = Cardinality(R) + Cardinality(V)
            /\ Cardinality(R) \in Nat /\ Cardinality(V) \in Nat
        BY <3>4, DoneIsAll, CountInTwo
      <3>6. Cardinality(R) = Cardinality(C) + Cardinality(S)
        BY <3>3, <3>5, CountInTwo
      <3>. QED
        BY <3>2, <3>5, <3>6, DoneIsAll
    <2>. QED
      BY <2>1, <2>2, <2>3
  <1>2. ASSUME pass.kind = "swap", NEW arm \in Arms
        PROVE  /\ SwapArms[arm].ran = pass.items
               /\ SwapArms[arm].accepted = Cardinality({i \in Items : answers[<<arm, i>>].accepted})
               /\ SwapArms[arm].correct = Cardinality({i \in Items : answers[<<arm, i>>].outcome = "correct"})
    <2>1. OfArm(gathered, arm) = [i \in Items |-> answers[<<arm, i>>]]
      BY <1>2, WholeArm
    <2>. QED
      BY <2>1, DoneIsAll DEF SwapArms, Count
  <1>. QED
    BY <1>0, <1>1, <1>2 DEF ReportsSpeakForTheAnswers

\* The reading of the swap compares rates; of arms as long, it compares counts.
LEMMA SwapIsHonest == PassInv => SwapReadingIsHonest
  <1>. SUFFICES ASSUME PassInv, stage = "done", pass.kind = "swap"
                PROVE  SwapReadingIsHonest
    BY DEF SwapReadingIsHonest
  <1>. DEFINE right(arm) == Cardinality({i \in Items : answers[<<arm, i>>].outcome = "correct"})
              passed(arm) == Cardinality({i \in Items : answers[<<arm, i>>].accepted})
              reading == SwapReading(SwapArms)
  <1>1. "ast" \in Arms /\ "regex" \in Arms /\ pass.items \in Nat
    BY ArmsAreFew, DoneIsAll
  <1>2. \A arm \in {"ast", "regex"} :
            /\ SwapArms[arm].ran = pass.items
            /\ SwapArms[arm].accepted = passed(arm)
            /\ SwapArms[arm].correct = right(arm)
            /\ passed(arm) \in Nat /\ right(arm) \in Nat
    <2>1. \A arm \in {"ast", "regex"} : passed(arm) \in Nat /\ right(arm) \in Nat
      <3>1. \A s \in SUBSET Items : Cardinality(s) \in Nat
        BY DoneIsAll, FS_Subset, FS_CardinalityType
      <3>. QED
        BY <3>1
    <2>. QED
      BY <1>1, <2>1, ReportsSpeak DEF ReportsSpeakForTheAnswers
  <1>. HIDE DEF right, passed
  <1>. DEFINE ast == SwapArms["ast"]
              regex == SwapArms["regex"]
              moved == {m \in {"acceptance", "cost", "rejections"} :
                           CASE m = "acceptance" -> regex.accepted * ast.ran > ast.accepted * regex.ran
                             [] m = "cost" -> regex.cost < ast.cost
                             [] m = "rejections" -> regex.rejections < ast.rejections}
              said == CASE regex.correct * ast.ran < ast.correct * regex.ran -> "fell"
                        [] regex.correct = ast.correct -> "identical"
                        [] OTHER -> "other way"
  <1>3. /\ ast.ran = 0 \/ regex.ran = 0 => reading = [says |-> "nothing ran"]
        /\ ast.ran \in Nat /\ regex.ran \in Nat /\ ast.ran # 0 /\ regex.ran # 0 =>
               reading = IF moved = {} THEN [says |-> "nothing moved"]
                         ELSE [says |-> "moved", moved |-> moved, correctness |-> said]
    <2>. DEFINE nothing == [says |-> "nothing ran"]
                still == [says |-> "nothing moved"]
                news == [says |-> "moved", moved |-> moved, correctness |-> said]
    <2>1. reading = CASE ast.ran = 0 \/ regex.ran = 0 -> nothing
                      [] ast.ran > 0 /\ regex.ran > 0 /\ moved = {} -> still
                      [] OTHER -> news
      BY Zenon DEF SwapReading
    <2>. HIDE DEF reading, ast, regex, moved, said, nothing, still, news
    <2>2. ast.ran = 0 \/ regex.ran = 0 => reading = nothing
      <3>1. ASSUME ast.ran = 0 \/ regex.ran = 0
            PROVE  ~(ast.ran > 0 /\ regex.ran > 0)
        BY <3>1
      <3>. QED
        BY <2>1, <3>1
    <2>3. ast.ran \in Nat /\ regex.ran \in Nat /\ ast.ran # 0 /\ regex.ran # 0 =>
              reading = IF moved = {} THEN still ELSE news
      BY <2>1
    <2>. QED
      BY <2>2, <2>3, Zenon DEF nothing, still, news
  <1>4. "acceptance" \in moved <=> regex.accepted * ast.ran > ast.accepted * regex.ran
    OBVIOUS
  <1>5. /\ ast.ran = pass.items /\ regex.ran = pass.items
        /\ ast.accepted = passed("ast") /\ regex.accepted = passed("regex")
        /\ ast.correct = right("ast") /\ regex.correct = right("regex")
    BY <1>2
  <1>. HIDE DEF reading, ast, regex, moved, said
  <1>6. reading.says = "nothing ran" <=> pass.items = 0
    <2>1. CASE pass.items = 0
      <3>1. reading = [says |-> "nothing ran"]
        BY <1>3, <1>5, <2>1
      <3>. QED
        BY <2>1, <3>1
    <2>2. CASE pass.items # 0
      <3>1. CASE reading = [says |-> "nothing moved"]
        BY <2>2, <3>1
      <3>2. CASE reading = [says |-> "moved", moved |-> moved, correctness |-> said]
        BY <2>2, <3>2
      <3>. QED
        BY <1>1, <1>3, <1>5, <2>2, <3>1, <3>2
    <2>. QED
      BY <2>1, <2>2
  <1>7. ASSUME reading.says = "moved"
        PROVE  /\ "acceptance" \in reading.moved <=> passed("regex") > passed("ast")
               /\ reading.correctness = "fell" <=> right("regex") < right("ast")
               /\ reading.correctness = "identical" <=> right("regex") = right("ast")
    <2>1. pass.items > 0
      BY <1>1, <1>6, <1>7
    <2>2. reading.moved = moved /\ reading.correctness = said
      <3>1. reading = IF moved = {} THEN [says |-> "nothing moved"]
                      ELSE [says |-> "moved", moved |-> moved, correctness |-> said]
        <4>1. ast.ran \in Nat /\ regex.ran \in Nat /\ ast.ran # 0 /\ regex.ran # 0
          BY <1>1, <1>5, <2>1
        <4>. QED
          BY <1>3, <4>1, Zenon
      <3>2. CASE moved = {}
        BY <1>7, <3>1, <3>2
      <3>3. CASE moved # {}
        BY <3>1, <3>3
      <3>. QED
        BY <3>2, <3>3
    <2>3. "acceptance" \in reading.moved <=> passed("regex") > passed("ast")
      BY <1>1, <1>2, <1>4, <1>5, <2>1, <2>2, MoreOfAsMany
    <2>4. regex.correct * ast.ran < ast.correct * regex.ran <=> right("regex") < right("ast")
      BY <1>1, <1>2, <1>5, <2>1, MoreOfAsMany
    <2>5. right("regex") < right("ast") => right("regex") # right("ast")
      BY <1>2
    <2>6. /\ reading.correctness = "fell" <=> right("regex") < right("ast")
          /\ reading.correctness = "identical" <=> right("regex") = right("ast")
      BY <1>5, <2>2, <2>4, <2>5 DEF said
    <2>. QED
      BY <2>3, <2>6
  <1>. QED
    BY <1>6, <1>7 DEF SwapReadingIsHonest, right, passed, reading

-----------------------------------------------------------------------------
(* The file a trap saves.                                                  *)

\* The place of a cell in it.
PlaceInFile(c) == IF c[1] = "L0" THEN 2 * c[2] - 1 ELSE 2 * c[2]

Before(j, k) == j[2] < k[2] \/ (j[2] = k[2] /\ j[1] = "L0" /\ k[1] = "L3")

CellsInOrder(cells) ==
    Sorted(SetToSeq(DOMAIN cells), LAMBDA j, k :
               j[2] < k[2] \/ (j[2] = k[2] /\ j[1] = "L0" /\ k[1] = "L3"))

\* The order of the file is that of the places: by item, L0 before L3.
LEMMA PlaceInFileIsItsOrder ==
    ASSUME NEW n \in Nat, NEW c \in {"L3", "L0"} \X (1..n), NEW d \in {"L3", "L0"} \X (1..n)
    PROVE  /\ PlaceInFile(c) \in 1..(2 * n)
           /\ PlaceInFile(c) = PlaceInFile(d) => c = d
           /\ PlaceInFile(c) < PlaceInFile(d) <=> Before(c, d)
  <1>1. PICK a \in {"L3", "L0"}, i \in 1..n : c = <<a, i>>
    OBVIOUS
  <1>2. PICK b \in {"L3", "L0"}, j \in 1..n : d = <<b, j>>
    OBVIOUS
  <1>3. /\ PlaceInFile(c) = IF a = "L0" THEN 2 * i - 1 ELSE 2 * i
        /\ PlaceInFile(d) = IF b = "L0" THEN 2 * j - 1 ELSE 2 * j
        /\ Before(c, d) <=> i < j \/ (i = j /\ a = "L0" /\ b = "L3")
    BY <1>1, <1>2 DEF PlaceInFile, Before
  <1>4. "L3" # "L0"
    OBVIOUS
  <1>5. i \in Int /\ j \in Int /\ i >= 1 /\ i <= n
    OBVIOUS
  <1>. QED
    BY <1>1, <1>2, <1>3, <1>4, <1>5

\* And no place is empty.
LEMMA EveryPlaceIsACell ==
    ASSUME NEW n \in Nat, NEW m \in 1..(2 * n)
    PROVE  \E c \in {"L3", "L0"} \X (1..n) : PlaceInFile(c) = m
  <1>1. PICK i \in 1..n : m = 2 * i - 1 \/ m = 2 * i
    <2>1. (m + 1) \div 2 \in 1..n /\ (m = 2 * ((m + 1) \div 2) - 1 \/ m = 2 * ((m + 1) \div 2))
      OBVIOUS
    <2>. QED
      BY <2>1
  <1>2. CASE m = 2 * i - 1
    <2>1. <<"L0", i>> \in {"L3", "L0"} \X (1..n) /\ PlaceInFile(<<"L0", i>>) = m
      BY <1>2 DEF PlaceInFile
    <2>. QED
      BY <2>1
  <1>3. CASE m = 2 * i
    <2>1. <<"L3", i>> \in {"L3", "L0"} \X (1..n) /\ PlaceInFile(<<"L3", i>>) = m
      BY <1>3 DEF PlaceInFile
    <2>. QED
      BY <2>1
  <1>. QED
    BY <1>1, <1>2, <1>3

\* A trap has two cells for each item.
LEMMA TwoArmsOfCells ==
    ASSUME NEW n \in Nat
    PROVE  LET C == {"L3", "L0"} \X (1..n)
           IN  IsFiniteSet(C) /\ Cardinality(C) = 2 * n
  <1>1. IsFiniteSet({"L3", "L0"}) /\ Cardinality({"L3", "L0"}) = 2
    <2>1. IsFiniteSet({"L3"}) /\ Cardinality({"L3"}) = 1
      BY FS_Singleton
    <2>2. IsFiniteSet({"L3"} \cup {"L0"}) /\ Cardinality({"L3"} \cup {"L0"}) = 2
      BY <2>1, FS_AddElement
    <2>3. {"L3"} \cup {"L0"} = {"L3", "L0"}
      OBVIOUS
    <2>. QED
      BY <2>2, <2>3
  <1>2. IsFiniteSet(1..n) /\ Cardinality(1..n) = n
    BY FS_Interval
  <1>. DEFINE A == {"L3", "L0"}
              B == 1..n
  <1>. HIDE DEF A, B
  <1>3. IsFiniteSet(A \X B) /\ Cardinality(A \X B) = Cardinality(A) * Cardinality(B)
    BY <1>1, <1>2, FS_Product DEF A, B
  <1>. QED
    BY <1>1, <1>2, <1>3 DEF A, B

\* The file has each cell of the trap, in its place.
InFileOrder(order, C, N) ==
    DOMAIN order = N /\ \A m \in N : order[m] \in C /\ PlaceInFile(order[m]) = m

LEMMA FileHasEveryCell ==
    ASSUME NEW n \in Nat, NEW C, C = {"L3", "L0"} \X (1..n), NEW cells, DOMAIN cells = C
    PROVE  InFileOrder(CellsInOrder(cells), C, 1..(2 * n))
  <1>. DEFINE N == 1..(2 * n)
              s == SetToSeq(C)
              r == [m \in N |-> PlaceInFile(s[m])]
              InPlace(p) == /\ IsInjective(p)
                            /\ \A i, j \in DOMAIN s : i < j =>
                                  \/ s[p[i]][2] < s[p[j]][2]
                                     \/ (s[p[i]][2] = s[p[j]][2] /\ s[p[i]][1] = "L0" /\ s[p[j]][1] = "L3")
                                  \/ ~(\/ s[p[j]][2] < s[p[i]][2]
                                       \/ (s[p[j]][2] = s[p[i]][2] /\ s[p[j]][1] = "L0" /\ s[p[i]][1] = "L3"))
                                     /\ p[i] < p[j]
              place == CHOOSE p \in [DOMAIN s -> DOMAIN s] : InPlace(p)
  <1>1. s \in [N -> C] /\ Different(s, N) /\ Onto(s, N, C)
    BY TwoArmsOfCells, SetAsSequence
  <1>2. CellsInOrder(cells) = [m \in DOMAIN s |-> s[place[m]]]
    BY DEF CellsInOrder, Sorted
  <1>. HIDE DEF s
  <1>3. \A c, d \in C : /\ PlaceInFile(c) \in N
                        /\ PlaceInFile(c) = PlaceInFile(d) => c = d
                        /\ PlaceInFile(c) < PlaceInFile(d) <=> Before(c, d)
    BY PlaceInFileIsItsOrder
  <1>4. \A m \in N : s[m] \in C /\ r[m] = PlaceInFile(s[m]) /\ r[m] \in N
    BY <1>1, <1>3
  <1>5. r \in [N -> N] /\ Different(r, N)
    <2>1. r \in [N -> N]
      BY <1>4
    <2>2. ASSUME NEW i \in N, NEW j \in N, r[i] = r[j]
          PROVE  i = j
      <3>1. s[i] = s[j]
        BY <1>3, <1>4, <2>2
      <3>. QED
        BY <1>1, <3>1 DEF Different
    <2>. QED
      BY <2>1, <2>2 DEF Different
  <1>6. Onto(r, N, N)
    <2>1. ASSUME NEW i \in N
          PROVE  \E m \in N : r[m] = i
      <3>1. PICK c \in C : PlaceInFile(c) = i
        BY EveryPlaceIsACell
      <3>2. PICK m \in N : s[m] = c
        BY <1>1 DEF Onto
      <3>. QED
        BY <1>4, <3>1, <3>2
    <2>. QED
      BY <2>1 DEF Onto
  <1>. HIDE DEF r
  <1>7. \A p \in [N -> N] : \A i, j \in N :
            /\ p[i] \in N /\ p[j] \in N
            /\ r[p[i]] < r[p[j]] <=>
                   \/ s[p[i]][2] < s[p[j]][2]
                   \/ (s[p[i]][2] = s[p[j]][2] /\ s[p[i]][1] = "L0" /\ s[p[j]][1] = "L3")
    <2>. SUFFICES ASSUME NEW p \in [N -> N], NEW i \in N, NEW j \in N
                  PROVE  /\ p[i] \in N /\ p[j] \in N
                         /\ r[p[i]] < r[p[j]] <=> Before(s[p[i]], s[p[j]])
      BY DEF Before
    <2>1. p[i] \in N /\ p[j] \in N
      OBVIOUS
    <2>2. /\ s[p[i]] \in C /\ r[p[i]] = PlaceInFile(s[p[i]])
          /\ s[p[j]] \in C /\ r[p[j]] = PlaceInFile(s[p[j]])
      BY <1>4, <2>1
    <2>3. PlaceInFile(s[p[i]]) < PlaceInFile(s[p[j]]) <=> Before(s[p[i]], s[p[j]])
      BY <1>3, <2>2
    <2>. QED
      BY <2>1, <2>2, <2>3
  <1>8. \E p \in [DOMAIN s -> DOMAIN s] : InPlace(p)
    <2>. DEFINE p == PlaceOf(r, N)
    <2>1. p \in [N -> N] /\ Finds(p, r, N) /\ Different(p, N)
      BY <1>5, <1>6, PlaceOfFinds
    <2>. HIDE DEF p
    <2>2. \A i, j \in N : i < j => r[p[i]] < r[p[j]]
      BY <2>1 DEF Finds
    <2>3. IsInjective(p)
      BY <2>1 DEF IsInjective, Different
    <2>4. DOMAIN s = N
      BY <1>1
    <2>5. InPlace(p)
      BY <1>7, <2>1, <2>2, <2>3, <2>4
    <2>. HIDE DEF InPlace
    <2>. QED
      BY <2>1, <2>4, <2>5
  <1>9. place \in [DOMAIN s -> DOMAIN s] /\ InPlace(place)
    <2>. HIDE DEF InPlace
    <2>. QED
      BY <1>8
  <1>. HIDE DEF place
  <1>10. DOMAIN s = N /\ place \in [N -> N] /\ Different(place, N)
    BY <1>1, <1>9 DEF IsInjective, Different
  <1>11. PutsInOrder(place, r, N)
    <2>1. ASSUME NEW i \in N, NEW j \in N, i < j
          PROVE  r[place[i]] < r[place[j]] \/ ~(r[place[j]] < r[place[i]])
      <3>1. \/ s[place[i]][2] < s[place[j]][2]
               \/ (s[place[i]][2] = s[place[j]][2] /\ s[place[i]][1] = "L0" /\ s[place[j]][1] = "L3")
            \/ ~(\/ s[place[j]][2] < s[place[i]][2]
                 \/ (s[place[j]][2] = s[place[i]][2] /\ s[place[j]][1] = "L0" /\ s[place[i]][1] = "L3"))
        BY <1>9, <1>10, <2>1
      <3>2. /\ r[place[i]] < r[place[j]] <=>
                   \/ s[place[i]][2] < s[place[j]][2]
                   \/ (s[place[i]][2] = s[place[j]][2] /\ s[place[i]][1] = "L0" /\ s[place[j]][1] = "L3")
            /\ r[place[j]] < r[place[i]] <=>
                   \/ s[place[j]][2] < s[place[i]][2]
                   \/ (s[place[j]][2] = s[place[i]][2] /\ s[place[j]][1] = "L0" /\ s[place[i]][1] = "L3")
        BY <1>7, <1>10
      <3>. QED
        BY <3>1, <3>2
    <2>. QED
      BY <2>1 DEF PutsInOrder
  <1>12. Finds(place, r, N)
    <2>. DEFINE k == 2 * n
    <2>1. k \in Nat /\ N = 1..k
      OBVIOUS
    <2>. HIDE DEF k, N
    <2>. QED
      BY <1>5, <1>10, <1>11, <2>1, PlacesInOrder
  <1>13. \A m \in N : s[place[m]] \in C /\ PlaceInFile(s[place[m]]) = m
    BY <1>4, <1>10, <1>12 DEF Finds
  <1>. QED
    BY <1>2, <1>10, <1>13 DEF InFileOrder

\* The scores follow from the cells of the file.
LEMMA SavedTells == PassInv => SavedStateTellsTheScores
  <1>. SUFFICES ASSUME PassInv, stage = "done", pass.kind = "trap"
                PROVE  SavedStateTellsTheScores
    BY DEF SavedStateTellsTheScores
  <1>. DEFINE n == pass.items
              order == CellsInOrder(gathered)
              saved == SavedState(gathered)
              place(j) == CHOOSE m \in DOMAIN saved.cells : <<saved.cells[m].arm, saved.cells[m].item>> = j
              outcome(j) == saved.cells[place(j)].outcome
              back == [j \in ToSet(Jobs) |->
                          IF outcome(j) = "none" THEN Died ELSE JobAnswer(outcome(j), FALSE, 0)]
  <1>1. n \in Nat /\ Items = 1..n /\ Cells = {"L3", "L0"} \X (1..n)
    BY ArmsAreFew, DoneIsAll DEF Items, Cells
  <1>2. DOMAIN gathered = Cells /\ gathered = answers
    BY DoneIsAll
  <1>3. /\ DOMAIN order = 1..(2 * n)
        /\ \A m \in 1..(2 * n) : order[m] \in Cells /\ PlaceInFile(order[m]) = m
    <2>1. InFileOrder(order, Cells, 1..(2 * n))
      <3>. HIDE DEF n
      <3>. QED
        BY <1>1, <1>2, FileHasEveryCell
    <2>. QED
      BY <2>1 DEF InFileOrder
  <1>4. saved = [cells |-> [m \in DOMAIN order |->
                               [arm |-> order[m][1], item |-> order[m][2],
                                outcome |-> IF gathered[order[m]] = Died THEN "none"
                                            ELSE gathered[order[m]].outcome]],
                 board |-> Scoreboard(gathered)]
    BY DEF SavedState, CellsInOrder
  <1>. HIDE DEF order, saved
  <1>5. Len(saved.cells) = Len(Jobs)
    <2>1. Len(Jobs) = 2 * n
      <3>1. Len(ArmsOf(pass.kind)) = 2
        BY ArmsAreFew
      <3>2. Jobs = [m \in 1..(2 * n) |->
                       <<ArmsOf(pass.kind)[((m - 1) \div n) + 1], ((m - 1) % n) + 1>>]
        BY <3>1, Zenon DEF Jobs
      <3>. QED
        BY <1>1, <3>2
    <2>2. Len(saved.cells) = 2 * n
      BY <1>1, <1>3, <1>4
    <2>. QED
      BY <2>1, <2>2
  <1>6. ASSUME NEW j \in Cells
        PROVE  outcome(j) = IF gathered[j] = Died THEN "none" ELSE gathered[j].outcome
    <2>1. \A m \in 1..(2 * n) :
              /\ <<saved.cells[m].arm, saved.cells[m].item>> = order[m]
              /\ saved.cells[m].outcome = IF gathered[order[m]] = Died THEN "none"
                                          ELSE gathered[order[m]].outcome
      <3>1. \A c \in Cells : <<c[1], c[2]>> = c
        BY <1>1
      <3>. QED
        BY <1>3, <1>4, <3>1
    <2>2. DOMAIN saved.cells = 1..(2 * n)
      BY <1>3, <1>4
    <2>3. PICK m \in 1..(2 * n) : order[m] = j
      <3>1. PlaceInFile(j) \in 1..(2 * n)
        BY <1>1, PlaceInFileIsItsOrder
      <3>2. order[PlaceInFile(j)] \in Cells /\ PlaceInFile(order[PlaceInFile(j)]) = PlaceInFile(j)
        BY <1>3, <3>1
      <3>3. order[PlaceInFile(j)] = j
        BY <1>1, <3>2, PlaceInFileIsItsOrder
      <3>. QED
        BY <3>1, <3>3
    <2>4. place(j) \in DOMAIN saved.cells /\ <<saved.cells[place(j)].arm, saved.cells[place(j)].item>> = j
      BY <2>1, <2>2, <2>3
    <2>. HIDE DEF place
    <2>. QED
      BY <2>1, <2>2, <2>4
  <1>. HIDE DEF outcome
  <1>7. back = gathered
    <2>1. ToSet(Jobs) = Cells
      BY <1>1, JobsAreTheCells
    <2>2. ASSUME NEW j \in Cells
          PROVE  gathered[j] = IF outcome(j) = "none" THEN Died ELSE JobAnswer(outcome(j), FALSE, 0)
      <3>1. gathered[j] \in {Died} \cup {JobAnswer(o, FALSE, 0) : o \in {"visible", "correct", "silent"}}
        BY <1>2, DoneIsAll DEF AnswersOf
      <3>2. CASE gathered[j] = Died
        BY <1>6, <3>2
      <3>3. CASE gathered[j] # Died
        <4>1. PICK o \in {"visible", "correct", "silent"} : gathered[j] = JobAnswer(o, FALSE, 0)
          BY <3>1, <3>3
        <4>2. outcome(j) = o
          BY <1>6, <3>3, <4>1 DEF JobAnswer
        <4>. QED
          BY <4>1, <4>2
      <3>. QED
        BY <3>2, <3>3
    <2>3. gathered = [j \in Cells |-> gathered[j]]
      BY <1>2 DEF PassInv, GatheredOK
    <2>. QED
      BY <2>1, <2>2, <2>3
  <1>8. Printed(back, TRUE) = <<saved.board>>
    <2>. HIDE DEF back
    <2>. QED
      BY <1>4, <1>7 DEF Printed
  <1>. QED
    BY <1>5, <1>8, Zenon DEF SavedStateTellsTheScores, saved, outcome, place

\* What a pass shows and reports is what its jobs answered: MCPasses' PassesTellWhatHappened,
\* of the trap's scores and file, the batch report and the reading of the swap.
THEOREM PassesTell == Spec => []PassesTellWhatHappened
  <1>1. PassInv => PassesTellWhatHappened
    BY ReportsSpeak, DeadStay, NothingShows, LateIsExact, SavedTells, SwapIsHonest
       DEF PassesTellWhatHappened
  <1>. QED
    BY <1>1, PassInvariance, PTL

-----------------------------------------------------------------------------
(* Triage, of any number of runs.                                          *)

\* What abstention and escalation are asked about.
TriageAsks ==
    /\ asked.topic = "abstain" => asked.runs \in Seq(Recorded)
    /\ asked.topic = "escalate" =>
           /\ asked.runs \in Seq(Recorded)
           /\ asked.frontier \in [DOMAIN asked.runs -> BOOLEAN] /\ asked.limit \in Nat

\* How confident each way to end leaves one.
LEMMA ConfidenceOfEach ==
    ASSUME NEW run \in Recorded
    PROVE  /\ Confidence(run) \in Confidences
           /\ Confidence(run) >= DefaultThreshold <=> run.ran /\ run.termination = "success"
           /\ Confidence(run) = 100 => run.termination = "success" /\ run.rejections = 0
  BY DEF Recorded, Runs, Confidence, Confidences, DefaultThreshold

ThresholdList == <<0, 15, 20, 30, 70, 100>>

\* The thresholds of the curve, which the code sorts.
LEMMA ThresholdsAreSorted == Thresholds = ThresholdList
  <1>. DEFINE T == Confidences \cup {0}
              N == 1..6
              s == SetToSeq(T)
              at == [v \in T |-> CASE v = 0 -> 1 [] v = 15 -> 2 [] v = 20 -> 3
                                   [] v = 30 -> 4 [] v = 70 -> 5 [] v = 100 -> 6]
              r == [m \in N |-> at[s[m]]]
              InPlace(p) == /\ IsInjective(p)
                            /\ \A i, j \in DOMAIN s : i < j =>
                                  \/ s[p[i]] < s[p[j]]
                                  \/ ~(s[p[j]] < s[p[i]]) /\ p[i] < p[j]
              place == CHOOSE p \in [DOMAIN s -> DOMAIN s] : InPlace(p)
  <1>0. T = {0, 15, 20, 30, 70, 100}
    BY DEF Confidences
  <1>1. /\ \A v \in T : at[v] \in N /\ ThresholdList[at[v]] = v
        /\ \A m \in N : ThresholdList[m] \in T /\ at[ThresholdList[m]] = m
        /\ \A u, v \in T : at[u] < at[v] <=> u < v
    <2>1. \A v \in T : at[v] = IF v = 0 THEN 1 ELSE IF v = 15 THEN 2 ELSE IF v = 20 THEN 3
                               ELSE IF v = 30 THEN 4 ELSE IF v = 70 THEN 5 ELSE 6
      BY <1>0
    <2>. HIDE DEF at
    <2>2. \A m \in N : m \in {1, 2, 3, 4, 5, 6}
      OBVIOUS
    <2>. QED
      BY <1>0, <2>1, <2>2 DEF ThresholdList
  <1>. HIDE DEF at
  <1>2. IsFiniteSet(T) /\ Cardinality(T) = 6
    <2>1. ThresholdList \in Bijection(N, T)
      <3>1. ThresholdList \in [N -> T]
        BY <1>1 DEF ThresholdList
      <3>2. \A i, j \in N : ThresholdList[i] = ThresholdList[j] => i = j
        BY <1>1
      <3>3. \A v \in T : \E m \in N : ThresholdList[m] = v
        BY <1>1
      <3>. QED
        BY <3>1, <3>2, <3>3 DEF Bijection, Injection, Surjection, IsInjective
    <2>2. ExistsBijection(N, T)
      BY <2>1 DEF ExistsBijection
    <2>3. IsFiniteSet(N) /\ Cardinality(N) = 6
      <3>. DEFINE k == 6
      <3>1. k \in Nat /\ N = 1..k /\ k = 6
        OBVIOUS
      <3>. HIDE DEF k, N
      <3>2. IsFiniteSet(1..k) /\ Cardinality(1..k) = k
        BY <3>1, UpToIsAsMany
      <3>. QED
        BY <3>1, <3>2
    <2>. QED
      BY <2>2, <2>3, FS_Bijection
  <1>3. s \in [N -> T] /\ Different(s, N) /\ Onto(s, N, T)
    BY <1>2, SetAsSequence
  <1>4. Thresholds = [m \in DOMAIN s |-> s[place[m]]]
    BY DEF Thresholds, Sorted
  <1>. HIDE DEF s, T
  <1>5. \A m \in N : s[m] \in T /\ r[m] = at[s[m]] /\ r[m] \in N /\ ThresholdList[r[m]] = s[m]
    BY <1>1, <1>3
  <1>. HIDE DEF r
  <1>6. r \in [N -> N] /\ Different(r, N)
    <2>1. r \in [N -> N]
      BY <1>5 DEF r
    <2>2. ASSUME NEW i \in N, NEW j \in N, r[i] = r[j]
          PROVE  i = j
      <3>1. s[i] = s[j]
        BY <1>5, <2>2
      <3>. QED
        BY <1>3, <3>1 DEF Different
    <2>. QED
      BY <2>1, <2>2 DEF Different
  <1>7. Onto(r, N, N)
    <2>1. ASSUME NEW i \in N
          PROVE  \E m \in N : r[m] = i
      <3>1. PICK m \in N : s[m] = ThresholdList[i]
        BY <1>1, <1>3 DEF Onto
      <3>. QED
        BY <1>1, <1>5, <3>1
    <2>. QED
      BY <2>1 DEF Onto
  <1>8. ASSUME NEW p \in [N -> N], NEW i \in N, NEW j \in N
        PROVE  r[p[i]] < r[p[j]] <=> s[p[i]] < s[p[j]]
    <2>1. p[i] \in N /\ p[j] \in N
      OBVIOUS
    <2>2. /\ s[p[i]] \in T /\ r[p[i]] = at[s[p[i]]]
          /\ s[p[j]] \in T /\ r[p[j]] = at[s[p[j]]]
      BY <1>5, <2>1
    <2>. QED
      BY <1>1, <2>2
  <1>9. \E p \in [DOMAIN s -> DOMAIN s] : InPlace(p)
    <2>. DEFINE p == PlaceOf(r, N)
    <2>1. p \in [N -> N] /\ Finds(p, r, N) /\ Different(p, N)
      BY <1>6, <1>7, PlaceOfFinds
    <2>. HIDE DEF p
    <2>2. \A i, j \in N : i < j => r[p[i]] < r[p[j]]
      BY <2>1 DEF Finds
    <2>3. IsInjective(p)
      BY <2>1 DEF IsInjective, Different
    <2>4. DOMAIN s = N
      BY <1>3
    <2>5. InPlace(p)
      BY <1>8, <2>1, <2>2, <2>3, <2>4
    <2>. HIDE DEF InPlace
    <2>. QED
      BY <2>1, <2>4, <2>5
  <1>10. place \in [DOMAIN s -> DOMAIN s] /\ InPlace(place)
    <2>. HIDE DEF InPlace
    <2>. QED
      BY <1>9
  <1>. HIDE DEF place
  <1>11. DOMAIN s = N /\ place \in [N -> N] /\ Different(place, N)
    BY <1>3, <1>10 DEF IsInjective, Different
  <1>12. PutsInOrder(place, r, N)
    <2>1. ASSUME NEW i \in N, NEW j \in N, i < j
          PROVE  r[place[i]] < r[place[j]] \/ ~(r[place[j]] < r[place[i]])
      <3>1. s[place[i]] < s[place[j]] \/ ~(s[place[j]] < s[place[i]])
        BY <1>10, <1>11, <2>1
      <3>. QED
        BY <1>8, <1>11, <3>1
    <2>. QED
      BY <2>1 DEF PutsInOrder
  <1>13. Finds(place, r, N)
    <2>. HIDE DEF N
    <2>. QED
      BY <1>6, <1>11, <1>12, PlacesInOrder DEF N
  <1>14. \A m \in N : s[place[m]] = ThresholdList[m]
    BY <1>5, <1>11, <1>13 DEF Finds
  <1>. QED
    BY <1>4, <1>11, <1>14 DEF ThresholdList

\* What is declined are the runs that are not answered.
LEMMA DeclinedAndAnswered ==
    ASSUME NEW runs \in Seq(Recorded), NEW t \in Int
    PROVE  LET answered == {i \in DOMAIN runs : Answered(runs[i], t)}
               declined == {i \in DOMAIN runs : ~Answered(runs[i], t)}
           IN  /\ IsFiniteSet(answered) /\ IsFiniteSet(declined)
               /\ Cardinality(answered) \in Nat /\ Cardinality(declined) \in Nat
               /\ Cardinality(answered) + Cardinality(declined) = Len(runs)
               /\ answered \in SUBSET (1..Len(runs)) /\ declined \in SUBSET (1..Len(runs))
  <1>. DEFINE N == DOMAIN runs
              A == {i \in N : Answered(runs[i], t)}
              D == {i \in N : ~Answered(runs[i], t)}
  <1>1. N = 1..Len(runs) /\ Len(runs) \in Nat
    OBVIOUS
  <1>2. IsFiniteSet(N) /\ Cardinality(N) = Len(runs)
    BY <1>1, FS_Interval
  <1>3. N = A \cup D /\ A \cap D = {}
    OBVIOUS
  <1>4. A \in SUBSET N /\ D \in SUBSET N
    OBVIOUS
  <1>. HIDE DEF N, A, D
  <1>5. /\ IsFiniteSet(A) /\ IsFiniteSet(D)
        /\ Cardinality(A) \in Nat /\ Cardinality(D) \in Nat
        /\ Cardinality(A) + Cardinality(D) = Len(runs)
    BY <1>2, <1>3, CountInTwo
  <1>6. A \in SUBSET (1..Len(runs)) /\ D \in SUBSET (1..Len(runs))
    BY <1>1, <1>4
  <1>. QED
    BY <1>5, <1>6 DEF A, D, N

\* A higher threshold answers no more.
LEMMA HigherAnswersLess ==
    ASSUME NEW runs \in Seq(Recorded), NEW t \in Int, NEW u \in Int, t <= u
    PROVE  Cardinality({i \in DOMAIN runs : Answered(runs[i], u)})
               <= Cardinality({i \in DOMAIN runs : Answered(runs[i], t)})
  <1>. DEFINE A == {i \in DOMAIN runs : Answered(runs[i], t)}
              B == {i \in DOMAIN runs : Answered(runs[i], u)}
  <1>1. IsFiniteSet(A)
    BY DeclinedAndAnswered
  <1>2. B \in SUBSET A
    <2>1. \A i \in DOMAIN runs : Confidence(runs[i]) \in Confidences
      BY ConfidenceOfEach
    <2>2. \A c \in Confidences : c >= u => c >= t
      BY DEF Confidences
    <2>. QED
      BY <2>1, <2>2 DEF Answered
  <1>. HIDE DEF A, B
  <1>3. Cardinality(B) <= Cardinality(A)
    BY <1>1, <1>2, FS_Subset
  <1>. QED
    BY <1>3 DEF A, B

\* Of any sequence of runs, any answers of the frontier and any limit: the default threshold
\* answers exactly what passed its verifier, a higher threshold of the curve answers no more,
\* and an escalation counts what it declines and says when its cap left some of it behind.
\* MCTriage's DeclinedAnswersAreCounted, of the code of abstain.py and escalate.py.
THEOREM TriageCounts == TriageAsks => DeclinedAnswersAreCounted
  <1>1. ASSUME TriageAsks, asked.topic = "abstain"
        PROVE  DefaultAnswersWhatPassed /\ CurveReachesBothEnds
    <2>. DEFINE runs == asked.runs
                points == Curve(runs)
                of(t) == Cardinality({i \in DOMAIN runs : Answered(runs[i], t)})
    <2>1. runs \in Seq(Recorded) /\ DOMAIN runs = 1..Len(runs) /\ Len(runs) \in Nat
      BY <1>1 DEF TriageAsks
    <2>2. \A i \in DOMAIN runs : runs[i] \in Recorded
      BY <2>1
    <2>3. DefaultAnswersWhatPassed
      BY <2>2, ConfidenceOfEach DEF DefaultAnswersWhatPassed, Answered
    <2>4. points = [i \in 1..6 |-> OperatingPoint(runs, ThresholdList[i])]
      BY ThresholdsAreSorted DEF Curve, ThresholdList
    <2>5. \A i \in 1..6 : points[i].answered = of(ThresholdList[i]) /\ points[i].threshold = ThresholdList[i]
      BY <2>4 DEF OperatingPoint
    <2>. HIDE DEF points
    <2>6. of(0) = Len(runs)
      <3>1. {i \in DOMAIN runs : Answered(runs[i], 0)} = DOMAIN runs
        BY <2>2, ConfidenceOfEach DEF Answered, Confidences
      <3>2. Cardinality(1..Len(runs)) = Len(runs)
        BY <2>1, FS_Interval
      <3>. QED
        BY <2>1, <3>1, <3>2
    <2>7. points[1].answered = Len(runs)
      BY <2>5, <2>6 DEF ThresholdList
    <2>8. \A i \in 2..Len(points) : points[i].answered <= points[i - 1].answered
      <3>1. Len(points) = 6
        BY <2>4
      <3>. SUFFICES ASSUME NEW i \in 2..6
                    PROVE  points[i].answered <= points[i - 1].answered
        BY <3>1
      <3>2. /\ i \in 1..6 /\ i - 1 \in 1..6
            /\ ThresholdList[i] \in Int /\ ThresholdList[i - 1] \in Int
            /\ ThresholdList[i - 1] <= ThresholdList[i]
        <4>1. i \in {2, 3, 4, 5, 6}
          OBVIOUS
        <4>. QED
          BY <4>1 DEF ThresholdList
      <3>3. of(ThresholdList[i]) <= of(ThresholdList[i - 1])
        BY <2>1, <3>2, HigherAnswersLess
      <3>. QED
        BY <2>5, <3>2, <3>3
    <2>9. Last(points).threshold = 100
      <3>1. Len(points) = 6
        BY <2>4
      <3>. QED
        BY <2>5, <3>1 DEF Last, ThresholdList
    <2>10. ASSUME NEW i \in DOMAIN runs, Answered(runs[i], 100)
           PROVE  runs[i].termination = "success" /\ runs[i].rejections = 0
      BY <2>2, <2>10, ConfidenceOfEach DEF Answered, Confidences
    <2>. QED
      BY <2>3, <2>7, <2>8, <2>9, <2>10 DEF CurveReachesBothEnds, points
  <1>2. ASSUME TriageAsks, asked.topic = "escalate"
        PROVE  EscalationCountsWhatItDrops
    <2>. DEFINE runs == asked.runs
                limit == asked.limit
    <2>1. runs \in Seq(Recorded) /\ Len(runs) \in Nat /\ limit \in Nat
      BY <1>2 DEF TriageAsks
    <2>. SUFFICES ASSUME NEW t \in Confidences
                  PROVE  LET report == Escalate(runs, asked.frontier, t, limit)
                             point == OperatingPoint(runs, t)
                         IN  /\ report.declined = point.total - point.answered
                             /\ report.wasCapped <=> report.escalated < report.declined
                             /\ report.converted <= report.escalated
      BY DEF EscalationCountsWhatItDrops
    <2>. DEFINE A == {i \in DOMAIN runs : Answered(runs[i], t)}
                D == {i \in DOMAIN runs : ~Answered(runs[i], t)}
                S == {i \in D : Cardinality({j \in D : j <= i}) <= limit}
                C == {i \in S : asked.frontier[i] /\ ~runs[i].correct}
                report == Escalate(runs, asked.frontier, t, limit)
                point == OperatingPoint(runs, t)
    <2>2. /\ report.declined = Cardinality(D) /\ report.escalated = Cardinality(S)
          /\ report.wasCapped <=> Cardinality(D) > limit
          /\ report.converted = Cardinality(C)
          /\ point.total = Len(runs) /\ point.answered = Cardinality(A)
      BY DEF Escalate, SelectForEscalation, OperatingPoint
    <2>3. /\ Cardinality(A) \in Nat /\ Cardinality(D) \in Nat
          /\ Cardinality(A) + Cardinality(D) = Len(runs) /\ D \in SUBSET (1..Len(runs))
      <3>1. t \in Int
        BY DEF Confidences
      <3>. QED
        BY <2>1, <3>1, DeclinedAndAnswered
    <2>. HIDE DEF A, D
    <2>4. IsFiniteSet(S) /\ (Cardinality(S) < Cardinality(D) <=> Cardinality(D) > limit)
      BY <2>1, <2>3, FirstOfThePlaces
    <2>5. C \in SUBSET S
      OBVIOUS
    <2>. HIDE DEF S, C, report, point
    <2>6. Cardinality(C) <= Cardinality(S)
      BY <2>4, <2>5, FS_Subset
    <2>7. /\ report.declined = point.total - point.answered
          /\ report.wasCapped <=> report.escalated < report.declined
          /\ report.converted <= report.escalated
      BY <2>1, <2>2, <2>3, <2>4, <2>6
    <2>. QED
      BY <2>7, Zenon DEF report, point
  <1>. QED
    BY <1>1, <1>2 DEF DeclinedAnswersAreCounted, DefaultAnswersWhatPassed, CurveReachesBothEnds,
                      EscalationCountsWhatItDrops

\* No other question is taken for one of triage.
LEMMA OthersAskOtherThings ==
    ASSUME AskAny \/ Again, ~AskAbstain, ~AskEscalate
    PROVE  asked'.topic \notin {"abstain", "escalate"}
  <1>1. ASSUME NEW topic, NEW question, Ask(topic, question)
        PROVE  asked'.topic = topic
    BY <1>1 DEF Ask
  <1>2. CASE Again
    BY <1>2 DEF Again, Idle
  <1>3. CASE AskRowsEqual \/ AskGroups \/ AskJudge
    BY <1>1, <1>3 DEF AskRowsEqual, AskGroups, AskJudge
  <1>4. CASE AskPattern
    BY <1>1, <1>4 DEF AskPattern
  <1>5. CASE AskSpread \/ AskCandidates
    BY <1>1, <1>5 DEF AskSpread, AskCandidates
  <1>6. CASE AskComplaints \/ AskVerdict \/ AskSurface
    BY <1>1, <1>6 DEF AskComplaints, AskVerdict, AskSurface
  <1>7. CASE AskTable \/ AskPair \/ AskTwins \/ AskSix
    BY <1>1, <1>7 DEF AskTable, AskPair, AskTwins, AskSix
  <1>8. CASE AskScreens
    BY <1>1, <1>8 DEF AskScreens
  <1>9. CASE AskLedgers \/ AskPreflight
    BY <1>1, <1>9 DEF AskLedgers, AskPreflight
  <1>. QED
    BY <1>2, <1>3, <1>4, <1>5, <1>6, <1>7, <1>8, <1>9 DEF AskAny

\* So it holds of whatever the system asks of triage.
THEOREM DeclinedAreCounted == Spec => []DeclinedAnswersAreCounted
  <1>1. Init => TriageAsks
    BY DEF Init, AskNothing, Idle, TriageAsks
  <1>2. TriageAsks /\ [Next]_<<asked, passVars>> => TriageAsks'
    <2>. SUFFICES ASSUME TriageAsks, [Next]_<<asked, passVars>>
                  PROVE  TriageAsks'
      OBVIOUS
    <2>1. CASE UNCHANGED asked
      BY <2>1 DEF TriageAsks
    <2>2. CASE AskAbstain
      <3>1. PICK r \in Recorded, s \in Recorded : Ask("abstain", [runs |-> <<r, s>>])
        BY <2>2 DEF AskAbstain
      <3>2. asked'.topic = "abstain" /\ asked'.runs = <<r, s>>
        BY <3>1 DEF Ask
      <3>. QED
        BY <3>2 DEF TriageAsks
    <2>3. CASE AskEscalate
      <3>1. PICK runs \in [1..3 -> {r \in Few : r.rejections = 1}], frontier \in [1..3 -> BOOLEAN],
                 limit \in 0..2 : Ask("escalate", [runs |-> runs, frontier |-> frontier, limit |-> limit])
        BY <2>3 DEF AskEscalate
      <3>2. /\ asked'.topic = "escalate" /\ asked'.runs = runs
            /\ asked'.frontier = frontier /\ asked'.limit = limit
        BY <3>1 DEF Ask
      <3>3. runs \in Seq(Recorded) /\ DOMAIN runs = 1..3
        <4>1. runs \in [1..3 -> Recorded] /\ 3 \in Nat
          BY DEF Few
        <4>2. runs \in UNION {[1..n -> Recorded] : n \in Nat}
          BY <4>1
        <4>. QED
          BY <4>1, <4>2, SeqDef, Zenon
      <3>. QED
        BY <3>2, <3>3 DEF TriageAsks
    <2>4. CASE (AskAny \/ Again) /\ ~AskAbstain /\ ~AskEscalate
      BY <2>4, OthersAskOtherThings DEF TriageAsks
    <2>. QED
      BY <2>1, <2>2, <2>3, <2>4 DEF Next
  <1>. QED
    BY <1>1, <1>2, TriageCounts, PTL DEF Spec

-----------------------------------------------------------------------------
(* Ledgers, of any calls: what calls cost, by place and in all.            *)

\* The calls a ledger of one role may hold: any tokens.
CallsTo(role) == [model : {role}, outcome : {"ok", "error"},
                  input : Nat, output : Nat, write : Nat, read : Nat]

AnyCall == CallsTo("worker") \cup CallsTo("frontier")

\* The tokens of a call, and its cost, are numbers.
LEMMA CallFields ==
    ASSUME NEW call \in AnyCall
    PROVE  /\ call.input \in Nat /\ call.output \in Nat /\ call.write \in Nat /\ call.read \in Nat
           /\ CostUsd(call) \in Nat /\ TotalTokens(call) \in Nat
           /\ call.model \in {"worker", "frontier"}
  BY DEF AnyCall, CallsTo, CostUsd, TotalTokens, Prices

\* The places of a ledger.
LEMMA PlacesAreFinite ==
    ASSUME NEW ledger \in Seq(AnyCall)
    PROVE  /\ IsFiniteSet(DOMAIN ledger) /\ Cardinality(DOMAIN ledger) = Len(ledger)
           /\ DOMAIN ledger = 1..Len(ledger) /\ Len(ledger) \in Nat
           /\ \A i \in DOMAIN ledger : ledger[i] \in AnyCall
  <1>1. Len(ledger) \in Nat /\ DOMAIN ledger = 1..Len(ledger)
    OBVIOUS
  <1>2. IsFiniteSet(1..Len(ledger)) /\ Cardinality(1..Len(ledger)) = Len(ledger)
    BY <1>1, FS_Interval
  <1>. QED
    BY <1>1, <1>2

\* The tokens of one kind in a ledger.
TokensOf(ledger, f) == SumFunction([i \in DOMAIN ledger |-> ledger[i][f]])

\* What the totals of a ledger are.
LEMMA TotalsByField ==
    ASSUME NEW ledger \in Seq(AnyCall)
    PROVE  /\ \A f \in {"input", "output", "write", "read"} :
                  Totals(ledger)[f] = TokensOf(ledger, f) /\ TokensOf(ledger, f) \in Nat
           /\ Totals(ledger).calls = Len(ledger)
           /\ Totals(ledger).total = TokensAt(ledger, DOMAIN ledger)
  <1>1. ASSUME NEW f \in {"input", "output", "write", "read"}
        PROVE  TokensOf(ledger, f) \in Nat
    <2>. DEFINE N == DOMAIN ledger
                g == [i \in N |-> ledger[i][f]]
    <2>1. IsFiniteSet(N) /\ \A i \in N : g[i] \in Nat
      BY PlacesAreFinite, CallFields
    <2>2. DOMAIN g = N
      OBVIOUS
    <2>. HIDE DEF g, N
    <2>3. SumFunctionOnSet(g, N) \in Nat
      BY <2>1, SumNat
    <2>. QED
      BY <2>2, <2>3 DEF TokensOf, SumFunction, g, N
  <1>. QED
    BY <1>1 DEF Totals, TokensOf

\* What a ledger costs is what its totals cost.
LEMMA CostOfTotals ==
    ASSUME NEW role \in {"worker", "frontier"}, NEW ledger \in Seq(CallsTo(role))
    PROVE  LET price == Prices[role]
               total == Totals(ledger)
           IN  LedgerCost(ledger) = price.input * total.input + price.output * total.output
                                       + price.write * total.write + price.read * total.read
  <1>. DEFINE N == DOMAIN ledger
              of(f) == [i \in N |-> ledger[i][f]]
              sum(f) == SumFunctionOnSet(of(f), N)
              a == Prices[role].input
              b == Prices[role].output
              c == Prices[role].write
              d == Prices[role].read
              fa == [i \in N |-> a * ledger[i].input]
              fb == [i \in N |-> b * ledger[i].output]
              fc == [i \in N |-> c * ledger[i].write]
              fd == [i \in N |-> d * ledger[i].read]
              ab == [i \in N |-> fa[i] + fb[i]]
              abc == [i \in N |-> ab[i] + fc[i]]
              cost == [i \in N |-> CostUsd(ledger[i])]
  <1>1. ledger \in Seq(AnyCall)
    BY DEF AnyCall
  <1>2. IsFiniteSet(N) /\ \A i \in N : ledger[i] \in CallsTo(role)
    BY <1>1, PlacesAreFinite
  <1>3. a \in Nat /\ b \in Nat /\ c \in Nat /\ d \in Nat
    BY DEF Prices
  <1>4. \A i \in N : CostUsd(ledger[i]) = a * ledger[i].input + b * ledger[i].output
                                          + c * ledger[i].write + d * ledger[i].read
    BY <1>2 DEF CostUsd, CallsTo
  <1>. HIDE DEF a, b, c, d
  <1>5. \A i \in N : /\ ledger[i].input \in Nat /\ ledger[i].output \in Nat
                     /\ ledger[i].write \in Nat /\ ledger[i].read \in Nat
    BY <1>2 DEF CallsTo
  <1>6. \A i \in N : fa[i] \in Nat /\ fb[i] \in Nat /\ fc[i] \in Nat /\ fd[i] \in Nat
    <2>1. \A x, y \in Nat : x * y \in Nat
      OBVIOUS
    <2>2. ASSUME NEW i \in N
          PROVE  fa[i] \in Nat /\ fb[i] \in Nat /\ fc[i] \in Nat /\ fd[i] \in Nat
      <3>1. /\ fa[i] = a * ledger[i].input /\ fb[i] = b * ledger[i].output
            /\ fc[i] = c * ledger[i].write /\ fd[i] = d * ledger[i].read
        OBVIOUS
      <3>. HIDE DEF fa, fb, fc, fd, N
      <3>. QED
        BY <1>3, <1>5, <2>1, <3>1, Zenon
    <2>. QED
      BY <2>2
  <1>7. /\ SumFunctionOnSet(fa, N) = a * sum("input")
        /\ SumFunctionOnSet(fb, N) = b * sum("output")
        /\ SumFunctionOnSet(fc, N) = c * sum("write")
        /\ SumFunctionOnSet(fd, N) = d * sum("read")
    <2>1. \A i \in N : of("input")[i] \in Nat /\ fa[i] = a * of("input")[i]
      BY <1>5
    <2>2. \A i \in N : of("output")[i] \in Nat /\ fb[i] = b * of("output")[i]
      BY <1>5
    <2>3. \A i \in N : of("write")[i] \in Nat /\ fc[i] = c * of("write")[i]
      BY <1>5
    <2>4. \A i \in N : of("read")[i] \in Nat /\ fd[i] = d * of("read")[i]
      BY <1>5
    <2>. HIDE DEF fa, fb, fc, fd, of, N
    <2>5. SumFunctionOnSet(fa, N) = a * sum("input")
      BY <1>2, <1>3, <2>1, SumTimes
    <2>6. SumFunctionOnSet(fb, N) = b * sum("output")
      BY <1>2, <1>3, <2>2, SumTimes
    <2>7. SumFunctionOnSet(fc, N) = c * sum("write")
      BY <1>2, <1>3, <2>3, SumTimes
    <2>8. SumFunctionOnSet(fd, N) = d * sum("read")
      BY <1>2, <1>3, <2>4, SumTimes
    <2>. QED
      BY <2>5, <2>6, <2>7, <2>8
  <1>8. /\ \A i \in N : ab[i] = fa[i] + fb[i] /\ ab[i] \in Nat
        /\ \A i \in N : abc[i] = ab[i] + fc[i] /\ abc[i] \in Nat
        /\ \A i \in N : cost[i] = abc[i] + fd[i]
    <2>1. \A i \in N : ab[i] = fa[i] + fb[i] /\ abc[i] = ab[i] + fc[i]
      OBVIOUS
    <2>2. \A i \in N : /\ fa[i] = a * ledger[i].input /\ fb[i] = b * ledger[i].output
                       /\ fc[i] = c * ledger[i].write /\ fd[i] = d * ledger[i].read
                       /\ cost[i] = CostUsd(ledger[i])
      OBVIOUS
    <2>. HIDE DEF fa, fb, fc, fd, ab, abc, cost, N
    <2>3. \A i \in N : cost[i] = fa[i] + fb[i] + fc[i] + fd[i]
      BY <1>4, <2>2
    <2>. QED
      BY <1>6, <2>1, <2>3
  <1>9. SumFunctionOnSet(cost, N) = a * sum("input") + b * sum("output")
                                       + c * sum("write") + d * sum("read")
    <2>. HIDE DEF fa, fb, fc, fd, ab, abc, cost, N, sum
    <2>1. SumFunctionOnSet(ab, N) = SumFunctionOnSet(fa, N) + SumFunctionOnSet(fb, N)
      BY <1>2, <1>6, <1>8, SumPlus
    <2>2. SumFunctionOnSet(abc, N) = SumFunctionOnSet(ab, N) + SumFunctionOnSet(fc, N)
      BY <1>2, <1>6, <1>8, SumPlus
    <2>3. SumFunctionOnSet(cost, N) = SumFunctionOnSet(abc, N) + SumFunctionOnSet(fd, N)
      BY <1>2, <1>6, <1>8, SumPlus
    <2>. QED
      BY <1>7, <2>1, <2>2, <2>3
  <1>10. LedgerCost(ledger) = SumFunctionOnSet(cost, N)
    BY DEF LedgerCost, CostAt, SumFunction
  <1>11. \A f \in {"input", "output", "write", "read"} : sum(f) = Totals(ledger)[f]
    <2>1. \A f \in {"input", "output", "write", "read"} : Totals(ledger)[f] = TokensOf(ledger, f)
      BY <1>1, TotalsByField
    <2>2. \A f \in {"input", "output", "write", "read"} : TokensOf(ledger, f) = sum(f)
      BY DEF TokensOf, SumFunction
    <2>. QED
      BY <2>1, <2>2
  <1>. HIDE DEF cost, sum
  <1>. QED
    BY <1>9, <1>10, <1>11 DEF a, b, c, d

\* A merged ledger costs what its parts do and has the tokens of both.
LEMMA MergedAddsUp ==
    ASSUME NEW s \in Seq(AnyCall), NEW t \in Seq(AnyCall)
    PROVE  /\ s \o t \in Seq(AnyCall)
           /\ LedgerCost(s \o t) = LedgerCost(s) + LedgerCost(t)
           /\ \A f \in {"input", "output", "write", "read"} :
                  TokensOf(s \o t, f) = TokensOf(s, f) + TokensOf(t, f)
  <1>. DEFINE u == s \o t
              n == Len(s)
              m == Len(t)
  <1>1. /\ u \in Seq(AnyCall) /\ n \in Nat /\ m \in Nat /\ Len(u) = n + m
        /\ \A i \in 1..n : u[i] = s[i]
        /\ \A i \in 1..m : u[n + i] = t[i]
    OBVIOUS
  <1>2. /\ DOMAIN u = 1..(n + m) /\ DOMAIN s = 1..n /\ DOMAIN t = 1..m
        /\ \A i \in 1..(n + m) : u[i] \in AnyCall
        /\ \A i \in 1..m : n + i \in 1..(n + m)
        /\ \A i \in 1..n : i \in 1..(n + m)
    OBVIOUS
  <1>. HIDE DEF u, n, m
  <1>3. LedgerCost(u) = LedgerCost(s) + LedgerCost(t)
    <2>. DEFINE fu == [i \in 1..(n + m) |-> CostUsd(u[i])]
                fs == [i \in 1..n |-> CostUsd(s[i])]
                ft == [i \in 1..m |-> CostUsd(t[i])]
    <2>1. \A i \in 1..(n + m) : fu[i] \in Nat
      BY <1>2, CallFields
    <2>2. \A i \in 1..m : ft[i] = fu[n + i]
      BY <1>1, <1>2
    <2>3. \A i \in 1..n : fs[i] = fu[i]
      BY <1>1, <1>2
    <2>4. /\ LedgerCost(u) = SumFunctionOnSet(fu, 1..(n + m))
          /\ LedgerCost(s) = SumFunctionOnSet(fs, 1..n)
          /\ LedgerCost(t) = SumFunctionOnSet(ft, 1..m)
      BY <1>2 DEF LedgerCost, CostAt, SumFunction
    <2>. HIDE DEF fu, fs, ft
    <2>5. SumFunctionOnSet(fu, 1..(n + m)) = SumFunctionOnSet(fu, 1..n) + SumFunctionOnSet(ft, 1..m)
      BY <1>1, <2>1, <2>2, SumConcat
    <2>6. SumFunctionOnSet(fs, 1..n) = SumFunctionOnSet(fu, 1..n)
      <3>1. IsFiniteSet(1..n)
        BY <1>1, FS_Interval
      <3>. QED
        BY <2>3, <3>1, SumSame
    <2>. QED
      BY <2>4, <2>5, <2>6
  <1>4. ASSUME NEW f \in {"input", "output", "write", "read"}
        PROVE  TokensOf(u, f) = TokensOf(s, f) + TokensOf(t, f)
    <2>. DEFINE fu == [i \in 1..(n + m) |-> u[i][f]]
                fs == [i \in 1..n |-> s[i][f]]
                ft == [i \in 1..m |-> t[i][f]]
    <2>1. \A i \in 1..(n + m) : fu[i] \in Nat
      BY <1>2, CallFields
    <2>2. \A i \in 1..m : ft[i] = fu[n + i]
      BY <1>1, <1>2
    <2>3. \A i \in 1..n : fs[i] = fu[i]
      BY <1>1, <1>2
    <2>4. /\ TokensOf(u, f) = SumFunctionOnSet(fu, 1..(n + m))
          /\ TokensOf(s, f) = SumFunctionOnSet(fs, 1..n)
          /\ TokensOf(t, f) = SumFunctionOnSet(ft, 1..m)
      BY <1>2 DEF TokensOf, SumFunction
    <2>. HIDE DEF fu, fs, ft
    <2>5. SumFunctionOnSet(fu, 1..(n + m)) = SumFunctionOnSet(fu, 1..n) + SumFunctionOnSet(ft, 1..m)
      BY <1>1, <2>1, <2>2, SumConcat
    <2>6. SumFunctionOnSet(fs, 1..n) = SumFunctionOnSet(fu, 1..n)
      <3>1. IsFiniteSet(1..n)
        BY <1>1, FS_Interval
      <3>. QED
        BY <2>3, <3>1, SumSame
    <2>. QED
      BY <2>4, <2>5, <2>6
  <1>. QED
    BY <1>1, <1>3, <1>4 DEF u

\* By model and by outcome, each call is counted once.
LEMMA ViewsPartition ==
    ASSUME NEW ledger \in Seq(AnyCall)
    PROVE  LET models == ByModel(ledger)
               outcomes == ByOutcome(ledger)
               over(field) == SumFunction([m \in DOMAIN models |-> models[m][field]])
           IN  /\ over("cost") = LedgerCost(ledger) /\ over("calls") = Len(ledger)
               /\ over("total") = Totals(ledger).total
               /\ SumFunction(outcomes) = Len(ledger)
  <1>. DEFINE N == DOMAIN ledger
              model == [i \in N |-> ledger[i].model]
              outcome == [i \in N |-> ledger[i].outcome]
              one == [i \in N |-> 1]
              cost == [i \in N |-> CostUsd(ledger[i])]
              tokens == [i \in N |-> TotalTokens(ledger[i])]
              M == {ledger[i].model : i \in N}
              O == {ledger[i].outcome : i \in N}
  <1>1. IsFiniteSet(N) /\ Cardinality(N) = Len(ledger) /\ \A i \in N : ledger[i] \in AnyCall
    BY PlacesAreFinite
  <1>2. IsFiniteSet(M) /\ IsFiniteSet(O)
    <2>1. M \in SUBSET {"worker", "frontier"} /\ O \in SUBSET {"ok", "error"}
      BY <1>1 DEF AnyCall, CallsTo
    <2>2. IsFiniteSet({"worker", "frontier"}) /\ IsFiniteSet({"ok", "error"})
      BY TwoAreFew
    <2>. HIDE DEF M, O
    <2>. QED
      BY <2>1, <2>2, FS_Subset
  <1>3. /\ \A i \in N : model[i] \in M /\ outcome[i] \in O /\ one[i] = 1
        /\ \A i \in N : one[i] \in Nat /\ cost[i] \in Nat /\ tokens[i] \in Nat
    BY <1>1, CallFields
  <1>4. /\ \A m \in M : Under(N, model, m) = {i \in N : ledger[i].model = m}
        /\ \A o \in O : Under(N, outcome, o) = {i \in N : ledger[i].outcome = o}
    BY DEF Under
  <1>5. ASSUME NEW U \in SUBSET N
        PROVE  /\ IsFiniteSet(U) /\ SumFunctionOnSet(one, U) = Cardinality(U)
               /\ CostAt(ledger, U) = SumFunctionOnSet(cost, U)
               /\ TokensAt(ledger, U) = SumFunctionOnSet(tokens, U)
    <2>1. IsFiniteSet(U)
      <3>. HIDE DEF N
      <3>. QED
        BY <1>1, FS_Subset
    <2>. DEFINE c == [i \in U |-> CostUsd(ledger[i])]
                t == [i \in U |-> TotalTokens(ledger[i])]
    <2>2. CostAt(ledger, U) = SumFunctionOnSet(c, U) /\ TokensAt(ledger, U) = SumFunctionOnSet(t, U)
      BY DEF CostAt, TokensAt, SumFunction
    <2>3. \A i \in U : c[i] = cost[i] /\ t[i] = tokens[i] /\ one[i] = 1
      OBVIOUS
    <2>. HIDE DEF c, t, cost, tokens, one, N
    <2>4. SumFunctionOnSet(c, U) = SumFunctionOnSet(cost, U)
      BY <2>1, <2>3, SumSame
    <2>5. SumFunctionOnSet(t, U) = SumFunctionOnSet(tokens, U)
      BY <2>1, <2>3, SumSame
    <2>6. SumFunctionOnSet(one, U) = Cardinality(U)
      BY <2>1, <2>3, SumCounts
    <2>. QED
      BY <2>1, <2>2, <2>4, <2>5, <2>6
  <1>. DEFINE models == ByModel(ledger)
              outcomes == ByOutcome(ledger)
              calls == [m \in M |-> models[m].calls]
              costs == [m \in M |-> models[m].cost]
              totals == [m \in M |-> models[m].total]
  <1>6. /\ DOMAIN models = M
        /\ \A m \in M : /\ calls[m] = SumFunctionOnSet(one, Under(N, model, m))
                        /\ costs[m] = SumFunctionOnSet(cost, Under(N, model, m))
                        /\ totals[m] = SumFunctionOnSet(tokens, Under(N, model, m))
    <2>1. DOMAIN models = M
      BY DEF ByModel
    <2>2. ASSUME NEW m \in M
          PROVE  LET its == {i \in N : ledger[i].model = m}
                 IN  /\ models[m].calls = Cardinality(its) /\ models[m].cost = CostAt(ledger, its)
                     /\ models[m].total = TokensAt(ledger, its)
      BY DEF ByModel
    <2>. HIDE DEF models, M, one, cost, tokens, N
    <2>. QED
      BY <1>4, <1>5, <2>1, <2>2
  <1>7. /\ DOMAIN outcomes = O
        /\ \A o \in O : outcomes[o] = SumFunctionOnSet(one, Under(N, outcome, o))
    <2>1. DOMAIN outcomes = O /\ \A o \in O : outcomes[o] = Cardinality({i \in N : ledger[i].outcome = o})
      BY DEF ByOutcome
    <2>. HIDE DEF outcomes, O, one, N
    <2>. QED
      BY <1>4, <1>5, <2>1
  <1>8. /\ LedgerCost(ledger) = SumFunctionOnSet(cost, N)
        /\ Totals(ledger).total = SumFunctionOnSet(tokens, N)
        /\ Len(ledger) = SumFunctionOnSet(one, N)
    <2>1. N \in SUBSET N
      OBVIOUS
    <2>2. LedgerCost(ledger) = CostAt(ledger, N) /\ Totals(ledger).total = TokensAt(ledger, N)
      BY DEF LedgerCost, Totals
    <2>. HIDE DEF N, one, cost, tokens
    <2>. QED
      BY <1>1, <1>5, <2>1, <2>2
  <1>9. /\ SumFunction([m \in DOMAIN models |-> models[m]["cost"]]) = SumFunctionOnSet(costs, M)
        /\ SumFunction([m \in DOMAIN models |-> models[m]["calls"]]) = SumFunctionOnSet(calls, M)
        /\ SumFunction([m \in DOMAIN models |-> models[m]["total"]]) = SumFunctionOnSet(totals, M)
        /\ SumFunction(outcomes) = SumFunctionOnSet(outcomes, O)
    <2>. HIDE DEF models, M, O, outcomes
    <2>. QED
      BY <1>6, <1>7 DEF SumFunction
  <1>. HIDE DEF N, M, O, model, outcome, one, cost, tokens, calls, costs, totals, outcomes, models
  <1>10. SumFunctionOnSet(costs, M) = SumFunctionOnSet(cost, N)
    <2>1. \A i \in N : cost[i] \in Nat /\ model[i] \in M
      BY <1>3
    <2>2. \A m \in M : costs[m] = SumFunctionOnSet(cost, Under(N, model, m))
      BY <1>6
    <2>. QED
      BY <1>1, <1>2, <2>1, <2>2, SumByKey
  <1>11. SumFunctionOnSet(calls, M) = SumFunctionOnSet(one, N)
    <2>1. \A i \in N : one[i] \in Nat /\ model[i] \in M
      BY <1>3
    <2>2. \A m \in M : calls[m] = SumFunctionOnSet(one, Under(N, model, m))
      BY <1>6
    <2>. QED
      BY <1>1, <1>2, <2>1, <2>2, SumByKey
  <1>12. SumFunctionOnSet(totals, M) = SumFunctionOnSet(tokens, N)
    <2>1. \A i \in N : tokens[i] \in Nat /\ model[i] \in M
      BY <1>3
    <2>2. \A m \in M : totals[m] = SumFunctionOnSet(tokens, Under(N, model, m))
      BY <1>6
    <2>. QED
      BY <1>1, <1>2, <2>1, <2>2, SumByKey
  <1>13. SumFunctionOnSet(outcomes, O) = SumFunctionOnSet(one, N)
    <2>1. ASSUME NEW K, IsFiniteSet(K), NEW key, NEW g,
                 \A i \in N : one[i] \in Nat /\ key[i] \in K,
                 \A m \in K : g[m] = SumFunctionOnSet(one, Under(N, key, m))
          PROVE  SumFunctionOnSet(g, K) = SumFunctionOnSet(one, N)
      BY <1>1, <2>1, SumByKey
    <2>2. \A i \in N : one[i] \in Nat /\ outcome[i] \in O
      BY <1>3
    <2>3. \A o \in O : outcomes[o] = SumFunctionOnSet(one, Under(N, outcome, o))
      BY <1>7
    <2>. QED
      BY <1>2, <2>1, <2>2, <2>3
  <1>. QED
    BY <1>8, <1>9, <1>10, <1>11, <1>12, <1>13 DEF models, outcomes

-----------------------------------------------------------------------------
(* What is asked of ledgers.                                               *)

\* What is asked about ledgers: two cells with any calls to their role, none of which used
\* the cache unless the cell's prefix may be cached; and any place and warehouses.
LedgerAsks ==
    /\ asked.topic = "ledgers" =>
           /\ asked.measured \in {Measured, <<>>} /\ asked.cells = <<asked.cells[1], asked.cells[2]>>
           /\ \A c \in {1, 2} :
                  /\ asked.cells[c].role \in {"worker", "frontier"}
                  /\ asked.cells[c].level \in {"L0", "L3"}
                  /\ asked.cells[c].calls \in Seq(CallsTo(asked.cells[c].role))
                  /\ ~PrefixIsCacheable(asked.cells[c].role, asked.cells[c].level, asked.measured) =>
                         \A i \in DOMAIN asked.cells[c].calls :
                             asked.cells[c].calls[i].write = 0 /\ asked.cells[c].calls[i].read = 0
    /\ asked.topic = "preflight" =>
           /\ asked.place = [key |-> asked.place.key, configured |-> asked.place.configured,
                             answers |-> asked.place.answers, surface |-> asked.place.surface]
           /\ asked.place.key \in BOOLEAN /\ asked.place.configured \in BOOLEAN
           /\ asked.place.surface \in BOOLEAN
           /\ asked.warehouses \in [BOOLEAN -> [builds : BOOLEAN, gold : BOOLEAN]]

\* The ledgers of the two cells and their merger.
LEMMA TwoCells ==
    ASSUME LedgerAsks, asked.topic = "ledgers"
    PROVE  /\ DOMAIN Asked = {1, 2}
           /\ \A c \in {1, 2} : Asked[c].calls \in Seq(AnyCall)
           /\ Spent = Asked[1].calls \o Asked[2].calls
           /\ Spent \in Seq(AnyCall)
           /\ LedgerCost(Spent) = LedgerCost(Asked[1].calls) + LedgerCost(Asked[2].calls)
           /\ \A f \in {"input", "output", "write", "read"} :
                  Totals(Spent)[f] = Totals(Asked[1].calls)[f] + Totals(Asked[2].calls)[f]
  <1>. DEFINE s == Asked[1].calls
              t == Asked[2].calls
              both == [c \in DOMAIN Asked |-> Asked[c].calls]
  <1>1. Asked = <<Asked[1], Asked[2]>>
    BY DEF LedgerAsks, Asked
  <1>2. DOMAIN Asked = {1, 2}
    BY <1>1
  <1>3. s \in Seq(AnyCall) /\ t \in Seq(AnyCall)
    <2>1. \A c \in {1, 2} : /\ Asked[c].calls \in Seq(CallsTo(Asked[c].role))
                            /\ Asked[c].role \in {"worker", "frontier"}
      BY DEF LedgerAsks, Asked
    <2>2. \A role \in {"worker", "frontier"} : Seq(CallsTo(role)) \subseteq Seq(AnyCall)
      BY DEF AnyCall
    <2>. QED
      BY <2>1, <2>2
  <1>4. both = <<s, t>>
    <2>1. both = [c \in {1, 2} |-> Asked[c].calls]
      BY <1>2
    <2>2. {1, 2} = 1..2
      OBVIOUS
    <2>3. <<s, t>> = [c \in 1..2 |-> Asked[c].calls]
      BY <2>2
    <2>. QED
      BY <2>1, <2>2, <2>3
  <1>5. Spent = s \o t
    <2>1. Spent = FlattenSeq(both)
      BY DEF Spent, MergeLedgers
    <2>. HIDE DEF both, s, t
    <2>. QED
      BY <1>4, <2>1, MergedIsConcatenated
  <1>. HIDE DEF s, t
  <1>6. /\ Spent \in Seq(AnyCall) /\ LedgerCost(Spent) = LedgerCost(s) + LedgerCost(t)
        /\ \A f \in {"input", "output", "write", "read"} :
               TokensOf(Spent, f) = TokensOf(s, f) + TokensOf(t, f)
    BY <1>3, <1>5, MergedAddsUp
  <1>7. \A f \in {"input", "output", "write", "read"} :
            Totals(Spent)[f] = Totals(s)[f] + Totals(t)[f]
    <2>1. \A f \in {"input", "output", "write", "read"} :
              /\ Totals(Spent)[f] = TokensOf(Spent, f)
              /\ Totals(s)[f] = TokensOf(s, f) /\ Totals(t)[f] = TokensOf(t, f)
      BY <1>3, <1>6, TotalsByField
    <2>. QED
      BY <1>6, <2>1
  <1>. QED
    BY <1>2, <1>3, <1>5, <1>6, <1>7 DEF s, t

\* A ledger without one of its calls, or with one twice, does not reconcile.
LEMMA LostCallsShow ==
    ASSUME LedgerAsks
    PROVE  LostCallsDoNotReconcile
  <1>. SUFFICES ASSUME asked.topic = "ledgers"
                PROVE  /\ Mismatches(Spent, Totals(Spent)) = {}
                       /\ \A i \in DOMAIN Spent :
                              /\ Mismatches(RemoveAt(Spent, i), Totals(Spent)) # {}
                              /\ Mismatches(Append(Spent, Spent[i]), Totals(Spent)) # {}
    BY DEF LostCallsDoNotReconcile
  <1>1. Spent \in Seq(AnyCall)
    BY TwoCells
  <1>. DEFINE all == Totals(Spent)
  <1>2. Mismatches(Spent, all) = {}
    BY DEF Mismatches
  <1>3. \A ledger : Totals(ledger).calls = Len(ledger) /\ "calls" \in DOMAIN Totals(ledger)
    BY DEF Totals
  <1>4. ASSUME NEW ledger, Len(ledger) # Len(Spent)
        PROVE  Mismatches(ledger, all) # {}
    BY <1>3, <1>4 DEF Mismatches
  <1>5. ASSUME NEW i \in DOMAIN Spent
        PROVE  /\ Len(RemoveAt(Spent, i)) # Len(Spent)
               /\ Len(Append(Spent, Spent[i])) # Len(Spent)
    <2>1. /\ Len(Spent) \in Nat /\ i \in 1..Len(Spent) /\ Spent[i] \in AnyCall
          /\ Len(Append(Spent, Spent[i])) = Len(Spent) + 1
      BY <1>1
    <2>2. Len(RemoveAt(Spent, i)) = Len(Spent) - 1
      <3>. DEFINE before == SubSeq(Spent, 1, i - 1)
                  after == SubSeq(Spent, i + 1, Len(Spent))
      <3>1. /\ before \in Seq(AnyCall) /\ after \in Seq(AnyCall)
            /\ Len(before) = i - 1 /\ Len(after) = Len(Spent) - i
        BY <1>1, <2>1
      <3>2. RemoveAt(Spent, i) = before \o after
        BY DEF RemoveAt
      <3>. HIDE DEF before, after
      <3>. QED
        BY <2>1, <3>1, <3>2
    <2>. QED
      BY <2>1, <2>2
  <1>. QED
    BY <1>2, <1>4, <1>5

\* The views of the two ledgers and of all that was spent agree.
LEMMA ViewsAgree ==
    ASSUME LedgerAsks
    PROVE  ViewsOfALedgerAgree
  <1>. SUFFICES ASSUME asked.topic = "ledgers"
                PROVE  ViewsOfALedgerAgree
    BY DEF ViewsOfALedgerAgree
  <1>1. /\ Spent \in Seq(AnyCall)
        /\ LedgerCost(Asked[1].calls) + LedgerCost(Asked[2].calls) = LedgerCost(Spent)
    BY TwoCells
  <1>. QED
    BY <1>1, ViewsPartition DEF ViewsOfALedgerAgree

\* The marker is on the prompt, if it is anywhere, and what the model reads is the same.
LEMMA MarkingIsPlain ==
    ASSUME LedgerAsks
    PROVE  MarkingLeavesThePromptAlone
  <1>. SUFFICES ASSUME asked.topic = "ledgers", NEW c \in DOMAIN Asked
                PROVE  LET content == UserContent(Asked[c].role, Asked[c].level, asked.measured)
                       IN  /\ FlattenSeq([i \in DOMAIN content |-> content[i].text])
                                 = <<"prompt", "question">>
                           /\ \A i \in DOMAIN content :
                                  content[i].marked => content[i].text = <<"prompt">>
    BY DEF MarkingLeavesThePromptAlone
  <1>. DEFINE content == UserContent(Asked[c].role, Asked[c].level, asked.measured)
              texts == [i \in DOMAIN content |-> content[i].text]
              two == <<[marked |-> TRUE, text |-> <<"prompt">>],
                       [marked |-> FALSE, text |-> <<"question">>]>>
              one == <<[marked |-> FALSE, text |-> <<"prompt", "question">>]>>
  <1>1. content = two \/ content = one
    BY DEF UserContent
  <1>2. CASE content = two
    <2>1. DOMAIN content = 1..2 /\ content[1].text = <<"prompt">> /\ content[2].text = <<"question">>
      BY <1>2
    <2>2. content[2].marked = FALSE
      BY <1>2
    <2>3. texts = <<<<"prompt">>, <<"question">>>>
      <3>. HIDE DEF content
      <3>. QED
        BY <2>1
    <2>. HIDE DEF texts, content
    <2>4. FlattenSeq(texts) = <<"prompt">> \o <<"question">>
      BY <2>3, MergedIsConcatenated
    <2>5. <<"prompt">> \o <<"question">> = <<"prompt", "question">>
      <3>. DEFINE S == {"prompt", "question"}
      <3>1. "prompt" \in S /\ "question" \in S
        OBVIOUS
      <3>. HIDE DEF S
      <3>. QED
        BY <3>1, TwoOnes
    <2>6. \A i \in DOMAIN content : content[i].marked => content[i].text = <<"prompt">>
      BY <2>1, <2>2
    <2>. QED
      BY <2>4, <2>5, <2>6 DEF texts, content
  <1>3. CASE content = one
    <2>1. DOMAIN content = 1..1 /\ content[1].text = <<"prompt", "question">>
      BY <1>3
    <2>2. content[1].marked = FALSE
      BY <1>3
    <2>3. texts = <<<<"prompt", "question">>>>
      <3>. HIDE DEF content
      <3>. QED
        BY <2>1
    <2>. HIDE DEF texts, content
    <2>4. FlattenSeq(texts) = <<"prompt", "question">>
      BY <2>3, OnlyOneIsItself
    <2>5. \A i \in DOMAIN content : content[i].marked => content[i].text = <<"prompt">>
      BY <2>1, <2>2
    <2>. QED
      BY <2>4, <2>5 DEF texts, content
  <1>. QED
    BY <1>1, <1>2, <1>3

-----------------------------------------------------------------------------
(* What caching saved.                                                     *)

\* A call as it would be with its prefix paid for as plain input.
Uncached(call) == [call EXCEPT !.input = call.input + call.write + call.read,
                               !.write = 0, !.read = 0]

\* What a ledger of such calls costs.
LEMMA UncachedCost ==
    ASSUME NEW role \in {"worker", "frontier"}, NEW ledger \in Seq(CallsTo(role))
    PROVE  LET price == Prices[role]
               total == Totals(ledger)
           IN  LedgerCost([i \in DOMAIN ledger |-> Uncached(ledger[i])])
                   = price.input * (total.input + total.write + total.read)
                        + price.output * total.output
  <1>. DEFINE N == DOMAIN ledger
              plain == [i \in N |-> Uncached(ledger[i])]
              of(f) == [i \in N |-> ledger[i][f]]
              now(f) == [i \in N |-> plain[i][f]]
              iw == [i \in N |-> ledger[i].input + ledger[i].write]
  <1>1. /\ ledger \in Seq(AnyCall) /\ Len(ledger) \in Nat /\ N = 1..Len(ledger)
        /\ \A i \in N : ledger[i] \in CallsTo(role)
    BY DEF AnyCall
  <1>2. ASSUME NEW i \in N
        PROVE  /\ ledger[i].input \in Nat /\ ledger[i].output \in Nat
               /\ ledger[i].write \in Nat /\ ledger[i].read \in Nat
               /\ plain[i] \in CallsTo(role)
               /\ plain[i].input = ledger[i].input + ledger[i].write + ledger[i].read
               /\ plain[i].output = ledger[i].output /\ plain[i].write = 0 /\ plain[i].read = 0
    <2>. DEFINE call == ledger[i]
    <2>1. /\ call \in CallsTo(role)
          /\ plain[i] = [call EXCEPT !.input = call.input + call.write + call.read,
                                     !.write = 0, !.read = 0]
      BY <1>1 DEF Uncached
    <2>. HIDE DEF call, plain
    <2>2. /\ call.input \in Nat /\ call.output \in Nat /\ call.write \in Nat /\ call.read \in Nat
          /\ call.model = role /\ call.outcome \in {"ok", "error"}
      BY <2>1 DEF CallsTo
    <2>3. plain[i] = [model |-> role, outcome |-> call.outcome,
                      input |-> call.input + call.write + call.read,
                      output |-> call.output, write |-> 0, read |-> 0]
      BY <2>1, <2>2 DEF CallsTo
    <2>4. plain[i] \in CallsTo(role)
      <3>. DEFINE n == call.input + call.write + call.read
                  out == call.output
                  ended == call.outcome
      <3>1. n \in Nat /\ out \in Nat /\ ended \in {"ok", "error"} /\ 0 \in Nat
        BY <2>2
      <3>. HIDE DEF n, out, ended
      <3>2. [model |-> role, outcome |-> ended, input |-> n, output |-> out,
             write |-> 0, read |-> 0] \in CallsTo(role)
        BY <3>1 DEF CallsTo
      <3>. QED
        BY <2>3, <3>2 DEF n, out, ended
    <2>. QED
      BY <2>2, <2>3, <2>4 DEF call
  <1>3. plain \in Seq(CallsTo(role)) /\ plain \in Seq(AnyCall) /\ DOMAIN plain = N
    <2>1. DOMAIN plain = N
      OBVIOUS
    <2>2. \A i \in 1..Len(ledger) : plain[i] \in CallsTo(role)
      BY <1>1, <1>2
    <2>3. plain = [i \in 1..Len(ledger) |-> plain[i]]
      BY <1>1
    <2>. HIDE DEF plain, N
    <2>4. plain \in Seq(CallsTo(role))
      BY <1>1, <2>2, <2>3
    <2>. QED
      BY <2>1, <2>4 DEF AnyCall
  <1>4. IsFiniteSet(N)
    BY <1>1, FS_Interval
  <1>5. \A i \in N : /\ iw[i] = of("input")[i] + of("write")[i] /\ iw[i] \in Nat
                     /\ of("input")[i] \in Nat /\ of("write")[i] \in Nat
                     /\ of("read")[i] \in Nat
                     /\ now("input")[i] = iw[i] + of("read")[i]
                     /\ now("output")[i] = of("output")[i]
                     /\ now("write")[i] = 0 /\ now("read")[i] = 0
    <2>. SUFFICES ASSUME NEW i \in N
                  PROVE  /\ iw[i] = of("input")[i] + of("write")[i] /\ iw[i] \in Nat
                         /\ of("input")[i] \in Nat /\ of("write")[i] \in Nat
                         /\ of("read")[i] \in Nat
                         /\ now("input")[i] = iw[i] + of("read")[i]
                         /\ now("output")[i] = of("output")[i]
                         /\ now("write")[i] = 0 /\ now("read")[i] = 0
      OBVIOUS
    <2>1. /\ iw[i] = ledger[i].input + ledger[i].write
          /\ \A f : of(f)[i] = ledger[i][f] /\ now(f)[i] = plain[i][f]
      OBVIOUS
    <2>. HIDE DEF plain, N, of, now, iw
    <2>. QED
      BY <1>2, <2>1
  <1>6. \A f \in {"input", "output", "write", "read"} :
            /\ Totals(ledger)[f] = SumFunctionOnSet(of(f), N)
            /\ Totals(ledger)[f] \in Nat
            /\ Totals(plain)[f] = SumFunctionOnSet(now(f), N)
    <2>1. \A f \in {"input", "output", "write", "read"} :
              /\ Totals(ledger)[f] = TokensOf(ledger, f) /\ TokensOf(ledger, f) \in Nat
              /\ Totals(plain)[f] = TokensOf(plain, f)
      BY <1>1, <1>3, TotalsByField
    <2>. HIDE DEF plain
    <2>2. \A f \in {"input", "output", "write", "read"} :
              /\ TokensOf(ledger, f) = SumFunctionOnSet(of(f), N)
              /\ TokensOf(plain, f) = SumFunctionOnSet(now(f), N)
      BY <1>3 DEF TokensOf, SumFunction
    <2>. QED
      BY <2>1, <2>2
  <1>7. /\ SumFunctionOnSet(iw, N) = SumFunctionOnSet(of("input"), N) + SumFunctionOnSet(of("write"), N)
        /\ SumFunctionOnSet(now("input"), N) = SumFunctionOnSet(iw, N) + SumFunctionOnSet(of("read"), N)
        /\ SumFunctionOnSet(now("output"), N) = SumFunctionOnSet(of("output"), N)
        /\ SumFunctionOnSet(now("write"), N) = 0 /\ SumFunctionOnSet(now("read"), N) = 0
    <2>. HIDE DEF plain, N, of, now, iw
    <2>1. SumFunctionOnSet(iw, N) = SumFunctionOnSet(of("input"), N) + SumFunctionOnSet(of("write"), N)
      BY <1>4, <1>5, SumPlus
    <2>2. SumFunctionOnSet(now("input"), N) = SumFunctionOnSet(iw, N) + SumFunctionOnSet(of("read"), N)
      BY <1>4, <1>5, SumPlus
    <2>3. SumFunctionOnSet(now("output"), N) = SumFunctionOnSet(of("output"), N)
      BY <1>4, <1>5, SumSame
    <2>4. SumFunctionOnSet(now("write"), N) = 0
      BY <1>4, <1>5, SumZero
    <2>5. SumFunctionOnSet(now("read"), N) = 0
      BY <1>4, <1>5, SumZero
    <2>. QED
      BY <2>1, <2>2, <2>3, <2>4, <2>5
  <1>8. LedgerCost(plain) = Prices[role].input * Totals(plain).input
                               + Prices[role].output * Totals(plain).output
                               + Prices[role].write * Totals(plain).write
                               + Prices[role].read * Totals(plain).read
    <2>. HIDE DEF plain
    <2>. QED
      BY <1>3, CostOfTotals
  <1>9. /\ Totals(plain).input = Totals(ledger).input + Totals(ledger).write + Totals(ledger).read
        /\ Totals(plain).output = Totals(ledger).output
        /\ Totals(plain).write = 0 /\ Totals(plain).read = 0
    <2>. HIDE DEF plain, N, of, now, iw
    <2>. QED
      BY <1>6, <1>7
  <1>10. LedgerCost(plain) = Prices[role].input * (Totals(ledger).input + Totals(ledger).write
                                                    + Totals(ledger).read)
                               + Prices[role].output * Totals(ledger).output
    <2>. DEFINE a == Prices[role].write
                b == Prices[role].read
    <2>1. a \in Nat /\ b \in Nat /\ Prices[role].input \in Nat /\ Prices[role].output \in Nat
      BY DEF Prices
    <2>2. a * 0 = 0 /\ b * 0 = 0
      <3>. HIDE DEF a, b
      <3>. QED
        BY <2>1
    <2>3. LedgerCost(plain) = Prices[role].input * Totals(plain).input
                               + Prices[role].output * Totals(plain).output + a * 0 + b * 0
      BY <1>8, <1>9
    <2>4. Totals(plain).input \in Nat /\ Totals(plain).output \in Nat
      BY <1>6, <1>9
    <2>5. /\ Prices[role].input * Totals(plain).input \in Nat
          /\ Prices[role].output * Totals(plain).output \in Nat
      BY <2>1, <2>4
    <2>. HIDE DEF plain, a, b
    <2>6. LedgerCost(plain) = Prices[role].input * Totals(plain).input
                               + Prices[role].output * Totals(plain).output
      BY <2>2, <2>3, <2>5
    <2>. QED
      BY <1>9, <2>6
  <1>. QED
    BY <1>10

\* A ledger that could not be cached has neither written to the cache nor read from it.
LEMMA NothingCached ==
    ASSUME NEW ledger \in Seq(AnyCall),
           \A i \in DOMAIN ledger : ledger[i].write = 0 /\ ledger[i].read = 0
    PROVE  Totals(ledger).write = 0 /\ Totals(ledger).read = 0
  <1>. DEFINE N == DOMAIN ledger
              w == [i \in N |-> ledger[i].write]
              r == [i \in N |-> ledger[i].read]
  <1>1. IsFiniteSet(N) /\ \A i \in N : w[i] = 0 /\ r[i] = 0
    BY PlacesAreFinite
  <1>2. TokensOf(ledger, "write") = SumFunctionOnSet(w, N) /\ TokensOf(ledger, "read") = SumFunctionOnSet(r, N)
    BY DEF TokensOf, SumFunction
  <1>. HIDE DEF N, w, r
  <1>3. SumFunctionOnSet(w, N) = 0 /\ SumFunctionOnSet(r, N) = 0
    BY <1>1, SumZero
  <1>. QED
    BY <1>2, <1>3, TotalsByField

\* Of the roles and levels there are, and by what was measured or nothing, only the prefix of
\* the frontier at L3 may be cached.
LEMMA OnlyTheLongestPrefix ==
    ASSUME NEW role \in {"worker", "frontier"}, NEW level \in {"L0", "L3"},
           NEW measured \in {Measured, <<>>}, PrefixIsCacheable(role, level, measured)
    PROVE  role = "frontier" /\ level = "L3" /\ measured # <<>>
  <1>1. measured # <<>>
    <2>1. DOMAIN <<>> = {}
      OBVIOUS
    <2>. QED
      BY <2>1 DEF PrefixIsCacheable
  <1>2. measured = Measured
    BY <1>1
  <1>3. Measured[role][level] >= Measured[role].minimum
    BY <1>2 DEF PrefixIsCacheable
  <1>4. role = "frontier" /\ level = "L3"
    BY <1>3 DEF Measured
  <1>. QED
    BY <1>1, <1>4

\* What a cell's ledger would have cost uncached, less what it cost, is what caching saved.
LEMMA WhatCachingSaved ==
    ASSUME NEW role \in {"worker", "frontier"}, NEW ledger \in Seq(CallsTo(role))
    PROVE  LET total == Totals(ledger)
               plain == LedgerCost([i \in DOMAIN ledger |-> Uncached(ledger[i])])
               saved == plain - LedgerCost(ledger)
           IN  /\ total.read \in Nat /\ total.write \in Nat
               /\ plain \in Int /\ LedgerCost(ledger) \in Int /\ saved \in Int
               /\ Cached(total) => SavingUsd(total, role) = <<saved>>
               /\ ~Cached(total) => total.read = 0 /\ total.write = 0 /\ saved = 0
  <1>. DEFINE total == Totals(ledger)
              plain == LedgerCost([i \in DOMAIN ledger |-> Uncached(ledger[i])])
              cost == LedgerCost(ledger)
              saved == plain - cost
              i == total.input
              o == total.output
              w == total.write
              r == total.read
  <1>1. i \in Nat /\ o \in Nat /\ w \in Nat /\ r \in Nat
    <2>1. ledger \in Seq(AnyCall)
      BY DEF AnyCall
    <2>. QED
      BY <2>1, TotalsByField
  <1>2. LET price == Prices[role]
        IN  /\ plain = price.input * (i + w + r) + price.output * o
            /\ cost = price.input * i + price.output * o + price.write * w + price.read * r
    BY UncachedCost, CostOfTotals
  <1>3. Cached(total) <=> r # 0 \/ w # 0
    BY DEF Cached
  <1>4. Cached(total) => SavingUsd(total, role) =
            <<(r + w) * Prices[role].input - (r * Prices[role].read + w * Prices[role].write)>>
    BY DEF SavingUsd
  <1>. HIDE DEF plain, cost, i, o, w, r
  <1>5. /\ plain \in Int /\ cost \in Int
        /\ plain - cost = (r + w) * Prices[role].input
                             - (r * Prices[role].read + w * Prices[role].write)
    <2>1. CASE role = "worker"
      <3>1. /\ plain = 100 * (i + w + r) + 500 * o
            /\ cost = 100 * i + 500 * o + 125 * w + 10 * r
            /\ Prices[role].input = 100 /\ Prices[role].read = 10 /\ Prices[role].write = 125
        BY <1>2, <2>1 DEF Prices
      <3>2. /\ plain \in Int /\ cost \in Int
            /\ plain - cost = (r + w) * 100 - (r * 10 + w * 125)
        BY <1>1, <3>1
      <3>. QED
        BY <3>1, <3>2
    <2>2. CASE role = "frontier"
      <3>1. /\ plain = 300 * (i + w + r) + 1500 * o
            /\ cost = 300 * i + 1500 * o + 375 * w + 30 * r
            /\ Prices[role].input = 300 /\ Prices[role].read = 30 /\ Prices[role].write = 375
        BY <1>2, <2>2 DEF Prices
      <3>2. /\ plain \in Int /\ cost \in Int
            /\ plain - cost = (r + w) * 300 - (r * 30 + w * 375)
        BY <1>1, <3>1
      <3>. QED
        BY <3>1, <3>2
    <2>. QED
      BY <2>1, <2>2
  <1>6. r = 0 /\ w = 0 => plain - cost = 0
    <2>1. Prices[role].input \in Nat /\ Prices[role].read \in Nat /\ Prices[role].write \in Nat
      BY DEF Prices
    <2>. QED
      BY <1>5, <2>1
  <1>. QED
    BY <1>1, <1>3, <1>4, <1>5, <1>6 DEF plain, cost, i, o, w, r

\* The note on caching says what it saved, over two cells.
LEMMA SavingIsHonest ==
    ASSUME LedgerAsks
    PROVE  SavingIsTheDifferenceItMade
  <1>. SUFFICES ASSUME asked.topic = "ledgers"
                PROVE  SavingIsTheDifferenceItMade
    BY DEF SavingIsTheDifferenceItMade
  <1>. DEFINE calls(c) == Asked[c].calls
              total(c) == Totals(calls(c))
              plain(c) == LedgerCost([i \in DOMAIN calls(c) |-> Uncached(calls(c)[i])])
              saved == [c \in {1, 2} |-> plain(c) - LedgerCost(calls(c))]
              reads == [c \in {1, 2} |-> total(c).read]
              writes == [c \in {1, 2} |-> total(c).write]
              hit == {c \in DOMAIN Asked : Cached(total(c))}
              cells == [c \in DOMAIN Asked |-> [role |-> Asked[c].role, tokens |-> total(c)]]
              note == CacheNote(cells)
  <1>1. DOMAIN Asked = {1, 2}
    BY TwoCells
  <1>2. /\ LedgerCost(Spent) = LedgerCost(calls(1)) + LedgerCost(calls(2))
        /\ Totals(Spent).read = reads[1] + reads[2]
        /\ Totals(Spent).write = writes[1] + writes[2]
    BY TwoCells
  <1>3. ASSUME NEW c \in {1, 2}
        PROVE  /\ Asked[c].role \in {"worker", "frontier"} /\ Asked[c].level \in {"L0", "L3"}
               /\ asked.measured \in {Measured, <<>>}
               /\ calls(c) \in Seq(CallsTo(Asked[c].role)) /\ calls(c) \in Seq(AnyCall)
               /\ PrefixIsCacheable(Asked[c].role, Asked[c].level, asked.measured)
                      \/ \A i \in DOMAIN calls(c) : calls(c)[i].write = 0 /\ calls(c)[i].read = 0
    <2>1. calls(c) \in Seq(AnyCall)
      BY TwoCells
    <2>. QED
      BY <2>1 DEF LedgerAsks, Asked
  <1>4. ASSUME NEW c \in {1, 2}
        PROVE  /\ reads[c] \in Nat /\ writes[c] \in Nat /\ saved[c] \in Int
               /\ plain(c) \in Int /\ LedgerCost(calls(c)) \in Int
               /\ Cached(total(c)) <=> reads[c] # 0 \/ writes[c] # 0
               /\ Cached(total(c)) => SavingUsd(total(c), Asked[c].role)[1] = saved[c]
               /\ ~Cached(total(c)) => reads[c] = 0 /\ writes[c] = 0 /\ saved[c] = 0
    <2>. DEFINE r == Asked[c].role
                s == calls(c)
    <2>1. r \in {"worker", "frontier"} /\ s \in Seq(CallsTo(r))
      BY <1>3
    <2>2. /\ reads[c] = Totals(s).read /\ writes[c] = Totals(s).write
          /\ saved[c] = plain(c) - LedgerCost(s)
          /\ plain(c) = LedgerCost([i \in DOMAIN s |-> Uncached(s[i])])
          /\ Cached(total(c)) <=> Cached(Totals(s))
          /\ SavingUsd(total(c), Asked[c].role) = SavingUsd(Totals(s), r)
      OBVIOUS
    <2>3. Cached(Totals(s)) <=> Totals(s).read # 0 \/ Totals(s).write # 0
      BY DEF Cached
    <2>. HIDE DEF r, s, reads, writes, saved, plain, total
    <2>4. /\ Totals(s).read \in Nat /\ Totals(s).write \in Nat
          /\ plain(c) \in Int /\ LedgerCost(s) \in Int /\ plain(c) - LedgerCost(s) \in Int
          /\ Cached(Totals(s)) => SavingUsd(Totals(s), r) = <<plain(c) - LedgerCost(s)>>
          /\ ~Cached(Totals(s)) => /\ Totals(s).read = 0 /\ Totals(s).write = 0
                                   /\ plain(c) - LedgerCost(s) = 0
      BY <2>1, <2>2, WhatCachingSaved
    <2>5. \A x : <<x>>[1] = x
      OBVIOUS
    <2>6. LedgerCost(calls(c)) = LedgerCost(s)
      BY DEF s
    <2>. HIDE DEF calls
    <2>. QED
      BY <2>2, <2>3, <2>4, <2>5, <2>6
  <1>5. ASSUME NEW c \in hit
        PROVE  Asked[c].role = "frontier" /\ Asked[c].level = "L3" /\ asked.measured # <<>>
    <2>1. c \in {1, 2} /\ Cached(total(c))
      BY <1>1
    <2>2. total(c).write # 0 \/ total(c).read # 0
      BY <2>1 DEF Cached
    <2>3. ~\A i \in DOMAIN calls(c) : calls(c)[i].write = 0 /\ calls(c)[i].read = 0
      <3>. HIDE DEF hit
      <3>1. calls(c) \in Seq(AnyCall)
        BY <1>3, <2>1
      <3>2. ASSUME NEW s \in Seq(AnyCall), Totals(s).write # 0 \/ Totals(s).read # 0
            PROVE  ~\A i \in DOMAIN s : s[i].write = 0 /\ s[i].read = 0
        BY <3>2, NothingCached
      <3>. QED
        BY <2>2, <3>1, <3>2
    <2>. QED
      BY <1>3, <2>1, <2>3, OnlyTheLongestPrefix
  <1>6. CacheNote(cells) =
            IF hit = {} THEN [says |-> "did not apply"]
            ELSE [says |-> "applied", cells |-> Cardinality(hit), of |-> Len(cells),
                  rate |-> HitRate([read |-> SumFunction([c \in hit |-> total(c)["read"]]),
                                    write |-> SumFunction([c \in hit |-> total(c)["write"]])]),
                  saved |-> SumFunction([c \in hit |-> SavingUsd(total(c), Asked[c].role)[1]])]
    <2>1. /\ DOMAIN cells = DOMAIN Asked
          /\ \A c \in DOMAIN Asked : cells[c].role = Asked[c].role /\ cells[c].tokens = total(c)
      OBVIOUS
    <2>. HIDE DEF cells, total
    <2>2. {c \in DOMAIN cells : Cached(cells[c].tokens)} = hit
      BY <2>1
    <2>3. /\ [c \in hit |-> cells[c].tokens["read"]] = [c \in hit |-> total(c)["read"]]
          /\ [c \in hit |-> cells[c].tokens["write"]] = [c \in hit |-> total(c)["write"]]
          /\ [c \in hit |-> SavingUsd(cells[c].tokens, cells[c].role)[1]]
                 = [c \in hit |-> SavingUsd(total(c), Asked[c].role)[1]]
      BY <2>1
    <2>. HIDE DEF hit
    <2>. QED
      BY <2>2, <2>3 DEF CacheNote
  <1>. DEFINE R == SumFunction([c \in hit |-> total(c)["read"]])
              W == SumFunction([c \in hit |-> total(c)["write"]])
              V == SumFunction([c \in hit |-> SavingUsd(total(c), Asked[c].role)[1]])
  <1>7. /\ R = reads[1] + reads[2] /\ W = writes[1] + writes[2]
        /\ V = saved[1] + saved[2]
    <2>. DEFINE gr == [c \in hit |-> total(c)["read"]]
                gw == [c \in hit |-> total(c)["write"]]
                gv == [c \in hit |-> SavingUsd(total(c), Asked[c].role)[1]]
    <2>1. hit \in SUBSET {1, 2} /\ \A c \in {1, 2} : c \in hit <=> Cached(total(c))
      BY <1>1
    <2>2. R = SumFunctionOnSet(gr, hit) /\ W = SumFunctionOnSet(gw, hit) /\ V = SumFunctionOnSet(gv, hit)
      BY DEF SumFunction
    <2>3. \A c \in {1, 2} : reads[c] = total(c)["read"] /\ writes[c] = total(c)["write"]
      OBVIOUS
    <2>4. \A c \in hit : /\ gr[c] = total(c)["read"] /\ gw[c] = total(c)["write"]
                         /\ gv[c] = SavingUsd(total(c), Asked[c].role)[1]
      OBVIOUS
    <2>. HIDE DEF gr, gw, gv, R, W, V, hit, reads, writes, saved, total, plain, calls
    <2>5. \A c \in hit : gr[c] = reads[c] /\ gw[c] = writes[c] /\ gv[c] = saved[c]
      BY <1>4, <2>1, <2>3, <2>4
    <2>6. \A c \in {1, 2} : c \notin hit => reads[c] = 0 /\ writes[c] = 0 /\ saved[c] = 0
      BY <1>4, <2>1
    <2>7. /\ reads[1] \in Int /\ reads[2] \in Int /\ writes[1] \in Int /\ writes[2] \in Int
          /\ saved[1] \in Int /\ saved[2] \in Int
      BY <1>4
    <2>8. SumFunctionOnSet(gr, hit) = reads[1] + reads[2]
      BY <2>1, <2>5, <2>6, <2>7, SumOfSome
    <2>9. SumFunctionOnSet(gw, hit) = writes[1] + writes[2]
      BY <2>1, <2>5, <2>6, <2>7, SumOfSome
    <2>10. SumFunctionOnSet(gv, hit) = saved[1] + saved[2]
      BY <2>1, <2>5, <2>6, <2>7, SumOfSome
    <2>. QED
      BY <2>2, <2>8, <2>9, <2>10
  <1>8. hit = {} => note.says # "applied"
    <2>1. hit = {} => note = [says |-> "did not apply"]
      BY <1>6
    <2>2. ASSUME NEW n, n = [says |-> "did not apply"]
          PROVE  n.says # "applied"
      <3>1. n.says = "did not apply"
        BY <2>2
      <3>2. "did not apply" # "applied"
        OBVIOUS
      <3>. QED
        BY <3>1, <3>2
    <2>. HIDE DEF hit, note
    <2>. QED
      BY <2>1, <2>2
  <1>9. ASSUME hit # {}
        PROVE  /\ note.says = "applied" /\ note.cells = Cardinality(hit)
               /\ note.rate = <<Totals(Spent).read, Totals(Spent).read + Totals(Spent).write>>
               /\ note.saved = plain(1) + plain(2) - LedgerCost(Spent)
    <2>. HIDE DEF R, W, V
    <2>1. /\ note.says = "applied" /\ note.cells = Cardinality(hit)
          /\ note.rate = HitRate([read |-> R, write |-> W]) /\ note.saved = V
      <3>1. note = [says |-> "applied", cells |-> Cardinality(hit), of |-> Len(cells),
                    rate |-> HitRate([read |-> R, write |-> W]), saved |-> V]
        BY <1>6, <1>9 DEF R, W, V
      <3>. HIDE DEF note, hit, cells
      <3>. QED
        BY <3>1
    <2>2. PICK c \in {1, 2} : reads[c] # 0 \/ writes[c] # 0
      <3>1. PICK d \in hit : TRUE
        BY <1>9
      <3>2. d \in {1, 2} /\ Cached(total(d))
        BY <1>1
      <3>. HIDE DEF hit, reads, writes, total
      <3>. QED
        BY <1>4, <3>2
    <2>. HIDE DEF note, hit, cells, reads, writes, saved, total
    <2>3. /\ R \in Nat /\ W \in Nat /\ (R # 0 \/ W # 0)
      <3>1. /\ reads[1] \in Nat /\ reads[2] \in Nat
            /\ writes[1] \in Nat /\ writes[2] \in Nat
        BY <1>4
      <3>2. R = reads[1] + reads[2] /\ W = writes[1] + writes[2]
        BY <1>7
      <3>3. CASE c = 1
        BY <2>2, <3>1, <3>2, <3>3
      <3>4. CASE c = 2
        BY <2>2, <3>1, <3>2, <3>4
      <3>. QED
        BY <3>3, <3>4
    <2>4. HitRate([read |-> R, write |-> W]) = <<R, R + W>>
      BY <2>3 DEF HitRate, Cached
    <2>5. saved[1] + saved[2] = plain(1) + plain(2) - LedgerCost(Spent)
      <3>1. /\ saved[1] = plain(1) - LedgerCost(calls(1)) /\ saved[2] = plain(2) - LedgerCost(calls(2))
        BY DEF saved
      <3>2. /\ plain(1) \in Int /\ plain(2) \in Int
            /\ LedgerCost(calls(1)) \in Int /\ LedgerCost(calls(2)) \in Int
        BY <1>4
      <3>. HIDE DEF plain, calls
      <3>. QED
        BY <1>2, <3>1, <3>2
    <2>. HIDE DEF plain
    <2>. QED
      BY <1>2, <1>7, <2>1, <2>4, <2>5
  <1>10. (asked.measured = <<>> => hit = {}) /\ (note.says = "applied" <=> hit # {})
    <2>. HIDE DEF hit, note
    <2>. QED
      BY <1>5, <1>8, <1>9
  <1>. QED
    BY <1>5, <1>9, <1>10 DEF SavingIsTheDifferenceItMade, Uncached

-----------------------------------------------------------------------------
(* The preflight.                                                          *)

\* The last three steps of a preflight of a warehouse.
Offline(warehouse, place) ==
    <<Step("warehouse", warehouse.builds), Step("gold", warehouse.builds /\ warehouse.gold),
      Step("surface", place.surface)>>

\* What a preflight with a key finds and records.
LEMMA StepsWithAKey ==
    ASSUME NEW place, NEW warehouses, place.key
    PROVE  LET found == Preflight(place, warehouses)
               here == warehouses[place.key /\ place.configured]
           IN  /\ found.steps = <<Step("key", place.key),
                                  CheckModel("frontier", place.answers.frontier),
                                  CheckModel("worker", place.answers.worker),
                                  Step("warehouse", here.builds),
                                  Step("gold", here.builds /\ here.gold),
                                  Step("surface", place.surface)>>
               /\ found.ledger = <<Probed("frontier", place.answers.frontier),
                                   Probed("worker", place.answers.worker)>>
               /\ SubSeq(found.steps, Len(found.steps) - 2, Len(found.steps)) = Offline(here, place)
  <1>. DEFINE found == Preflight(place, warehouses)
              here == warehouses[place.key /\ place.configured]
              a == Step("key", place.key)
              b == CheckModel("frontier", place.answers.frontier)
              c == CheckModel("worker", place.answers.worker)
              d == Step("warehouse", here.builds)
              e == Step("gold", here.builds /\ here.gold)
              f == Step("surface", place.surface)
  <1>1. /\ found.steps = <<a>> \o <<b, c>> \o <<d, e>> \o <<f>>
        /\ found.ledger = <<Probed("frontier", place.answers.frontier),
                            Probed("worker", place.answers.worker)>>
    BY DEF Preflight, CheckWarehouseAndGold
  <1>2. Offline(here, place) = <<d, e, f>>
    BY DEF Offline
  <1>. DEFINE S == {a, b, c, d, e, f}
  <1>3. a \in S /\ b \in S /\ c \in S /\ d \in S /\ e \in S /\ f \in S
    OBVIOUS
  <1>. HIDE DEF found, here, a, b, c, d, e, f, S
  <1>4. /\ <<a>> \o <<b, c>> \o <<d, e>> \o <<f>> = <<a, b, c, d, e, f>>
        /\ SubSeq(<<a, b, c, d, e, f>>, 6 - 2, 6) = <<d, e, f>>
    BY <1>3, SixSteps
  <1>5. found.steps = <<a, b, c, d, e, f>>
    BY <1>1, <1>4
  <1>6. Len(found.steps) = 6
    BY <1>5
  <1>7. SubSeq(found.steps, Len(found.steps) - 2, Len(found.steps)) = Offline(here, place)
    BY <1>2, <1>4, <1>5, <1>6
  <1>. QED
    BY <1>1, <1>5, <1>7 DEF found, here, a, b, c, d, e, f

\* And one without.
LEMMA StepsWithoutAKey ==
    ASSUME NEW place, NEW warehouses, ~place.key
    PROVE  LET found == Preflight(place, warehouses)
               here == warehouses[place.key /\ place.configured]
           IN  /\ found.steps = <<Step("key", place.key), Step("models", FALSE),
                                  Step("warehouse", here.builds),
                                  Step("gold", here.builds /\ here.gold),
                                  Step("surface", place.surface)>>
               /\ found.ledger = <<>>
               /\ SubSeq(found.steps, Len(found.steps) - 2, Len(found.steps)) = Offline(here, place)
  <1>. DEFINE found == Preflight(place, warehouses)
              here == warehouses[place.key /\ place.configured]
              a == Step("key", place.key)
              b == Step("models", FALSE)
              d == Step("warehouse", here.builds)
              e == Step("gold", here.builds /\ here.gold)
              f == Step("surface", place.surface)
  <1>1. /\ found.steps = <<a>> \o <<b>> \o <<d, e>> \o <<f>>
        /\ found.ledger = <<>>
    BY DEF Preflight, CheckWarehouseAndGold
  <1>2. Offline(here, place) = <<d, e, f>>
    BY DEF Offline
  <1>. DEFINE S == {a, b, d, e, f}
  <1>3. a \in S /\ b \in S /\ d \in S /\ e \in S /\ f \in S
    OBVIOUS
  <1>. HIDE DEF found, here, a, b, d, e, f, S
  <1>4. /\ <<a>> \o <<b>> \o <<d, e>> \o <<f>> = <<a, b, d, e, f>>
        /\ SubSeq(<<a, b, d, e, f>>, 5 - 2, 5) = <<d, e, f>>
    BY <1>3, FiveSteps
  <1>5. found.steps = <<a, b, d, e, f>>
    BY <1>1, <1>4
  <1>6. Len(found.steps) = 5
    BY <1>5
  <1>7. SubSeq(found.steps, Len(found.steps) - 2, Len(found.steps)) = Offline(here, place)
    BY <1>2, <1>4, <1>5, <1>6
  <1>. QED
    BY <1>1, <1>5, <1>7 DEF found, here, a, b, d, e, f

\* A step of a name, and whether it passed.
IsStep(step, name, ok) ==
    /\ step.name = name
    /\ step.ok <=> ok
    /\ \A role : (step = Step(role, TRUE)) <=> (role = name /\ ok)

\* What a step says, and when it is the step of a name that passed.
LEMMA StepSays ==
    ASSUME NEW name, NEW ok \in BOOLEAN
    PROVE  IsStep(Step(name, ok), name, ok)
  <1>1. CASE ok
    <2>1. ok = TRUE
      BY <1>1
    <2>2. Step(name, TRUE).name = name /\ Step(name, TRUE).ok
      BY DEF Step
    <2>3. \A role : Step(name, TRUE) = Step(role, TRUE) <=> role = name
      BY DEF Step
    <2>. QED
      BY <2>1, <2>2, <2>3 DEF IsStep
  <1>2. CASE ~ok
    <2>1. ok = FALSE
      BY <1>2
    <2>2. Step(name, FALSE).name = name /\ ~Step(name, FALSE).ok
      BY DEF Step
    <2>3. \A role : Step(name, FALSE) # Step(role, TRUE)
      <3>1. \A role : Step(role, TRUE).ok
        BY DEF Step
      <3>. QED
        BY <2>2, <3>1
    <2>. QED
      BY <2>1, <2>2, <2>3 DEF IsStep
  <1>. QED
    BY <1>1, <1>2

\* A preflight finds what is there, and bills what it called.
LEMMA PreflightHides ==
    ASSUME LedgerAsks
    PROVE  PreflightHidesNothing
  <1>. SUFFICES ASSUME asked.topic = "preflight"
                PROVE  PreflightHidesNothing
    BY DEF PreflightHidesNothing
  <1>. DEFINE place == asked.place
              warehouses == asked.warehouses
              roles == {"worker", "frontier"}
              shut == [place EXCEPT !.key = TRUE, !.answers = [r \in {"worker", "frontier"} |-> <<>>]]
              found == Preflight(place, warehouses)
              refused == Preflight(shut, warehouses)
              offline(p) == SubSeq(p.steps, Len(p.steps) - 2, Len(p.steps))
              here == warehouses[place.configured]
  <1>1. /\ place.key \in BOOLEAN /\ place.configured \in BOOLEAN /\ place.surface \in BOOLEAN
        /\ warehouses \in [BOOLEAN -> [builds : BOOLEAN, gold : BOOLEAN]]
        /\ here.builds \in BOOLEAN /\ here.gold \in BOOLEAN
    <2>1. /\ place.key \in BOOLEAN /\ place.configured \in BOOLEAN /\ place.surface \in BOOLEAN
          /\ warehouses \in [BOOLEAN -> [builds : BOOLEAN, gold : BOOLEAN]]
      BY DEF LedgerAsks
    <2>. HIDE DEF place, warehouses
    <2>. QED
      BY <2>1
  <1>2. /\ shut.key /\ shut.configured = place.configured
        /\ shut.surface = place.surface
    <2>1. place = [key |-> place.key, configured |-> place.configured,
                   answers |-> place.answers, surface |-> place.surface]
      BY DEF LedgerAsks
    <2>. HIDE DEF place
    <2>. QED
      BY <2>1
  <1>. HIDE DEF place, warehouses, shut
  <1>3. place.key \/ ~place.configured => offline(found) = offline(refused)
    <2>1. offline(refused) = Offline(warehouses[shut.key /\ shut.configured], shut)
      BY <1>2, StepsWithAKey
    <2>2. offline(found) = Offline(warehouses[place.key /\ place.configured], place)
      <3>1. CASE place.key
        BY <3>1, StepsWithAKey
      <3>2. CASE ~place.key
        BY <3>2, StepsWithoutAKey
      <3>. QED
        BY <3>1, <3>2
    <2>. HIDE DEF found, refused
    <2>3. ASSUME place.key \/ ~place.configured
          PROVE  (place.key /\ place.configured) = (shut.key /\ shut.configured)
      BY <1>1, <1>2, <2>3
    <2>4. \A w : Offline(w, shut) = Offline(w, place)
      BY <1>2 DEF Offline
    <2>. QED
      BY <2>1, <2>2, <2>3, <2>4
  <1>. DEFINE Ready == /\ place.key /\ place.surface
                       /\ \A r \in roles : place.answers[r] # <<>>
                       /\ here.builds /\ here.gold
              asks == {i \in DOMAIN found.steps : found.steps[i].name \in roles}
              Told == \A i \in DOMAIN found.ledger :
                          found.ledger[i].outcome = "ok"
                              <=> Step(found.ledger[i].model, TRUE) \in ToSet(found.steps)
              Claim == (Passed(found) <=> Ready) /\ Len(found.ledger) = Cardinality(asks) /\ Told
  <1>4. ASSUME ~place.key
        PROVE  Claim
    <2>1. /\ found.steps = <<Step("key", place.key), Step("models", FALSE),
                             Step("warehouse", warehouses[place.key /\ place.configured].builds),
                             Step("gold", warehouses[place.key /\ place.configured].builds
                                              /\ warehouses[place.key /\ place.configured].gold),
                             Step("surface", place.surface)>>
          /\ found.ledger = <<>>
      BY <1>4, StepsWithoutAKey
    <2>. HIDE DEF found
    <2>2. DOMAIN found.steps = 1..5
      BY <2>1
    <2>3. /\ found.steps[1].name = "key" /\ found.steps[2].name = "models"
          /\ found.steps[3].name = "warehouse" /\ found.steps[4].name = "gold"
          /\ found.steps[5].name = "surface" /\ ~found.steps[2].ok
      BY <2>1 DEF Step
    <2>4. ~Passed(found)
      BY <2>2, <2>3 DEF Passed
    <2>5. asks = {}
      <3>1. \A i \in 1..5 : i = 1 \/ i = 2 \/ i = 3 \/ i = 4 \/ i = 5
        OBVIOUS
      <3>. QED
        BY <2>2, <2>3, <3>1
    <2>6. Len(found.ledger) = 0 /\ DOMAIN found.ledger = {}
      BY <2>1
    <2>7. Len(found.ledger) = Cardinality(asks)
      BY <2>5, <2>6, FS_EmptySet
    <2>. QED
      BY <1>4, <2>4, <2>6, <2>7
  <1>5. ASSUME place.key
        PROVE  Claim
    <2>. DEFINE front == place.answers["frontier"]
                work == place.answers["worker"]
    <2>1. warehouses[place.key /\ place.configured] = here
      BY <1>1, <1>5
    <2>2. /\ found.steps = <<Step("key", place.key), CheckModel("frontier", front),
                             CheckModel("worker", work), Step("warehouse", here.builds),
                             Step("gold", here.builds /\ here.gold),
                             Step("surface", place.surface)>>
          /\ found.ledger = <<Probed("frontier", front), Probed("worker", work)>>
      BY <1>5, <2>1, StepsWithAKey
    <2>. DEFINE k1 == place.key
                k2 == front # <<>>
                k3 == work # <<>>
                k4 == here.builds
                k5 == here.builds /\ here.gold
                k6 == place.surface
    <2>3. /\ k1 \in BOOLEAN /\ k2 \in BOOLEAN /\ k3 \in BOOLEAN
          /\ k4 \in BOOLEAN /\ k5 \in BOOLEAN /\ k6 \in BOOLEAN
      BY <1>1
    <2>4. found.steps = <<Step("key", k1), Step("frontier", k2), Step("worker", k3),
                          Step("warehouse", k4), Step("gold", k5), Step("surface", k6)>>
      BY <2>2 DEF CheckModel
    <2>. HIDE DEF found, here, front, work
    <2>5. DOMAIN found.ledger = 1..2 /\ Len(found.ledger) = 2
      BY <2>2
    <2>. HIDE DEF k1, k2, k3, k4, k5, k6
    <2>6. /\ DOMAIN found.steps = 1..6
          /\ found.steps[1] = Step("key", k1) /\ found.steps[2] = Step("frontier", k2)
          /\ found.steps[3] = Step("worker", k3) /\ found.steps[4] = Step("warehouse", k4)
          /\ found.steps[5] = Step("gold", k5) /\ found.steps[6] = Step("surface", k6)
      BY <2>4
    <2>7. /\ IsStep(found.steps[1], "key", k1) /\ IsStep(found.steps[2], "frontier", k2)
          /\ IsStep(found.steps[3], "worker", k3) /\ IsStep(found.steps[4], "warehouse", k4)
          /\ IsStep(found.steps[5], "gold", k5) /\ IsStep(found.steps[6], "surface", k6)
      <3>1. IsStep(Step("key", k1), "key", k1) /\ IsStep(Step("frontier", k2), "frontier", k2)
        BY <2>3, StepSays
      <3>2. IsStep(Step("worker", k3), "worker", k3) /\ IsStep(Step("warehouse", k4), "warehouse", k4)
        BY <2>3, StepSays
      <3>3. IsStep(Step("gold", k5), "gold", k5) /\ IsStep(Step("surface", k6), "surface", k6)
        BY <2>3, StepSays
      <3>. QED
        BY <2>6, <3>1, <3>2, <3>3
    <2>8. \A i \in 1..6 : i = 1 \/ i = 2 \/ i = 3 \/ i = 4 \/ i = 5 \/ i = 6
      OBVIOUS
    <2>9. Passed(found) <=> Ready
      <3>1. Passed(found) <=> k1 /\ k2 /\ k3 /\ k4 /\ k5 /\ k6
        BY <2>6, <2>7, <2>8 DEF Passed, IsStep
      <3>2. Ready <=> place.key /\ place.surface /\ front # <<>> /\ work # <<>>
                         /\ here.builds /\ here.gold
        BY DEF front, work
      <3>. QED
        BY <3>1, <3>2 DEF k1, k2, k3, k4, k5, k6
    <2>10. Len(found.ledger) = Cardinality(asks)
      <3>1. asks = {2, 3}
        BY <2>6, <2>7, <2>8 DEF IsStep
      <3>2. Cardinality({2, 3}) = 2
        <4>1. 2 # 3
          OBVIOUS
        <4>2. IsFiniteSet({2}) /\ Cardinality({2}) = 1 /\ {2, 3} = {2} \cup {3} /\ 3 \notin {2}
          BY <4>1, FS_Singleton
        <4>3. Cardinality({2} \cup {3}) = 1 + 1
          BY <4>2, FS_AddElement
        <4>. QED
          BY <4>2, <4>3
      <3>. QED
        BY <2>5, <3>1, <3>2
    <2>11. /\ found.ledger[1].model = "frontier" /\ found.ledger[2].model = "worker"
           /\ (found.ledger[1].outcome = "ok" <=> front # <<>>)
           /\ (found.ledger[2].outcome = "ok" <=> work # <<>>)
      BY <2>2 DEF Probed, FromResponse
    <2>12. /\ (Step("frontier", TRUE) \in ToSet(found.steps)) <=> k2
           /\ (Step("worker", TRUE) \in ToSet(found.steps)) <=> k3
      <3>1. ASSUME NEW s
            PROVE  (s \in ToSet(found.steps)) <=> (\E i \in 1..6 : found.steps[i] = s)
        BY <2>6 DEF ToSet
      <3>2. /\ found.steps[1] # Step("frontier", TRUE) /\ found.steps[1] # Step("worker", TRUE)
            /\ found.steps[4] # Step("frontier", TRUE) /\ found.steps[4] # Step("worker", TRUE)
            /\ found.steps[5] # Step("frontier", TRUE) /\ found.steps[5] # Step("worker", TRUE)
            /\ found.steps[6] # Step("frontier", TRUE) /\ found.steps[6] # Step("worker", TRUE)
            /\ found.steps[3] # Step("frontier", TRUE) /\ found.steps[2] # Step("worker", TRUE)
        BY <2>7 DEF IsStep
      <3>3. /\ (found.steps[2] = Step("frontier", TRUE)) <=> k2
            /\ (found.steps[3] = Step("worker", TRUE)) <=> k3
        BY <2>7 DEF IsStep
      <3>4. (Step("frontier", TRUE) \in ToSet(found.steps)) <=> k2
        <4>1. (Step("frontier", TRUE) \in ToSet(found.steps))
                  <=> (\E i \in 1..6 : found.steps[i] = Step("frontier", TRUE))
          BY <3>1
        <4>2. ASSUME NEW i \in 1..6, found.steps[i] = Step("frontier", TRUE)
              PROVE  i = 2
          BY <2>8, <3>2, <4>2
        <4>3. 2 \in 1..6
          OBVIOUS
        <4>. QED
          BY <3>3, <4>1, <4>2, <4>3
      <3>5. (Step("worker", TRUE) \in ToSet(found.steps)) <=> k3
        <4>1. (Step("worker", TRUE) \in ToSet(found.steps))
                  <=> (\E i \in 1..6 : found.steps[i] = Step("worker", TRUE))
          BY <3>1
        <4>2. ASSUME NEW i \in 1..6, found.steps[i] = Step("worker", TRUE)
              PROVE  i = 3
          BY <2>8, <3>2, <4>2
        <4>3. 3 \in 1..6
          OBVIOUS
        <4>. QED
          BY <3>3, <4>1, <4>2, <4>3
      <3>. QED
        BY <3>4, <3>5
    <2>13. /\ (Step("frontier", TRUE) \in ToSet(found.steps)) <=> (front # <<>>)
           /\ (Step("worker", TRUE) \in ToSet(found.steps)) <=> (work # <<>>)
      BY <2>12 DEF k2, k3
    <2>14. Told
      <3>1. \A i \in 1..2 : i = 1 \/ i = 2
        OBVIOUS
      <3>2. /\ (found.ledger[1].outcome = "ok")
                   <=> (Step(found.ledger[1].model, TRUE) \in ToSet(found.steps))
            /\ (found.ledger[2].outcome = "ok")
                   <=> (Step(found.ledger[2].model, TRUE) \in ToSet(found.steps))
        BY <2>11, <2>13
      <3>. QED
        BY <2>5, <3>1, <3>2
    <2>. QED
      BY <2>9, <2>10, <2>14
  <1>6. Claim
    BY <1>1, <1>4, <1>5
  <1>. HIDE DEF found, refused, here
  <1>. QED
    BY <1>3, <1>6 DEF PreflightHidesNothing, place, warehouses, shut, found, refused, here

\* MCLedgers's LedgersAddUp, of the code of usage.py, caching.py, chart_model.py and preflight.py.
THEOREM LedgersCount == LedgerAsks => LedgersAddUp
  BY LostCallsShow, ViewsAgree, SavingIsHonest, MarkingIsPlain, PreflightHides DEF LedgersAddUp

\* A call of MCLedgers is one of its role, and has no tokens of a cache it could not be in.
LEMMA CallsFit ==
    ASSUME NEW role \in {"worker", "frontier"}, NEW level \in {"L0", "L3"},
           NEW measured \in {Measured, <<>>}, NEW call \in CallsOf(role, level, measured)
    PROVE  /\ call \in CallsTo(role)
           /\ ~PrefixIsCacheable(role, level, measured) => call.write = 0 /\ call.read = 0
  <1>. DEFINE content == UserContent(role, level, measured)
              Fits(r, marked) ==
                  LET c == FromResponse(role, r, IF r = <<>> THEN "error" ELSE "ok")
                  IN  /\ c \in CallsTo(role)
                      /\ marked \/ (c.write = 0 /\ c.read = 0)
  <1>1. content[1].marked <=> PrefixIsCacheable(role, level, measured)
    <2>1. CASE PrefixIsCacheable(role, level, measured)
      BY <2>1 DEF UserContent
    <2>2. CASE ~PrefixIsCacheable(role, level, measured)
      BY <2>2 DEF UserContent
    <2>. QED
      BY <2>1, <2>2
  <1>2. \A marked : Fits(<<>>, marked)
    BY DEF FromResponse, CallsTo
  <1>3. \A marked : Fits([input |-> 40, output |-> 7], marked)
    BY DEF FromResponse, CallsTo
  <1>4. /\ Fits([input |-> 40, output |-> 7, write |-> 1037, read |-> 0], TRUE)
        /\ Fits([input |-> 40, output |-> 7, write |-> 0, read |-> 1037], TRUE)
    BY DEF FromResponse, CallsTo
  <1>5. PICK r \in ResponsesTo(content) :
            call = FromResponse(role, r, IF r = <<>> THEN "error" ELSE "ok")
    BY DEF CallsOf
  <1>6. CASE r \in {<<>>, [input |-> 40, output |-> 7]}
    BY <1>2, <1>3, <1>5, <1>6
  <1>7. CASE r \notin {<<>>, [input |-> 40, output |-> 7]}
    <2>1. /\ content[1].marked
          /\ r \in {[input |-> 40, output |-> 7, write |-> 1037, read |-> 0],
                    [input |-> 40, output |-> 7, write |-> 0, read |-> 1037]}
      BY <1>5, <1>7 DEF ResponsesTo
    <2>. QED
      BY <1>1, <1>4, <1>5, <2>1
  <1>. QED
    BY <1>6, <1>7

\* And so for the calls of a cell.
LEMMA CellsFit ==
    ASSUME NEW role \in {"worker", "frontier"}, NEW level \in {"L0", "L3"},
           NEW measured \in {Measured, <<>>},
           NEW calls \in BoundedSeq(CallsOf(role, level, measured), 2)
    PROVE  /\ calls \in Seq(CallsTo(role))
           /\ ~PrefixIsCacheable(role, level, measured) =>
                  \A i \in DOMAIN calls : calls[i].write = 0 /\ calls[i].read = 0
  <1>. DEFINE S == CallsOf(role, level, measured)
              T == CallsTo(role)
  <1>1. \A call \in S : call \in T
    BY CallsFit
  <1>2. ASSUME ~PrefixIsCacheable(role, level, measured)
        PROVE  \A call \in S : call.write = 0 /\ call.read = 0
    BY <1>2, CallsFit
  <1>. HIDE DEF S, T
  <1>3. PICK n \in 0..2 : calls \in [1..n -> S]
    BY DEF BoundedSeq, SeqOf, S
  <1>4. calls \in Seq(T)
    BY <1>1, <1>3
  <1>5. \A i \in DOMAIN calls : calls[i] \in S
    BY <1>3
  <1>. QED
    BY <1>2, <1>4, <1>5 DEF T

\* No other question is taken for one of ledgers.
LEMMA OthersAskNoLedgers ==
    ASSUME AskAny \/ Again, ~AskLedgers, ~AskPreflight
    PROVE  asked'.topic \notin {"ledgers", "preflight"}
  <1>1. ASSUME NEW topic, NEW question, Ask(topic, question)
        PROVE  asked'.topic = topic
    BY <1>1 DEF Ask
  <1>2. CASE Again
    BY <1>2 DEF Again, Idle
  <1>3. CASE AskRowsEqual \/ AskGroups \/ AskJudge
    BY <1>1, <1>3 DEF AskRowsEqual, AskGroups, AskJudge
  <1>4. CASE AskPattern
    BY <1>1, <1>4 DEF AskPattern
  <1>5. CASE AskSpread \/ AskCandidates
    BY <1>1, <1>5 DEF AskSpread, AskCandidates
  <1>6. CASE AskComplaints \/ AskVerdict \/ AskSurface
    BY <1>1, <1>6 DEF AskComplaints, AskVerdict, AskSurface
  <1>7. CASE AskTable \/ AskPair \/ AskTwins \/ AskSix
    BY <1>1, <1>7 DEF AskTable, AskPair, AskTwins, AskSix
  <1>8. CASE AskScreens
    BY <1>1, <1>8 DEF AskScreens
  <1>9. CASE AskAbstain \/ AskEscalate
    BY <1>1, <1>9 DEF AskAbstain, AskEscalate
  <1>. QED
    BY <1>2, <1>3, <1>4, <1>5, <1>6, <1>7, <1>8, <1>9 DEF AskAny

\* So it holds of whatever the system asks of ledgers.
THEOREM LedgersAlwaysAddUp == Spec => []LedgersAddUp
  <1>1. Init => LedgerAsks
    BY DEF Init, AskNothing, Idle, LedgerAsks
  <1>2. LedgerAsks /\ [Next]_<<asked, passVars>> => LedgerAsks'
    <2>. SUFFICES ASSUME LedgerAsks, [Next]_<<asked, passVars>>
                  PROVE  LedgerAsks'
      OBVIOUS
    <2>1. CASE UNCHANGED asked
      BY <2>1 DEF LedgerAsks
    <2>2. CASE AskLedgers
      <3>1. PICK measured \in {Measured, <<>>}, here \in {"worker", "frontier"} \X {"L0", "L3"},
                 there \in {"worker", "frontier"} \X {"L0", "L3"} :
            \E first \in BoundedSeq(CallsOf(here[1], here[2], measured), 2),
               second \in BoundedSeq(CallsOf(there[1], there[2], measured), 2) :
                Ask("ledgers", [measured |-> measured, cells |->
                    <<[role |-> here[1], level |-> here[2], calls |-> first],
                      [role |-> there[1], level |-> there[2], calls |-> second]>>])
        BY <2>2 DEF AskLedgers
      <3>2. PICK first \in BoundedSeq(CallsOf(here[1], here[2], measured), 2),
                 second \in BoundedSeq(CallsOf(there[1], there[2], measured), 2) :
                Ask("ledgers", [measured |-> measured, cells |->
                    <<[role |-> here[1], level |-> here[2], calls |-> first],
                      [role |-> there[1], level |-> there[2], calls |-> second]>>])
        BY <3>1
      <3>. DEFINE one == [role |-> here[1], level |-> here[2], calls |-> first]
                  two == [role |-> there[1], level |-> there[2], calls |-> second]
                  Fine(c) == /\ c.role \in {"worker", "frontier"} /\ c.level \in {"L0", "L3"}
                             /\ c.calls \in Seq(CallsTo(c.role))
                             /\ ~PrefixIsCacheable(c.role, c.level, measured) =>
                                    \A i \in DOMAIN c.calls : c.calls[i].write = 0 /\ c.calls[i].read = 0
      <3>3. /\ asked'.topic = "ledgers" /\ asked'.measured = measured
            /\ asked'.cells = <<one, two>>
        BY <3>2 DEF Ask
      <3>4. Fine(one)
        BY <3>2, CellsFit
      <3>5. Fine(two)
        BY <3>2, CellsFit
      <3>. HIDE DEF one, two
      <3>6. asked'.cells[1] = one /\ asked'.cells[2] = two
        BY <3>3
      <3>7. \A c \in {1, 2} : Fine(asked'.cells[c])
        BY <3>4, <3>5, <3>6
      <3>. QED
        BY <3>3, <3>6, <3>7 DEF LedgerAsks
    <2>3. CASE AskPreflight
      <3>1. PICK key \in BOOLEAN, configured \in BOOLEAN, surface \in BOOLEAN,
                 replies \in [{"worker", "frontier"} -> {<<>>, [input |-> 9, output |-> 1]}],
                 warehouses \in [BOOLEAN -> [builds : BOOLEAN, gold : BOOLEAN]] :
                Ask("preflight", [place |-> [key |-> key, configured |-> configured,
                                             answers |-> replies, surface |-> surface],
                                  warehouses |-> warehouses])
        BY <2>3 DEF AskPreflight
      <3>2. /\ asked'.topic = "preflight" /\ asked'.warehouses = warehouses
            /\ asked'.place = [key |-> key, configured |-> configured,
                               answers |-> replies, surface |-> surface]
        BY <3>1 DEF Ask
      <3>3. /\ asked'.place.key = key /\ asked'.place.configured = configured
            /\ asked'.place.answers = replies /\ asked'.place.surface = surface
        BY <3>2
      <3>. QED
        BY <3>2, <3>3 DEF LedgerAsks
    <2>4. CASE (AskAny \/ Again) /\ ~AskLedgers /\ ~AskPreflight
      BY <2>4, OthersAskNoLedgers DEF LedgerAsks
    <2>. QED
      BY <2>1, <2>2, <2>3, <2>4 DEF Next
  <1>. QED
    BY <1>1, <1>2, LedgersCount, PTL DEF Spec

-----------------------------------------------------------------------------
(* Patterns, of any warehouse: one sum of money, cut in several ways.      *)

\* What the generator writes: finitely many rows, of products there are, for whole amounts.
Stocked(w) ==
    /\ IsFiniteSet(DOMAIN w.orders) /\ IsFiniteSet(DOMAIN w.products)
    /\ \A p \in DOMAIN w.products : w.products[p].price \in Nat
    /\ \A o \in DOMAIN w.orders :
           /\ IsFiniteSet(DOMAIN w.orders[o].lines) /\ IsFiniteSet(DOMAIN w.orders[o].refunds)
           /\ \A i \in DOMAIN w.orders[o].lines :
                  w.orders[o].lines[i][1] \in DOMAIN w.products /\ w.orders[o].lines[i][2] \in Nat
           /\ \A i \in DOMAIN w.orders[o].refunds : w.orders[o].refunds[i] \in Nat

\* And its products are numbered; an order is a customer's, and has a line.
WellKept(w) ==
    /\ Stocked(w) /\ IsFiniteSet(DOMAIN w.customers) /\ DOMAIN w.products \subseteq Int
    /\ \A o \in DOMAIN w.orders :
           /\ w.orders[o].customer \in DOMAIN w.customers
           /\ w.orders[o].lines # <<>> /\ w.orders[o].lines \in Seq(Range(w.orders[o].lines))
           /\ w.orders[o].refunds \in Seq(Range(w.orders[o].refunds))

\* The amounts of the lines of an order.
LineAmounts(w, o) ==
    [i \in DOMAIN w.orders[o].lines |-> LineAmount(w, w.orders[o].lines[i])]

\* A line's amount is a number, and the order's is their sum.
LEMMA Amounts ==
    ASSUME NEW w, Stocked(w), NEW o \in DOMAIN w.orders
    PROVE  /\ IsFiniteSet(DOMAIN w.orders[o].lines)
           /\ \A i \in DOMAIN w.orders[o].lines :
                  LineAmounts(w, o)[i] \in Nat /\ LineAmounts(w, o)[i] = LineAmount(w, w.orders[o].lines[i])
           /\ Amount(w, o) = SumFunctionOnSet(LineAmounts(w, o), DOMAIN w.orders[o].lines)
           /\ Amount(w, o) \in Nat
  <1>. DEFINE D == DOMAIN w.orders[o].lines
  <1>1. IsFiniteSet(D)
    BY DEF Stocked
  <1>2. ASSUME NEW i \in D
        PROVE  LineAmounts(w, o)[i] \in Nat /\ LineAmounts(w, o)[i] = LineAmount(w, w.orders[o].lines[i])
    <2>1. /\ w.orders[o].lines[i][1] \in DOMAIN w.products /\ w.orders[o].lines[i][2] \in Nat
          /\ w.products[w.orders[o].lines[i][1]].price \in Nat
      BY DEF Stocked
    <2>2. LineAmounts(w, o)[i] = LineAmount(w, w.orders[o].lines[i])
      BY DEF LineAmounts
    <2>. QED
      BY <2>1, <2>2 DEF LineAmount
  <1>3. Amount(w, o) = SumFunctionOnSet(LineAmounts(w, o), D)
    BY DEF Amount, Total, LineAmounts, SumFunction
  <1>4. SumFunctionOnSet(LineAmounts(w, o), D) \in Nat
    <2>. HIDE DEF D
    <2>. QED
      BY <1>1, <1>2, SumNat
  <1>. QED
    BY <1>1, <1>2, <1>3, <1>4

\* The orders that count are orders, in a currency that converts.
LEMMA ScopedOrders ==
    ASSUME NEW w, Stocked(w), NEW ignored
    PROVE  /\ IsFiniteSet(Scoped(w, ignored)) /\ Scoped(w, ignored) \subseteq DOMAIN w.orders
           /\ \A o \in Scoped(w, ignored) : Factor(w.orders[o].currency, ignored) \in Nat
  <1>1. Scoped(w, ignored) \in SUBSET DOMAIN w.orders
    BY DEF Scoped, Filtered
  <1>2. IsFiniteSet(Scoped(w, ignored))
    BY <1>1, FS_Subset DEF Stocked
  <1>3. ASSUME NEW o \in Scoped(w, ignored)
        PROVE  Factor(w.orders[o].currency, ignored) \in Nat
    <2>1. w.orders[o].currency \in {"EUR", "JPY"}
      BY DEF Scoped
    <2>2. Factor(w.orders[o].currency, ignored) \in {100, 108, 67}
      <3>1. CASE w.orders[o].currency = "EUR"
        BY <3>1 DEF Factor
      <3>2. CASE w.orders[o].currency = "JPY"
        BY <3>2 DEF Factor
      <3>. QED
        BY <2>1, <3>1, <3>2
    <2>. QED
      BY <2>2
  <1>. QED
    BY <1>1, <1>2, <1>3

\* The money of each order that counts.
Money(w, ignored) ==
    [o \in Scoped(w, ignored) |-> Amount(w, o) * Factor(w.orders[o].currency, ignored)]

\* Its months are finitely many, and so are its categories.
LEMMA FewMonths ==
    ASSUME NEW w, Stocked(w)
    PROVE  IsFiniteSet(Months(w)) /\ IsFiniteSet(Categories(w))
  <1>1. IsFiniteSet(Months(w))
    <2>. DEFINE of == [o \in DOMAIN w.orders |-> w.orders[o].month]
    <2>1. of \in Surjection(DOMAIN w.orders, Months(w))
      BY DEF Surjection, Months
    <2>. HIDE DEF of
    <2>. QED
      BY <2>1, FS_Surjection DEF Stocked
  <1>2. IsFiniteSet(Categories(w))
    <2>. DEFINE of == [p \in DOMAIN w.products |-> w.products[p].category]
    <2>1. of \in Surjection(DOMAIN w.products, Categories(w))
      BY DEF Surjection, Categories
    <2>. HIDE DEF of
    <2>. QED
      BY <2>1, FS_Surjection DEF Stocked
  <1>. QED
    BY <1>1, <1>2

\* What is summed over the orders of each month is summed over the orders that count.
LEMMA OverTheMonths ==
    ASSUME NEW w, Stocked(w), NEW ignored, NEW f, NEW g,
           \A o \in Scoped(w, ignored) : f[o] \in Nat,
           \A m \in Months(w) : g[m] = SumFunctionOnSet(f, InMonth(w, Scoped(w, ignored), m))
    PROVE  SumFunctionOnSet(g, Months(w)) = SumFunctionOnSet(f, Scoped(w, ignored))
  <1>. DEFINE S == Scoped(w, ignored)
              key == [o \in S |-> w.orders[o].month]
  <1>1. IsFiniteSet(S) /\ S \subseteq DOMAIN w.orders
    BY ScopedOrders
  <1>2. \A o \in S : f[o] \in Nat /\ key[o] \in Months(w)
    BY <1>1 DEF Months
  <1>3. \A m : InMonth(w, S, m) = Under(S, key, m)
    BY DEF InMonth, Under
  <1>4. IsFiniteSet(Months(w))
    BY FewMonths
  <1>5. \A m \in Months(w) : g[m] = SumFunctionOnSet(f, Under(S, key, m))
    BY <1>3
  <1>. HIDE DEF S, key
  <1>6. SumFunctionOnSet(g, Months(w)) = SumFunctionOnSet(f, S)
    BY <1>1, <1>2, <1>4, <1>5, SumByKey
  <1>. QED
    BY <1>6 DEF S

\* What an order that counts is worth is a number.
LEMMA MoneyIsANumber ==
    ASSUME NEW w, Stocked(w), NEW ignored, NEW o \in Scoped(w, ignored)
    PROVE  /\ Money(w, ignored)[o] = Amount(w, o) * Factor(w.orders[o].currency, ignored)
           /\ Money(w, ignored)[o] \in Nat /\ Amount(w, o) \in Nat
           /\ Factor(w.orders[o].currency, ignored) \in Nat
  <1>1. o \in DOMAIN w.orders /\ Factor(w.orders[o].currency, ignored) \in Nat
    BY ScopedOrders
  <1>2. Amount(w, o) \in Nat
    BY <1>1, Amounts
  <1>3. Money(w, ignored)[o] = Amount(w, o) * Factor(w.orders[o].currency, ignored)
    BY DEF Money
  <1>. QED
    BY <1>1, <1>2, <1>3

\* The orders of a month that count are finitely many.
LEMMA MonthOrders ==
    ASSUME NEW w, Stocked(w), NEW ignored, NEW m
    PROVE  /\ IsFiniteSet(InMonth(w, Scoped(w, ignored), m))
           /\ InMonth(w, Scoped(w, ignored), m) \subseteq Scoped(w, ignored)
  <1>1. InMonth(w, Scoped(w, ignored), m) \in SUBSET Scoped(w, ignored)
    BY DEF InMonth
  <1>. QED
    BY <1>1, ScopedOrders, FS_Subset

\* A month's gross is the money of its orders.
LEMMA GrossOfAMonth ==
    ASSUME NEW w, Stocked(w), NEW ignored, NEW m
    PROVE  GrossRevenue(w, m, ignored)
               = SumFunctionOnSet(Money(w, ignored), InMonth(w, Scoped(w, ignored), m))
  <1>. DEFINE S == InMonth(w, Scoped(w, ignored), m)
              f == [o \in S |-> Amount(w, o) * Factor(w.orders[o].currency, ignored)]
  <1>1. GrossRevenue(w, m, ignored) = SumFunctionOnSet(f, S)
    BY DEF GrossRevenue, Total, SumFunction
  <1>2. \A o \in S : f[o] = Money(w, ignored)[o]
    BY MonthOrders DEF Money
  <1>3. IsFiniteSet(S)
    BY MonthOrders
  <1>. HIDE DEF S, f
  <1>4. SumFunctionOnSet(f, S) = SumFunctionOnSet(Money(w, ignored), S)
    BY <1>2, <1>3, SumSame
  <1>. QED
    BY <1>1, <1>4 DEF S

\* Over the months, gross is the money of the orders that count.
LEMMA GrossOverTheMonths ==
    ASSUME NEW w, Stocked(w), NEW ignored
    PROVE  Total(LAMBDA m : GrossRevenue(w, m, ignored), Months(w))
               = SumFunctionOnSet(Money(w, ignored), Scoped(w, ignored))
  <1>. DEFINE g == [m \in Months(w) |-> GrossRevenue(w, m, ignored)]
  <1>1. Total(LAMBDA m : GrossRevenue(w, m, ignored), Months(w)) = SumFunctionOnSet(g, Months(w))
    BY DEF Total, SumFunction
  <1>2. \A m \in Months(w) :
            g[m] = SumFunctionOnSet(Money(w, ignored), InMonth(w, Scoped(w, ignored), m))
    BY GrossOfAMonth
  <1>3. \A o \in Scoped(w, ignored) : Money(w, ignored)[o] \in Nat
    BY MoneyIsANumber
  <1>. HIDE DEF g
  <1>4. SumFunctionOnSet(g, Months(w)) = SumFunctionOnSet(Money(w, ignored), Scoped(w, ignored))
    BY <1>2, <1>3, OverTheMonths
  <1>. QED
    BY <1>1, <1>4

\* The lines of an order are those of each category.
LEMMA LinesByCategory ==
    ASSUME NEW w, Stocked(w), NEW o \in DOMAIN w.orders, NEW g,
           \A c \in Categories(w) : g[c] = SumFunctionOnSet(LineAmounts(w, o), LinesIn(w, o, c))
    PROVE  SumFunctionOnSet(g, Categories(w)) = Amount(w, o)
  <1>. DEFINE D == DOMAIN w.orders[o].lines
              key == [i \in D |-> w.products[w.orders[o].lines[i][1]].category]
              f == LineAmounts(w, o)
  <1>1. IsFiniteSet(D) /\ \A i \in D : f[i] \in Nat
    BY Amounts
  <1>2. \A i \in D : key[i] \in Categories(w)
    BY DEF Stocked, Categories
  <1>3. \A c : LinesIn(w, o, c) = Under(D, key, c)
    BY DEF LinesIn, Under
  <1>4. \A c \in Categories(w) : g[c] = SumFunctionOnSet(f, Under(D, key, c))
    BY <1>3
  <1>5. IsFiniteSet(Categories(w))
    BY FewMonths
  <1>6. Amount(w, o) = SumFunctionOnSet(f, D)
    BY Amounts
  <1>. HIDE DEF D, key, f
  <1>7. SumFunctionOnSet(g, Categories(w)) = SumFunctionOnSet(f, D)
    BY <1>1, <1>2, <1>4, <1>5, SumByKey
  <1>. QED
    BY <1>6, <1>7

\* What an order brings a category.
Share(w, ignored, o, c) ==
    Factor(w.orders[o].currency, ignored) * SumFunctionOnSet(LineAmounts(w, o), LinesIn(w, o, c))

\* It is a number.
LEMMA ShareIsANumber ==
    ASSUME NEW w, Stocked(w), NEW ignored, NEW o \in Scoped(w, ignored), NEW c
    PROVE  /\ Share(w, ignored, o, c) \in Nat
           /\ SumFunctionOnSet(LineAmounts(w, o), LinesIn(w, o, c)) \in Nat
  <1>1. o \in DOMAIN w.orders /\ Factor(w.orders[o].currency, ignored) \in Nat
    BY ScopedOrders
  <1>2. LinesIn(w, o, c) \in SUBSET DOMAIN w.orders[o].lines
    BY DEF LinesIn
  <1>3. IsFiniteSet(LinesIn(w, o, c)) /\ \A i \in LinesIn(w, o, c) : LineAmounts(w, o)[i] \in Nat
    BY <1>1, <1>2, Amounts, FS_Subset
  <1>4. SumFunctionOnSet(LineAmounts(w, o), LinesIn(w, o, c)) \in Nat
    BY <1>3, SumNat
  <1>. QED
    BY <1>1, <1>4 DEF Share

\* A category's revenue is its share of each order, unless lines are joined to orders.
LEMMA RevenueOfACategory ==
    ASSUME NEW w, Stocked(w), NEW ignored, "fan_out" \notin ignored, NEW c
    PROVE  CategoryRevenue(w, c, ignored)
               = SumFunction([o \in Scoped(w, ignored) |-> Share(w, ignored, o, c)])
  <1>. DEFINE S == Scoped(w, ignored)
              by(o) == [i \in LinesIn(w, o, c) |-> LineAmount(w, w.orders[o].lines[i])]
  <1>1. CategoryRevenue(w, c, ignored)
            = SumFunction([o \in S |-> Factor(w.orders[o].currency, ignored) * SumFunction(by(o))])
    BY DEF CategoryRevenue, Total
  <1>2. ASSUME NEW o \in S
        PROVE  SumFunction(by(o)) = SumFunctionOnSet(LineAmounts(w, o), LinesIn(w, o, c))
    <2>1. o \in DOMAIN w.orders
      BY ScopedOrders
    <2>2. LinesIn(w, o, c) \in SUBSET DOMAIN w.orders[o].lines
      BY DEF LinesIn
    <2>3. IsFiniteSet(LinesIn(w, o, c))
      BY <2>1, <2>2, Amounts, FS_Subset
    <2>4. \A i \in LinesIn(w, o, c) : by(o)[i] = LineAmounts(w, o)[i]
      BY <2>1, <2>2, Amounts
    <2>5. SumFunction(by(o)) = SumFunctionOnSet(by(o), LinesIn(w, o, c))
      BY DEF SumFunction
    <2>. DEFINE b == by(o)
    <2>6. \A i \in LinesIn(w, o, c) : b[i] = LineAmounts(w, o)[i]
      BY <2>4
    <2>. HIDE DEF b
    <2>7. SumFunctionOnSet(b, LinesIn(w, o, c)) = SumFunctionOnSet(LineAmounts(w, o), LinesIn(w, o, c))
      BY <2>3, <2>6, SumSame
    <2>. QED
      BY <2>5, <2>7 DEF b
  <1>3. [o \in S |-> Factor(w.orders[o].currency, ignored) * SumFunction(by(o))]
            = [o \in S |-> Share(w, ignored, o, c)]
    BY <1>2 DEF Share
  <1>. QED
    BY <1>1, <1>3

\* Over the categories, revenue is the money of the orders that count.
LEMMA RevenueOverTheCategories ==
    ASSUME NEW w, Stocked(w), NEW ignored, "fan_out" \notin ignored
    PROVE  Total(LAMBDA c : CategoryRevenue(w, c, ignored), Categories(w))
               = SumFunctionOnSet(Money(w, ignored), Scoped(w, ignored))
  <1>. DEFINE S == Scoped(w, ignored)
              K == Categories(w)
              across == [c \in K |-> [o \in S |-> Share(w, ignored, o, c)]]
              down == [o \in S |-> [c \in K |-> Share(w, ignored, o, c)]]
              row == [c \in K |-> CategoryRevenue(w, c, ignored)]
              col == Money(w, ignored)
  <1>1. Total(LAMBDA c : CategoryRevenue(w, c, ignored), K) = SumFunctionOnSet(row, K)
    BY DEF Total, SumFunction
  <1>2. IsFiniteSet(S) /\ IsFiniteSet(K) /\ S \subseteq DOMAIN w.orders
    BY ScopedOrders, FewMonths
  <1>3. \A c \in K, o \in S : across[c][o] \in Nat /\ down[o][c] = across[c][o]
    BY ShareIsANumber
  <1>4. \A c \in K : row[c] = SumFunctionOnSet(across[c], S)
    <2>1. ASSUME NEW c \in K
          PROVE  row[c] = SumFunctionOnSet(across[c], S)
      <3>1. row[c] = SumFunction([o \in S |-> Share(w, ignored, o, c)])
        BY RevenueOfACategory
      <3>. QED
        BY <3>1 DEF SumFunction
    <2>. QED
      BY <2>1
  <1>5. ASSUME NEW o \in S
        PROVE  col[o] = SumFunctionOnSet(down[o], K)
    <2>. DEFINE g == [c \in K |-> SumFunctionOnSet(LineAmounts(w, o), LinesIn(w, o, c))]
                h == down[o]
                k == Factor(w.orders[o].currency, ignored)
    <2>1. o \in DOMAIN w.orders /\ k \in Nat /\ Amount(w, o) \in Nat
          /\ col[o] = Amount(w, o) * k
      BY <1>2, MoneyIsANumber
    <2>2. \A c \in K : g[c] \in Nat /\ h[c] = k * g[c]
      BY ShareIsANumber DEF Share
    <2>3. \A c \in K : g[c] = SumFunctionOnSet(LineAmounts(w, o), LinesIn(w, o, c))
      OBVIOUS
    <2>. HIDE DEF g, h, k, col, down
    <2>4. SumFunctionOnSet(g, K) = Amount(w, o)
      BY <2>1, <2>3, LinesByCategory
    <2>. HIDE DEF K
    <2>5. SumFunctionOnSet(h, K) = k * SumFunctionOnSet(g, K)
      BY <1>2, <2>1, <2>2, SumTimes
    <2>6. SumFunctionOnSet(h, K) = col[o]
      BY <2>1, <2>4, <2>5
    <2>. QED
      BY <2>6 DEF h
  <1>. HIDE DEF S, K, across, down, row, col
  <1>6. CrossTable(K, S, across, down, row, col)
    BY <1>3, <1>4, <1>5 DEF CrossTable
  <1>7. SumFunctionOnSet(row, K) = SumFunctionOnSet(col, S)
    BY <1>2, <1>6, SumSwap
  <1>. QED
    BY <1>1, <1>7 DEF K, S, col

\* The refunds of an order are a number.
LEMMA RefundedIsANumber ==
    ASSUME NEW w, Stocked(w), NEW o \in DOMAIN w.orders
    PROVE  /\ Refunded(w, o) = SumFunctionOnSet(w.orders[o].refunds, DOMAIN w.orders[o].refunds)
           /\ Refunded(w, o) \in Nat /\ IsFiniteSet(DOMAIN w.orders[o].refunds)
           /\ \A i \in DOMAIN w.orders[o].refunds : w.orders[o].refunds[i] \in Nat
  <1>. DEFINE r == w.orders[o].refunds
              D == DOMAIN w.orders[o].refunds
              f == [i \in D |-> w.orders[o].refunds[i]]
  <1>1. IsFiniteSet(D) /\ \A i \in D : r[i] \in Nat
    BY DEF Stocked
  <1>2. Refunded(w, o) = SumFunctionOnSet(f, D)
    BY DEF Refunded, Total, SumFunction
  <1>3. \A i \in D : f[i] = r[i]
    OBVIOUS
  <1>. HIDE DEF r, D, f
  <1>4. SumFunctionOnSet(f, D) = SumFunctionOnSet(r, D)
    BY <1>1, <1>3, SumSame
  <1>5. SumFunctionOnSet(r, D) \in Nat
    BY <1>1, SumNat
  <1>. QED
    BY <1>1, <1>2, <1>4, <1>5 DEF r, D

\* What is paid back of each order that counts.
Back(w) ==
    [o \in Scoped(w, {}) |-> Factor(w.orders[o].currency, {}) * Refunded(w, o)]

\* It is a number.
LEMMA BackIsANumber ==
    ASSUME NEW w, Stocked(w), NEW o \in Scoped(w, {})
    PROVE  /\ Back(w)[o] = Factor(w.orders[o].currency, {}) * Refunded(w, o)
           /\ Back(w)[o] \in Nat /\ o \in DOMAIN w.orders
           /\ Factor(w.orders[o].currency, {}) \in Nat /\ Refunded(w, o) \in Nat
  <1>1. o \in DOMAIN w.orders /\ Factor(w.orders[o].currency, {}) \in Nat
    BY ScopedOrders
  <1>2. Refunded(w, o) \in Nat
    BY <1>1, RefundedIsANumber
  <1>3. Back(w)[o] = Factor(w.orders[o].currency, {}) * Refunded(w, o)
    BY DEF Back
  <1>. QED
    BY <1>1, <1>2, <1>3

\* A month's gross and net differ by what was paid back of its orders.
LEMMA NetOfAMonth ==
    ASSUME NEW w, Stocked(w), NEW m
    PROVE  GrossRevenue(w, m, {}) - NetRevenue(w, m, {})
               = SumFunctionOnSet(Back(w), InMonth(w, Scoped(w, {}), m))
  <1>. DEFINE S == InMonth(w, Scoped(w, {}), m)
              f == Money(w, {})
              g == Back(w)
              h == [o \in S |-> Factor(w.orders[o].currency, {}) * (Amount(w, o) - Refunded(w, o))]
  <1>1. NetRevenue(w, m, {}) = SumFunctionOnSet(h, S)
    <2>1. h = [o \in S |-> Factor(w.orders[o].currency, {})
                  * (Amount(w, o) - IF "refunds_net" \in {} THEN 0 ELSE Refunded(w, o))]
      OBVIOUS
    <2>2. NetRevenue(w, m, {}) = SumFunction(h)
      BY <2>1 DEF NetRevenue, Total
    <2>. QED
      BY <2>2 DEF SumFunction
  <1>2. GrossRevenue(w, m, {}) = SumFunctionOnSet(f, S)
    BY GrossOfAMonth
  <1>3. IsFiniteSet(S) /\ S \subseteq Scoped(w, {})
    BY MonthOrders
  <1>4. ASSUME NEW o \in S
        PROVE  f[o] \in Int /\ g[o] \in Int /\ h[o] = f[o] - g[o]
    <2>. DEFINE k == Factor(w.orders[o].currency, {})
                a == Amount(w, o)
                b == Refunded(w, o)
    <2>1. k \in Nat /\ a \in Nat /\ f[o] = a * k
      BY <1>3, MoneyIsANumber
    <2>2. b \in Nat /\ g[o] = k * b
      BY <1>3, BackIsANumber
    <2>3. h[o] = k * (a - b)
      OBVIOUS
    <2>. HIDE DEF k, a, b, h, f, g
    <2>4. k * (a - b) = a * k - k * b
      BY <2>1, <2>2
    <2>. QED
      BY <2>1, <2>2, <2>3, <2>4
  <1>. HIDE DEF S, f, g, h
  <1>5. SumFunctionOnSet(h, S) = SumFunctionOnSet(f, S) - SumFunctionOnSet(g, S)
    BY <1>3, <1>4, SumLess
  <1>6. SumFunctionOnSet(f, S) \in Int /\ SumFunctionOnSet(g, S) \in Int
    BY <1>3, <1>4, SumInt
  <1>7. GrossRevenue(w, m, {}) - NetRevenue(w, m, {}) = SumFunctionOnSet(g, S)
    BY <1>1, <1>2, <1>5, <1>6
  <1>. QED
    BY <1>7 DEF g, S

\* Over the months, they differ by what was paid back of the orders that count.
LEMMA NetOverTheMonths ==
    ASSUME NEW w, Stocked(w)
    PROVE  Total(LAMBDA m : GrossRevenue(w, m, {}) - NetRevenue(w, m, {}), Months(w))
               = SumFunctionOnSet(Back(w), Scoped(w, {}))
  <1>. DEFINE g == [m \in Months(w) |-> GrossRevenue(w, m, {}) - NetRevenue(w, m, {})]
  <1>1. Total(LAMBDA m : GrossRevenue(w, m, {}) - NetRevenue(w, m, {}), Months(w))
            = SumFunctionOnSet(g, Months(w))
    BY DEF Total, SumFunction
  <1>2. \A m \in Months(w) : g[m] = SumFunctionOnSet(Back(w), InMonth(w, Scoped(w, {}), m))
    BY NetOfAMonth
  <1>3. \A o \in Scoped(w, {}) : Back(w)[o] \in Nat
    BY BackIsANumber
  <1>. HIDE DEF g
  <1>4. SumFunctionOnSet(g, Months(w)) = SumFunctionOnSet(Back(w), Scoped(w, {}))
    BY <1>2, <1>3, OverTheMonths
  <1>. QED
    BY <1>1, <1>4

\* What is paid back of an order is what its rows of the refunds say.
LEMMA BackByRow ==
    ASSUME NEW w, Stocked(w)
    PROVE  Total(LAMBDA r : Factor(w.orders[r[1]].currency, {}) * w.orders[r[1]].refunds[r[2]],
                 RefundRows(w))
               = SumFunctionOnSet(Back(w), Scoped(w, {}))
  <1>. DEFINE S == Scoped(w, {})
              R == RefundRows(w)
              D(o) == DOMAIN w.orders[o].refunds
              f == [r \in R |-> Factor(w.orders[r[1]].currency, {}) * w.orders[r[1]].refunds[r[2]]]
              key == [r \in R |-> r[1]]
              g == Back(w)
  <1>1. Total(LAMBDA r : Factor(w.orders[r[1]].currency, {}) * w.orders[r[1]].refunds[r[2]], R)
            = SumFunctionOnSet(f, R)
    BY DEF Total, SumFunction
  <1>2. IsFiniteSet(S) /\ S \subseteq DOMAIN w.orders
    BY ScopedOrders
  <1>3. \A r : r \in R <=> \E o \in S : \E i \in D(o) : r = <<o, i>>
    BY DEF RefundRows
  <1>4. IsFiniteSet(R)
    <2>. DEFINE slices == [o \in S |-> {o} \X D(o)]
                T == {slices[o] : o \in S}
    <2>1. slices \in Surjection(S, T)
      BY DEF Surjection
    <2>2. \A o \in S : IsFiniteSet(slices[o])
      <3>1. ASSUME NEW o \in S
            PROVE  IsFiniteSet({o} \X D(o))
        <4>1. IsFiniteSet({o}) /\ IsFiniteSet(D(o))
          BY <1>2, FS_Singleton, RefundedIsANumber
        <4>. HIDE DEF D
        <4>. QED
          BY <4>1, FS_Product
      <3>. QED
        BY <3>1
    <2>3. UNION T = R
      BY DEF RefundRows
    <2>4. \A t \in T : IsFiniteSet(t)
      BY <2>2
    <2>. HIDE DEF slices, T, R, S
    <2>5. IsFiniteSet(T)
      BY <1>2, <2>1, FS_Surjection
    <2>. QED
      BY <2>3, <2>4, <2>5, FS_UNION
  <1>5. ASSUME NEW o \in S
        PROVE  g[o] = SumFunctionOnSet(f, Under(R, key, o))
    <2>. DEFINE k == Factor(w.orders[o].currency, {})
                name == [i \in D(o) |-> <<o, i>>]
                a == w.orders[o].refunds
                h == [i \in D(o) |-> k * a[i]]
    <2>1. /\ g[o] = k * Refunded(w, o) /\ k \in Nat /\ o \in DOMAIN w.orders
          /\ Refunded(w, o) = SumFunctionOnSet(a, D(o)) /\ IsFiniteSet(D(o))
          /\ \A i \in D(o) : a[i] \in Nat
      <3>1. o \in DOMAIN w.orders /\ g[o] = k * Refunded(w, o) /\ k \in Nat
        BY BackIsANumber
      <3>. QED
        BY <3>1, RefundedIsANumber
    <2>2. Under(R, key, o) = {name[i] : i \in D(o)}
      <3>1. ASSUME NEW r
            PROVE  (r \in R /\ key[r] = o) <=> \E i \in D(o) : r = <<o, i>>
        BY <1>3
      <3>. QED
        BY <3>1 DEF Under
    <2>3. \A i \in D(o) : f[name[i]] = k * a[i]
      <3>1. ASSUME NEW i \in D(o)
            PROVE  f[name[i]] = k * a[i]
        <4>1. <<o, i>> \in R /\ name[i] = <<o, i>> /\ <<o, i>>[1] = o /\ <<o, i>>[2] = i
          BY <1>3
        <4>. QED
          BY <4>1
      <3>. QED
        BY <3>1
    <2>4. \A i, j \in D(o) : name[i] = name[j] => i = j
      OBVIOUS
    <2>5. \A i \in D(o) : h[i] = k * a[i]
      OBVIOUS
    <2>. DEFINE E == D(o)
    <2>6. /\ Under(R, key, o) = {name[i] : i \in E} /\ IsFiniteSet(E)
          /\ \A i, j \in E : name[i] = name[j] => i = j
          /\ \A i \in E : a[i] \in Nat /\ h[i] = k * a[i] /\ f[name[i]] = h[i]
          /\ k \in Nat /\ g[o] = k * SumFunctionOnSet(a, E)
      BY <2>1, <2>2, <2>3, <2>4, <2>5
    <2>. HIDE DEF E, name, h, k, a, f, g, R, key
    <2>7. \A i \in E : h[i] \in Nat
      BY <2>6
    <2>8. SumFunctionOnSet(f, {name[i] : i \in E}) = SumFunctionOnSet(h, E)
      BY <2>6, <2>7, SumRename
    <2>9. SumFunctionOnSet(h, E) = k * SumFunctionOnSet(a, E)
      BY <2>6, SumTimes
    <2>. QED
      BY <2>6, <2>8, <2>9
  <1>6. \A r \in R : f[r] \in Nat /\ key[r] \in S
    <2>1. ASSUME NEW o \in S, NEW i \in D(o)
          PROVE  f[<<o, i>>] \in Nat /\ key[<<o, i>>] \in S
      <3>1. <<o, i>> \in R
        BY <1>3
      <3>2. Factor(w.orders[o].currency, {}) \in Nat /\ w.orders[o].refunds[i] \in Nat
        BY <1>2, BackIsANumber, RefundedIsANumber
      <3>. QED
        BY <3>1, <3>2
    <2>. QED
      BY <1>3, <2>1
  <1>. HIDE DEF S, R, f, g, key
  <1>7. SumFunctionOnSet(g, S) = SumFunctionOnSet(f, R)
    BY <1>2, <1>4, <1>5, <1>6, SumByKey
  <1>. QED
    BY <1>1, <1>7 DEF S, R, g

\* What is asked about the patterns: a warehouse such as the generator writes.
PatternAsks == asked.topic = "pattern" => Stocked(asked.w)

\* MCPatterns's MoneyIsCountedOnce, of any warehouse.
THEOREM MoneyCounts == PatternAsks => MoneyIsCountedOnce
  <1>. SUFFICES ASSUME PatternAsks, asked.topic = "pattern"
                PROVE  MoneyIsCountedOnce
    BY DEF MoneyIsCountedOnce, CategoriesAddUpToGross, NetIsGrossLessEachRefund
  <1>1. Stocked(asked.w)
    BY DEF PatternAsks
  <1>2. ASSUME NEW ignored \in {{}, {"soft_delete"}, {"internal_accounts"}, {"multi_currency"}}
        PROVE  Total(LAMBDA c : CategoryRevenue(asked.w, c, ignored), Categories(asked.w))
                   = Total(LAMBDA m : GrossRevenue(asked.w, m, ignored), Months(asked.w))
    <2>1. "fan_out" \notin ignored
      OBVIOUS
    <2>2. Total(LAMBDA c : CategoryRevenue(asked.w, c, ignored), Categories(asked.w))
              = SumFunctionOnSet(Money(asked.w, ignored), Scoped(asked.w, ignored))
      BY <1>1, <2>1, RevenueOverTheCategories
    <2>3. Total(LAMBDA m : GrossRevenue(asked.w, m, ignored), Months(asked.w))
              = SumFunctionOnSet(Money(asked.w, ignored), Scoped(asked.w, ignored))
      BY <1>1, GrossOverTheMonths
    <2>. QED
      BY <2>2, <2>3
  <1>3. Total(LAMBDA m : GrossRevenue(asked.w, m, {}) - NetRevenue(asked.w, m, {}), Months(asked.w))
            = Total(LAMBDA r : Factor(asked.w.orders[r[1]].currency, {})
                                   * asked.w.orders[r[1]].refunds[r[2]],
                    RefundRows(asked.w))
    BY <1>1, NetOverTheMonths, BackByRow
  <1>. QED
    BY <1>2, <1>3 DEF MoneyIsCountedOnce, CategoriesAddUpToGross, NetIsGrossLessEachRefund

\* No other question is taken for one of patterns.
LEMMA OthersAskNoPattern ==
    ASSUME AskAny \/ Again, ~AskPattern
    PROVE  asked'.topic # "pattern"
  <1>1. ASSUME NEW topic, NEW question, Ask(topic, question)
        PROVE  asked'.topic = topic
    BY <1>1 DEF Ask
  <1>2. CASE Again
    BY <1>2 DEF Again, Idle
  <1>3. CASE AskRowsEqual \/ AskGroups \/ AskJudge
    BY <1>1, <1>3 DEF AskRowsEqual, AskGroups, AskJudge
  <1>4. CASE AskAbstain \/ AskEscalate
    BY <1>1, <1>4 DEF AskAbstain, AskEscalate
  <1>5. CASE AskSpread \/ AskCandidates
    BY <1>1, <1>5 DEF AskSpread, AskCandidates
  <1>6. CASE AskComplaints \/ AskVerdict \/ AskSurface
    BY <1>1, <1>6 DEF AskComplaints, AskVerdict, AskSurface
  <1>7. CASE AskTable \/ AskPair \/ AskTwins \/ AskSix
    BY <1>1, <1>7 DEF AskTable, AskPair, AskTwins, AskSix
  <1>8. CASE AskScreens
    BY <1>1, <1>8 DEF AskScreens
  <1>9. CASE AskLedgers \/ AskPreflight
    BY <1>1, <1>9 DEF AskLedgers, AskPreflight
  <1>. QED
    BY <1>2, <1>3, <1>4, <1>5, <1>6, <1>7, <1>8, <1>9 DEF AskAny

\* The warehouses of MCPatterns are such as the generator writes.
LEMMA OrdersAreWritten ==
    ASSUME NEW order,
           order \in Orders \/ order = Order(1, "completed", "EUR", 1, FALSE, <<<<1, 1>>, <<2, 1>>>>, <<>>)
                            \/ order = Order(1, "completed", "EUR", 1, FALSE, <<<<2, 2>>>>, <<>>)
    PROVE  /\ IsFiniteSet(DOMAIN order.lines) /\ IsFiniteSet(DOMAIN order.refunds)
           /\ \A i \in DOMAIN order.lines : order.lines[i][1] \in 1..2 /\ order.lines[i][2] \in Nat
           /\ \A i \in DOMAIN order.refunds : order.refunds[i] \in Nat
           /\ order.customer \in 1..2 /\ order.lines # <<>>
           /\ order.lines \in Seq(Range(order.lines)) /\ order.refunds \in Seq(Range(order.refunds))
  <1>. DEFINE Usable(l) == l \in Seq((1..2) \X Nat) /\ l # <<>>
  <1>1. /\ order.lines \in {<<<<1, 1>>>>, <<<<1, 1>>, <<2, 1>>>>, <<<<1, 1>>, <<1, 2>>>>, <<<<2, 2>>>>}
        /\ order.refunds \in {<<>>, <<1>>, <<1, 2>>} /\ order.customer \in 1..2
    BY DEF Orders, Order, Lines
  <1>2. Usable(<<<<1, 1>>>>) /\ Usable(<<<<1, 1>>, <<2, 1>>>>)
    OBVIOUS
  <1>3. Usable(<<<<1, 1>>, <<1, 2>>>>) /\ Usable(<<<<2, 2>>>>)
    OBVIOUS
  <1>4. order.lines \in Seq((1..2) \X Nat) /\ order.lines # <<>>
    BY <1>1, <1>2, <1>3
  <1>5. order.refunds \in Seq(Nat)
    <2>1. <<>> \in Seq(Nat) /\ <<1>> \in Seq(Nat) /\ <<1, 2>> \in Seq(Nat)
      OBVIOUS
    <2>. QED
      BY <1>1, <2>1
  <1>6. ASSUME NEW S, NEW s \in Seq(S)
        PROVE  IsFiniteSet(DOMAIN s) /\ (\A i \in DOMAIN s : s[i] \in S) /\ s \in Seq(Range(s))
    <2>1. DOMAIN s = 1..Len(s) /\ Len(s) \in Nat
      OBVIOUS
    <2>2. \A i \in DOMAIN s : s[i] \in Range(s)
      BY DEF Range
    <2>3. s \in Seq(Range(s))
      <3>. DEFINE R == Range(s)
      <3>1. s = [i \in 1..Len(s) |-> s[i]]
        OBVIOUS
      <3>. HIDE DEF R
      <3>2. s \in [1..Len(s) -> R]
        BY <2>1, <2>2, <3>1 DEF R
      <3>3. s \in Seq(R)
        BY <2>1, <3>2
      <3>. QED
        BY <3>3 DEF R
    <2>. QED
      BY <2>1, <2>3, FS_Interval
  <1>7. /\ IsFiniteSet(DOMAIN order.lines) /\ order.lines \in Seq(Range(order.lines))
        /\ \A i \in DOMAIN order.lines : order.lines[i] \in (1..2) \X Nat
    BY <1>4, <1>6
  <1>8. /\ IsFiniteSet(DOMAIN order.refunds) /\ order.refunds \in Seq(Range(order.refunds))
        /\ \A i \in DOMAIN order.refunds : order.refunds[i] \in Nat
    BY <1>5, <1>6
  <1>. QED
    BY <1>1, <1>4, <1>7, <1>8

\* Every warehouse that is asked about is well kept.
WarehouseAsked == asked.topic = "pattern" => WellKept(asked.w)

\* And stays so, whatever is asked next.
LEMMA WarehousesAreWellKept ==
    ASSUME WarehouseAsked, [Next]_<<asked, passVars>>
    PROVE  WarehouseAsked'
  <1>1. CASE UNCHANGED asked
    BY <1>1 DEF WarehouseAsked
  <1>2. CASE AskPattern
    <2>1. PICK customers \in Customers, first \in {<<<<1, 1>>, <<2, 1>>>>, <<<<2, 2>>>>}, o \in Orders :
              Ask("pattern", [w |->
                  [customers |-> customers, products |-> Products,
                   orders |-> <<Order(1, "completed", "EUR", 1, FALSE, first, <<>>), o>>]])
      BY <1>2 DEF AskPattern
    <2>. DEFINE one == Order(1, "completed", "EUR", 1, FALSE, first, <<>>)
    <2>2. /\ asked'.topic = "pattern"
          /\ asked'.w.products = Products /\ asked'.w.orders = <<one, o>> /\ asked'.w.customers = customers
      BY <2>1 DEF Ask
    <2>3. ASSUME NEW order \in {one, o}
          PROVE  /\ IsFiniteSet(DOMAIN order.lines) /\ IsFiniteSet(DOMAIN order.refunds)
                 /\ \A i \in DOMAIN order.lines : order.lines[i][1] \in 1..2 /\ order.lines[i][2] \in Nat
                 /\ \A i \in DOMAIN order.refunds : order.refunds[i] \in Nat
                 /\ order.customer \in 1..2 /\ order.lines # <<>>
                 /\ order.lines \in Seq(Range(order.lines)) /\ order.refunds \in Seq(Range(order.refunds))
      <3>1. CASE first = <<<<1, 1>>, <<2, 1>>>>
        BY <3>1, OrdersAreWritten
      <3>2. CASE first = <<<<2, 2>>>>
        BY <3>2, OrdersAreWritten
      <3>. QED
        BY <3>1, <3>2
    <2>. HIDE DEF one
    <2>4. DOMAIN asked'.w.orders = 1..2 /\ \A n \in 1..2 : asked'.w.orders[n] \in {one, o}
      BY <2>2
    <2>5. /\ DOMAIN asked'.w.products = 1..2 /\ DOMAIN asked'.w.customers = 1..2
          /\ \A p \in 1..2 : asked'.w.products[p].price \in Nat
      BY <2>2 DEF Products, Customers
    <2>6. IsFiniteSet(1..2) /\ 1..2 \subseteq Int
      <3>1. 1 \in Int /\ 2 \in Int /\ 1..2 \subseteq Int
        OBVIOUS
      <3>2. IsFiniteSet(1..2)
        BY <3>1, FS_Interval
      <3>. QED
        BY <3>1, <3>2
    <2>7. Stocked(asked.w)'
      BY <2>3, <2>4, <2>5, <2>6 DEF Stocked
    <2>8. WellKept(asked.w)'
      BY <2>3, <2>4, <2>5, <2>6, <2>7 DEF WellKept
    <2>. QED
      BY <2>8 DEF WarehouseAsked
  <1>3. CASE (AskAny \/ Again) /\ ~AskPattern
    BY <1>3, OthersAskNoPattern DEF WarehouseAsked
  <1>. QED
    BY <1>1, <1>2, <1>3 DEF Next

\* So it holds of whatever the system asks of patterns.
THEOREM MoneyIsAlwaysCountedOnce == Spec => []MoneyIsCountedOnce
  <1>1. Init => WarehouseAsked
    BY DEF Init, AskNothing, Idle, WarehouseAsked
  <1>2. WarehouseAsked => PatternAsks
    BY DEF WarehouseAsked, WellKept, PatternAsks
  <1>3. WarehouseAsked => MoneyIsCountedOnce
    BY <1>2, MoneyCounts
  <1>. QED
    BY <1>1, <1>3, WarehousesAreWellKept, PTL DEF Spec

-----------------------------------------------------------------------------
(* Picks, of any items.                                                    *)

\* Items are known by their pattern's number.
ItemsOf(x, items, T) == {i \in T : items[i] = x}

LEMMA DepthCounts ==
    ASSUME NEW items \in Seq(Nat), NEW i \in DOMAIN items
    PROVE  /\ IsFiniteSet(ItemsOf(items[i], items, 1..(i - 1)))
           /\ Depth(items, i) = Cardinality(ItemsOf(items[i], items, 1..(i - 1)))
           /\ Depth(items, i) \in Nat
  <1>. DEFINE B == ItemsOf(items[i], items, 1..(i - 1))
  <1>1. IsFiniteSet(1..(i - 1))
    BY FS_Interval
  <1>2. B \in SUBSET (1..(i - 1))
    BY DEF ItemsOf
  <1>3. Depth(items, i) = Cardinality(B)
    BY DEF Depth, ItemsOf
  <1>. HIDE DEF B
  <1>4. IsFiniteSet(B) /\ Cardinality(B) \in Nat
    BY <1>1, <1>2, FS_Subset, FS_CardinalityType
  <1>. QED
    BY <1>3, <1>4 DEF B

\* Of two items of a pattern the later is deeper.
LEMMA LaterIsDeeper ==
    ASSUME NEW items \in Seq(Nat), NEW i \in DOMAIN items, NEW j \in DOMAIN items,
           items[i] = items[j], i < j
    PROVE  Depth(items, i) < Depth(items, j)
  <1>. DEFINE A == ItemsOf(items[i], items, 1..(i - 1))
              B == ItemsOf(items[j], items, 1..(j - 1))
  <1>1. i \in Nat /\ j \in Nat
    OBVIOUS
  <1>2. A \cup {i} \in SUBSET B /\ i \notin A
    BY <1>1 DEF ItemsOf
  <1>3. /\ IsFiniteSet(A) /\ Depth(items, i) = Cardinality(A) /\ Depth(items, i) \in Nat
        /\ IsFiniteSet(B) /\ Depth(items, j) = Cardinality(B) /\ Depth(items, j) \in Nat
    BY DepthCounts
  <1>. HIDE DEF A, B
  <1>4. Cardinality(A \cup {i}) = Cardinality(A) + 1 /\ Cardinality(A \cup {i}) <= Cardinality(B)
    BY <1>2, <1>3, FS_AddElement, FS_Subset
  <1>. QED
    BY <1>3, <1>4

\* A turn comes before another: the order in which items are picked.
Turns(items) == {t \in (DOMAIN items) \X (DOMAIN items) : Earlier(items, t[1], t[2])}

LEMMA TurnsAreOrdered ==
    ASSUME NEW items \in Seq(Nat)
    PROVE  Arranges(Turns(items), DOMAIN items)
  <1>. DEFINE N == DOMAIN items
  <1>1. \A i \in N : Depth(items, i) \in Nat /\ items[i] \in Nat /\ i \in Nat
    BY DepthCounts
  <1>2. \A i, j \in N : <<i, j>> \in Turns(items) <=>
            \/ Depth(items, i) < Depth(items, j)
            \/ Depth(items, i) = Depth(items, j) /\ items[i] < items[j]
    BY DEF Turns, Earlier
  <1>3. \A i, j \in N : i # j /\ items[i] = items[j] => Depth(items, i) # Depth(items, j)
    <2>. SUFFICES ASSUME NEW i \in N, NEW j \in N, i # j, items[i] = items[j]
                  PROVE  Depth(items, i) # Depth(items, j)
      OBVIOUS
    <2>1. i < j \/ j < i
      BY <1>1
    <2>2. Depth(items, i) < Depth(items, j) \/ Depth(items, j) < Depth(items, i)
      BY <2>1, LaterIsDeeper
    <2>. QED
      BY <1>1, <2>2
  <1>. HIDE DEF N
  <1>4. \A i \in N : <<i, i>> \notin Turns(items)
    BY <1>1, <1>2
  <1>5. \A i, j \in N : i # j => <<i, j>> \in Turns(items) \/ <<j, i>> \in Turns(items)
    BY <1>1, <1>2, <1>3
  <1>6. \A i, j, k \in N : <<i, j>> \in Turns(items) /\ <<j, k>> \in Turns(items)
                               => <<i, k>> \in Turns(items)
    BY <1>1, <1>2
  <1>. QED
    BY <1>4, <1>5, <1>6 DEF Arranges, N

\* p lists the items by turns, each once.
ByTurns(p, items) ==
    /\ p \in [DOMAIN items -> DOMAIN items]
    /\ Different(p, DOMAIN items) /\ Onto(p, DOMAIN items, DOMAIN items)
    /\ Follows(p, Turns(items), DOMAIN items)

LEMMA RoundsAreByTurns ==
    ASSUME NEW items \in Seq(Nat)
    PROVE  \E p : /\ ByTurns(p, items)
                  /\ \A limit : RoundRobin(items, limit) = SubSeq(p, 1, Min({limit, Len(items)}))
  <1>. DEFINE N == DOMAIN items
              s == [i \in N |-> i]
              InPlace(p) == /\ IsInjective(p)
                            /\ \A m, n \in DOMAIN s : m < n =>
                                  \/ Earlier(items, s[p[m]], s[p[n]])
                                  \/ ~Earlier(items, s[p[n]], s[p[m]]) /\ p[m] < p[n]
              place == CHOOSE p \in [DOMAIN s -> DOMAIN s] : InPlace(p)
              listed == [n \in DOMAIN s |-> s[place[n]]]
  <1>1. N = 1..Len(items) /\ Len(items) \in Nat
    OBVIOUS
  <1>2. \A limit : RoundRobin(items, limit) = SubSeq(listed, 1, Min({limit, Len(items)}))
    BY DEF RoundRobin, Sorted
  <1>3. Arranges(Turns(items), N)
    BY TurnsAreOrdered
  <1>4. DOMAIN s = N /\ \A i \in N : s[i] = i
    OBVIOUS
  <1>. HIDE DEF N, s
  <1>5. \A i, j \in N : Earlier(items, i, j) <=> <<i, j>> \in Turns(items)
    BY DEF Turns, N
  <1>6. \E p \in [DOMAIN s -> DOMAIN s] : InPlace(p)
    <2>1. PICK p \in [N -> N] : Different(p, N) /\ Follows(p, Turns(items), N)
      BY <1>1, <1>3, OrderIsFollowed
    <2>2. IsInjective(p)
      BY <2>1 DEF Different, IsInjective
    <2>3. ASSUME NEW m \in N, NEW n \in N, m < n
          PROVE  Earlier(items, s[p[m]], s[p[n]])
      <3>1. p[m] \in N /\ p[n] \in N /\ s[p[m]] = p[m] /\ s[p[n]] = p[n]
        BY <1>4, <2>1
      <3>2. <<p[m], p[n]>> \in Turns(items)
        BY <2>1, <2>3 DEF Follows
      <3>. QED
        BY <1>5, <3>1, <3>2
    <2>. QED
      BY <1>4, <2>1, <2>2, <2>3
  <1>7. place \in [N -> N] /\ InPlace(place)
    <2>1. place \in [DOMAIN s -> DOMAIN s] /\ InPlace(place)
      <3>. HIDE DEF InPlace
      <3>. QED
        BY <1>6
    <2>. QED
      BY <1>4, <2>1
  <1>. HIDE DEF place
  <1>8. Different(place, N)
    BY <1>7 DEF IsInjective, Different
  <1>9. Onto(place, N, N)
    BY <1>1, <1>7, <1>8, DifferentIsComplete
  <1>10. Follows(place, Turns(items), N)
    <2>1. ASSUME NEW i \in N, NEW j \in N, i < j
          PROVE  <<place[i], place[j]>> \in Turns(items)
      <3>1. place[i] \in N /\ place[j] \in N
        BY <1>7
      <3>2. i \in Int /\ j \in Int
        BY <1>1
      <3>3. place[i] # place[j]
        BY <1>8, <2>1, <3>2 DEF Different
      <3>4. \/ Earlier(items, place[i], place[j])
            \/ ~Earlier(items, place[j], place[i])
        BY <1>4, <1>7, <2>1, <3>1
      <3>. QED
        BY <1>3, <1>5, <3>1, <3>3, <3>4 DEF Arranges
    <2>. QED
      BY <2>1 DEF Follows
  <1>11. listed = place
    BY <1>4, <1>7
  <1>12. ByTurns(listed, items)
    BY <1>7, <1>8, <1>9, <1>10, <1>11 DEF ByTurns, N
  <1>. HIDE DEF listed
  <1>. QED
    BY <1>2, <1>12

\* What is picked is the first of the list: with an item, all that come earlier.
Taken(p, limit) == {p[k] : k \in 1..limit}

LEMMA TakenIsDownward ==
    ASSUME NEW items \in Seq(Nat), NEW p, ByTurns(p, items), NEW limit \in 0..Len(items)
    PROVE  /\ Taken(p, limit) \in SUBSET DOMAIN items
           /\ \A i \in Taken(p, limit) : \A j \in DOMAIN items :
                  Earlier(items, j, i) => j \in Taken(p, limit)
  <1>. DEFINE N == DOMAIN items
  <1>1. N = 1..Len(items) /\ Len(items) \in Nat /\ 1..limit \in SUBSET N
    OBVIOUS
  <1>2. Arranges(Turns(items), N)
    BY TurnsAreOrdered
  <1>3. \A i, j \in N : Earlier(items, i, j) <=> <<i, j>> \in Turns(items)
    BY DEF Turns
  <1>4. p \in [N -> N] /\ Onto(p, N, N) /\ Follows(p, Turns(items), N)
    BY DEF ByTurns
  <1>. HIDE DEF N
  <1>5. Taken(p, limit) \in SUBSET N
    BY <1>1, <1>4 DEF Taken
  <1>6. ASSUME NEW i \in Taken(p, limit), NEW j \in N, Earlier(items, j, i)
        PROVE  j \in Taken(p, limit)
    <2>1. PICK k \in 1..limit : p[k] = i
      BY DEF Taken
    <2>2. PICK m \in N : p[m] = j
      BY <1>4 DEF Onto
    <2>3. k \in N /\ i \in N
      BY <1>1, <1>5
    <2>4. ~(k < m)
      <3>1. ASSUME k < m
            PROVE  FALSE
        <4>1. <<i, j>> \in Turns(items)
          BY <1>4, <2>1, <2>2, <2>3, <3>1 DEF Follows
        <4>2. <<j, i>> \in Turns(items)
          BY <1>3, <1>6, <2>3
        <4>. QED
          BY <1>2, <2>3, <4>1, <4>2 DEF Arranges
      <3>. QED
        BY <3>1
    <2>5. m \in 1..limit
      BY <1>1, <2>1, <2>2, <2>4
    <2>. QED
      BY <2>2, <2>5 DEF Taken
  <1>. QED
    BY <1>5, <1>6 DEF N

\* The picks under a limit are the first of the list, each once.
LEMMA PicksAreTaken ==
    ASSUME NEW items \in Seq(Nat), NEW p, ByTurns(p, items), NEW limit \in 0..Len(items)
    PROVE  LET picked == SubSeq(p, 1, limit)
           IN  /\ picked \in Seq(DOMAIN items) /\ Len(picked) = limit /\ DOMAIN picked = 1..limit
               /\ \A k \in 1..limit : picked[k] = p[k]
               /\ Different(picked, 1..limit) /\ Range(picked) = Taken(p, limit)
               /\ picked \in Bijection(1..limit, Taken(p, limit))
  <1>. DEFINE n == Len(items)
              N == DOMAIN items
              picked == SubSeq(p, 1, limit)
  <1>1. N = 1..n /\ n \in Nat /\ limit \in Nat /\ limit <= n
    OBVIOUS
  <1>. HIDE DEF N, n
  <1>2. p \in [1..n -> N] /\ Different(p, N)
    BY <1>1 DEF ByTurns, N
  <1>3. p \in Seq(N) /\ Len(p) = n
    BY <1>1, <1>2, IsASeq, LenProperties
  <1>4. /\ picked \in Seq(N) /\ Len(picked) = limit
        /\ \A k \in 1..limit : picked[k] = p[k]
    <2>1. /\ SubSeq(p, 1, limit) \in Seq(N)
          /\ Len(SubSeq(p, 1, limit)) = limit
          /\ \A i \in 1..limit : SubSeq(p, 1, limit)[i] = p[i]
      BY <1>1, <1>3
    <2>. QED
      BY <2>1
  <1>. HIDE DEF picked
  <1>5. DOMAIN picked = 1..limit /\ 1..limit \in SUBSET N
    BY <1>1, <1>4
  <1>6. Different(picked, 1..limit)
    BY <1>2, <1>4, <1>5 DEF Different
  <1>7. Range(picked) = Taken(p, limit)
    BY <1>4, <1>5 DEF Range, Taken
  <1>8. picked \in [1..limit -> Taken(p, limit)]
    BY <1>4, <1>5 DEF Taken
  <1>9. picked \in Bijection(1..limit, Taken(p, limit))
    BY <1>4, <1>6, <1>8 DEF Bijection, Injection, Surjection, IsInjective, Different, Taken
  <1>. QED
    BY <1>4, <1>5, <1>6, <1>7, <1>9 DEF picked, N

\* So as many are picked of a pattern as are taken of it.
LEMMA PicksOfAPattern ==
    ASSUME NEW items \in Seq(Nat), NEW T \in SUBSET DOMAIN items, NEW limit \in Nat,
           NEW picked \in Bijection(1..limit, T), NEW x
    PROVE  /\ IsFiniteSet(ItemsOf(x, items, T))
           /\ Cardinality({k \in 1..limit : items[picked[k]] = x})
                  = Cardinality(ItemsOf(x, items, T))
  <1>. DEFINE K == {k \in 1..limit : items[picked[k]] = x}
              I == ItemsOf(x, items, T)
              f == [k \in K |-> picked[k]]
  <1>1. IsFiniteSet(K)
    <2>1. IsFiniteSet(1..limit) /\ K \in SUBSET (1..limit)
      BY FS_Interval
    <2>. QED
      BY <2>1, FS_Subset
  <1>2. f \in Bijection(K, I)
    <2>0. /\ picked \in [1..limit -> T]
          /\ \A i, j \in 1..limit : picked[i] = picked[j] => i = j
          /\ \A t \in T : \E k \in 1..limit : picked[k] = t
      BY DEF Bijection, Injection, Surjection, IsInjective
    <2>1. f \in [K -> I]
      BY <2>0 DEF ItemsOf
    <2>2. \A i, j \in K : f[i] = f[j] => i = j
      BY <2>0
    <2>3. \A t \in I : \E k \in K : f[k] = t
      BY <2>0 DEF ItemsOf
    <2>. QED
      BY <2>1, <2>2, <2>3 DEF Bijection, Injection, Surjection, IsInjective
  <1>3. ExistsBijection(K, I)
    BY <1>2 DEF ExistsBijection
  <1>. HIDE DEF K, I
  <1>4. IsFiniteSet(I) /\ Cardinality(I) = Cardinality(K)
    BY <1>1, <1>3, FS_Bijection
  <1>. QED
    BY <1>4 DEF K, I

\* With every item all that come earlier: then no pattern is taken from twice more often than
\* another that has some left.
LEMMA TakenEvenly ==
    ASSUME NEW items \in Seq(Nat), NEW T \in SUBSET DOMAIN items,
           \A i \in T : \A j \in DOMAIN items : Earlier(items, j, i) => j \in T,
           NEW x, NEW y,
           Cardinality(ItemsOf(x, items, T)) > Cardinality(ItemsOf(y, items, T)) + 1
    PROVE  ItemsOf(y, items, T) = ItemsOf(y, items, DOMAIN items)
  <1>. DEFINE n == Len(items)
              N == DOMAIN items
              X == ItemsOf(x, items, T)
              Y == ItemsOf(y, items, T)
              Left == ItemsOf(y, items, N) \ T
  <1>1. N = 1..n /\ n \in Nat /\ IsFiniteSet(N)
    BY FS_Interval
  <1>2. /\ IsFiniteSet(X) /\ IsFiniteSet(Y)
        /\ Cardinality(X) \in Nat /\ Cardinality(Y) \in Nat
    <2>1. X \in SUBSET N /\ Y \in SUBSET N
      BY DEF ItemsOf
    <2>. HIDE DEF X, Y, N
    <2>. QED
      BY <1>1, <2>1, FS_Subset, FS_CardinalityType
  <1>3. ASSUME Left # {}
        PROVE  FALSE
    <2>1. Left \in SUBSET (1..n)
      BY DEF ItemsOf
    <2>2. PICK i \in Left : \A j \in Left : i <= j
      <3>. HIDE DEF Left, n
      <3>. QED
        BY <1>1, <1>3, <2>1, LeastOf
    <2>3. i \in N /\ i \notin T /\ items[i] = y
      BY <2>2 DEF ItemsOf
    <2>4. ItemsOf(y, items, 1..(i - 1)) \in SUBSET Y
      <3>1. ASSUME NEW j \in ItemsOf(y, items, 1..(i - 1))
            PROVE  j \in Y
        <4>1. j \in N /\ j < i /\ items[j] = y
          BY <1>1, <2>3 DEF ItemsOf
        <4>2. j \notin Left
          BY <1>1, <2>2, <2>3, <4>1
        <4>. QED
          BY <4>1, <4>2 DEF ItemsOf
      <3>. QED
        BY <3>1
    <2>5. Depth(items, i) <= Cardinality(Y) /\ Depth(items, i) \in Nat
      <3>1. /\ Depth(items, i) = Cardinality(ItemsOf(y, items, 1..(i - 1)))
            /\ Depth(items, i) \in Nat
        BY <2>3, DepthCounts
      <3>. HIDE DEF Y
      <3>. QED
        BY <1>2, <2>4, <3>1, FS_Subset
    <2>6. X \in SUBSET (1..n) /\ X # {}
      <3>1. X \in SUBSET N /\ Cardinality(X) > Cardinality(Y) + 1
        BY DEF ItemsOf
      <3>. HIDE DEF X, Y
      <3>2. X # {}
        BY <1>2, <3>1, FS_EmptySet
      <3>. QED
        BY <1>1, <3>1, <3>2
    <2>7. PICK g \in X : \A j \in X : j <= g
      <3>. HIDE DEF X, n
      <3>. QED
        BY <1>1, <2>6, GreatestOf
    <2>8. g \in T /\ g \in N /\ items[g] = x
      BY <2>7 DEF ItemsOf
    <2>. DEFINE G == ItemsOf(x, items, 1..(g - 1))
    <2>9. X \in SUBSET (G \cup {g}) /\ g \notin G
      BY <1>1, <2>7, <2>8 DEF ItemsOf
    <2>10. Cardinality(X) <= Depth(items, g) + 1 /\ Depth(items, g) \in Nat
      <3>1. IsFiniteSet(G) /\ Depth(items, g) = Cardinality(G) /\ Depth(items, g) \in Nat
        BY <2>8, DepthCounts
      <3>. HIDE DEF G, X
      <3>2. IsFiniteSet(G \cup {g}) /\ Cardinality(G \cup {g}) = Cardinality(G) + 1
        BY <2>9, <3>1, FS_AddElement
      <3>. QED
        BY <2>9, <3>1, <3>2, FS_Subset
    <2>11. Depth(items, i) < Depth(items, g)
      BY <1>2, <2>5, <2>10
    <2>. QED
      BY <2>3, <2>8, <2>11 DEF Earlier
  <1>4. Left = {}
    BY <1>3
  <1>. QED
    BY <1>4 DEF ItemsOf

\* Once as many may be taken as there are patterns, every one has been.
LEMMA EveryPatternIsTaken ==
    ASSUME NEW items \in Seq(Nat), NEW T \in SUBSET DOMAIN items,
           \A i \in T : \A j \in DOMAIN items : Earlier(items, j, i) => j \in T,
           IsFiniteSet(Range(items)),
           T = DOMAIN items \/ Cardinality(T) >= Cardinality(Range(items)),
           NEW y \in Range(items)
    PROVE  \E i \in T : items[i] = y
  <1>. DEFINE N == DOMAIN items
              P == Range(items) \ {y}
              f == [i \in T |-> items[i]]
  <1>. SUFFICES ASSUME \A i \in T : items[i] # y
                PROVE  FALSE
    OBVIOUS
  <1>1. IsFiniteSet(N) /\ N = 1..Len(items)
    BY FS_Interval
  <1>2. IsFiniteSet(T) /\ Cardinality(T) \in Nat
    BY <1>1, FS_Subset, FS_CardinalityType
  <1>3. PICK e \in N : items[e] = y
    BY DEF Range
  <1>4. ItemsOf(y, items, T) = {} /\ e \in ItemsOf(y, items, N)
    BY <1>3 DEF ItemsOf
  <1>5. ASSUME NEW i \in T, NEW j \in T, items[i] = items[j], i # j
        PROVE  FALSE
    <2>. DEFINE X == ItemsOf(items[i], items, T)
    <2>. DEFINE only == {i}
    <2>1. only \cup {j} \in SUBSET X /\ X \in SUBSET T /\ j \notin only
      BY <1>5 DEF ItemsOf
    <2>2. IsFiniteSet(only) /\ Cardinality(only) = 1
      BY FS_Singleton
    <2>. HIDE DEF only
    <2>3. Cardinality(only \cup {j}) = 2
      BY <2>1, <2>2, OneAndAnother
    <2>. HIDE DEF X
    <2>4. IsFiniteSet(X) /\ Cardinality(X) \in Nat
      BY <1>2, <2>1, FS_Subset, FS_CardinalityType
    <2>5. 2 <= Cardinality(X)
      BY <2>1, <2>3, <2>4, FS_Subset
    <2>6. Cardinality(ItemsOf(y, items, T)) = 0
      BY <1>4, FS_EmptySet
    <2>7. Cardinality(X) > Cardinality(ItemsOf(y, items, T)) + 1
      BY <2>4, <2>5, <2>6
    <2>8. ItemsOf(y, items, T) = ItemsOf(y, items, N)
      BY <2>7, TakenEvenly DEF X
    <2>. QED
      BY <1>4, <2>8
  <1>6. f \in Injection(T, P)
    <2>1. f \in [T -> P]
      BY DEF Range
    <2>2. \A i, j \in T : f[i] = f[j] => i = j
      BY <1>5
    <2>. QED
      BY <2>1, <2>2 DEF Injection, IsInjective
  <1>. HIDE DEF f
  <1>7. IsFiniteSet(P) /\ Cardinality(P) = Cardinality(Range(items)) - 1
    BY FS_RemoveElement
  <1>8. Cardinality(Range(items)) \in Nat
    BY FS_CardinalityType
  <1>. HIDE DEF P
  <1>9. Cardinality(T) <= Cardinality(P)
    BY <1>6, <1>7, FS_Injection
  <1>10. T = N
    BY <1>2, <1>7, <1>8, <1>9
  <1>. QED
    BY <1>3, <1>10

\* What is picked, of any items: each once, evenly, and more under a larger limit.
LEMMA SpreadsEvenly ==
    ASSUME NEW items \in Seq(Nat), NEW limit \in 0..Len(items)
    PROVE  LET all == SpreadAcrossClusters(items, Len(items))
               picked == SpreadAcrossClusters(items, limit)
               taken(p) == Cardinality({i \in DOMAIN picked : items[picked[i]] = p})
               has(p) == Cardinality({i \in DOMAIN items : items[i] = p})
           IN  /\ Len(picked) = limit /\ IsInjective(picked)
               /\ \A p, q \in ToSet(items) : taken(p) > taken(q) + 1 => taken(q) = has(q)
               /\ IsPrefix(picked, all)
  <1>. DEFINE n == Len(items)
              N == DOMAIN items
              all == SpreadAcrossClusters(items, n)
              picked == SpreadAcrossClusters(items, limit)
              taken(z) == Cardinality({i \in DOMAIN picked : items[picked[i]] = z})
              has(z) == Cardinality({i \in N : items[i] = z})
  <1>1. n \in Nat /\ limit \in Nat /\ limit <= n /\ n \in 0..n
    OBVIOUS
  <1>2. PICK list : /\ ByTurns(list, items)
                 /\ \A m : RoundRobin(items, m) = SubSeq(list, 1, Min({m, Len(items)}))
    BY RoundsAreByTurns
  <1>3. picked = SubSeq(list, 1, limit) /\ all = SubSeq(list, 1, n)
    <2>1. Min({limit, n}) = limit /\ Min({n, n}) = n
      <3>. HIDE DEF n
      <3>. QED
        BY <1>1, LesserOfTwo
    <2>2. RoundRobin(items, limit) = SubSeq(list, 1, limit)
      BY <1>2, <2>1
    <2>3. RoundRobin(items, n) = SubSeq(list, 1, n)
      BY <1>2, <2>1
    <2>. QED
      BY <2>2, <2>3 DEF SpreadAcrossClusters
  <1>. DEFINE T == Taken(list, limit)
  <1>4. /\ Len(picked) = limit /\ DOMAIN picked = 1..limit
        /\ \A k \in 1..limit : picked[k] = list[k]
        /\ Different(picked, 1..limit) /\ picked \in Bijection(1..limit, T)
    BY <1>2, <1>3, PicksAreTaken
  <1>5. Len(all) = n /\ DOMAIN all = 1..n /\ \A k \in 1..n : all[k] = list[k]
    <2>. HIDE DEF all
    <2>. QED
      BY <1>1, <1>2, <1>3, PicksAreTaken
  <1>6. /\ T \in SUBSET N
        /\ \A i \in T : \A j \in N : Earlier(items, j, i) => j \in T
    BY <1>2, TakenIsDownward
  <1>7. ASSUME NEW x
        PROVE  taken(x) = Cardinality(ItemsOf(x, items, T))
    <2>. HIDE DEF picked, T, N
    <2>. QED
      BY <1>1, <1>4, <1>6, PicksOfAPattern DEF N
  <1>8. ASSUME NEW x, NEW y, taken(x) > taken(y) + 1
        PROVE  taken(y) = has(y)
    <2>1. Cardinality(ItemsOf(x, items, T)) > Cardinality(ItemsOf(y, items, T)) + 1
      BY <1>7, <1>8
    <2>2. ItemsOf(y, items, T) = ItemsOf(y, items, N)
      <3>. HIDE DEF T
      <3>. QED
        BY <1>6, <2>1, TakenEvenly
    <2>3. has(y) = Cardinality(ItemsOf(y, items, N))
      BY DEF ItemsOf
    <2>4. taken(y) = Cardinality(ItemsOf(y, items, T))
      BY <1>7
    <2>. QED
      BY <2>2, <2>3, <2>4
  <1>9. IsInjective(picked)
    BY <1>4 DEF Different, IsInjective
  <1>10. IsPrefix(picked, all)
    <2>. HIDE DEF picked, all
    <2>1. SubSeq(picked, 1, limit) = [k \in 1..limit |-> list[k]]
      <3>1. SubSeq(picked, 1, limit) = [k \in 1..limit |-> picked[k]]
        BY <1>1, <1>4
      <3>. QED
        BY <1>4, <3>1
    <2>2. SubSeq(all, 1, limit) = [k \in 1..limit |-> list[k]]
      <3>1. SubSeq(all, 1, limit) = [k \in 1..limit |-> all[k]]
        BY <1>1, <1>5
      <3>. QED
        BY <1>1, <1>5, <3>1
    <2>. QED
      BY <1>1, <1>4, <1>5, <2>1, <2>2 DEF IsPrefix
  <1>11. \A x, y \in ToSet(items) : taken(x) > taken(y) + 1 => taken(y) = has(y)
    <2>. HIDE DEF taken, has
    <2>. QED
      BY <1>8
  <1>12. Len(picked) = limit
    BY <1>4
  <1>. QED
    BY <1>9, <1>10, <1>11, <1>12

\* The places of the silent errors, cell after cell.
PlaceBefore(a, b) == a[1] < b[1] \/ (a[1] = b[1] /\ a[2] < b[2])

SilentInOrder(cells) ==
    Sorted(SetToSeq(Silent(cells)), LAMBDA a, b : a[1] < b[1] \/ (a[1] = b[1] /\ a[2] < b[2]))

\* What the items of cells are: rows of a pattern, each of its own arm and item.
PickRows ==
    [pattern : Nat, outcome : {"correct", "silent_error", "visible_failure"}, arm : Nat, n : Nat]

ToldApart(cells) ==
    \A c, d \in DOMAIN cells : \A i \in DOMAIN cells[c], j \in DOMAIN cells[d] :
        cells[c][i] = cells[d][j] => c = d /\ i = j

LEMMA SilentIsFinite ==
    ASSUME NEW cells \in Seq(Seq(PickRows))
    PROVE  IsFiniteSet(Silent(cells))
  <1>. DEFINE D == DOMAIN cells
              of(c) == {i \in DOMAIN cells[c] : cells[c][i].outcome = "silent_error"}
              slices == [c \in D |-> {c} \X of(c)]
              T == {slices[c] : c \in D}
  <1>1. IsFiniteSet(D)
    <2>1. D = 1..Len(cells) /\ Len(cells) \in Nat
      OBVIOUS
    <2>. QED
      BY <2>1, FS_Interval
  <1>2. ASSUME NEW c \in D
        PROVE  IsFiniteSet(slices[c])
    <2>1. cells[c] \in Seq(PickRows)
      OBVIOUS
    <2>2. DOMAIN cells[c] = 1..Len(cells[c]) /\ Len(cells[c]) \in Nat
      BY <2>1
    <2>3. IsFiniteSet(DOMAIN cells[c])
      BY <2>2, FS_Interval
    <2>4. of(c) \in SUBSET DOMAIN cells[c]
      OBVIOUS
    <2>. HIDE DEF of
    <2>5. IsFiniteSet(of(c)) /\ IsFiniteSet({c})
      BY <2>3, <2>4, FS_Subset, FS_Singleton
    <2>6. IsFiniteSet({c} \X of(c))
      BY <2>5, FS_Product
    <2>. QED
      BY <2>6
  <1>3. UNION T = Silent(cells)
    BY DEF Silent
  <1>4. slices \in Surjection(D, T)
    BY DEF Surjection
  <1>5. \A t \in T : IsFiniteSet(t)
    BY <1>2
  <1>. HIDE DEF T, slices, D
  <1>6. IsFiniteSet(T)
    BY <1>1, <1>4, FS_Surjection
  <1>. QED
    BY <1>3, <1>5, <1>6, FS_UNION

LEMMA SilentPlaces ==
    ASSUME NEW cells \in Seq(Seq(PickRows)), NEW t
    PROVE  /\ t \in Silent(cells) => /\ t = <<t[1], t[2]>>
                                     /\ t[1] \in DOMAIN cells /\ t[2] \in DOMAIN cells[t[1]]
                                     /\ t[1] \in Nat /\ t[2] \in Nat
                                     /\ cells[t[1]][t[2]] \in PickRows
                                     /\ cells[t[1]][t[2]].outcome = "silent_error"
           /\ \A c \in DOMAIN cells : \A i \in DOMAIN cells[c] :
                  cells[c][i].outcome = "silent_error" => <<c, i>> \in Silent(cells)
  <1>1. ASSUME t \in Silent(cells)
        PROVE  /\ t = <<t[1], t[2]>>
               /\ t[1] \in DOMAIN cells /\ t[2] \in DOMAIN cells[t[1]]
               /\ t[1] \in Nat /\ t[2] \in Nat
               /\ cells[t[1]][t[2]] \in PickRows
               /\ cells[t[1]][t[2]].outcome = "silent_error"
    <2>1. PICK c \in DOMAIN cells :
              t \in {c} \X {i \in DOMAIN cells[c] : cells[c][i].outcome = "silent_error"}
      BY <1>1 DEF Silent
    <2>2. /\ t = <<t[1], t[2]>> /\ t[1] \in DOMAIN cells /\ t[2] \in DOMAIN cells[t[1]]
          /\ cells[t[1]][t[2]].outcome = "silent_error"
      BY <2>1
    <2>3. cells[t[1]] \in Seq(PickRows)
      BY <2>2
    <2>. QED
      BY <2>2, <2>3
  <1>2. \A c \in DOMAIN cells : \A i \in DOMAIN cells[c] :
            cells[c][i].outcome = "silent_error" => <<c, i>> \in Silent(cells)
    BY DEF Silent
  <1>. QED
    BY <1>1, <1>2

\* In order, each is there once.
LEMMA SilentOnce ==
    ASSUME NEW cells \in Seq(Seq(PickRows))
    PROVE  /\ Cardinality(Silent(cells)) \in Nat
           /\ SilentInOrder(cells) \in Bijection(1..Cardinality(Silent(cells)), Silent(cells))
  <1>. DEFINE S == Silent(cells)
              k == Cardinality(S)
              N == 1..k
              s == SetToSeq(S)
              InPlace(p) == /\ IsInjective(p)
                            /\ \A m, n \in DOMAIN s : m < n =>
                                  \/ (s[p[m]][1] < s[p[n]][1]
                                      \/ (s[p[m]][1] = s[p[n]][1] /\ s[p[m]][2] < s[p[n]][2]))
                                  \/ ~(s[p[n]][1] < s[p[m]][1]
                                       \/ (s[p[n]][1] = s[p[m]][1] /\ s[p[n]][2] < s[p[m]][2]))
                                     /\ p[m] < p[n]
              place == CHOOSE p \in [DOMAIN s -> DOMAIN s] : InPlace(p)
              listed == [n \in DOMAIN s |-> s[place[n]]]
              E == {e \in N \X N : PlaceBefore(s[e[1]], s[e[2]])}
  <1>1. SilentInOrder(cells) = listed
    BY DEF SilentInOrder, Sorted
  <1>2. k \in Nat /\ s \in [N -> S] /\ Different(s, N) /\ Onto(s, N, S)
    BY SilentIsFinite, SetAsSequence, FS_CardinalityType
  <1>3. \A t \in S : t = <<t[1], t[2]>> /\ t[1] \in Nat /\ t[2] \in Nat
    BY SilentPlaces
  <1>. HIDE DEF S, k, s, N
  <1>4. N = 1..k /\ DOMAIN s = N
    BY <1>2 DEF N
  <1>5. \A i, j \in N : <<i, j>> \in E <=> PlaceBefore(s[i], s[j])
    OBVIOUS
  <1>. HIDE DEF E
  <1>6. Arranges(E, N)
    <2>1. \A i \in N : s[i] \in S /\ s[i][1] \in Nat /\ s[i][2] \in Nat /\ s[i] = <<s[i][1], s[i][2]>>
      BY <1>2, <1>3
    <2>2. \A i, j \in N : i # j => s[i][1] # s[j][1] \/ s[i][2] # s[j][2]
      BY <1>2, <2>1 DEF Different
    <2>3. \A i \in N : <<i, i>> \notin E
      BY <1>5, <2>1 DEF PlaceBefore
    <2>4. \A i, j \in N : i # j => <<i, j>> \in E \/ <<j, i>> \in E
      BY <1>5, <2>1, <2>2 DEF PlaceBefore
    <2>5. ASSUME NEW i \in N, NEW j \in N, NEW l \in N, <<i, j>> \in E, <<j, l>> \in E
          PROVE  <<i, l>> \in E
      <3>1. PlaceBefore(s[i], s[j]) /\ PlaceBefore(s[j], s[l])
        BY <1>5, <2>5
      <3>2. /\ s[i][1] \in Nat /\ s[i][2] \in Nat /\ s[j][1] \in Nat /\ s[j][2] \in Nat
            /\ s[l][1] \in Nat /\ s[l][2] \in Nat
        BY <2>1
      <3>3. PlaceBefore(s[i], s[l])
        BY <3>1, <3>2 DEF PlaceBefore
      <3>. QED
        BY <1>5, <3>3
    <2>. QED
      BY <2>3, <2>4, <2>5 DEF Arranges
  <1>7. \E p \in [DOMAIN s -> DOMAIN s] : InPlace(p)
    <2>1. PICK p \in [N -> N] : Different(p, N) /\ Follows(p, E, N)
      BY <1>2, <1>4, <1>6, OrderIsFollowed
    <2>2. IsInjective(p)
      BY <2>1 DEF Different, IsInjective
    <2>3. ASSUME NEW m \in N, NEW n \in N, m < n
          PROVE  s[p[m]][1] < s[p[n]][1] \/ (s[p[m]][1] = s[p[n]][1] /\ s[p[m]][2] < s[p[n]][2])
      <3>1. p[m] \in N /\ p[n] \in N
        BY <2>1
      <3>2. <<p[m], p[n]>> \in E
        BY <2>1, <2>3 DEF Follows
      <3>. QED
        BY <1>5, <3>1, <3>2 DEF PlaceBefore
    <2>4. InPlace(p)
      BY <1>4, <2>2, <2>3
    <2>. HIDE DEF InPlace
    <2>. QED
      BY <1>4, <2>1, <2>4
  <1>8. place \in [N -> N] /\ IsInjective(place)
    <2>1. place \in [DOMAIN s -> DOMAIN s] /\ InPlace(place)
      <3>. HIDE DEF InPlace
      <3>. QED
        BY <1>7
    <2>. QED
      BY <1>4, <2>1
  <1>. HIDE DEF place
  <1>9. Different(place, N) /\ Onto(place, N, N)
    <2>1. Different(place, N)
      BY <1>8 DEF Different, IsInjective
    <2>. QED
      BY <1>2, <1>4, <1>8, <2>1, DifferentIsComplete
  <1>10. listed \in Bijection(N, S)
    <2>1. listed \in [N -> S]
      BY <1>2, <1>4, <1>8
    <2>2. \A i, j \in N : listed[i] = listed[j] => i = j
      BY <1>2, <1>4, <1>8, <1>9 DEF Different
    <2>3. ASSUME NEW t \in S
          PROVE  \E i \in N : listed[i] = t
      <3>1. PICK m \in N : s[m] = t
        BY <1>2 DEF Onto
      <3>2. PICK i \in N : place[i] = m
        BY <1>9 DEF Onto
      <3>. QED
        BY <1>4, <3>1, <3>2
    <2>. QED
      BY <2>1, <2>2, <2>3 DEF Bijection, Injection, Surjection, IsInjective
  <1>. HIDE DEF listed
  <1>. QED
    BY <1>1, <1>2, <1>10 DEF S, k, N

\* The silent errors of cells, in the order they are picked from.
SilentRows(cells) == {row \in UNION {ToSet(cells[c]) : c \in DOMAIN cells} : row.outcome = "silent_error"}

RowAt(cells, i) == cells[SilentInOrder(cells)[i][1]][SilentInOrder(cells)[i][2]]

LEMMA EachRowHasAPlace ==
    ASSUME NEW cells \in Seq(Seq(PickRows)), ToldApart(cells)
    PROVE  LET N == DOMAIN SilentInOrder(cells)
               placed == [i \in N |-> RowAt(cells, i)]
           IN  /\ placed \in Bijection(N, SilentRows(cells))
               /\ \A i \in N : RowAt(cells, i).pattern \in Nat
               /\ N = 1..Cardinality(SilentRows(cells)) /\ IsFiniteSet(SilentRows(cells))
               /\ Cardinality(SilentRows(cells)) \in Nat
  <1>. DEFINE S == Silent(cells)
              R == SilentRows(cells)
              pool == SilentInOrder(cells)
              N == DOMAIN pool
              placed == [i \in N |-> RowAt(cells, i)]
              k == Cardinality(S)
  <1>1. k \in Nat /\ pool \in Bijection(1..k, S)
    BY SilentOnce
  <1>2. /\ N = 1..k
        /\ \A i \in N : pool[i] \in S
        /\ \A i, j \in N : pool[i] = pool[j] => i = j
        /\ \A t \in S : \E i \in N : pool[i] = t
    <2>. HIDE DEF pool, S, k
    <2>. QED
      BY <1>1 DEF Bijection, Injection, Surjection, IsInjective
  <1>3. ASSUME NEW t \in S
        PROVE  /\ t = <<t[1], t[2]>> /\ t[1] \in DOMAIN cells /\ t[2] \in DOMAIN cells[t[1]]
               /\ cells[t[1]][t[2]] \in PickRows /\ cells[t[1]][t[2]].outcome = "silent_error"
    BY SilentPlaces
  <1>4. ASSUME NEW i \in N
        PROVE  RowAt(cells, i) \in R /\ RowAt(cells, i) \in PickRows
    <2>. DEFINE t == pool[i]
    <2>1. t \in S /\ RowAt(cells, i) = cells[t[1]][t[2]]
      BY <1>2 DEF RowAt
    <2>. HIDE DEF t, S
    <2>. QED
      BY <1>3, <2>1 DEF SilentRows, ToSet
  <1>5. ASSUME NEW i \in N, NEW j \in N, RowAt(cells, i) = RowAt(cells, j)
        PROVE  i = j
    <2>. DEFINE t == pool[i]
                u == pool[j]
    <2>1. /\ t \in S /\ RowAt(cells, i) = cells[t[1]][t[2]]
          /\ u \in S /\ RowAt(cells, j) = cells[u[1]][u[2]]
      BY <1>2 DEF RowAt
    <2>. HIDE DEF t, u, S
    <2>2. /\ t[1] \in DOMAIN cells /\ t[2] \in DOMAIN cells[t[1]]
          /\ u[1] \in DOMAIN cells /\ u[2] \in DOMAIN cells[u[1]]
          /\ t = <<t[1], t[2]>> /\ u = <<u[1], u[2]>>
      BY <1>3, <2>1
    <2>4. cells[t[1]][t[2]] = cells[u[1]][u[2]]
      BY <1>5, <2>1
    <2>5. t[1] = u[1] /\ t[2] = u[2]
      BY <2>2, <2>4 DEF ToldApart
    <2>3. t = u
      BY <2>2, <2>5
    <2>. QED
      BY <1>2, <2>3 DEF t, u
  <1>6. ASSUME NEW row \in R
        PROVE  \E i \in N : RowAt(cells, i) = row
    <2>1. PICK c \in DOMAIN cells : row \in ToSet(cells[c])
      BY DEF SilentRows
    <2>2. PICK m \in DOMAIN cells[c] : row = cells[c][m]
      BY <2>1 DEF ToSet
    <2>3. <<c, m>> \in S
      BY <2>2, SilentPlaces DEF SilentRows
    <2>4. PICK i \in N : pool[i] = <<c, m>>
      BY <1>2, <2>3
    <2>5. RowAt(cells, i) = cells[c][m]
      BY <2>4 DEF RowAt
    <2>. QED
      BY <2>2, <2>5
  <1>7. placed \in Bijection(N, R)
    <2>. HIDE DEF N, R
    <2>. QED
      BY <1>4, <1>5, <1>6 DEF Bijection, Injection, Surjection, IsInjective
  <1>8. \A i \in N : RowAt(cells, i).pattern \in Nat
    BY <1>4 DEF PickRows
  <1>. HIDE DEF placed, R, N, k, S, pool
  <1>9. IsFiniteSet(N) /\ Cardinality(N) = k
    BY <1>1, <1>2, FS_Interval
  <1>10. IsFiniteSet(R) /\ Cardinality(R) = k
    <2>1. ExistsBijection(N, R)
      BY <1>7 DEF ExistsBijection
    <2>. QED
      BY <1>9, <2>1, FS_Bijection
  <1>. QED
    BY <1>1, <1>2, <1>7, <1>8, <1>10 DEF placed, R, N, pool

\* What is picked of cells, under any limit.
LEMMA CandidatesCover ==
    ASSUME NEW cells \in Seq(Seq(PickRows)), ToldApart(cells), NEW limit \in Nat
    PROVE  LET silent == SilentRows(cells)
               patterns == {row.pattern : row \in silent}
               picked == Candidates(cells, limit)
           IN  /\ ToSet(picked) \subseteq silent /\ IsInjective(picked)
               /\ Len(picked) = Min({limit, Cardinality(silent)})
               /\ limit >= Cardinality(patterns) => {row.pattern : row \in ToSet(picked)} = patterns
  <1>. DEFINE silent == SilentRows(cells)
              N == DOMAIN SilentInOrder(cells)
              placed == [i \in N |-> RowAt(cells, i)]
              items == [i \in N |-> RowAt(cells, i).pattern]
              turn == RoundRobin(items, limit)
              picked == [i \in DOMAIN turn |-> RowAt(cells, turn[i])]
              patterns == {row.pattern : row \in silent}
              k == Cardinality(silent)
              m == Min({limit, k})
  <1>1. Candidates(cells, limit) = picked
    BY DEF Candidates, RowAt, SilentInOrder, Silent
  <1>2. /\ placed \in Bijection(N, silent)
        /\ \A i \in N : RowAt(cells, i).pattern \in Nat
        /\ N = 1..k /\ IsFiniteSet(silent) /\ k \in Nat
    BY EachRowHasAPlace
  <1>3. /\ \A i \in N : RowAt(cells, i) \in silent
        /\ \A i, j \in N : RowAt(cells, i) = RowAt(cells, j) => i = j
        /\ \A row \in silent : \E i \in N : RowAt(cells, i) = row
    <2>1. /\ \A i \in N : placed[i] \in silent
          /\ \A i, j \in N : placed[i] = placed[j] => i = j
          /\ \A row \in silent : \E i \in N : placed[i] = row
      <3>. HIDE DEF placed, silent, N
      <3>. QED
        BY <1>2 DEF Bijection, Injection, Surjection, IsInjective
    <2>. QED
      BY <2>1
  <1>. HIDE DEF silent, N
  <1>4. items \in Seq(Nat) /\ Len(items) = k /\ DOMAIN items = N
    <2>1. items \in [1..k -> Nat]
      BY <1>2
    <2>. HIDE DEF items, k
    <2>2. items \in UNION {[1..n -> Nat] : n \in Nat}
      BY <1>2, <2>1
    <2>3. items \in Seq(Nat)
      BY <2>2, SeqDef, Zenon
    <2>4. Len(items) = k
      BY <1>2, <2>1, <2>3, LenProperties
    <2>. QED
      BY <1>2, <2>1, <2>3, <2>4
  <1>5. \A i \in N : items[i] = RowAt(cells, i).pattern
    OBVIOUS
  <1>. HIDE DEF items
  <1>6. PICK p : /\ ByTurns(p, items)
                 /\ \A l : RoundRobin(items, l) = SubSeq(p, 1, Min({l, Len(items)}))
    BY <1>4, RoundsAreByTurns
  <1>7. /\ m \in 0..k /\ m = IF limit <= k THEN limit ELSE k
        /\ turn = SubSeq(p, 1, m)
    <2>1. m = IF limit <= k THEN limit ELSE k
      <3>. HIDE DEF k
      <3>1. k \in Int /\ limit \in Int
        BY <1>2
      <3>2. Min({limit, k}) = IF limit <= k THEN limit ELSE k
        BY <3>1, LesserOfTwo
      <3>. QED
        BY <3>2
    <2>. HIDE DEF k, m
    <2>2. m \in 0..k
      BY <1>2, <2>1
    <2>3. turn = SubSeq(p, 1, Min({limit, Len(items)}))
      BY <1>6
    <2>. QED
      BY <1>4, <2>1, <2>2, <2>3 DEF m
  <1>. DEFINE T == Taken(p, m)
  <1>8. /\ DOMAIN turn = 1..m /\ turn \in Bijection(1..m, T)
    <2>. HIDE DEF turn, m, T
    <2>. QED
      BY <1>4, <1>6, <1>7, PicksAreTaken DEF T
  <1>9. /\ T \in SUBSET N /\ \A i \in T : \A j \in N : Earlier(items, j, i) => j \in T
    <2>. HIDE DEF m
    <2>. QED
      BY <1>4, <1>6, <1>7, TakenIsDownward
  <1>. HIDE DEF turn, T, m
  <1>10. /\ \A i \in 1..m : turn[i] \in T
         /\ \A i, j \in 1..m : turn[i] = turn[j] => i = j
         /\ \A t \in T : \E i \in 1..m : turn[i] = t
    BY <1>8 DEF Bijection, Injection, Surjection, IsInjective
  <1>11. ToSet(picked) = {RowAt(cells, t) : t \in T} /\ ToSet(picked) \subseteq silent
    BY <1>3, <1>8, <1>9, <1>10 DEF ToSet
  <1>12. IsInjective(picked)
    BY <1>3, <1>8, <1>9, <1>10 DEF IsInjective
  <1>13. Len(picked) = m
    BY <1>7, <1>8
  <1>14. Range(items) = patterns
    BY <1>3, <1>4, <1>5 DEF Range
  <1>15. ASSUME limit >= Cardinality(patterns)
         PROVE  {row.pattern : row \in ToSet(picked)} = patterns
    <2>1. {row.pattern : row \in ToSet(picked)} = {items[t] : t \in T}
      <3>1. {row.pattern : row \in ToSet(picked)} = {RowAt(cells, t).pattern : t \in T}
        <4>. HIDE DEF picked
        <4>. QED
          BY <1>11
      <3>2. \A t \in T : RowAt(cells, t).pattern = items[t]
        BY <1>5, <1>9
      <3>. QED
        BY <3>1, <3>2
    <2>2. IsFiniteSet(Range(items))
      <3>1. items \in Surjection(N, Range(items))
        BY <1>4 DEF Surjection, Range
      <3>2. IsFiniteSet(N)
        BY <1>2, FS_Interval
      <3>. QED
        BY <3>1, <3>2, FS_Surjection
    <2>3. Cardinality(T) = m
      <3>1. IsFiniteSet(1..m) /\ Cardinality(1..m) = m
        BY <1>7, FS_Interval
      <3>2. ExistsBijection(1..m, T)
        BY <1>8 DEF ExistsBijection
      <3>. QED
        BY <3>1, <3>2, FS_Bijection
    <2>4. T = N \/ Cardinality(T) >= Cardinality(Range(items))
      <3>1. CASE limit <= k
        BY <1>7, <1>14, <1>15, <2>3, <3>1
      <3>2. CASE ~(limit <= k)
        <4>1. IsFiniteSet(N) /\ Cardinality(N) = k
          BY <1>2, FS_Interval
        <4>2. Cardinality(T) = Cardinality(N)
          BY <1>7, <2>3, <3>2, <4>1
        <4>. QED
          BY <1>9, <4>1, <4>2, FS_Subset
      <3>. QED
        BY <3>1, <3>2
    <2>5. \A y \in Range(items) : \E i \in T : items[i] = y
      BY <1>4, <1>9, <2>2, <2>4, EveryPatternIsTaken
    <2>6. {items[t] : t \in T} = Range(items)
      BY <1>4, <1>9, <2>5 DEF Range
    <2>. QED
      BY <1>14, <2>1, <2>6
  <1>. HIDE DEF patterns, picked
  <1>. QED
    BY <1>1, <1>11, <1>12, <1>13, <1>15 DEF patterns, silent, m

\* What is asked about picks: items known by their pattern, cells of rows.
PicksAsk ==
    /\ asked.topic = "spread" => asked.items \in Seq(Nat)
    /\ asked.topic = "candidates" => asked.cells \in Seq(Seq(PickRows)) /\ ToldApart(asked.cells)

\* Of any items and any limit, no pattern is picked from twice more often than another with
\* items left, and a larger limit only adds; of any cells, what is triaged are silent errors,
\* each once, as many as the limit admits, and every pattern as soon as it admits them all.
\* MCTriage's PicksCoverThePatterns, of build.py's spread_across_clusters and failures.py's
\* candidates.
THEOREM PicksCover == PicksAsk => PicksCoverThePatterns
  <1>1. ASSUME PicksAsk, asked.topic = "spread"
        PROVE  SpreadIsEvenAndStable
    <2>1. asked.items \in Seq(Nat)
      BY <1>1 DEF PicksAsk
    <2>. DEFINE items == asked.items
    <2>. HIDE DEF items
    <2>2. items \in Seq(Nat)
      BY <2>1 DEF items
    <2>3. ASSUME NEW limit \in 0..Len(items)
          PROVE  LET all == SpreadAcrossClusters(items, Len(items))
                     picked == SpreadAcrossClusters(items, limit)
                     taken(p) == Cardinality({i \in DOMAIN picked : items[picked[i]] = p})
                     has(p) == Cardinality({i \in DOMAIN items : items[i] = p})
                 IN  /\ Len(picked) = limit /\ IsInjective(picked)
                     /\ \A p, q \in ToSet(items) : taken(p) > taken(q) + 1 => taken(q) = has(q)
                     /\ IsPrefix(picked, all)
      BY <2>2, SpreadsEvenly
    <2>. QED
      BY <1>1, <2>3, Zenon DEF SpreadIsEvenAndStable, items
  <1>2. ASSUME PicksAsk, asked.topic = "candidates"
        PROVE  CandidatesCoverThePatterns
    <2>. DEFINE cells == asked.cells
                pool == UNION {ToSet(cells[c]) : c \in DOMAIN cells}
    <2>1. cells \in Seq(Seq(PickRows)) /\ ToldApart(cells)
      BY <1>2 DEF PicksAsk
    <2>. HIDE DEF cells
    <2>2. Cardinality(pool) \in Nat
      <3>. DEFINE D == DOMAIN cells
                  of == [c \in D |-> ToSet(cells[c])]
                  T == {ToSet(cells[c]) : c \in D}
      <3>1. D = 1..Len(cells) /\ Len(cells) \in Nat /\ \A c \in D : cells[c] \in Seq(PickRows)
        BY <2>1
      <3>2. of \in Surjection(D, T)
        BY DEF Surjection
      <3>3. ASSUME NEW c \in D
            PROVE  IsFiniteSet(ToSet(cells[c]))
        <4>. DEFINE s == cells[c]
                    M == DOMAIN s
        <4>1. M = 1..Len(s) /\ Len(s) \in Nat
          BY <3>1
        <4>2. s \in Surjection(M, ToSet(s))
          <5>1. s = [i \in M |-> s[i]]
            BY <3>1
          <5>. QED
            BY <5>1 DEF Surjection, ToSet
        <4>. HIDE DEF M, s
        <4>3. IsFiniteSet(M)
          BY <4>1, FS_Interval
        <4>4. IsFiniteSet(ToSet(s))
          BY <4>2, <4>3, FS_Surjection
        <4>. QED
          BY <4>4 DEF s
      <3>4. \A t \in T : IsFiniteSet(t)
        BY <3>3
      <3>. HIDE DEF D, T, of
      <3>5. IsFiniteSet(D)
        BY <3>1, FS_Interval
      <3>6. IsFiniteSet(T)
        BY <3>2, <3>5, FS_Surjection
      <3>7. IsFiniteSet(UNION T)
        BY <3>4, <3>6, FS_UNION
      <3>. QED
        BY <3>7, FS_CardinalityType DEF T, D
    <2>. HIDE DEF pool
    <2>3. ASSUME NEW limit \in 0..Cardinality(pool)
          PROVE  LET silent == SilentRows(cells)
                     patterns == {row.pattern : row \in silent}
                     picked == Candidates(cells, limit)
                 IN  /\ ToSet(picked) \subseteq silent /\ IsInjective(picked)
                     /\ Len(picked) = Min({limit, Cardinality(silent)})
                     /\ limit >= Cardinality(patterns) =>
                            {row.pattern : row \in ToSet(picked)} = patterns
      <3>1. limit \in Nat
        BY <2>2
      <3>. QED
        BY <2>1, <3>1, CandidatesCover
    <2>. QED
      BY <1>2, <2>3, Zenon DEF CandidatesCoverThePatterns, SilentRows, pool, cells
  <1>. QED
    BY <1>1, <1>2 DEF PicksCoverThePatterns, SpreadIsEvenAndStable, CandidatesCoverThePatterns

\* No other question is taken for one of picks.
LEMMA OthersAskNoPicks ==
    ASSUME AskAny \/ Again, ~AskSpread, ~AskCandidates
    PROVE  asked'.topic \notin {"spread", "candidates"}
  <1>1. ASSUME NEW topic, NEW question, Ask(topic, question)
        PROVE  asked'.topic = topic
    BY <1>1 DEF Ask
  <1>2. CASE Again
    BY <1>2 DEF Again, Idle
  <1>3. CASE AskRowsEqual \/ AskGroups \/ AskJudge
    BY <1>1, <1>3 DEF AskRowsEqual, AskGroups, AskJudge
  <1>4. CASE AskPattern
    BY <1>1, <1>4 DEF AskPattern
  <1>5. CASE AskAbstain \/ AskEscalate
    BY <1>1, <1>5 DEF AskAbstain, AskEscalate
  <1>6. CASE AskComplaints \/ AskVerdict \/ AskSurface
    BY <1>1, <1>6 DEF AskComplaints, AskVerdict, AskSurface
  <1>7. CASE AskTable \/ AskPair \/ AskTwins \/ AskSix
    BY <1>1, <1>7 DEF AskTable, AskPair, AskTwins, AskSix
  <1>8. CASE AskScreens
    BY <1>1, <1>8 DEF AskScreens
  <1>9. CASE AskLedgers \/ AskPreflight
    BY <1>1, <1>9 DEF AskLedgers, AskPreflight
  <1>. QED
    BY <1>2, <1>3, <1>4, <1>5, <1>6, <1>7, <1>8, <1>9 DEF AskAny

\* The rows of MCTriage's cells name their arm and their item.
ArmRows(s, arm) == [i \in DOMAIN s |-> [pattern |-> s[i][1], outcome |-> s[i][2], arm |-> arm, n |-> i]]

LEMMA RowsNameTheirPlace ==
    ASSUME NEW m \in Nat, NEW s \in [1..m -> Outcomes], NEW arm \in Nat
    PROVE  /\ ArmRows(s, arm) \in Seq(PickRows)
           /\ \A i \in DOMAIN ArmRows(s, arm) : ArmRows(s, arm)[i].arm = arm /\ ArmRows(s, arm)[i].n = i
  <1>1. \A i \in 1..m : s[i] \in (1..2) \X {"silent_error", "correct"}
    BY DEF Outcomes
  <1>2. ArmRows(s, arm) \in [1..m -> PickRows]
    <2>1. ASSUME NEW i \in 1..m
          PROVE  [pattern |-> s[i][1], outcome |-> s[i][2], arm |-> arm, n |-> i] \in PickRows
      <3>1. s[i][1] \in Nat /\ i \in Nat
        BY <1>1
      <3>2. s[i][2] = "silent_error" \/ s[i][2] = "correct"
        BY <1>1
      <3>. QED
        BY <3>1, <3>2 DEF PickRows
    <2>2. DOMAIN s = 1..m
      OBVIOUS
    <2>. QED
      BY <2>1, <2>2 DEF ArmRows
  <1>3. ArmRows(s, arm) \in UNION {[1..k -> PickRows] : k \in Nat}
    BY <1>2
  <1>4. ArmRows(s, arm) \in Seq(PickRows)
    BY <1>3, SeqDef, Zenon
  <1>. QED
    BY <1>4 DEF ArmRows

\* So it holds of whatever the system asks of picks.
THEOREM PicksAlwaysCover == Spec => []PicksCoverThePatterns
  <1>1. Init => PicksAsk
    BY DEF Init, AskNothing, Idle, PicksAsk
  <1>2. PicksAsk /\ [Next]_<<asked, passVars>> => PicksAsk'
    <2>. SUFFICES ASSUME PicksAsk, [Next]_<<asked, passVars>>
                  PROVE  PicksAsk'
      OBVIOUS
    <2>1. CASE UNCHANGED asked
      BY <2>1 DEF PicksAsk
    <2>2. CASE AskSpread
      <3>1. PICK n \in 0..5 : \E items \in [1..n -> 1..3] : Ask("spread", [items |-> items])
        BY <2>2 DEF AskSpread
      <3>2. PICK items \in [1..n -> 1..3] : Ask("spread", [items |-> items])
        BY <3>1
      <3>3. asked'.topic = "spread" /\ asked'.items = items
        BY <3>2 DEF Ask
      <3>4. items \in Seq(Nat)
        <4>1. n \in Nat /\ items \in [1..n -> Nat]
          OBVIOUS
        <4>2. items \in UNION {[1..k -> Nat] : k \in Nat}
          BY <4>1
        <4>. QED
          BY <4>2, SeqDef, Zenon
      <3>. QED
        BY <3>3, <3>4 DEF PicksAsk
    <2>3. CASE AskCandidates
      <3>1. PICK m \in 0..2, n \in 0..2 :
                \E a \in [1..m -> Outcomes], b \in [1..n -> Outcomes] :
                    Ask("candidates", [cells |-> <<ArmRows(a, 1), ArmRows(b, 2)>>])
        BY <2>3 DEF AskCandidates, ArmRows
      <3>2. PICK a \in [1..m -> Outcomes], b \in [1..n -> Outcomes] :
                Ask("candidates", [cells |-> <<ArmRows(a, 1), ArmRows(b, 2)>>])
        BY <3>1
      <3>. DEFINE one == ArmRows(a, 1)
                  two == ArmRows(b, 2)
                  cells == <<one, two>>
      <3>3. asked'.topic = "candidates" /\ asked'.cells = cells
        BY <3>2 DEF Ask
      <3>4. /\ one \in Seq(PickRows) /\ \A i \in DOMAIN one : one[i].arm = 1 /\ one[i].n = i
            /\ two \in Seq(PickRows) /\ \A i \in DOMAIN two : two[i].arm = 2 /\ two[i].n = i
        <4>1. m \in Nat /\ n \in Nat /\ 1 \in Nat /\ 2 \in Nat
          OBVIOUS
        <4>2. one \in Seq(PickRows) /\ \A i \in DOMAIN one : one[i].arm = 1 /\ one[i].n = i
          BY <4>1, RowsNameTheirPlace
        <4>3. two \in Seq(PickRows) /\ \A i \in DOMAIN two : two[i].arm = 2 /\ two[i].n = i
          BY <4>1, RowsNameTheirPlace
        <4>. QED
          BY <4>2, <4>3
      <3>. HIDE DEF one, two
      <3>5. cells \in Seq(Seq(PickRows))
        <4>. DEFINE Q == Seq(PickRows)
        <4>1. one \in Q /\ two \in Q
          BY <3>4
        <4>. HIDE DEF Q
        <4>2. <<one, two>> \in Seq(Q)
          BY <4>1
        <4>. QED
          BY <4>2 DEF Q
      <3>6. ASSUME NEW c \in DOMAIN cells, NEW d \in DOMAIN cells,
                   NEW i \in DOMAIN cells[c], NEW j \in DOMAIN cells[d], cells[c][i] = cells[d][j]
            PROVE  c = d /\ i = j
        <4>1. DOMAIN cells = {1, 2} /\ cells[1] = one /\ cells[2] = two
          OBVIOUS
        <4>. HIDE DEF cells
        <4>2. /\ cells[c][i].arm = c /\ cells[c][i].n = i
              /\ cells[d][j].arm = d /\ cells[d][j].n = j
          BY <3>4, <4>1
        <4>. QED
          BY <3>6, <4>2
      <3>7. ToldApart(cells)
        <4>. HIDE DEF cells
        <4>. QED
          BY <3>6 DEF ToldApart
      <3>. HIDE DEF cells
      <3>. QED
        BY <3>3, <3>5, <3>7 DEF PicksAsk
    <2>4. CASE (AskAny \/ Again) /\ ~AskSpread /\ ~AskCandidates
      BY <2>4, OthersAskNoPicks DEF PicksAsk
    <2>. QED
      BY <2>1, <2>2, <2>3, <2>4 DEF Next
  <1>. QED
    BY <1>1, <1>2, PicksCover, PTL DEF Spec

-----------------------------------------------------------------------------
(* Grading: rows compared, of any values and any tolerance.                *)

\* What a result may hold.
AnyValue == Int \X Int
AnyRow == Seq(AnyValue)
AnyRows == Seq(AnyRow)

\* _sort_key orders values.
LEMMA KeysAreOrdered ==
    ASSUME NEW u \in AnyValue, NEW v \in AnyValue, NEW w \in AnyValue
    PROVE  /\ ~KeyLess(u, u)
           /\ u # v => KeyLess(u, v) \/ KeyLess(v, u)
           /\ KeyLess(u, v) /\ KeyLess(v, w) => KeyLess(u, w)
  <1>1. u[1] \in Int /\ u[2] \in Int /\ v[1] \in Int /\ v[2] \in Int /\ w[1] \in Int /\ w[2] \in Int
    BY DEF AnyValue
  <1>2. u # v => u[1] # v[1] \/ u[2] # v[2]
    BY DEF AnyValue
  <1>. QED
    BY <1>1, <1>2 DEF KeyLess, SortKey

\* Rows are compared value by value, the first that differs deciding.
LEMMA RowsTransitive ==
    ASSUME NEW r \in AnyRow, NEW s \in AnyRow, NEW t \in AnyRow, RowLess(r, s), RowLess(s, t)
    PROVE  RowLess(r, t)
  <1>0. /\ Len(r) \in Nat /\ Len(s) \in Nat /\ Len(t) \in Nat
        /\ \A j \in 1..Len(r) : r[j] \in AnyValue
        /\ \A j \in 1..Len(s) : s[j] \in AnyValue
        /\ \A j \in 1..Len(t) : t[j] \in AnyValue
    BY DEF AnyRow
  <1>1. PICK i \in 1..Len(s) : /\ \A j \in 1..(i - 1) : j <= Len(r) /\ r[j] = s[j]
                               /\ i > Len(r) \/ KeyLess(r[i], s[i])
    BY DEF RowLess, SortKey
  <1>2. PICK k \in 1..Len(t) : /\ \A j \in 1..(k - 1) : j <= Len(s) /\ s[j] = t[j]
                               /\ k > Len(s) \/ KeyLess(s[k], t[k])
    BY DEF RowLess, SortKey
  <1>3. CASE i < k
    <2>1. i \in 1..Len(t) /\ i \in 1..(k - 1)
      BY <1>0, <1>3
    <2>2. \A j \in 1..(i - 1) : j <= Len(r) /\ r[j] = t[j]
      BY <1>0, <1>1, <1>2, <1>3
    <2>3. s[i] = t[i]
      BY <1>2, <2>1
    <2>. QED
      BY <1>1, <2>1, <2>2, <2>3 DEF RowLess, SortKey
  <1>4. CASE i = k
    <2>1. \A j \in 1..(i - 1) : j <= Len(r) /\ r[j] = t[j]
      BY <1>1, <1>2, <1>4
    <2>2. i \in 1..Len(t) /\ i \in 1..Len(s) /\ KeyLess(s[i], t[i])
      BY <1>0, <1>2, <1>4
    <2>3. i > Len(r) \/ KeyLess(r[i], t[i])
      <3>1. CASE i > Len(r)
        BY <3>1
      <3>2. CASE i <= Len(r)
        <4>1. i \in 1..Len(r) /\ KeyLess(r[i], s[i])
          BY <1>0, <1>1, <3>2
        <4>. QED
          BY <1>0, <2>2, <4>1, KeysAreOrdered
      <3>. QED
        BY <1>0, <3>1, <3>2
    <2>. QED
      BY <2>1, <2>2, <2>3 DEF RowLess, SortKey
  <1>5. CASE k < i
    <2>1. k \in 1..Len(s) /\ k \in 1..(i - 1)
      BY <1>0, <1>5
    <2>2. r[k] = s[k] /\ KeyLess(s[k], t[k])
      BY <1>0, <1>1, <1>2, <2>1
    <2>3. \A j \in 1..(k - 1) : j <= Len(r) /\ r[j] = t[j]
      BY <1>0, <1>1, <1>2, <1>5
    <2>. QED
      BY <2>2, <2>3 DEF RowLess, SortKey
  <1>. QED
    BY <1>0, <1>3, <1>4, <1>5

\* Of two rows one is less, or they are the same.
LEMMA RowsTotal ==
    ASSUME NEW r \in AnyRow, NEW s \in AnyRow, r # s
    PROVE  RowLess(r, s) \/ RowLess(s, r)
  <1>0. /\ Len(r) \in Nat /\ Len(s) \in Nat
        /\ \A j \in 1..Len(r) : r[j] \in AnyValue
        /\ \A j \in 1..Len(s) : s[j] \in AnyValue
    BY DEF AnyRow
  <1>. DEFINE m == IF Len(r) <= Len(s) THEN Len(r) ELSE Len(s)
              D == {i \in 1..m : r[i] # s[i]}
  <1>1. m \in Nat /\ m <= Len(r) /\ m <= Len(s) /\ m \in {Len(r), Len(s)}
    BY <1>0
  <1>. HIDE DEF m
  <1>2. CASE D = {}
    <2>1. \A i \in 1..m : r[i] = s[i]
      BY <1>2
    <2>2. Len(r) # Len(s)
      <3>1. SUFFICES ASSUME Len(r) = Len(s) PROVE FALSE
        OBVIOUS
      <3>2. \A i \in 1..Len(r) : r[i] = s[i]
        BY <1>0, <1>1, <2>1, <3>1
      <3>. QED
        BY <3>1, <3>2, SeqEqual DEF AnyRow
    <2>3. CASE Len(r) < Len(s)
      <3>1. m + 1 \in 1..Len(s) /\ m + 1 > Len(r)
        BY <1>0, <1>1, <2>3
      <3>2. \A j \in 1..((m + 1) - 1) : j <= Len(r) /\ r[j] = s[j]
        BY <1>0, <1>1, <2>1
      <3>. QED
        BY <3>1, <3>2 DEF RowLess, SortKey
    <2>4. CASE Len(s) < Len(r)
      <3>1. m + 1 \in 1..Len(r) /\ m + 1 > Len(s)
        BY <1>0, <1>1, <2>4
      <3>2. \A j \in 1..((m + 1) - 1) : j <= Len(s) /\ s[j] = r[j]
        BY <1>0, <1>1, <2>1
      <3>. QED
        BY <3>1, <3>2 DEF RowLess, SortKey
    <2>. QED
      BY <1>0, <2>2, <2>3, <2>4
  <1>3. CASE D # {}
    <2>1. D \in SUBSET (1..m)
      OBVIOUS
    <2>2. PICK i \in D : \A c \in D : i <= c
      <3>. HIDE DEF D
      <3>. QED
        BY <1>1, <1>3, <2>1, LeastOf
    <2>3. i \in 1..Len(r) /\ i \in 1..Len(s) /\ r[i] # s[i]
      BY <1>0, <1>1
    <2>4. \A j \in 1..(i - 1) : j <= Len(r) /\ j <= Len(s) /\ r[j] = s[j]
      <3>1. SUFFICES ASSUME NEW j \in 1..(i - 1) PROVE j <= Len(r) /\ j <= Len(s) /\ r[j] = s[j]
        OBVIOUS
      <3>2. j \in 1..m /\ j < i
        BY <1>1, <3>1
      <3>3. j \notin D
        <4>. HIDE DEF D
        <4>. QED
          BY <2>2, <2>3, <3>2
      <3>. QED
        BY <1>0, <1>1, <3>2, <3>3
    <2>5. KeyLess(r[i], s[i]) \/ KeyLess(s[i], r[i])
      BY <1>0, <2>3, KeysAreOrdered
    <2>. HIDE DEF D
    <2>. QED
      BY <2>3, <2>4, <2>5 DEF RowLess, SortKey
  <1>. QED
    BY <1>2, <1>3

\* No row comes before itself.
LEMMA RowsIrreflexive ==
    ASSUME NEW r \in AnyRow
    PROVE  ~RowLess(r, r)
  <1>1. ASSUME NEW i \in 1..Len(r), i > Len(r) \/ KeyLess(r[i], r[i])
        PROVE  FALSE
    <2>1. Len(r) \in Nat /\ r[i] \in AnyValue
      BY DEF AnyRow
    <2>. QED
      BY <1>1, <2>1, KeysAreOrdered
  <1>. QED
    BY <1>1 DEF RowLess

\* The rows of s in the order p, none before a lesser one.
LinedUp(p, s, N) == \A i, j \in N : i < j => ~RowLess(s[p[j]], s[p[i]])

\* Some p is the order that InOrder finds.
Ordered(s, N) ==
    \E p \in [N -> N] :
        Different(p, N) /\ LinedUp(p, s, N) /\ InOrder(s) = [i \in N |-> s[p[i]]]

\* sorted puts the rows of any result in order.
LEMMA RowsPutInOrder ==
    ASSUME NEW s \in AnyRows, NEW N, N = 1..Len(s)
    PROVE  Ordered(s, N)
  <1>. DEFINE n == Len(s)
              InPlace(p) == /\ IsInjective(p)
                            /\ \A i, j \in DOMAIN s : i < j =>
                                  \/ RowLess(s[p[i]], s[p[j]])
                                  \/ ~RowLess(s[p[j]], s[p[i]]) /\ p[i] < p[j]
              place == CHOOSE p \in [DOMAIN s -> DOMAIN s] : InPlace(p)
              E == {e \in N \X N : RowLess(s[e[1]], s[e[2]]) \/ (s[e[1]] = s[e[2]] /\ e[1] < e[2])}
  <1>1. InOrder(s) = [i \in DOMAIN s |-> s[place[i]]]
    BY DEF InOrder, Sorted
  <1>2. n \in Nat /\ N = 1..n /\ DOMAIN s = N /\ \A i \in N : s[i] \in AnyRow
    BY DEF AnyRows
  <1>3. \A i, j \in N : <<i, j>> \in E <=> RowLess(s[i], s[j]) \/ (s[i] = s[j] /\ i < j)
    OBVIOUS
  <1>. HIDE DEF E, n
  <1>4. Arranges(E, N)
    <2>1. \A i \in N : <<i, i>> \notin E
      BY <1>2, <1>3, RowsIrreflexive
    <2>2. \A i, j \in N : i # j => <<i, j>> \in E \/ <<j, i>> \in E
      <3>1. SUFFICES ASSUME NEW i \in N, NEW j \in N, i # j PROVE <<i, j>> \in E \/ <<j, i>> \in E
        OBVIOUS
      <3>2. CASE s[i] = s[j]
        BY <1>2, <1>3, <3>1, <3>2
      <3>3. CASE s[i] # s[j]
        BY <1>2, <1>3, <3>3, RowsTotal
      <3>. QED
        BY <3>2, <3>3
    <2>3. ASSUME NEW i \in N, NEW j \in N, NEW k \in N, <<i, j>> \in E, <<j, k>> \in E
          PROVE  <<i, k>> \in E
      <3>1. s[i] \in AnyRow /\ s[j] \in AnyRow /\ s[k] \in AnyRow
        BY <1>2
      <3>2. /\ RowLess(s[i], s[j]) \/ (s[i] = s[j] /\ i < j)
            /\ RowLess(s[j], s[k]) \/ (s[j] = s[k] /\ j < k)
        BY <1>3, <2>3
      <3>3. RowLess(s[i], s[j]) /\ RowLess(s[j], s[k]) => RowLess(s[i], s[k])
        BY <3>1, RowsTransitive
      <3>4. i < j /\ j < k => i < k
        BY <1>2
      <3>. QED
        BY <1>3, <3>2, <3>3, <3>4
    <2>. QED
      BY <2>1, <2>2, <2>3 DEF Arranges
  <1>5. \E p \in [DOMAIN s -> DOMAIN s] : InPlace(p)
    <2>1. PICK p \in [N -> N] : Different(p, N) /\ Follows(p, E, N)
      BY <1>2, <1>4, OrderIsFollowed
    <2>2. IsInjective(p)
      BY <2>1 DEF Different, IsInjective
    <2>3. ASSUME NEW i \in N, NEW j \in N, i < j
          PROVE  \/ RowLess(s[p[i]], s[p[j]])
                 \/ ~RowLess(s[p[j]], s[p[i]]) /\ p[i] < p[j]
      <3>1. p[i] \in N /\ p[j] \in N
        BY <2>1
      <3>2. <<p[i], p[j]>> \in E
        BY <2>1, <2>3 DEF Follows
      <3>3. RowLess(s[p[i]], s[p[j]]) \/ (s[p[i]] = s[p[j]] /\ p[i] < p[j])
        BY <1>3, <3>1, <3>2
      <3>4. s[p[i]] = s[p[j]] => ~RowLess(s[p[j]], s[p[i]])
        BY <1>2, <3>1, RowsIrreflexive
      <3>. QED
        BY <3>3, <3>4
    <2>4. InPlace(p)
      BY <1>2, <2>2, <2>3
    <2>. HIDE DEF InPlace
    <2>. QED
      BY <1>2, <2>1, <2>4
  <1>6. place \in [N -> N] /\ InPlace(place)
    <2>1. place \in [DOMAIN s -> DOMAIN s] /\ InPlace(place)
      <3>. HIDE DEF InPlace
      <3>. QED
        BY <1>5
    <2>. HIDE DEF place, InPlace
    <2>. QED
      BY <1>2, <2>1
  <1>. HIDE DEF place
  <1>7. Different(place, N)
    BY <1>6 DEF Different, IsInjective
  <1>8. LinedUp(place, s, N)
    <2>. SUFFICES ASSUME NEW i \in N, NEW j \in N, i < j, RowLess(s[place[j]], s[place[i]])
                  PROVE  FALSE
      BY DEF LinedUp
    <2>1. RowLess(s[place[i]], s[place[j]])
      BY <1>2, <1>6
    <2>2. s[place[i]] \in AnyRow /\ s[place[j]] \in AnyRow
      BY <1>2, <1>6
    <2>3. RowLess(s[place[i]], s[place[i]])
      BY <2>1, <2>2, RowsTransitive
    <2>. QED
      BY <2>2, <2>3, RowsIrreflexive
  <1>. QED
    BY <1>1, <1>2, <1>6, <1>7, <1>8 DEF Ordered

\* The same rows, lined up twice, are the same row in every place.
LEMMA LinedUpOnce ==
    ASSUME NEW s \in AnyRows, NEW N, N = 1..Len(s), NEW g \in [N -> N], NEW q \in [N -> N],
           Different(g, N), Different(q, N), LinedUp(g, s, N), LinedUp(q, s, N), NEW i \in N
    PROVE  ~RowLess(s[q[i]], s[g[i]])
  <1>0. Len(s) \in Nat /\ \A j \in N : s[j] \in AnyRow
    BY DEF AnyRows
  <1>1. SUFFICES ASSUME RowLess(s[q[i]], s[g[i]])
                 PROVE  FALSE
    OBVIOUS
  <1>2. PICK j \in N, k \in N : i <= j /\ k <= i /\ g[j] = q[k]
    <2>. DEFINE n == Len(s)
    <2>1. n \in Nat /\ N = 1..n
      BY <1>0
    <2>. HIDE DEF n
    <2>2. Meet(g, q, i, N)
      BY <2>1, EndsMeet
    <2>. QED
      BY <2>2 DEF Meet
  <1>3. s[g[i]] \in AnyRow /\ s[q[i]] \in AnyRow /\ s[g[j]] \in AnyRow
    BY <1>0
  <1>4. s[g[j]] = s[g[i]] \/ RowLess(s[g[i]], s[g[j]])
    <2>1. CASE i = j
      BY <2>1
    <2>2. CASE i # j
      <3>1. i < j
        BY <1>2, <2>2
      <3>2. ~RowLess(s[g[j]], s[g[i]])
        BY <3>1 DEF LinedUp
      <3>. QED
        BY <1>3, <3>2, RowsTotal
    <2>. QED
      BY <2>1, <2>2
  <1>5. s[q[k]] = s[q[i]] \/ RowLess(s[q[k]], s[q[i]])
    <2>1. CASE i = k
      BY <2>1
    <2>2. CASE i # k
      <3>1. k < i
        BY <1>2, <2>2
      <3>2. ~RowLess(s[q[i]], s[q[k]])
        BY <3>1 DEF LinedUp
      <3>3. s[q[k]] \in AnyRow
        BY <1>0
      <3>. QED
        BY <1>3, <3>2, <3>3, RowsTotal
    <2>. QED
      BY <2>1, <2>2
  <1>6. RowLess(s[q[i]], s[g[j]])
    BY <1>1, <1>3, <1>4, RowsTransitive
  <1>7. RowLess(s[q[i]], s[q[i]])
    BY <1>2, <1>3, <1>5, <1>6, RowsTransitive
  <1>. QED
    BY <1>3, <1>7, RowsIrreflexive

FarApart(v, w) ==
    IsNumber(v) /\ IsNumber(w) /\ v # w => v[2] - w[2] \notin -(2 * Tolerance)..(2 * Tolerance)

\* Values far apart are ordered as the values they equal.
LEMMA EqualsAreOrderedAlike ==
    ASSUME NEW v \in AnyValue, NEW w \in AnyValue, NEW x \in AnyValue, NEW y \in AnyValue,
           FarApart(v, w), FarApart(x, y), ValuesEqual(v, x), ValuesEqual(w, y)
    PROVE  /\ v = w => x = y
           /\ KeyLess(v, w) => KeyLess(x, y)
  <1>0. /\ v = <<v[1], v[2]>> /\ w = <<w[1], w[2]>> /\ x = <<x[1], x[2]>> /\ y = <<y[1], y[2]>>
        /\ v[1] \in Int /\ w[1] \in Int /\ x[1] \in Int /\ y[1] \in Int
        /\ v[2] \in Int /\ w[2] \in Int /\ x[2] \in Int /\ y[2] \in Int
    BY DEF AnyValue
  <1>1. Tolerance \in Nat
    BY GradingAssumption DEF GradingAssumption
  <1>2. v[1] = x[1] /\ w[1] = y[1]
    BY DEF ValuesEqual
  <1>3. v[1] # 2 => v = x
    BY DEF ValuesEqual, IsNumber
  <1>4. w[1] # 2 => w = y
    BY DEF ValuesEqual, IsNumber
  <1>5. v[1] = 2 => -Tolerance <= v[2] - x[2] /\ v[2] - x[2] <= Tolerance
    BY <1>0, <1>1 DEF ValuesEqual, IsNumber
  <1>6. w[1] = 2 => -Tolerance <= w[2] - y[2] /\ w[2] - y[2] <= Tolerance
    BY <1>0, <1>1 DEF ValuesEqual, IsNumber
  <1>7. CASE v[1] = 2 /\ w[1] = 2
    <2>1. v[2] # w[2] => v[2] - w[2] > 2 * Tolerance \/ v[2] - w[2] < -(2 * Tolerance)
      BY <1>0, <1>1, <1>7 DEF FarApart, IsNumber
    <2>2. x[2] # y[2] => x[2] - y[2] > 2 * Tolerance \/ x[2] - y[2] < -(2 * Tolerance)
      BY <1>0, <1>1, <1>2, <1>7 DEF FarApart, IsNumber
    <2>3. v[2] = w[2] => x[2] = y[2]
      BY <1>0, <1>1, <1>5, <1>6, <1>7, <2>2
    <2>4. v[2] < w[2] => x[2] < y[2]
      BY <1>0, <1>1, <1>5, <1>6, <1>7, <2>1
    <2>. QED
      BY <1>0, <1>2, <1>7, <2>3, <2>4 DEF KeyLess, SortKey
  <1>8. CASE v[1] # w[1]
    BY <1>0, <1>2, <1>8 DEF KeyLess, SortKey
  <1>9. CASE v[1] = w[1] /\ v[1] # 2
    BY <1>3, <1>4, <1>9
  <1>. QED
    BY <1>7, <1>8, <1>9

Scattered(r, s) == \A c \in DOMAIN r, d \in DOMAIN s : FarApart(r[c], s[d])

\* Rows far apart are ordered as the rows they equal.
LEMMA EqualRowsAreOrderedAlike ==
    ASSUME NEW r \in AnyRow, NEW s \in AnyRow, NEW t \in AnyRow, NEW u \in AnyRow,
           Scattered(r, s), Scattered(t, u), RowEqual(r, t), RowEqual(s, u)
    PROVE  /\ r = s => t = u
           /\ RowLess(r, s) => RowLess(t, u)
  <1>0. /\ Len(r) \in Nat /\ Len(s) \in Nat /\ Len(r) = Len(t) /\ Len(s) = Len(u)
        /\ DOMAIN r = 1..Len(r) /\ DOMAIN s = 1..Len(s) /\ DOMAIN t = 1..Len(r) /\ DOMAIN u = 1..Len(s)
        /\ \A j \in 1..Len(r) : r[j] \in AnyValue /\ t[j] \in AnyValue
        /\ \A j \in 1..Len(s) : s[j] \in AnyValue /\ u[j] \in AnyValue
    BY DEF AnyRow, RowEqual
  <1>1. ASSUME NEW j \in 1..Len(r), j \in 1..Len(s)
        PROVE  /\ r[j] = s[j] => t[j] = u[j]
               /\ KeyLess(r[j], s[j]) => KeyLess(t[j], u[j])
    <2>1. FarApart(r[j], s[j]) /\ FarApart(t[j], u[j])
      BY <1>0, <1>1 DEF Scattered
    <2>2. ValuesEqual(r[j], t[j]) /\ ValuesEqual(s[j], u[j])
      BY <1>0, <1>1 DEF RowEqual
    <2>3. r[j] \in AnyValue /\ s[j] \in AnyValue /\ t[j] \in AnyValue /\ u[j] \in AnyValue
      BY <1>0, <1>1
    <2>. QED
      BY <2>1, <2>2, <2>3, EqualsAreOrderedAlike
  <1>2. ASSUME r = s
        PROVE  t = u
    <2>1. Len(t) = Len(u) /\ \A j \in 1..Len(t) : t[j] = u[j]
      BY <1>0, <1>1, <1>2
    <2>. QED
      BY <2>1, SeqEqual DEF AnyRow
  <1>3. ASSUME RowLess(r, s)
        PROVE  RowLess(t, u)
    <2>1. PICK i \in 1..Len(s) : /\ \A j \in 1..(i - 1) : j <= Len(r) /\ r[j] = s[j]
                                 /\ i > Len(r) \/ KeyLess(r[i], s[i])
      BY <1>3 DEF RowLess, SortKey
    <2>2. \A j \in 1..(i - 1) : j <= Len(t) /\ t[j] = u[j]
      <3>1. SUFFICES ASSUME NEW j \in 1..(i - 1) PROVE j <= Len(t) /\ t[j] = u[j]
        OBVIOUS
      <3>2. j <= Len(r) /\ r[j] = s[j]
        BY <2>1
      <3>3. j \in 1..Len(r) /\ j \in 1..Len(s)
        BY <1>0, <3>2
      <3>. QED
        BY <1>0, <1>1, <3>2, <3>3
    <2>3. i \in 1..Len(u) /\ (i > Len(t) \/ KeyLess(t[i], u[i]))
      <3>1. CASE i > Len(r)
        BY <1>0, <3>1
      <3>2. CASE i <= Len(r)
        <4>1. i \in 1..Len(r) /\ KeyLess(r[i], s[i])
          BY <1>0, <2>1, <3>2
        <4>. QED
          BY <1>0, <1>1, <4>1
      <3>. QED
        BY <1>0, <3>1, <3>2
    <2>. QED
      BY <2>2, <2>3 DEF RowLess, SortKey
  <1>. QED
    BY <1>2, <1>3

\* The rows of separated results are far apart.
LEMMA SeparatedScatters ==
    ASSUME NEW s \in AnyRows, Separated(s), NEW i \in 1..Len(s), NEW j \in 1..Len(s)
    PROVE  Scattered(s[i], s[j])
  <1>1. DOMAIN s = 1..Len(s)
    BY DEF AnyRows
  <1>. QED
    BY <1>1 DEF Separated, Scattered, FarApart

\* Sorted and paired, rows are only called equal when a pairing makes them so.
LEMMA SortedPairingIsSound ==
    ASSUME NEW l \in AnyRows, NEW r \in AnyRows, RowsEqual(l, r, FALSE)
    PROVE  SameMultiset(l, r)
  <1>. DEFINE N == 1..Len(l)
              M == 1..Len(r)
  <1>0. Len(l) \in Nat /\ Len(r) \in Nat /\ DOMAIN l = N /\ DOMAIN r = M
    BY DEF AnyRows
  <1>. HIDE DEF N, M
  <1>1. PICK p \in [N -> N] :
            Different(p, N) /\ LinedUp(p, l, N) /\ InOrder(l) = [i \in N |-> l[p[i]]]
    BY RowsPutInOrder DEF N, Ordered
  <1>2. PICK q \in [M -> M] :
            Different(q, M) /\ LinedUp(q, r, M) /\ InOrder(r) = [i \in M |-> r[q[i]]]
    BY RowsPutInOrder DEF M, Ordered
  <1>3. Len(InOrder(l)) = Len(l) /\ Len(InOrder(r)) = Len(r)
    BY <1>0, <1>1, <1>2 DEF N, M
  <1>4. Len(l) = Len(r) /\ \A i \in N : RowEqual(InOrder(l)[i], InOrder(r)[i])
    BY <1>0, <1>1, <1>3 DEF RowsEqual, N
  <1>5. N = M
    BY <1>4 DEF N, M
  <1>6. \A i \in N : RowEqual(l[p[i]], r[q[i]])
    BY <1>1, <1>2, <1>4, <1>5
  <1>7. Onto(p, N, N)
    BY <1>0, <1>1, DifferentIsComplete DEF N
  <1>. DEFINE back == PlaceOf(p, N)
              f == [i \in N |-> q[back[i]]]
  <1>8. back \in [N -> N] /\ Finds(back, p, N) /\ Different(back, N)
    BY <1>1, <1>7, PlaceOfFinds
  <1>9. Onto(q, N, N)
    BY <1>0, <1>2, <1>5, DifferentIsComplete DEF N
  <1>10. Onto(back, N, N)
    BY <1>0, <1>8, DifferentIsComplete DEF N
  <1>. HIDE DEF back
  <1>11. f \in [N -> N] /\ \A i, j \in N : f[i] = f[j] => i = j
    BY <1>2, <1>5, <1>8 DEF Different
  <1>12. \A k \in N : \E i \in N : f[i] = k
    <2>1. SUFFICES ASSUME NEW k \in N PROVE \E i \in N : f[i] = k
      OBVIOUS
    <2>2. PICK j \in N : q[j] = k
      BY <1>9 DEF Onto
    <2>3. PICK i \in N : back[i] = j
      BY <1>10 DEF Onto
    <2>. QED
      BY <2>2, <2>3
  <1>13. \A i \in N : RowEqual(l[i], r[f[i]])
    <2>1. SUFFICES ASSUME NEW i \in N PROVE RowEqual(l[i], r[f[i]])
      OBVIOUS
    <2>2. back[i] \in N /\ p[back[i]] = i
      BY <1>8 DEF Finds
    <2>3. RowEqual(l[p[back[i]]], r[q[back[i]]])
      BY <1>6, <2>2
    <2>. QED
      BY <2>2, <2>3
  <1>. HIDE DEF f
  <1>14. f \in Bijection(DOMAIN l, DOMAIN r)
    BY <1>0, <1>5, <1>11, <1>12 DEF Bijection, Injection, Surjection, IsInjective
  <1>. QED
    BY <1>0, <1>4, <1>13, <1>14 DEF SameMultiset

\* And they miss no pairing of values far apart.
LEMMA SortedPairingIsComplete ==
    ASSUME NEW l \in AnyRows, NEW r \in AnyRows, SameMultiset(l, r), Separated(l), Separated(r)
    PROVE  RowsEqual(l, r, FALSE)
  <1>. DEFINE N == 1..Len(l)
  <1>0. Len(l) \in Nat /\ Len(l) = Len(r) /\ DOMAIN l = N /\ DOMAIN r = N
    BY DEF AnyRows, SameMultiset
  <1>1. \A i \in N : l[i] \in AnyRow /\ r[i] \in AnyRow
    BY <1>0 DEF AnyRows
  <1>. HIDE DEF N
  <1>2. PICK f \in Bijection(N, N) : \A i \in N : RowEqual(l[i], r[f[i]])
    BY <1>0 DEF SameMultiset
  <1>3. f \in [N -> N] /\ Different(f, N)
    BY DEF Bijection, Injection, IsInjective, Different
  <1>4. PICK p \in [N -> N] :
            Different(p, N) /\ LinedUp(p, l, N) /\ InOrder(l) = [i \in N |-> l[p[i]]]
    <2>1. Ordered(l, N)
      BY RowsPutInOrder DEF N
    <2>. QED
      BY <2>1 DEF Ordered
  <1>5. N = 1..Len(r)
    BY <1>0 DEF N
  <1>6. PICK q \in [N -> N] :
            Different(q, N) /\ LinedUp(q, r, N) /\ InOrder(r) = [i \in N |-> r[q[i]]]
    <2>1. Ordered(r, N)
      BY <1>5, RowsPutInOrder
    <2>. QED
      BY <2>1 DEF Ordered
  <1>. DEFINE g == [i \in N |-> f[p[i]]]
  <1>7. g \in [N -> N] /\ Different(g, N)
    BY <1>3, <1>4 DEF Different
  <1>8. \A i \in N : g[i] = f[p[i]]
    OBVIOUS
  <1>. HIDE DEF g
  <1>9. LinedUp(g, r, N)
    <2>. SUFFICES ASSUME NEW i \in N, NEW j \in N, i < j, RowLess(r[g[j]], r[g[i]])
                  PROVE  FALSE
      BY DEF LinedUp
    <2>1. p[i] \in N /\ p[j] \in N /\ g[i] \in N /\ g[j] \in N
      BY <1>4, <1>7
    <2>2. l[p[i]] \in AnyRow /\ l[p[j]] \in AnyRow /\ r[g[i]] \in AnyRow /\ r[g[j]] \in AnyRow
      BY <1>1, <2>1
    <2>3. RowEqual(l[p[i]], r[g[i]]) /\ RowEqual(l[p[j]], r[g[j]])
      BY <1>2, <1>8, <2>1
    <2>4. Scattered(l[p[i]], l[p[j]])
      BY <2>1, SeparatedScatters DEF N
    <2>5. Scattered(r[g[i]], r[g[j]])
      BY <1>5, <2>1, SeparatedScatters
    <2>6. ~RowLess(l[p[j]], l[p[i]])
      BY <1>4 DEF LinedUp
    <2>7. l[p[i]] = l[p[j]] \/ RowLess(l[p[i]], l[p[j]])
      BY <2>2, <2>6, RowsTotal
    <2>8. r[g[i]] = r[g[j]] \/ RowLess(r[g[i]], r[g[j]])
      BY <2>2, <2>3, <2>4, <2>5, <2>7, EqualRowsAreOrderedAlike
    <2>9. RowLess(r[g[i]], r[g[i]])
      BY <2>2, <2>8, RowsTransitive
    <2>. QED
      BY <2>2, <2>9, RowsIrreflexive
  <1>10. ASSUME NEW i \in N
         PROVE  r[g[i]] = r[q[i]]
    <2>1. ~RowLess(r[q[i]], r[g[i]])
      BY <1>5, <1>6, <1>7, <1>9, LinedUpOnce
    <2>2. ~RowLess(r[g[i]], r[q[i]])
      BY <1>5, <1>6, <1>7, <1>9, LinedUpOnce
    <2>3. r[g[i]] \in AnyRow /\ r[q[i]] \in AnyRow
      BY <1>1, <1>6, <1>7
    <2>. QED
      BY <2>1, <2>2, <2>3, RowsTotal
  <1>11. \A i \in N : RowEqual(InOrder(l)[i], InOrder(r)[i])
    <2>1. SUFFICES ASSUME NEW i \in N PROVE RowEqual(InOrder(l)[i], InOrder(r)[i])
      OBVIOUS
    <2>2. RowEqual(l[p[i]], r[f[p[i]]])
      BY <1>2, <1>4
    <2>3. r[f[p[i]]] = r[q[i]]
      BY <1>8, <1>10
    <2>. QED
      BY <1>4, <1>6, <2>2, <2>3
  <1>12. Len(InOrder(l)) = Len(l) /\ Len(InOrder(r)) = Len(l) /\ DOMAIN InOrder(l) = N
    BY <1>0, <1>4, <1>6 DEF N
  <1>. QED
    BY <1>11, <1>12 DEF RowsEqual

\* The numbers of the questions, by the tolerance.
LEMMA ApartAre ==
    /\ Tolerance \in Nat
    /\ Apart(1) = 2 * Tolerance + 1 /\ Apart(5) = 10 * Tolerance + 5 /\ Apart(9) = 18 * Tolerance + 9
  BY GradingAssumption DEF GradingAssumption, Apart

\* Numbers and names apart are only equal to themselves, and far from others.
LEMMA ApartIsExact ==
    ASSUME NEW k \in {2, 3}, NEW l \in {2, 3}, NEW m \in {1, 5, 9}, NEW n \in {1, 5, 9}
    PROVE  /\ <<k, Apart(m)>> \in AnyValue
           /\ ValuesEqual(<<k, Apart(m)>>, <<l, Apart(n)>>) <=> k = l /\ m = n
           /\ FarApart(<<k, Apart(m)>>, <<l, Apart(n)>>)
  <1>1. Apart(m) \in Int /\ Apart(n) \in Int
    BY ApartAre
  <1>2. m # n => Apart(m) - Apart(n) \notin -(2 * Tolerance)..(2 * Tolerance) /\ Apart(m) # Apart(n)
                 /\ Apart(m) - Apart(n) \notin -Tolerance..Tolerance
    BY ApartAre
  <1>3. m = n => Apart(m) - Apart(n) \in -Tolerance..Tolerance
    BY ApartAre
  <1>. QED
    BY <1>1, <1>2, <1>3 DEF AnyValue, ValuesEqual, FarApart, IsNumber, NaN

\* Products are equal when they are known alike, named alike and sold alike.
LEMMA ProductsMatch ==
    ASSUME NEW k \in {2, 3}, NEW l \in {2, 3}, NEW i \in {5, 9}, NEW j \in {5, 9},
           NEW m \in {1, 5}, NEW n \in {1, 5}
    PROVE  /\ Product(k, i, m) \in AnyRow
           /\ RowEqual(Product(k, i, m), Product(l, j, n)) <=> k = l /\ i = j /\ m = n
           /\ Scattered(Product(k, i, m), Product(l, j, n))
  <1>. DEFINE a == <<k, Apart(i)>>
              b == <<2, Apart(m)>>
              c == <<l, Apart(j)>>
              d == <<2, Apart(n)>>
  <1>1. a \in AnyValue /\ b \in AnyValue /\ c \in AnyValue /\ d \in AnyValue
    BY ApartIsExact
  <1>2. (ValuesEqual(a, c) <=> k = l /\ i = j) /\ (ValuesEqual(b, d) <=> m = n)
    <2>1. ValuesEqual(a, c) <=> k = l /\ i = j
      BY ApartIsExact
    <2>2. ValuesEqual(b, d) <=> 2 = 2 /\ m = n
      BY ApartIsExact
    <2>. QED
      BY <2>1, <2>2
  <1>3. FarApart(a, c) /\ FarApart(a, d) /\ FarApart(b, c) /\ FarApart(b, d)
    BY ApartIsExact
  <1>4. Product(k, i, m) = <<a, b>> /\ Product(l, j, n) = <<c, d>>
    BY DEF Product
  <1>. HIDE DEF a, b, c, d
  <1>5. <<a, b>> \in Seq(AnyValue)
    BY <1>1
  <1>6. RowEqual(<<a, b>>, <<c, d>>) <=> ValuesEqual(a, c) /\ ValuesEqual(b, d)
    <2>1. DOMAIN <<a, b>> = {1, 2} /\ Len(<<a, b>>) = 2 /\ Len(<<c, d>>) = 2
      OBVIOUS
    <2>. QED
      BY <2>1 DEF RowEqual
  <1>7. Scattered(<<a, b>>, <<c, d>>)
    <2>1. DOMAIN <<a, b>> = {1, 2} /\ DOMAIN <<c, d>> = {1, 2}
      OBVIOUS
    <2>. QED
      BY <1>3, <2>1 DEF Scattered
  <1>. QED
    BY <1>2, <1>4, <1>5, <1>6, <1>7 DEF AnyRow

\* How products are known, which are ranked, and what they sell.
KnownBy == {2, 3}
Ranks == {5, 9}
Sold == {1, 5}

\* Two products, ranked.
Ranked(k, i, m, n) == <<Product(k, i, m), Product(k, 14 - i, n)>>

\* Two ranked products are a separated result of two rows.
LEMMA RankIs ==
    ASSUME NEW k \in KnownBy, NEW i \in Ranks, NEW m \in Sold, NEW n \in Sold
    PROVE  /\ Ranked(k, i, m, n) \in AnyRows /\ Separated(Ranked(k, i, m, n))
           /\ DOMAIN Ranked(k, i, m, n) = 1..2 /\ Len(Ranked(k, i, m, n)) = 2 /\ 14 - i \in Ranks
  <1>. USE DEF KnownBy, Ranks, Sold
  <1>. DEFINE a == Product(k, i, m)
              b == Product(k, 14 - i, n)
  <1>1. 14 - i \in Ranks
    OBVIOUS
  <1>2. a \in AnyRow /\ b \in AnyRow
    BY <1>1, ProductsMatch
  <1>3. Scattered(a, a) /\ Scattered(a, b) /\ Scattered(b, a) /\ Scattered(b, b)
    BY <1>1, ProductsMatch
  <1>4. Ranked(k, i, m, n) = <<a, b>>
    BY DEF Ranked
  <1>. HIDE DEF a, b
  <1>5. <<a, b>> \in Seq(AnyRow)
    BY <1>2
  <1>6. Separated(<<a, b>>)
    <2>1. ASSUME NEW x \in {a, b}, NEW y \in {a, b}
          PROVE  Scattered(x, y)
      BY <1>3
    <2>2. \A x, y \in 1..2 : Scattered(<<a, b>>[x], <<a, b>>[y])
      BY <2>1
    <2>. QED
      BY <2>2 DEF Separated, Scattered, FarApart
  <1>. QED
    BY <1>1, <1>4, <1>5, <1>6 DEF AnyRows

\* Equal row by row, equal in some order, and equal but for the order of ties.
MatchInPlace(r, s) == RowsEqual(r, s, TRUE)
MatchInSomeOrder(r, s) == RowsEqual(r, s, FALSE)
MatchButForTies(r, s) == TieBreakOnly(r, s, TRUE)

\* Rankings match row by row when they are the same, and in some order when they name the
\* same products with the same sales.
LEMMA RankingsMatch ==
    ASSUME NEW k \in KnownBy, NEW i \in Ranks, NEW m \in Sold, NEW n \in Sold,
           NEW l \in KnownBy, NEW j \in Ranks, NEW s \in Sold, NEW t \in Sold
    PROVE  /\ MatchInPlace(Ranked(k, i, m, n), Ranked(l, j, s, t)) <=> k = l /\ i = j /\ m = s /\ n = t
           /\ MatchInSomeOrder(Ranked(k, i, m, n), Ranked(l, j, s, t)) <=>
                  k = l /\ ((i = j /\ m = s /\ n = t) \/ (i = 14 - j /\ m = t /\ n = s))
  <1>. USE DEF KnownBy, Ranks, Sold
  <1>. DEFINE a == Product(k, i, m)
              b == Product(k, 14 - i, n)
              c == Product(l, j, s)
              d == Product(l, 14 - j, t)
              x == Ranked(k, i, m, n)
              y == Ranked(l, j, s, t)
  <1>0. 14 - i \in Ranks /\ 14 - j \in Ranks
    OBVIOUS
  <1>1. /\ RowEqual(a, c) <=> k = l /\ i = j /\ m = s
        /\ RowEqual(b, d) <=> k = l /\ 14 - i = 14 - j /\ n = t
        /\ RowEqual(a, d) <=> k = l /\ i = 14 - j /\ m = t
        /\ RowEqual(b, c) <=> k = l /\ 14 - i = j /\ n = s
    <2>1. RowEqual(a, c) <=> k = l /\ i = j /\ m = s
      BY ProductsMatch
    <2>2. RowEqual(b, d) <=> k = l /\ 14 - i = 14 - j /\ n = t
      BY <1>0, ProductsMatch
    <2>3. RowEqual(a, d) <=> k = l /\ i = 14 - j /\ m = t
      BY <1>0, ProductsMatch
    <2>4. RowEqual(b, c) <=> k = l /\ 14 - i = j /\ n = s
      BY <1>0, ProductsMatch
    <2>. QED
      BY <2>1, <2>2, <2>3, <2>4
  <1>2. x = <<a, b>> /\ y = <<c, d>>
    BY DEF Ranked
  <1>3. /\ x \in AnyRows /\ Separated(x) /\ DOMAIN x = 1..2 /\ Len(x) = 2
        /\ y \in AnyRows /\ Separated(y) /\ DOMAIN y = 1..2 /\ Len(y) = 2
    BY RankIs
  <1>. HIDE DEF a, b, c, d, x, y
  <1>4. RowsEqual(x, y, TRUE) <=> RowEqual(a, c) /\ RowEqual(b, d)
    <2>1. RowsEqual(x, y, TRUE) <=> Len(x) = Len(y) /\ \A h \in DOMAIN x : RowEqual(x[h], y[h])
      BY DEF RowsEqual
    <2>2. \A h \in DOMAIN x : h = 1 \/ h = 2
      BY <1>3
    <2>3. 1 \in DOMAIN x /\ 2 \in DOMAIN x /\ Len(x) = Len(y)
      BY <1>3
    <2>4. x[1] = a /\ x[2] = b /\ y[1] = c /\ y[2] = d
      BY <1>2
    <2>. QED
      BY <2>1, <2>2, <2>3, <2>4
  <1>5. RowsEqual(x, y, FALSE) <=> SameMultiset(x, y)
    BY <1>3, SortedPairingIsSound, SortedPairingIsComplete
  <1>6. ASSUME SameMultiset(x, y)
        PROVE  (RowEqual(a, c) /\ RowEqual(b, d)) \/ (RowEqual(a, d) /\ RowEqual(b, c))
    <2>1. PICK f \in Bijection(1..2, 1..2) : \A h \in 1..2 : RowEqual(x[h], y[f[h]])
      BY <1>3, <1>6 DEF SameMultiset
    <2>2. f[1] \in 1..2 /\ f[2] \in 1..2 /\ f[1] # f[2]
      BY DEF Bijection, Injection, IsInjective
    <2>3. RowEqual(x[1], y[f[1]]) /\ RowEqual(x[2], y[f[2]])
      BY <2>1
    <2>. QED
      BY <1>2, <2>2, <2>3
  <1>7. ASSUME NEW f \in [1..2 -> 1..2], f[1] # f[2], RowEqual(x[1], y[f[1]]), RowEqual(x[2], y[f[2]])
        PROVE  SameMultiset(x, y)
    <2>1. \A h \in 1..2 : h = 1 \/ h = 2
      OBVIOUS
    <2>2. f \in Bijection(1..2, 1..2)
      BY <1>7, <2>1 DEF Bijection, Injection, Surjection, IsInjective
    <2>3. \A h \in 1..2 : RowEqual(x[h], y[f[h]])
      BY <1>7, <2>1
    <2>. QED
      BY <1>3, <2>2, <2>3 DEF SameMultiset
  <1>8. ASSUME RowEqual(a, c), RowEqual(b, d)
        PROVE  SameMultiset(x, y)
    <2>. DEFINE f == [h \in 1..2 |-> h]
    <2>1. f \in [1..2 -> 1..2] /\ f[1] = 1 /\ f[2] = 2
      OBVIOUS
    <2>. HIDE DEF f
    <2>. QED
      BY <1>2, <1>7, <1>8, <2>1
  <1>9. ASSUME RowEqual(a, d), RowEqual(b, c)
        PROVE  SameMultiset(x, y)
    <2>. DEFINE f == [h \in 1..2 |-> 3 - h]
    <2>1. f \in [1..2 -> 1..2] /\ f[1] = 2 /\ f[2] = 1
      OBVIOUS
    <2>. HIDE DEF f
    <2>. QED
      BY <1>2, <1>7, <1>9, <2>1
  <1>10. RowsEqual(x, y, TRUE) <=> k = l /\ i = j /\ m = s /\ n = t
    BY <1>1, <1>4
  <1>11. RowsEqual(x, y, FALSE) <=>
             k = l /\ ((i = j /\ m = s /\ n = t) \/ (i = 14 - j /\ m = t /\ n = s))
    <2>1. RowsEqual(x, y, FALSE) <=>
              (RowEqual(a, c) /\ RowEqual(b, d)) \/ (RowEqual(a, d) /\ RowEqual(b, c))
      BY <1>5, <1>6, <1>8, <1>9
    <2>2. (14 - i = 14 - j <=> i = j) /\ (14 - i = j <=> i = 14 - j)
      OBVIOUS
    <2>. QED
      BY <1>1, <2>1, <2>2
  <1>. QED
    BY <1>10, <1>11 DEF x, y, MatchInPlace, MatchInSomeOrder

\* A ranking is a ranking in one way.
LEMMA RankingsDiffer ==
    ASSUME NEW k \in KnownBy, NEW i \in Ranks, NEW m \in Sold, NEW n \in Sold,
           NEW l \in KnownBy, NEW j \in Ranks, NEW s \in Sold, NEW t \in Sold
    PROVE  Ranked(k, i, m, n) = Ranked(l, j, s, t) <=> k = l /\ i = j /\ m = s /\ n = t
  <1>. USE DEF KnownBy, Ranks, Sold
  <1>1. ASSUME NEW p \in {1, 5, 9}, NEW q \in {1, 5, 9}
        PROVE  Apart(p) = Apart(q) <=> p = q
    BY ApartAre
  <1>. QED
    BY <1>1 DEF Ranked, Product

\* A column of names has no order; two sales figures are always in one.
LEMMA OnlySalesAreRanked ==
    ASSUME NEW j \in Ranks, NEW s \in Sold, NEW t \in Sold
    PROVE  LET gold == Ranked(3, j, s, t)
           IN  DOMAIN gold[1] = 1..2 /\ ~Monotonic(Column(gold, 1)) /\ Monotonic(Column(gold, 2))
  <1>. USE DEF KnownBy, Ranks, Sold
  <1>. DEFINE gold == Ranked(3, j, s, t)
  <1>1. /\ gold[1] = Product(3, j, s) /\ gold[2] = Product(3, 14 - j, t)
        /\ DOMAIN gold = 1..2
    <2>1. DOMAIN gold = 1..2
      BY RankIs
    <2>. QED
      BY <2>1 DEF Ranked
  <1>2. Apart(j) \in Int /\ Apart(14 - j) \in Int /\ Apart(s) \in Int /\ Apart(t) \in Int
    <2>1. 14 - j \in Ranks
      OBVIOUS
    <2>. QED
      BY <2>1, ApartAre
  <1>3. /\ gold[1][1] = <<3, Apart(j)>> /\ gold[1][2] = <<2, Apart(s)>>
        /\ gold[2][1] = <<3, Apart(14 - j)>> /\ gold[2][2] = <<2, Apart(t)>>
        /\ DOMAIN gold[1] = 1..2
    BY <1>1 DEF Product
  <1>. HIDE DEF gold
  <1>4. ~Monotonic(Column(gold, 1))
    <2>1. 1 \in DOMAIN Column(gold, 1) /\ Column(gold, 1)[1] = <<3, Apart(j)>>
      BY <1>1, <1>3 DEF Column
    <2>2. Column(gold, 1)[1][1] = 3
      BY <2>1
    <2>. QED
      BY <2>1, <2>2 DEF Monotonic
  <1>5. Monotonic(Column(gold, 2))
    <2>. DEFINE c == Column(gold, 2)
    <2>1. c = <<<<2, Apart(s)>>, <<2, Apart(t)>>>>
      BY <1>1, <1>3 DEF Column
    <2>. HIDE DEF c
    <2>2. Len(c) = 2 /\ DOMAIN c = {1, 2} /\ c[1] = <<2, Apart(s)>> /\ c[2] = <<2, Apart(t)>>
      BY <2>1
    <2>3. c[1][1] = 2 /\ c[2][1] = 2 /\ c[1][2] = Apart(s) /\ c[2][2] = Apart(t)
      BY <2>2
    <2>4. Apart(s) >= Apart(t) \/ Apart(s) <= Apart(t)
      BY <1>2
    <2>5. 2..Len(c) = {2} /\ 2 - 1 = 1 /\ Len(c) >= 2
      BY <2>2
    <2>6. \/ \A h \in 2..Len(c) : c[h - 1][2] >= c[h][2]
          \/ \A h \in 2..Len(c) : c[h - 1][2] <= c[h][2]
      BY <2>3, <2>4, <2>5
    <2>7. \A h \in DOMAIN c : c[h][1] \in {1, 2}
      BY <2>2, <2>3
    <2>. QED
      BY <2>5, <2>6, <2>7 DEF Monotonic, c
  <1>. QED
    BY <1>3, <1>4, <1>5 DEF gold

\* Where gold ranks named products, only the sales have to be where gold has them.
LEMMA TieBreaksKeepTheSales ==
    ASSUME NEW k \in KnownBy, NEW i \in Ranks, NEW m \in Sold, NEW n \in Sold,
           NEW j \in Ranks, NEW s \in Sold, NEW t \in Sold
    PROVE  MatchButForTies(Ranked(k, i, m, n), Ranked(3, j, s, t)) <=>
               MatchInSomeOrder(Ranked(k, i, m, n), Ranked(3, j, s, t)) /\ m = s /\ n = t
  <1>. USE DEF KnownBy, Ranks, Sold
  <1>. DEFINE r == Ranked(k, i, m, n)
              gold == Ranked(3, j, s, t)
  <1>1. /\ r[1][2] = <<2, Apart(m)>> /\ r[2][2] = <<2, Apart(n)>>
        /\ gold[1][2] = <<2, Apart(s)>> /\ gold[2][2] = <<2, Apart(t)>>
    BY DEF Ranked, Product
  <1>2. DOMAIN gold = 1..2
    BY RankIs
  <1>3. DOMAIN gold[1] = 1..2 /\ ~Monotonic(Column(gold, 1)) /\ Monotonic(Column(gold, 2))
    BY OnlySalesAreRanked
  <1>4. ValuesEqual(gold[1][2], r[1][2]) <=> m = s
    <2>1. ValuesEqual(<<2, Apart(s)>>, <<2, Apart(m)>>) <=> 2 = 2 /\ s = m
      BY ApartIsExact
    <2>. QED
      BY <1>1, <2>1
  <1>5. ValuesEqual(gold[2][2], r[2][2]) <=> n = t
    <2>1. ValuesEqual(<<2, Apart(t)>>, <<2, Apart(n)>>) <=> 2 = 2 /\ t = n
      BY ApartIsExact
    <2>. QED
      BY <1>1, <2>1
  <1>. HIDE DEF r, gold
  <1>6. (\A h \in 1..2 : ValuesEqual(gold[h][2], r[h][2])) <=> m = s /\ n = t
    <2>1. \A h \in 1..2 : h = 1 \/ h = 2
      OBVIOUS
    <2>. QED
      BY <1>4, <1>5, <2>1
  <1>7. (\A c \in DOMAIN gold[1] : Monotonic(Column(gold, c)) =>
             \A h \in DOMAIN gold : ValuesEqual(gold[h][c], r[h][c])) <=> m = s /\ n = t
    <2>1. \A c \in 1..2 : c = 1 \/ c = 2
      OBVIOUS
    <2>2. 2 \in 1..2
      OBVIOUS
    <2>. QED
      BY <1>2, <1>3, <1>6, <2>1, <2>2
  <1>8. TieBreakOnly(r, gold, TRUE) <=>
            /\ RowsEqual(r, gold, FALSE)
            /\ \A c \in DOMAIN gold[1] : Monotonic(Column(gold, c)) =>
                   \A h \in DOMAIN gold : ValuesEqual(gold[h][c], r[h][c])
    BY DEF TieBreakOnly
  <1>. QED
    BY <1>7, <1>8 DEF r, gold, MatchButForTies, MatchInSomeOrder

\* Two ranked products are judged by the rows.
LEMMA RankingsAreJudged ==
    ASSUME NEW k \in KnownBy, NEW i \in Ranks, NEW m \in Sold, NEW n \in Sold,
           NEW l \in KnownBy, NEW j \in Ranks, NEW s \in Sold, NEW t \in Sold,
           NEW run, NEW item, run.rows = Ranked(k, i, m, n), item.gold = Ranked(l, j, s, t)
    PROVE  Judge(run, item).outcome = "correct" <=>
               \/ RowsEqual(run.rows, item.gold, item.ordered)
               \/ TieBreakOnly(run.rows, item.gold, item.ordered)
  <1>. USE DEF KnownBy, Ranks, Sold
  <1>. DEFINE r == run.rows
  <1>1. DOMAIN r = 1..2 /\ Len(r) = 2 /\ DOMAIN item.gold = 1..2 /\ Len(item.gold) = 2
    BY RankIs
  <1>2. r[1] = Product(k, i, m) /\ item.gold[1] = Product(l, j, s)
    BY DEF Ranked
  <1>3. r[1][2] = <<2, Apart(m)>> /\ DOMAIN r[1] = 1..2 /\ Len(r[1]) = 2 /\ Len(item.gold[1]) = 2
    BY <1>2 DEF Product
  <1>. HIDE DEF r
  <1>4. r # <<>>
    <2>1. Len(<<>>) = 0
      OBVIOUS
    <2>2. Len(r) # Len(<<>>)
      BY <1>1, <2>1
    <2>. QED
      BY <2>2, Zenon
  <1>5. ~AllNull(r)
    <2>1. ~IsNothing(r[1][2])
      BY <1>3 DEF IsNothing, Null, NaN
    <2>2. 1 \in DOMAIN r /\ 2 \in DOMAIN r[1]
      BY <1>1, <1>3
    <2>. QED
      BY <2>1, <2>2 DEF AllNull
  <1>6. ~ShapeMismatch(r, item.gold)
    BY <1>1, <1>3 DEF ShapeMismatch
  <1>7. CASE RowsEqual(r, item.gold, item.ordered) \/ TieBreakOnly(r, item.gold, item.ordered)
    BY <1>4, <1>5, <1>6, <1>7 DEF Judge, r
  <1>8. CASE ~(RowsEqual(r, item.gold, item.ordered) \/ TieBreakOnly(r, item.gold, item.ordered))
    BY <1>4, <1>5, <1>6, <1>8 DEF Judge, r
  <1>. QED
    BY <1>7, <1>8 DEF r

\* A ranking of named products is correct when it is gold's, or gold's with a tie broken otherwise.
LEMMA NamedTie ==
    ASSUME NEW run, NEW item, run.rows \in Ranking, item.gold \in Ranking,
           item.ordered = TRUE, item.gold[1][1][1] = 3
    PROVE  Judge(run, item).outcome = "correct" <=>
               \/ run.rows = item.gold
               \/ run.rows = Reverse(item.gold) /\ item.gold[1][2] = item.gold[2][2]
  <1>1. PICK k \in KnownBy, i \in Ranks, m \in Sold, n \in Sold : run.rows = Ranked(k, i, m, n)
    BY DEF Ranking, Ranked, KnownBy, Ranks, Sold
  <1>2. PICK l \in KnownBy, j \in Ranks, s \in Sold, t \in Sold : item.gold = Ranked(l, j, s, t)
    BY DEF Ranking, Ranked, KnownBy, Ranks, Sold
  <1>3. l = 3
    BY <1>2 DEF Ranked, Product
  <1>. DEFINE r == Ranked(k, i, m, n)
              gold == Ranked(3, j, s, t)
  <1>4. item.gold = gold
    BY <1>2, <1>3
  <1>0. 3 \in KnownBy
    BY DEF KnownBy
  <1>5. 14 - j \in Ranks /\ 14 - (14 - j) = j
    BY DEF Ranks
  <1>6. Reverse(gold) = Ranked(3, 14 - j, t, s)
    <2>1. Len(gold) = 2 /\ DOMAIN gold = 1..2
      BY <1>0, RankIs
    <2>2. gold[1] = Product(3, j, s) /\ gold[2] = Product(3, 14 - j, t)
      BY DEF Ranked
    <2>. HIDE DEF gold
    <2>3. Reverse(gold) = <<gold[2], gold[1]>>
      BY <2>1 DEF Reverse
    <2>. QED
      BY <1>5, <2>2, <2>3 DEF Ranked
  <1>7. gold[1][2] = gold[2][2] <=> s = t
    <2>1. gold[1][2] = <<2, Apart(s)>> /\ gold[2][2] = <<2, Apart(t)>>
      BY DEF Ranked, Product
    <2>2. Apart(s) = Apart(t) <=> s = t
      BY ApartAre DEF Sold
    <2>. QED
      BY <2>1, <2>2
  <1>8. /\ MatchInPlace(r, gold) <=> k = 3 /\ i = j /\ m = s /\ n = t
        /\ MatchInSomeOrder(r, gold) <=>
               k = 3 /\ ((i = j /\ m = s /\ n = t) \/ (i = 14 - j /\ m = t /\ n = s))
    BY <1>0, RankingsMatch
  <1>9. MatchButForTies(r, gold) <=> MatchInSomeOrder(r, gold) /\ m = s /\ n = t
    BY TieBreaksKeepTheSales
  <1>10. r = gold <=> k = 3 /\ i = j /\ m = s /\ n = t
    BY <1>0, RankingsDiffer
  <1>11. r = Ranked(3, 14 - j, t, s) <=> k = 3 /\ i = 14 - j /\ m = t /\ n = s
    BY <1>0, <1>5, RankingsDiffer
  <1>12. Judge(run, item).outcome = "correct" <=> MatchInPlace(r, gold) \/ MatchButForTies(r, gold)
    <2>1. Judge(run, item).outcome = "correct" <=>
              \/ RowsEqual(run.rows, item.gold, item.ordered)
              \/ TieBreakOnly(run.rows, item.gold, item.ordered)
      BY <1>1, <1>2, RankingsAreJudged
    <2>. QED
      BY <1>1, <1>4, <2>1 DEF r, MatchInPlace, MatchButForTies
  <1>. HIDE DEF r, gold
  <1>13. Judge(run, item).outcome = "correct" <=>
             r = gold \/ (r = Ranked(3, 14 - j, t, s) /\ s = t)
    BY <1>8, <1>9, <1>10, <1>11, <1>12
  <1>. QED
    BY <1>1, <1>4, <1>6, <1>7, <1>13 DEF r

\* What is asked about answers: any two results, or to judge a run against an item of MCGrading.
AnswersAsked ==
    /\ asked.topic = "rows" => asked.left \in AnyRows /\ asked.right \in AnyRows
    /\ asked.topic = "judge" =>
           asked.item.gold \in Ranking \cup {One(1)} /\ asked.item.ordered \in BOOLEAN

\* Of any two results, rows sorted and paired are called equal only when some pairing makes
\* them equal, and always when one does and no two values are within twice the tolerance; and
\* ranked products known by name may be listed either way only where they are tied.
\* MCGrading's CorrectMeansTheSameAnswer, of compare.py's rows_equal and classify.py's
\* _tie_break_only, for every tolerance.
THEOREM CorrectIsTheSame == AnswersAsked => CorrectMeansTheSameAnswer
  <1>1. ASSUME AnswersAsked
        PROVE  SortedPairingIsExact
    <2>. SUFFICES ASSUME asked.topic = "rows"
                  PROVE  SortedPairingIsExact
      BY DEF SortedPairingIsExact
    <2>. DEFINE l == asked.left
                r == asked.right
    <2>1. l \in AnyRows /\ r \in AnyRows
      BY <1>1 DEF AnswersAsked
    <2>. HIDE DEF l, r
    <2>2. RowsEqual(l, r, FALSE) => SameMultiset(l, r)
      BY <2>1, SortedPairingIsSound
    <2>3. SameMultiset(l, r) /\ Separated(l) /\ Separated(r) => RowsEqual(l, r, FALSE)
      BY <2>1, SortedPairingIsComplete
    <2>. QED
      BY <2>2, <2>3 DEF SortedPairingIsExact, l, r
  <1>2. ASSUME AnswersAsked
        PROVE  NamedTiesMayBeBrokenEitherWay
    <2>. DEFINE run == asked.run
                item == asked.item
    <2>. SUFFICES ASSUME asked.topic = "judge", run.rows \in Ranking, item.ordered, item.gold[1][1][1] = 3
                  PROVE  Judge(run, item).outcome = "correct" <=>
                             \/ run.rows = item.gold
                             \/ run.rows = Reverse(item.gold) /\ item.gold[1][2] = item.gold[2][2]
      BY DEF NamedTiesMayBeBrokenEitherWay
    <2>1. item.gold \in Ranking \cup {One(1)} /\ item.ordered = TRUE
      BY <1>2 DEF AnswersAsked
    <2>2. item.gold # One(1)
      BY DEF One
    <2>3. item.gold \in Ranking
      BY <2>1, <2>2
    <2>. HIDE DEF run, item
    <2>. QED
      BY <2>1, <2>3, NamedTie
  <1>. QED
    BY <1>1, <1>2 DEF CorrectMeansTheSameAnswer

\* No other question is taken for one of answers.
LEMMA OthersAskNoAnswers ==
    ASSUME AskAny \/ Again, ~AskRowsEqual, ~AskGroups, ~AskJudge
    PROVE  asked'.topic \notin {"rows", "groups", "judge"}
  <1>1. ASSUME NEW topic, NEW question, Ask(topic, question)
        PROVE  asked'.topic = topic
    BY <1>1 DEF Ask
  <1>2. CASE Again
    BY <1>2 DEF Again, Idle
  <1>3. CASE AskPattern \/ AskSpread \/ AskCandidates
    BY <1>1, <1>3 DEF AskPattern, AskSpread, AskCandidates
  <1>4. CASE AskAbstain \/ AskEscalate
    BY <1>1, <1>4 DEF AskAbstain, AskEscalate
  <1>5. CASE AskComplaints \/ AskVerdict \/ AskSurface
    BY <1>1, <1>5 DEF AskComplaints, AskVerdict, AskSurface
  <1>6. CASE AskTable \/ AskPair \/ AskTwins \/ AskSix
    BY <1>1, <1>6 DEF AskTable, AskPair, AskTwins, AskSix
  <1>7. CASE AskScreens
    BY <1>1, <1>7 DEF AskScreens
  <1>8. CASE AskLedgers \/ AskPreflight
    BY <1>1, <1>8 DEF AskLedgers, AskPreflight
  <1>. QED
    BY <1>2, <1>3, <1>4, <1>5, <1>6, <1>7, <1>8 DEF AskAny

\* The results MCGrading compares are results.
LEMMA ComparedAreRows ==
    ASSUME NEW s \in Thin \cup Wide
    PROVE  s \in AnyRows
  <1>1. Values \in SUBSET AnyValue /\ Null \in AnyValue /\ <<2, 1>> \in AnyValue /\ <<2, 2>> \in AnyValue
    BY DEF Values, Null, AnyValue
  <1>2. CASE s \in Thin
    <2>1. s = [i \in 1..3 |-> s[i]] /\ \A i \in 1..3 : \E v \in Values : s[i] = <<v>>
      BY <1>2 DEF Thin
    <2>2. ASSUME NEW v \in AnyValue
          PROVE  <<v>> \in Seq(AnyValue)
      OBVIOUS
    <2>3. \A i \in 1..3 : s[i] \in AnyRow
      BY <1>1, <2>1, <2>2 DEF AnyRow
    <2>4. s \in [1..3 -> AnyRow]
      BY <2>1, <2>3
    <2>5. s \in UNION {[1..n -> AnyRow] : n \in Nat}
      BY <2>4
    <2>. QED
      BY <2>5, SeqDef, Zenon DEF AnyRows
  <1>3. CASE s \in Wide
    <2>1. /\ s = [i \in 1..2 |-> s[i]]
          /\ \A i \in 1..2 : \E v, w \in {Null, <<2, 1>>, <<2, 2>>} : s[i] = <<v, w>>
      BY <1>3 DEF Wide
    <2>2. ASSUME NEW v \in AnyValue, NEW w \in AnyValue
          PROVE  <<v, w>> \in Seq(AnyValue)
      OBVIOUS
    <2>3. \A i \in 1..2 : s[i] \in AnyRow
      <3>1. {Null, <<2, 1>>, <<2, 2>>} \in SUBSET AnyValue
        BY <1>1
      <3>2. \A i \in 1..2 : \E v, w \in AnyValue : s[i] = <<v, w>>
        BY <2>1, <3>1
      <3>. QED
        BY <2>2, <3>2 DEF AnyRow
    <2>4. s \in [1..2 -> AnyRow]
      BY <2>1, <2>3
    <2>5. s \in UNION {[1..n -> AnyRow] : n \in Nat}
      BY <2>4
    <2>. QED
      BY <2>5, SeqDef, Zenon DEF AnyRows
  <1>. QED
    BY <1>2, <1>3

\* So it holds of every answer the system asks about.
THEOREM CorrectIsAlwaysTheSame == Spec => []CorrectMeansTheSameAnswer
  <1>1. Init => AnswersAsked
    BY DEF Init, AskNothing, Idle, AnswersAsked
  <1>2. AnswersAsked /\ [Next]_<<asked, passVars>> => AnswersAsked'
    <2>. SUFFICES ASSUME AnswersAsked, [Next]_<<asked, passVars>>
                  PROVE  AnswersAsked'
      OBVIOUS
    <2>1. CASE UNCHANGED asked
      BY <2>1 DEF AnswersAsked
    <2>2. CASE AskRowsEqual
      <3>1. PICK l \in Thin \cup Wide, r \in Thin \cup Wide : Ask("rows", [left |-> l, right |-> r])
        BY <2>2 DEF AskRowsEqual
      <3>2. asked'.topic = "rows" /\ asked'.left = l /\ asked'.right = r
        BY <3>1 DEF Ask
      <3>3. l \in AnyRows /\ r \in AnyRows
        BY ComparedAreRows
      <3>. QED
        BY <3>2, <3>3 DEF AnswersAsked
    <2>3. CASE AskGroups
      <3>1. PICK item : Ask("groups", [item |-> item])
        BY <2>3 DEF AskGroups
      <3>2. asked'.topic = "groups"
        BY <3>1 DEF Ask
      <3>. QED
        BY <3>2 DEF AnswersAsked
    <2>4. CASE AskJudge
      <3>1. PICK gold \in Ranking \cup {One(1)}, ordered \in BOOLEAN :
                \E a, b \in Naive, s \in Ranking \cup Odd, ended \in {"no_attempts", "timeout"} :
                    Ask("judge", [run |-> [rows |-> s, ended |-> ended],
                                  item |-> Item(gold, <<a, b>>, ordered)])
        BY <2>4 DEF AskJudge
      <3>2. PICK a \in Naive, b \in Naive, s \in Ranking \cup Odd, ended \in {"no_attempts", "timeout"} :
                Ask("judge", [run |-> [rows |-> s, ended |-> ended],
                              item |-> Item(gold, <<a, b>>, ordered)])
        BY <3>1
      <3>. DEFINE item == Item(gold, <<a, b>>, ordered)
      <3>3. item.gold = gold /\ item.ordered = ordered
        BY DEF Item
      <3>. HIDE DEF item
      <3>4. asked'.topic = "judge" /\ asked'.item = item
        BY <3>2 DEF Ask, item
      <3>. QED
        BY <3>3, <3>4 DEF AnswersAsked
    <2>5. CASE (AskAny \/ Again) /\ ~AskRowsEqual /\ ~AskGroups /\ ~AskJudge
      <3>1. asked'.topic \notin {"rows", "groups", "judge"}
        BY <2>5, OthersAskNoAnswers
      <3>. QED
        BY <3>1 DEF AnswersAsked
    <2>. QED
      BY <2>1, <2>2, <2>3, <2>4, <2>5 DEF Next
  <1>. QED
    BY <1>1, <1>2, CorrectIsTheSame, PTL DEF Spec

-----------------------------------------------------------------------------
(* Results that are equal exactly when they are the same.                  *)

RowsOf(results) == UNION {ToSet(s) : s \in results}

\* No row twice, no NaN, and numbers that no tolerance takes for each other.
Plain(results) ==
    /\ results \in SUBSET AnyRows
    /\ \A s \in results : IsInjective(s)
    /\ \A r \in RowsOf(results) : NaN \notin ToSet(r)
    /\ \A r, t \in RowsOf(results) : Scattered(r, t)

\* Rows far apart are equal only when they are the same.
LEMMA ScatteredRowsAreEqualOrNot ==
    ASSUME NEW r \in AnyRow, NEW s \in AnyRow, Scattered(r, s), NaN \notin ToSet(r)
    PROVE  RowEqual(r, s) <=> r = s
  <1>0. /\ Len(r) \in Nat /\ DOMAIN r = 1..Len(r) /\ DOMAIN s = 1..Len(s)
        /\ \A i \in 1..Len(r) : r[i] \in AnyValue
        /\ \A i \in 1..Len(s) : s[i] \in AnyValue
    BY DEF AnyRow
  <1>1. \A i \in 1..Len(r) : r[i] # NaN
    BY <1>0 DEF ToSet
  <1>2. Tolerance \in Nat
    BY GradingAssumption DEF GradingAssumption
  <1>3. ASSUME NEW v \in AnyValue, NEW w \in AnyValue, FarApart(v, w), v # NaN
        PROVE  ValuesEqual(v, w) <=> v = w
    <2>1. v = <<v[1], v[2]>> /\ w = <<w[1], w[2]>> /\ v[1] \in Int /\ v[2] \in Int /\ w[2] \in Int
      BY DEF AnyValue
    <2>2. CASE ~IsNumber(v)
      BY <1>3, <2>2 DEF ValuesEqual
    <2>3. CASE IsNumber(v) /\ ~IsNumber(w)
      BY <2>3 DEF ValuesEqual, IsNumber
    <2>4. CASE IsNumber(v) /\ IsNumber(w)
      <3>1. v # w => v[2] - w[2] > 2 * Tolerance \/ v[2] - w[2] < -(2 * Tolerance)
        BY <1>2, <1>3, <2>1, <2>4 DEF FarApart
      <3>2. v[2] - w[2] \in -Tolerance..Tolerance => v = w
        BY <1>2, <2>1, <3>1
      <3>3. v = w => v[2] - w[2] \in -Tolerance..Tolerance
        BY <1>2, <2>1
      <3>. QED
        BY <1>3, <2>4, <3>2, <3>3 DEF ValuesEqual, IsNumber
    <2>. QED
      BY <2>2, <2>3, <2>4
  <1>4. ASSUME RowEqual(r, s)
        PROVE  r = s
    <2>1. Len(r) = Len(s) /\ \A i \in 1..Len(r) : ValuesEqual(r[i], s[i])
      BY <1>0, <1>4 DEF RowEqual
    <2>2. \A i \in 1..Len(r) : r[i] = s[i]
      <3>1. SUFFICES ASSUME NEW i \in 1..Len(r) PROVE r[i] = s[i]
        OBVIOUS
      <3>2. FarApart(r[i], s[i]) /\ r[i] \in AnyValue /\ s[i] \in AnyValue
        BY <1>0, <2>1 DEF Scattered
      <3>. QED
        BY <1>1, <1>3, <2>1, <3>2
    <2>. QED
      BY <2>1, <2>2, SeqEqual DEF AnyRow
  <1>5. ASSUME r = s
        PROVE  RowEqual(r, s)
    <2>1. \A i \in 1..Len(r) : ValuesEqual(r[i], r[i])
      <3>1. SUFFICES ASSUME NEW i \in 1..Len(r) PROVE ValuesEqual(r[i], r[i])
        OBVIOUS
      <3>2. FarApart(r[i], r[i]) /\ r[i] \in AnyValue
        BY <1>0, <1>5 DEF Scattered
      <3>. QED
        BY <1>1, <1>3, <3>2
    <2>. QED
      BY <1>0, <1>5, <2>1 DEF RowEqual
  <1>. QED
    BY <1>4, <1>5

\* Of plain results, equal is the same.
LEMMA PlainIsExact ==
    ASSUME NEW results, Plain(results), NEW l \in results, NEW r \in results, NEW ordered \in BOOLEAN
    PROVE  RowsEqual(l, r, ordered) <=> SameRows(l, r, ordered)
  <1>. DEFINE N == DOMAIN l
              M == DOMAIN r
  <1>0. /\ l \in AnyRows /\ r \in AnyRows /\ Len(l) \in Nat /\ Len(r) \in Nat
        /\ N = 1..Len(l) /\ M = 1..Len(r)
    BY DEF Plain, AnyRows
  <1>1. (\A i \in N : l[i] \in AnyRow) /\ (\A j \in M : r[j] \in AnyRow)
    BY <1>0 DEF AnyRows
  <1>2. \A i \in N : l[i] \in RowsOf(results)
    BY DEF RowsOf, ToSet
  <1>3. \A j \in M : r[j] \in RowsOf(results)
    BY DEF RowsOf, ToSet
  <1>4. ASSUME NEW i \in N, NEW j \in M
        PROVE  RowEqual(l[i], r[j]) <=> l[i] = r[j]
    <2>1. Scattered(l[i], r[j]) /\ NaN \notin ToSet(l[i])
      BY <1>2, <1>3 DEF Plain
    <2>. QED
      BY <1>1, <2>1, ScatteredRowsAreEqualOrNot
  <1>5. MatchInPlace(l, r) <=> l = r
    <2>1. MatchInPlace(l, r) <=> Len(l) = Len(r) /\ \A i \in N : RowEqual(l[i], r[i])
      BY DEF MatchInPlace, RowsEqual
    <2>. HIDE DEF N, M
    <2>2. ASSUME Len(l) = Len(r), \A i \in N : RowEqual(l[i], r[i])
          PROVE  l = r
      <3>1. \A i \in 1..Len(l) : l[i] = r[i]
        BY <1>0, <1>4, <2>2
      <3>. QED
        BY <1>0, <2>2, <3>1, SeqEqual DEF AnyRows
    <2>3. ASSUME l = r
          PROVE  \A i \in N : RowEqual(l[i], r[i])
      BY <1>0, <1>4, <2>3
    <2>. QED
      BY <2>1, <2>2, <2>3
  <1>6. Separated(l) /\ Separated(r)
    <2>1. \A i, j \in N : Scattered(l[i], l[j])
      BY <1>2 DEF Plain
    <2>2. \A i, j \in M : Scattered(r[i], r[j])
      BY <1>3 DEF Plain
    <2>. QED
      BY <2>1, <2>2 DEF Separated, Scattered, FarApart
  <1>7. ASSUME MatchInSomeOrder(l, r)
        PROVE  ToSet(l) = ToSet(r)
    <2>1. SameMultiset(l, r)
      BY <1>0, <1>7, SortedPairingIsSound DEF MatchInSomeOrder
    <2>2. PICK f \in Bijection(N, M) : \A i \in N : RowEqual(l[i], r[f[i]])
      BY <2>1 DEF SameMultiset
    <2>. HIDE DEF N, M
    <2>3. f \in [N -> M] /\ \A j \in M : \E i \in N : f[i] = j
      BY DEF Bijection, Injection, Surjection
    <2>4. \A i \in N : l[i] = r[f[i]]
      BY <1>4, <2>2, <2>3
    <2>5. \A i \in N : \E j \in M : l[i] = r[j]
      BY <2>3, <2>4
    <2>6. \A j \in M : \E i \in N : l[i] = r[j]
      BY <2>3, <2>4
    <2>. QED
      BY <2>5, <2>6 DEF ToSet, N, M
  <1>8. ASSUME ToSet(l) = ToSet(r)
        PROVE  MatchInSomeOrder(l, r)
    <2>1. IsInjective(l) /\ IsInjective(r)
      BY DEF Plain
    <2>2. Len(l) = Len(r) /\ PairedUp(l, r)
      BY <1>0, <1>8, <2>1, SameMembersMatch DEF AnyRows
    <2>3. PICK f \in Bijection(DOMAIN l, DOMAIN r) : \A i \in DOMAIN l : l[i] = r[f[i]]
      BY <2>2 DEF PairedUp
    <2>4. f \in [DOMAIN l -> DOMAIN r]
      BY DEF Bijection, Injection
    <2>5. \A i \in DOMAIN l : RowEqual(l[i], r[f[i]])
      BY <1>4, <2>3, <2>4
    <2>6. SameMultiset(l, r)
      BY <2>2, <2>5 DEF SameMultiset
    <2>. QED
      BY <1>0, <1>6, <2>6, SortedPairingIsComplete DEF MatchInSomeOrder
  <1>9. CASE ordered = TRUE
    BY <1>5, <1>9 DEF SameRows, MatchInPlace
  <1>10. CASE ordered = FALSE
    BY <1>7, <1>8, <1>10 DEF SameRows, MatchInSomeOrder
  <1>. QED
    BY <1>9, <1>10

-----------------------------------------------------------------------------
(* What AmbiguousGroups and Attribute come to, of plain results.           *)

SameAnswers(naive, ordered) ==
    {p \in (DOMAIN naive) \X (DOMAIN naive) : SameRows(naive[p[1]], naive[p[2]], ordered)}

Inert(naive, gold, ordered) == {r \in DOMAIN naive : SameRows(naive[r], gold, ordered)}

\* To give the same answer is to be alike.
LEMMA SameAnswersLiken ==
    ASSUME NEW naive, NEW D, D = DOMAIN naive, NEW ordered \in BOOLEAN
    PROVE  Likens(SameAnswers(naive, ordered), D)
  <1>1. \A x, y \in D : <<x, y>> \in SameAnswers(naive, ordered) <=> SameRows(naive[x], naive[y], ordered)
    BY DEF SameAnswers
  <1>. QED
    BY <1>1 DEF Likens, SameRows

\* Of plain results, the groups are the classes of those that are the same, but for those
\* that are alone and not gold's.
LEMMA AmbiguousGroupsAre ==
    ASSUME NEW n \in Nat, NEW naive, NEW D, D = 1..n, D = DOMAIN naive, NEW gold, NEW ordered \in BOOLEAN,
           NEW results, Plain(results), gold \in results, \A r \in D : naive[r] \in results,
           NEW A, A = SameAnswers(naive, ordered)
    PROVE  AmbiguousGroups(naive, gold, ordered) =
               {ClassOf(A, D, x) : x \in Shared(A, D) \cup Inert(naive, gold, ordered)}
  <1>. DEFINE pairs == {p \in D \X D : p[1] < p[2] /\ RowsEqual(naive[p[1]], naive[p[2]], ordered)}
              Q == AscendingPairs(A, D)
              groups == FoldLeft(Join, <<>>, Listed(Q, Lexical(Q)))
              inert == {r \in D : RowsEqual(naive[r], gold, ordered)}
  <1>1. pairs = Q
    <2>1. ASSUME NEW p \in D \X D
          PROVE  p \in pairs <=> p \in Q
      <3>1. p[1] \in D /\ p[2] \in D /\ p = <<p[1], p[2]>>
        OBVIOUS
      <3>2. RowsEqual(naive[p[1]], naive[p[2]], ordered) <=> SameRows(naive[p[1]], naive[p[2]], ordered)
        BY <3>1, PlainIsExact
      <3>3. p \in A <=> SameRows(naive[p[1]], naive[p[2]], ordered)
        BY DEF SameAnswers
      <3>. QED
        BY <3>1, <3>2, <3>3 DEF AscendingPairs
    <2>. QED
      BY <2>1 DEF AscendingPairs
  <1>2. AlikePairs(naive, ordered) = Listed(Q, Lexical(Q))
    <2>1. AlikePairs(naive, ordered) = Listed(pairs, Lexical(pairs))
      BY DEF AlikePairs, Lexical
    <2>. HIDE DEF pairs, Q
    <2>. QED
      BY <1>1, <2>1
  <1>3. inert = Inert(naive, gold, ordered)
    BY PlainIsExact DEF Inert
  <1>4. AmbiguousGroups(naive, gold, ordered) =
            ToSet(groups) \cup {{r} : r \in inert \ UNION ToSet(groups)}
    BY <1>2 DEF AmbiguousGroups
  <1>. HIDE DEF inert, groups, pairs, Q
  <1>5. Likens(A, D)
    BY SameAnswersLiken
  <1>6. groups \in Seq(SUBSET D) /\ Grouped(groups, A, D, Q)
    BY <1>5, GroupsOfTheLoop DEF groups, Q
  <1>7. ToSet(groups) = {ClassOf(A, D, x) : x \in Shared(A, D)} /\ UNION ToSet(groups) = Shared(A, D)
    BY <1>5, <1>6, GroupsAreClasses DEF Q
  <1>8. ASSUME NEW r \in D, r \notin Shared(A, D)
        PROVE  {r} = ClassOf(A, D, r)
    <2>1. r \in ClassOf(A, D, r)
      BY <1>5 DEF Likens, ClassOf
    <2>. QED
      BY <1>8, <2>1 DEF Shared, HoldsTwo
  <1>9. Inert(naive, gold, ordered) \in SUBSET D
    BY DEF Inert
  <1>10. {{r} : r \in inert \ Shared(A, D)} = {ClassOf(A, D, x) : x \in inert \ Shared(A, D)}
    BY <1>3, <1>8, <1>9
  <1>. QED
    BY <1>3, <1>4, <1>7, <1>10

\* No group adds to what holds all of it that it meets.
LEMMA FoldOfWiden ==
    ASSUME NEW groups, NEW l \in Seq(groups), NEW matched,
           \A g \in groups : g \cap matched # {} => g \subseteq matched
    PROVE  FoldLeft(Widen, matched, l) = matched
  <1>. DEFINE S == DOMAIN l
              Widens(g) == g = [t \in SUBSET S |-> IF t = {} THEN matched
                                                    ELSE Widen(g[t \ {Max(t)}], l[Max(t)])]
              it == CHOOSE g : Widens(g)
              F == [e \in {matched} \X groups |-> matched]
              still == [t \in SUBSET S |-> matched]
  <1>1. FoldLeft(Widen, matched, l) = it[S]
    BY Zenon DEF FoldLeft, MapThenFoldSet
  <1>2. \A g \in groups : Widen(matched, g) = matched
    BY DEF Widen
  <1>3. S = 1..Len(l) /\ Len(l) \in Nat /\ \A i \in S : l[i] \in groups
    OBVIOUS
  <1>4. F \in [{matched} \X groups -> {matched}] /\ \A g \in groups : F[<<matched, g>>] = matched
    OBVIOUS
  <1>. HIDE DEF S, F
  <1>5. Graded(S)
    BY <1>3, UpToIsGraded
  <1>6. Widens(still)
    <2>1. ASSUME NEW t \in SUBSET S, t # {}
          PROVE  Widen(still[t \ {Max(t)}], l[Max(t)]) = matched
      <3>1. Greatest(t) \in S /\ Lower(t) \in SUBSET S
        BY <1>5, <2>1, GradedBelow DEF Graded
      <3>2. still[Lower(t)] = matched /\ l[Greatest(t)] \in groups
        BY <1>3, <3>1
      <3>3. Widen(still[Lower(t)], l[Greatest(t)]) = matched
        BY <1>2, <3>2
      <3>. QED
        BY <3>3 DEF Lower, Greatest
    <2>. QED
      BY <2>1
  <1>7. Widens(it)
    <2>. HIDE DEF Widens
    <2>. QED
      BY <1>6
  <1>8. StepsInside(F, matched, l, S, {matched}, it)
    <2>. DEFINE f == [t \in SUBSET S |-> IF t = {} THEN matched ELSE Widen(it[t \ {Max(t)}], l[Max(t)])]
    <2>1. it = f
      BY <1>7
    <2>2. \A t \in SUBSET S : f[t] = IF t = {} THEN matched ELSE Widen(it[t \ {Max(t)}], l[Max(t)])
      OBVIOUS
    <2>3. f = [t \in SUBSET S |-> f[t]]
      OBVIOUS
    <2>. HIDE DEF f, it
    <2>4. ASSUME NEW t \in SUBSET S, t # {}, it[Lower(t)] \in {matched}
          PROVE  it[t] = F[<<it[Lower(t)], l[Greatest(t)]>>]
      <3>1. Greatest(t) \in S
        BY <1>5, <2>4 DEF Graded
      <3>2. it[t] = Widen(it[Lower(t)], l[Greatest(t)])
        BY <2>1, <2>2, <2>4 DEF Lower, Greatest
      <3>. QED
        BY <1>2, <1>3, <1>4, <2>4, <3>1, <3>2
    <2>5. it[{}] = matched
      BY <2>1, <2>2
    <2>. QED
      BY <2>1, <2>3, <2>4, <2>5 DEF StepsInside
  <1>. HIDE DEF it
  <1>9. \A t \in SUBSET S : it[t] \in {matched}
    BY <1>3, <1>4, <1>5, <1>8, InsideIsOver
  <1>. QED
    BY <1>1, <1>9

\* Of plain results, an answer is laid to the rules that give it.
LEMMA AttributeNames ==
    ASSUME NEW n \in Nat, NEW item, NEW D, D = 1..n, D = DOMAIN item.naive, item.ordered \in BOOLEAN,
           NEW results, Plain(results), item.gold \in results, \A r \in D : item.naive[r] \in results,
           item.groups = AmbiguousGroups(item.naive, item.gold, item.ordered), NEW given \in results
    PROVE  Attribute(given, item) = {r \in D : SameRows(item.naive[r], given, item.ordered)}
  <1>. DEFINE matched == {r \in D : RowsEqual(given, item.naive[r], item.ordered)}
              groups == item.groups
              E == {e \in groups \X groups : Min(e[1]) < Min(e[2])}
              A == SameAnswers(item.naive, item.ordered)
  <1>1. matched = {r \in D : SameRows(item.naive[r], given, item.ordered)}
    <2>1. \A r \in D : RowsEqual(given, item.naive[r], item.ordered) <=>
                           SameRows(given, item.naive[r], item.ordered)
      BY PlainIsExact
    <2>2. \A r \in D : SameRows(given, item.naive[r], item.ordered) <=>
                           SameRows(item.naive[r], given, item.ordered)
      BY DEF SameRows
    <2>. QED
      BY <2>1, <2>2
  <1>2. groups = {ClassOf(A, D, x) : x \in Shared(A, D) \cup Inert(item.naive, item.gold, item.ordered)}
    BY AmbiguousGroupsAre
  <1>3. Likens(A, D)
    BY SameAnswersLiken
  <1>4. \A x, y \in D : <<x, y>> \in A <=> SameRows(item.naive[x], item.naive[y], item.ordered)
    BY DEF SameAnswers
  <1>5. \A g \in groups : \E x \in D : g = ClassOf(A, D, x)
    BY <1>2 DEF Shared, Inert
  <1>6. Attribute(given, item) = FoldLeft(Widen, matched, Listed(groups, E))
    BY DEF Attribute
  <1>. HIDE DEF A
  <1>7. ASSUME NEW g \in groups
        PROVE  g # {} /\ g \in SUBSET D
    <2>1. PICK x \in D : g = ClassOf(A, D, x)
      BY <1>5
    <2>2. x \in ClassOf(A, D, x)
      BY <1>3 DEF Likens, ClassOf
    <2>3. ClassOf(A, D, x) \in SUBSET D
      BY DEF ClassOf
    <2>. QED
      BY <2>1, <2>2, <2>3
  <1>8. ASSUME NEW g \in groups, NEW h \in groups, g \cap h # {}
        PROVE  g = h
    <2>1. PICK x \in D, y \in D : g = ClassOf(A, D, x) /\ h = ClassOf(A, D, y)
      BY <1>5
    <2>2. PICK z \in D : <<z, x>> \in A /\ <<z, y>> \in A
      BY <1>8, <2>1 DEF ClassOf
    <2>3. <<x, y>> \in A /\ <<y, x>> \in A
      BY <1>3, <2>2 DEF Likens
    <2>. QED
      BY <1>3, <2>1, <2>3 DEF Likens, ClassOf
  <1>9. ASSUME NEW g \in groups, g \cap matched # {}
        PROVE  g \subseteq matched
    <2>1. PICK x \in D : g = ClassOf(A, D, x)
      BY <1>5
    <2>2. PICK r \in D : <<r, x>> \in A /\ SameRows(item.naive[r], given, item.ordered)
      BY <1>1, <1>9, <2>1 DEF ClassOf
    <2>3. SUFFICES ASSUME NEW s \in D, <<s, x>> \in A
                   PROVE  SameRows(item.naive[s], given, item.ordered)
      BY <1>1, <2>1 DEF ClassOf
    <2>4. <<s, r>> \in A
      BY <1>3, <2>2, <2>3 DEF Likens
    <2>. QED
      BY <1>4, <2>2, <2>4 DEF SameRows
  <1>. HIDE DEF groups, E, matched
  <1>10. Listed(groups, E) \in Seq(groups)
    <2>1. groups \in SUBSET (SUBSET D)
      BY <1>7
    <2>2. E = {e \in groups \X groups : Min(e[1]) < Min(e[2])}
      BY DEF E
    <2>3. (\A g \in groups : g # {}) /\ \A g, h \in groups : g \cap h # {} => g = h
      BY <1>7, <1>8
    <2>. QED
      BY <2>1, <2>2, <2>3, GroupsAreListed
  <1>11. FoldLeft(Widen, matched, Listed(groups, E)) = matched
    BY <1>9, <1>10, FoldOfWiden
  <1>. QED
    BY <1>1, <1>6, <1>11

-----------------------------------------------------------------------------
(* Wrong answers and their rules.                                          *)

ResultsOf(item) == {item.gold} \cup {item.naive[r] : r \in DOMAIN item.naive}

\* An item as build.py records it, of any number of rules.
Itemised(item) ==
    /\ \E n \in Nat : DOMAIN item.naive = 1..n
    /\ item.ordered \in BOOLEAN
    /\ item.groups = AmbiguousGroups(item.naive, item.gold, item.ordered)

Telling(given) == given # <<>> /\ ~AllNull(given)

\* What is asked about items: any whose answers are plain, and what a run says is too.
ItemsAsked ==
    /\ asked.topic = "groups" => Itemised(asked.item) /\ Plain(ResultsOf(asked.item))
    /\ asked.topic = "judge" =>
           /\ Itemised(asked.item)
           /\ Telling(asked.run.rows) => Plain(ResultsOf(asked.item) \cup {asked.run.rows})

\* What is recorded of an item's rules is which answer alike, and which as gold does.
LEMMA GroupsAreAmbiguities ==
    ASSUME NEW item, Itemised(item), Plain(ResultsOf(item))
    PROVE  LET alike(r) == {s \in DOMAIN item.naive :
                               SameRows(item.naive[s], item.naive[r], item.ordered)}
               inert(r) == SameRows(item.naive[r], item.gold, item.ordered)
           IN  item.groups = {alike(r) : r \in {s \in DOMAIN item.naive :
                                                    inert(s) \/ Cardinality(alike(s)) > 1}}
  <1>. DEFINE D == DOMAIN item.naive
              A == SameAnswers(item.naive, item.ordered)
              I == Inert(item.naive, item.gold, item.ordered)
              alike(r) == {s \in D : SameRows(item.naive[s], item.naive[r], item.ordered)}
              some == {s \in D : SameRows(item.naive[s], item.gold, item.ordered) \/ Cardinality(alike(s)) > 1}
  <1>1. PICK n \in Nat : D = 1..n
    BY DEF Itemised
  <1>2. \A r \in D : item.naive[r] \in ResultsOf(item)
    BY DEF ResultsOf
  <1>3. item.gold \in ResultsOf(item) /\ item.ordered \in BOOLEAN
    BY DEF ResultsOf, Itemised
  <1>4. item.groups = {ClassOf(A, D, x) : x \in Shared(A, D) \cup I}
    <2>1. AmbiguousGroups(item.naive, item.gold, item.ordered) =
              {ClassOf(A, D, x) : x \in Shared(A, D) \cup I}
      BY <1>1, <1>2, <1>3, AmbiguousGroupsAre
    <2>. QED
      BY <2>1 DEF Itemised
  <1>5. \A r \in D : ClassOf(A, D, r) = alike(r)
    BY DEF ClassOf, SameAnswers
  <1>6. \A r \in D : Cardinality(alike(r)) > 1 <=> HoldsTwo(alike(r))
    <2>1. SUFFICES ASSUME NEW r \in D PROVE Cardinality(alike(r)) > 1 <=> HoldsTwo(alike(r))
      OBVIOUS
    <2>2. IsFiniteSet(D)
      BY <1>1, FS_Interval
    <2>3. alike(r) \in SUBSET D
      OBVIOUS
    <2>4. IsFiniteSet(alike(r))
      BY <2>2, <2>3, FS_Subset
    <2>. HIDE DEF alike
    <2>. QED
      BY <2>4, TwoIsMoreThanOne
  <1>7. some = Shared(A, D) \cup I
    BY <1>5, <1>6 DEF Shared, Inert
  <1>8. \A r \in some : r \in D
    OBVIOUS
  <1>. HIDE DEF A, I
  <1>9. item.groups = {alike(r) : r \in some}
    <2>. HIDE DEF some, alike, D
    <2>. QED
      BY <1>4, <1>5, <1>7, <1>8
  <1>. QED
    BY <1>9

\* Only what says something is a silent error, and it is attributed.
LEMMA SilentErrorsAreAttributed ==
    ASSUME NEW run, NEW item, Judge(run, item).outcome = "silent_error"
    PROVE  Telling(run.rows) /\ Judge(run, item).rules = Attribute(run.rows, item)
  <1>1. run.rows # <<>>
    BY DEF Judge
  <1>2. ~AllNull(run.rows)
    BY <1>1 DEF Judge
  <1>3. ~ShapeMismatch(run.rows, item.gold)
    BY <1>1, <1>2 DEF Judge
  <1>. QED
    BY <1>1, <1>2, <1>3 DEF Judge, Telling

\* However many rules a question has and whatever plain results their naive answers give, the
\* groups recorded with it are the classes of rules that answer alike, of two or more or of
\* none but gold's answer, and a silent error is laid to exactly the rules whose answer it
\* gave.  MCGrading's WrongAnswersAreLaidToTheirRules, of build.py's _ambiguous_groups and
\* classify.py's _attribute, for every tolerance.
THEOREM WrongIsLaid == ItemsAsked => WrongAnswersAreLaidToTheirRules
  <1>1. ASSUME ItemsAsked
        PROVE  GroupsAreTheAmbiguities
    <2>. SUFFICES ASSUME asked.topic = "groups"
                  PROVE  GroupsAreTheAmbiguities
      BY DEF GroupsAreTheAmbiguities
    <2>1. Itemised(asked.item) /\ Plain(ResultsOf(asked.item))
      BY <1>1 DEF ItemsAsked
    <2>. QED
      BY <2>1, GroupsAreAmbiguities DEF GroupsAreTheAmbiguities
  <1>2. ASSUME ItemsAsked
        PROVE  SilentErrorsNameTheirVariants
    <2>. DEFINE item == asked.item
                run == asked.run
                given == run.rows
    <2>. SUFFICES ASSUME asked.topic = "judge", Judge(run, item).outcome = "silent_error"
                  PROVE  Judge(run, item).rules =
                             {r \in DOMAIN item.naive : SameRows(item.naive[r], given, item.ordered)}
      BY DEF SilentErrorsNameTheirVariants
    <2>1. Telling(given) /\ Judge(run, item).rules = Attribute(given, item)
      BY SilentErrorsAreAttributed
    <2>2. Itemised(item) /\ Plain(ResultsOf(item) \cup {given})
      BY <1>2, <2>1 DEF ItemsAsked
    <2>. HIDE DEF given, item
    <2>. DEFINE D == DOMAIN item.naive
                results == ResultsOf(item) \cup {given}
    <2>3. PICK n \in Nat : D = 1..n
      BY <2>2 DEF Itemised
    <2>4. item.gold \in results /\ given \in results /\ \A r \in D : item.naive[r] \in results
      BY DEF ResultsOf
    <2>. HIDE DEF results
    <2>5. Plain(results)
      BY <2>2 DEF results
    <2>6. item.ordered \in BOOLEAN /\ item.groups = AmbiguousGroups(item.naive, item.gold, item.ordered)
      BY <2>2 DEF Itemised
    <2>7. Attribute(given, item) = {r \in D : SameRows(item.naive[r], given, item.ordered)}
      BY <2>3, <2>4, <2>5, <2>6, AttributeNames
    <2>. QED
      BY <2>1, <2>7
  <1>. QED
    BY <1>1, <1>2 DEF WrongAnswersAreLaidToTheirRules

-----------------------------------------------------------------------------
(* The results the questions are about are plain.                          *)

Known == {Null} \cup {<<k, Apart(n)>> : k \in KnownBy, n \in Int}

\* No tolerance takes the numbers of the questions for each other.
LEMMA NumbersAreApart ==
    ASSUME NEW m \in Int, NEW n \in Int
    PROVE  /\ Apart(m) \in Int
           /\ m # n => Apart(m) # Apart(n) /\ Apart(m) - Apart(n) \notin -(2 * Tolerance)..(2 * Tolerance)
  <1>1. Tolerance \in Nat
    BY GradingAssumption DEF GradingAssumption
  <1>. DEFINE d == 2 * Tolerance + 1
  <1>2. d \in Nat /\ d = 2 * Tolerance + 1
    BY <1>1
  <1>3. Apart(m) = m * d /\ Apart(n) = n * d
    BY DEF Apart
  <1>. HIDE DEF d
  <1>4. Apart(m) \in Int /\ Apart(n) \in Int /\ Apart(m) - Apart(n) = (m - n) * d
    BY <1>2, <1>3
  <1>5. m > n => (m - n) * d >= d
    <2>1. ASSUME NEW k \in Nat, k >= 1 PROVE k * d >= d
      BY <1>2, <2>1
    <2>. QED
      BY <2>1
  <1>6. m < n => (m - n) * d <= -d
    <2>1. ASSUME NEW k \in Int, k <= -1 PROVE k * d <= -d
      BY <1>2, <2>1
    <2>. QED
      BY <2>1
  <1>. QED
    BY <1>1, <1>2, <1>4, <1>5, <1>6

\* Nor the values of the questions.
LEMMA KnownAreFarApart ==
    ASSUME NEW v \in Known, NEW w \in Known
    PROVE  v \in AnyValue /\ v # NaN /\ FarApart(v, w)
  <1>1. ASSUME NEW x \in Known
        PROVE  x \in AnyValue /\ x # NaN
    <2>1. CASE x = Null
      BY <2>1 DEF Null, NaN, AnyValue
    <2>2. CASE x # Null
      <3>1. PICK k \in KnownBy, m \in Int : x = <<k, Apart(m)>>
        BY <2>2 DEF Known
      <3>2. k \in Int /\ k # 4 /\ Apart(m) \in Int
        BY NumbersAreApart DEF KnownBy
      <3>. QED
        BY <3>1, <3>2 DEF AnyValue, NaN
    <2>. QED
      BY <2>1, <2>2
  <1>2. FarApart(v, w)
    <2>. SUFFICES ASSUME IsNumber(v), IsNumber(w), v # w
                  PROVE  v[2] - w[2] \notin -(2 * Tolerance)..(2 * Tolerance)
      BY DEF FarApart
    <2>1. v # Null /\ w # Null
      BY DEF IsNumber, Null
    <2>2. PICK k \in KnownBy, m \in Int : v = <<k, Apart(m)>>
      BY <2>1 DEF Known
    <2>3. PICK l \in KnownBy, n \in Int : w = <<l, Apart(n)>>
      BY <2>1 DEF Known
    <2>4. k = 2 /\ l = 2
      BY <2>2, <2>3 DEF IsNumber
    <2>5. m # n
      BY <2>2, <2>3, <2>4
    <2>6. Apart(m) - Apart(n) \notin -(2 * Tolerance)..(2 * Tolerance)
      BY <2>5, NumbersAreApart
    <2>. QED
      BY <2>2, <2>3, <2>6
  <1>. QED
    BY <1>1, <1>2

\* Results of such values are plain, when no row comes twice.
LEMMA KnownArePlain ==
    ASSUME NEW results \in SUBSET Seq(Seq(Known)), \A s \in results : IsInjective(s)
    PROVE  Plain(results)
  <1>1. Known \in SUBSET AnyValue
    BY KnownAreFarApart
  <1>2. ASSUME NEW r \in Seq(Known)
        PROVE  /\ r \in AnyRow
               /\ \A i \in DOMAIN r : r[i] \in Known
    BY <1>1, <1>2 DEF AnyRow
  <1>3. \A r \in RowsOf(results) : r \in Seq(Known)
    <2>1. SUFFICES ASSUME NEW s \in results, NEW i \in DOMAIN s PROVE s[i] \in Seq(Known)
      BY DEF RowsOf, ToSet
    <2>. DEFINE R == Seq(Known)
    <2>2. s \in Seq(R)
      OBVIOUS
    <2>. HIDE DEF R
    <2>3. s[i] \in R
      BY <2>2
    <2>. QED
      BY <2>3 DEF R
  <1>4. results \in SUBSET AnyRows
    <2>. DEFINE R == Seq(Known)
    <2>1. R \in SUBSET AnyRow
      BY <1>2
    <2>2. results \in SUBSET Seq(R)
      OBVIOUS
    <2>. HIDE DEF R
    <2>. QED
      BY <2>1, <2>2 DEF AnyRows
  <1>5. \A r \in RowsOf(results) : NaN \notin ToSet(r)
    BY <1>2, <1>3, KnownAreFarApart DEF ToSet
  <1>6. \A r, t \in RowsOf(results) : Scattered(r, t)
    BY <1>2, <1>3, KnownAreFarApart DEF Scattered
  <1>. QED
    BY <1>4, <1>5, <1>6 DEF Plain

AskedOf == {One(n) : n \in Int} \cup Ranking \cup {<<Product(3, 5, 5)>>}

\* The results of the questions are.
LEMMA AskedArePlain == Plain(AskedOf)
  <1>1. ASSUME NEW n \in Int
        PROVE  <<2, Apart(n)>> \in Known
    BY DEF Known, KnownBy
  <1>2. ASSUME NEW k \in KnownBy, NEW i \in Ranks, NEW m \in Sold
        PROVE  Product(k, i, m) \in Seq(Known)
    <2>1. <<k, Apart(i)>> \in Known /\ <<2, Apart(m)>> \in Known
      BY DEF Known, KnownBy, Ranks, Sold
    <2>. DEFINE a == <<k, Apart(i)>>
                b == <<2, Apart(m)>>
    <2>2. Product(k, i, m) = <<a, b>>
      BY DEF Product
    <2>. HIDE DEF a, b
    <2>. QED
      BY <2>1, <2>2 DEF a, b
  <1>3. ASSUME NEW r
        PROVE  IsInjective(<<r>>)
    BY DEF IsInjective
  <1>4. ASSUME NEW n \in Int
        PROVE  One(n) \in Seq(Seq(Known)) /\ IsInjective(One(n))
    <2>. DEFINE v == <<2, Apart(n)>>
                r == <<v>>
    <2>1. One(n) = <<r>>
      BY DEF One
    <2>2. v \in Known
      BY <1>1
    <2>. HIDE DEF v
    <2>3. r \in Seq(Known)
      BY <2>2
    <2>. HIDE DEF r
    <2>. QED
      BY <1>3, <2>1, <2>3
  <1>5. <<Product(3, 5, 5)>> \in Seq(Seq(Known)) /\ IsInjective(<<Product(3, 5, 5)>>)
    <2>. DEFINE r == Product(3, 5, 5)
    <2>1. r \in Seq(Known)
      BY <1>2 DEF KnownBy, Ranks, Sold
    <2>. HIDE DEF r
    <2>2. <<r>> \in Seq(Seq(Known)) /\ IsInjective(<<r>>)
      BY <1>3, <2>1
    <2>. QED
      BY <2>2 DEF r
  <1>6. ASSUME NEW s \in Ranking
        PROVE  s \in Seq(Seq(Known)) /\ IsInjective(s)
    <2>1. PICK k \in KnownBy, i \in Ranks, m \in Sold, n \in Sold : s = Ranked(k, i, m, n)
      BY DEF Ranking, Ranked, KnownBy, Ranks, Sold
    <2>. DEFINE a == Product(k, i, m)
                b == Product(k, 14 - i, n)
    <2>2. 14 - i \in Ranks /\ 14 - i # i
      BY DEF Ranks
    <2>3. a \in Seq(Known) /\ b \in Seq(Known)
      BY <1>2, <2>2
    <2>4. a # b
      <3>1. a[1][2] = Apart(i) /\ b[1][2] = Apart(14 - i)
        BY DEF Product
      <3>2. Apart(i) # Apart(14 - i)
        BY <2>2, NumbersAreApart DEF Ranks
      <3>. QED
        BY <3>1, <3>2
    <2>5. s = <<a, b>>
      BY <2>1 DEF Ranked
    <2>. HIDE DEF a, b
    <2>6. <<a, b>> \in Seq(Seq(Known))
      BY <2>3
    <2>7. IsInjective(<<a, b>>)
      BY <2>4 DEF IsInjective
    <2>. QED
      BY <2>5, <2>6, <2>7
  <1>7. AskedOf \in SUBSET Seq(Seq(Known)) /\ \A s \in AskedOf : IsInjective(s)
    BY <1>4, <1>5, <1>6 DEF AskedOf
  <1>. QED
    BY <1>7, KnownArePlain

\* And so are some of them.
LEMMA PartsArePlain ==
    ASSUME NEW all, Plain(all), NEW some \in SUBSET all
    PROVE  Plain(some)
  <1>1. RowsOf(some) \in SUBSET RowsOf(all)
    BY DEF RowsOf
  <1>. QED
    BY <1>1 DEF Plain

\* The items of the questions are recorded as build.py records items.
LEMMA ItemsAreItemised ==
    ASSUME NEW gold \in AskedOf, NEW naive, NEW ordered \in BOOLEAN, NEW n \in Nat, DOMAIN naive = 1..n,
           \A r \in 1..n : naive[r] \in AskedOf
    PROVE  Itemised(Item(gold, naive, ordered)) /\ ResultsOf(Item(gold, naive, ordered)) \in SUBSET AskedOf
  BY DEF Item, Itemised, ResultsOf

\* So it holds of every item and run the system asks about.
THEOREM WrongIsAlwaysLaid == Spec => []WrongAnswersAreLaidToTheirRules
  <1>1. Init => ItemsAsked
    BY DEF Init, AskNothing, Idle, ItemsAsked
  <1>2. ItemsAsked /\ [Next]_<<asked, passVars>> => ItemsAsked'
    <2>. SUFFICES ASSUME ItemsAsked, [Next]_<<asked, passVars>>
                  PROVE  ItemsAsked'
      OBVIOUS
    <2>1. CASE UNCHANGED asked
      BY <2>1 DEF ItemsAsked
    <2>2. CASE AskRowsEqual
      <3>1. asked'.topic = "rows"
        BY <2>2 DEF AskRowsEqual, Ask
      <3>. QED
        BY <3>1 DEF ItemsAsked
    <2>3. CASE AskGroups
      <3>1. PICK f \in [1..4 -> {1, 3, 5, 9}], gold \in {1, 5} :
                Ask("groups", [item |-> Item(One(gold), [r \in 1..4 |-> One(f[r])], FALSE)])
        BY <2>3 DEF AskGroups
      <3>. DEFINE naive == [r \in 1..4 |-> One(f[r])]
                  item == Item(One(gold), naive, FALSE)
      <3>2. asked'.topic = "groups" /\ asked'.item = item
        BY <3>1 DEF Ask
      <3>3. One(gold) \in AskedOf
        BY DEF AskedOf
      <3>4. DOMAIN naive = 1..4 /\ \A r \in 1..4 : naive[r] \in AskedOf
        BY DEF AskedOf
      <3>. HIDE DEF naive
      <3>5. Itemised(item) /\ ResultsOf(item) \in SUBSET AskedOf
        BY <3>3, <3>4, ItemsAreItemised
      <3>. HIDE DEF item
      <3>6. Plain(ResultsOf(item))
        BY <3>5, AskedArePlain, PartsArePlain
      <3>. QED
        BY <3>2, <3>5, <3>6 DEF ItemsAsked
    <2>4. CASE AskJudge
      <3>1. PICK gold \in Ranking \cup {One(1)}, ordered \in BOOLEAN, a \in Naive, b \in Naive :
                \E s \in Ranking \cup Odd, ended \in {"no_attempts", "timeout"} :
                    Ask("judge", [run |-> [rows |-> s, ended |-> ended],
                                  item |-> Item(gold, <<a, b>>, ordered)])
        BY <2>4 DEF AskJudge
      <3>2. PICK s \in Ranking \cup Odd, ended \in {"no_attempts", "timeout"} :
                Ask("judge", [run |-> [rows |-> s, ended |-> ended],
                              item |-> Item(gold, <<a, b>>, ordered)])
        BY <3>1
      <3>. DEFINE naive == <<a, b>>
                  item == Item(gold, naive, ordered)
                  run == [rows |-> s, ended |-> ended]
      <3>3. asked'.topic = "judge" /\ asked'.item = item /\ asked'.run = run /\ run.rows = s
        BY <3>2 DEF Ask
      <3>4. Naive \in SUBSET AskedOf
        <4>1. <<Product(3, 5, 5), Product(3, 9, 1)>> \in Ranking
          BY DEF Ranking
        <4>. QED
          BY <4>1 DEF Naive, AskedOf
      <3>5. gold \in AskedOf
        BY DEF AskedOf
      <3>6. DOMAIN naive = 1..2 /\ \A r \in 1..2 : naive[r] \in AskedOf
        BY <3>4
      <3>. HIDE DEF naive
      <3>7. Itemised(item) /\ ResultsOf(item) \in SUBSET AskedOf
        BY <3>5, <3>6, ItemsAreItemised
      <3>. HIDE DEF item
      <3>8. Telling(s) => s \in AskedOf
        <4>1. AllNull(<<<<Null>>>>) /\ AllNull(<<<<NaN>>>>)
          BY DEF AllNull, IsNothing
        <4>2. One(1) \in AskedOf /\ One(5) \in AskedOf
          BY DEF AskedOf
        <4>. QED
          BY <4>1, <4>2 DEF Telling, Odd, AskedOf
      <3>9. ASSUME Telling(s)
            PROVE  Plain(ResultsOf(item) \cup {s})
        BY <3>7, <3>8, <3>9, AskedArePlain, PartsArePlain
      <3>. HIDE DEF run
      <3>. QED
        BY <3>3, <3>7, <3>9 DEF ItemsAsked
    <2>5. CASE (AskAny \/ Again) /\ ~AskRowsEqual /\ ~AskGroups /\ ~AskJudge
      <3>1. asked'.topic \notin {"rows", "groups", "judge"}
        BY <2>5, OthersAskNoAnswers
      <3>. QED
        BY <3>1 DEF ItemsAsked
    <2>. QED
      BY <2>1, <2>2, <2>3, <2>4, <2>5 DEF Next
  <1>. QED
    BY <1>1, <1>2, WrongIsLaid, PTL DEF Spec

-----------------------------------------------------------------------------
(* Verifiers: what their checks see of a pattern's query, and of a probe.    *)

\* The rules that leave rows out, and the patterns about money.
Filters == {"soft_delete", "cancelled_orders", "internal_accounts"}
Moneyed == {"p04", "p05", "p07", "p08"}

\* The rules of each pattern.
LEMMA RulesOfPatterns ==
    /\ DOMAIN RulesOf = {"p01", "p02", "p03", "p04", "p05", "p06", "p07", "p08", "p09", "p10"}
    /\ ToSet(RulesOf["p01"]) = {} /\ ToSet(RulesOf["p02"]) = {"soft_delete"}
    /\ ToSet(RulesOf["p03"]) = {"soft_delete", "internal_accounts"}
    /\ ToSet(RulesOf["p04"]) = Filters \cup CurrencyRules
    /\ ToSet(RulesOf["p05"]) = Filters \cup CurrencyRules \cup {"refunds_net"}
    /\ ToSet(RulesOf["p06"]) = Filters
    /\ ToSet(RulesOf["p07"]) = Filters \cup CurrencyRules \cup {"fan_out"}
    /\ ToSet(RulesOf["p08"]) = Filters \cup CurrencyRules \cup {"fan_out"}
    /\ ToSet(RulesOf["p09"]) = Filters \cup {"fan_out"}
    /\ ToSet(RulesOf["p10"]) = Filters
  <1>1. DOMAIN RulesOf = {"p01", "p02", "p03", "p04", "p05", "p06", "p07", "p08", "p09", "p10"}
    BY DEF RulesOf
  <1>2. ToSet(RulesOf["p01"]) = {} /\ ToSet(RulesOf["p02"]) = {"soft_delete"}
        /\ ToSet(RulesOf["p03"]) = {"soft_delete", "internal_accounts"}
    BY DEF RulesOf, ToSet
  <1>3. FilterRules \in Seq(RuleChecks) /\ ToSet(FilterRules) = Filters
    BY DEF FilterRules, RuleChecks, ToSet, Filters
  <1>4. <<"multi_currency", "minor_units">> \in Seq(RuleChecks)
        /\ ToSet(<<"multi_currency", "minor_units">>) = CurrencyRules
    BY DEF RuleChecks, ToSet, CurrencyRules
  <1>5. MoneyRules \in Seq(RuleChecks) /\ ToSet(MoneyRules) = Filters \cup CurrencyRules
    BY <1>3, <1>4, NamedTogether DEF MoneyRules
  <1>6. \A s \in {FilterRules, MoneyRules}, r \in {"fan_out", "refunds_net"} :
            ToSet(Append(s, r)) = ToSet(s) \cup {r}
    BY <1>3, <1>5, NamedAlso DEF RuleChecks
  <1>7. /\ RulesOf["p04"] = MoneyRules /\ RulesOf["p05"] = Append(MoneyRules, "refunds_net")
        /\ RulesOf["p06"] = FilterRules /\ RulesOf["p07"] = Append(MoneyRules, "fan_out")
        /\ RulesOf["p08"] = Append(MoneyRules, "fan_out")
        /\ RulesOf["p09"] = Append(FilterRules, "fan_out") /\ RulesOf["p10"] = FilterRules
    BY Zenon DEF RulesOf
  <1>. QED
    BY <1>1, <1>2, <1>3, <1>5, <1>6, <1>7

\* What the checks see of a pattern's query.
AsSeen(q, p, ignored) ==
    /\ q.ran = TRUE /\ q.parses = TRUE /\ q.tables = Tables(p, ignored)
    /\ q.converts = (p \in Moneyed /\ ignored \cap CurrencyRules = {})
    /\ q.orderMoney = (p \in Moneyed /\ (p = "p08" => "fan_out" \in ignored))
    /\ \A r \in Filters \cap ToSet(RulesOf[p]) :
           /\ Constrains[r] \in q.columns <=> r \notin ignored
           /\ r \in q.words <=> r \notin ignored
    /\ "multi_currency" \in q.words <=> q.converts = TRUE
    /\ "refunds_net" \in q.words <=> "refunds" \in q.tables

\* A pattern's query is seen so.
LEMMA WhatIsSeen ==
    ASSUME NEW p \in DOMAIN RulesOf, NEW ignored
    PROVE  AsSeen(QueryOf(p, ignored), p, ignored)
  <1>. DEFINE filters == IF p = "p01" THEN {}
                         ELSE (IF p = "p03" THEN DOMAIN Constrains \ {"cancelled_orders"}
                               ELSE DOMAIN Constrains) \ ignored
              money == p \in {"p04", "p05", "p07", "p08"}
              converts == money /\ ignored \cap CurrencyRules = {}
              q == QueryOf(p, ignored)
  <1>1. q = Query(Tables(p, ignored), {Constrains[r] : r \in filters}, converts,
                  money /\ (p = "p08" => "fan_out" \in ignored),
                  filters \cup (IF converts THEN {"multi_currency"} ELSE {})
                          \cup (IF "refunds" \in Tables(p, ignored) THEN {"refunds_net"} ELSE {}))
    BY DEF QueryOf
  <1>2. /\ q.ran = TRUE /\ q.parses = TRUE /\ q.tables = Tables(p, ignored)
        /\ q.converts = converts
        /\ q.orderMoney = (money /\ (p = "p08" => "fan_out" \in ignored))
        /\ q.columns = {Constrains[r] : r \in filters}
        /\ q.words = filters \cup (IF converts THEN {"multi_currency"} ELSE {})
                          \cup (IF "refunds" \in Tables(p, ignored) THEN {"refunds_net"} ELSE {})
    BY <1>1 DEF Query
  <1>3. filters \subseteq Filters /\ DOMAIN Constrains = Filters
        /\ \A r, f \in Filters : Constrains[r] = Constrains[f] => r = f
    BY DEF Constrains, Filters
  <1>4. ASSUME NEW r \in Filters \cap ToSet(RulesOf[p])
        PROVE  r \in filters <=> r \notin ignored
    <2>1. p # "p01" /\ (p = "p03" => r # "cancelled_orders")
      BY RulesOfPatterns
    <2>. QED
      BY <1>3, <2>1
  <1>5. "multi_currency" \notin Filters /\ "refunds_net" \notin Filters
    BY DEF Filters
  <1>6. money = (p \in Moneyed)
    BY DEF Moneyed
  <1>. HIDE DEF filters, money, q
  <1>7. ASSUME NEW r \in Filters \cap ToSet(RulesOf[p])
        PROVE  (Constrains[r] \in q.columns <=> r \notin ignored) /\ (r \in q.words <=> r \notin ignored)
    BY <1>2, <1>3, <1>4, <1>5
  <1>8. "multi_currency" \in q.words <=> q.converts = TRUE
    BY <1>2, <1>3, <1>5
  <1>9. "refunds_net" \in q.words <=> "refunds" \in q.tables
    BY <1>2, <1>3, <1>5
  <1>. QED
    BY <1>2, <1>6, <1>7, <1>8, <1>9 DEF q, AsSeen

\* What each check looks at.
LEMMA EachCheck ==
    ASSUME NEW r, NEW rules, NEW q
    PROVE  /\ r \in Filters => (Complains(r, rules, q) <=> r \in rules /\ Constrains[r] \notin q.columns)
           /\ r \in CurrencyRules => (Complains(r, rules, q) <=> rules \cap CurrencyRules # {} /\ ~q.converts)
           /\ r = "fan_out" =>
                  (Complains(r, rules, q) <=> r \in rules /\ {"order_items", "orders"} \subseteq q.tables /\ q.orderMoney)
           /\ r = "refunds_net" => (Complains(r, rules, q) <=> r \in rules /\ "refunds" \notin q.tables)
  <1>1. DOMAIN Constrains = Filters
    BY DEF Constrains, Filters
  <1>2. /\ r \in Filters => r \notin CurrencyRules /\ r # "fan_out" /\ r # "refunds_net"
        /\ r \in CurrencyRules => r \notin Filters /\ r # "fan_out" /\ r # "refunds_net"
        /\ r = "fan_out" => r \notin Filters /\ r \notin CurrencyRules /\ r # "refunds_net"
        /\ r = "refunds_net" => r \notin Filters /\ r \notin CurrencyRules /\ r # "fan_out"
    BY DEF Filters, CurrencyRules
  <1>3. CASE r \in Filters
    BY Zenon, <1>1, <1>2, <1>3 DEF Complains
  <1>4. CASE r \in CurrencyRules
    BY Zenon, <1>1, <1>2, <1>4 DEF Complains
  <1>5. CASE r = "fan_out"
    BY Zenon, <1>1, <1>2, <1>5 DEF Complains
  <1>6. CASE r = "refunds_net"
    BY Zenon, <1>1, <1>2, <1>6 DEF Complains
  <1>. QED
    BY <1>3, <1>4, <1>5, <1>6

\* Each check complains of its rule's absence, of the queries the patterns make.
LEMMA ChecksSeeWhatIsIgnored ==
    ASSUME NEW p \in DOMAIN RulesOf, NEW ignored \in SUBSET ToSet(RulesOf[p]),
           NEW r \in ToSet(RulesOf[p])
    PROVE  Complains(r, ToSet(RulesOf[p]), QueryOf(p, ignored)) <=>
               IF r \in CurrencyRules THEN ignored \cap CurrencyRules # {}
               ELSE r \in ignored /\ (r = "fan_out" => p # "p09")
  <1>. DEFINE q == QueryOf(p, ignored)
              rules == ToSet(RulesOf[p])
              wanted == IF r \in CurrencyRules THEN ignored \cap CurrencyRules # {}
                        ELSE r \in ignored /\ (r = "fan_out" => p # "p09")
  <1>0. AsSeen(q, p, ignored)
    BY WhatIsSeen
  <1>1. /\ q.tables = Tables(p, ignored)
        /\ q.converts = (p \in Moneyed /\ ignored \cap CurrencyRules = {})
        /\ q.orderMoney = (p \in Moneyed /\ (p = "p08" => "fan_out" \in ignored))
        /\ \A f \in Filters \cap rules : Constrains[f] \in q.columns <=> f \notin ignored
    BY <1>0 DEF AsSeen
  <1>2. ignored \in SUBSET rules /\ r \in rules
    OBVIOUS
  <1>3. r \in Filters \cup CurrencyRules \cup {"fan_out", "refunds_net"}
    BY RulesOfPatterns DEF Filters, CurrencyRules
  <1>. HIDE DEF q
  <1>4. ASSUME r \in Filters
        PROVE  Complains(r, rules, q) <=> wanted
    <2>1. Complains(r, rules, q) <=> r \in rules /\ Constrains[r] \notin q.columns
      BY <1>4, EachCheck
    <2>2. r \notin CurrencyRules /\ r # "fan_out"
      BY <1>4 DEF Filters, CurrencyRules
    <2>. QED
      BY <1>2, <1>1, <1>4, <2>1, <2>2
  <1>5. ASSUME r \in CurrencyRules
        PROVE  Complains(r, rules, q) <=> wanted
    <2>1. r \notin Filters
      BY <1>5 DEF Filters, CurrencyRules
    <2>2. Complains(r, rules, q) <=> rules \cap CurrencyRules # {} /\ ~q.converts
      BY <1>5, EachCheck
    <2>3. p \in Moneyed
      BY <1>5, <2>1, RulesOfPatterns DEF CurrencyRules, Moneyed
    <2>. QED
      BY <1>2, <1>1, <1>5, <2>2, <2>3
  <1>6. ASSUME r = "fan_out"
        PROVE  Complains(r, rules, q) <=> wanted
    <2>1. r \notin Filters /\ r \notin CurrencyRules
      BY <1>6 DEF Filters, CurrencyRules
    <2>2. Complains(r, rules, q) <=>
              r \in rules /\ {"order_items", "orders"} \subseteq q.tables /\ q.orderMoney
      BY <1>6, EachCheck
    <2>3. p \in {"p07", "p08", "p09"}
      BY <1>6, RulesOfPatterns DEF CurrencyRules, Filters
    <2>4. CASE p = "p07"
      <3>1. q.tables = {"orders", "customers"} \cup IF "fan_out" \in ignored THEN {"order_items"} ELSE {}
        BY <1>1, <2>4 DEF Tables
      <3>2. q.orderMoney = TRUE
        BY <1>1, <2>4 DEF Moneyed
      <3>. QED
        BY <1>2, <1>6, <2>1, <2>2, <2>4, <3>1, <3>2
    <2>5. CASE p = "p08"
      <3>1. q.tables = {"order_items", "orders", "customers", "products"}
        BY <1>1, <2>5 DEF Tables
      <3>2. q.orderMoney = ("fan_out" \in ignored)
        BY <1>1, <2>5 DEF Moneyed
      <3>. QED
        BY <1>2, <1>6, <2>1, <2>2, <2>5, <3>1, <3>2
    <2>6. CASE p = "p09"
      <3>1. q.orderMoney = FALSE
        BY <1>1, <2>6 DEF Moneyed
      <3>. QED
        BY <1>2, <1>6, <2>1, <2>2, <2>6, <3>1
    <2>. QED
      BY <2>3, <2>4, <2>5, <2>6
  <1>7. ASSUME r = "refunds_net"
        PROVE  Complains(r, rules, q) <=> wanted
    <2>1. r \notin Filters /\ r \notin CurrencyRules
      BY <1>7 DEF Filters, CurrencyRules
    <2>2. Complains(r, rules, q) <=> r \in rules /\ "refunds" \notin q.tables
      BY <1>7, EachCheck
    <2>3. p = "p05"
      BY <1>7, RulesOfPatterns DEF CurrencyRules, Filters
    <2>4. q.tables = {"orders", "customers"} \cup IF "refunds_net" \in ignored THEN {} ELSE {"refunds"}
      BY <1>1, <2>3 DEF Tables
    <2>. QED
      BY <1>2, <1>7, <2>1, <2>2, <2>3, <2>4
  <1>. QED
    BY <1>3, <1>4, <1>5, <1>6, <1>7 DEF q

\* The governed verifier asks the checks of the rules it is given.
LEMMA GovernedAsksItsRules ==
    ASSUME NEW rules \in SUBSET RuleChecks, NEW q
    PROVE  VerifyGoverned(RuleChecks, RuleChecks, rules, q)
               = {r \in rules : Readable(q) /\ Complains(r, rules, q)}
  BY DEF VerifyGoverned

\* The patterns ask about rules that have a check.
LEMMA PatternsAskOfRules ==
    ASSUME NEW p \in DOMAIN RulesOf
    PROVE  ToSet(RulesOf[p]) \in SUBSET RuleChecks
  BY RulesOfPatterns DEF RuleChecks, Filters, CurrencyRules

\* So the complaints are about the rules that were broken, however many were.
LEMMA BrokenRulesAreNamed ==
    ASSUME asked.topic = "complaints", asked.p \in DOMAIN RulesOf,
           asked.ignored \in SUBSET ToSet(RulesOf[asked.p])
    PROVE  ComplaintsNameTheBrokenRules
  <1>. DEFINE p == asked.p
              ignored == asked.ignored
              rules == ToSet(RulesOf[p])
              q == QueryOf(p, ignored)
              broken == IF ignored \cap CurrencyRules = {} THEN ignored ELSE ignored \cup CurrencyRules
  <1>1. VerifyGoverned(RuleChecks, RuleChecks, rules, q) = {r \in rules : Readable(q) /\ Complains(r, rules, q)}
    BY GovernedAsksItsRules, PatternsAskOfRules
  <1>2. Readable(q)
    <2>1. AsSeen(q, p, ignored)
      BY WhatIsSeen
    <2>. QED
      BY <2>1 DEF AsSeen, Readable
  <1>3. \A r \in rules : Complains(r, rules, q) <=>
            IF r \in CurrencyRules THEN ignored \cap CurrencyRules # {}
            ELSE r \in ignored /\ (r = "fan_out" => p # "p09")
    BY ChecksSeeWhatIsIgnored
  <1>4. ignored \cap CurrencyRules # {} => CurrencyRules \subseteq rules
    BY RulesOfPatterns DEF CurrencyRules, Filters
  <1>5. "fan_out" \notin CurrencyRules
    BY DEF CurrencyRules
  <1>6. ignored \subseteq rules
    OBVIOUS
  <1>7. {r \in rules : Complains(r, rules, q)} = IF p = "p09" THEN broken \ {"fan_out"} ELSE broken
    <2>. HIDE DEF p, ignored, rules, q
    <2>. QED
      BY <1>3, <1>4, <1>5, <1>6
  <1>. QED
    BY <1>1, <1>2, <1>7 DEF ComplaintsNameTheBrokenRules

\* Both verifiers accept the same queries, of any query and any rules.
LEMMA BothAcceptTheSame ==
    ASSUME asked.topic = "verdict", asked.rules \in SUBSET RuleChecks
    PROVE  GovernedAcceptsTheSame
  <1>. DEFINE rules == asked.rules
              q == asked.q
              one == Verify(rules, q)
              two == VerifyGoverned(RuleChecks, RuleChecks, rules, q)
  <1>1. two = {r \in rules : Readable(q) /\ Complains(r, rules, q)}
    BY GovernedAsksItsRules
  <1>2. one = {r \in RuleChecks : Readable(q) /\ Complains(r, rules, q)}
    BY DEF Verify
  <1>3. two = one \cap rules
    BY <1>1, <1>2
  <1>4. ASSUME NEW r \in one
        PROVE  two # {}
    <2>1. r \in RuleChecks /\ Readable(q) /\ Complains(r, rules, q)
      BY <1>2
    <2>2. CASE r \in rules
      BY <1>1, <2>1, <2>2
    <2>3. CASE r \notin rules
      <3>1. r \in CurrencyRules /\ rules \cap CurrencyRules # {} /\ ~q.converts
        BY <2>1, <2>3 DEF Complains, RuleChecks, Constrains, CurrencyRules
      <3>2. PICK s \in rules : s \in CurrencyRules
        BY <3>1
      <3>3. Complains(s, rules, q)
        BY <3>1, <3>2 DEF Complains, Constrains, CurrencyRules
      <3>. QED
        BY <1>1, <2>1, <3>3
    <2>. QED
      BY <2>2, <2>3
  <1>5. two = {} <=> one = {}
    BY <1>3, <1>4
  <1>. QED
    BY <1>3, <1>5 DEF GovernedAcceptsTheSame

\* A verifier of the question "surface", and what one of its checks says.
Says(ways, r, rules, q) ==
    CASE ways[r] = "ast" -> Complains(r, rules, q)
      [] ways[r] = "regex" -> r \in VerifyWithRegex(rules, q)
      [] ways[r] = "crude" -> Complains_JoinOnly(r, rules, q)
      [] ways[r] = "always" -> r \in rules
      [] OTHER -> FALSE

\* The word the regex of a rule looks for.
WordOf(r) == IF r \in CurrencyRules THEN "multi_currency" ELSE r

\* Asked with one rule, every verifier complains of that rule or of nothing.
LEMMA OneRuleIsAsked ==
    ASSUME NEW r \in RuleChecks, NEW q
    PROVE  /\ Verify({r}, q) # {} <=> Readable(q) /\ Complains(r, {r}, q)
           /\ VerifyGoverned(RuleChecks, RuleChecks, {r}, q) # {} <=> Readable(q) /\ Complains(r, {r}, q)
           /\ VerifyWithRegex({r}, q) # {} <=> q.ran /\ r # "fan_out" /\ WordOf(r) \notin q.words
  <1>1. VerifyGoverned(RuleChecks, RuleChecks, {r}, q) = {s \in {r} : Readable(q) /\ Complains(s, {r}, q)}
    BY GovernedAsksItsRules
  <1>2. ASSUME NEW s \in RuleChecks, Complains(s, {r}, q)
        PROVE  Complains(r, {r}, q)
    <2>1. s \in Filters \cup CurrencyRules \cup {"fan_out", "refunds_net"}
      BY DEF RuleChecks, Filters, CurrencyRules
    <2>2. CASE s \in CurrencyRules
      <3>1. {r} \cap CurrencyRules # {} /\ ~q.converts
        BY <1>2, <2>2, EachCheck
      <3>2. r \in CurrencyRules
        BY <3>1
      <3>. QED
        BY <3>1, <3>2, EachCheck
    <2>3. CASE s \notin CurrencyRules
      <3>1. s \in {r}
        BY <1>2, <2>1, <2>3, EachCheck
      <3>. QED
        BY <1>2, <3>1
    <2>. QED
      BY <2>2, <2>3
  <1>3. Verify({r}, q) # {} <=> Readable(q) /\ Complains(r, {r}, q)
    BY <1>2 DEF Verify
  <1>4. VerifyWithRegex({r}, q) # {} <=> q.ran /\ r # "fan_out" /\ WordOf(r) \notin q.words
    <2>. DEFINE applicable == {s \in RuleChecks \ {"minor_units"} :
                                  s \in {r} \/ (s = "multi_currency" /\ "minor_units" \in {r})}
    <2>1. applicable = {WordOf(r)}
      BY DEF RuleChecks, WordOf, CurrencyRules
    <2>2. VerifyWithRegex({r}, q) = {s \in applicable \ {"fan_out"} : q.ran /\ s \notin q.words}
      BY DEF VerifyWithRegex
    <2>3. WordOf(r) = "fan_out" <=> r = "fan_out"
      BY DEF WordOf, CurrencyRules
    <2>. QED
      BY <2>1, <2>2, <2>3
  <1>. QED
    BY <1>1, <1>3, <1>4

\* Nor does a check of another rule, however it is made.
LEMMA OnlyTheRuleAsked ==
    ASSUME NEW ways, NEW r \in ProbedRules, NEW s \in ProbedRules, NEW q, Says(ways, s, {r}, q)
    PROVE  s = r
  <1>1. s \in Filters \cup {"multi_currency", "fan_out", "refunds_net"} /\ r # "minor_units" /\ r \in RuleChecks
    BY DEF RuleChecks, ProbedRules, Filters, CurrencyRules
  <1>2. {r} \cap CurrencyRules # {} => r = "multi_currency"
    BY <1>1 DEF CurrencyRules
  <1>3. "multi_currency" \in CurrencyRules
    BY DEF CurrencyRules
  <1>4. CASE ways[s] = "ast"
    <2>1. Complains(s, {r}, q)
      BY Zenon, <1>4 DEF Says
    <2>. QED
      BY <2>1, <1>1, <1>2, <1>3, EachCheck
  <1>5. CASE ways[s] = "regex"
    <2>1. s \in VerifyWithRegex({r}, q)
      BY Zenon, <1>5 DEF Says
    <2>. QED
      BY <2>1, <1>1 DEF VerifyWithRegex
  <1>6. CASE ways[s] = "crude"
    <2>1. Complains_JoinOnly(s, {r}, q)
      BY Zenon, <1>6 DEF Says
    <2>2. DOMAIN Constrains = Filters
      BY DEF Constrains, Filters
    <2>3. CASE s \in Filters
      <3>1. s \notin CurrencyRules /\ s # "fan_out" /\ s # "refunds_net"
        BY <2>3 DEF Filters, CurrencyRules
      <3>2. s \in {r}
        BY Zenon, <2>1, <2>2, <2>3, <3>1 DEF Complains_JoinOnly
      <3>. QED
        BY <3>2
    <2>4. s \notin Filters => s \notin DOMAIN Constrains
      BY <2>2
    <2>5. CASE s = "multi_currency"
      <3>1. s \notin Filters
        BY <2>5 DEF Filters
      <3>2. {r} \cap CurrencyRules # {}
        BY Zenon, <2>1, <2>4, <3>1, <1>3, <2>5 DEF Complains_JoinOnly
      <3>. QED
        BY <3>2, <1>2, <2>5
    <2>6. CASE s = "fan_out"
      <3>1. s \notin Filters /\ s \notin CurrencyRules
        BY <2>6 DEF Filters, CurrencyRules
      <3>2. s \in {r}
        BY Zenon, <2>1, <2>4, <3>1, <2>6 DEF Complains_JoinOnly
      <3>. QED
        BY <3>2
    <2>7. CASE s = "refunds_net"
      <3>1. s \notin Filters /\ s \notin CurrencyRules /\ s # "fan_out"
        BY <2>7 DEF Filters, CurrencyRules
      <3>2. s \in {r}
        BY Zenon, <2>1, <2>4, <3>1, <2>7 DEF Complains_JoinOnly
      <3>. QED
        BY <3>2
    <2>. QED
      BY <1>1, <2>3, <2>5, <2>6, <2>7
  <1>7. CASE ways[s] = "always"
    <2>1. s \in {r}
      BY Zenon, <1>7 DEF Says
    <2>. QED
      BY <2>1
  <1>8. CASE ways[s] # "ast" /\ ways[s] # "regex" /\ ways[s] # "crude" /\ ways[s] # "always"
    BY SMT, <1>8 DEF Says
  <1>. QED
    BY <1>4, <1>5, <1>6, <1>7, <1>8

\* What can be seen of the probes.
Sees(q, tables, ignored, converts, money) ==
    /\ q.ran = TRUE /\ q.parses = TRUE /\ q.tables = tables
    /\ q.converts = converts /\ q.orderMoney = money
    /\ \A f \in Filters : f \notin ignored <=> Constrains[f] \in q.columns
    /\ \A f \in Filters : f \notin ignored <=> f \in q.words
    /\ converts <=> "multi_currency" \in q.words

\* A query with some filters is seen so.
LEMMA SeenOfAProbe ==
    ASSUME NEW tables, NEW ignored, NEW converts \in BOOLEAN, NEW money \in BOOLEAN
    PROVE  Sees(Filtering(tables, ignored, converts, money), tables, ignored, converts, money)
  <1>. DEFINE filters == DOMAIN Constrains \ ignored
              q == Filtering(tables, ignored, converts, money)
  <1>1. q = Query(tables, {Constrains[r] : r \in filters}, converts, money,
                  filters \cup IF converts THEN {"multi_currency"} ELSE {})
    BY DEF Filtering
  <1>2. /\ q.ran = TRUE /\ q.parses = TRUE /\ q.tables = tables /\ q.converts = converts
        /\ q.orderMoney = money /\ q.columns = {Constrains[r] : r \in filters}
        /\ q.words = filters \cup IF converts THEN {"multi_currency"} ELSE {}
    BY <1>1 DEF Query
  <1>3. DOMAIN Constrains = Filters /\ \A r, f \in Filters : Constrains[r] = Constrains[f] => r = f
    BY DEF Constrains, Filters
  <1>4. filters = Filters \ ignored /\ "multi_currency" \notin Filters
    BY <1>3 DEF Filters
  <1>. HIDE DEF filters, q
  <1>5. \A f \in Filters : f \notin ignored <=> Constrains[f] \in q.columns
    BY <1>2, <1>3, <1>4
  <1>6. \A f \in Filters : f \notin ignored <=> f \in q.words
    BY <1>2, <1>4
  <1>7. converts <=> "multi_currency" \in q.words
    BY <1>2, <1>4
  <1>. QED
    BY <1>2, <1>5, <1>6, <1>7 DEF q, Sees

\* The rule's check tells two queries apart, and so does its regex.
Tells(r, good, bad) ==
    /\ Readable(good) /\ Readable(bad)
    /\ Complains(r, {r}, bad) /\ ~Complains(r, {r}, good)
Reads(r, good, bad) == WordOf(r) \in good.words /\ WordOf(r) \notin bad.words

\* What can be seen of a probe without filters.
SeesBare(q, tables, words) == Readable(q) /\ q.tables = tables /\ q.words = words

\* A query without filters is seen so.
LEMMA SeenOfABareProbe ==
    ASSUME NEW tables, NEW columns, NEW converts, NEW money, NEW words
    PROVE  SeesBare(Query(tables, columns, converts, money, words), tables, words)
  BY DEF Query, Readable, SeesBare

\* The probes of a filter.
LEMMA FiltersAreProbed ==
    ASSUME NEW r \in Filters
    PROVE  /\ Tells(r, Filtering(Joined, {}, FALSE, FALSE), Filtering(Joined, {r}, FALSE, FALSE))
           /\ Reads(r, Filtering(Joined, {}, FALSE, FALSE), Filtering(Joined, {r}, FALSE, FALSE))
  <1>. DEFINE good == Filtering(Joined, {}, FALSE, FALSE)
              bad == Filtering(Joined, {r}, FALSE, FALSE)
  <1>1. /\ good.ran = TRUE /\ good.parses = TRUE /\ Constrains[r] \in good.columns /\ r \in good.words
    <2>1. Sees(good, Joined, {}, FALSE, FALSE)
      BY SeenOfAProbe
    <2>. QED
      BY <2>1 DEF Sees
  <1>2. /\ bad.ran = TRUE /\ bad.parses = TRUE /\ Constrains[r] \notin bad.columns /\ r \notin bad.words
    <2>1. Sees(bad, Joined, {r}, FALSE, FALSE)
      BY SeenOfAProbe
    <2>. HIDE DEF bad
    <2>. QED
      BY <2>1 DEF Sees
  <1>3. WordOf(r) = r
    BY DEF WordOf, Filters, CurrencyRules
  <1>. HIDE DEF good, bad
  <1>4. Complains(r, {r}, bad) /\ ~Complains(r, {r}, good)
    BY <1>1, <1>2, EachCheck
  <1>5. Tells(r, good, bad) /\ Reads(r, good, bad)
    BY <1>1, <1>2, <1>3, <1>4 DEF Tells, Reads, Readable
  <1>. QED
    BY <1>5 DEF good, bad

\* The probes of a currency rule.
LEMMA CurrenciesAreProbed ==
    ASSUME NEW r \in CurrencyRules, NEW money \in BOOLEAN
    PROVE  /\ Tells(r, Filtering(Joined, {}, TRUE, money), Filtering(Joined, {}, FALSE, TRUE))
           /\ Reads(r, Filtering(Joined, {}, TRUE, money), Filtering(Joined, {}, FALSE, TRUE))
  <1>. DEFINE good == Filtering(Joined, {}, TRUE, money)
              bad == Filtering(Joined, {}, FALSE, TRUE)
  <1>1. /\ good.ran = TRUE /\ good.parses = TRUE /\ good.converts = TRUE /\ "multi_currency" \in good.words
    <2>1. Sees(good, Joined, {}, TRUE, money)
      BY SeenOfAProbe
    <2>. QED
      BY <2>1 DEF Sees
  <1>2. /\ bad.ran = TRUE /\ bad.parses = TRUE /\ bad.converts = FALSE /\ "multi_currency" \notin bad.words
    <2>1. Sees(bad, Joined, {}, FALSE, TRUE)
      BY SeenOfAProbe
    <2>. HIDE DEF bad
    <2>. QED
      BY <2>1 DEF Sees
  <1>3. WordOf(r) = "multi_currency" /\ {r} \cap CurrencyRules # {}
    BY DEF WordOf
  <1>. HIDE DEF good, bad
  <1>4. Complains(r, {r}, bad) /\ ~Complains(r, {r}, good)
    BY <1>1, <1>2, <1>3, EachCheck
  <1>5. Tells(r, good, bad) /\ Reads(r, good, bad)
    BY <1>1, <1>2, <1>3, <1>4 DEF Tells, Reads, Readable
  <1>. QED
    BY <1>5 DEF good, bad

\* The probes of the fan-out, which a check that looks at the join alone does not pass.
LEMMA FanOutIsProbed ==
    /\ Tells("fan_out", ByLine(FALSE), ByLine(TRUE))
    /\ Complains_JoinOnly("fan_out", {"fan_out"}, ByLine(FALSE))
  <1>. DEFINE good == ByLine(FALSE)
              bad == ByLine(TRUE)
              tables == Joined \cup {"order_items"}
              ignored == {"cancelled_orders", "internal_accounts"}
  <1>1. good = Filtering(tables, ignored, TRUE, FALSE) /\ bad = Filtering(tables, ignored, TRUE, TRUE)
    BY DEF ByLine
  <1>. HIDE DEF tables, ignored, good, bad
  <1>2. Sees(good, tables, ignored, TRUE, FALSE)
    BY <1>1, SeenOfAProbe
  <1>3. Sees(bad, tables, ignored, TRUE, TRUE)
    BY <1>1, SeenOfAProbe
  <1>4. {"order_items", "orders"} \subseteq tables
    BY DEF tables, Joined
  <1>5. Complains("fan_out", {"fan_out"}, bad) /\ ~Complains("fan_out", {"fan_out"}, good)
    BY <1>2, <1>3, <1>4, EachCheck DEF Sees
  <1>6. Tells("fan_out", good, bad)
    BY <1>2, <1>3, <1>5 DEF Tells, Readable, Sees
  <1>7. "fan_out" \notin DOMAIN Constrains /\ "fan_out" \notin CurrencyRules
    BY DEF Constrains, CurrencyRules
  <1>8. Complains_JoinOnly("fan_out", {"fan_out"}, good)
    <2>1. good.tables = tables
      BY <1>2 DEF Sees
    <2>. QED
      BY Zenon, <1>4, <1>7, <2>1 DEF Complains_JoinOnly
  <1>. QED
    BY <1>6, <1>8 DEF good, bad

\* The probes of the refunds.
LEMMA RefundsAreProbed ==
    /\ Tells("refunds_net", Bare({"orders", "refunds"}, {"refunds_net"}), Bare({"orders"}, {}))
    /\ Reads("refunds_net", Bare({"orders", "refunds"}, {"refunds_net"}), Bare({"orders"}, {}))
  <1>. DEFINE good == Bare({"orders", "refunds"}, {"refunds_net"})
              bad == Bare({"orders"}, {})
  <1>1. SeesBare(good, {"orders", "refunds"}, {"refunds_net"})
    BY SeenOfABareProbe DEF Bare
  <1>2. SeesBare(bad, {"orders"}, {})
    BY SeenOfABareProbe DEF Bare
  <1>3. WordOf("refunds_net") = "refunds_net"
    BY DEF WordOf, CurrencyRules
  <1>. HIDE DEF good, bad
  <1>4. Complains("refunds_net", {"refunds_net"}, bad) /\ ~Complains("refunds_net", {"refunds_net"}, good)
    BY <1>1, <1>2, EachCheck DEF SeesBare
  <1>5. Tells("refunds_net", good, bad) /\ Reads("refunds_net", good, bad)
    BY <1>1, <1>2, <1>3, <1>4 DEF Tells, Reads, SeesBare
  <1>. QED
    BY <1>5 DEF good, bad

\* Each rule's probes tell a query that honours it from one that breaks it.
LEMMA ProbesTell ==
    ASSUME NEW r \in ProbedRules
    PROVE  /\ Tells(r, Probe(r).honours, Probe(r).breaks)
           /\ r # "fan_out" => Reads(r, Probe(r).honours, Probe(r).breaks)
           /\ r = "fan_out" => Complains_JoinOnly(r, {r}, Probe(r).honours)
  <1>1. r \in Filters \cup {"multi_currency", "fan_out", "refunds_net"}
    BY DEF ProbedRules, RuleChecks, Filters
  <1>2. DOMAIN Constrains = Filters
    BY DEF Constrains, Filters
  <1>3. CASE r \in Filters
    <2>1. r # "multi_currency" /\ r # "fan_out" /\ r # "refunds_net"
      BY <1>3 DEF Filters
    <2>2. Probe(r) = [honours |-> Filtering(Joined, {}, FALSE, FALSE),
                      breaks |-> Filtering(Joined, {r}, FALSE, FALSE)]
      BY Zenon, <1>2, <1>3, <2>1 DEF Probe
    <2>3. /\ Probe(r).honours = Filtering(Joined, {}, FALSE, FALSE)
          /\ Probe(r).breaks = Filtering(Joined, {r}, FALSE, FALSE)
      BY <2>2
    <2>. QED
      BY <1>3, <2>1, <2>3, FiltersAreProbed
  <1>4. CASE r = "multi_currency"
    <2>1. r \notin Filters /\ r # "fan_out" /\ r \in CurrencyRules
      BY <1>4 DEF Filters, CurrencyRules
    <2>2. Probe(r) = [honours |-> Filtering(Joined, {}, TRUE, TRUE), breaks |-> Filtering(Joined, {}, FALSE, TRUE)]
      BY Zenon, <1>2, <1>4, <2>1 DEF Probe
    <2>3. /\ Probe(r).honours = Filtering(Joined, {}, TRUE, TRUE)
          /\ Probe(r).breaks = Filtering(Joined, {}, FALSE, TRUE)
      BY <2>2
    <2>. QED
      BY <2>1, <2>3, CurrenciesAreProbed
  <1>5. CASE r = "fan_out"
    <2>1. r \notin Filters /\ r # "multi_currency"
      BY <1>5 DEF Filters
    <2>2. Probe(r) = [honours |-> ByLine(FALSE), breaks |-> ByLine(TRUE)]
      BY Zenon, <1>2, <1>5, <2>1 DEF Probe
    <2>3. Probe(r).honours = ByLine(FALSE) /\ Probe(r).breaks = ByLine(TRUE)
      BY <2>2
    <2>. QED
      BY <1>5, <2>3, FanOutIsProbed
  <1>6. CASE r = "refunds_net"
    <2>1. r \notin Filters /\ r # "multi_currency" /\ r # "fan_out"
      BY <1>6 DEF Filters
    <2>2. Probe(r) = [honours |-> Bare({"orders", "refunds"}, {"refunds_net"}), breaks |-> Bare({"orders"}, {})]
      BY Zenon, <1>2, <1>6, <2>1 DEF Probe
    <2>3. /\ Probe(r).honours = Bare({"orders", "refunds"}, {"refunds_net"})
          /\ Probe(r).breaks = Bare({"orders"}, {})
      BY <2>2
    <2>. QED
      BY <1>6, <2>1, <2>3, RefundsAreProbed
  <1>. QED
    BY <1>1, <1>3, <1>4, <1>5, <1>6

\* Nearby queries are told apart too, though not by the regex of cancelled orders.
LEMMA NearbyProbesTell ==
    ASSUME NEW r \in RuleChecks
    PROVE  /\ Tells(r, Nearby(r), GovernanceViolation(r))
           /\ r \notin {"fan_out", "cancelled_orders"} => Reads(r, Nearby(r), GovernanceViolation(r))
           /\ r = "cancelled_orders" => r \notin Nearby(r).words
  <1>1. r \in {"soft_delete", "cancelled_orders", "internal_accounts", "multi_currency", "minor_units",
               "fan_out", "refunds_net"}
    BY DEF RuleChecks
  <1>2. \A s \in ProbedRules : Tells(s, Probe(s).honours, Probe(s).breaks)
    BY ProbesTell
  <1>3. DOMAIN Constrains = Filters
    BY DEF Constrains, Filters
  <1>4. CASE r = "cancelled_orders"
    <2>. DEFINE columns == {"deleted_at", "status", "is_internal"}
                words == {"soft_delete", "internal_accounts"}
                good == Query(Joined, columns, FALSE, FALSE, words)
    <2>1. Nearby(r) = good
      <3>1. r \notin {"soft_delete", "internal_accounts"} /\ r \notin CurrencyRules
        BY <1>4 DEF CurrencyRules
      <3>. QED
        BY Zenon, <1>4, <3>1 DEF Nearby
    <2>2. SeesBare(good, Joined, words) /\ good.columns = columns
      BY SeenOfABareProbe DEF Query
    <2>3. r \in Filters /\ Constrains[r] \in columns /\ r \notin words
      BY <1>4 DEF Filters, Constrains
    <2>. HIDE DEF good, columns, words
    <2>4. ~Complains(r, {r}, good)
      BY <2>2, <2>3, EachCheck
    <2>5. r \in ProbedRules
      BY <1>4 DEF ProbedRules, RuleChecks
    <2>6. GovernanceViolation(r) = Probe(r).breaks
      BY <1>4 DEF GovernanceViolation
    <2>7. Tells(r, good, GovernanceViolation(r))
      BY <1>2, <2>2, <2>4, <2>5, <2>6 DEF Tells, SeesBare
    <2>. QED
      BY <1>4, <2>1, <2>2, <2>3, <2>7 DEF SeesBare
  <1>5. CASE r = "soft_delete"
    <2>. DEFINE good == Filtering(Joined, {}, FALSE, FALSE)
                bad == Query(Joined, {"status"}, FALSE, FALSE, {"cancelled_orders"})
    <2>1. Nearby(r) = good
      <3>1. r # "cancelled_orders" /\ r \in {"soft_delete", "internal_accounts"} /\ r \notin CurrencyRules
        BY <1>5 DEF CurrencyRules
      <3>. QED
        BY Zenon, <3>1 DEF Nearby
    <2>2. GovernanceViolation(r) = bad
      BY <1>5 DEF GovernanceViolation
    <2>3. r \in Filters /\ Constrains[r] \notin {"status"} /\ r \notin {"cancelled_orders"} /\ WordOf(r) = r
      BY <1>5 DEF Filters, Constrains, WordOf, CurrencyRules
    <2>4. SeesBare(bad, Joined, {"cancelled_orders"}) /\ bad.columns = {"status"}
      BY SeenOfABareProbe DEF Query
    <2>5. Tells(r, good, Filtering(Joined, {r}, FALSE, FALSE)) /\ Reads(r, good, Filtering(Joined, {r}, FALSE, FALSE))
      BY <2>3, FiltersAreProbed
    <2>. HIDE DEF good, bad
    <2>6. Complains(r, {r}, bad)
      BY <2>3, <2>4, EachCheck
    <2>7. Tells(r, good, bad)
      BY <2>4, <2>5, <2>6 DEF Tells, SeesBare
    <2>8. Reads(r, good, bad)
      BY <2>3, <2>4, <2>5 DEF Reads, SeesBare
    <2>. QED
      BY <1>5, <2>1, <2>2, <2>7, <2>8
  <1>6. CASE r = "internal_accounts"
    <2>1. Nearby(r) = Filtering(Joined, {}, FALSE, FALSE)
      <3>1. r # "cancelled_orders" /\ r \in {"soft_delete", "internal_accounts"} /\ r \notin CurrencyRules
        BY <1>6 DEF CurrencyRules
      <3>. QED
        BY Zenon, <3>1 DEF Nearby
    <2>2. r \in Filters /\ r # "multi_currency" /\ r # "fan_out" /\ r # "refunds_net"
      BY <1>6 DEF Filters
    <2>3. GovernanceViolation(r) = Probe(r).breaks
      BY <1>6 DEF GovernanceViolation
    <2>4. Probe(r) = [honours |-> Filtering(Joined, {}, FALSE, FALSE),
                      breaks |-> Filtering(Joined, {r}, FALSE, FALSE)]
      BY Zenon, <1>3, <2>2 DEF Probe
    <2>5. GovernanceViolation(r) = Filtering(Joined, {r}, FALSE, FALSE)
      BY <2>3, <2>4
    <2>. QED
      BY <1>6, <2>1, <2>2, <2>5, FiltersAreProbed
  <1>7. CASE r \in CurrencyRules
    <2>. DEFINE money == r = "minor_units"
    <2>1. Nearby(r) = Filtering(Joined, {}, TRUE, money)
      BY <1>7 DEF Nearby, CurrencyRules
    <2>2. GovernanceViolation(r) = Probe("multi_currency").breaks
      BY <1>7 DEF GovernanceViolation, CurrencyRules
    <2>3. "multi_currency" \notin Filters
      BY DEF Filters
    <2>4. Probe("multi_currency").breaks = [honours |-> Filtering(Joined, {}, TRUE, TRUE),
                                     breaks |-> Filtering(Joined, {}, FALSE, TRUE)].breaks
      <3>1. "multi_currency" # "fan_out" /\ "multi_currency" # "refunds_net"
        OBVIOUS
      <3>. QED
        BY Zenon, <1>3, <2>3, <3>1 DEF Probe
    <2>5. GovernanceViolation(r) = Filtering(Joined, {}, FALSE, TRUE)
      BY <2>2, <2>4
    <2>6. money \in BOOLEAN /\ r \notin {"cancelled_orders"}
      BY <1>7 DEF CurrencyRules
    <2>. HIDE DEF money
    <2>. QED
      BY <1>7, <2>1, <2>5, <2>6, CurrenciesAreProbed
  <1>8. CASE r \in {"fan_out", "refunds_net"}
    <2>1. r \notin CurrencyRules
      BY <1>8 DEF CurrencyRules
    <2>2. Nearby(r) = Probe(r).honours
      BY <1>8, <2>1 DEF Nearby
    <2>3. GovernanceViolation(r) = Probe(r).breaks
      BY <1>8 DEF GovernanceViolation
    <2>4. r \in ProbedRules /\ r # "cancelled_orders"
      BY <1>8 DEF ProbedRules, RuleChecks
    <2>. QED
      BY <2>2, <2>3, <2>4, ProbesTell
  <1>. QED
    BY <1>1, <1>4, <1>5, <1>6, <1>7, <1>8 DEF CurrencyRules

\* What a verifier was asked of the probes.
LEMMA ProbesAreAsked ==
    ASSUME NEW r \in RuleChecks
    PROVE  /\ r \in ProbedRules => Probe(r).breaks \in ProbeQueries /\ Probe(r).honours \in ProbeQueries
           /\ GovernanceViolation(r) \in ProbeQueries /\ Nearby(r) \in ProbeQueries
  <1>1. \A s \in ProbedRules : {Probe(s).breaks, Probe(s).honours} \subseteq ProbeQueries
    BY DEF ProbeQueries
  <1>2. \A s \in RuleChecks : {GovernanceViolation(s), Nearby(s)} \subseteq ProbeQueries
    BY DEF ProbeQueries
  <1>. QED
    BY <1>1, <1>2

\* Both verifiers pass every probe; the regex fails the fan-out, and one nearby query.
LEMMA SurfacesDiffer ==
    ASSUME asked.topic = "complaints"
    PROVE  SurfacesTellThemApart
  <1>1. ProbedRules \subseteq RuleChecks
    BY DEF ProbedRules
  <1>2. Sound(Refused(Verify)) = ProbedRules
    <2>1. \A r \in ProbedRules : Verify({r}, Probe(r).breaks) # {} /\ Verify({r}, Probe(r).honours) = {}
      BY <1>1, OneRuleIsAsked, ProbesTell DEF Tells
    <2>. QED
      BY <1>1, <2>1, ProbesAreAsked DEF Sound, Refused
  <1>. DEFINE governed(rules, q) == VerifyGoverned(RuleChecks, RuleChecks, rules, q)
  <1>3. GovernanceSound(Refused(governed)) = RuleChecks
    <2>1. \A r \in RuleChecks : /\ VerifyGoverned(RuleChecks, RuleChecks, {r}, GovernanceViolation(r)) # {}
                                /\ VerifyGoverned(RuleChecks, RuleChecks, {r}, Nearby(r)) = {}
      BY OneRuleIsAsked, NearbyProbesTell DEF Tells
    <2>. QED
      BY <2>1, ProbesAreAsked DEF GovernanceSound, Refused
  <1>4. \A r \in RuleChecks, q \in ProbeQueries :
            <<r, q>> \in Refused(VerifyWithRegex) <=> VerifyWithRegex({r}, q) # {}
    BY DEF Refused
  <1>5. ASSUME NEW r \in RuleChecks, NEW good, NEW bad, Readable(good), Readable(bad)
        PROVE  /\ r = "fan_out" => VerifyWithRegex({r}, bad) = {}
               /\ Reads(r, good, bad) /\ r # "fan_out" =>
                      VerifyWithRegex({r}, bad) # {} /\ VerifyWithRegex({r}, good) = {}
               /\ WordOf(r) \notin good.words /\ r # "fan_out" => VerifyWithRegex({r}, good) # {}
    BY <1>5, OneRuleIsAsked DEF Reads, Readable
  <1>6. ProbedRules \ Sound(Refused(VerifyWithRegex)) = {"fan_out"}
    <2>1. "fan_out" \in ProbedRules
      BY DEF ProbedRules, RuleChecks
    <2>2. \A r \in ProbedRules : Readable(Probe(r).honours) /\ Readable(Probe(r).breaks)
      BY ProbesTell DEF Tells
    <2>3. \A r \in ProbedRules : r \in Sound(Refused(VerifyWithRegex)) <=>
              VerifyWithRegex({r}, Probe(r).breaks) # {} /\ VerifyWithRegex({r}, Probe(r).honours) = {}
      BY <1>1, <1>4, ProbesAreAsked DEF Sound
    <2>4. \A r \in ProbedRules : r \in Sound(Refused(VerifyWithRegex)) <=> r # "fan_out"
      BY <1>1, <1>5, <2>2, <2>3, ProbesTell
    <2>. QED
      BY <2>1, <2>4
  <1>7. RuleChecks \ GovernanceSound(Refused(VerifyWithRegex)) = {"fan_out", "cancelled_orders"}
    <2>1. "fan_out" \in RuleChecks /\ "cancelled_orders" \in RuleChecks
      BY DEF RuleChecks
    <2>2. \A r \in RuleChecks : Readable(Nearby(r)) /\ Readable(GovernanceViolation(r))
      BY NearbyProbesTell DEF Tells
    <2>3. \A r \in RuleChecks : r \in GovernanceSound(Refused(VerifyWithRegex)) <=>
              VerifyWithRegex({r}, GovernanceViolation(r)) # {} /\ VerifyWithRegex({r}, Nearby(r)) = {}
      BY <1>4, ProbesAreAsked DEF GovernanceSound
    <2>4. WordOf("cancelled_orders") = "cancelled_orders"
      BY DEF WordOf, CurrencyRules
    <2>5. ASSUME NEW r \in RuleChecks
          PROVE  r \in GovernanceSound(Refused(VerifyWithRegex)) <=> r \notin {"fan_out", "cancelled_orders"}
      <3>1. CASE r = "fan_out"
        BY <1>5, <2>2, <2>3, <3>1
      <3>2. CASE r = "cancelled_orders"
        <4>1. WordOf(r) \notin Nearby(r).words /\ r # "fan_out"
          BY <2>4, <3>2, NearbyProbesTell
        <4>2. VerifyWithRegex({r}, Nearby(r)) # {}
          BY <1>5, <2>2, <4>1
        <4>. QED
          BY <2>3, <3>2, <4>2
      <3>3. CASE r \notin {"fan_out", "cancelled_orders"}
        <4>1. Reads(r, Nearby(r), GovernanceViolation(r)) /\ r # "fan_out"
          BY <3>3, NearbyProbesTell
        <4>. QED
          BY <1>5, <2>2, <2>3, <3>3, <4>1
      <3>. QED
        BY <3>1, <3>2, <3>3
    <2>. QED
      BY <2>1, <2>5
  <1>. QED
    BY <1>2, <1>3, <1>6, <1>7 DEF SurfacesTellThemApart

\* The ways to check a rule that a question offers: only the fan-out has a crude one.
Offers(ways) ==
    /\ ways \in [ProbedRules -> {"ast", "regex", "never", "always", "crude"}]
    /\ \A r \in ProbedRules \ {"fan_out"} : ways[r] # "crude"

\* The verifier put together from them.
Made(ways, rules, q) == {r \in ProbedRules : Says(ways, r, rules, q)}

\* The probes leave each rule its real check, or its regex if it is not the fan-out.
LEMMA ProbesLeaveTwoWays ==
    ASSUME NEW ways, Offers(ways), NEW r \in ProbedRules,
           Made(ways, {r}, Probe(r).breaks) # {}, Made(ways, {r}, Probe(r).honours) = {}
    PROVE  ways[r] = "ast" \/ (ways[r] = "regex" /\ r # "fan_out")
  <1>1. Says(ways, r, {r}, Probe(r).breaks)
    BY OnlyTheRuleAsked DEF Made
  <1>2. ~Says(ways, r, {r}, Probe(r).honours)
    BY DEF Made
  <1>3. ways[r] \in {"ast", "regex", "never", "always", "crude"}
    BY DEF Offers
  <1>4. ways[r] # "always"
    <2>1. r \in {r}
      OBVIOUS
    <2>2. ways[r] = "always" => Says(ways, r, {r}, Probe(r).honours)
      BY Zenon, <2>1 DEF Says
    <2>. QED
      BY <1>2, <2>2
  <1>5. ways[r] # "never"
    <2>1. ways[r] = "never" => ~Says(ways, r, {r}, Probe(r).breaks)
      BY SMT DEF Says
    <2>. QED
      BY <1>1, <2>1
  <1>6. ways[r] # "crude"
    <2>1. CASE r # "fan_out"
      BY <2>1 DEF Offers
    <2>2. CASE r = "fan_out"
      <3>1. Complains_JoinOnly(r, {r}, Probe(r).honours)
        BY <2>2, ProbesTell
      <3>2. ways[r] = "crude" => Says(ways, r, {r}, Probe(r).honours)
        BY Zenon, <3>1 DEF Says
      <3>. QED
        BY <1>2, <3>2
    <2>. QED
      BY <2>1, <2>2
  <1>7. ways[r] = "regex" => r # "fan_out"
    <2>1. ways[r] = "regex" => r \in VerifyWithRegex({r}, Probe(r).breaks)
      BY Zenon, <1>1 DEF Says
    <2>. QED
      BY <2>1 DEF VerifyWithRegex
  <1>. QED
    BY <1>3, <1>4, <1>5, <1>6, <1>7

\* Of the queries the patterns make, either way sees what the real check sees.
LEMMA EitherWaySees ==
    ASSUME NEW ways, NEW r \in ProbedRules, ways[r] = "ast" \/ (ways[r] = "regex" /\ r # "fan_out"),
           NEW p \in DOMAIN RulesOf, NEW ignored \in SUBSET ToSet(RulesOf[p])
    PROVE  Says(ways, r, ToSet(RulesOf[p]), QueryOf(p, ignored)) <=>
               /\ r \in ToSet(RulesOf[p])
               /\ IF r \in CurrencyRules THEN ignored \cap CurrencyRules # {}
                  ELSE r \in ignored /\ (r = "fan_out" => p # "p09")
  <1>. DEFINE rules == ToSet(RulesOf[p])
              q == QueryOf(p, ignored)
              seen == IF r \in CurrencyRules THEN ignored \cap CurrencyRules # {}
                      ELSE r \in ignored /\ (r = "fan_out" => p # "p09")
  <1>1. r \in rules => (Complains(r, rules, q) <=> seen)
    BY ChecksSeeWhatIsIgnored
  <1>2. "multi_currency" \in rules <=> rules \cap CurrencyRules # {}
    BY RulesOfPatterns DEF CurrencyRules, Filters
  <1>3. r \in Filters \cup {"multi_currency", "fan_out", "refunds_net"} /\ r # "minor_units" /\ r \in RuleChecks
    BY DEF ProbedRules, RuleChecks, Filters, CurrencyRules
  <1>4. "multi_currency" \in CurrencyRules /\ CurrencyRules = {"multi_currency", "minor_units"}
    BY DEF CurrencyRules
  <1>5. AsSeen(q, p, ignored)
    BY WhatIsSeen
  <1>. HIDE DEF rules, q
  <1>6. CASE ways[r] = "ast"
    <2>1. Says(ways, r, rules, q) <=> Complains(r, rules, q)
      BY SMT, <1>6 DEF Says
    <2>2. Complains(r, rules, q) => r \in rules
      BY <1>2, <1>3, <1>4, EachCheck
    <2>. QED
      BY <1>1, <2>1, <2>2 DEF rules, q
  <1>7. CASE ways[r] = "regex" /\ r # "fan_out"
    <2>1. Says(ways, r, rules, q) <=> r \in VerifyWithRegex(rules, q)
      BY SMT, <1>7 DEF Says
    <2>2. r \in VerifyWithRegex(rules, q) <=>
              (r \in rules \/ (r = "multi_currency" /\ "minor_units" \in rules)) /\ q.ran /\ r \notin q.words
      BY <1>3, <1>7 DEF VerifyWithRegex
    <2>3. r \in rules \/ (r = "multi_currency" /\ "minor_units" \in rules) <=> r \in rules
      BY <1>2, <1>4
    <2>4. q.ran = TRUE
      BY <1>5 DEF AsSeen
    <2>5. ASSUME r \in rules
          PROVE  r \notin q.words <=> seen
      <3>1. CASE r \in Filters
        <4>1. r \in q.words <=> r \notin ignored
          BY <1>5, <2>5, <3>1 DEF AsSeen, rules
        <4>2. r \notin CurrencyRules
          BY <1>4, <3>1 DEF Filters
        <4>. QED
          BY <1>7, <4>1, <4>2
      <3>2. CASE r = "multi_currency"
        <4>1. r \in q.words <=> q.converts = TRUE
          BY <1>5, <3>2 DEF AsSeen
        <4>2. q.converts = (p \in Moneyed /\ ignored \cap CurrencyRules = {})
          BY <1>5 DEF AsSeen
        <4>3. p \in Moneyed
          BY <2>5, <3>2, RulesOfPatterns DEF rules, Filters, Moneyed
        <4>. QED
          BY <1>4, <3>2, <4>1, <4>2, <4>3
      <3>3. CASE r = "refunds_net"
        <4>1. r \in q.words <=> "refunds" \in q.tables
          BY <1>5, <3>3 DEF AsSeen
        <4>2. p = "p05"
          BY <2>5, <3>3, RulesOfPatterns DEF rules, Filters, CurrencyRules
        <4>3. q.tables = {"orders", "customers"} \cup IF "refunds_net" \in ignored THEN {} ELSE {"refunds"}
          BY <1>5, <4>2 DEF AsSeen, Tables
        <4>4. r \notin CurrencyRules
          BY <1>4, <3>3
        <4>. QED
          BY <3>3, <4>1, <4>3, <4>4
      <3>. QED
        BY <1>3, <1>7, <3>1, <3>2, <3>3
    <2>. QED
      BY <2>1, <2>2, <2>3, <2>4, <2>5 DEF rules, q
  <1>. QED
    BY <1>6, <1>7

\* Passing the probes is enough for the queries of the patterns.
LEMMA ProbesStand ==
    ASSUME asked.topic = "surface", Offers(asked.ways)
    PROVE  ProbesStandForTheGoldSet
  <1>. DEFINE complains(r, rules, q) ==
                  CASE asked.ways[r] = "ast" -> Complains(r, rules, q)
                    [] asked.ways[r] = "regex" -> r \in VerifyWithRegex(rules, q)
                    [] asked.ways[r] = "crude" -> Complains_JoinOnly(r, rules, q)
                    [] asked.ways[r] = "always" -> r \in rules
                    [] OTHER -> FALSE
              verifier(rules, q) == {r \in ProbedRules : complains(r, rules, q)}
  <1>1. \A rules, q : verifier(rules, q) = Made(asked.ways, rules, q)
    BY DEF Made, Says
  <1>. DEFINE refused == Refused(verifier)
  <1>2. \A r \in RuleChecks, q \in ProbeQueries : <<r, q>> \in refused <=> verifier({r}, q) # {}
    BY DEF Refused
  <1>3. ProbedRules \subseteq RuleChecks
    BY DEF ProbedRules
  <1>. HIDE DEF refused, verifier
  <1>4. ASSUME Sound(refused) = ProbedRules, NEW r \in ProbedRules
        PROVE  asked.ways[r] = "ast" \/ (asked.ways[r] = "regex" /\ r # "fan_out")
    <2>1. <<r, Probe(r).breaks>> \in refused /\ <<r, Probe(r).honours>> \notin refused
      BY <1>4 DEF Sound
    <2>2. Made(asked.ways, {r}, Probe(r).breaks) # {} /\ Made(asked.ways, {r}, Probe(r).honours) = {}
      BY <1>1, <1>2, <1>3, <2>1, ProbesAreAsked
    <2>. QED
      BY <2>2, ProbesLeaveTwoWays
  <1>5. ASSUME Sound(refused) = ProbedRules, NEW p \in DOMAIN RulesOf, NEW rule \in VariantRules(p)
        PROVE  /\ verifier(ToSet(RulesOf[p]), QueryOf(p, {})) = {}
               /\ (p # "p09" \/ rule # "fan_out") =>
                      verifier(ToSet(RulesOf[p]), QueryOf(p, Ignoring(rule))) # {}
    <2>. DEFINE rules == ToSet(RulesOf[p])
    <2>1. \A r \in ProbedRules : ~Says(asked.ways, r, rules, QueryOf(p, {}))
      BY <1>4, <1>5, EitherWaySees
    <2>2. rule \in rules /\ rule \in ProbedRules
      BY PatternsAskOfRules DEF VariantRules, ProbedRules
    <2>3. Ignoring(rule) \in SUBSET rules /\ rule \in Ignoring(rule)
      BY <2>2, RulesOfPatterns DEF Ignoring, CurrencyRules, Filters
    <2>4. (p # "p09" \/ rule # "fan_out") => Says(asked.ways, rule, rules, QueryOf(p, Ignoring(rule)))
      BY <1>4, <1>5, <2>2, <2>3, EitherWaySees
    <2>. QED
      BY <1>1, <2>1, <2>2, <2>4 DEF Made
  <1>. QED
    BY <1>5 DEF ProbesStandForTheGoldSet, refused, verifier

\* What the verifiers are asked about: some of a pattern's rules, rules that have a
\* check, and ways to check the rules that are probed.
VerifiersAsked ==
    /\ asked.topic = "complaints" =>
           asked.p \in DOMAIN RulesOf /\ asked.ignored \in SUBSET ToSet(RulesOf[asked.p])
    /\ asked.topic = "verdict" => asked.rules \in SUBSET RuleChecks
    /\ asked.topic = "surface" => Offers(asked.ways)

\* verify/verifiers.py, verify/governance.py, verify/probes.py: of every such question, a
\* verifier names the rules that were broken and no other, its governed form accepts the
\* same queries, and what passes the probes is good enough for the queries of the patterns.
THEOREM ProbedVerifiersAreTrusted == VerifiersAsked => ProbedVerifiersCanBeTrusted
  <1>. SUFFICES ASSUME VerifiersAsked
                PROVE  ProbedVerifiersCanBeTrusted
    OBVIOUS
  <1>1. ComplaintsNameTheBrokenRules
    <2>1. CASE asked.topic = "complaints"
      BY <2>1, BrokenRulesAreNamed DEF VerifiersAsked
    <2>2. CASE asked.topic # "complaints"
      BY <2>2 DEF ComplaintsNameTheBrokenRules
    <2>. QED
      BY <2>1, <2>2
  <1>2. GovernedAcceptsTheSame
    <2>1. CASE asked.topic = "verdict"
      BY <2>1, BothAcceptTheSame DEF VerifiersAsked
    <2>2. CASE asked.topic # "verdict"
      BY <2>2 DEF GovernedAcceptsTheSame
    <2>. QED
      BY <2>1, <2>2
  <1>3. ProbesStandForTheGoldSet
    <2>1. CASE asked.topic = "surface"
      BY <2>1, ProbesStand DEF VerifiersAsked
    <2>2. CASE asked.topic # "surface"
      BY <2>2 DEF ProbesStandForTheGoldSet
    <2>. QED
      BY <2>1, <2>2
  <1>4. SurfacesTellThemApart
    <2>1. CASE asked.topic = "complaints"
      BY <2>1, SurfacesDiffer
    <2>2. CASE asked.topic # "complaints"
      BY <2>2 DEF SurfacesTellThemApart
    <2>. QED
      BY <2>1, <2>2
  <1>. QED
    BY <1>1, <1>2, <1>3, <1>4 DEF ProbedVerifiersCanBeTrusted

\* The other questions are not about verifiers.
LEMMA OthersAskNoVerifiers ==
    ASSUME AskAny \/ Again, ~AskComplaints, ~AskVerdict, ~AskSurface
    PROVE  asked'.topic \notin {"complaints", "verdict", "surface"}
  <1>1. ASSUME NEW topic, NEW question, Ask(topic, question)
        PROVE  asked'.topic = topic
    BY <1>1 DEF Ask
  <1>2. CASE Again
    BY <1>2 DEF Again, Idle
  <1>3. CASE AskRowsEqual \/ AskGroups \/ AskJudge
    BY <1>1, <1>3 DEF AskRowsEqual, AskGroups, AskJudge
  <1>4. CASE AskPattern \/ AskSpread \/ AskCandidates
    BY <1>1, <1>4 DEF AskPattern, AskSpread, AskCandidates
  <1>5. CASE AskAbstain \/ AskEscalate
    BY <1>1, <1>5 DEF AskAbstain, AskEscalate
  <1>6. CASE AskTable \/ AskPair \/ AskTwins \/ AskSix
    BY <1>1, <1>6 DEF AskTable, AskPair, AskTwins, AskSix
  <1>7. CASE AskScreens
    BY <1>1, <1>7 DEF AskScreens
  <1>8. CASE AskLedgers \/ AskPreflight
    BY <1>1, <1>8 DEF AskLedgers, AskPreflight
  <1>. QED
    BY <1>2, <1>3, <1>4, <1>5, <1>6, <1>7, <1>8 DEF AskAny

\* So it holds of every question the system asks.
THEOREM ProbedVerifiersAreAlwaysTrusted == Spec => []ProbedVerifiersCanBeTrusted
  <1>1. Init => VerifiersAsked
    BY DEF Init, AskNothing, Idle, VerifiersAsked
  <1>2. VerifiersAsked /\ [Next]_<<asked, passVars>> => VerifiersAsked'
    <2>. SUFFICES ASSUME VerifiersAsked, [Next]_<<asked, passVars>>
                  PROVE  VerifiersAsked'
      OBVIOUS
    <2>1. CASE UNCHANGED asked
      BY <2>1 DEF VerifiersAsked
    <2>2. CASE AskComplaints
      <3>1. PICK p \in DOMAIN RulesOf : \E ignored \in SUBSET ToSet(RulesOf[p]) :
                Ask("complaints", [p |-> p, ignored |-> ignored])
        BY <2>2 DEF AskComplaints
      <3>. PICK ignored \in SUBSET ToSet(RulesOf[p]) : Ask("complaints", [p |-> p, ignored |-> ignored])
        BY <3>1
      <3>2. asked'.topic = "complaints" /\ asked'.p = p /\ asked'.ignored = ignored
        BY DEF Ask
      <3>. QED
        BY <3>2 DEF VerifiersAsked
    <2>3. CASE AskVerdict
      <3>1. PICK rules \in SUBSET (RuleChecks \ {"cancelled_orders", "internal_accounts"}) : \E q :
                Ask("verdict", [rules |-> rules, q |-> q])
        BY <2>3 DEF AskVerdict
      <3>2. asked'.topic = "verdict" /\ asked'.rules = rules
        BY <3>1 DEF Ask
      <3>. QED
        BY <3>2 DEF VerifiersAsked
    <2>4. CASE AskSurface
      <3>1. PICK ways \in [ProbedRules -> {"ast", "regex", "never", "always", "crude"}] :
                /\ \A r \in ProbedRules \ {"fan_out"} : ways[r] # "crude"
                /\ Ask("surface", [ways |-> ways])
        BY <2>4 DEF AskSurface
      <3>2. asked'.topic = "surface" /\ asked'.ways = ways
        BY <3>1 DEF Ask
      <3>. QED
        BY <3>1, <3>2 DEF VerifiersAsked, Offers
    <2>5. CASE (AskAny \/ Again) /\ ~AskComplaints /\ ~AskVerdict /\ ~AskSurface
      <3>1. asked'.topic \notin {"complaints", "verdict", "surface"}
        BY <2>5, OthersAskNoVerifiers
      <3>. QED
        BY <3>1 DEF VerifiersAsked
    <2>. QED
      BY <2>1, <2>2, <2>3, <2>4, <2>5 DEF Next
  <1>. QED
    BY <1>1, <1>2, ProbedVerifiersAreTrusted, PTL DEF Spec

-----------------------------------------------------------------------------
(* Questions that drop one rule.                                           *)

\* Ignoring a or b leaves the same orders, customers and factors.
LeaveTheSame(w, a, b) ==
    /\ Filtered(w, a) = Filtered(w, b)
    /\ \A c \in DOMAIN w.customers :
           /\ "soft_delete" \in a \/ ~w.customers[c].deleted <=> "soft_delete" \in b \/ ~w.customers[c].deleted
           /\ "internal_accounts" \in a \/ ~w.customers[c].internal
                  <=> "internal_accounts" \in b \/ ~w.customers[c].internal
    /\ \A c : Factor(c, a) = Factor(c, b)

\* Totals of the same numbers are the same.
LEMMA FiltersDecide ==
    ASSUME NEW p \in DOMAIN RulesOf, NEW w, NEW scope, NEW a, NEW b, LeaveTheSame(w, a, b),
           "fan_out" \in a <=> "fan_out" \in b, "refunds_net" \in a <=> "refunds_net" \in b
    PROVE  Answer(p, w, scope, a) = Answer(p, w, scope, b)
  <1>1. Filtered(w, a) = Filtered(w, b) /\ Scoped(w, a) = Scoped(w, b)
    BY DEF LeaveTheSame, Scoped
  <1>2. \A c : Factor(c, a) = Factor(c, b)
    BY DEF LeaveTheSame
  <1>3. OrdersInMonth(w, scope.month, a) = OrdersInMonth(w, scope.month, b)
    BY <1>1 DEF OrdersInMonth
  <1>4. CustomersInRegion(w, scope.region, a) = CustomersInRegion(w, scope.region, b)
    <2>. DEFINE S(i) == {c \in DOMAIN w.customers :
                           /\ w.customers[c].region = scope.region
                           /\ "soft_delete" \in i \/ ~w.customers[c].deleted
                           /\ "internal_accounts" \in i \/ ~w.customers[c].internal}
    <2>1. S(a) = S(b)
      BY DEF LeaveTheSame
    <2>2. CustomersInRegion(w, scope.region, a) = Cardinality(S(a))
      BY DEF CustomersInRegion
    <2>3. CustomersInRegion(w, scope.region, b) = Cardinality(S(b))
      BY DEF CustomersInRegion
    <2>. HIDE DEF S
    <2>. QED
      BY <2>1, <2>2, <2>3
  <1>5. GrossRevenue(w, scope.month, a) = GrossRevenue(w, scope.month, b)
    BY <1>1, <1>2 DEF GrossRevenue, Total
  <1>6. NetRevenue(w, scope.month, a) = NetRevenue(w, scope.month, b)
    BY <1>1, <1>2 DEF NetRevenue, Total
  <1>7. TopProducts(w, scope.category, a) = TopProducts(w, scope.category, b)
    BY <1>1 DEF TopProducts
  <1>8. OrderValue(w, scope.region, a) = OrderValue(w, scope.region, b)
    BY <1>1, <1>2 DEF OrderValue, Total
  <1>9. CategoryRevenue(w, scope.category, a) = CategoryRevenue(w, scope.category, b)
    BY <1>1, <1>2 DEF CategoryRevenue, Total
  <1>10. RefundRate(w, scope.category, a) = RefundRate(w, scope.category, b)
    BY <1>1 DEF RefundRate, Total
  <1>11. RepeatRate(w, scope.month, a) = RepeatRate(w, scope.month, b)
    BY <1>1 DEF RepeatRate
  <1>12. ProductCount(w, scope.category, a) = ProductCount(w, scope.category, b)
    BY DEF ProductCount
  <1>. QED
    BY Zenon, <1>3, <1>4, <1>5, <1>6, <1>7, <1>8, <1>9, <1>10, <1>11, <1>12 DEF Answer

\* A factor only depends on what is ignored of the currency rules.
LEMMA FactorsDecide ==
    ASSUME NEW a, NEW b, a \cap CurrencyRules = b \cap CurrencyRules
    PROVE  \A c : Factor(c, a) = Factor(c, b)
  <1>. SUFFICES ASSUME NEW c PROVE Factor(c, a) = Factor(c, b)
    OBVIOUS
  <1>. DEFINE rated == CASE c = "USD" -> 100 [] c = "EUR" -> 108 [] c = "JPY" -> 67
  <1>1. /\ Factor(c, a) = IF a \cap CurrencyRules # {} THEN 100 ELSE rated
        /\ Factor(c, b) = IF b \cap CurrencyRules # {} THEN 100 ELSE rated
    BY Zenon DEF Factor
  <1>. HIDE DEF rated
  <1>. QED
    BY <1>1

\* A filter with nothing to hide hides nothing.
LEMMA NothingToFilter ==
    ASSUME NEW w, WellKept(w), NEW rule \in {"soft_delete", "cancelled_orders", "internal_accounts"},
           Untouched(w, rule)
    PROVE  LeaveTheSame(w, {rule}, {})
  <1>1. /\ \A o \in DOMAIN w.orders : w.orders[o] \in ToSet(w.orders) /\ w.orders[o].customer \in DOMAIN w.customers
        /\ \A c \in DOMAIN w.customers : w.customers[c] \in ToSet(w.customers)
    BY DEF ToSet, WellKept
  <1>2. {rule} \cap CurrencyRules = {} /\ {} \cap CurrencyRules = {}
    BY DEF CurrencyRules
  <1>3. \A c : Factor(c, {rule}) = Factor(c, {})
    BY <1>2, FactorsDecide
  <1>4. CASE rule = "soft_delete"
    <2>1. /\ \A o \in DOMAIN w.orders : ~w.orders[o].deleted
          /\ \A c \in DOMAIN w.customers : ~w.customers[c].deleted
      BY Zenon, <1>1, <1>4 DEF Untouched
    <2>. QED
      BY <1>1, <1>3, <1>4, <2>1 DEF LeaveTheSame, Filtered
  <1>5. CASE rule = "cancelled_orders"
    <2>1. \A o \in DOMAIN w.orders : w.orders[o].status # "cancelled"
      <3>1. rule # "soft_delete"
        BY <1>5
      <3>. QED
        BY Zenon, <1>1, <1>5, <3>1 DEF Untouched
    <2>. QED
      BY <1>1, <1>3, <1>5, <2>1 DEF LeaveTheSame, Filtered
  <1>6. CASE rule = "internal_accounts"
    <2>1. \A c \in DOMAIN w.customers : ~w.customers[c].internal
      <3>1. rule # "soft_delete" /\ rule # "cancelled_orders"
        BY <1>6
      <3>. QED
        BY Zenon, <1>1, <1>6, <3>1 DEF Untouched
    <2>. QED
      BY <1>1, <1>3, <1>6, <2>1 DEF LeaveTheSame, Filtered
  <1>. QED
    BY <1>4, <1>5, <1>6

\* Nothing was given back of what has no refunds.
LEMMA NoRefunds ==
    ASSUME NEW w, WellKept(w), Untouched(w, "refunds_net"), NEW month
    PROVE  NetRevenue(w, month, {"refunds_net"}) = NetRevenue(w, month, {})
  <1>1. \A o \in DOMAIN w.orders : w.orders[o].refunds = <<>>
    <2>1. \A o \in DOMAIN w.orders : w.orders[o] \in ToSet(w.orders)
      BY DEF ToSet
    <2>2. /\ "refunds_net" # "soft_delete" /\ "refunds_net" # "cancelled_orders"
          /\ "refunds_net" # "internal_accounts"
      OBVIOUS
    <2>. QED
      BY Zenon, <2>1, <2>2 DEF Untouched
  <1>2. ASSUME NEW o \in DOMAIN w.orders
        PROVE  Refunded(w, o) = 0
    <2>. DEFINE f == [i \in DOMAIN w.orders[o].refunds |-> w.orders[o].refunds[i]]
    <2>1. Refunded(w, o) = SumFunctionOnSet(f, DOMAIN w.orders[o].refunds)
      BY DEF Refunded, Total, SumFunction
    <2>2. DOMAIN w.orders[o].refunds = {}
      BY <1>1
    <2>. QED
      BY <2>1, <2>2, SumEmpty
  <1>. DEFINE S == InMonth(w, Scoped(w, {}), month)
              full == [o \in S |-> Factor(w.orders[o].currency, {}) * (Amount(w, o) - Refunded(w, o))]
              gross == [o \in S |-> Factor(w.orders[o].currency, {}) * (Amount(w, o) - 0)]
  <1>3. S \subseteq DOMAIN w.orders
    BY DEF InMonth, Scoped, Filtered
  <1>4. full = gross
    <2>. HIDE DEF S
    <2>. QED
      BY <1>2, <1>3
  <1>5. NetRevenue(w, month, {}) = SumFunction(full)
    BY DEF NetRevenue, Total
  <1>6. NetRevenue(w, month, {"refunds_net"}) = SumFunction(gross)
    <2>. DEFINE a == {"refunds_net"}
    <2>1. /\ "refunds_net" \in a /\ "soft_delete" \notin a /\ "cancelled_orders" \notin a
          /\ "internal_accounts" \notin a /\ a \cap CurrencyRules = {}
      BY DEF CurrencyRules
    <2>2. Filtered(w, a) = Filtered(w, {})
      BY <2>1 DEF Filtered
    <2>3. \A c : Factor(c, a) = Factor(c, {})
      BY <2>1, FactorsDecide
    <2>. HIDE DEF a
    <2>4. InMonth(w, Scoped(w, a), month) = S
      BY <2>2 DEF Scoped
    <2>. HIDE DEF S
    <2>5. NetRevenue(w, month, a) = SumFunction(gross)
      BY <2>1, <2>3, <2>4 DEF NetRevenue, Total
    <2>. QED
      BY <2>5 DEF a
  <1>. QED
    BY <1>4, <1>5, <1>6

\* Where no order has two lines, nothing is counted once per line.
LEMMA NothingFansOut ==
    ASSUME NEW w, WellKept(w), Untouched(w, "fan_out"), NEW region, NEW category
    PROVE  /\ OrderValue(w, region, {"fan_out"}) = OrderValue(w, region, {})
           /\ CategoryRevenue(w, category, {"fan_out"}) = CategoryRevenue(w, category, {})
           /\ RefundRate(w, category, {"fan_out"}) = RefundRate(w, category, {})
  <1>. DEFINE a == {"fan_out"}
  <1>1. /\ "fan_out" \in a /\ "soft_delete" \notin a /\ "cancelled_orders" \notin a
        /\ "internal_accounts" \notin a /\ a \cap CurrencyRules = {} /\ {} \cap CurrencyRules = {}
    BY DEF CurrencyRules
  <1>2. Filtered(w, a) = Filtered(w, {}) /\ Filtered(w, {}) \subseteq DOMAIN w.orders
    BY <1>1 DEF Filtered
  <1>3. Scoped(w, a) = Scoped(w, {}) /\ Scoped(w, {}) \subseteq DOMAIN w.orders
    BY <1>2 DEF Scoped
  <1>4. \A c : Factor(c, a) = Factor(c, {})
    BY <1>1, FactorsDecide
  <1>5. ASSUME NEW o \in DOMAIN w.orders
        PROVE  Len(w.orders[o].lines) = 1 /\ DOMAIN w.orders[o].lines = {1}
    <2>. DEFINE l == w.orders[o].lines
    <2>1. ~(Len(l) > 1)
      <3>1. w.orders[o] \in ToSet(w.orders)
        BY DEF ToSet
      <3>2. /\ "fan_out" # "soft_delete" /\ "fan_out" # "cancelled_orders"
            /\ "fan_out" # "internal_accounts" /\ "fan_out" # "refunds_net"
        OBVIOUS
      <3>. QED
        BY Zenon, <3>1, <3>2 DEF Untouched
    <2>2. l \in Seq(Range(l)) /\ l # <<>>
      BY DEF WellKept
    <2>. HIDE DEF l
    <2>3. Len(l) \in Nat /\ DOMAIN l = 1..Len(l) /\ Len(l) # 0
      BY <2>2
    <2>4. Len(l) = 1 /\ DOMAIN l = {1}
      BY <2>1, <2>3
    <2>. QED
      BY <2>4 DEF l
  <1>6. ASSUME NEW o \in DOMAIN w.orders, NEW i \in LinesIn(w, o, category)
        PROVE  Amount(w, o) = LineAmount(w, w.orders[o].lines[i])
    <2>. DEFINE f == [k \in DOMAIN w.orders[o].lines |-> LineAmount(w, w.orders[o].lines[k])]
    <2>1. Amount(w, o) = SumFunctionOnSet(f, DOMAIN w.orders[o].lines)
      BY DEF Amount, Total, SumFunction
    <2>2. DOMAIN w.orders[o].lines = {1} /\ i = 1
      BY <1>5 DEF LinesIn
    <2>3. LineAmount(w, w.orders[o].lines[1]) \in Int
      <3>1. /\ w.orders[o].lines[1][1] \in DOMAIN w.products /\ w.orders[o].lines[1][2] \in Nat
            /\ w.products[w.orders[o].lines[1][1]].price \in Nat
        BY <2>2 DEF WellKept, Stocked
      <3>. QED
        BY <3>1 DEF LineAmount
    <2>4. f[1] = LineAmount(w, w.orders[o].lines[1])
      BY <2>2
    <2>. HIDE DEF f
    <2>5. SumFunctionOnSet(f, {1}) = f[1]
      BY <2>3, <2>4, SumOne
    <2>. QED
      BY <2>1, <2>2, <2>4, <2>5
  <1>7. ASSUME NEW o \in DOMAIN w.orders, LinesIn(w, o, category) # {}
        PROVE  Cardinality(LinesIn(w, o, category)) = 1
    <2>1. LinesIn(w, o, category) = {1}
      BY <1>5, <1>7 DEF LinesIn
    <2>. QED
      BY <2>1, FS_Singleton
  <1>8. "fan_out" \notin {}
    OBVIOUS
  <1>. HIDE DEF a
  <1>9. OrderValue(w, region, a) = OrderValue(w, region, {})
    <2>. DEFINE S == {o \in Scoped(w, {}) : w.customers[w.orders[o].customer].region = region}
                one == [o \in S |-> 1 * Amount(w, o) * Factor(w.orders[o].currency, {})]
                len == [o \in S |-> Len(w.orders[o].lines) * Amount(w, o) * Factor(w.orders[o].currency, {})]
                ones == [o \in S |-> 1]
                lens == [o \in S |-> Len(w.orders[o].lines)]
    <2>1. OrderValue(w, region, {}) = <<SumFunction(one), SumFunction(ones)>>
      BY <1>8 DEF OrderValue, Total
    <2>2. OrderValue(w, region, a) = <<SumFunction(len), SumFunction(lens)>>
      BY <1>1, <1>3, <1>4 DEF OrderValue, Total
    <2>3. S \subseteq DOMAIN w.orders
      BY <1>3
    <2>. HIDE DEF S
    <2>4. one = len /\ ones = lens
      BY <1>5, <2>3
    <2>. QED
      BY <2>1, <2>2, <2>4
  <1>10. CategoryRevenue(w, category, a) = CategoryRevenue(w, category, {})
    <2>. DEFINE S == Scoped(w, {})
                line(o) == [i \in LinesIn(w, o, category) |-> LineAmount(w, w.orders[o].lines[i])]
                all(o) == [i \in LinesIn(w, o, category) |-> Amount(w, o)]
                lines == [o \in S |-> Factor(w.orders[o].currency, {}) * SumFunction(line(o))]
                alls == [o \in S |-> Factor(w.orders[o].currency, {}) * SumFunction(all(o))]
    <2>1. CategoryRevenue(w, category, {}) = SumFunction(lines)
      BY <1>8 DEF CategoryRevenue, Total
    <2>2. CategoryRevenue(w, category, a) = SumFunction(alls)
      BY <1>1, <1>3, <1>4 DEF CategoryRevenue, Total
    <2>3. \A o \in S : line(o) = all(o)
      BY <1>3, <1>6
    <2>. HIDE DEF S, line, all
    <2>4. lines = alls
      BY <2>3
    <2>. QED
      BY <2>1, <2>2, <2>4
  <1>11. RefundRate(w, category, a) = RefundRate(w, category, {})
    <2>. DEFINE S == {o \in Filtered(w, {}) : LinesIn(w, o, category) # {}}
                T == {o \in S : w.orders[o].refunds # <<>>}
                one(Q) == [o \in Q |-> 1]
                card(Q) == [o \in Q |-> Cardinality(LinesIn(w, o, category))]
    <2>1. RefundRate(w, category, {}) = <<SumFunction(one(T)), SumFunction(one(S))>>
      BY <1>8 DEF RefundRate, Total
    <2>2. RefundRate(w, category, a) = <<SumFunction(card(T)), SumFunction(card(S))>>
      BY <1>1, <1>2 DEF RefundRate, Total
    <2>3. \A o \in S : Cardinality(LinesIn(w, o, category)) = 1
      BY <1>2, <1>7
    <2>4. T \subseteq S
      OBVIOUS
    <2>. HIDE DEF S, T
    <2>5. one(T) = card(T) /\ one(S) = card(S)
      BY <2>3, <2>4
    <2>. QED
      BY <2>1, <2>2, <2>5
  <1>. QED
    BY <1>9, <1>10, <1>11 DEF a


\* What drops a rule that changes nothing answers as gold does.
LEMMA UntouchedIsGold ==
    ASSUME NEW w, WellKept(w), NEW p \in DOMAIN RulesOf, NEW scope, NEW rule \in VariantRules(p),
           Untouched(w, rule)
    PROVE  Variant(p, w, scope, rule) = Gold(p, w, scope)
  <1>1. rule \notin CurrencyRules
    <2>1. ASSUME rule \in CurrencyRules
          PROVE  ~Untouched(w, rule)
      <3>1. /\ rule # "soft_delete" /\ rule # "cancelled_orders" /\ rule # "internal_accounts"
            /\ rule # "refunds_net" /\ rule # "fan_out"
        BY <2>1 DEF CurrencyRules
      <3>. QED
        BY SMT, <3>1 DEF Untouched
    <2>. QED
      BY <2>1
  <1>2. Variant(p, w, scope, rule) = Answer(p, w, scope, {rule})
    BY <1>1 DEF Variant, Ignoring
  <1>3. /\ rule \in {"soft_delete", "cancelled_orders", "internal_accounts", "fan_out", "refunds_net"}
        /\ rule = "fan_out" => p \in {"p07", "p08", "p09"}
        /\ rule = "refunds_net" => p = "p05"
    BY <1>1, RulesOfPatterns DEF VariantRules, CurrencyRules, Filters
  <1>4. CASE rule \in {"soft_delete", "cancelled_orders", "internal_accounts"}
    <2>1. LeaveTheSame(w, {rule}, {})
      BY <1>4, NothingToFilter
    <2>2. "fan_out" \in {rule} <=> "fan_out" \in {}
      BY <1>4
    <2>3. "refunds_net" \in {rule} <=> "refunds_net" \in {}
      BY <1>4
    <2>4. Answer(p, w, scope, {rule}) = Answer(p, w, scope, {})
      BY <2>1, <2>2, <2>3, FiltersDecide
    <2>. QED
      BY <1>2, <2>4 DEF Gold
  <1>5. CASE rule = "fan_out"
    <2>1. /\ OrderValue(w, scope.region, {rule}) = OrderValue(w, scope.region, {})
          /\ CategoryRevenue(w, scope.category, {rule}) = CategoryRevenue(w, scope.category, {})
          /\ RefundRate(w, scope.category, {rule}) = RefundRate(w, scope.category, {})
      BY <1>5, NothingFansOut
    <2>2. CASE p = "p07"
      BY <1>2, <2>1, <2>2 DEF Gold, Answer
    <2>3. CASE p = "p08"
      BY <1>2, <2>1, <2>3 DEF Gold, Answer
    <2>4. CASE p = "p09"
      BY <1>2, <2>1, <2>4 DEF Gold, Answer
    <2>. QED
      BY <1>3, <1>5, <2>2, <2>3, <2>4
  <1>6. CASE rule = "refunds_net"
    <2>1. p = "p05"
      BY <1>3, <1>6
    <2>2. NetRevenue(w, scope.month, {rule}) = NetRevenue(w, scope.month, {})
      BY <1>6, NoRefunds
    <2>. QED
      BY <1>2, <2>1, <2>2 DEF Gold, Answer
  <1>. QED
    BY <1>3, <1>4, <1>5, <1>6

\* A question is answered by a whole number, or by two to divide; the ranking is apart.
Whole(p, answer) ==
    /\ p \in {"p02", "p03", "p04", "p05", "p08"} => answer \in Int
    /\ p \in {"p07", "p09", "p10"} => answer[1] \in Int /\ answer[2] \in Nat

\* The orders and the lines asked about are finitely many.
LEMMA FewOrders ==
    ASSUME NEW w, WellKept(w), NEW ignored, NEW category
    PROVE  /\ IsFiniteSet(Filtered(w, ignored)) /\ Filtered(w, ignored) \subseteq DOMAIN w.orders
           /\ IsFiniteSet(Scoped(w, ignored)) /\ Scoped(w, ignored) \subseteq DOMAIN w.orders
           /\ \A o \in DOMAIN w.orders :
                  /\ Cardinality(LinesIn(w, o, category)) \in Nat /\ IsFiniteSet(LinesIn(w, o, category))
                  /\ Len(w.orders[o].lines) \in Nat
  <1>1. Filtered(w, ignored) \in SUBSET DOMAIN w.orders
    BY DEF Filtered
  <1>2. IsFiniteSet(Filtered(w, ignored))
    BY <1>1, FS_Subset DEF WellKept, Stocked
  <1>3. Scoped(w, ignored) \in SUBSET Filtered(w, ignored)
    BY DEF Scoped
  <1>4. IsFiniteSet(Scoped(w, ignored))
    BY <1>2, <1>3, FS_Subset
  <1>5. ASSUME NEW o \in DOMAIN w.orders
        PROVE  /\ Cardinality(LinesIn(w, o, category)) \in Nat /\ IsFiniteSet(LinesIn(w, o, category))
               /\ Len(w.orders[o].lines) \in Nat
    <2>1. LinesIn(w, o, category) \in SUBSET DOMAIN w.orders[o].lines
      BY DEF LinesIn
    <2>2. IsFiniteSet(LinesIn(w, o, category))
      BY <2>1, FS_Subset DEF WellKept, Stocked
    <2>3. Cardinality(LinesIn(w, o, category)) \in Nat
      BY <2>2, FS_CardinalityType
    <2>4. w.orders[o].lines \in Seq(Range(w.orders[o].lines))
      BY DEF WellKept
    <2>5. Len(w.orders[o].lines) \in Nat
      BY <2>4, LenProperties
    <2>. QED
      BY <2>2, <2>3, <2>5
  <1>. QED
    BY <1>1, <1>2, <1>3, <1>4, <1>5

\* Every question but the ranking is answered by whole numbers.
LEMMA AnswersAreWhole ==
    ASSUME NEW w, WellKept(w), NEW p \in DOMAIN RulesOf, NEW scope, NEW a
    PROVE  Whole(p, Answer(p, w, scope, a))
  <1>. DEFINE O == Filtered(w, a)
              S == Scoped(w, a)
              L(o) == LinesIn(w, o, scope.category)
  <1>1. /\ IsFiniteSet(O) /\ O \subseteq DOMAIN w.orders /\ IsFiniteSet(S) /\ S \subseteq DOMAIN w.orders
        /\ \A o \in DOMAIN w.orders :
               Cardinality(L(o)) \in Nat /\ IsFiniteSet(L(o)) /\ Len(w.orders[o].lines) \in Nat
    BY FewOrders
  <1>2. \A o \in DOMAIN w.orders : Amount(w, o) \in Nat /\ Refunded(w, o) \in Nat
    BY Amounts, RefundedIsANumber DEF WellKept
  <1>3. \A o \in S : Factor(w.orders[o].currency, a) \in Nat
    BY ScopedOrders DEF WellKept
  <1>4. \A T : T \subseteq O \/ T \subseteq S \/ T \subseteq DOMAIN w.customers => IsFiniteSet(T)
    BY <1>1, FS_Subset DEF WellKept
  <1>. HIDE DEF O, S, L
  <1>5. OrdersInMonth(w, scope.month, a) \in Int
    <2>1. InMonth(w, O, scope.month) \subseteq O
      BY DEF InMonth
    <2>. QED
      BY <1>4, <2>1, FS_CardinalityType DEF OrdersInMonth, O
  <1>6. CustomersInRegion(w, scope.region, a) \in Int
    <2>. DEFINE T == {c \in DOMAIN w.customers :
                         /\ w.customers[c].region = scope.region
                         /\ "soft_delete" \in a \/ ~w.customers[c].deleted
                         /\ "internal_accounts" \in a \/ ~w.customers[c].internal}
    <2>1. CustomersInRegion(w, scope.region, a) = Cardinality(T)
      BY DEF CustomersInRegion
    <2>2. T \subseteq DOMAIN w.customers
      OBVIOUS
    <2>. HIDE DEF T
    <2>3. Cardinality(T) \in Nat
      BY <1>4, <2>2, FS_CardinalityType
    <2>. QED
      BY <2>1, <2>3
  <1>. DEFINE M == InMonth(w, S, scope.month)
  <1>7. IsFiniteSet(M) /\ M \subseteq S
    BY <1>4 DEF InMonth
  <1>. HIDE DEF M
  <1>8. GrossRevenue(w, scope.month, a) \in Int
    <2>. DEFINE f == [o \in M |-> Amount(w, o) * Factor(w.orders[o].currency, a)]
    <2>1. GrossRevenue(w, scope.month, a) = SumFunction(f)
      BY DEF GrossRevenue, Total, M, S
    <2>2. \A o \in M : f[o] \in Int
      BY <1>1, <1>2, <1>3, <1>7
    <2>3. DOMAIN f = M
      OBVIOUS
    <2>. HIDE DEF f
    <2>. QED
      BY <1>7, <2>1, <2>2, <2>3, SumIsWhole
  <1>9. NetRevenue(w, scope.month, a) \in Int
    <2>. DEFINE f == [o \in M |-> Factor(w.orders[o].currency, a)
                                    * (Amount(w, o) - IF "refunds_net" \in a THEN 0 ELSE Refunded(w, o))]
    <2>1. NetRevenue(w, scope.month, a) = SumFunction(f)
      BY DEF NetRevenue, Total, M, S
    <2>2. \A o \in M : f[o] \in Int
      BY <1>1, <1>2, <1>3, <1>7
    <2>3. DOMAIN f = M
      OBVIOUS
    <2>. HIDE DEF f
    <2>. QED
      BY <1>7, <2>1, <2>2, <2>3, SumIsWhole
  <1>10. LET v == OrderValue(w, scope.region, a) IN v[1] \in Int /\ v[2] \in Nat
    <2>. DEFINE T == {o \in S : w.customers[w.orders[o].customer].region = scope.region}
                weight(o) == IF "fan_out" \in a THEN Len(w.orders[o].lines) ELSE 1
                f == [o \in T |-> weight(o) * Amount(w, o) * Factor(w.orders[o].currency, a)]
                g == [o \in T |-> weight(o)]
    <2>1. OrderValue(w, scope.region, a) = <<SumFunction(f), SumFunction(g)>>
      BY DEF OrderValue, Total, S
    <2>2. IsFiniteSet(T) /\ T \subseteq S
      BY <1>4
    <2>3. \A o \in T : weight(o) \in Nat
      BY <1>1, <2>2
    <2>4. DOMAIN f = T /\ DOMAIN g = T
      OBVIOUS
    <2>5. \A o \in T : f[o] \in Int /\ g[o] \in Nat
      <3>. SUFFICES ASSUME NEW o \in T PROVE f[o] \in Int /\ g[o] \in Nat
        OBVIOUS
      <3>1. Amount(w, o) \in Int /\ Factor(w.orders[o].currency, a) \in Int /\ weight(o) \in Nat
        BY <1>1, <1>2, <1>3, <2>2, <2>3
      <3>. HIDE DEF weight
      <3>. QED
        BY <3>1
    <2>. HIDE DEF f, g, T
    <2>6. SumFunction(f) \in Int /\ SumFunction(g) \in Nat
      BY <2>2, <2>4, <2>5, SumIsWhole, SumIsNatural
    <2>. QED
      BY <2>1, <2>6
  <1>11. CategoryRevenue(w, scope.category, a) \in Int
    <2>. DEFINE g(o) == [i \in L(o) |-> IF "fan_out" \in a THEN Amount(w, o)
                                         ELSE LineAmount(w, w.orders[o].lines[i])]
                f == [o \in S |-> Factor(w.orders[o].currency, a) * SumFunction(g(o))]
    <2>1. CategoryRevenue(w, scope.category, a) = SumFunction(f)
      BY DEF CategoryRevenue, Total, L, S
    <2>2. ASSUME NEW o \in S
          PROVE  f[o] \in Int
      <3>1. o \in DOMAIN w.orders /\ Factor(w.orders[o].currency, a) \in Int /\ Amount(w, o) \in Int
        BY <1>1, <1>2, <1>3
      <3>2. \A i \in L(o) : LineAmount(w, w.orders[o].lines[i]) \in Int
        BY <3>1, Amounts DEF L, LinesIn, WellKept
      <3>3. DOMAIN g(o) = L(o) /\ \A i \in L(o) : g(o)[i] \in Int
        BY <3>1, <3>2
      <3>. HIDE DEF g
      <3>4. SumFunction(g(o)) \in Int
        BY <1>1, <3>1, <3>3, SumIsWhole
      <3>. QED
        BY <3>1, <3>4
    <2>3. DOMAIN f = S
      OBVIOUS
    <2>. HIDE DEF f
    <2>. QED
      BY <1>1, <2>1, <2>2, <2>3, SumIsWhole
  <1>12. LET v == RefundRate(w, scope.category, a) IN v[1] \in Int /\ v[2] \in Nat
    <2>. DEFINE T == {o \in O : L(o) # {}}
                U == {o \in T : w.orders[o].refunds # <<>>}
                weight(o) == IF "fan_out" \in a THEN Cardinality(L(o)) ELSE 1
                f == [o \in U |-> weight(o)]
                g == [o \in T |-> weight(o)]
    <2>1. RefundRate(w, scope.category, a) = <<SumFunction(f), SumFunction(g)>>
      BY DEF RefundRate, Total, O, L
    <2>2. IsFiniteSet(T) /\ T \subseteq O /\ IsFiniteSet(U) /\ U \subseteq O
      BY <1>4
    <2>3. \A o \in O : weight(o) \in Nat
      BY <1>1
    <2>4. DOMAIN f = U /\ DOMAIN g = T
      OBVIOUS
    <2>. HIDE DEF weight, T, U
    <2>5. (\A o \in U : f[o] \in Int) /\ (\A o \in T : g[o] \in Nat)
      BY <2>2, <2>3
    <2>. HIDE DEF f, g
    <2>6. SumFunction(f) \in Int /\ SumFunction(g) \in Nat
      BY <2>2, <2>4, <2>5, SumIsWhole, SumIsNatural
    <2>. QED
      BY <2>1, <2>6
  <1>13. LET v == RepeatRate(w, scope.month, a) IN v[1] \in Int /\ v[2] \in Nat
    <2>. DEFINE placed(c) == {o \in InMonth(w, O, scope.month) : w.orders[o].customer = c}
                T == {c \in DOMAIN w.customers : placed(c) # {}}
                U == {c \in T : Cardinality(placed(c)) > 1}
    <2>1. RepeatRate(w, scope.month, a) = <<Cardinality(U), Cardinality(T)>>
      BY DEF RepeatRate, O
    <2>2. IsFiniteSet(T) /\ IsFiniteSet(U)
      <3>. HIDE DEF placed
      <3>. QED
        BY <1>4
    <2>. HIDE DEF T, U
    <2>3. Cardinality(U) \in Nat /\ Cardinality(T) \in Nat
      BY <2>2, FS_CardinalityType
    <2>. QED
      BY <2>1, <2>3
  <1>14. DOMAIN RulesOf = {"p01", "p02", "p03", "p04", "p05", "p06", "p07", "p08", "p09", "p10"}
    BY RulesOfPatterns
  <1>15. /\ p = "p02" => Answer(p, w, scope, a) \in Int
         /\ p = "p03" => Answer(p, w, scope, a) \in Int
         /\ p = "p04" => Answer(p, w, scope, a) \in Int
         /\ p = "p05" => Answer(p, w, scope, a) \in Int
         /\ p = "p08" => Answer(p, w, scope, a) \in Int
    BY <1>5, <1>6, <1>8, <1>9, <1>11 DEF Answer
  <1>16. \A v : p \in {"p07", "p09", "p10"} /\ v = Answer(p, w, scope, a) => v[1] \in Int /\ v[2] \in Nat
    BY <1>10, <1>12, <1>13 DEF Answer
  <1>. QED
    BY <1>15, <1>16 DEF Whole

\* By what was sold, most first, and by product.
BySales(r) ==
    /\ r \in Seq(Int \X Int)
    /\ \A i, j \in 1..Len(r) :
           i < j => r[i][2] > r[j][2] \/ (r[i][2] = r[j][2] /\ r[i][1] < r[j][1])

\* The ranking is ranked.
LEMMA ProductsAreRanked ==
    ASSUME NEW w, WellKept(w), NEW category, NEW a
    PROVE  BySales(TopProducts(w, category, a))
  <1>. DEFINE O == Filtered(w, a)
              its(o, p) == {i \in LinesIn(w, o, category) : w.orders[o].lines[i][1] = p}
              of(o, p) == [i \in its(o, p) |-> w.orders[o].lines[i][2]]
              by(p) == [o \in O |-> SumFunction(of(o, p))]
              units(p) == Total(LAMBDA o : Total(LAMBDA i : w.orders[o].lines[i][2], its(o, p)), O)
              sold == {p \in DOMAIN w.products : units(p) > 0}
              E == {e \in sold \X sold :
                       units(e[1]) > units(e[2]) \/ (units(e[1]) = units(e[2]) /\ e[1] < e[2])}
              l == Listed(sold, E)
              c == Cardinality(sold)
              n == Min({Len(l), 5})
              r == [i \in 1..n |-> <<l[i], units(l[i])>>]
  <1>1. TopProducts(w, category, a) = r
    BY DEF TopProducts, MostSold
  <1>2. ASSUME NEW p
        PROVE  units(p) \in Int
    <2>1. units(p) = SumFunction(by(p))
      BY DEF Total
    <2>2. IsFiniteSet(O) /\ O \subseteq DOMAIN w.orders
          /\ \A o \in DOMAIN w.orders : IsFiniteSet(LinesIn(w, o, category))
      BY FewOrders
    <2>3. ASSUME NEW o \in O
          PROVE  SumFunction(of(o, p)) \in Int
      <3>1. its(o, p) \subseteq LinesIn(w, o, category) /\ o \in DOMAIN w.orders
        BY <2>2
      <3>2. IsFiniteSet(its(o, p))
        BY <2>2, <3>1, FS_Subset
      <3>3. \A i \in its(o, p) : w.orders[o].lines[i][2] \in Int
        BY <3>1 DEF LinesIn, WellKept, Stocked
      <3>. HIDE DEF its
      <3>4. DOMAIN of(o, p) = its(o, p) /\ \A i \in its(o, p) : of(o, p)[i] \in Int
        BY <3>3
      <3>. HIDE DEF of
      <3>. QED
        BY <3>2, <3>4, SumIsWhole
    <2>. HIDE DEF of, O
    <2>4. DOMAIN by(p) = O /\ \A o \in O : by(p)[o] \in Int
      BY <2>3
    <2>. HIDE DEF by
    <2>. QED
      BY <2>1, <2>2, <2>4, SumIsWhole
  <1>. HIDE DEF units
  <1>3. sold \subseteq DOMAIN w.products /\ sold \subseteq Int
    BY DEF WellKept
  <1>4. IsFiniteSet(sold)
    BY <1>3, FS_Subset DEF WellKept, Stocked
  <1>5. c \in Nat
    BY <1>4, FS_CardinalityType
  <1>. HIDE DEF sold
  <1>6. \A p, q \in sold : <<p, q>> \in E <=> units(p) > units(q) \/ (units(p) = units(q) /\ p < q)
    OBVIOUS
  <1>. HIDE DEF E
  <1>7. Arranges(E, sold)
    <2>1. \A p \in sold : <<p, p>> \notin E
      BY <1>2, <1>3, <1>6
    <2>2. \A p, q \in sold : p # q => <<p, q>> \in E \/ <<q, p>> \in E
      <3>. SUFFICES ASSUME NEW p \in sold, NEW q \in sold, p # q
                    PROVE  <<p, q>> \in E \/ <<q, p>> \in E
        OBVIOUS
      <3>1. units(p) \in Int /\ units(q) \in Int /\ p \in Int /\ q \in Int
        BY <1>2, <1>3
      <3>. QED
        BY <1>6, <3>1
    <2>3. \A p, q, t \in sold : <<p, q>> \in E /\ <<q, t>> \in E => <<p, t>> \in E
      <3>. SUFFICES ASSUME NEW p \in sold, NEW q \in sold, NEW t \in sold, <<p, q>> \in E, <<q, t>> \in E
                    PROVE  <<p, t>> \in E
        OBVIOUS
      <3>1. units(p) \in Int /\ units(q) \in Int /\ units(t) \in Int /\ p \in Int /\ q \in Int /\ t \in Int
        BY <1>2, <1>3
      <3>. QED
        BY <1>6, <3>1
    <2>. QED
      BY <2>1, <2>2, <2>3 DEF Arranges
  <1>8. l \in Bijection(1..c, sold) /\ Follows(l, E, 1..c)
    BY <1>4, <1>7, ListedInOrder
  <1>. HIDE DEF l, c
  <1>9. l \in [1..c -> sold] /\ Len(l) = c
    BY <1>5, <1>8 DEF Bijection, Injection
  <1>10. n \in Int /\ n <= c
    BY <1>5, <1>9, LesserOfTwo
  <1>. HIDE DEF n
  <1>11. \A i \in 1..n : l[i] \in sold /\ r[i] = <<l[i], units(l[i])>>
    BY <1>5, <1>9, <1>10
  <1>12. r \in Seq(Int \X Int) /\ Len(r) \in Nat /\ DOMAIN r = 1..Len(r) /\ DOMAIN r = 1..n
    <2>1. DOMAIN r = 1..n
      OBVIOUS
    <2>2. \A i \in 1..n : <<l[i], units(l[i])>> \in Int \X Int
      BY <1>2, <1>3, <1>11
    <2>3. r \in [1..n -> Int \X Int]
      BY <2>2
    <2>. HIDE DEF r
    <2>4. PICK m \in Nat : 1..n = 1..m
      <3>1. CASE n >= 0
        BY <1>10, <3>1
      <3>2. CASE n < 0
        BY <1>10, <3>2
      <3>. QED
        BY <1>10, <3>1, <3>2
    <2>5. r \in [1..m -> Int \X Int]
      BY <2>3, <2>4
    <2>. QED
      BY <2>1, <2>4, <2>5
  <1>. HIDE DEF r
  <1>13. ASSUME NEW i \in 1..Len(r), NEW j \in 1..Len(r), i < j
         PROVE  r[i][2] > r[j][2] \/ (r[i][2] = r[j][2] /\ r[i][1] < r[j][1])
    <2>1. i \in 1..n /\ j \in 1..n /\ i \in 1..c /\ j \in 1..c
      BY <1>5, <1>10, <1>12
    <2>2. <<l[i], l[j]>> \in E
      BY <1>8, <1>13, <2>1 DEF Follows
    <2>. QED
      BY <1>6, <1>11, <2>1, <2>2
  <1>. QED
    BY <1>1, <1>12, <1>13 DEF BySales

\* f tells where the rows of a are in b.
Rearranges(f, a, b, N) ==
    /\ f \in [N -> N] /\ \A i, j \in N : f[i] = f[j] => i = j
    /\ \A i \in N : a[i] = b[f[i]]

\* Rankings whose rows are the same in some order are the same.
LEMMA RankedOnce ==
    ASSUME NEW a, NEW b, BySales(a), BySales(b), NEW n \in Nat, n = Len(a), n = Len(b),
           NEW f, Rearranges(f, a, b, 1..n)
    PROVE  a = b
  <1>1. /\ f \in [1..n -> 1..n] /\ \A i, j \in 1..n : f[i] = f[j] => i = j
        /\ \A i \in 1..n : a[i] = b[f[i]]
    BY DEF Rearranges
  <1>. DEFINE P == Int \X Int
  <1>0. a \in Seq(P) /\ b \in Seq(P)
    BY DEF BySales
  <1>2. \A i \in 1..n : a[i] \in P /\ b[i] \in P
    <2>. HIDE DEF P
    <2>. QED
      BY <1>0, ElementOfSeq
  <1>3. ASSUME NEW i \in 1..n, NEW j \in 1..n, i < j
        PROVE  f[i] < f[j]
    <2>1. a[i][2] > a[j][2] \/ (a[i][2] = a[j][2] /\ a[i][1] < a[j][1])
      BY <1>1, <1>3 DEF BySales
    <2>2. ASSUME f[j] < f[i] PROVE FALSE
      <3>1. b[f[j]][2] > b[f[i]][2] \/ (b[f[j]][2] = b[f[i]][2] /\ b[f[j]][1] < b[f[i]][1])
        BY <1>1, <2>2 DEF BySales
      <3>. QED
        BY <1>1, <1>2, <2>1, <3>1
    <2>3. f[i] # f[j]
      BY <1>1, <1>3
    <2>. QED
      BY <1>1, <2>2, <2>3
  <1>4. \A i \in 1..n : f[i] = i
    BY <1>1, <1>3, IncreasingIsIdentity
  <1>5. \A i \in 1..n : a[i] = b[i]
    BY <1>1, <1>4
  <1>6. a \in [1..n -> P] /\ b \in [1..n -> P]
    <2>. HIDE DEF P
    <2>. QED
      BY <1>0, LenProperties
  <1>. QED
    BY <1>5, <1>6

\* A ranking as rows.
SalesRow(e) == <<<<2, Apart(e[1])>>, <<2, Apart(e[2])>>>>

LEMMA SalesRowsAre ==
    ASSUME NEW x \in Int \X Int, NEW y \in Int \X Int
    PROVE  /\ SalesRow(x) \in Seq(Known) /\ Len(SalesRow(x)) = 2
           /\ SalesRow(x) = SalesRow(y) => x = y
  <1>1. x[1] \in Int /\ x[2] \in Int /\ y[1] \in Int /\ y[2] \in Int
        /\ x = <<x[1], x[2]>> /\ y = <<y[1], y[2]>>
    OBVIOUS
  <1>2. x[1] # y[1] => Apart(x[1]) # Apart(y[1])
    BY <1>1, NumbersAreApart
  <1>3. x[2] # y[2] => Apart(x[2]) # Apart(y[2])
    BY <1>1, NumbersAreApart
  <1>. DEFINE a == <<2, Apart(x[1])>>
              b == <<2, Apart(x[2])>>
  <1>4. SalesRow(x) = <<a, b>>
    BY DEF SalesRow
  <1>5. a \in Known /\ b \in Known
    BY <1>1 DEF Known, KnownBy
  <1>6. SalesRow(x) = SalesRow(y) => Apart(x[1]) = Apart(y[1]) /\ Apart(x[2]) = Apart(y[2])
    BY DEF SalesRow
  <1>. HIDE DEF a, b
  <1>7. SalesRow(x) \in Seq(Known) /\ Len(SalesRow(x)) = 2
    BY <1>4, <1>5
  <1>. QED
    BY <1>1, <1>2, <1>3, <1>6, <1>7

LEMMA RankingsAsRows ==
    ASSUME NEW r, BySales(r)
    PROVE  /\ AsRows("p06", r) \in [1..Len(r) -> Seq(Known)] /\ Len(r) \in Nat
           /\ AsRows("p06", r) \in Seq(Seq(Known)) /\ Len(AsRows("p06", r)) = Len(r)
           /\ \A i \in 1..Len(r) : AsRows("p06", r)[i] = SalesRow(r[i]) /\ r[i] \in Int \X Int
  <1>. DEFINE P == Int \X Int
              R == Seq(Known)
              s == [i \in DOMAIN r |-> SalesRow(r[i])]
  <1>1. r \in Seq(P)
    BY DEF BySales
  <1>2. AsRows("p06", r) = s
    BY DEF AsRows, SalesRow
  <1>3. Len(r) \in Nat /\ DOMAIN r = 1..Len(r) /\ \A i \in 1..Len(r) : r[i] \in P
    <2>. HIDE DEF P
    <2>. QED
      BY <1>1, LenProperties, ElementOfSeq
  <1>4. \A i \in 1..Len(r) : SalesRow(r[i]) \in R
    BY <1>3, SalesRowsAre
  <1>. HIDE DEF R
  <1>5. s \in [1..Len(r) -> R]
    BY <1>3, <1>4
  <1>6. \A i \in 1..Len(r) : s[i] = SalesRow(r[i])
    BY <1>3
  <1>. HIDE DEF s
  <1>7. s \in Seq(R) /\ Len(s) = Len(r)
    BY <1>3, <1>5
  <1>. QED
    BY <1>2, <1>3, <1>5, <1>6, <1>7 DEF R

\* What the tolerance compares of the answers to a question, and how wide they are.
Shaped(p, table) ==
    /\ table \in Seq(Seq(Known)) /\ IsInjective(table)
    /\ p # "p06" => Len(table) = 1
    /\ \A i \in DOMAIN table : Len(table[i]) = IF p = "p06" THEN 2 ELSE 1

LEMMA AnswersAsRows ==
    ASSUME NEW p \in DOMAIN RulesOf \ {"p01"}, NEW answer, Whole(p, answer), p = "p06" => BySales(answer)
    PROVE  Shaped(p, AsRows(p, answer))
  <1>0. ASSUME NEW v \in Known
        PROVE  p # "p06" => Shaped(p, <<<<v>>>>)
    <2>. DEFINE r == <<v>>
    <2>1. r \in Seq(Known) /\ Len(r) = 1
      OBVIOUS
    <2>. HIDE DEF r
    <2>2. <<r>> \in Seq(Seq(Known)) /\ IsInjective(<<r>>) /\ Len(<<r>>) = 1 /\ \A i \in DOMAIN <<r>> : Len(<<r>>[i]) = 1
      BY <2>1 DEF IsInjective
    <2>3. p # "p06" => Shaped(p, <<r>>)
      BY <2>2 DEF Shaped
    <2>. QED
      BY <2>3 DEF r
  <1>1. \A n \in Int : p # "p06" => Shaped(p, One(n))
    <2>1. \A n \in Int : <<2, Apart(n)>> \in Known
      BY DEF Known, KnownBy
    <2>. QED
      BY <1>0, <2>1 DEF One
  <1>2. p # "p06" => Shaped(p, <<<<Null>>>>)
    BY <1>0 DEF Known
  <1>3. p \in {"p02", "p03", "p04", "p05", "p06", "p07", "p08", "p09", "p10"}
    BY RulesOfPatterns
  <1>4. CASE p = "p06"
    <2>. DEFINE s == AsRows("p06", answer)
    <2>1. /\ s \in [1..Len(answer) -> Seq(Known)] /\ s \in Seq(Seq(Known)) /\ Len(answer) \in Nat
          /\ \A i \in 1..Len(answer) : s[i] = SalesRow(answer[i]) /\ answer[i] \in Int \X Int
      BY <1>4, RankingsAsRows
    <2>. HIDE DEF s
    <2>2. DOMAIN s = 1..Len(answer)
      BY <2>1
    <2>3. \A i \in DOMAIN s : Len(s[i]) = 2
      BY <2>1, <2>2, SalesRowsAre
    <2>4. IsInjective(s)
      <3>. SUFFICES ASSUME NEW i \in 1..Len(answer), NEW j \in 1..Len(answer), s[i] = s[j]
                    PROVE  i = j
        BY <2>2 DEF IsInjective
      <3>1. answer[i] = answer[j] /\ answer[i][1] \in Int /\ answer[i][2] \in Int
        BY <2>1, SalesRowsAre
      <3>2. ASSUME NEW k \in 1..Len(answer), NEW m \in 1..Len(answer), k < m, answer[k] = answer[m],
                   answer[k][1] \in Int, answer[k][2] \in Int
            PROVE  FALSE
        <4>1. \/ answer[k][2] > answer[m][2]
              \/ answer[k][2] = answer[m][2] /\ answer[k][1] < answer[m][1]
          BY <1>4, <3>2 DEF BySales
        <4>. QED
          BY <3>2, <4>1
      <3>3. ~(i < j) /\ ~(j < i)
        BY <3>1, <3>2
      <3>. QED
        BY <2>1, <3>3
    <2>5. Shaped(p, s)
      BY <1>4, <2>1, <2>3, <2>4 DEF Shaped
    <2>. QED
      BY <1>4, <2>5 DEF s
  <1>5. CASE p \in {"p02", "p03", "p04", "p05", "p08"}
    <2>1. answer \in Int
      BY <1>5 DEF Whole
    <2>2. p # "p06" /\ p # "p07" /\ p # "p09" /\ p # "p10"
      BY <1>5
    <2>3. AsRows(p, answer) = One(answer)
      BY SMT, <2>2 DEF AsRows
    <2>. QED
      BY <1>1, <2>1, <2>2, <2>3
  <1>6. CASE p \in {"p07", "p09", "p10"}
    <2>1. answer[1] \in Int /\ answer[2] \in Nat
      BY <1>6 DEF Whole
    <2>2. p # "p06"
      BY <1>6
    <2>3. CASE answer[2] = 0
      <3>1. AsRows(p, answer) = <<<<Null>>>>
        <4>1. ~(p \in {"p07", "p09", "p10"} /\ answer[2] # 0) /\ p \in {"p07", "p09", "p10"} /\ answer[2] = 0
          BY <1>6, <2>3
        <4>. QED
          BY SMT, <2>2, <4>1 DEF AsRows
      <3>. QED
        BY <1>2, <2>2, <3>1
    <2>4. CASE answer[2] # 0
      <3>. DEFINE q == (5040 * answer[1]) \div answer[2]
      <3>1. AsRows(p, answer) = One(q)
        <4>1. ~(p \in {"p07", "p09", "p10"} /\ answer[2] = 0) /\ p \in {"p07", "p09", "p10"} /\ answer[2] # 0
          BY <1>6, <2>4
        <4>. QED
          BY SMT, <2>2, <4>1 DEF AsRows
      <3>2. q \in Int
        BY <2>1, <2>4
      <3>. HIDE DEF q
      <3>. QED
        BY <1>1, <2>2, <3>1, <3>2
    <2>. QED
      BY <2>3, <2>4
  <1>. QED
    BY <1>3, <1>4, <1>5, <1>6

\* Answers so shaped are plain.
LEMMA ShapedArePlain ==
    ASSUME NEW p, NEW results, \A s \in results : Shaped(p, s)
    PROVE  Plain(results)
  <1>1. results \in SUBSET Seq(Seq(Known)) /\ \A s \in results : IsInjective(s)
    BY DEF Shaped
  <1>. QED
    BY <1>1, KnownArePlain

\* Rankings that hold the same are the same.
LEMMA RankingsCompared ==
    ASSUME NEW a, NEW b, BySales(a), BySales(b), RowsEqual(AsRows("p06", a), AsRows("p06", b), FALSE)
    PROVE  a = b
  <1>. DEFINE n == Len(a)
              N == 1..n
              l == AsRows("p06", a)
              r == AsRows("p06", b)
  <1>1. /\ l \in [N -> Seq(Known)] /\ n \in Nat /\ \A i \in N : l[i] = SalesRow(a[i]) /\ a[i] \in Int \X Int
        /\ r \in [1..Len(b) -> Seq(Known)] /\ Len(b) \in Nat /\ Len(l) = n /\ Len(r) = Len(b)
        /\ \A i \in 1..Len(b) : r[i] = SalesRow(b[i]) /\ b[i] \in Int \X Int
    BY RankingsAsRows
  <1>2. Shaped("p06", l) /\ Shaped("p06", r)
    BY AnswersAsRows, RulesOfPatterns DEF Whole
  <1>. HIDE DEF l, r, n
  <1>3. Plain({l, r})
    BY <1>2, ShapedArePlain
  <1>4. SameMultiset(l, r)
    BY <1>3, SortedPairingIsSound DEF Plain, l, r
  <1>5. Len(b) = n
    BY <1>1, <1>4 DEF SameMultiset
  <1>6. PICK f \in Bijection(N, N) : \A i \in N : RowEqual(l[i], r[f[i]])
    BY <1>1, <1>4, <1>5 DEF SameMultiset
  <1>7. f \in [N -> N] /\ \A i, j \in N : f[i] = f[j] => i = j
    BY <1>6 DEF Bijection, Injection, IsInjective
  <1>8. \A i \in N : a[i] = b[f[i]]
    <2>. SUFFICES ASSUME NEW i \in N PROVE a[i] = b[f[i]]
      OBVIOUS
    <2>1. f[i] \in N
      BY <1>7
    <2>2. l[i] \in RowsOf({l, r}) /\ r[f[i]] \in RowsOf({l, r})
      BY <1>1, <1>5, <2>1 DEF RowsOf, ToSet
    <2>3. l[i] = r[f[i]]
      <3>1. Scattered(l[i], r[f[i]]) /\ NaN \notin ToSet(l[i])
        BY <1>3, <2>2 DEF Plain
      <3>2. l[i] \in AnyRow /\ r[f[i]] \in AnyRow
        <4>1. l \in AnyRows /\ r \in AnyRows
          BY <1>3 DEF Plain
        <4>. QED
          BY <1>1, <1>5, <2>1, <4>1, ElementOfSeq DEF AnyRows
      <3>. QED
        BY <1>6, <3>1, <3>2, ScatteredRowsAreEqualOrNot
    <2>. QED
      BY <1>1, <1>5, <2>1, <2>3, SalesRowsAre
  <1>9. n \in Nat /\ n = Len(a) /\ n = Len(b)
    BY <1>1, <1>5 DEF n
  <1>10. Rearranges(f, a, b, 1..n)
    BY <1>7, <1>8 DEF Rearranges
  <1>. QED
    BY <1>9, <1>10, RankedOnce

\* What each question of a warehouse is answered by, in rows.
LEMMA AnswersAreShaped ==
    ASSUME NEW w, WellKept(w), NEW p \in DOMAIN RulesOf \ {"p01"}, NEW scope, NEW a
    PROVE  Shaped(p, AsRows(p, Answer(p, w, scope, a)))
  <1>1. Whole(p, Answer(p, w, scope, a))
    BY AnswersAreWhole
  <1>2. p = "p06" => BySales(Answer(p, w, scope, a))
    BY ProductsAreRanked DEF Answer
  <1>. QED
    BY <1>1, <1>2, AnswersAsRows

\* What Judge says is one of three.
LEMMA JudgedAs ==
    ASSUME NEW run, NEW item
    PROVE  /\ Judge(run, item).outcome = "correct" =>
                  \/ RowsEqual(run.rows, item.gold, item.ordered)
                  \/ TieBreakOnly(run.rows, item.gold, item.ordered)
           /\ Judge(run, item).outcome # "correct" /\ Judge(run, item).outcome # "silent_error" =>
                  run.rows = <<>> \/ AllNull(run.rows) \/ ShapeMismatch(run.rows, item.gold)
  <1>1. CASE run.rows = <<>>
    <2>1. Judge(run, item).outcome = "visible_failure"
      BY <1>1 DEF Judge
    <2>. QED
      BY <1>1, <2>1
  <1>2. CASE run.rows # <<>> /\ AllNull(run.rows)
    <2>1. Judge(run, item).outcome = "visible_failure"
      BY <1>2 DEF Judge
    <2>. QED
      BY <1>2, <2>1
  <1>3. CASE run.rows # <<>> /\ ~AllNull(run.rows) /\ ShapeMismatch(run.rows, item.gold)
    <2>1. Judge(run, item).outcome = "visible_failure"
      BY <1>3 DEF Judge
    <2>. QED
      BY <1>3, <2>1
  <1>4. CASE run.rows # <<>> /\ ~AllNull(run.rows) /\ ~ShapeMismatch(run.rows, item.gold)
    BY <1>4 DEF Judge
  <1>. QED
    BY <1>1, <1>2, <1>3, <1>4

\* The rules of a question are numbered.
LEMMA RulesAreNumbered ==
    ASSUME NEW p \in DOMAIN RulesOf
    PROVE  \E n \in Nat : DOMAIN SetToSeq(VariantRules(p)) = 1..n
  <1>1. VariantRules(p) \in SUBSET RuleChecks
    BY PatternsAskOfRules DEF VariantRules
  <1>2. IsFiniteSet(RuleChecks)
    <2>1. \A a : IsFiniteSet({a})
      BY FS_Singleton
    <2>2. IsFiniteSet({"soft_delete"} \cup {"cancelled_orders"}) /\ IsFiniteSet({"internal_accounts"} \cup {"multi_currency"})
          /\ IsFiniteSet({"minor_units"} \cup {"fan_out"})
      BY <2>1, FS_Union
    <2>3. IsFiniteSet(({"soft_delete"} \cup {"cancelled_orders"}) \cup ({"internal_accounts"} \cup {"multi_currency"}))
          /\ IsFiniteSet(({"minor_units"} \cup {"fan_out"}) \cup {"refunds_net"})
      BY <2>1, <2>2, FS_Union
    <2>4. IsFiniteSet((({"soft_delete"} \cup {"cancelled_orders"}) \cup ({"internal_accounts"} \cup {"multi_currency"}))
                         \cup (({"minor_units"} \cup {"fan_out"}) \cup {"refunds_net"}))
      BY <2>3, FS_Union
    <2>5. RuleChecks = (({"soft_delete"} \cup {"cancelled_orders"}) \cup ({"internal_accounts"} \cup {"multi_currency"}))
                         \cup (({"minor_units"} \cup {"fan_out"}) \cup {"refunds_net"})
      BY DEF RuleChecks
    <2>. QED
      BY <2>4, <2>5
  <1>3. IsFiniteSet(VariantRules(p))
    BY <1>1, <1>2, FS_Subset
  <1>. QED
    BY <1>3, SetAsSequence, FS_CardinalityType

\* An answer of the item's own is among those it is laid to.
LEMMA AttributeNamesIt ==
    ASSUME NEW item, NEW results, Plain(results), item.ordered \in BOOLEAN, item.gold \in results,
           \A r \in DOMAIN item.naive : item.naive[r] \in results,
           item.groups = AmbiguousGroups(item.naive, item.gold, item.ordered),
           NEW n \in Nat, DOMAIN item.naive = 1..n, NEW i \in DOMAIN item.naive,
           NEW given, given = item.naive[i]
    PROVE  i \in Attribute(given, item)
  <1>. DEFINE D == DOMAIN item.naive
  <1>1. D = 1..n /\ given \in results
    OBVIOUS
  <1>2. SameRows(item.naive[i], given, item.ordered)
    BY DEF SameRows
  <1>3. Attribute(given, item) = {r \in D : SameRows(item.naive[r], given, item.ordered)}
    BY <1>1, AttributeNames
  <1>. QED
    BY <1>2, <1>3

\* The item made of a question of a warehouse.
GoldRows(p, w) == AsRows(p, Gold(p, w, Scope))
NaiveRows(p, w) ==
    LET names == SetToSeq(VariantRules(p)) IN [i \in DOMAIN names |-> AsRows(p, Variant(p, w, Scope, names[i]))]
ItemOf(p, w) == Item(GoldRows(p, w), NaiveRows(p, w), p = "p06")

\* What is said of the ith answer of an item names its rule.
Named(judged, item, i) ==
    /\ judged.outcome = "correct" => i \in UNION item.groups
    /\ judged.outcome = "silent_error" => i \in judged.rules
    /\ judged.outcome # "correct" /\ judged.outcome # "silent_error" =>
           item.naive[i] = <<>> \/ AllNull(item.naive[i]) \/ Len(item.naive[i]) # Len(item.gold)

\* It does, for each rule of the question.
LEMMA DroppedAreNamed ==
    ASSUME NEW w, WellKept(w), NEW p \in DOMAIN RulesOf \ {"p01"}, ~Degenerate(GoldRows(p, w)),
           NEW i \in DOMAIN NaiveRows(p, w)
    PROVE  Named(Judge([rows |-> NaiveRows(p, w)[i], ended |-> "empty_result"], ItemOf(p, w)), ItemOf(p, w), i)
  <1>. DEFINE names == SetToSeq(VariantRules(p))
              gold == GoldRows(p, w)
              naive == NaiveRows(p, w)
              ordered == p = "p06"
              item == ItemOf(p, w)
              judged == Judge([rows |-> naive[i], ended |-> "empty_result"], item)
  <1>1. gold = AsRows(p, Gold(p, w, Scope)) /\ item = Item(gold, naive, ordered)
    BY DEF GoldRows, ItemOf
  <1>2. naive = [r \in DOMAIN names |-> AsRows(p, Variant(p, w, Scope, names[r]))]
    BY DEF NaiveRows
  <1>3. PICK n \in Nat : DOMAIN names = 1..n
    BY RulesAreNumbered
  <1>4. judged = Judge([rows |-> naive[i], ended |-> "empty_result"], item) /\ ordered = (p = "p06")
    OBVIOUS
  <1>5. ~Degenerate(gold) /\ i \in DOMAIN naive /\ i \in DOMAIN names
    BY <1>2
  <1>. HIDE DEF names, gold, naive, ordered, item, judged
  <1>. DEFINE given == naive[i]
              run == [rows |-> given, ended |-> "empty_result"]
              D == DOMAIN naive
              results == {gold} \cup {naive[r] : r \in D}
  <1>6. /\ item.gold = gold /\ item.naive = naive /\ item.ordered = ordered
        /\ item.groups = AmbiguousGroups(naive, gold, ordered)
        /\ run.rows = given /\ judged = Judge(run, item) /\ D = 1..n /\ i \in D /\ ordered \in BOOLEAN
    BY <1>1, <1>2, <1>3, <1>4, <1>5 DEF Item
  <1>7. Shaped(p, gold) /\ \A r \in D : Shaped(p, naive[r])
    BY <1>1, <1>2, AnswersAreShaped DEF Gold, Variant
  <1>8. Plain(results)
    BY <1>7, ShapedArePlain
  <1>9. gold \in results /\ \A r \in D : naive[r] \in results
    OBVIOUS
  <1>. HIDE DEF results, run
  <1>10. ASSUME RowsEqual(given, gold, FALSE), p = "p06"
        PROVE  given = gold
    <2>. DEFINE a == Answer(p, w, Scope, Ignoring(names[i]))
                b == Answer(p, w, Scope, {})
    <2>1. given = AsRows("p06", a) /\ gold = AsRows("p06", b)
      BY <1>10, <1>1, <1>2, <1>5 DEF Variant, Gold
    <2>2. BySales(a) /\ BySales(b)
      BY <1>10, ProductsAreRanked DEF Answer
    <2>. HIDE DEF a, b, given
    <2>3. RowsEqual(AsRows("p06", a), AsRows("p06", b), FALSE)
      BY <1>10, <2>1
    <2>4. a = b
      BY <2>2, <2>3, RankingsCompared
    <2>. QED
      BY <2>1, <2>4
  <1>11. ASSUME judged.outcome = "correct"
        PROVE  i \in UNION item.groups
    <2>1. RowsEqual(given, gold, ordered)
      <3>1. RowsEqual(given, gold, ordered) \/ TieBreakOnly(given, gold, ordered)
        BY <1>6, <1>11, JudgedAs
      <3>2. ASSUME TieBreakOnly(given, gold, ordered)
            PROVE  RowsEqual(given, gold, ordered)
        <4>1. ordered /\ RowsEqual(given, gold, FALSE)
          BY <3>2 DEF TieBreakOnly
        <4>2. given = gold
          BY <1>4, <1>10, <4>1
        <4>3. SameRows(given, gold, ordered)
          BY <4>2 DEF SameRows
        <4>. QED
          BY <1>6, <1>8, <1>9, <4>3, PlainIsExact
      <3>. QED
        BY <3>1, <3>2
    <2>2. i \in {r \in D : RowsEqual(naive[r], gold, ordered)}
      BY <1>6, <2>1
    <2>. QED
      BY <1>6, <2>2 DEF AmbiguousGroups
  <1>12. ASSUME judged.outcome = "silent_error"
        PROVE  i \in judged.rules
    <2>1. judged.rules = Attribute(given, item)
      BY <1>6, <1>12, SilentErrorsAreAttributed
    <2>2. i \in Attribute(given, item)
      <3>1. D = DOMAIN item.naive /\ item.ordered \in BOOLEAN /\ item.gold \in results
        BY <1>6, <1>9
      <3>2. \A r \in D : item.naive[r] \in results
        BY <1>6, <1>9
      <3>3. item.groups = AmbiguousGroups(item.naive, item.gold, item.ordered)
        BY <1>6
      <3>4. DOMAIN item.naive = 1..n /\ i \in DOMAIN item.naive /\ given = item.naive[i]
        BY <1>6
      <3>. QED
        BY <1>8, <3>1, <3>2, <3>3, <3>4, AttributeNamesIt
    <2>. QED
      BY <2>1, <2>2
  <1>13. ASSUME judged.outcome # "correct", judged.outcome # "silent_error", given # <<>>, ~AllNull(given)
        PROVE  Len(given) # Len(gold)
    <2>1. Len(given[1]) # Len(gold[1]) \/ Len(given) # Len(gold)
      BY <1>6, <1>13, JudgedAs DEF ShapeMismatch
    <2>2. gold # <<>>
      BY <1>5 DEF Degenerate
    <2>3. given \in Seq(Seq(Known)) /\ gold \in Seq(Seq(Known))
      BY <1>6, <1>7 DEF Shaped
    <2>4. 1 \in DOMAIN given /\ 1 \in DOMAIN gold
      BY <1>13, <2>2, <2>3
    <2>5. Len(given[1]) = Len(gold[1])
      <3>. DEFINE width == IF p = "p06" THEN 2 ELSE 1
      <3>1. (\A k \in DOMAIN given : Len(given[k]) = width) /\ \A k \in DOMAIN gold : Len(gold[k]) = width
        BY <1>6, <1>7 DEF Shaped
      <3>. HIDE DEF width
      <3>. QED
        BY <2>4, <3>1
    <2>. QED
      BY <2>1, <2>5
  <1>. QED
    BY <1>6, <1>11, <1>12, <1>13 DEF judged, item, naive, Named

\* MCPatterns's DroppedRulesAreToldApart, of any warehouse.
THEOREM DroppedRulesAreTold == WarehouseAsked => DroppedRulesAreToldApart
  <1>. SUFFICES ASSUME WarehouseAsked, asked.topic = "pattern"
                PROVE  DroppedRulesAreToldApart
    BY DEF DroppedRulesAreToldApart, VariantsDropOnlyTheirRule, DroppedRulesAreNamed
  <1>. DEFINE w == asked.w
  <1>1. WellKept(w)
    BY DEF WarehouseAsked
  <1>2. VariantsDropOnlyTheirRule
    BY <1>1, UntouchedIsGold DEF VariantsDropOnlyTheirRule
  <1>3. ASSUME NEW p \in DOMAIN RulesOf \ {"p01"}
        PROVE  LET ordered == p = "p06"
                   gold == AsRows(p, Gold(p, w, Scope))
                   names == SetToSeq(VariantRules(p))
                   naive == [i \in DOMAIN names |-> AsRows(p, Variant(p, w, Scope, names[i]))]
                   item == Item(gold, naive, ordered)
               IN  Builds(gold, AsRows(p, Composite(p, w, Scope)), ordered) =>
                       \A i \in DOMAIN names :
                           LET judged == Judge([rows |-> naive[i], ended |-> "empty_result"], item)
                           IN  CASE judged.outcome = "correct" -> i \in UNION item.groups
                                 [] judged.outcome = "silent_error" -> i \in judged.rules
                                 [] OTHER -> naive[i] = <<>> \/ AllNull(naive[i]) \/ Len(naive[i]) # Len(gold)
    <2>. DEFINE ordered == p = "p06"
                gold == AsRows(p, Gold(p, w, Scope))
                names == SetToSeq(VariantRules(p))
                naive == [i \in DOMAIN names |-> AsRows(p, Variant(p, w, Scope, names[i]))]
                item == Item(gold, naive, ordered)
                judged(i) == Judge([rows |-> naive[i], ended |-> "empty_result"], item)
    <2>1. SUFFICES ASSUME ~Degenerate(gold), NEW i \in DOMAIN names
                   PROVE  CASE judged(i).outcome = "correct" -> i \in UNION item.groups
                            [] judged(i).outcome = "silent_error" -> i \in judged(i).rules
                            [] OTHER -> naive[i] = <<>> \/ AllNull(naive[i]) \/ Len(naive[i]) # Len(gold)
      BY DEF Builds
    <2>. DEFINE j == judged(i)
    <2>2. gold = GoldRows(p, w) /\ naive = NaiveRows(p, w) /\ item = ItemOf(p, w) /\ i \in DOMAIN naive
      BY DEF GoldRows, NaiveRows, ItemOf
    <2>3. /\ j.outcome = "correct" => i \in UNION item.groups
          /\ j.outcome = "silent_error" => i \in j.rules
          /\ j.outcome # "correct" /\ j.outcome # "silent_error" =>
                 naive[i] = <<>> \/ AllNull(naive[i]) \/ Len(naive[i]) # Len(gold)
      <3>1. j = Judge([rows |-> naive[i], ended |-> "empty_result"], item)
        OBVIOUS
      <3>2. item.naive = naive /\ item.gold = gold
        BY DEF Item
      <3>. HIDE DEF w, gold, names, naive, item, j
      <3>3. Named(Judge([rows |-> NaiveRows(p, w)[i], ended |-> "empty_result"], ItemOf(p, w)), ItemOf(p, w), i)
        BY <1>1, <2>1, <2>2, DroppedAreNamed
      <3>4. Named(j, item, i)
        BY <2>2, <3>1, <3>3
      <3>. QED
        BY <3>2, <3>4 DEF Named
    <2>. HIDE DEF j, item, naive, gold, names
    <2>4. CASE j.outcome = "correct"
      BY <2>3, <2>4, Zenon DEF j
    <2>5. CASE j.outcome = "silent_error"
      BY <2>3, <2>5, Zenon DEF j
    <2>6. CASE j.outcome # "correct" /\ j.outcome # "silent_error"
      BY <2>3, <2>6, SMT DEF j
    <2>. QED
      BY <2>4, <2>5, <2>6
  <1>4. DroppedRulesAreNamed
    BY <1>3, Zenon DEF DroppedRulesAreNamed
  <1>. QED
    BY <1>2, <1>4 DEF DroppedRulesAreToldApart

\* So what is dropped is told apart, of whatever the system asks of patterns.
THEOREM DroppedRulesAreAlwaysTold == Spec => []DroppedRulesAreToldApart
  <1>1. Init => WarehouseAsked
    BY DEF Init, AskNothing, Idle, WarehouseAsked
  <1>. QED
    BY <1>1, WarehousesAreWellKept, DroppedRulesAreTold, PTL DEF Spec

=============================================================================
