------------------------------- MODULE Passes --------------------------------
(***************************************************************************)
(* The passes that ask every question of the gold set at once: the trap of *)
(* Level 1 (agent/trap.py, views/trap.py), the Level 2 batch               *)
(* (verify/batch.py) and the verifier swap (verify/swap.py).               *)
(*                                                                         *)
(* Each submits a job for every arm and item to a thread pool and gathers  *)
(* the answers as they come.  The batch keeps a row for each, the trap a   *)
(* cell, the swap only counts.  An exception from a job is a dead cell to  *)
(* the trap; it ends the other two, once the pool has run what it was      *)
(* given.  The trap's scores can be revealed at any time.                  *)
(***************************************************************************)
EXTENDS Comparisons, FiniteSetsExt, Lists

CONSTANTS
    MaxJobs,        \* bounds the jobs of a pass
    PerArm,         \* threads per arm: CONCURRENCY, CONCURRENCY_PER_MODEL
    RerunItems      \* bounds the items of a trap that is run again

VARIABLES
    pass,           \* which of the three, over how many items
    stage,          \* where its main thread is
    started,        \* how many jobs the pool has taken from its queue
    answers,        \* the outcome of every job that is over
    gathered,       \* those the main thread has come to
    rows,           \* the items of the batch, in the order it came to them
    revealed,       \* TrapState.revealed
    reveal,         \* the handler of the reveal button, between its two reads
    screen          \* what the view shows

passVars == <<pass, stage, started, answers, gathered, rows, revealed, reveal, screen>>

ArmsOf(kind) ==
    CASE kind = "trap" -> <<"L3", "L0">>
      [] kind = "swap" -> <<"ast", "regex">>
      [] OTHER -> <<"governed">>

Arms == ToSet(ArmsOf(pass.kind))
Items == 1..pass.items

\* Arm by arm, item by item.
Jobs ==
    [n \in 1..(Len(ArmsOf(pass.kind)) * pass.items) |->
        <<ArmsOf(pass.kind)[((n - 1) \div pass.items) + 1], ((n - 1) % pass.items) + 1>>]

Running == {Jobs[n] : n \in 1..started} \ DOMAIN answers

\* How a run ends: judged, accepted by its verifier or not, after how many rejections.  One
\* that ran and was not accepted was rejected; the trap has no verifier.
JobAnswer(outcome, accepted, rejections) ==
    [outcome |-> outcome, accepted |-> accepted, rejections |-> rejections]

Died == JobAnswer("raised", FALSE, 0)

AnswersOf(kind) ==
    {Died, JobAnswer("visible", FALSE, 0)} \cup
    IF kind = "trap" THEN {JobAnswer(o, FALSE, 0) : o \in {"correct", "silent"}}
    ELSE {JobAnswer(o, TRUE, 0) : o \in {"correct", "silent"}}
         \cup {JobAnswer(o, FALSE, 1) : o \in {"correct", "silent"}} \cup {JobAnswer("correct", TRUE, 1)}

Ran(answer) == answer.outcome \in {"correct", "silent"}

-----------------------------------------------------------------------------
(* What a report says.                                                     *)

Count(test(_), of) == Cardinality({j \in DOMAIN of : test(of[j])})

\* summarise: a cell that died has no judgement and is not in any count.
Summarise(of) ==
    [total |-> Count(LAMBDA a : a # Died, of), ran |-> Count(Ran, of),
     correct |-> Count(LAMBDA a : a.outcome = "correct", of),
     silent |-> Count(LAMBDA a : a.outcome = "silent", of),
     visible |-> Count(LAMBDA a : a.outcome = "visible", of)]

\* What there is of one arm, by item.
OfArm(cells, arm) == [i \in {i \in Items : <<arm, i>> \in DOMAIN cells} |-> cells[<<arm, i>>]]

\* correct_by_item, of the trap and of a batch report alike.
CorrectByItem(of) == [i \in {i \in DOMAIN of : Ran(of[i])} |-> of[i].outcome = "correct"]

\* scoreboard and print_grid: each arm's counts, and the arms paired.
Scoreboard(cells) ==
    [arms |-> [arm \in Arms |-> Summarise(OfArm(cells, arm))],
     paired |-> Compare(CorrectByItem(OfArm(cells, "L3")), CorrectByItem(OfArm(cells, "L0")))]

\* grid: a question shows its outcome only when it has one and scores are revealed.
Grid(cells, shown) ==
    [j \in ToSet(Jobs) |->
        CASE j \notin DOMAIN cells \/ (j \in DOMAIN cells /\ cells[j] = Died) -> "pending"
          [] j \in DOMAIN cells /\ cells[j] # Died -> IF shown THEN cells[j].outcome ELSE "landed"]

\* save_state: the cells by item and arm, with what they add up to.
SavedState(cells) ==
    LET order == Sorted(SetToSeq(DOMAIN cells), LAMBDA j, k :
                     j[2] < k[2] \/ (j[2] = k[2] /\ j[1] = "L0" /\ k[1] = "L3"))
    IN  [cells |-> [n \in DOMAIN order |->
                       [arm |-> order[n][1], item |-> order[n][2],
                        outcome |-> IF cells[order[n]] = Died THEN "none" ELSE cells[order[n]].outcome]],
         board |-> Scoreboard(cells)]

\* print_grid: how many cells have landed, or the scores.
Printed(cells, shown) ==
    IF shown THEN <<Scoreboard(cells)>> ELSE <<Count(LAMBDA a : a # Died, cells)>>

RejectionsIn(of) == MapThenSumSet(LAMBDA i : of[i].rejections, DOMAIN of)

\* Mutant of BatchReport: the rows as they came.
BatchReport_AsCompleted ==
    LET of == OfArm(gathered, "governed")
    IN  [items |-> [n \in DOMAIN rows |-> [item |-> rows[n], answer |-> of[rows[n]]]],
         counts |-> Summarise(of), rejections |-> RejectionsIn(of)]

\* run_level2_pass: the rows by item, and what they add up to.
BatchReport ==
    LET of == OfArm(gathered, "governed")
    IN  [items |-> Sorted([n \in DOMAIN rows |-> [item |-> rows[n], answer |-> of[rows[n]]]],
                          LAMBDA r, s : r.item < s.item),
         counts |-> Summarise(of), rejections |-> RejectionsIn(of)]

\* SwapArm; a call costs one, so an answer costs one more than it was rejected.
SwapArms ==
    [arm \in Arms |->
        LET of == OfArm(gathered, arm)
        IN  [ran |-> Cardinality(DOMAIN of), accepted |-> Count(LAMBDA a : a.accepted, of),
             correct |-> Count(LAMBDA a : a.outcome = "correct", of),
             rejections |-> RejectionsIn(of), cost |-> Cardinality(DOMAIN of) + RejectionsIn(of)]]

\* _reading; the probe surface does show the regex verifier catching less.
SwapReading(arms) ==
    LET ast == arms["ast"]
        regex == arms["regex"]
        up(field) == regex[field] * ast.ran > ast[field] * regex.ran
        down(field) == regex[field] * ast.ran < ast[field] * regex.ran
        moved == {m \in {"acceptance", "cost", "rejections"} :
                     CASE m = "acceptance" -> up("accepted")
                       [] m = "cost" -> regex.cost < ast.cost
                       [] m = "rejections" -> regex.rejections < ast.rejections}
    IN  CASE ast.ran = 0 \/ regex.ran = 0 -> [says |-> "nothing ran"]
          [] ast.ran > 0 /\ regex.ran > 0 /\ moved = {} -> [says |-> "nothing moved"]
          [] OTHER -> [says |-> "moved", moved |-> moved,
                       correctness |-> CASE down("correct") -> "fell"
                                         [] regex.correct = ast.correct -> "identical"
                                         [] OTHER -> "other way"]

-----------------------------------------------------------------------------
(* The pool and the main thread.                                           *)

NoPass == [kind |-> "none", items |-> 0]

Blank == [table |-> <<>>, board |-> <<>>, late |-> FALSE]

PassInit ==
    /\ pass = NoPass /\ stage = "idle"
    /\ started = 0 /\ answers = <<>> /\ gathered = <<>> /\ rows = <<>>
    /\ revealed = FALSE /\ reveal = <<>> /\ screen = Blank

Fresh(kind, items) ==
    /\ pass' = [kind |-> kind, items |-> items]
    /\ stage' = "gathering"
    /\ started' = 0 /\ answers' = <<>> /\ gathered' = <<>> /\ rows' = <<>> /\ revealed' = FALSE

\* A script, or the view opened; a trap shows its empty grid before it asks anything.
Begin(kind, items) ==
    /\ stage = "idle"
    /\ Fresh(kind, items)
    /\ screen' = [Blank EXCEPT !.table = IF kind = "trap" THEN Grid(<<>>, FALSE)' ELSE <<>>]
    /\ UNCHANGED reveal

\* The run button again: a new state, under the scores of the old one.
Rerun ==
    /\ pass.kind = "trap" /\ stage = "done" /\ reveal = <<>>
    /\ pass.items <= RerunItems
    /\ Fresh("trap", pass.items)
    /\ screen' = [screen EXCEPT !.table = Grid(<<>>, FALSE), !.late = FALSE]
    /\ UNCHANGED reveal

\* A thread of the pool takes the next job, whatever has become of the main thread.
TakeJob ==
    /\ stage \in {"gathering", "raising"}
    /\ started < Len(Jobs)
    /\ Cardinality(Running) < PerArm * Len(ArmsOf(pass.kind))
    /\ started' = started + 1
    /\ UNCHANGED <<pass, stage, answers, gathered, rows, revealed, reveal, screen>>

FinishJob(j, answer) ==
    /\ j \in Running
    /\ answers' = [k \in DOMAIN answers \cup {j} |-> IF k = j THEN answer ELSE answers[k]]
    /\ UNCHANGED <<pass, stage, started, gathered, rows, revealed, reveal, screen>>

\* as_completed: any job that is over and was not gathered yet.
Gather(j) ==
    /\ stage = "gathering" /\ j \in DOMAIN answers \ DOMAIN gathered
    /\ IF answers[j] = Died /\ pass.kind # "trap"
         THEN stage' = "raising" /\ UNCHANGED <<gathered, rows>>
         ELSE /\ gathered' = [k \in DOMAIN gathered \cup {j} |-> IF k = j THEN answers[j] ELSE gathered[k]]
              /\ rows' = IF pass.kind = "batch" THEN Append(rows, j[2]) ELSE rows
              /\ UNCHANGED stage
    /\ UNCHANGED <<pass, started, answers, revealed, reveal, screen>>

\* Mutant of End: waits for every cell to be there, and to be done.
End_WhenAllLanded ==
    /\ stage = "gathering" /\ DOMAIN gathered = ToSet(Jobs)
    /\ Died \notin Range(gathered)
    /\ stage' = "done"
    /\ screen' = IF pass.kind = "trap" THEN [screen EXCEPT !.table = Grid(gathered, revealed)]
                 ELSE screen
    /\ UNCHANGED <<pass, started, answers, gathered, rows, revealed, reveal>>

\* Leaving the pool, which waits for every job; the view then shows the grid, not the scores.
End ==
    /\ stage = "gathering" /\ DOMAIN gathered = ToSet(Jobs)
    /\ stage' = "done"
    /\ screen' = IF pass.kind = "trap" THEN [screen EXCEPT !.table = Grid(gathered, revealed)]
                 ELSE screen
    /\ UNCHANGED <<pass, started, answers, gathered, rows, revealed, reveal>>

\* The same on the way out of an exception.
EndRaised ==
    /\ stage = "raising" /\ started = Len(Jobs) /\ Running = {}
    /\ stage' = "raised"
    /\ UNCHANGED <<pass, started, answers, gathered, rows, revealed, reveal, screen>>

\* TrapState.reveal, and the grid is read.
PressReveal ==
    /\ pass.kind = "trap" /\ reveal = <<>>
    /\ revealed' = TRUE
    /\ reveal' = <<[table |-> Grid(gathered, TRUE), late |-> stage = "done"]>>
    /\ UNCHANGED <<pass, stage, started, answers, gathered, rows, screen>>

\* Then the scores are read, one loop over the cells after the other.
ShowReveal ==
    /\ reveal # <<>>
    /\ screen' = [table |-> reveal[1].table, board |-> <<Scoreboard(gathered)>>, late |-> reveal[1].late]
    /\ reveal' = <<>>
    /\ UNCHANGED <<pass, stage, started, answers, gathered, rows, revealed>>

\* A cell that lands inside one of those loops makes it raise: nothing is shown.
RevealRaises ==
    /\ reveal # <<>> /\ stage = "gathering" /\ DOMAIN gathered # ToSet(Jobs)
    /\ reveal' = <<>>
    /\ UNCHANGED <<pass, stage, started, answers, gathered, rows, revealed, screen>>

\* The process or the page is closed.
PutAway ==
    /\ stage \in {"done", "raised"} /\ reveal = <<>>
    /\ pass' = NoPass /\ stage' = "idle"
    /\ started' = 0 /\ answers' = <<>> /\ gathered' = <<>> /\ rows' = <<>> /\ revealed' = FALSE
    /\ screen' = Blank
    /\ UNCHANGED reveal

\* What the pool and the main thread do by themselves.
Advance ==
    \/ TakeJob \/ End \/ EndRaised
    \/ \E j \in Running, answer \in AnswersOf(pass.kind) : FinishJob(j, answer)
    \/ \E j \in DOMAIN answers : Gather(j)

PassNext ==
    \/ \E kind \in {"trap", "batch", "swap"}, items \in 0..MaxJobs :
           Len(ArmsOf(kind)) * items <= MaxJobs /\ Begin(kind, items)
    \/ Advance \/ Rerun \/ PressReveal \/ ShowReveal \/ RevealRaises \/ PutAway

=============================================================================
