---------------------------- MODULE QuestionQueue ----------------------------
(***************************************************************************)
(* Level 3: the question_queue table (queue/store.py), the polling workers *)
(* that claim and answer its rows (queue/worker.py) and the producers that *)
(* enqueue (the enqueue script, the AGENT view's box).                     *)
(*                                                                         *)
(* Rows are never deleted and an id is MAX(id) + 1, so the table is a      *)
(* sequence and a row's id its index.  A worker's Level 2 run is one step  *)
(* here, with the outcomes VerifiedLoop allows; a worker may die at any    *)
(* point before, during or after it.  The file lock is the database's:     *)
(* one process may hold the file open, from any number of threads.         *)
(***************************************************************************)
EXTENDS Naturals, Sequences

CONSTANTS
    Workers,        \* who runs worker.serve
    Producers,      \* who calls store.enqueue
    ProcessOf,      \* the operating-system process each of them is a thread of
    Questions,
    GoldQuestions,  \* those build_gold knows, hence those with rules to verify
    MaxIdle,        \* serve's max_idle_polls, 0 for None
    MaxRows         \* bound: no submission starts once the table has this many

ASSUME QueueAssumption ==
    /\ Workers \cap Producers = {}
    /\ GoldQuestions \subseteq Questions
    /\ MaxIdle \in Nat
    /\ MaxRows \in Nat

VARIABLES
    table,      \* question_queue, a sequence of rows
    open,       \* who has a connection to the queue file
    pc,         \* where each worker and each producer is
    held,       \* the row a worker claimed and has not settled, 0 if none
    idle,       \* serve's count of consecutive empty polls
    draft,      \* the question a producer submits and the id it computed
    told,       \* what a producer last learned of its submission
    receipts,   \* history: the ids given out, with the question each stands for
    abandoned   \* history: the rows whose worker died holding them

vars == <<table, open, pc, held, idle, draft, told, receipts, abandoned>>

Actors == Workers \cup Producers

RunOutcomes == {"accepted", "rejected", "error", "raised"}

Rows == [question : Questions,
         status   : {"queued", "claimed", "done", "failed"},
         result   : RunOutcomes \cup {"none"}]

Queued  == {i \in DOMAIN table : table[i].status = "queued"}
Claimed == {i \in DOMAIN table : table[i].status = "claimed"}

\* How run_verified can end on a question.  Without rules nothing rejects.
Outcomes(q) ==
    IF q \in GoldQuestions THEN RunOutcomes ELSE RunOutcomes \ {"rejected"}

\* Mutants of StatusFor: the outcome stored as the status; an exception that
\* escapes before the row is failed; a retry of what did not execute.
StatusFor_Verbatim(outcome) == outcome

StatusFor_NotFailed(outcome) ==
    CASE outcome = "raised" -> "claimed"
      [] outcome = "error"  -> "failed"
      [] OTHER              -> "done"

StatusFor_Retried(outcome) ==
    IF outcome \in {"accepted", "rejected"} THEN "done" ELSE "queued"

\* process_one looks at the last attempt only: rows are `done`, else `failed`.
StatusFor(outcome) ==
    IF outcome \in {"accepted", "rejected"} THEN "done" ELSE "failed"

CanOpen(a) == \A b \in open : ProcessOf[b] = ProcessOf[a]

Init ==
    /\ table = <<>>
    /\ open = {}
    /\ pc = [a \in Actors |-> IF a \in Workers THEN "down" ELSE "away"]
    /\ held = [w \in Workers |-> 0]
    /\ idle = [w \in Workers |-> 0]
    /\ draft \in [Producers -> [question : Questions, id : {0}]]
    /\ told = [p \in Producers |-> "nothing"]
    /\ receipts = <<>>
    /\ abandoned = {}

-----------------------------------------------------------------------------
(* Producers: connect, SELECT MAX(id) + 1, INSERT, close.                  *)

Connect(p, q) ==
    /\ pc[p] = "away"
    /\ Len(table) < MaxRows
    /\ CanOpen(p)
    /\ open' = open \cup {p}
    /\ pc' = [pc EXCEPT ![p] = "reading"]
    /\ draft' = [draft EXCEPT ![p].question = q]
    /\ told' = [told EXCEPT ![p] = "nothing"]
    /\ UNCHANGED <<table, held, idle, receipts, abandoned>>

ConnectRefused(p) ==
    /\ pc[p] = "away"
    /\ Len(table) < MaxRows
    /\ ~CanOpen(p)
    /\ told' = [told EXCEPT ![p] = "locked"]
    /\ UNCHANGED <<table, open, pc, held, idle, draft, receipts, abandoned>>

ReadNextId(p) ==
    /\ pc[p] = "reading"
    /\ pc' = [pc EXCEPT ![p] = "inserting"]
    /\ draft' = [draft EXCEPT ![p].id = Len(table) + 1]
    /\ UNCHANGED <<table, open, held, idle, told, receipts, abandoned>>

NewRow(p) == [question |-> draft[p].question, status |-> "queued", result |-> "none"]

HangUp(p, news) ==
    /\ pc' = [pc EXCEPT ![p] = "away"]
    /\ open' = open \ {p}
    /\ told' = [told EXCEPT ![p] = news]
    /\ UNCHANGED <<held, idle, draft, abandoned>>

\* Mutant of Insert: INSERT OR REPLACE, or a table without its PRIMARY KEY.
Insert_Replaces(p) ==
    /\ pc[p] = "inserting"
    /\ table' = IF draft[p].id \in DOMAIN table
                  THEN [table EXCEPT ![draft[p].id] = NewRow(p)]
                  ELSE Append(table, NewRow(p))
    /\ receipts' = Append(receipts, draft[p])
    /\ HangUp(p, "queued")

Insert(p) ==
    /\ pc[p] = "inserting"
    /\ draft[p].id \notin DOMAIN table
    /\ table' = Append(table, NewRow(p))
    /\ receipts' = Append(receipts, draft[p])
    /\ HangUp(p, "queued")

\* The PRIMARY KEY: someone else inserted the same id first.
InsertRefused(p) ==
    /\ pc[p] = "inserting"
    /\ draft[p].id \in DOMAIN table
    /\ HangUp(p, "duplicate id")
    /\ UNCHANGED <<table, receipts>>

-----------------------------------------------------------------------------
(* Workers: poll, claim, run Level 2, write back.                          *)

Start(w) ==
    /\ pc[w] = "down"
    /\ CanOpen(w)
    /\ open' = open \cup {w}
    /\ pc' = [pc EXCEPT ![w] = "polling"]
    /\ idle' = [idle EXCEPT ![w] = 0]
    /\ UNCHANGED <<table, held, draft, told, receipts, abandoned>>

\* The subquery: SELECT MIN(id) ... WHERE status = 'queued'.
OldestQueued(i) == i \in Queued /\ \A j \in Queued : i <= j

Taken(row) == [row EXCEPT !.status = "claimed"]

\* UPDATE ... RETURNING: the row found and the row moved are one statement.
Claim(w) ==
    /\ pc[w] = "polling"
    /\ \E i \in DOMAIN table :
        /\ OldestQueued(i)
        /\ table' = [table EXCEPT ![i] = Taken(@)]
        /\ held' = [held EXCEPT ![w] = i]
    /\ pc' = [pc EXCEPT ![w] = "answering"]
    /\ UNCHANGED <<open, idle, draft, told, receipts, abandoned>>

\* Without max_idle_polls the count is never read; it then stays at 0 here.
PollEmpty(w) ==
    /\ pc[w] = "polling"
    /\ Queued = {}
    /\ IF idle[w] + 1 < MaxIdle \/ MaxIdle = 0
         THEN /\ idle' = [idle EXCEPT ![w] = IF MaxIdle = 0 THEN 0 ELSE @ + 1]
              /\ UNCHANGED <<open, pc>>
         ELSE /\ pc' = [pc EXCEPT ![w] = "down"]
              /\ open' = open \ {w}
              /\ UNCHANGED idle
    /\ UNCHANGED <<table, held, draft, told, receipts, abandoned>>

Settled(row, outcome) ==
    [question |-> row.question, status |-> StatusFor(outcome), result |-> outcome]

\* The run ends and process_one writes it back: finish or fail, by id.
Settle(w) ==
    /\ pc[w] = "answering"
    /\ \E outcome \in Outcomes(table[held[w]].question) :
        table' = [table EXCEPT ![held[w]] = Settled(@, outcome)]
    /\ held' = [held EXCEPT ![w] = 0]
    /\ idle' = [idle EXCEPT ![w] = 0]
    /\ pc' = [pc EXCEPT ![w] = "polling"]
    /\ UNCHANGED <<open, draft, told, receipts, abandoned>>

\* Ctrl-C, a crash, or a store call that raises: all outside process_one's try.
Die(w) ==
    /\ pc[w] \in {"polling", "answering"}
    /\ pc' = [pc EXCEPT ![w] = "down"]
    /\ open' = open \ {w}
    /\ held' = [held EXCEPT ![w] = 0]
    /\ abandoned' = IF held[w] = 0 THEN abandoned ELSE abandoned \cup {held[w]}
    /\ UNCHANGED <<table, idle, draft, told, receipts>>

WorkerStep(w) == Claim(w) \/ PollEmpty(w) \/ Settle(w)

Next ==
    \/ \E p \in Producers, q \in Questions : Connect(p, q)
    \/ \E p \in Producers :
        ConnectRefused(p) \/ ReadNextId(p) \/ Insert(p) \/ InsertRefused(p)
    \/ \E w \in Workers : Start(w) \/ WorkerStep(w) \/ Die(w)

Spec == Init /\ [][Next]_vars

\* A worker that is up keeps running; nobody has to start one or to submit.
FairSpec == Spec /\ \A w \in Workers : WF_vars(WorkerStep(w))

-----------------------------------------------------------------------------
TypeOK ==
    /\ table \in Seq(Rows)
    /\ open \subseteq Actors
    /\ pc \in [Actors -> {"down", "polling", "answering",
                          "away", "reading", "inserting"}]
    /\ held \in [Workers -> Nat]
    /\ idle \in [Workers -> Nat]
    /\ draft \in [Producers -> [question : Questions, id : Nat]]
    /\ told \in [Producers -> {"nothing", "queued", "locked", "duplicate id"}]
    /\ receipts \in Seq([question : Questions, id : Nat])
    /\ abandoned \subseteq Nat

\* No two workers hold the same row, whatever the order of their polls: the
\* claim of queue/store.py is "the whole of the concurrency story".
ClaimsAreExclusive ==
    \A v, w \in Workers : held[v] = held[w] /\ held[w] # 0 => v = w

\* A row marked `claimed` is in the hands of exactly the worker that is working
\* on it, or its worker died: no row is lost any other way, and no row is
\* worked on under another status.
ClaimedRowsAreAccountedFor ==
    /\ Claimed = abandoned \cup {held[w] : w \in {v \in Workers : held[v] # 0}}
    /\ \A w \in Workers : held[w] \notin abandoned

\* Oldest first, over the whole history: the rows ever taken are a prefix of
\* the table, although ids come from producers that race each other.
TakenRowsAreAPrefix ==
    \A i, j \in DOMAIN table : i < j /\ i \in Queued => j \in Queued

\* A producer that was told "queued as id n" keeps that id to itself and its
\* question stays in row n, however the two statements of enqueue interleave.
ReceiptsAreHonoured ==
    /\ \A k \in DOMAIN receipts :
        /\ receipts[k].id \in DOMAIN table
        /\ table[receipts[k].id].question = receipts[k].question
    /\ \A k, l \in DOMAIN receipts : receipts[k].id = receipts[l].id => k = l

\* No retry, no dead-letter queue: a row moves queued, claimed, done or failed
\* and never back, and its result is written with its last status, once.
LegalMove(old, new) ==
    \/ new = old
    \/ new = Taken(old) /\ old.status = "queued"
    \/ /\ old.status = "claimed" /\ old.result = "none"
       /\ new.status \in {"done", "failed"} /\ new.result # "none"

RowsOnlyMoveForward ==
    [][\A i \in DOMAIN table : i \in DOMAIN table' /\ LegalMove(table[i], table'[i])]_vars

\* While one worker stays up, every row of the table ends `done` or `failed`,
\* unless a worker died holding it: no row starves behind the others, however
\* many producers keep submitting and whatever the runs do ("a dead row must
\* not kill the worker", worker.py, process_one).
EveryRowIsSettled ==
    \A i \in 1..MaxRows, w \in Workers :
        (i \in DOMAIN table /\ pc[w] # "down")
            ~> (i \in DOMAIN table \ (Queued \cup Claimed) \/ i \in abandoned \/ pc[w] = "down")

\* The queue implements what it promises: the rows, without their results.
Jobs == [i \in DOMAIN table |->
            [question |-> table[i].question, stage |-> table[i].status]]

Promise == INSTANCE AtMostOnceQueue WITH jobs <- Jobs

ImplementsPromise == Promise!Spec

-----------------------------------------------------------------------------
(* A statement of the documentation that the code does not keep.           *)

\* demos/03_event_driven_loop/README.md: "If a question fails verification
\* repeatedly, it lands in `failed` and stays."
RejectedAnswersAreFailed ==
    \A i \in DOMAIN table : table[i].result = "rejected" => table[i].status = "failed"

=============================================================================
