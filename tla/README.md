# TLA+ specifications of loopeng

`loopeng` is a text-to-SQL workshop in Python: a language model is asked a business
question, writes SQL, and a loop around it runs, checks and repeats. The four levels of
the workshop are four loops: one that executes (Level 1), one that verifies (Level 2),
one that polls a queue without anybody watching (Level 3), and one that sweeps whole
grids of runs and measures them (Level 4). Around the loops stand a gold set that answers
are graded against, a published reference that results are compared with, and the
arithmetic that turns runs into claims.

These specifications model the loops, the files that outlive them, and the rules by which
answers are graded, compared and drawn. What is hard in the loops is when one stops, what
it remembers, what it has spent, and what survives the death of a process; in the rest,
that two computations of the same thing agree.

Paths below are relative to the repository; `loopeng/` stands for `src/loopeng/`.

## Inventory

| Component | State | Operations | Interacts with |
|---|---|---|---|
| Level 1 loop, `loopeng/agent/loop.py` | attempts, usage ledger, two seen-sets, termination | `run_question`: budget check, model call, query, feedback | model API, warehouse, ledger |
| Level 2 loop, `loopeng/verify/loop.py` | the same, plus the verdicts and a conversation kept apart from the attempts | `run_verified` | Level 1's helpers, verifiers |
| Verifiers, `loopeng/verify/` | none (rule table, probes) | `verify`, `verify_governed`, `coverage_report` | the Level 2 loop calls them on each attempt |
| Usage ledger, prices, registry, `loopeng/usage.py`, `pricing.py`, `registry.py` | list of calls | `record`, `cost_usd`, `reconcile` | both loops read it before spending |
| Level 3 queue, `loopeng/queue/store.py` | one table in a DuckDB file | `enqueue`, `claim`, `finish`, `fail` | producers and workers, each with a connection |
| Level 3 worker, `loopeng/queue/worker.py` | the row in hand, the idle count | `process_one`, `serve` | queue, Level 2 loop |
| Level 4 sweep, `loopeng/sweep/runner.py`, `orchestrator.py` | cell files on disk, spend so far, items in flight | `run_sweep`, `run_cell`, `load_cell`, `require_fresh`, `load_all` | thread pool of Level 1 and 2 runs, charts |
| Sweep identity, `sweep/fingerprint.py`, `reference.py` | fingerprint in each cell file, three frozen files | `resolve_run_id`, freezing, loading the reference | cell files |
| Comparisons, `paired.py`, `sweep/diff.py`, `metric.py` | none | pairing, McNemar's test, readings, intervals | finished cells |
| Charts and DIAL, `sweep/chart_model.py`, `charts.py`, `render.py`, `views/dial.py` | none | bars, rows, notes, the confidence curve | finished cells and the reference |
| Gold set, `loopeng/gold/` | cached gold file | `build_gold`, `read_cache`, `write_cache`, `rows_equal` | warehouse, sweep, worker |
| Warehouse, `loopeng/warehouse/` | generated DuckDB file | `ensure_warehouse`, `run_sql` with a timer | everything that queries |
| Classification, `agent/classify.py` | none | `judge` | finished runs, gold set |
| Passes: `agent/trap.py`, `verify/batch.py`, `verify/swap.py` | answers gathered so far, the trap's reveal | a thread pool over the gold set | Level 1 and 2 runs, TRAP view |
| Triage, `loopeng/triage/` | none | `decide`, `operating_point`, `run_escalation` | finished runs |
| Other views and the live budget, `loopeng/views/` | `LiveBudget` | layout; `check`, `record` | stored results, queue |
| Preflight, gate, environment, LangSmith, demos, tools, deploy | none of their own | straight-line checks and entry points | external services |

**How they interact.** Calls go one way: producers write rows, workers claim rows and run
Level 2, the sweep and the passes run Level 1 and Level 2 in a pool, and all of them read
the gold set and the warehouse. What is shared is on disk: the queue file, the cell files,
the frozen reference, the gold cache and the warehouse. Nothing is locked by this code;
what exclusion there is comes from one SQL statement (`claim`), a PRIMARY KEY, and the file
lock of DuckDB, which lets one process at a time open a file for writing.

**What is hard.** Interleaved statements of producers and workers on one table; a worker
that dies holding a row; loops whose three records (attempts, conversation, seen-sets)
are updated in different branches; a budget checked before a call whose price is known
only afterwards; a sweep killed between two writes of the same file and resumed later under
other settings; a directory that is checked, and then read again to be frozen, while sweeps
write to it; a cache keyed by files that may have changed since they were imported;
answers that arrive in any order, some of them exceptions; and two computations of one
quantity (a bar and the test beside it, a verifier and the probes that vouch for it).

**What makes each correct.**
- Queue: one worker per row, oldest first, an id given out is kept, rows only move
  forward, nothing but a worker's death leaves a row behind.
- Loops: a success is a verified query, the run stops at the first repetition and only
  there, the model is told exactly what happened, spending stops within a call of the
  budget, and every run ends with a reason that fits.
- Sweep: a finished cell is never measured again, the stored spend respects the cap, and
  only the cell in flight is lost.
- Identity: a run id names one set of inputs, and what was checked is what is published.
- Gold set: what a process grades against answers its own questions; equal answers are
  graded equal, and a wrong one is laid to the rules that explain it.
- Passes: every item is reported once, at its place, whatever the order of the answers,
  and nothing is scored before the reveal.
- Comparisons and charts: a claim follows from the pairs it cites, and neither the order of
  files nor the place where a number is shown changes it.
- Triage: what was declined and not escalated is counted as such.

PROJECT.json lists the hazards one by one, with the line and the properties for each.

## Modules

| Module | Models | Role |
|---|---|---|
| `AtMostOnceQueue` | what the queue promises a submitter | abstract specification |
| `QuestionQueue` | `queue/store.py`, `queue/worker.py`, the producers | implements `AtMostOnceQueue` |
| `AnswerContract` | what an answering run promises its caller | abstract specification |
| `AgentLoop` | `agent/loop.py` | implements `AnswerContract` |
| `VerifiedLoop` | `verify/loop.py` | implements `AnswerContract`, and takes `AgentLoop`'s steps until the first complaint |
| `MeasuredOnce` | what the sweep promises of finished cells | abstract specification |
| `Sweep` | `sweep/orchestrator.py`, `sweep/runner.py` | implements `MeasuredOnce` |
| `Publication` | `sweep/fingerprint.py`, `sweep/reference.py` | state machine |
| `GoldCache` | `gold/build.py`, `warehouse/connect.py`, `warehouse/generate.py` | state machine |
| `Passes` | `agent/trap.py`, `views/trap.py`, `verify/batch.py`, `verify/swap.py` | state machine |
| `Grading` | `gold/compare.py`, `agent/classify.py`, the ambiguity groups of `gold/build.py` | operators |
| `Patterns` | `gold/patterns.py` | operators |
| `Verifiers` | `verify/verifiers.py`, `governance.py`, `regex_verifiers.py`, `probes.py` | operators, over `Patterns` |
| `Triage` | `triage/abstain.py`, `escalate.py`, `failures.py`, `spread` of `gold/build.py` | operators |
| `Comparisons` | `paired.py`, `sweep/diff.py`, the order of cells in `sweep/chart_model.py` | operators |
| `Dashboards` | `sweep/chart_model.py`, `charts.py`, `render.py`, `views/dial.py` | operators, over `Comparisons` and `Triage` |
| `Ledgers` | `usage.py`, `pricing.py`, `caching.py`, the cache note of the charts, `preflight.py` | operators |
| `Groups` | a step of the ambiguity groups of `gold/build.py`, for `Grading` | operators |
| `Lists` | Python's `sorted`, of a list and of a set, for `Passes`, `Triage`, `Grading` and `Patterns` | operators |
| `Questions` | | asks the operators one question at a time |
| `FoldLemmas` | | lemmas about sums over finite sets and over ledgers, about counting, sorting, listing in order and folding, and about the loop that groups rules |
| `QuestionQueue_proofs`, `AgentLoop_proofs`, `VerifiedLoop_proofs`, `Sweep_proofs`, `Publication_proofs`, `GoldCache_proofs` | | theorems about the first six state machines |
| `Analysis_proofs` | | theorems about `Passes`, `Triage`, `Ledgers`, `Patterns`, `Grading` and `Verifiers` |
| `MCQuestionQueue`, `MCAgentLoop`, `MCVerifiedLoop`, `MCSweep`, `MCPublication`, `MCGoldCache` | | model values for TLC |
| `MCGrading`, `MCPatterns`, `MCVerifiers`, `MCTriage`, `MCComparisons`, `MCDashboards`, `MCLedgers`, `MCPasses` | | the questions asked of each topic, and the properties of its answers |
| `MCAnalysis` | | composes the topics |

### The queue

`table` is the `question_queue` table. Rows are never deleted and an id is `MAX(id) + 1`,
so a row's id is its place in a sequence. A producer's `enqueue` is three steps
(`Connect`, `ReadNextId`, `Insert` or `InsertRefused`) because the SELECT and the INSERT
are two statements with autocommit; the worker's `claim` is one (`Claim`) because the
UPDATE with its subquery is. `Settle` is the end of `run_verified` together with the
`finish` or `fail` that follows it, `PollEmpty` is an idle poll of `serve`, `Die` is
whatever ends a worker outside `process_one`'s try block: Ctrl-C, a crash, or a store
call that raises (two connections whose writes conflict, for instance). The status written
by `Settle` is `StatusFor(outcome)`, which looks at the last attempt alone, as the code
does: an answer that executed but was rejected by the verifiers is `done`.

`open` is the database's file lock. `ProcessOf` says which actors share a process: under
`OneTerminal` workers and two producers are threads of one application, the only deployment
in which claims and submissions really overlap, and a third producer has a terminal of its
own and is locked out while they are up. `receipts` and `abandoned` are history variables:
no guard reads them.

### The two loops

A run starts in its setup, which looks up the role's model and, with no client given, the
credential, and may raise (`MissingCredential`): `SetUp` and `Raise`. Both loops have it. In
Level 1 nothing raises after it: every failure of a call or of a query is caught and becomes
an attempt. In Level 2 the verifier still may.

An iteration of the `for` loop is three steps: the budget check (`Ask`, `OverBudget`), the
model call (`Answered`, `CallRetried`, `CallRefused`), and the query with what follows it.
Each iteration appends exactly one attempt, so the loop index is `Len(attempts) + 1` and
the `for` runs out (`RunsOut`) when there are `MaxAttempts`.

SQL texts, error messages and complaints are abstract values. The loops compare them for
equality and nothing else; that database errors, API errors and complaints differ from
each other is an assumption (their texts start with different exception names or rule
keys). A reply without text and a failed call both leave an empty SQL, hence `NoSql` is
also one of `Sqls`. Prices are any value up to `MaxCallCost`. In `VerifiedLoop` the
verifier is any function: at each query that ran it accepts, complains with any of
`Complaints`, or raises, and in the last case the caller gets no run.

### The sweep

`disk` holds the cell files. `Path.write_text` empties a file and then fills it, so every
write is two steps with a `Torn` file in between: `Collect` then `WritePartial` for the
partial report after each item, `AllCollected` then `CellDone` for the final one. Anything
may happen between the two.

An invocation is `Begin(profile, fresh)`, then for each place in the plan one of `Resume`
(a complete file of that name exists), `LoadFails` (the file does not parse), `Abort` (what
was spent and what remains projects above the cap) or `StartCell`, then `Finish`. A profile
stands for the command line as a whole: the cells `build_cells` lists, the items that
`apply_item_limit` leaves, and the cap. A `--limit` that the profile refuses ends the
invocation before it reads anything and is no profile of the model.

`StartCell` submits every item to the pool. A run ends with a cost (`RunEnds`) or raises
(`RunRaises`) in any order; `as_completed` hands what landed to the main thread in any
order (`Collect`, `CollectRaises`). How many runs are in flight at once is left out: a run
is one step, and is billed when it ends. An exception or Ctrl-C leaves the `with` block
(`Interrupt`, `unwinding`), which waits for every submitted run before the process ends
(`Unwound`); those runs are billed and their rows are lost. `Kill` ends the process at any
point without waiting. After any of these, `Begin` starts again over whatever is on disk.
`RenderCharts` is `load_all`, at any moment. `billed` and `deaths` are history variables.
One sweep at a time; two in one directory, and what is stamped into a file, are the next
module's.

### Publication

`Publication` takes the sweeps coarsely and what is published of them finely. A sweep
starts with a setup (checkout, prices and gold set) and the stamp `resolve_run_id` gives it:
one of the directory's whose inputs match (`Adoptable`), or a new run id. It takes cells
that are not complete, writes reports stamped with its fingerprint (`WriteCell`), may be
killed in the middle of a write (`TearCell`) or anywhere else (`StopSweep`); any number may
run in the same directory at once, since nothing in the code prevents it. Files may be moved
away by hand (`Remove`), and those there at first may date from before there were
fingerprints. `CodeRevision` gives every dirty tree of a commit one name, and everything
outside git another, as the code does.

Freezing the worker baseline or the frontier sidecar is two steps, as in the code: `AssertSameRun` reads
the directory and compares, then `BuildWorkerBaseline` or `BuildFrontierPaired` reads it
again and copies; `FreezeFails` is whatever stops it in between or refuses. `BuildReference`
freezes the frontier measurements and checks nothing. `Loaded` and `Restored` are what
`load_reference` makes of the three files.

Three history variables say when a promise is off: `late` (the cells that changed between
the check and the copy), `overlapped` (two sweeps have run at once) and `refrozen` (the
measurements were frozen after the sidecar). The properties carry them as premises where
the code makes no stronger promise; the third finding below is what happens without
`refrozen`.

### The gold cache

A process imports the questions once (`Launch` copies `source` into its `version`), makes
sure that there is a warehouse (`EnsureWarehouse`, `Create`, `Fill`: any file that exists
will do, and whoever finds none unlinks what has appeared since), and at every build reads
the key anew from the files as they are now (`Lookup`). A hit is served as it is; otherwise
the answers are computed (`Build`, or `BuildRaises` when the file is missing, busy or too
thin for the gates), cached in two steps with a torn file in between (`EmptyCache`,
`FillCache`), and served through the same serialisation as a cached one (`Canonical`). The
worker builds again for each row (`BuildAgain`). Processes end or are killed anywhere
(`End`); people edit the questions and delete the warehouse.

A gold set is known by what decides its answers: version, seed, whether the warehouse was
whole, and whether its numbers have DuckDB's types or JSON's. `outlived` (a process looked
up a key of files other than those it imported) and `foreign` (one built on another seed's
data, or on a half-filled file) are history variables. `Create` joins the unlinking and the
connecting of `generate` in one step, and `Build` joins the queries of all questions.

### The passes

A pass submits a job for every arm and item, arm by arm. `TakeJob` is a thread of the pool
taking the next job, `FinishJob` its end with any answer the arm can give, `Gather` the
main thread coming to it in any order, `End` leaving the `with` block. An exception from a
job is a dead cell to the trap; to the batch and the swap it ends the gathering, and
`EndRaised` waits for the pool first. The trap's grid can be revealed at any moment:
`PressReveal` sets the flag and reads the grid, `ShowReveal` reads the scores afterwards,
and `RevealRaises` is a cell that lands inside the loop that reads them. `Rerun` is the run
button again, with the old scores still on the screen. The Level 1 or Level 2 run of a job
is one step whose outcomes are those the loops' modules allow.

### The operators

`Grading`, `Patterns`, `Verifiers`, `Triage`, `Comparisons`, `Dashboards` and `Ledgers` have
no state: they are the functions of the code as operators over small values. A result row
is a tuple of small numbers, `Null` or `NaN`; a warehouse has two orders, with their lines
and refunds; a query is what a check can see of it (tables, constrained columns, whether it
converts, what it aggregates, which regular expressions match); a cell is its slot, whether
it is complete and stored, and its outcomes by item; a ledger is a sequence of calls with
their tokens.

Each topic has an `MC` module. Its actions ask a question (`AskJudge`, `AskPattern`,
`AskTable`, and so on): the question is the state, and the invariants compare the answers
of several operators with each other, or with a definition that is stated without regard to
how the code computes it: sorting and pairing within a tolerance with the existence of any
pairing; the naive variants of a query with the data that the ignored rule would have hidden; the
smallest significant table with a search over all tables; the bars with the rows of the
terminal; the saving of a cache with the bill of the same calls without one.

## Runs

Seven runs must pass.

| Run | Shows | Bounds |
|---|---|---|
| `MCQueueThreads` | the queue's safety, refinement of `AtMostOnceQueue`, every row is settled while a worker stays up, no deadlock | 2 workers that drain (`MaxIdle` 2), 2 producers in their process, a third in its own terminal, 2 rows |
| `MCAgentLoop` | Level 1: where it stops, spending and accounting, contract, termination | 4 attempts, budget 4, calls of 0 to 2 units, 2 queries and the empty one, 3 database errors, 1 API error |
| `MCVerifiedLoop` | Level 2: the same, plus the conversation, that success is a verified query, and that it is Level 1 until the first complaint | 4 attempts, 2 database errors, 2 rules |
| `MCSweep` | accounting, cap, bounded loss, every invocation ends, refinement of `MeasuredOnce`, no deadlock | 2 cells, 2 items, `smoke` (1 cell, 1 item) and `delivery` (both) in one directory, items of 0 to 2 units projected at 1, caps 2 and 5, 2 deaths in a cell |
| `MCPublication` | stamps tell setups apart and nothing else, what was checked is what is claimed, the tests agree with the bars | 1 frontier and 1 worker cell, 2 items, 2 commits, 2 sweeps, 2 run ids |
| `MCGoldCache` | what is served is right, every build is served | 2 processes, 2 versions of the questions, 2 seeds |
| `MCAnalysis` | the topics and the passes, below | below |

`MCAnalysis` explores about 543,000 states. Its properties are:

| Property | Says | Asked |
|---|---|---|
| `CorrectMeansTheSameAnswer` | rows compare equal exactly when they can be paired within the tolerance, and a tie that the question names may be broken either way and no other ranking may | 3 rows of one value or 2 rows of two; rankings of 2 products, known by name or number |
| `WrongAnswersAreLaidToTheirRules` | the groups of rules that cannot be told apart are what they say, and a silent error names every variant it matches | 4 rules whose variants coincide in every way; runs against items with 2 variants |
| `MoneyIsCountedOnce` | categories add up to gross, net is gross less each refund row | warehouses of 2 orders, up to 2 lines and 2 refunds each |
| `DroppedRulesAreToldApart` | a variant differs from the right answer only by what its rule would hide, and the classification names it | the same, the ten questions (the naming without `p01`) |
| `DeclinedAnswersAreCounted` | answered, declined, escalated and dropped add up; the curve reaches both ends | 2 runs of every kind and every threshold; 3 declined runs and limits of 0 to 2 |
| `PicksCoverThePatterns` | picks are spread evenly whatever the limit | up to 5 items over 3 patterns, 2 arms with up to 2 failures each |
| `ProbedVerifiersCanBeTrusted` | complaints name broken rules, the governed form accepts the same, the probes stand for the questions, the surfaces tell the two verifiers apart | every set of ignored rules of each question; any query the checks can tell apart, one filter standing for the three; verifiers put together of real, regex and degenerate checks |
| `ClaimsFollowFromThePairs` | the smallest significant table is sharp, deltas are over shared items, what a screen says is what the terminal says | tables of up to 9 discordant pairs, 2 or 3 cells of up to 7 runs |
| `OrderOfFilesDoesNotShow` | comparisons, bars and rows depend on the cells, not on the order they were read in, and a live cell wins over its stored twin | 2 or 3 cells, each order |
| `LedgersAddUp` | every view of a ledger has the same total, a lost call does not reconcile, caching saves the difference it made, the preflight hides nothing | ledgers of 2 cells with 2 calls |
| `PassesTellWhatHappened` | one row per item at its place, dead jobs in no count, nothing scored before the reveal, the swap's reading follows its counts | up to 4 jobs, 2 threads per arm, one item when a trap is run again |
| `EveryPassEnds` | a pass that has begun ends or raises | the same |

Five runs must find a violation; each is a finding below: `MCRejectedAnswersAreFailed`,
`MCReportsCoverTheProfile`, `MCSidecarBelongsToTheReference`, `MCEditsInvalidateTheCache`
and `MCReadingNamesTheWorseArm`.

Every property of a passing run has a mutant in PROJECT.json: a plausible bug in one of the
definitions it depends on, under which TLC finds it violated in the same run.

**Why the bounds are enough.** *Queue:* two workers and two producers give every pairwise
race, and two rows give one behind and one ahead of the one that is raced for; a worker
that idles up to twice can find the queue empty and then not. *Loops:* four attempts are
one more than the code ever asks for (three) and let a repetition be two turns apart with a
failed call in between; three distinct errors are needed so that a run can use up its
attempts without repeating itself. A budget of two dear calls is reached exactly,
overshot, and not reached. *Sweep:* two cells give one behind and one ahead of the place
where a sweep dies, two items give a run in flight while another's report is written, and
two deaths let a restarted sweep die again. Projections below the dearest item make the
first cell able to use up the cap before the second starts. *Publication:* two commits, two
run ids and two sweeps are what it takes for a stamp to be adopted, not adopted, and minted
twice by sweeps that overlap; one cell of each role, with reports that differ in their counts, is
enough for a check to be late on either side. Sweeps and commits are interchangeable in the
specification, so the configuration uses symmetry over them; it checks no liveness.
*Gold cache:* two processes and two versions give a builder that outlives an edit and one
that starts after it; two seeds give a warehouse that is not the default's. *Operators:* the code's
comparisons are pairwise (rows, rules, cells, calls), so two or three of each give every
relation between them; nine discordant pairs lie beyond the smallest significant table;
seven runs reach both sides of it. *Passes:* two arms with two items each and two threads
per arm give jobs that wait, run, die and are gathered out of order at once.
Beyond the bounds, the proofs below hold for any value.

**Deadlock** is checked for the queue, where some worker or producer can always move; for
the sweep, where the charts can always be drawn (so `EveryInvocationEnds` is what shows that
no invocation is stuck); and for the other state machines, where somebody can always start,
stop or ask something. The two loops end, so their configurations say `CHECK_DEADLOCK
FALSE`; that they end where they should is `Terminates`.

**Fairness.** `AgentLoop` and `VerifiedLoop` assume that their process keeps running: a
model call ends by answer, error or client timeout, a query by rows, error or the timer of
`run_sql`. Weak fairness of `Next` says that and no more; nothing is assumed of what they
answer. `QuestionQueue` assumes weak fairness of each worker's own steps, and nothing of
producers, of starts or of deaths: nobody has to start a worker or submit, and a worker may
die at any point. Strong fairness is not needed because a worker that is up is continuously
able to poll or to settle. `Sweep` assumes weak fairness of the main thread's steps and of
the pool's runs ending (they end by Level 1's and Level 2's `Terminates`); nobody has to
start a sweep, kill one or draw charts. `GoldCache` assumes weak fairness of each process's
own steps, and nothing of launches, kills, edits or deletions. The passes assume weak
fairness of what the pool and the main thread do by themselves (`Advance`): the library's
pool runs what it was given and every run ends; nobody has to press a button.

## Proofs

TLAPS checks, for every value of the constants:

*`QuestionQueue_proofs`* (any number of workers, producers, processes, rows): type
correctness, `ClaimedRowsAreAccountedFor`, `ReceiptsAreHonoured`, that the queue implements
`AtMostOnceQueue`, and three facts that no run checks because the refinement says them too:
`ClaimsAreExclusive`, `TakenRowsAreAPrefix`, `RowsOnlyMoveForward`. The invariants are not
inductive alone. `IInv` adds that a worker holds a row exactly while it is answering; that
a row is claimed if and only if it is held or abandoned; that unfinished rows have no
result; that a computed id is at most one past the table, so that the PRIMARY KEY check is
all that `enqueue` needs; and that the k-th receipt is for row k. Each action has a lemma;
the lemmas about the table (`TableAppended`, `TableUpdated`) are stated once. The only
assumptions are those named `QueueAssumption`: workers are not producers, gold questions
are questions.

*`AgentLoop_proofs`* and *`VerifiedLoop_proofs`* (any queries, errors, complaints, prices,
budget and number of attempts): type correctness, `StopsAtTheFirstRepeat`,
`LedgerIsBounded`, that the loop implements `AnswerContract`, and for Level 2
`SuccessIsTheVerifiedQuery` and `ConversationFollowsTheAttempts`. The properties speak of
the attempts while the code decides by its seen-sets, so the strengthening is that the
seen-sets are exactly the queries and the errors or feedback of the attempts that failed
(`SeenIsWhatFailed`) or were sent back (`SeenIsWhatWasSentBack`), what each `pc` says of the
budget, the attempts left and the reason so far (`PcAgrees`), and the conversation's
correspondence in every state of a run that is still going. `Level1UntilAComplaint` is
`UntilAComplaintItIsLevel1`: while no attempt has a complaint, what was sent back is what
failed, so each step of Level 2 is the step of the same name of Level 1, setup included, or
its verifier raising. Level 1's contract allows a raise only with no call on the ledger, for
which `PcAgrees` says that a run in its setup has made none. The assumptions
(`AgentAssumption`, `RefusalAssumption` and those of `VerifiedLoop`) say that errors of
different kinds differ and that numbers are numbers.

*`Sweep_proofs`* (any cells, items, profiles, caps, projections and prices, any number of
deaths): type correctness, `FreshResumesNothing`, that a cell is reported complete only
over all the items it was asked for, and that the sweep implements `MeasuredOnce`. That a
finished file stays as it is does not follow from itself: `IInv` adds that the cell being
run is in the plan and not finished (`CurrentIsUnfinished`), that until an exception each
of its items is waited for, landed or collected (`EveryItemIsSomewhere`), so that the last
report is whole (`FinalReportIsWhole`), and that a fresh sweep has no finished cell ahead
of it (`FreshHasNoneAhead`). `SpendingAccounted` and `LossBounded` are the two statements
about money. Their invariant, `MoneyInv`, adds what is under way: the bill exceeds what
finished files hold by no more than the cell in hand has cost, in rows and in runs that have
landed, and one cell's items for each death (`BilledIsKept`); the cell in hand has cost at
most an item's maximum for each item that is not pending (`CellCostIsBounded`); and what was
checked against the cap when it began is still true of it (`ProjectionFits`). `SweepAssumption` says that cell keys are unique in a plan, that profiles draw on the
gold set, that cells and items are finitely many, and that an absent and a torn file are no
report.

*`FoldLemmas`* is what these sums need and the library does not state: what `SumFunctionOnSet`
is of the empty set, of a set with an element more or less, of a function updated at a
point, of a difference, of a renaming of its points; and that a table adds up to the same by
its rows and by its columns (`SumSwap`). Induction being out of reach, each is proved by its smallest counterexample: among
the subsets for which it fails there is one of which no proper subset fails, and that one
cannot be. For the loops of `Grading` it has two more: what is ordered is listed in its order
(`ListedInOrder`), and a fold over a sequence goes from its first place to its last, a step at
each (`FoldsStepByStep`). Facts about places in a finite set of numbers and about classes of
an equivalence, which several topics need, are there too.

*`Publication_proofs`* (any cells, reports, setups, sweeps and run ids): type correctness,
`StampsNameTheSetup`, `CheckedCellsCarryTheFingerprint`, `PairedTestsAgreeWithTheBars`.
Three arguments, each about its own variables: run ids in use have been minted, so a new one is
nobody's (`RunsAreMinted`); the cells that did not change since a freeze checked them are
still as it found them (`CheckStillHolds`); the sidecar is compared with the measurements as
it is written, so only new measurements can make them differ (`SidecarReconciles`,
`MeasuredBeforeFrozen`). `PublicationAssumption` says that the roles share no cell, items
are finitely many, reports are of items, and no file and a torn file differ.

*`GoldCache_proofs`* (any number of processes, seeds and versions): type correctness and
`ServedGoldIsRight`. The invariant follows the answers on their way: what is being cached
was built from the questions its key names (`InHand`, `Holds`), and what is cached answers
the questions of the key it is stored under (`CacheIsRight`). `GoldAssumption` says that
the default seed is a seed and a torn cache is not an absent one.

`TypeOK` of `Publication` and `GoldCache`, an invariant of no run, is proved there.

*`Analysis_proofs`*, on passes (any number of items and of threads): `PassesTell`, which is
`PassesTellWhatHappened`, by the inductive invariant `PassInv` (`PassInvariance`). It says
that what was gathered is what the jobs answered (`GatheredOK`), that only started jobs
answered, each as a job of its pass can (`PoolOK`), that what the reveal shows was read off
the cells gathered before it, and what the saved file and the scores are of. From it the
properties follow by counting: a report splits its rows into outcomes that exclude each
other (`CountInTwo` and its like), a saved board lists each item once at its place because
the file is sorted by the items' positions and a sort neither drops nor doubles a row
(`PlacesInOrder`, `PlaceOfFinds`), and the swap's bound counts the items it is a bound for.
The one item of the runs that start a trap again becomes any number here.

*`Analysis_proofs`*, on triage: `TriageCounts` states `DeclinedAnswersAreCounted` of any
sequence of recorded runs, any answers of the frontier model and any limit, where the run
asks about sequences of at most three; `DeclinedAreCounted` is the invariant of `MCAnalysis`.
The six thresholds are sorted by the same lemmas, a higher threshold answers a subset of
what a lower one does (`HigherAnswersLess`), and the cap leaves something behind exactly
when more declined than it admits (`FirstOfTheDeclined`: what it drops last is the last
declined). `MCAnalysis` has no constants that matter to triage; `TriageAsks`, what the
theorem assumes, says only that runs are runs.

*`Analysis_proofs`*, on ledgers: `LedgersCount` states `LedgersAddUp` of two cells whose
ledgers have any length and any tokens, where the run has up to two calls of a few shapes
in each; `LedgersAlwaysAddUp` is the invariant of `MCAnalysis`. A ledger's totals are sums
over its places, so the argument is that places can be told apart: by model or by outcome
they are partitioned (`ViewsPartition`, on `SumByKey`), the places of two joined ledgers are
those of each (`SumConcat`), and a ledger with a call less or more has another number of
calls. What caching saved follows call by call: what an uncached call costs
(`UncachedCost`) exceeds what it did by its cached tokens at the difference of the prices,
and a cell that could not cache has none (`NothingCached`, `OnlyTheLongestPrefix`).
`LedgerAsks`, what the theorem assumes, says that calls are calls of their cell's role, that
a call without a marked prefix reports no cached tokens, and that a preflight's flags are
flags; what its probes answered is left open. The prices and the measured prefixes are those
of the source.

*`Analysis_proofs`*, on patterns: `MoneyCounts` states `MoneyIsCountedOnce` of any warehouse
that is `Stocked`: finitely many orders, lines and refunds, of products that exist, in whole
amounts; the run has two orders. The months partition the orders that count, so gross adds
up over them to the orders' amounts (`OverTheMonths`, on `SumByKey`); the categories
partition the lines of an order (`LinesByCategory`), and the table of orders by categories
adds up to the same either way (`RevenueOverTheCategories`, on `SumSwap`). What net lacks of
gross is what an order's refunds add up to (`NetOverTheMonths`), which is the refund rows
grouped by their order (`BackByRow`). `MoneyIsAlwaysCountedOnce` is the invariant of
`MCAnalysis`; that its warehouses are stocked is proved there too (`WarehousesAreWellKept`, on
`OrdersAreWritten`).

*`Analysis_proofs`*, on picks: `PicksCover` states `PicksCoverThePatterns` of any items of any
patterns, any cells and any limit; the run has up to 5 items of 3 patterns and 2 cells of 2
rows. The argument needs only one thing of the order in which items are picked: with an item
everything is picked whose turn is earlier (`TakenIsDownward`). An item's depth counts the
items of its pattern before it, so the first of a pattern left over is as deep as the pattern
was picked from, and one picked deeper would have come after it (`TakenEvenly`); and if a
pattern were missed no other would be picked from twice, so the picks would be fewer than the
patterns (`EveryPatternIsTaken`). That such an order can be listed at all is `OrderIsFollowed`:
what comes before an item counts its place. `PicksAsk`, what the theorem assumes, says that
a row names its arm and its item, as the code's rows do.

*`Analysis_proofs`*, on comparing answers: `CorrectIsTheSame` states
`CorrectMeansTheSameAnswer` of any two results of any shape, and for every `Tolerance`; the
run has results of three rows and one tolerance. That what the sorted pairing equates some
pairing equates holds of any values, NaN included, because a sort is a rearrangement
(`SortedPairingIsSound`). The converse is what the docstring promises of separated values:
equal rows are then ordered alike (`EqualRowsAreOrderedAlike`), so the pairing takes one
sorted list to another sorted list of the same rows, and these agree place by place
(`LinedUpOnce`). That named ties may be broken either way is proved of the rankings the
questions are about, of two products.

*`Analysis_proofs`*, on blaming rules: `WrongIsLaid` states `WrongAnswersAreLaidToTheirRules`
of any number of rules and any naive answers that are `Plain`: no row twice, no NaN, no two
different numbers within twice the tolerance, so that equal is the same (`PlainIsExact`). The
run has four rules. The loop of `_ambiguous_groups` puts a pair into the first group that
touches it and never merges two, which is right only because of the order in which pairs
come: the invariant of the loop (`Grouped`, kept by `JoinGroups`) says that each group holds
the first rule of its class, so a group touches the pair at hand exactly when it holds the
first rule of the pair's class (`TouchingHoldsTheFirst`), and no two do. At its end the groups
are the classes of two or more (`GroupsAreClasses`). `_attribute` then adds nothing: a group
that meets what matched is inside it (`AttributeNames`). With a likeness that is not
transitive, as that of numbers closer than the theorem admits may be, groups and classes are
not the same thing, and the theorem says nothing. `AskedArePlain` shows that the answers the
questions are about are plain.

*`Analysis_proofs`*, on verifiers: `ProbedVerifiersAreTrusted` states
`ProbedVerifiersCanBeTrusted` of any query a check can be shown and any verifier made of the
kinds of checks it names; the run goes through the queries the topics ask about. Three facts
carry it. The check of a rule sees of a pattern's query just whether that rule was ignored
(`ChecksSeeWhatIsIgnored`). A verifier asked with one rule speaks of that rule alone
(`OnlyTheRuleAsked`), so each probe says something of one check (`ProbesTell`,
`NearbyProbesTell`). And a check that passes its probes is the one on the tree or, but for the
fan-out, the regular expression (`ProbesLeaveTwoWays`); either of these sees the same of the
patterns' queries (`EitherWaySees`). `VerifiersAsked`, what the theorem assumes, says that rules
are rules and that only the fan-out's check can be the crude one.

*`Analysis_proofs`*, on dropped rules: `DroppedRulesAreTold` states `DroppedRulesAreToldApart` of
any warehouse that is `WellKept`: stocked, its products numbered, each order of a customer
there is and with a line. It brings `Patterns` and `Grading` together. A variant differs from
gold only in what it ignores, so two that leave the same rows and the same factors answer alike
(`FiltersDecide`), and a rule with nothing to bite on leaves the same (`UntouchedIsGold`; an
order of one line weighs the same joined or not). For the naming, answers are whole numbers, or
two of them to divide (`AnswersAreWhole`), or a ranking, strict because the product breaks its
ties (`ProductsAreRanked`). As rows they are plain (`ShapedArePlain`), and rankings that compare
equal without regard to order are the same ranking (`RankingsCompared`), so the exemption of
named ties excuses nothing here. Then an answer that is judged right is recorded as inert, and a
silent error is laid to the rule it came from, by the theorems on blaming rules; what is left
fails visibly, for having no rows, nothing but nulls, or another number of rows than gold
(`DroppedAreNamed`). `p01` has no rule to drop. The rows carry numbers no tolerance confuses,
as in the run: that money so close that the tolerance takes one for the other is told apart is
not claimed.

`Sorted` of `Lists` is `sorted` by what a stable sort is, and not the library's `SortSeq`,
which TLC evaluates and the prover cannot expand.

**Model-checked only.** Liveness (`EveryRowIsSettled`, `Terminates`,
`EveryInvocationEnds`, `EveryBuildIsServed`, `EveryPassEnds`) under fairness is out of the
prover's reach. Of `MCAnalysis`, `ClaimsFollowFromThePairs` and `OrderOfFilesDoesNotShow` are
only checked by TLC: `Dashboards` and `Comparisons` are put together with operators of the library the prover cannot expand
(`SortSeq`, `SelectSeq`, `@@`, powers of two).

## Where the code and its documentation differ

Each of the first five has a run that shows it.

1. *A rejected answer ends `done`* (`MCRejectedAnswersAreFailed`). `process_one`
   (`queue/worker.py:57`) fails a row only when the last attempt has an error or no rows.
   `demos/03_event_driven_loop/README.md:193` says such a row "lands in `failed`".
2. *A resumed cell may cover fewer items* (`MCReportsCoverTheProfile`). `load_cell`
   (`sweep/runner.py:336`) takes any complete file of the cell's name, and all profiles share
   names and the default directory: a smoke run, then a delivery run that finishes with
   smoke's cell over smoke's items. `sweep/orchestrator.py:138` says the limit is "applied in
   the runner so no caller can report a trimmed run as a full profile".
3. *A sidecar outlives its reference* (`MCSidecarBelongsToTheReference`). `build_reference`
   neither removes nor checks the sidecar on disk, and the repository ships one;
   `load_reference` attaches it to cells of the same key (`sweep/reference.py:630`). Line 562 says
   "a cloner who runs `build_reference` over their own sweep gets cells with no outcomes and
   no sidecar".
4. *A process that outlives an edit poisons the cache* (`MCEditsInvalidateTheCache`).
   `build_gold` builds from the questions its process imported and keys the cache with a hash
   of the files as they are now (`gold/build.py:316`); the worker does so for each row it claims.
   Line 214 says "Editing either invalidates the cache automatically".
5. *A reading says that a cell is worse than itself* (`MCReadingNamesTheWorseArm`).
   `PairedComparison.render` chooses by label (`paired.py:87`), and a cell and its stored twin
   have the same one (`sweep/diff.py:259`). `paired.py:121` calls the statement directional.

The rest were met while modelling. They are visible in the models, or were read in the
code, and have no run.

- *The second terminal is locked out.* The worker keeps its connection for its whole life
  and DuckDB admits one writing process per file, so `store.connect` in `enqueue.py` raises
  while the worker polls. `README.md:652` says "terminal 2 prints the row id".
- *A torn file is not re-run.* A kill while a cell file is written leaves one that
  `load_cell` (`sweep/runner.py:335`) cannot parse, and every later sweep raises there.
  `tests/test_sweep.py:104` says "A partial cell must be re-run, not counted".
- *Charts can fail mid-sweep.* `load_all` (`sweep/orchestrator.py:214`) parses files that
  are rewritten in place; `demos/04_hill_climbing_loop/charts.py:17` says "Safe to run
  while the sweep is still going".
- *A restart forgets what a dead cell cost.* `spent` starts at zero
  (`sweep/orchestrator.py:158`) and grows by finished cells only; line 170 compares the cap
  with "what is already spent", "so a breach is refused rather than discovered".
- `agent/loop.py:330` feeds the message of a failed API call back to the model, while the
  comment at line 266 says the only feedback is the database's; line 328 records a failed
  call without tokens, hence without cost, while `usage.py:110` says the total "counts
  failed and timed-out calls, which also bill".
- *Grading.* The docstring at `agent/classify.py:70` exempts order-sensitive items from the
  row check; line 77 does not. When the numeric ids of a gold ranking happen to be
  monotonic, they count as ranking columns and the order of tied rows is graded after all.
  Attribution to a naive variant has no leniency for ties, as grading has. The question
  `p02` lists one rule and its SQL filters by more, also in the composite variant, of
  which `gold/patterns.py:13` says "every rule ignored". The fan-out of `p09` is caught by no
  verifier, although `warehouse/semantic_model.yaml:2` says "Every rule below is enforced by a
  verifier".
- *Comparisons.* `verify/swap.py:213` says that "AT MOST {bound}" items "could differ", the
  bound being the number of the AST arm's rejections; the arms ask the model apart, and in
  `Passes` items that neither rejected differ. Outside git every revision is
  `UNKNOWN_REVISION`, and two of them compare as equal.
- *Triage.* A run that succeeds after a database error and no rejection is given the
  reason `clean_first_try`.
- *The trap.* The scores on screen can be of fewer cells than the grid beside them, or of
  the run before a rerun; a cell whose job died stays "pending".
- *Charts.* `sweep/charts.py:277` captions bars as "hollow while a cell is still running";
  pending bars are faint, and hatched hollow ones are the reference (249-256). In compare
  mode DIAL could badge a stored cell while its reading uses the live one.
- *Ledger and preflight.* `usage.reconcile` ("Asserted rather than eyeballed") has no
  caller but tests. Without a key, the preflight checks the default warehouse and not the
  configured one (`preflight.py:230`).

## Not modelled

- SQL's text, its parsing by `sqlglot`, and the numbers the warehouse is filled with: a
  query is its shape, a warehouse any small one of the shapes the generator makes.
- Confidence intervals (Wilson, clustered) and any other floating-point result: TLC has
  integers, and the claims that matter rest on the exact paired test, which is modelled.
- The timer of `run_sql`: an error any query may end with.
- Waiting (`Retry-After`, poll intervals): it changes no state.
- `LiveBudget` and `write_gold`/`read_gold`, which nothing but tests calls; the canned
  scenarios of `verify/failure_paths.py`, whose ends `VerifiedLoop` reaches; the cost estimate of a
  trap; the noise-floor readings; the texts people write on failures and pre-registrations.
- Gradio layout, fonts and sizes, `_queue_table`'s display, the launcher `sweep/detach.py`,
  the gate, API probes, settings and environment guard, LangSmith and Hugging Face uploads,
  README rendering, deployment mirror: I/O or layout without state of their own.

## What could follow

1. A composition of the queue with `AnswerContract` in place of the one-step run.
2. Proofs about comparisons: that a delta is the gap over the shared items, of any cells.
3. `LiveBudget` under concurrent visitors, should a view come to call it.
