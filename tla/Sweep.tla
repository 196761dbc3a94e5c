-------------------------------- MODULE Sweep --------------------------------
(***************************************************************************)
(* Level 4: a sweep over a grid of cells (sweep/orchestrator.py), each     *)
(* cell a pool of Level 1 or Level 2 runs (sweep/runner.py, run_cell), and *)
(* the cell files that let a later invocation resume.                      *)
(*                                                                         *)
(* A cell file is written with Path.write_text, which empties the file and *)
(* then fills it: two steps, and a process may be killed between any two.  *)
(* The runs of a cell end in any order; a run is one step with a cost, or  *)
(* an exception.  One sweep at a time uses the directory; load_all, which  *)
(* the charts call, may read it at any moment.                             *)
(***************************************************************************)
EXTENDS Naturals, Sequences, FiniteSets, Functions

CONSTANTS
    Cells,
    Items,          \* the gold set
    Profiles,       \* a profile together with its --limit and --cap-usd
    PlanOf,         \* by profile: build_cells, the cells in order
    ItemsOf,        \* by profile: apply_item_limit, the items of each cell
    CapOf,          \* by profile: the spend cap
    Projection,     \* by cell: what one item is projected to cost, with HEADROOM
    MaxItemCost,    \* the most the run of one item costs
    MaxDeaths,      \* bound: how many invocations may die in the middle of a cell
    NoFile,
    Torn            \* a file emptied and not yet written

ASSUME SweepAssumption ==
    /\ ItemsOf \in [Profiles -> SUBSET Items]
    /\ PlanOf \in [Profiles -> Seq(Cells)]
    /\ CapOf \in [Profiles -> Nat] /\ Projection \in [Cells -> Nat]
    /\ MaxItemCost \in Nat /\ MaxDeaths \in Nat
    /\ IsFiniteSet(Items) /\ IsFiniteSet(Cells)
    \* Cell keys are unique, and a cell file is not mistaken for one without content.
    /\ \A p \in Profiles : \A k, l \in DOMAIN PlanOf[p] :
        PlanOf[p][k] = PlanOf[p][l] => k = l
    /\ NoFile # Torn
    /\ {NoFile, Torn} \cap [items : SUBSET Items, cost : Nat, complete : BOOLEAN] = {}

VARIABLES
    disk,           \* the cell files
    pc,             \* where the sweep is, "off" when no process runs
    profile, fresh, \* the arguments of the latest invocation
    index,          \* the place in the plan
    spent,          \* run_sweep's total
    skipped,        \* the cells it resumed from disk
    pending,        \* run_cell: the items whose run has not ended
    ready,          \* run_cell: the runs that ended and were not collected yet
    rows,           \* run_cell: what was collected, the items and their total cost
    outcome,        \* how the latest invocation ended
    charts,         \* what the latest rendering of the charts came to
    billed,         \* history: the cost of every run that ended
    deaths          \* history: the invocations that died in the middle of a cell

cell == <<pending, ready, rows>>
vars == <<disk, pc, profile, fresh, index, spent, skipped, cell, outcome, charts, billed, deaths>>

Plan == PlanOf[profile]
Asked == ItemsOf[profile]
Current == Plan[index]

Measurements == [items : SUBSET Items, cost : Nat]
CellFiles == [items : SUBSET Items, cost : Nat, complete : BOOLEAN]

Written(c) == disk[c] \notin {NoFile, Torn}
Complete(c) == Written(c) /\ disk[c].complete

InCell == {"collecting", "writing", "finalising", "unwinding"}

NoRows == [items |-> {}, cost |-> 0]

Init ==
    /\ disk = [c \in Cells |-> NoFile]
    /\ pc = "off" /\ profile \in Profiles /\ fresh = FALSE
    /\ index = 1 /\ spent = 0 /\ skipped = {}
    /\ pending = {} /\ ready = {} /\ rows = NoRows
    /\ outcome = "none" /\ charts = "none"
    /\ billed = 0 /\ deaths = 0

-----------------------------------------------------------------------------
(* One invocation of run_sweep.                                            *)

\* require_fresh: files that cannot be parsed are passed over.
Stale == \E c \in Cells : Complete(c)

End(how) == pc' = "off" /\ outcome' = how

\* Mutant of Begin: the plan counted from zero.
Begin_ZeroBased(p, f) ==
    /\ pc = "off"
    /\ profile' = p /\ fresh' = f
    /\ index' = 0 /\ spent' = 0 /\ skipped' = {}
    /\ pending' = {} /\ ready' = {} /\ rows' = NoRows
    /\ IF f /\ Stale THEN End("refused") ELSE pc' = "next" /\ outcome' = "none"
    /\ UNCHANGED <<disk, charts, billed, deaths>>

Begin(p, f) ==
    /\ pc = "off"
    /\ profile' = p /\ fresh' = f
    /\ index' = 1 /\ spent' = 0 /\ skipped' = {}
    /\ pending' = {} /\ ready' = {} /\ rows' = NoRows
    /\ IF f /\ Stale THEN End("refused") ELSE pc' = "next" /\ outcome' = "none"
    /\ UNCHANGED <<disk, charts, billed, deaths>>

\* Mutant of Resume: a resumed cell is free.
Resume_Free ==
    /\ pc = "next" /\ index <= Len(Plan)
    /\ Complete(Current)
    /\ skipped' = skipped \cup {Current}
    /\ index' = index + 1
    /\ UNCHANGED <<disk, pc, profile, fresh, spent, cell, outcome, charts, billed, deaths>>

\* load_cell finds a complete file, whatever items it was measured over.
Resume ==
    /\ pc = "next" /\ index <= Len(Plan)
    /\ Complete(Current)
    /\ spent' = spent + disk[Current].cost
    /\ skipped' = skipped \cup {Current}
    /\ index' = index + 1
    /\ UNCHANGED <<disk, pc, profile, fresh, cell, outcome, charts, billed, deaths>>

\* load_cell parses the file unguarded.
LoadFails ==
    /\ pc = "next" /\ index <= Len(Plan)
    /\ disk[Current] = Torn
    /\ End("raised")
    /\ UNCHANGED <<disk, profile, fresh, index, spent, skipped, cell, charts, billed, deaths>>

\* project_remaining over cells[index:], finished or not.
Remaining ==
    SumFunctionOnSet([k \in DOMAIN Plan |-> Cardinality(Asked) * Projection[Plan[k]]],
                     index..Len(Plan))

Fits == spent + Remaining <= CapOf[profile]

\* Mutant of NotFinished: a cell is measured whatever is on disk.
NotFinished_Never == TRUE

NotFinished == ~Complete(Current)

Abort ==
    /\ pc = "next" /\ index <= Len(Plan)
    /\ disk[Current] # Torn /\ NotFinished
    /\ ~Fits
    /\ End("aborted")
    /\ UNCHANGED <<disk, profile, fresh, index, spent, skipped, cell, charts, billed, deaths>>

\* run_cell submits every item before it collects any; the file is left alone.
StartCell ==
    /\ pc = "next" /\ index <= Len(Plan)
    /\ disk[Current] # Torn /\ NotFinished
    /\ Fits
    /\ pending' = Asked /\ ready' = {} /\ rows' = NoRows
    /\ pc' = "collecting"
    /\ UNCHANGED <<disk, profile, fresh, index, spent, skipped, outcome, charts, billed, deaths>>

Finish ==
    /\ pc = "next" /\ index > Len(Plan)
    /\ End("finished")
    /\ UNCHANGED <<disk, profile, fresh, index, spent, skipped, cell, charts, billed, deaths>>

-----------------------------------------------------------------------------
(* One cell: a pool of runs, and a file written as they land.              *)

\* A run ends in a pool thread, also while the main thread is on its way out.
RunEnds(i, cost) ==
    /\ pc \in InCell
    /\ i \in pending
    /\ pending' = pending \ {i}
    /\ ready' = ready \cup {[item |-> i, cost |-> cost, raised |-> FALSE]}
    /\ billed' = billed + cost
    /\ UNCHANGED <<disk, pc, profile, fresh, index, spent, skipped, rows, outcome, charts, deaths>>

RunRaises(i) ==
    /\ pc \in InCell
    /\ deaths < MaxDeaths
    /\ i \in pending
    /\ pending' = pending \ {i}
    /\ ready' = ready \cup {[item |-> i, cost |-> 0, raised |-> TRUE]}
    /\ UNCHANGED <<disk, pc, profile, fresh, index, spent, skipped, rows, outcome, charts, billed, deaths>>

\* as_completed yields a run, in any order; write_text empties the file first.
Collect(r) ==
    /\ pc = "collecting"
    /\ r \in ready /\ ~r.raised
    /\ ready' = ready \ {r}
    /\ rows' = [items |-> rows.items \cup {r.item}, cost |-> rows.cost + r.cost]
    /\ disk' = [disk EXCEPT ![Current] = Torn]
    /\ pc' = "writing"
    /\ UNCHANGED <<profile, fresh, index, spent, skipped, pending, outcome, charts, billed, deaths>>

Report(complete) == [items |-> rows.items, cost |-> rows.cost, complete |-> complete]

WritePartial ==
    /\ pc = "writing"
    /\ disk' = [disk EXCEPT ![Current] = Report(FALSE)]
    /\ pc' = "collecting"
    /\ UNCHANGED <<profile, fresh, index, spent, skipped, cell, outcome, charts, billed, deaths>>

\* Mutant of CollectRaises: the item is skipped and the cell goes on.
CollectRaises_Skips(r) ==
    /\ pc = "collecting"
    /\ r \in ready /\ r.raised
    /\ ready' = ready \ {r}
    /\ UNCHANGED <<disk, pc, profile, fresh, index, spent, skipped, pending, rows, outcome,
                   charts, billed, deaths>>

\* future.result() raises: leaving the pool waits for the runs in flight.
CollectRaises(r) ==
    /\ pc = "collecting"
    /\ r \in ready /\ r.raised
    /\ pc' = "unwinding"
    /\ UNCHANGED <<disk, profile, fresh, index, spent, skipped, cell, outcome, charts, billed, deaths>>

\* Ctrl-C in the main thread: the pool is left, and waited for, in the same way.
Interrupt ==
    /\ pc \in {"collecting", "writing"}
    /\ deaths < MaxDeaths
    /\ pc' = "unwinding"
    /\ UNCHANGED <<disk, profile, fresh, index, spent, skipped, cell, outcome, charts, billed, deaths>>

Unwound ==
    /\ pc = "unwinding" /\ pending = {}
    /\ End("raised")
    /\ deaths' = deaths + 1
    /\ UNCHANGED <<disk, profile, fresh, index, spent, skipped, cell, charts, billed>>

\* Mutant of AllCollected: waits for the whole gold set, the limit forgotten.
AllCollected_WholeGold ==
    /\ pc = "collecting" /\ rows.items = Items
    /\ disk' = [disk EXCEPT ![Current] = Torn]
    /\ pc' = "finalising"
    /\ UNCHANGED <<profile, fresh, index, spent, skipped, cell, outcome, charts, billed, deaths>>

AllCollected ==
    /\ pc = "collecting" /\ pending = {} /\ ready = {}
    /\ disk' = [disk EXCEPT ![Current] = Torn]
    /\ pc' = "finalising"
    /\ UNCHANGED <<profile, fresh, index, spent, skipped, cell, outcome, charts, billed, deaths>>

CellDone ==
    /\ pc = "finalising"
    /\ disk' = [disk EXCEPT ![Current] = Report(TRUE)]
    /\ spent' = spent + rows.cost
    /\ index' = index + 1
    /\ pc' = "next"
    /\ UNCHANGED <<profile, fresh, skipped, cell, outcome, charts, billed, deaths>>

-----------------------------------------------------------------------------
\* kill, a closed lid, a second Ctrl-C: nothing in the process survives.
Kill ==
    /\ pc # "off"
    /\ pc \in InCell => deaths < MaxDeaths
    /\ End("killed")
    /\ deaths' = IF pc \in InCell THEN deaths + 1 ELSE deaths
    /\ UNCHANGED <<disk, profile, fresh, index, spent, skipped, cell, charts, billed>>

\* charts.py: load_all parses every file there is.
RenderCharts ==
    /\ charts' = IF \E c \in Cells : disk[c] = Torn THEN "raised" ELSE "rendered"
    /\ UNCHANGED <<disk, pc, profile, fresh, index, spent, skipped, cell, outcome, billed, deaths>>

SweepStep ==
    \/ Resume \/ LoadFails \/ Abort \/ StartCell \/ Finish
    \/ WritePartial \/ Unwound \/ AllCollected \/ CellDone
    \/ \E r \in ready : Collect(r) \/ CollectRaises(r)

PoolStep == \E i \in Items, cost \in 0..MaxItemCost : RunEnds(i, cost)

Next ==
    \/ SweepStep \/ PoolStep \/ Interrupt \/ Kill \/ RenderCharts
    \/ \E i \in Items : RunRaises(i)
    \/ \E p \in Profiles, f \in BOOLEAN : Begin(p, f)

Spec == Init /\ [][Next]_vars

\* A process that is up goes on, and the runs of the pool end; nobody has to
\* start a sweep, to kill one, or to look at the charts.
FairSpec == Spec /\ WF_vars(SweepStep) /\ WF_vars(PoolStep)

-----------------------------------------------------------------------------
TypeOK ==
    /\ disk \in [Cells -> CellFiles \cup {NoFile, Torn}]
    /\ pc \in {"off", "next"} \cup InCell
    /\ profile \in Profiles /\ fresh \in BOOLEAN
    /\ index \in Nat \ {0} /\ spent \in Nat /\ skipped \subseteq Cells
    /\ pending \subseteq Items
    /\ ready \subseteq [item : Items, cost : 0..MaxItemCost, raised : BOOLEAN]
    /\ rows \in Measurements
    /\ outcome \in {"none", "finished", "aborted", "refused", "raised", "killed"}
    /\ charts \in {"none", "rendered", "raised"}
    /\ billed \in Nat /\ deaths \in Nat

\* What run_sweep adds up, over resumed and measured cells, is what the finished
\* files of the plan so far say, whichever invocations wrote them.
SpentIsWhatIsStored ==
    /\ \A k \in 1..(index - 1) : Complete(Plan[k])
    /\ spent = SumFunctionOnSet([k \in 1..(index - 1) |-> disk[Plan[k]].cost], 1..(index - 1))

\* The cap holds through the cell that is running, up to what its items cost
\* beyond their projection: the check before a cell is enough, over any resumes.
Excess == IF MaxItemCost > Projection[Current]
            THEN Cardinality(Asked) * (MaxItemCost - Projection[Current]) ELSE 0

SpendFitsTheCap ==
    pc \in InCell => spent + rows.cost <= CapOf[profile] + Excess

\* What the cap is checked against is the whole of what is stored, and it holds: a resume
\* neither forgets a finished cell nor pays for it twice.
SpendingIsAccountedFor == SpentIsWhatIsStored /\ SpendFitsTheCap

StoredCost ==
    SumFunctionOnSet([c \in Cells |-> IF Complete(c) THEN disk[c].cost ELSE 0], Cells)

\* "A dropped venue connection costs the cell in flight, never the cells behind
\* it": whatever was billed is in a finished file, but for one cell per death.
LossIsOneCellPerDeath ==
    LET cells == deaths + (IF pc \in InCell THEN 1 ELSE 0)
    IN  billed <= StoredCost + cells * Cardinality(Items) * MaxItemCost

\* "--fresh means the sweep must build in front of the room": nothing of such a
\* sweep is resumed, although the check and the loads are far apart.
FreshResumesNothing == fresh => skipped = {}

\* Every invocation ends, whether its runs answer or raise, in whatever order,
\* and also when it is on its way out with runs still in flight.
EveryInvocationEnds == pc # "off" ~> pc = "off"

\* A finished cell is measured once, over one whole item set, and no kill,
\* resume or exception touches it again.
Measured ==
    [c \in Cells |-> IF Complete(c) THEN [items |-> disk[c].items, cost |-> disk[c].cost]
                                   ELSE NoFile]

Promise == INSTANCE MeasuredOnce WITH
    measured <- Measured, Unmeasured <- NoFile, ItemSets <- {ItemsOf[p] : p \in Profiles}

ImplementsMeasuredOnce == Promise!Spec

-----------------------------------------------------------------------------
(* Statements of the documentation that the code does not keep.            *)

\* sweep/orchestrator.py: the limit is "applied in the runner so no caller can
\* report a trimmed run as a full profile."  So a profile that finishes has every one
\* of its cells over all the items it asked for, at least.
ReportsCoverTheProfile ==
    outcome = "finished" => \A k \in DOMAIN Plan : Asked \subseteq disk[Plan[k]].items

=============================================================================
