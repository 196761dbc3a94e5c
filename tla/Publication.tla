----------------------------- MODULE Publication -----------------------------
(***************************************************************************)
(* What is published from a sweep directory: run fingerprints, stamped     *)
(* into every cell file (sweep/fingerprint.py), and the three frozen files *)
(* the charts cite (sweep/reference.py): the frontier measurements, the    *)
(* sidecar with their per-item outcomes, and the worker baseline.          *)
(*                                                                         *)
(* A freeze reads the directory twice, once to check it and once to copy   *)
(* it, while sweeps may write to it.  The frontier measurements are frozen *)
(* with no check.  Cells without a fingerprint were written before there   *)
(* were fingerprints.  A sweep over fewer items asks another gold set.     *)
(***************************************************************************)
EXTENDS Naturals, FiniteSets

CONSTANTS
    Frontier, Worker,   \* the cell keys of the two roles
    Items,
    OutcomesOf,         \* by cell: what the items of a report come to, all or not yet
    Setups,             \* what a sweep may run with: a checkout, a gold set
    Sweeps,             \* processes that may sweep the directory
    MaxRuns,            \* bound: how many run ids are minted
    NoEdits,            \* the edits of a clean working tree
    Unknown,            \* the revision outside a git checkout
    None,               \* no file, no fingerprint, no process
    Torn                \* a file emptied and not yet written

Keys == Frontier \cup Worker

Results == {"right", "wrong", "failed"}

ASSUME PublicationAssumption ==
    /\ Frontier \cap Worker = {} /\ IsFiniteSet(Items) /\ MaxRuns \in Nat
    /\ OutcomesOf \in [Keys -> SUBSET UNION {[some -> Results] : some \in SUBSET Items}]
    /\ Setups \subseteq [git : BOOLEAN, head : {s.head : s \in Setups},
                         edits : {s.edits : s \in Setups}, gold : {s.gold : s \in Setups}]
    /\ None # Torn

VARIABLES
    dir,            \* the cell files
    sweep,          \* by process: its stamp and the cell it is measuring
    minted,         \* the run ids handed out
    measurements,   \* measurements.json: the frontier cells' summaries
    sidecar,        \* frontier_paired.json: which items were right, by cell
    baseline,       \* worker_baseline.json
    freeze,         \* the freeze that has checked the directory and not yet copied it
    late,           \* history: the cells touched since that check
    overlapped,     \* history: two sweeps have run at once
    refrozen        \* history: measurements were frozen after the sidecar

history == <<late, overlapped, refrozen>>
published == <<measurements, sidecar, baseline>>
vars == <<dir, sweep, minted, published, freeze, history>>

\* code_revision: one name for every dirty tree of a commit, one for no git at all.
CodeRevision(s) ==
    IF s.git THEN [head |-> s.head, dirty |-> s.edits # NoEdits] ELSE Unknown

InputsOf(s) == [gold |-> s.gold, revision |-> CodeRevision(s)]

Stamps == [run : 1..MaxRuns, inputs : {InputsOf(s) : s \in Setups}]
Reports == UNION {OutcomesOf[k] : k \in Keys}
Cells == [stamp : Stamps \cup {None}, setup : Setups \cup {None}, outcomes : Reports]

IsCell(k) == dir[k] \notin {None, Torn}
Complete(k) == IsCell(k) /\ DOMAIN dir[k].outcomes = Items
Stamped(k) == IsCell(k) /\ dir[k].stamp # None

\* _freeze, paired_map: the items that ran, and whether each was right.
Paired(o) == [i \in {j \in DOMAIN o : o[j] # "failed"} |-> o[i] = "right"]

CountTrue(p) == Cardinality({i \in DOMAIN p : p[i]})

\* _RUN_IDENTITY_FIELDS; the rates are functions of the counts.
Summary(o) ==
    [n_done |-> Cardinality(DOMAIN o),
     ran |-> Cardinality(DOMAIN Paired(o)),
     correct |-> CountTrue(Paired(o))]

Reconciles(p, summary) ==
    Cardinality(DOMAIN p) = summary.ran /\ CountTrue(p) = summary.correct

Init ==
    /\ dir \in [Keys -> {None} \cup [stamp : {None}, setup : {None}, outcomes : Reports]]
    /\ \A k \in Keys : IsCell(k) => dir[k].outcomes \in OutcomesOf[k]
    /\ sweep = [s \in Sweeps |-> None] /\ minted = 0
    /\ measurements = None /\ sidecar = None /\ baseline = None
    /\ freeze = None /\ late = {} /\ overlapped = FALSE /\ refrozen = FALSE

-----------------------------------------------------------------------------
(* Sweeps.                                                                 *)

\* Mutant of Adoptable: any stamp of the directory will do.
Adoptable_AnyInputs(inputs) == {dir[k].stamp : k \in {l \in Keys : Stamped(l)}}

\* resolve_run_id: files without a stamp and files that do not parse are passed over.
Adoptable(inputs) ==
    {dir[k].stamp : k \in {l \in Keys : Stamped(l) /\ dir[l].stamp.inputs = inputs}}

\* The checkout, the prices and the gold set may have changed since the last sweep.
\* The code takes the first match in the order of file names: any, here.
StartSweep(s, setup) ==
    /\ sweep[s] = None
    /\ \E stamp \in Stamps :
        /\ \/ stamp \in Adoptable(InputsOf(setup)) /\ UNCHANGED minted
           \/ /\ Adoptable(InputsOf(setup)) = {} /\ minted < MaxRuns
              /\ minted' = minted + 1
              /\ stamp = [run |-> minted', inputs |-> InputsOf(setup)]
        /\ sweep' = [sweep EXCEPT ![s] = [stamp |-> stamp, setup |-> setup, cell |-> None]]
    /\ overlapped' = (overlapped \/ \E t \in Sweeps : sweep[t] # None)
    /\ UNCHANGED <<dir, published, freeze, late, refrozen>>

\* A file changes; a freeze that has already checked it does not look again.
Put(k, content) ==
    /\ dir' = [dir EXCEPT ![k] = content]
    /\ late' = IF freeze = None THEN late ELSE late \cup {k}

TakeCell(s, k) ==
    /\ sweep[s] # None /\ sweep[s].cell = None
    /\ dir[k] # Torn /\ ~Complete(k)
    /\ sweep' = [sweep EXCEPT ![s].cell = k]
    /\ UNCHANGED <<dir, minted, published, freeze, history>>

WriteCell(s, o) ==
    /\ sweep[s] # None /\ sweep[s].cell # None
    /\ o \in OutcomesOf[sweep[s].cell]
    /\ Put(sweep[s].cell, [stamp |-> sweep[s].stamp, setup |-> sweep[s].setup, outcomes |-> o])
    /\ sweep' = IF DOMAIN o = Items THEN [sweep EXCEPT ![s].cell = None] ELSE sweep
    /\ UNCHANGED <<minted, published, freeze, overlapped, refrozen>>

\* Killed between emptying a cell file and filling it.
TearCell(s) ==
    /\ sweep[s] # None /\ sweep[s].cell # None
    /\ Put(sweep[s].cell, Torn)
    /\ sweep' = [sweep EXCEPT ![s] = None]
    /\ UNCHANGED <<minted, published, freeze, overlapped, refrozen>>

\* Finished, or killed anywhere else.
StopSweep(s) ==
    /\ sweep[s] # None
    /\ sweep' = [sweep EXCEPT ![s] = None]
    /\ UNCHANGED <<dir, minted, published, freeze, history>>

\* A cell file moved away by hand, to have it measured again.
Remove(k) ==
    /\ dir[k] # None
    /\ Put(k, None)
    /\ UNCHANGED <<sweep, minted, published, freeze, overlapped, refrozen>>

-----------------------------------------------------------------------------
(* Freezing.                                                               *)

\* build_reference: whatever complete frontier cells there are, unchecked.
BuildReference ==
    /\ \A k \in Frontier : dir[k] # Torn
    /\ measurements' = [k \in {l \in Frontier : Complete(l)} |-> Summary(dir[k].outcomes)]
    /\ refrozen' = TRUE
    /\ UNCHANGED <<dir, sweep, minted, sidecar, baseline, freeze, late, overlapped>>

Seen == DOMAIN measurements \cup {k \in Worker : Complete(k)}

\* Mutant of OneFingerprint: only the cells that were compared with the reference.
OneFingerprint_Frontier ==
    \A k, l \in DOMAIN measurements : dir[k].stamp = dir[l].stamp

\* _one_fingerprint: all the same, or none at all.
OneFingerprint == \A k, l \in Seen : dir[k].stamp = dir[l].stamp

Unverifiable == {k \in Seen \ DOMAIN measurements : ~Stamped(k)}

IsTheReference ==
    \A k \in DOMAIN measurements : IsCell(k) /\ Summary(dir[k].outcomes) = measurements[k]

\* assert_same_run.  A refusal changes nothing.
AssertSameRun(what) ==
    /\ freeze = None /\ measurements # None
    /\ IsTheReference
    /\ \A k \in Worker : dir[k] # Torn
    /\ OneFingerprint
    /\ freeze' =
        [what |-> what,
         fingerprint |-> IF \E k \in Seen : Stamped(k)
                         THEN dir[CHOOSE k \in Seen : Stamped(k)].stamp ELSE None,
         unverifiable |-> Unverifiable]
    /\ late' = {}
    /\ UNCHANGED <<dir, sweep, minted, published, overlapped, refrozen>>

\* build_worker_baseline, after its check: the directory is read again.  Of a frozen
\* cell the model keeps the stamp.
BuildWorkerBaseline ==
    /\ freeze # None /\ freeze.what = "workers"
    /\ \A k \in Worker : dir[k] # Torn
    /\ baseline' =
        [fingerprint |-> freeze.fingerprint, unverifiable |-> freeze.unverifiable,
         stamps |-> [k \in {l \in Worker : Complete(l)} |-> dir[k].stamp],
         late |-> late \cap Worker]
    /\ freeze' = None /\ late' = {}
    /\ UNCHANGED <<dir, sweep, minted, measurements, sidecar, overlapped, refrozen>>

\* Mutant of BuildFrontierPaired: the check is taken to be enough.
BuildFrontierPaired_Unreconciled ==
    /\ freeze # None /\ freeze.what = "frontier"
    /\ \A k \in DOMAIN measurements : IsCell(k)
    /\ sidecar' = [k \in DOMAIN measurements |-> Paired(dir[k].outcomes)]
    /\ freeze' = None /\ refrozen' = FALSE /\ late' = {}
    /\ UNCHANGED <<dir, sweep, minted, measurements, baseline, overlapped>>

BuildFrontierPaired ==
    /\ freeze # None /\ freeze.what = "frontier"
    /\ \A k \in DOMAIN measurements :
        IsCell(k) /\ Reconciles(Paired(dir[k].outcomes), measurements[k])
    /\ sidecar' = [k \in DOMAIN measurements |-> Paired(dir[k].outcomes)]
    /\ freeze' = None /\ refrozen' = FALSE /\ late' = {}
    /\ UNCHANGED <<dir, sweep, minted, measurements, baseline, overlapped>>

\* PairedDoesNotReconcile, a file that does not parse, or the process killed.
FreezeFails ==
    /\ freeze # None
    /\ freeze' = None /\ late' = {}
    /\ UNCHANGED <<dir, sweep, minted, published, overlapped, refrozen>>

Next ==
    \/ \E s \in Sweeps :
        \/ \E setup \in Setups : StartSweep(s, setup)
        \/ TearCell(s) \/ StopSweep(s)
        \/ \E k \in Keys : TakeCell(s, k)
        \/ \E o \in Reports : WriteCell(s, o)
    \/ \E k \in Keys : Remove(k)
    \/ BuildReference
    \/ \E what \in {"workers", "frontier"} : AssertSameRun(what)
    \/ BuildWorkerBaseline \/ BuildFrontierPaired \/ FreezeFails

Spec == Init /\ [][Next]_vars

-----------------------------------------------------------------------------
(* Loading.                                                                *)

Modes == {"hide", "fill", "compare", "auto"}

ResolveMode(mode, live) ==
    IF mode # "auto" THEN mode ELSE IF live # {} THEN "compare" ELSE "hide"

Stored ==
    (IF measurements = None THEN {} ELSE DOMAIN measurements)
    \cup (IF baseline = None THEN {} ELSE DOMAIN baseline.stamps)

\* load_reference: the stored cells shown beside the live ones.
Loaded(mode, live) ==
    LET resolved == ResolveMode(mode, live)
    IN  IF resolved = "hide" THEN {}
        ELSE IF resolved = "fill" THEN Stored \ live ELSE Stored

\* _restore_paired: a frontier cell was stripped and gets what the sidecar has for it.
Restored(k) == IF sidecar # None /\ k \in DOMAIN sidecar THEN sidecar[k] ELSE None

-----------------------------------------------------------------------------
(* Properties.                                                             *)

Summaries == [n_done : Nat, ran : Nat, correct : Nat]

\* Every file holds what its writer can have written.
TypeOK ==
    /\ minted \in 0..MaxRuns
    /\ dir \in [Keys -> Cells \cup {None, Torn}]
    /\ sweep \in [Sweeps -> [stamp : Stamps, setup : Setups, cell : Keys \cup {None}] \cup {None}]
    /\ measurements = None
        \/ \E some \in SUBSET Frontier : measurements \in [some -> Summaries]
    /\ sidecar = None
        \/ \E some \in SUBSET Frontier :
            sidecar \in [some -> UNION {[ran -> BOOLEAN] : ran \in SUBSET Items}]
    /\ baseline = None
        \/ /\ baseline.fingerprint \in Stamps \cup {None}
           /\ baseline.unverifiable \subseteq Worker /\ baseline.late \subseteq Worker
           /\ \E some \in SUBSET Worker : baseline.stamps \in [some -> Stamps \cup {None}]
    /\ freeze = None
        \/ freeze \in [what : {"workers", "frontier"}, fingerprint : Stamps \cup {None},
                       unverifiable : SUBSET Worker]
    /\ late \subseteq Keys /\ overlapped \in BOOLEAN /\ refrozen \in BOOLEAN

\* The stamps in use, each with the setup its sweep ran with.
InUse ==
    {<<dir[k].stamp, dir[k].setup>> : k \in {l \in Keys : Stamped(l)}}
    \cup {<<sweep[s].stamp, sweep[s].setup>> : s \in {t \in Sweeps : sweep[t] # None}}

\* fingerprint.py, "Anything else and the invocation keeps its own id": whatever is
\* edited, killed and resumed, a run id names one set of inputs, and cells are stamped
\* with the inputs they were measured with.
RunIdsNameOneSetup ==
    \A u, v \in InUse :
        /\ u[1].run = v[1].run => u[1].inputs = v[1].inputs
        /\ u[1].inputs = InputsOf(u[2])

\* fingerprint.py, "RUN ID SURVIVES A RESUME": as long as sweeps do not overlap, cells
\* measured with the same inputs carry one run id, so a resumed run can be frozen.
ResumedRunsStayFreezable ==
    overlapped \/ \A u, v \in InUse : u[1].inputs = v[1].inputs => u[1] = v[1]

\* Stamps tell setups apart and nothing else: the same inputs resumed keep their run id,
\* other inputs never get it.
StampsNameTheSetup == RunIdsNameOneSetup /\ ResumedRunsStayFreezable

\* reference.py, RunIdentity.basis: every worker cell of the baseline carries the
\* fingerprint the baseline claims, or is listed as unverifiable, unless it changed
\* between the check and the copy.
CheckedCellsCarryTheFingerprint ==
    baseline # None => \A k \in DOMAIN baseline.stamps \ baseline.late :
        IF baseline.stamps[k] # None
        THEN baseline.stamps[k] = baseline.fingerprint
        ELSE baseline.fingerprint = None /\ k \in baseline.unverifiable

Live == {k \in Keys : Complete(k)}

Agrees(k) == Restored(k) = None \/ Reconciles(Restored(k), measurements[k])

\* reference.py, PairedDoesNotReconcile: a frontier bar and the paired test beside it
\* count the same outcomes, even if cells changed while the sidecar was frozen, as long
\* as the bars are not frozen again without it.
PairedTestsAgreeWithTheBars ==
    refrozen \/ \A mode \in Modes : \A k \in Loaded(mode, Live) \cap Frontier : Agrees(k)

\* reference.py, frontier_paired: "a cloner who runs `build_reference` over their own
\* sweep gets cells with no outcomes and no sidecar": never another run's outcomes.
SidecarBelongsToTheReference ==
    \A mode \in Modes : \A k \in Loaded(mode, Live) \cap Frontier : Agrees(k)

=============================================================================
