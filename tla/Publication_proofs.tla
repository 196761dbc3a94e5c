------------------------- MODULE Publication_proofs -------------------------
(***************************************************************************)
(* Proofs about Publication, for any cells, reports, setups, processes and *)
(* number of runs.                                                         *)
(*                                                                         *)
(* Three arguments, each about its own variables.  Run ids in use have     *)
(* been minted, so a new one is nobody's.  Once a freeze has checked the   *)
(* directory, the cells that have not changed since are still as it found  *)
(* them.  And the sidecar is compared with the measurements as it is       *)
(* written, so only new measurements can make them differ.                 *)
(***************************************************************************)
EXTENDS Publication, TLAPS, FiniteSetTheorems

RunsAreMinted == \A u \in InUse : u[1].run \in 1..minted

\* What a freeze promises of a stamp it found on a worker cell.
Covered(k, stamp, f) ==
    IF stamp # None THEN stamp = f.fingerprint
    ELSE f.fingerprint = None /\ k \in f.unverifiable

CheckStillHolds ==
    freeze # None =>
        \A k \in Worker \ late : Complete(k) => Covered(k, dir[k].stamp, freeze)

SidecarReconciles ==
    ~refrozen /\ sidecar # None =>
        \A k \in DOMAIN sidecar : Reconciles(sidecar[k], measurements[k])

MeasuredBeforeFrozen ==
    freeze # None => \E some \in SUBSET Frontier : measurements \in [some -> Summaries]

IInv ==
    /\ TypeOK
    /\ RunsAreMinted
    /\ StampsNameTheSetup
    /\ CheckStillHolds
    /\ CheckedCellsCarryTheFingerprint
    /\ SidecarReconciles
    /\ MeasuredBeforeFrozen

-----------------------------------------------------------------------------
(* Reports, cells and stamps.                                              *)

LEMMA ReportsAreOfItems ==
    ASSUME NEW o \in Reports
    PROVE  /\ DOMAIN o \subseteq Items
           /\ Paired(o) \in UNION {[ran -> BOOLEAN] : ran \in SUBSET Items}
  <1>1. PICK some \in SUBSET Items : o \in [some -> Results]
    <2>1. PICK k \in Keys : o \in OutcomesOf[k]
      BY DEF Reports
    <2>2. OutcomesOf[k] \subseteq UNION {[some -> Results] : some \in SUBSET Items}
      BY PublicationAssumption
    <2>. QED
      BY <2>1, <2>2
  <1>2. PICK ran \in SUBSET Items : ran = {j \in DOMAIN o : o[j] # "failed"}
    BY <1>1
  <1>3. Paired(o) \in [ran -> BOOLEAN]
    BY <1>2 DEF Paired
  <1>. QED
    BY <1>1, <1>3

LEMMA SummariesCount ==
    ASSUME NEW o \in Reports
    PROVE  Summary(o) \in Summaries
  <1>1. DOMAIN o \subseteq Items /\ DOMAIN Paired(o) \subseteq Items
    BY ReportsAreOfItems
  <1>2. {i \in DOMAIN Paired(o) : Paired(o)[i]} \subseteq Items
    BY <1>1
  <1>3. \A some : some \subseteq Items => Cardinality(some) \in Nat
    BY PublicationAssumption, FS_Subset, FS_CardinalityType
  <1>. QED
    BY <1>1, <1>2, <1>3 DEF Summary, Summaries, CountTrue

LEMMA CellFields ==
    ASSUME TypeOK, NEW k \in Keys, IsCell(k)
    PROVE  /\ dir[k] \in Cells
           /\ dir[k].stamp \in Stamps \cup {None}
           /\ dir[k].outcomes \in Reports
  <1>1. dir[k] \in Cells
    BY DEF TypeOK, IsCell
  <1>. QED
    BY <1>1 DEF Cells

LEMMA SweepFields ==
    ASSUME TypeOK, NEW s \in Sweeps, sweep[s] # None
    PROVE  /\ sweep[s] \in [stamp : Stamps, setup : Setups, cell : Keys \cup {None}]
           /\ sweep[s].stamp \in Stamps /\ sweep[s].setup \in Setups
           /\ sweep[s].cell \in Keys \cup {None}
  <1>1. sweep[s] \in [stamp : Stamps, setup : Setups, cell : Keys \cup {None}]
    BY DEF TypeOK
  <1>. QED
    BY <1>1

\* Nothing new in use, nothing forgotten: the stamps keep their names.
LEMMA FewerInUse ==
    ASSUME RunsAreMinted, StampsNameTheSetup, InUse' \subseteq InUse,
           minted' = minted, overlapped' = overlapped
    PROVE  RunsAreMinted' /\ StampsNameTheSetup'
  BY DEF RunsAreMinted, StampsNameTheSetup, RunIdsNameOneSetup, ResumedRunsStayFreezable,
         InputsOf, CodeRevision

\* A cell that changes after the check is late.
LEMMA PutKeepsTheCheck ==
    ASSUME TypeOK, CheckStillHolds, NEW k \in Keys, NEW content, Put(k, content),
           freeze' = freeze
    PROVE  CheckStillHolds'
  <1>1. /\ dir' = [dir EXCEPT ![k] = content]
        /\ freeze # None => late' = late \cup {k}
    BY DEF Put
  <1>2. \A l \in Keys \ {k} : dir'[l] = dir[l]
    BY <1>1 DEF TypeOK
  <1>3. \A l \in Keys \ {k} : Complete(l)' <=> Complete(l)
    BY <1>2 DEF Complete, IsCell
  <1>4. ASSUME freeze # None, NEW l \in Worker \ late', Complete(l)'
        PROVE  Covered(l, dir[l].stamp, freeze)'
    <2>1. l \in Worker \ late /\ l \in Keys \ {k}
      BY <1>1, <1>4 DEF Keys
    <2>2. Covered(l, dir[l].stamp, freeze)
      BY <1>3, <1>4, <2>1 DEF CheckStillHolds
    <2>. QED
      BY <1>2, <2>1, <2>2 DEF Covered
  <1>. QED
    BY <1>4 DEF CheckStillHolds

-----------------------------------------------------------------------------
(* Every action keeps the invariant.                                       *)

LEMMA InitIInv ==
    ASSUME Init
    PROVE  IInv
  <1>1. TypeOK
    <2>1. dir \in [Keys -> Cells \cup {None, Torn}]
      BY DEF Init, Cells
    <2>2. minted \in 0..MaxRuns
      BY PublicationAssumption DEF Init
    <2>3. sweep \in [Sweeps -> [stamp : Stamps, setup : Setups, cell : Keys \cup {None}]
                               \cup {None}]
      BY DEF Init
    <2>. QED
      BY <2>1, <2>2, <2>3 DEF Init, TypeOK
  <1>2. InUse = {}
    <2>1. \A k \in Keys : ~Stamped(k)
      BY DEF Init, Stamped, IsCell
    <2>2. \A s \in Sweeps : sweep[s] = None
      BY DEF Init
    <2>. QED
      BY <2>1, <2>2 DEF InUse
  <1>. QED
    BY <1>1, <1>2 DEF Init, IInv, RunsAreMinted, StampsNameTheSetup, RunIdsNameOneSetup,
       ResumedRunsStayFreezable, CheckStillHolds, CheckedCellsCarryTheFingerprint,
       SidecarReconciles, MeasuredBeforeFrozen

\* A stamp is adopted with the inputs it has, or minted with a run id that nobody uses.
LEMMA StartSweepKeepsIInv ==
    ASSUME IInv, NEW s \in Sweeps, NEW setup \in Setups, StartSweep(s, setup)
    PROVE  IInv'
  <1>1. PICK stamp \in Stamps :
          /\ \/ stamp \in Adoptable(InputsOf(setup)) /\ UNCHANGED minted
             \/ /\ Adoptable(InputsOf(setup)) = {} /\ minted < MaxRuns
                /\ minted' = minted + 1
                /\ stamp = [run |-> minted', inputs |-> InputsOf(setup)]
          /\ sweep' = [sweep EXCEPT ![s] = [stamp |-> stamp, setup |-> setup, cell |-> None]]
    BY DEF StartSweep
  <1>2. /\ UNCHANGED <<dir, published, freeze, late, refrozen>>
        /\ sweep[s] = None
        /\ overlapped' = (overlapped \/ \E t \in Sweeps : sweep[t] # None)
    BY DEF StartSweep
  <1>3. minted \in 0..MaxRuns /\ MaxRuns \in Nat
    BY PublicationAssumption DEF IInv, TypeOK
  <1>4. /\ minted' \in 0..MaxRuns
        /\ \A i \in 1..minted : i \in 1..minted'
        /\ minted' \notin 1..minted \/ minted' = minted
    BY <1>1, <1>3
  <1>5. TypeOK'
    <2>1. sweep' \in [Sweeps -> [stamp : Stamps, setup : Setups, cell : Keys \cup {None}]
                                \cup {None}]
      BY <1>1 DEF IInv, TypeOK
    <2>. QED
      BY <1>2, <1>4, <2>1 DEF IInv, TypeOK, published
  <1>6. InUse' \subseteq InUse \cup {<<stamp, setup>>}
    <2>1. \A k \in Keys : Stamped(k)' <=> Stamped(k)
      BY <1>2 DEF Stamped, IsCell
    <2>2. \A t \in Sweeps \ {s} : sweep'[t] = sweep[t]
      BY <1>1 DEF IInv, TypeOK
    <2>3. sweep'[s] = [stamp |-> stamp, setup |-> setup, cell |-> None]
      BY <1>1 DEF IInv, TypeOK
    <2>. QED
      BY <1>2, <2>1, <2>2, <2>3 DEF InUse
  <1>7. \A u \in InUse' : u[1].inputs = InputsOf(u[2])
    <2>1. \A u \in InUse : u[1].inputs = InputsOf(u[2])
      BY DEF IInv, StampsNameTheSetup, RunIdsNameOneSetup
    <2>2. stamp.inputs = InputsOf(setup)
      BY <1>1 DEF Adoptable
    <2>. QED
      BY <1>6, <2>1, <2>2
  <1>8. ASSUME stamp \in Adoptable(InputsOf(setup)) /\ UNCHANGED minted
        PROVE  RunsAreMinted' /\ StampsNameTheSetup'
    <2>1. PICK k \in Keys : Stamped(k) /\ dir[k].stamp = stamp
      BY <1>8 DEF Adoptable
    <2>2. PICK old \in InUse : old = <<dir[k].stamp, dir[k].setup>>
      BY <2>1 DEF InUse
    <2>3. \A u \in InUse' : \E w \in InUse : w[1] = u[1]
      BY <1>6, <2>1, <2>2
    <2>4. RunsAreMinted'
      BY <1>8, <2>3 DEF IInv, RunsAreMinted
    <2>5. \A u, v \in InUse' : u[1].run = v[1].run => u[1].inputs = v[1].inputs
      BY <2>3 DEF IInv, StampsNameTheSetup, RunIdsNameOneSetup
    <2>6. ResumedRunsStayFreezable'
      <3>1. overlapped' \/ ~overlapped
        BY <1>2 DEF IInv, TypeOK
      <3>2. overlapped \/ \A u, v \in InUse : u[1].inputs = v[1].inputs => u[1] = v[1]
        BY DEF IInv, StampsNameTheSetup, ResumedRunsStayFreezable
      <3>. QED
        BY <2>3, <3>1, <3>2 DEF ResumedRunsStayFreezable
    <2>7. RunIdsNameOneSetup'
      BY <1>7, <2>5 DEF RunIdsNameOneSetup, InputsOf, CodeRevision
    <2>. QED
      BY <2>4, <2>6, <2>7 DEF StampsNameTheSetup
  <1>9. ASSUME Adoptable(InputsOf(setup)) = {}, minted' = minted + 1,
               stamp = [run |-> minted', inputs |-> InputsOf(setup)]
        PROVE  RunsAreMinted' /\ StampsNameTheSetup'
    <2>1. stamp.run = minted' /\ stamp.inputs = InputsOf(setup)
      BY <1>9
    <2>2. \A u \in InUse : u[1].run # stamp.run
      BY <1>3, <1>9, <2>1 DEF IInv, RunsAreMinted
    <2>3. RunsAreMinted'
      <3>1. minted' \in 1..minted'
        BY <1>3, <1>9
      <3>. QED
        BY <1>4, <1>6, <2>1, <3>1 DEF IInv, RunsAreMinted
    <2>4. \A u, v \in InUse' : u[1].run = v[1].run => u[1].inputs = v[1].inputs
      <3>1. \A u, v \in InUse : u[1].run = v[1].run => u[1].inputs = v[1].inputs
        BY DEF IInv, StampsNameTheSetup, RunIdsNameOneSetup
      <3>. QED
        BY <1>6, <2>2, <3>1
    <2>5. ResumedRunsStayFreezable'
      <3>1. CASE \E t \in Sweeps : sweep[t] # None
        BY <1>2, <3>1 DEF ResumedRunsStayFreezable
      <3>2. CASE ~\E t \in Sweeps : sweep[t] # None
        <4>1. \A u \in InUse : u[1].inputs # InputsOf(setup)
          BY <1>9, <3>2 DEF InUse, Adoptable
        <4>2. overlapped' \/ ~overlapped
          BY <1>2 DEF IInv, TypeOK
        <4>3. overlapped \/ \A u, v \in InUse : u[1].inputs = v[1].inputs => u[1] = v[1]
          BY DEF IInv, StampsNameTheSetup, ResumedRunsStayFreezable
        <4>. QED
          BY <1>6, <2>1, <4>1, <4>2, <4>3 DEF ResumedRunsStayFreezable
      <3>. QED
        BY <3>1, <3>2
    <2>6. RunIdsNameOneSetup'
      BY <1>7, <2>4 DEF RunIdsNameOneSetup, InputsOf, CodeRevision
    <2>. QED
      BY <2>3, <2>5, <2>6 DEF StampsNameTheSetup
  <1>10. /\ CheckStillHolds' /\ CheckedCellsCarryTheFingerprint'
        /\ SidecarReconciles' /\ MeasuredBeforeFrozen'
    BY <1>2 DEF IInv, published, CheckStillHolds, CheckedCellsCarryTheFingerprint,
       SidecarReconciles, Covered, Complete, IsCell, Reconciles, CountTrue,
       MeasuredBeforeFrozen
  <1>. QED
    BY <1>1, <1>5, <1>8, <1>9, <1>10 DEF IInv

LEMMA TakeCellKeepsIInv ==
    ASSUME IInv, NEW s \in Sweeps, NEW k \in Keys, TakeCell(s, k)
    PROVE  IInv'
  <1>1. /\ sweep[s] # None /\ sweep' = [sweep EXCEPT ![s].cell = k]
        /\ UNCHANGED <<dir, minted, published, freeze, history>>
    BY DEF TakeCell
  <1>2. /\ sweep[s] \in [stamp : Stamps, setup : Setups, cell : Keys \cup {None}]
        /\ \A t \in Sweeps \ {s} : sweep'[t] = sweep[t]
        /\ sweep'[s] = [sweep[s] EXCEPT !.cell = k]
        /\ sweep' \in [Sweeps -> [stamp : Stamps, setup : Setups, cell : Keys \cup {None}]
                                 \cup {None}]
    BY <1>1, SweepFields DEF IInv, TypeOK
  <1>3. TypeOK'
    BY <1>1, <1>2 DEF IInv, TypeOK, published, history
  <1>4. InUse' \subseteq InUse
    <2>1. \A l \in Keys : Stamped(l)' <=> Stamped(l)
      BY <1>1 DEF Stamped, IsCell
    <2>2. \A t \in Sweeps : sweep'[t] # None =>
            /\ sweep[t] # None
            /\ sweep'[t].stamp = sweep[t].stamp /\ sweep'[t].setup = sweep[t].setup
      BY <1>1, <1>2
    <2>. QED
      BY <1>1, <2>1, <2>2 DEF InUse
  <1>5. RunsAreMinted' /\ StampsNameTheSetup'
    BY <1>1, <1>4, FewerInUse DEF IInv, history
  <1>6. /\ CheckStillHolds' /\ CheckedCellsCarryTheFingerprint'
        /\ SidecarReconciles' /\ MeasuredBeforeFrozen'
    BY <1>1 DEF IInv, published, history, CheckStillHolds, CheckedCellsCarryTheFingerprint,
       SidecarReconciles, Covered, Complete, IsCell, Reconciles, CountTrue,
       MeasuredBeforeFrozen
  <1>. QED
    BY <1>3, <1>5, <1>6 DEF IInv

\* What the steps that change a cell file have in common: its content is of the type of
\* the directory, and its stamp, if it has one, is the one its sweep runs with.
LEMMA FileChangeKeepsIInv ==
    ASSUME IInv, NEW k \in Keys, NEW content \in Cells \cup {None, Torn}, Put(k, content),
           sweep' \in [Sweeps -> [stamp : Stamps, setup : Setups, cell : Keys \cup {None}]
                                 \cup {None}],
           \A t \in Sweeps : sweep'[t] # None =>
               /\ sweep[t] # None
               /\ sweep'[t].stamp = sweep[t].stamp /\ sweep'[t].setup = sweep[t].setup,
           \/ content \in {None, Torn}
           \/ \E t \in Sweeps : /\ sweep[t] # None
                                /\ content.stamp = sweep[t].stamp
                                /\ content.setup = sweep[t].setup,
           UNCHANGED <<minted, published, freeze, overlapped, refrozen>>
    PROVE  IInv'
  <1>1. /\ dir' \in [Keys -> Cells \cup {None, Torn}] /\ dir'[k] = content
        /\ \A l \in Keys \ {k} : dir'[l] = dir[l]
        /\ late' \subseteq Keys
    BY DEF Put, IInv, TypeOK
  <1>2. TypeOK'
    BY <1>1 DEF IInv, TypeOK, published
  <1>3. InUse' \subseteq InUse
    <2>1. \A l \in Keys \ {k} : Stamped(l)' <=> Stamped(l)
      BY <1>1 DEF Stamped, IsCell
    <2>2. Stamped(k)' => \E t \in Sweeps : /\ sweep[t] # None
                                           /\ dir'[k].stamp = sweep[t].stamp
                                           /\ dir'[k].setup = sweep[t].setup
      BY <1>1 DEF Stamped, IsCell
    <2>. QED
      BY <1>1, <2>1, <2>2 DEF InUse
  <1>4. RunsAreMinted' /\ StampsNameTheSetup'
    BY <1>3, FewerInUse DEF IInv
  <1>5. CheckStillHolds'
    BY PutKeepsTheCheck DEF IInv
  <1>6. CheckedCellsCarryTheFingerprint' /\ SidecarReconciles' /\ MeasuredBeforeFrozen'
    BY DEF IInv, published, CheckedCellsCarryTheFingerprint, SidecarReconciles,
       Reconciles, CountTrue, MeasuredBeforeFrozen
  <1>. QED
    BY <1>2, <1>4, <1>5, <1>6 DEF IInv

LEMMA WriteCellKeepsIInv ==
    ASSUME IInv, NEW s \in Sweeps, NEW o \in Reports, WriteCell(s, o)
    PROVE  IInv'
  <1>1. /\ sweep[s] # None /\ sweep[s].cell # None
        /\ Put(sweep[s].cell, [stamp |-> sweep[s].stamp, setup |-> sweep[s].setup, outcomes |-> o])
        /\ sweep' = IF DOMAIN o = Items THEN [sweep EXCEPT ![s].cell = None] ELSE sweep
        /\ UNCHANGED <<minted, published, freeze, overlapped, refrozen>>
    BY DEF WriteCell
  <1>2. /\ sweep[s] \in [stamp : Stamps, setup : Setups, cell : Keys \cup {None}]
        /\ sweep[s].stamp \in Stamps /\ sweep[s].setup \in Setups /\ sweep[s].cell \in Keys
        /\ sweep \in [Sweeps -> [stamp : Stamps, setup : Setups, cell : Keys \cup {None}]
                                 \cup {None}]
    BY <1>1, SweepFields DEF IInv, TypeOK
  <1>3. PICK content \in Cells :
          content = [stamp |-> sweep[s].stamp, setup |-> sweep[s].setup, outcomes |-> o]
    BY <1>2 DEF Cells
  <1>4. content.stamp = sweep[s].stamp /\ content.setup = sweep[s].setup
    BY <1>3
  <1>5. /\ sweep' \in [Sweeps -> [stamp : Stamps, setup : Setups, cell : Keys \cup {None}]
                                 \cup {None}]
        /\ \A t \in Sweeps : sweep'[t] # None =>
               /\ sweep[t] # None
               /\ sweep'[t].stamp = sweep[t].stamp /\ sweep'[t].setup = sweep[t].setup
    <2>1. CASE DOMAIN o = Items
      <3>1. /\ \A t \in Sweeps \ {s} : sweep'[t] = sweep[t]
            /\ sweep'[s] = [sweep[s] EXCEPT !.cell = None]
            /\ sweep' \in [Sweeps -> [stamp : Stamps, setup : Setups, cell : Keys \cup {None}]
                                     \cup {None}]
        BY <1>1, <1>2, <2>1
      <3>. QED
        BY <1>1, <1>2, <3>1
    <2>2. CASE DOMAIN o # Items
      BY <1>1, <1>2, <2>2
    <2>. QED
      BY <2>1, <2>2
  <1>. QED
    BY <1>1, <1>2, <1>3, <1>4, <1>5, FileChangeKeepsIInv

LEMMA TearCellKeepsIInv ==
    ASSUME IInv, NEW s \in Sweeps, TearCell(s)
    PROVE  IInv'
  <1>1. /\ sweep[s] # None /\ sweep[s].cell # None
        /\ Put(sweep[s].cell, Torn)
        /\ sweep' = [sweep EXCEPT ![s] = None]
        /\ UNCHANGED <<minted, published, freeze, overlapped, refrozen>>
    BY DEF TearCell
  <1>2. sweep[s].cell \in Keys
    BY <1>1, SweepFields DEF IInv
  <1>3. /\ sweep' \in [Sweeps -> [stamp : Stamps, setup : Setups, cell : Keys \cup {None}]
                                 \cup {None}]
        /\ \A t \in Sweeps \ {s} : sweep'[t] = sweep[t]
        /\ sweep'[s] = None
    BY <1>1 DEF IInv, TypeOK
  <1>. QED
    BY <1>1, <1>2, <1>3, FileChangeKeepsIInv

LEMMA RemoveKeepsIInv ==
    ASSUME IInv, NEW k \in Keys, Remove(k)
    PROVE  IInv'
  <1>1. Put(k, None) /\ UNCHANGED <<sweep, minted, published, freeze, overlapped, refrozen>>
    BY DEF Remove
  <1>2. sweep \in [Sweeps -> [stamp : Stamps, setup : Setups, cell : Keys \cup {None}]
                                 \cup {None}]
    BY DEF IInv, TypeOK
  <1>. QED
    BY <1>1, <1>2, FileChangeKeepsIInv

LEMMA StopSweepKeepsIInv ==
    ASSUME IInv, NEW s \in Sweeps, StopSweep(s)
    PROVE  IInv'
  <1>1. /\ sweep' = [sweep EXCEPT ![s] = None]
        /\ UNCHANGED <<dir, minted, published, freeze, history>>
    BY DEF StopSweep
  <1>2. /\ sweep' \in [Sweeps -> [stamp : Stamps, setup : Setups, cell : Keys \cup {None}]
                                 \cup {None}]
        /\ \A t \in Sweeps \ {s} : sweep'[t] = sweep[t]
        /\ sweep'[s] = None
    BY <1>1 DEF IInv, TypeOK
  <1>3. TypeOK'
    BY <1>1, <1>2 DEF IInv, TypeOK, published, history
  <1>4. InUse' \subseteq InUse
    <2>1. \A l \in Keys : Stamped(l)' <=> Stamped(l)
      BY <1>1 DEF Stamped, IsCell
    <2>. QED
      BY <1>1, <1>2, <2>1 DEF InUse
  <1>5. RunsAreMinted' /\ StampsNameTheSetup'
    BY <1>1, <1>4, FewerInUse DEF IInv, history
  <1>6. /\ CheckStillHolds' /\ CheckedCellsCarryTheFingerprint'
        /\ SidecarReconciles' /\ MeasuredBeforeFrozen'
    BY <1>1 DEF IInv, published, history, CheckStillHolds, CheckedCellsCarryTheFingerprint,
       SidecarReconciles, Covered, Complete, IsCell, Reconciles, CountTrue,
       MeasuredBeforeFrozen
  <1>. QED
    BY <1>3, <1>5, <1>6 DEF IInv

\* New measurements void what was known of the sidecar, and say so.
LEMMA BuildReferenceKeepsIInv ==
    ASSUME IInv, BuildReference
    PROVE  IInv'
  <1>1. /\ measurements' = [k \in {l \in Frontier : Complete(l)} |-> Summary(dir[k].outcomes)]
        /\ refrozen' = TRUE
        /\ UNCHANGED <<dir, sweep, minted, sidecar, baseline, freeze, late, overlapped>>
    BY DEF BuildReference
  <1>2. PICK some \in SUBSET Frontier : some = {l \in Frontier : Complete(l)}
    OBVIOUS
  <1>3. measurements' \in [some -> Summaries]
    <2>1. \A k \in some : Summary(dir[k].outcomes) \in Summaries
      BY <1>2, CellFields, SummariesCount DEF IInv, Complete, Keys
    <2>. QED
      BY <1>1, <1>2, <2>1
  <1>4. TypeOK'
    BY <1>1, <1>2, <1>3 DEF IInv, TypeOK
  <1>5. InUse' = InUse
    BY <1>1 DEF InUse, Stamped, IsCell
  <1>6. RunsAreMinted' /\ StampsNameTheSetup'
    BY <1>1, <1>5, FewerInUse DEF IInv
  <1>7. /\ CheckStillHolds' /\ CheckedCellsCarryTheFingerprint'
        /\ SidecarReconciles' /\ MeasuredBeforeFrozen'
    BY <1>1, <1>3 DEF IInv, CheckStillHolds, CheckedCellsCarryTheFingerprint,
       SidecarReconciles, Covered, Complete, IsCell, MeasuredBeforeFrozen
  <1>. QED
    BY <1>4, <1>6, <1>7 DEF IInv

\* The check: what it says of the directory is so of every worker cell it saw.
LEMMA AssertSameRunKeepsIInv ==
    ASSUME IInv, NEW what \in {"workers", "frontier"}, AssertSameRun(what)
    PROVE  IInv'
  <1>. DEFINE fingerprint == IF \E k \in Seen : Stamped(k)
                             THEN dir[CHOOSE k \in Seen : Stamped(k)].stamp ELSE None
  <1>1. /\ measurements # None /\ OneFingerprint
        /\ freeze' = [what |-> what, fingerprint |-> fingerprint, unverifiable |-> Unverifiable]
        /\ late' = {}
        /\ UNCHANGED <<dir, sweep, minted, published, overlapped, refrozen>>
    BY DEF AssertSameRun
  <1>2. DOMAIN measurements \subseteq Frontier
    BY <1>1 DEF IInv, TypeOK
  <1>3. Seen \subseteq Keys /\ Unverifiable \subseteq Worker
    BY <1>2 DEF Seen, Unverifiable, Keys
  <1>4. \A k \in Seen : Stamped(k) => fingerprint = dir[k].stamp
    <2>1. \A k, l \in Seen : dir[k].stamp = dir[l].stamp
      BY <1>1 DEF OneFingerprint
    <2>2. ASSUME NEW k \in Seen, Stamped(k)
          PROVE  fingerprint = dir[k].stamp
      <3>1. \E l \in Seen : Stamped(l)
        BY <2>2
      <3>2. (CHOOSE l \in Seen : Stamped(l)) \in Seen
        BY <3>1
      <3>. QED
        BY <2>1, <3>1, <3>2
    <2>. QED
      BY <2>2
  <1>5. fingerprint \in Stamps \cup {None}
    <2>1. CASE \E k \in Seen : Stamped(k)
      <3>1. PICK k \in Seen : Stamped(k)
        BY <2>1
      <3>2. fingerprint = dir[k].stamp
        BY <1>4, <3>1
      <3>. HIDE DEF fingerprint
      <3>. QED
        BY <1>3, <3>1, <3>2, CellFields DEF IInv, Stamped
    <2>2. CASE ~\E k \in Seen : Stamped(k)
      BY <2>2
    <2>. QED
      BY <2>1, <2>2
  <1>6. /\ (\A k \in Seen : ~Stamped(k)) => fingerprint = None
        /\ \A k \in Worker : Complete(k) => k \in Seen
        /\ \A k \in Worker : Complete(k) /\ ~Stamped(k) => k \in Unverifiable
    <2>1. \A k \in Worker : k \notin DOMAIN measurements
      BY <1>2, PublicationAssumption
    <2>. QED
      BY <2>1 DEF Seen, Unverifiable
  <1>. HIDE DEF fingerprint
  <1>7. ASSUME NEW k \in Worker, Complete(k)
        PROVE  IF dir[k].stamp # None THEN dir[k].stamp = fingerprint
               ELSE fingerprint = None /\ k \in Unverifiable
    <2>1. k \in Seen /\ (Stamped(k) <=> dir[k].stamp # None)
      BY <1>6, <1>7 DEF Complete, Stamped
    <2>2. CASE dir[k].stamp # None
      BY <1>4, <2>1, <2>2
    <2>3. CASE dir[k].stamp = None
      <3>1. \A l \in Seen : ~Stamped(l)
        BY <1>1, <2>1, <2>3 DEF OneFingerprint, Stamped
      <3>. QED
        BY <1>6, <1>7, <2>1, <2>3, <3>1
    <2>. QED
      BY <2>2, <2>3
  <1>8. PICK f : f = [what |-> what, fingerprint |-> fingerprint, unverifiable |-> Unverifiable]
    OBVIOUS
  <1>9. /\ freeze' = f /\ f.fingerprint = fingerprint /\ f.unverifiable = Unverifiable
        /\ f \in [what : {"workers", "frontier"}, fingerprint : Stamps \cup {None},
                  unverifiable : SUBSET Worker]
    BY <1>1, <1>3, <1>5, <1>8
  <1>10. TypeOK'
    BY <1>1, <1>9 DEF IInv, TypeOK, published
  <1>11. InUse' = InUse
    BY <1>1 DEF InUse, Stamped, IsCell
  <1>12. RunsAreMinted' /\ StampsNameTheSetup'
    BY <1>1, <1>11, FewerInUse DEF IInv
  <1>13. CheckStillHolds'
    <2>1. \A k \in Worker : Complete(k)' <=> Complete(k)
      BY <1>1 DEF Complete, IsCell
    <2>. QED
      BY <1>1, <1>7, <1>9, <2>1 DEF CheckStillHolds, Covered
  <1>14. CheckedCellsCarryTheFingerprint' /\ SidecarReconciles' /\ MeasuredBeforeFrozen'
    BY <1>1 DEF IInv, published, CheckedCellsCarryTheFingerprint, SidecarReconciles,
       Reconciles, CountTrue, MeasuredBeforeFrozen, TypeOK
  <1>. QED
    BY <1>10, <1>12, <1>13, <1>14 DEF IInv

\* The copy: cells that were not touched since the check are as it saw them.
LEMMA BuildWorkerBaselineKeepsIInv ==
    ASSUME IInv, BuildWorkerBaseline
    PROVE  IInv'
  <1>1. PICK b : b =
          [fingerprint |-> freeze.fingerprint, unverifiable |-> freeze.unverifiable,
           stamps |-> [k \in {l \in Worker : Complete(l)} |-> dir[k].stamp],
           late |-> late \cap Worker]
    OBVIOUS
  <1>2. /\ freeze # None /\ baseline' = b /\ freeze' = None /\ late' = {}
        /\ UNCHANGED <<dir, sweep, minted, measurements, sidecar, overlapped, refrozen>>
    BY <1>1 DEF BuildWorkerBaseline
  <1>3. PICK some \in SUBSET Worker : some = {l \in Worker : Complete(l)}
    OBVIOUS
  <1>4. /\ b.fingerprint = freeze.fingerprint /\ b.unverifiable = freeze.unverifiable
        /\ b.stamps = [k \in some |-> dir[k].stamp] /\ b.late = late \cap Worker
    BY <1>1, <1>3
  <1>5. TypeOK'
    <2>1. /\ freeze.fingerprint \in Stamps \cup {None}
          /\ freeze.unverifiable \subseteq Worker
      BY <1>2 DEF IInv, TypeOK
    <2>2. \A k \in some : dir[k].stamp \in Stamps \cup {None}
      BY <1>3, CellFields DEF IInv, Complete, Keys
    <2>3. b.stamps \in [some -> Stamps \cup {None}]
      BY <1>4, <2>2
    <2>4. /\ b.fingerprint \in Stamps \cup {None}
          /\ b.unverifiable \subseteq Worker /\ b.late \subseteq Worker
          /\ \E part \in SUBSET Worker : b.stamps \in [part -> Stamps \cup {None}]
      BY <1>4, <2>1, <2>3
    <2>. QED
      BY <1>2, <2>4 DEF IInv, TypeOK
  <1>6. InUse' = InUse
    BY <1>2 DEF InUse, Stamped, IsCell
  <1>7. RunsAreMinted' /\ StampsNameTheSetup'
    BY <1>2, <1>6, FewerInUse DEF IInv
  <1>8. CheckedCellsCarryTheFingerprint'
    <2>1. ASSUME NEW k \in DOMAIN b.stamps \ b.late
          PROVE  IF b.stamps[k] # None THEN b.stamps[k] = b.fingerprint
                 ELSE b.fingerprint = None /\ k \in b.unverifiable
      <3>1. k \in Worker \ late /\ Complete(k) /\ b.stamps[k] = dir[k].stamp
        BY <1>3, <1>4, <2>1
      <3>2. Covered(k, dir[k].stamp, freeze)
        BY <1>2, <3>1 DEF IInv, CheckStillHolds
      <3>. QED
        BY <1>4, <3>1, <3>2 DEF Covered
    <2>. QED
      BY <1>2, <2>1 DEF CheckedCellsCarryTheFingerprint
  <1>9. CheckStillHolds' /\ SidecarReconciles' /\ MeasuredBeforeFrozen'
    BY <1>2 DEF IInv, CheckStillHolds, SidecarReconciles, Reconciles, CountTrue,
       MeasuredBeforeFrozen
  <1>. QED
    BY <1>5, <1>7, <1>8, <1>9 DEF IInv

\* The sidecar is compared with the measurements cell by cell before it is written.
LEMMA BuildFrontierPairedKeepsIInv ==
    ASSUME IInv, BuildFrontierPaired
    PROVE  IInv'
  <1>0. \E some \in SUBSET Frontier : measurements \in [some -> Summaries]
    BY DEF BuildFrontierPaired, IInv, MeasuredBeforeFrozen
  <1>1. /\ \A k \in DOMAIN measurements :
                IsCell(k) /\ Reconciles(Paired(dir[k].outcomes), measurements[k])
        /\ sidecar' = [k \in DOMAIN measurements |-> Paired(dir[k].outcomes)]
        /\ freeze' = None /\ refrozen' = FALSE /\ late' = {}
        /\ UNCHANGED <<dir, sweep, minted, measurements, baseline, overlapped>>
    BY DEF BuildFrontierPaired
  <1>2. PICK some \in SUBSET Frontier : some = DOMAIN measurements
    BY <1>0
  <1>3. sidecar' \in [some -> UNION {[ran -> BOOLEAN] : ran \in SUBSET Items}]
    <2>1. \A k \in some : Paired(dir[k].outcomes) \in UNION {[ran -> BOOLEAN] : ran \in SUBSET Items}
      BY <1>1, <1>2, CellFields, ReportsAreOfItems DEF IInv, Keys
    <2>. QED
      BY <1>1, <1>2, <2>1
  <1>4. TypeOK'
    BY <1>1, <1>2, <1>3 DEF IInv, TypeOK
  <1>5. InUse' = InUse
    BY <1>1 DEF InUse, Stamped, IsCell
  <1>6. RunsAreMinted' /\ StampsNameTheSetup'
    BY <1>1, <1>5, FewerInUse DEF IInv
  <1>7. SidecarReconciles'
    <2>1. \A k \in DOMAIN sidecar' : sidecar'[k] = Paired(dir[k].outcomes) /\ k \in DOMAIN measurements
      BY <1>1
    <2>. QED
      BY <1>1, <2>1 DEF SidecarReconciles, Reconciles, CountTrue
  <1>8. CheckStillHolds' /\ CheckedCellsCarryTheFingerprint' /\ MeasuredBeforeFrozen'
    BY <1>1 DEF IInv, CheckStillHolds, CheckedCellsCarryTheFingerprint, MeasuredBeforeFrozen
  <1>. QED
    BY <1>4, <1>6, <1>7, <1>8 DEF IInv

\* A freeze that fails, and a step that changes nothing.
LEMMA IdleKeepsIInv ==
    ASSUME IInv, FreezeFails \/ UNCHANGED vars
    PROVE  IInv'
  <1>1. /\ (freeze' = None /\ late' = {}) \/ (freeze' = freeze /\ late' = late)
        /\ UNCHANGED <<dir, sweep, minted, published, overlapped, refrozen>>
    BY DEF FreezeFails, vars, history
  <1>2. TypeOK'
    BY <1>1 DEF IInv, TypeOK, published
  <1>3. InUse' = InUse
    BY <1>1 DEF InUse, Stamped, IsCell
  <1>4. RunsAreMinted' /\ StampsNameTheSetup'
    BY <1>1, <1>3, FewerInUse DEF IInv
  <1>5. /\ CheckStillHolds' /\ CheckedCellsCarryTheFingerprint'
        /\ SidecarReconciles' /\ MeasuredBeforeFrozen'
    BY <1>1 DEF IInv, published, CheckStillHolds, CheckedCellsCarryTheFingerprint,
       SidecarReconciles, Covered, Complete, IsCell, Reconciles, CountTrue,
       MeasuredBeforeFrozen
  <1>. QED
    BY <1>2, <1>4, <1>5 DEF IInv

LEMMA Inductive ==
    ASSUME IInv, [Next]_vars
    PROVE  IInv'
  <1>1. ASSUME NEW s \in Sweeps, NEW setup \in Setups, StartSweep(s, setup)
        PROVE  IInv'
    BY <1>1, StartSweepKeepsIInv
  <1>2. ASSUME NEW s \in Sweeps, TearCell(s) \/ StopSweep(s)
        PROVE  IInv'
    BY <1>2, TearCellKeepsIInv, StopSweepKeepsIInv
  <1>3. ASSUME NEW s \in Sweeps, NEW k \in Keys, TakeCell(s, k)
        PROVE  IInv'
    BY <1>3, TakeCellKeepsIInv
  <1>4. ASSUME NEW s \in Sweeps, NEW o \in Reports, WriteCell(s, o)
        PROVE  IInv'
    BY <1>4, WriteCellKeepsIInv
  <1>5. ASSUME NEW k \in Keys, Remove(k)
        PROVE  IInv'
    BY <1>5, RemoveKeepsIInv
  <1>6. CASE BuildReference
    BY <1>6, BuildReferenceKeepsIInv
  <1>7. ASSUME NEW what \in {"workers", "frontier"}, AssertSameRun(what)
        PROVE  IInv'
    BY <1>7, AssertSameRunKeepsIInv
  <1>8. CASE BuildWorkerBaseline
    BY <1>8, BuildWorkerBaselineKeepsIInv
  <1>9. CASE BuildFrontierPaired
    BY <1>9, BuildFrontierPairedKeepsIInv
  <1>10. CASE FreezeFails \/ UNCHANGED vars
    BY <1>10, IdleKeepsIInv
  <1>. QED
    BY <1>1, <1>2, <1>3, <1>4, <1>5, <1>6, <1>7, <1>8, <1>9, <1>10 DEF Next

-----------------------------------------------------------------------------
(* The invariants of the specification.                                    *)

\* The inductive invariant holds of every reachable state of a sweep directory.
THEOREM Invariance == Spec => []IInv
  <1>1. Init => IInv
    BY InitIInv
  <1>2. IInv /\ [Next]_vars => IInv'
    BY Inductive
  <1>. QED
    BY <1>1, <1>2, PTL DEF Spec

\* Every file and every process holds what its writers can have written.
THEOREM TypeCorrect == Spec => []TypeOK
  <1>1. IInv => TypeOK
    BY DEF IInv
  <1>. QED
    BY <1>1, Invariance, PTL

\* Whatever is edited, killed, resumed or removed: a run id names one set of inputs, and
\* as long as sweeps do not overlap the same inputs never get two.
THEOREM StampsAreTrue == Spec => []StampsNameTheSetup
  <1>1. IInv => StampsNameTheSetup
    BY DEF IInv
  <1>. QED
    BY <1>1, Invariance, PTL

\* The baseline's claim holds of every cell that did not change under the freeze.
THEOREM BaselineIsCovered == Spec => []CheckedCellsCarryTheFingerprint
  <1>1. IInv => CheckedCellsCarryTheFingerprint
    BY DEF IInv
  <1>. QED
    BY <1>1, Invariance, PTL

\* Sidecar and measurements count the same outcomes until either is frozen again alone.
THEOREM TestsAgreeWithTheBars == Spec => []PairedTestsAgreeWithTheBars
  <1>1. ASSUME IInv
        PROVE  PairedTestsAgreeWithTheBars
    BY <1>1 DEF IInv, SidecarReconciles, PairedTestsAgreeWithTheBars, Agrees, Restored
  <1>. QED
    BY <1>1, Invariance, PTL

=============================================================================
