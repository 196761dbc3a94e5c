---------------------------- MODULE Sweep_proofs -----------------------------
(***************************************************************************)
(* Proofs about Sweep, for any cells, items, profiles, caps, projections   *)
(* and prices, and any number of kills.                                    *)
(*                                                                         *)
(* That a finished file is never touched again is not inductive: IInv adds *)
(* that the cell being run is in the plan and not finished, that each of   *)
(* its items is waited for, landed or collected until the pool is left by  *)
(* an exception, so that a final report is whole, and that a fresh sweep   *)
(* has no finished cell ahead of it.                                       *)
(*                                                                         *)
(* What is spent and what is billed are sums over files and runs; MoneyInv *)
(* says what is under way in them at every step, with FoldLemmas.          *)
(***************************************************************************)
EXTENDS Sweep, FoldLemmas, SequenceTheorems

CurrentIsUnfinished ==
    pc \in InCell => index <= Len(Plan) /\ ~Complete(Current)

EveryItemIsSomewhere ==
    pc \in {"collecting", "writing", "finalising"} =>
        /\ rows.items \subseteq Asked /\ pending \subseteq Asked
        /\ \A r \in ready : r.item \in Asked
        /\ \A i \in Asked : i \in pending \/ i \in rows.items \/ \E r \in ready : r.item = i

FinalReportIsWhole == pc = "finalising" => rows.items = Asked /\ pending = {}

FreshHasNoneAhead ==
    fresh /\ pc # "off" => \A k \in DOMAIN Plan : k >= index => ~Complete(Plan[k])

IInv ==
    /\ TypeOK
    /\ CurrentIsUnfinished
    /\ EveryItemIsSomewhere
    /\ FinalReportIsWhole
    /\ FreshHasNoneAhead
    /\ FreshResumesNothing

-----------------------------------------------------------------------------
(* Plans and files.                                                        *)

LEMMA PlanIsASequence ==
    ASSUME TypeOK
    PROVE  /\ Plan \in Seq(Cells) /\ Len(Plan) \in Nat /\ DOMAIN Plan = 1..Len(Plan)
           /\ Asked \subseteq Items
           /\ index \in Nat \ {0}
           /\ \A k \in 1..Len(Plan) : Plan[k] \in Cells
           /\ \A k, l \in 1..Len(Plan) : Plan[k] = Plan[l] => k = l
  <1>1. profile \in Profiles /\ index \in Nat \ {0}
    BY DEF TypeOK
  <1>2. Plan \in Seq(Cells) /\ Asked \subseteq Items
    BY <1>1, SweepAssumption DEF Plan, Asked
  <1>3. Len(Plan) \in Nat /\ DOMAIN Plan = 1..Len(Plan) /\ \A k \in 1..Len(Plan) : Plan[k] \in Cells
    BY <1>2, LenProperties, ElementOfSeq
  <1>. QED
    BY <1>1, <1>2, <1>3, SweepAssumption DEF Plan

\* A report is a file that parses, and complete exactly when it says so.
LEMMA ReportIsAFile ==
    ASSUME TypeOK, NEW b \in BOOLEAN
    PROVE  /\ Report(b) \in CellFiles /\ Report(b) \notin {NoFile, Torn}
           /\ Report(b).complete = b
           /\ Report(b).items = rows.items /\ Report(b).cost = rows.cost
  <1>1. rows.items \in SUBSET Items /\ rows.cost \in Nat
    BY DEF TypeOK, Measurements
  <1>2. Report(b) \in CellFiles
    BY <1>1 DEF Report, CellFiles
  <1>. QED
    BY <1>2, SweepAssumption DEF Report, CellFiles

LEMMA CompleteIsAFile ==
    ASSUME TypeOK, NEW c \in Cells, Complete(c)
    PROVE  disk[c] \in CellFiles /\ disk[c].cost \in Nat
  BY DEF TypeOK, Complete, Written, CellFiles

\* What a step does to one file changes what is complete there and nowhere else.
LEMMA OneFileChanges ==
    ASSUME TypeOK, NEW c \in Cells, NEW x, disk' = [disk EXCEPT ![c] = x],
           NEW d \in Cells
    PROVE  /\ d # c => (Complete(d)' <=> Complete(d))
           /\ x = Torn => ~Complete(c)'
           /\ x = Report(FALSE) => ~Complete(c)'
  <1>1. disk'[d] = IF d = c THEN x ELSE disk[d]
    BY DEF TypeOK
  <1>2. disk'[c] = x
    BY DEF TypeOK
  <1>3. ~Report(FALSE).complete
    BY ReportIsAFile
  <1>. QED
    BY <1>1, <1>2, <1>3 DEF Complete, Written

-----------------------------------------------------------------------------
(* The invariant holds at first and every action keeps it.                 *)

LEMMA InitIInv ==
    ASSUME Init
    PROVE  IInv
  <1>. USE DEF Init
  <1>1. TypeOK
    <2>1. rows \in Measurements
      BY DEF NoRows, Measurements
    <2>2. disk \in [Cells -> CellFiles \cup {NoFile, Torn}]
      OBVIOUS
    <2>3. /\ index \in Nat \ {0} /\ spent \in Nat /\ billed \in Nat /\ deaths \in Nat
      OBVIOUS
    <2>4. /\ pc \in {"off", "next"} \cup InCell
          /\ outcome \in {"none", "finished", "aborted", "refused", "raised", "killed"}
          /\ charts \in {"none", "rendered", "raised"}
      OBVIOUS
    <2>5. /\ profile \in Profiles /\ fresh \in BOOLEAN /\ skipped \subseteq Cells
          /\ pending \subseteq Items
          /\ ready \subseteq [item : Items, cost : 0..MaxItemCost, raised : BOOLEAN]
      OBVIOUS
    <2>. QED
      BY <2>1, <2>2, <2>3, <2>4, <2>5 DEF TypeOK
  <1>2. CurrentIsUnfinished /\ EveryItemIsSomewhere /\ FinalReportIsWhole /\ FreshHasNoneAhead
    BY DEF CurrentIsUnfinished, EveryItemIsSomewhere, FinalReportIsWhole, FreshHasNoneAhead,
           InCell
  <1>. QED
    BY <1>1, <1>2 DEF IInv, FreshResumesNothing

\* Steps after which no cell is being run, or one is being left.
LEMMA LeavingKeepsIInv ==
    ASSUME IInv, TypeOK',
           UNCHANGED <<disk, profile, fresh, index, skipped>>,
           pc' = "off" \/ (pc' = "unwinding" /\ pc \in InCell)
    PROVE  IInv'
  <1>1. TypeOK /\ CurrentIsUnfinished /\ FreshHasNoneAhead /\ FreshResumesNothing
    BY DEF IInv
  <1>2. Plan' = Plan /\ Current' = Current /\ \A c : Complete(c)' <=> Complete(c)
    BY DEF Plan, Current, Complete, Written
  <1>3. CurrentIsUnfinished'
    BY <1>1, <1>2 DEF CurrentIsUnfinished, InCell
  <1>4. EveryItemIsSomewhere' /\ FinalReportIsWhole'
    BY DEF EveryItemIsSomewhere, FinalReportIsWhole
  <1>5. FreshHasNoneAhead'
    BY <1>1, <1>2 DEF FreshHasNoneAhead, InCell
  <1>. QED
    BY <1>1, <1>3, <1>4, <1>5 DEF IInv, FreshResumesNothing

LEMMA LeavingSteps ==
    ASSUME IInv,
           \/ LoadFails \/ Abort \/ Finish \/ Interrupt \/ Unwound \/ Kill
           \/ \E r \in ready : CollectRaises(r)
    PROVE  IInv'
  <1>1. TypeOK
    BY DEF IInv
  <1>2. /\ UNCHANGED <<disk, profile, fresh, index, spent, skipped, pending, ready, rows,
                       charts, billed>>
        /\ pc' = "off" \/ (pc' = "unwinding" /\ pc \in InCell)
    BY DEF LoadFails, Abort, Finish, Interrupt, CollectRaises, Unwound, Kill, End, InCell, cell
  <1>3. pc' \in {"off", "next"} \cup InCell
    BY <1>2 DEF InCell
  <1>4. /\ outcome' = outcome \/ outcome' \in {"finished", "aborted", "raised", "killed"}
        /\ deaths' = deaths \/ deaths' = deaths + 1
    BY DEF LoadFails, Abort, Finish, Interrupt, CollectRaises, Unwound, Kill, End
  <1>5. TypeOK'
    <2>. USE <1>1, <1>2, <1>3, <1>4 DEF TypeOK
    <2>1. deaths' \in Nat
      OBVIOUS
    <2>2. outcome' \in {"none", "finished", "aborted", "refused", "raised", "killed"}
      OBVIOUS
    <2>. QED
      BY <2>1, <2>2
  <1>. QED
    BY <1>2, <1>5, LeavingKeepsIInv

\* --fresh starts only over a directory without a finished cell.
LEMMA BeginKeepsIInv ==
    ASSUME IInv, NEW p \in Profiles, NEW f \in BOOLEAN, Begin(p, f)
    PROVE  IInv'
  <1>. USE DEF Begin, End
  <1>1. TypeOK /\ TypeOK'
    BY DEF IInv, TypeOK, NoRows, Measurements, InCell
  <1>2. CurrentIsUnfinished' /\ EveryItemIsSomewhere' /\ FinalReportIsWhole'
    BY DEF CurrentIsUnfinished, EveryItemIsSomewhere, FinalReportIsWhole, InCell
  <1>3. FreshHasNoneAhead'
    <2>1. SUFFICES ASSUME f, pc' # "off", NEW k \in DOMAIN Plan'
                   PROVE  ~Complete(Plan[k])'
      BY DEF FreshHasNoneAhead
    <2>2. \A c \in Cells : ~Complete(c)
      BY <2>1 DEF Stale
    <2>3. Plan'[k] \in Cells
      BY <1>1, PlanIsASequence, SweepAssumption, ElementOfSeq, LenProperties DEF Plan
    <2>. QED
      BY <2>2, <2>3 DEF Complete, Written
  <1>. QED
    BY <1>1, <1>2, <1>3 DEF IInv, FreshResumesNothing

LEMMA ResumeKeepsIInv ==
    ASSUME IInv, Resume
    PROVE  IInv'
  <1>. USE DEF Resume
  <1>1. TypeOK /\ FreshHasNoneAhead /\ FreshResumesNothing
    BY DEF IInv
  <1>2. index \in DOMAIN Plan /\ Current \in Cells /\ index \in Nat \ {0}
    BY <1>1, PlanIsASequence DEF Current
  <1>3. ~fresh
    BY <1>1, <1>2 DEF FreshHasNoneAhead, Current
  <1>4. disk[Current].cost \in Nat
    BY <1>1, <1>2, CompleteIsAFile
  <1>5. TypeOK'
    BY <1>1, <1>2, <1>4 DEF TypeOK, cell
  <1>. QED
    BY <1>3, <1>5 DEF IInv, CurrentIsUnfinished, EveryItemIsSomewhere, FinalReportIsWhole,
                      FreshHasNoneAhead, FreshResumesNothing, InCell

LEMMA StartCellKeepsIInv ==
    ASSUME IInv, StartCell
    PROVE  IInv'
  <1>. USE DEF StartCell
  <1>1. TypeOK /\ FreshHasNoneAhead /\ FreshResumesNothing
    BY DEF IInv
  <1>2. Asked \subseteq Items
    BY <1>1, PlanIsASequence
  <1>3. TypeOK'
    BY <1>1, <1>2 DEF TypeOK, NoRows, Measurements, InCell
  <1>4. Plan' = Plan /\ Current' = Current /\ Asked' = Asked
        /\ \A c : Complete(c)' <=> Complete(c)
    BY DEF Plan, Current, Asked, Complete, Written
  <1>5. CurrentIsUnfinished'
    BY <1>4 DEF CurrentIsUnfinished, NotFinished
  <1>6. EveryItemIsSomewhere' /\ FinalReportIsWhole'
    BY <1>4 DEF EveryItemIsSomewhere, FinalReportIsWhole, NoRows
  <1>7. FreshHasNoneAhead'
    BY <1>1, <1>4 DEF FreshHasNoneAhead
  <1>. QED
    BY <1>1, <1>3, <1>5, <1>6, <1>7 DEF IInv, FreshResumesNothing

-----------------------------------------------------------------------------
(* The runs of a cell.                                                     *)

\* A run that ends or raises moves one item from the pool to what has landed.
LEMMA RunLandsKeepsIInv ==
    ASSUME IInv, TypeOK', pc \in InCell,
           NEW i \in pending, NEW r, r.item = i,
           pending' = pending \ {i}, ready' = ready \cup {r},
           UNCHANGED <<disk, pc, profile, fresh, index, skipped, rows>>
    PROVE  IInv'
  <1>1. /\ TypeOK /\ CurrentIsUnfinished /\ EveryItemIsSomewhere /\ FinalReportIsWhole
        /\ FreshHasNoneAhead /\ FreshResumesNothing
    BY DEF IInv
  <1>2. Plan' = Plan /\ Current' = Current /\ Asked' = Asked
        /\ \A c : Complete(c)' <=> Complete(c)
    BY DEF Plan, Current, Asked, Complete, Written
  <1>3. CurrentIsUnfinished' /\ FreshHasNoneAhead' /\ FreshResumesNothing'
    BY <1>1, <1>2 DEF CurrentIsUnfinished, FreshHasNoneAhead, FreshResumesNothing
  <1>4. EveryItemIsSomewhere'
    BY <1>1, <1>2 DEF EveryItemIsSomewhere
  <1>5. FinalReportIsWhole'
    BY <1>1, <1>2 DEF FinalReportIsWhole
  <1>. QED
    BY <1>3, <1>4, <1>5 DEF IInv

LEMMA RunEndsKeepsIInv ==
    ASSUME IInv, NEW i \in Items, NEW cost \in 0..MaxItemCost, RunEnds(i, cost)
    PROVE  IInv'
  <1>. DEFINE r == [item |-> i, cost |-> cost, raised |-> FALSE]
  <1>1. TypeOK
    BY DEF IInv
  <1>2. r \in [item : Items, cost : 0..MaxItemCost, raised : BOOLEAN] /\ r.item = i
    OBVIOUS
  <1>3. billed' \in Nat
    BY <1>1, SweepAssumption DEF TypeOK, RunEnds
  <1>4. TypeOK'
    BY <1>1, <1>2, <1>3 DEF TypeOK, RunEnds
  <1>. QED
    BY <1>2, <1>4, RunLandsKeepsIInv DEF RunEnds

LEMMA RunRaisesKeepsIInv ==
    ASSUME IInv, NEW i \in Items, RunRaises(i)
    PROVE  IInv'
  <1>. DEFINE r == [item |-> i, cost |-> 0, raised |-> TRUE]
  <1>1. TypeOK
    BY DEF IInv
  <1>2. r \in [item : Items, cost : 0..MaxItemCost, raised : BOOLEAN] /\ r.item = i
    BY SweepAssumption
  <1>3. TypeOK'
    BY <1>1, <1>2 DEF TypeOK, RunRaises
  <1>. QED
    BY <1>2, <1>3, RunLandsKeepsIInv DEF RunRaises

\* Steps of the cell being run that leave its file unfinished.
LEMMA CellStepKeepsIInv ==
    ASSUME IInv, TypeOK', EveryItemIsSomewhere', FinalReportIsWhole',
           NEW x \in {Torn, Report(FALSE)},
           disk' = [disk EXCEPT ![Current] = x],
           pc \in InCell, pc' \in InCell,
           UNCHANGED <<profile, fresh, index, skipped>>
    PROVE  IInv'
  <1>1. TypeOK /\ CurrentIsUnfinished /\ FreshHasNoneAhead /\ FreshResumesNothing
    BY DEF IInv
  <1>2. index \in 1..Len(Plan) /\ Current \in Cells
    BY <1>1, PlanIsASequence DEF CurrentIsUnfinished, Current
  <1>3. Plan' = Plan /\ Current' = Current
    BY DEF Plan, Current
  <1>4. \A d \in Cells : Complete(d)' => Complete(d)
    BY <1>1, <1>2, OneFileChanges
  <1>5. CurrentIsUnfinished'
    BY <1>1, <1>2, <1>3, <1>4 DEF CurrentIsUnfinished
  <1>6. FreshHasNoneAhead'
    <2>1. \A k \in DOMAIN Plan : Plan[k] \in Cells
      BY <1>1, PlanIsASequence
    <2>2. pc # "off"
      BY DEF InCell
    <2>. QED
      BY <1>1, <1>3, <1>4, <2>1, <2>2 DEF FreshHasNoneAhead
  <1>. QED
    BY <1>1, <1>5, <1>6 DEF IInv, FreshResumesNothing

LEMMA CollectKeepsIInv ==
    ASSUME IInv, NEW r \in ready, Collect(r)
    PROVE  IInv'
  <1>1. TypeOK /\ CurrentIsUnfinished /\ EveryItemIsSomewhere
    BY DEF IInv
  <1>2. r.item \in Items /\ r.cost \in Nat
    BY <1>1, SweepAssumption DEF TypeOK
  <1>3. rows' \in Measurements
    BY <1>1, <1>2 DEF TypeOK, Measurements, Collect
  <1>4. TypeOK'
    BY <1>1, <1>3 DEF TypeOK, Collect, InCell
  <1>5. EveryItemIsSomewhere'
    <2>1. Asked' = Asked /\ rows'.items = rows.items \cup {r.item}
      BY DEF Asked, Collect
    <2>2. r.item \in Asked
      BY <1>1 DEF EveryItemIsSomewhere, Collect
    <2>. QED
      BY <1>1, <2>1, <2>2 DEF EveryItemIsSomewhere, Collect
  <1>6. FinalReportIsWhole'
    BY DEF FinalReportIsWhole, Collect
  <1>. QED
    BY <1>4, <1>5, <1>6, CellStepKeepsIInv DEF Collect, InCell

LEMMA WritePartialKeepsIInv ==
    ASSUME IInv, WritePartial
    PROVE  IInv'
  <1>1. TypeOK /\ CurrentIsUnfinished /\ EveryItemIsSomewhere
    BY DEF IInv
  <1>2. Report(FALSE) \in CellFiles
    BY <1>1, ReportIsAFile
  <1>3. TypeOK'
    BY <1>1, <1>2 DEF TypeOK, WritePartial, cell, InCell
  <1>4. EveryItemIsSomewhere' /\ FinalReportIsWhole'
    BY <1>1 DEF EveryItemIsSomewhere, FinalReportIsWhole, WritePartial, cell, Asked
  <1>. QED
    BY <1>3, <1>4, CellStepKeepsIInv DEF WritePartial, InCell

LEMMA AllCollectedKeepsIInv ==
    ASSUME IInv, AllCollected
    PROVE  IInv'
  <1>1. TypeOK /\ EveryItemIsSomewhere
    BY DEF IInv
  <1>2. TypeOK'
    BY <1>1 DEF TypeOK, AllCollected, cell, InCell
  <1>3. EveryItemIsSomewhere'
    BY <1>1 DEF EveryItemIsSomewhere, AllCollected, cell, Asked
  <1>4. FinalReportIsWhole'
    <2>1. rows.items = Asked /\ pending = {}
      BY <1>1 DEF EveryItemIsSomewhere, AllCollected
    <2>. QED
      BY <2>1 DEF FinalReportIsWhole, AllCollected, cell, Asked
  <1>. QED
    BY <1>2, <1>3, <1>4, CellStepKeepsIInv DEF AllCollected, InCell

\* The cell that is finished leaves the plan behind it: no other place holds it.
LEMMA CellDoneKeepsIInv ==
    ASSUME IInv, CellDone
    PROVE  IInv'
  <1>1. TypeOK /\ CurrentIsUnfinished /\ FreshHasNoneAhead /\ FreshResumesNothing
    BY DEF IInv
  <1>2. index \in 1..Len(Plan) /\ Current \in Cells
    BY <1>1, PlanIsASequence DEF CurrentIsUnfinished, Current, CellDone, InCell
  <1>3. Report(TRUE) \in CellFiles /\ rows.cost \in Nat
    BY <1>1, ReportIsAFile DEF TypeOK, Measurements
  <1>4. TypeOK'
    <2>1. disk' \in [Cells -> CellFiles \cup {NoFile, Torn}]
      BY <1>1, <1>2, <1>3 DEF TypeOK, CellDone
    <2>2. index' \in Nat \ {0} /\ spent' \in Nat
      BY <1>1, <1>3 DEF TypeOK, CellDone
    <2>. QED
      BY <1>1, <2>1, <2>2 DEF TypeOK, CellDone, cell
  <1>5. FreshHasNoneAhead'
    <2>1. SUFFICES ASSUME fresh, NEW k \in DOMAIN Plan, k >= index + 1
                   PROVE  ~Complete(Plan[k])'
      BY DEF FreshHasNoneAhead, CellDone, Plan
    <2>2. /\ k \in 1..Len(Plan) /\ k # index /\ k >= index
          /\ Plan[k] \in Cells /\ Plan[k] # Current
      BY <1>1, <1>2, <2>1, PlanIsASequence DEF Current
    <2>3. ~Complete(Plan[k])
      BY <1>1, <2>1, <2>2 DEF FreshHasNoneAhead, CellDone
    <2>4. disk'[Plan[k]] = disk[Plan[k]] /\ Plan' = Plan
      BY <1>1, <2>2 DEF CellDone, TypeOK, Plan
    <2>. QED
      BY <2>3, <2>4 DEF Complete, Written
  <1>. QED
    BY <1>1, <1>4, <1>5 DEF IInv, CurrentIsUnfinished, EveryItemIsSomewhere,
                            FinalReportIsWhole, FreshResumesNothing, CellDone, InCell

\* Drawing the charts reads the files and nothing else.
LEMMA RenderKeepsIInv ==
    ASSUME IInv, RenderCharts
    PROVE  IInv'
  <1>. USE DEF RenderCharts, cell
  <1>1. /\ TypeOK /\ CurrentIsUnfinished /\ EveryItemIsSomewhere /\ FinalReportIsWhole
        /\ FreshHasNoneAhead /\ FreshResumesNothing
    BY DEF IInv
  <1>2. Plan' = Plan /\ Current' = Current /\ Asked' = Asked
        /\ \A c : Complete(c)' <=> Complete(c)
    BY DEF Plan, Current, Asked, Complete, Written
  <1>3. TypeOK'
    BY <1>1 DEF TypeOK
  <1>4. CurrentIsUnfinished' /\ FreshHasNoneAhead' /\ FreshResumesNothing'
    BY <1>1, <1>2 DEF CurrentIsUnfinished, FreshHasNoneAhead, FreshResumesNothing
  <1>5. EveryItemIsSomewhere' /\ FinalReportIsWhole'
    BY <1>1, <1>2 DEF EveryItemIsSomewhere, FinalReportIsWhole
  <1>. QED
    BY <1>3, <1>4, <1>5 DEF IInv

LEMMA StutterKeepsIInv ==
    ASSUME IInv, UNCHANGED vars
    PROVE  IInv'
  BY DEF IInv, TypeOK, CurrentIsUnfinished, EveryItemIsSomewhere, FinalReportIsWhole,
         FreshHasNoneAhead, FreshResumesNothing, Plan, Asked, Current, Complete, Written,
         vars, cell

LEMMA Inductive ==
    ASSUME IInv, [Next]_vars
    PROVE  IInv'
  <1>1. CASE Resume
    BY <1>1, ResumeKeepsIInv
  <1>2. CASE \/ LoadFails \/ Abort \/ Finish \/ Interrupt \/ Unwound \/ Kill
             \/ \E r \in ready : CollectRaises(r)
    BY <1>2, LeavingSteps
  <1>3. CASE StartCell
    BY <1>3, StartCellKeepsIInv
  <1>4. CASE WritePartial
    BY <1>4, WritePartialKeepsIInv
  <1>5. CASE AllCollected
    BY <1>5, AllCollectedKeepsIInv
  <1>6. CASE CellDone
    BY <1>6, CellDoneKeepsIInv
  <1>7. CASE \E r \in ready : Collect(r)
    BY <1>7, CollectKeepsIInv
  <1>8. CASE PoolStep
    BY <1>8, RunEndsKeepsIInv DEF PoolStep
  <1>9. CASE \E i \in Items : RunRaises(i)
    BY <1>9, RunRaisesKeepsIInv
  <1>10. CASE \E p \in Profiles, f \in BOOLEAN : Begin(p, f)
    BY <1>10, BeginKeepsIInv
  <1>11. CASE RenderCharts
    BY <1>11, RenderKeepsIInv
  <1>12. CASE UNCHANGED vars
    BY <1>12, StutterKeepsIInv
  <1>. QED
    BY <1>1, <1>2, <1>3, <1>4, <1>5, <1>6, <1>7, <1>8, <1>9, <1>10, <1>11, <1>12
       DEF Next, SweepStep

-----------------------------------------------------------------------------
(* Theorems.                                                               *)

\* The strengthened invariant holds of every behaviour of the sweep.
THEOREM Invariance == Spec => []IInv
  <1>1. Init => IInv
    BY InitIInv
  <1>2. IInv /\ [Next]_vars => IInv'
    BY Inductive
  <1>. QED
    BY <1>1, <1>2, PTL DEF Spec

\* Type correctness: what run_sweep counts stays a number and what is on disk
\* is no file, a torn one or a report, whenever the process is killed.
THEOREM TypeCorrect == Spec => []TypeOK
  <1>1. IInv => TypeOK
    BY DEF IInv
  <1>. QED
    BY <1>1, Invariance, PTL

\* The one check of require_fresh, made before the first cell, keeps a --fresh
\* sweep from resuming anything, however long it runs and whatever fails.
THEOREM FreshMeasuresAll == Spec => []FreshResumesNothing
  <1>1. IInv => FreshResumesNothing
    BY DEF IInv
  <1>. QED
    BY <1>1, Invariance, PTL

\* Whatever run_cell reports as complete covers all the items it was asked for:
\* no order of landing, and no run still in flight, leaves one out.
THEOREM CompleteReportsAreWhole ==
    Spec => [](pc = "finalising" => rows.items = ItemsOf[profile] /\ pending = {})
  <1>1. IInv => (pc = "finalising" => rows.items = ItemsOf[profile] /\ pending = {})
    BY DEF IInv, FinalReportIsWhole, Asked
  <1>. QED
    BY <1>1, Invariance, PTL

-----------------------------------------------------------------------------
(* The sweep implements MeasuredOnce.                                      *)

\* A step that leaves the finished files as they are is a stutter.
LEMMA SameMeasured ==
    ASSUME \A c \in Cells : /\ Complete(c)' <=> Complete(c)
                            /\ Complete(c) => disk'[c] = disk[c]
    PROVE  Measured' = Measured
  BY DEF Measured

LEMMA CellStepStutters ==
    ASSUME IInv, pc \in InCell,
           NEW x \in {Torn, Report(FALSE)}, disk' = [disk EXCEPT ![Current] = x]
    PROVE  Measured' = Measured
  <1>1. TypeOK /\ CurrentIsUnfinished
    BY DEF IInv
  <1>2. Current \in Cells /\ ~Complete(Current)
    BY <1>1, PlanIsASequence DEF CurrentIsUnfinished, Current
  <1>3. \A c \in Cells : Complete(c)' <=> Complete(c)
    BY <1>1, <1>2, OneFileChanges
  <1>4. \A c \in Cells : c # Current => disk'[c] = disk[c]
    BY <1>1 DEF TypeOK
  <1>. QED
    BY <1>2, <1>3, <1>4, SameMeasured

\* The final report of a cell measures it, over the items of one profile.
LEMMA CellDoneMeasures ==
    ASSUME IInv, CellDone, NEW c \in Cells, c = Current
    PROVE  Promise!Measure(c)
  <1>1. TypeOK /\ CurrentIsUnfinished /\ FinalReportIsWhole
    BY DEF IInv
  <1>2. ~Complete(c)
    BY <1>1 DEF CurrentIsUnfinished, CellDone, InCell
  <1>3. /\ disk'[c] = Report(TRUE)
        /\ \A d \in Cells : d # c => disk'[d] = disk[d]
    BY <1>1 DEF TypeOK, CellDone
  <1>4. /\ Report(TRUE) \notin {NoFile, Torn} /\ Report(TRUE).complete
        /\ Report(TRUE).items = rows.items /\ Report(TRUE).cost = rows.cost
    BY <1>1, ReportIsAFile
  <1>5. Complete(c)' /\ \A d \in Cells : d # c => (Complete(d)' <=> Complete(d))
    BY <1>3, <1>4 DEF Complete, Written
  <1>6. Measured[c] = NoFile
    BY <1>2 DEF Measured
  <1>7. Measured'[c] = [items |-> rows.items, cost |-> rows.cost]
    BY <1>3, <1>4, <1>5 DEF Measured
  <1>8. rows.items \in {ItemsOf[p] : p \in Profiles} /\ rows.cost \in Nat
    BY <1>1 DEF TypeOK, Measurements, FinalReportIsWhole, CellDone, Asked
  <1>9. Measured' = [Measured EXCEPT ![c] = Measured'[c]]
    BY <1>3, <1>5 DEF Measured
  <1>. QED
    BY <1>6, <1>7, <1>8, <1>9 DEF Promise!Measure, Promise!Measurements

LEMMA StepImplements ==
    ASSUME IInv, [Next]_vars
    PROVE  [Promise!Next]_Measured
  <1>1. CASE CellDone
    <2>1. Current \in Cells
      BY <1>1, PlanIsASequence DEF IInv, CurrentIsUnfinished, Current, CellDone, InCell
    <2>. QED
      BY <1>1, <2>1, CellDoneMeasures DEF Promise!Next
  <1>2. CASE WritePartial
    BY <1>2, CellStepStutters DEF WritePartial, InCell
  <1>3. CASE AllCollected
    BY <1>3, CellStepStutters DEF AllCollected, InCell
  <1>4. CASE \E r \in ready : Collect(r)
    BY <1>4, CellStepStutters DEF Collect, InCell
  <1>5. CASE disk' = disk
    BY <1>5 DEF Measured, Complete, Written
  <1>6. \/ CellDone \/ WritePartial \/ AllCollected \/ \E r \in ready : Collect(r)
        \/ disk' = disk
    BY DEF Next, SweepStep, PoolStep, vars, Resume, LoadFails, Abort, StartCell, Finish,
           Unwound, CollectRaises, RunEnds, RunRaises, Interrupt, Kill, RenderCharts, Begin
  <1>. QED
    BY <1>1, <1>2, <1>3, <1>4, <1>5, <1>6

\* The sweep implements its promise: through kills, resumes, exceptions and
\* changes of profile, a finished cell file is written once, over one whole
\* item set, and never touched again.
THEOREM Refinement == Spec => ImplementsMeasuredOnce
  <1>1. Init => Promise!Init
    BY DEF Init, Promise!Init, Measured, Complete, Written
  <1>2. IInv /\ [Next]_vars => [Promise!Next]_Measured
    BY StepImplements
  <1>. QED
    BY <1>1, <1>2, Invariance, PTL DEF Spec, Promise!Spec, ImplementsMeasuredOnce

-----------------------------------------------------------------------------
(* Money: what is spent, stored and billed.                                *)
(*                                                                         *)
(* The two sums of Sweep are not inductive by themselves.  MoneyInv adds   *)
(* what is under way: the runs that ended and were not collected belong to *)
(* items that are not pending, each costs at most MaxItemCost, and what    *)
(* was checked against the cap when the cell began is still true of it.    *)

ReadyCost == SumFunctionOnSet([r \in ready |-> r.cost], ready)

CellCost == rows.cost + ReadyCost

PoolIsAsked ==
    /\ IsFiniteSet(ready)
    /\ pc \in InCell => /\ pending \subseteq Asked
                        /\ \A r \in ready : r.item \in Asked \ pending
    /\ pc = "finalising" => ready = {}

CellCostIsBounded ==
    pc \in InCell => CellCost <= Cardinality(Asked \ pending) * MaxItemCost

ProjectionFits == pc \in InCell => Fits

PlanIsNotLeft == index <= Len(Plan) + 1

BilledIsKept ==
    billed <= StoredCost + deaths * (Cardinality(Items) * MaxItemCost)
              + (IF pc \in InCell THEN CellCost ELSE 0)

MoneyInv ==
    /\ PoolIsAsked
    /\ CellCostIsBounded
    /\ ProjectionFits
    /\ PlanIsNotLeft
    /\ SpentIsWhatIsStored
    /\ BilledIsKept

LEMMA TimesMonotone ==
    ASSUME NEW a \in Nat, NEW b \in Nat, NEW m \in Nat, a <= b
    PROVE  a * m <= b * m
  <1>1. (b - a) * m >= 0 /\ b - a \in Nat
    OBVIOUS
  <1>2. b * m = a * m + (b - a) * m
    OBVIOUS
  <1>. QED
    BY <1>1, <1>2

LEMMA TimesNat ==
    ASSUME NEW a \in Nat, NEW b \in Nat
    PROVE  a * b \in Nat
  OBVIOUS

LEMMA TimesOneMore ==
    ASSUME NEW a \in Nat, NEW m \in Nat
    PROVE  (a + 1) * m = a * m + m
  OBVIOUS

LEMMA AskedIsFinite ==
    ASSUME TypeOK
    PROVE  /\ Asked \subseteq Items /\ IsFiniteSet(Asked) /\ Cardinality(Asked) \in Nat
           /\ IsFiniteSet(Items) /\ Cardinality(Items) \in Nat
           /\ \A s : /\ IsFiniteSet(Asked \ s) /\ Cardinality(Asked \ s) \in Nat
                     /\ Cardinality(Asked \ s) <= Cardinality(Asked)
                     /\ Cardinality(Asked \ s) <= Cardinality(Items)
  <1>1. Asked \subseteq Items /\ IsFiniteSet(Items)
    BY PlanIsASequence, SweepAssumption
  <1>2. IsFiniteSet(Asked) /\ Cardinality(Asked) <= Cardinality(Items)
    BY <1>1, FS_Subset
  <1>3. Cardinality(Asked) \in Nat /\ Cardinality(Items) \in Nat
    BY <1>1, <1>2, FS_CardinalityType
  <1>4. ASSUME NEW s
        PROVE  /\ IsFiniteSet(Asked \ s) /\ Cardinality(Asked \ s) \in Nat
               /\ Cardinality(Asked \ s) <= Cardinality(Asked)
    <2>1. Asked \ s \in SUBSET Asked
      OBVIOUS
    <2>. QED
      BY <1>2, <2>1, FS_Subset, FS_CardinalityType
  <1>. QED
    BY <1>1, <1>2, <1>3, <1>4

LEMMA StoredCostIsANumber ==
    ASSUME TypeOK
    PROVE  StoredCost \in Nat
  <1>. DEFINE f == [c \in Cells |-> IF Complete(c) THEN disk[c].cost ELSE 0]
  <1>1. \A c \in Cells : f[c] \in Nat
    BY CompleteIsAFile
  <1>. HIDE DEF f
  <1>2. SumFunctionOnSet(f, Cells) \in Nat
    BY <1>1, SweepAssumption, SumNat
  <1>. QED
    BY <1>2 DEF StoredCost, f

LEMMA ReadyCostIsANumber ==
    ASSUME TypeOK, IsFiniteSet(ready)
    PROVE  ReadyCost \in Nat
  <1>. DEFINE f == [r \in ready |-> r.cost]
  <1>1. \A r \in ready : f[r] \in Nat
    BY SweepAssumption DEF TypeOK
  <1>. HIDE DEF f
  <1>2. SumFunctionOnSet(f, ready) \in Nat
    BY <1>1, SumNat
  <1>. QED
    BY <1>2 DEF ReadyCost, f

LEMMA NoneReadyCostsNothing ==
    ASSUME ready = {}
    PROVE  ReadyCost = 0
  BY SumEmpty DEF ReadyCost

LEMMA NumbersOfTheCell ==
    ASSUME TypeOK, IsFiniteSet(ready)
    PROVE  /\ rows.cost \in Nat /\ ReadyCost \in Nat /\ CellCost \in Nat
           /\ StoredCost \in Nat /\ MaxItemCost \in Nat /\ billed \in Nat /\ deaths \in Nat
           /\ Cardinality(Items) * MaxItemCost \in Nat
           /\ deaths * (Cardinality(Items) * MaxItemCost) \in Nat
  <1>1. rows.cost \in Nat /\ billed \in Nat /\ deaths \in Nat /\ MaxItemCost \in Nat
    BY SweepAssumption DEF TypeOK, Measurements
  <1>2. ReadyCost \in Nat /\ StoredCost \in Nat
    BY ReadyCostIsANumber, StoredCostIsANumber
  <1>3. Cardinality(Items) * MaxItemCost \in Nat
    BY <1>1, AskedIsFinite, TimesNat
  <1>. QED
    BY <1>1, <1>2, <1>3, TimesNat DEF CellCost

-----------------------------------------------------------------------------
(* What leaves the sums as they are.                                       *)

LEMMA StoredCostSame ==
    ASSUME TypeOK, TypeOK',
           \A c \in Cells : /\ Complete(c)' <=> Complete(c)
                            /\ Complete(c) => disk'[c] = disk[c]
    PROVE  StoredCost' = StoredCost
  <1>. DEFINE f == [c \in Cells |-> IF Complete(c) THEN disk[c].cost ELSE 0]
              g == [c \in Cells |-> IF Complete(c)' THEN disk'[c].cost ELSE 0]
  <1>1. \A c \in Cells : f[c] = g[c]
    OBVIOUS
  <1>2. StoredCost = SumFunctionOnSet(f, Cells) /\ StoredCost' = SumFunctionOnSet(g, Cells)
    BY DEF StoredCost
  <1>. HIDE DEF f, g
  <1>. QED
    BY <1>1, <1>2, SweepAssumption, SumSame

LEMMA PlaceBehindIsInThePlan ==
    ASSUME TypeOK, PlanIsNotLeft, NEW k \in 1..(index - 1)
    PROVE  k \in DOMAIN Plan /\ Plan[k] \in Cells /\ (index <= Len(Plan) => Plan[k] # Current)
  BY PlanIsASequence DEF PlanIsNotLeft, Current

LEMMA SpentSame ==
    ASSUME TypeOK, SpentIsWhatIsStored, PlanIsNotLeft,
           UNCHANGED <<profile, index, spent>>,
           \A k \in 1..(index - 1) : disk'[Plan[k]] = disk[Plan[k]]
    PROVE  SpentIsWhatIsStored'
  <1>. DEFINE f == [k \in 1..(index - 1) |-> disk[Plan[k]].cost]
              g == [k \in 1..(index - 1) |-> disk'[Plan[k]].cost]
  <1>1. Plan' = Plan
    BY DEF Plan
  <1>2. \A k \in 1..(index - 1) : Complete(Plan[k])'
    BY <1>1 DEF SpentIsWhatIsStored, Complete, Written
  <1>3. f = g
    OBVIOUS
  <1>4. spent = SumFunctionOnSet(f, 1..(index - 1))
    BY DEF SpentIsWhatIsStored
  <1>. HIDE DEF f
  <1>5. spent' = SumFunctionOnSet(g, 1..(index' - 1))
    BY <1>3, <1>4
  <1>6. g = [k \in 1..(index' - 1) |-> disk'[Plan'[k]].cost]
    BY <1>1
  <1>. HIDE DEF g
  <1>. QED
    BY <1>1, <1>2, <1>5, <1>6 DEF SpentIsWhatIsStored

LEMMA FitsSame ==
    ASSUME UNCHANGED <<profile, index, spent>>, Fits
    PROVE  Fits'
  <1>1. Plan' = Plan /\ Asked' = Asked
    BY DEF Plan, Asked
  <1>2. Remaining' = Remaining
    BY <1>1 DEF Remaining
  <1>. QED
    BY <1>2 DEF Fits

LEMMA ReadyCostSame ==
    ASSUME ready' = ready
    PROVE  ReadyCost' = ReadyCost
  BY DEF ReadyCost

\* A step that writes to the cell being run, and does not finish it, changes no sum.
LEMMA UnfinishedFileCountsForNothing ==
    ASSUME IInv, IInv', MoneyInv, pc \in InCell,
           NEW x \in {Torn, Report(FALSE)}, disk' = [disk EXCEPT ![Current] = x],
           UNCHANGED <<profile, index, spent>>
    PROVE  StoredCost' = StoredCost /\ SpentIsWhatIsStored'
  <1>1. TypeOK /\ TypeOK' /\ CurrentIsUnfinished /\ PlanIsNotLeft /\ SpentIsWhatIsStored
    BY DEF IInv, MoneyInv
  <1>2. index <= Len(Plan) /\ Current \in Cells /\ ~Complete(Current)
    BY <1>1, PlanIsASequence DEF CurrentIsUnfinished, Current
  <1>3. \A c \in Cells : c # Current => disk'[c] = disk[c]
    BY <1>1 DEF TypeOK
  <1>4. \A c \in Cells : Complete(c)' <=> Complete(c)
    BY <1>1, <1>2, OneFileChanges
  <1>5. StoredCost' = StoredCost
    BY <1>1, <1>2, <1>3, <1>4, StoredCostSame
  <1>6. \A k \in 1..(index - 1) : disk'[Plan[k]] = disk[Plan[k]]
    BY <1>1, <1>2, <1>3, PlaceBehindIsInThePlan
  <1>. QED
    BY <1>1, <1>5, <1>6, SpentSame

\* A step that leaves the files alone changes no sum either.
LEMMA SameFilesSameSums ==
    ASSUME IInv, IInv', MoneyInv, UNCHANGED <<disk, profile, index, spent>>
    PROVE  StoredCost' = StoredCost /\ SpentIsWhatIsStored' /\ PlanIsNotLeft'
           /\ Plan' = Plan /\ Asked' = Asked
  <1>1. TypeOK /\ TypeOK' /\ PlanIsNotLeft /\ SpentIsWhatIsStored
    BY DEF IInv, MoneyInv
  <1>2. Plan' = Plan /\ Asked' = Asked
    BY DEF Plan, Asked
  <1>3. StoredCost' = StoredCost
    BY <1>1, StoredCostSame DEF Complete, Written
  <1>4. SpentIsWhatIsStored'
    BY <1>1, SpentSame
  <1>. QED
    BY <1>1, <1>2, <1>3, <1>4 DEF PlanIsNotLeft

-----------------------------------------------------------------------------
(* The steps.                                                              *)

LEMMA InitMoneyInv ==
    ASSUME Init
    PROVE  MoneyInv
  <1>. USE DEF Init
  <1>1. TypeOK
    BY InitIInv DEF IInv
  <1>2. PoolIsAsked /\ CellCostIsBounded /\ ProjectionFits
    BY FS_EmptySet DEF PoolIsAsked, CellCostIsBounded, ProjectionFits, InCell
  <1>3. PlanIsNotLeft
    BY <1>1, PlanIsASequence DEF PlanIsNotLeft
  <1>4. SpentIsWhatIsStored
    <2>1. 1..(index - 1) = {}
      OBVIOUS
    <2>. QED
      BY <2>1, SumEmpty DEF SpentIsWhatIsStored
  <1>5. BilledIsKept
    <2>1. IsFiniteSet(ready)
      BY FS_EmptySet
    <2>. QED
      BY <1>1, <2>1, NumbersOfTheCell DEF BilledIsKept, InCell
  <1>. QED
    BY <1>2, <1>3, <1>4, <1>5 DEF MoneyInv

\* Leaving a cell, by an exception or a kill, is one more death: what the cell
\* billed is within what one cell may lose.
LEMMA LeavingMoneyInv ==
    ASSUME IInv, IInv', MoneyInv,
           \/ LoadFails \/ Abort \/ Finish \/ Interrupt \/ Unwound \/ Kill
           \/ \E r \in ready : CollectRaises(r)
    PROVE  MoneyInv'
  <1>1. /\ UNCHANGED <<disk, profile, index, spent, pending, ready, rows, billed>>
        /\ pc' = "off" \/ (pc' = "unwinding" /\ pc \in InCell)
        /\ deaths' = IF pc \in InCell /\ pc' = "off" THEN deaths + 1 ELSE deaths
    BY DEF LoadFails, Abort, Finish, Interrupt, CollectRaises, Unwound, Kill, End, InCell, cell
  <1>2. TypeOK /\ TypeOK'
    BY DEF IInv
  <1>3. /\ StoredCost' = StoredCost /\ SpentIsWhatIsStored' /\ PlanIsNotLeft'
        /\ Asked' = Asked
    BY <1>1, SameFilesSameSums
  <1>4. CellCost' = CellCost
    BY <1>1, ReadyCostSame DEF CellCost
  <1>5. PoolIsAsked' /\ CellCostIsBounded'
    BY <1>1, <1>3, <1>4 DEF MoneyInv, PoolIsAsked, CellCostIsBounded, InCell
  <1>6. ProjectionFits'
    BY <1>1, FitsSame DEF MoneyInv, ProjectionFits, InCell
  <1>7. BilledIsKept'
    <2>. DEFINE C == Cardinality(Items) * MaxItemCost
    <2>1. IsFiniteSet(ready)
      BY DEF MoneyInv, PoolIsAsked
    <2>2. /\ CellCost \in Nat /\ StoredCost \in Nat /\ C \in Nat /\ deaths \in Nat
          /\ billed \in Nat /\ deaths * C \in Nat /\ MaxItemCost \in Nat
      BY <1>2, <2>1, NumbersOfTheCell
    <2>3. billed <= StoredCost + deaths * C + (IF pc \in InCell THEN CellCost ELSE 0)
      BY DEF MoneyInv, BilledIsKept
    <2>4. pc \in InCell => CellCost <= C
      <3>1. /\ Cardinality(Asked \ pending) \in Nat /\ Cardinality(Items) \in Nat
            /\ Cardinality(Asked \ pending) <= Cardinality(Items)
        BY <1>2, AskedIsFinite
      <3>2. Cardinality(Asked \ pending) * MaxItemCost \in Nat
            /\ Cardinality(Asked \ pending) * MaxItemCost <= C
        BY <2>2, <3>1, TimesMonotone, TimesNat
      <3>. HIDE DEF C
      <3>. QED
        BY <2>2, <3>2 DEF MoneyInv, CellCostIsBounded
    <2>5. (deaths + 1) * C = deaths * C + C
      BY <2>2, TimesOneMore
    <2>6. SUFFICES billed <= StoredCost + deaths' * C
                             + (IF pc' \in InCell THEN CellCost ELSE 0)
      BY <1>1, <1>3, <1>4 DEF BilledIsKept
    <2>. HIDE DEF C
    <2>7. CASE pc \in InCell /\ pc' = "off"
      <3>1. deaths' * C = deaths * C + C /\ pc' \notin InCell
        BY <1>1, <2>5, <2>7 DEF InCell
      <3>. QED
        BY <2>2, <2>3, <2>4, <2>7, <3>1
    <2>8. CASE ~(pc \in InCell /\ pc' = "off")
      <3>1. deaths' = deaths /\ (pc' \in InCell <=> pc \in InCell)
        BY <1>1, <2>8 DEF InCell
      <3>. QED
        BY <2>3, <3>1
    <2>. QED
      BY <2>7, <2>8
  <1>. QED
    BY <1>3, <1>5, <1>6, <1>7 DEF MoneyInv

LEMMA BeginMoneyInv ==
    ASSUME IInv, IInv', MoneyInv, NEW p \in Profiles, NEW f \in BOOLEAN, Begin(p, f)
    PROVE  MoneyInv'
  <1>1. /\ UNCHANGED <<disk, billed, deaths>>
        /\ index' = 1 /\ spent' = 0 /\ ready' = {}
        /\ pc \notin InCell /\ pc' \in {"off", "next"}
    BY DEF Begin, End, InCell
  <1>2. TypeOK /\ TypeOK'
    BY DEF IInv
  <1>3. PoolIsAsked' /\ CellCostIsBounded' /\ ProjectionFits'
    BY <1>1, FS_EmptySet DEF PoolIsAsked, CellCostIsBounded, ProjectionFits, InCell
  <1>4. PlanIsNotLeft'
    <2>1. Len(Plan)' \in Nat
      BY <1>2, SweepAssumption, LenProperties DEF Plan, TypeOK
    <2>. QED
      BY <1>1, <2>1 DEF PlanIsNotLeft
  <1>5. SpentIsWhatIsStored'
    <2>1. 1..(index' - 1) = {}
      BY <1>1
    <2>. QED
      BY <1>1, <2>1, SumEmpty DEF SpentIsWhatIsStored
  <1>6. BilledIsKept'
    <2>1. StoredCost' = StoredCost
      BY <1>1, <1>2, StoredCostSame DEF Complete, Written
    <2>. QED
      BY <1>1, <2>1 DEF MoneyInv, BilledIsKept, InCell
  <1>. QED
    BY <1>3, <1>4, <1>5, <1>6 DEF MoneyInv

\* A finished cell joins the plan behind: what is spent grows by its cost.
FinishedFile(x) == x \notin {NoFile, Torn} /\ x.complete

LEMMA SpentGrows ==
    ASSUME IInv, IInv', MoneyInv, index <= Len(Plan),
           UNCHANGED profile, index' = index + 1, FinishedFile(disk'[Current]),
           \A k \in 1..(index - 1) : disk'[Plan[k]] = disk[Plan[k]],
           spent' = spent + disk'[Current].cost
    PROVE  SpentIsWhatIsStored' /\ PlanIsNotLeft'
  <1>. DEFINE f == [k \in 1..(index - 1) |-> disk[Plan[k]].cost]
              g == [k \in 1..index |-> disk'[Plan[k]].cost]
  <1>1. TypeOK /\ TypeOK' /\ SpentIsWhatIsStored /\ PlanIsNotLeft
    BY DEF IInv, MoneyInv
  <1>2. Plan' = Plan /\ index \in Nat \ {0} /\ Len(Plan) \in Nat
    BY <1>1, PlanIsASequence DEF Plan
  <1>3. \A k \in 1..index : Plan[k] \in Cells /\ FinishedFile(disk'[Plan[k]])
    <2>1. ASSUME NEW k \in 1..(index - 1)
          PROVE  Plan[k] \in Cells /\ FinishedFile(disk'[Plan[k]])
      BY <1>1, PlaceBehindIsInThePlan DEF SpentIsWhatIsStored, Complete, Written, FinishedFile
    <2>2. Plan[index] \in Cells /\ FinishedFile(disk'[Plan[index]])
      BY <1>1, <1>2, PlanIsASequence DEF Current
    <2>. QED
      BY <1>2, <2>1, <2>2
  <1>4. \A k \in 1..index : disk'[Plan[k]].cost \in Nat
    BY <1>1, <1>3 DEF TypeOK, CellFiles, FinishedFile
  <1>5. \A k \in 1..index : g[k] \in Nat
    BY <1>4
  <1>6. \A k \in 1..(index - 1) : f[k] = g[k]
    BY <1>2
  <1>7. g[index] = disk'[Current].cost
    BY <1>2 DEF Current
  <1>8. spent = SumFunctionOnSet(f, 1..(index - 1))
    BY <1>1 DEF SpentIsWhatIsStored
  <1>9. g = [k \in 1..(index' - 1) |-> disk'[Plan'[k]].cost]
    BY <1>2
  <1>. HIDE DEF f, g
  <1>10. SumFunctionOnSet(f, 1..(index - 1)) = SumFunctionOnSet(g, 1..(index - 1))
    <2>1. IsFiniteSet(1..(index - 1))
      BY <1>2, FS_Interval
    <2>. QED
      BY <1>6, <2>1, SumSame
  <1>11. SumFunctionOnSet(g, 1..index) = g[index] + SumFunctionOnSet(g, 1..(index - 1))
    <2>1. index - 1 \in Nat /\ (index - 1) + 1 = index
      BY <1>2
    <2>2. \A k \in 1..((index - 1) + 1) : g[k] \in Nat
      BY <1>5, <2>1
    <2>3. SumFunctionOnSet(g, 1..((index - 1) + 1)) =
              g[(index - 1) + 1] + SumFunctionOnSet(g, 1..(index - 1))
      BY <2>1, <2>2, SumLast
    <2>. QED
      BY <2>1, <2>3
  <1>12. SumFunctionOnSet(g, 1..(index - 1)) \in Nat /\ g[index] \in Nat
    <2>1. spent \in Nat /\ index \in 1..index
      BY <1>1, <1>2 DEF TypeOK
    <2>. QED
      BY <1>5, <1>8, <1>10, <2>1
  <1>13. spent' = SumFunctionOnSet(g, 1..(index' - 1))
    <2>1. index' - 1 = index
      BY <1>2
    <2>. QED
      BY <1>7, <1>8, <1>10, <1>11, <1>12, <2>1
  <1>14. \A k \in 1..(index' - 1) : Complete(Plan[k])'
    BY <1>2, <1>3 DEF Complete, Written, FinishedFile
  <1>. QED
    BY <1>2, <1>9, <1>13, <1>14 DEF SpentIsWhatIsStored, PlanIsNotLeft

LEMMA ResumeMoneyInv ==
    ASSUME IInv, IInv', MoneyInv, Resume
    PROVE  MoneyInv'
  <1>. USE DEF Resume, cell
  <1>1. TypeOK /\ TypeOK'
    BY DEF IInv
  <1>2. FinishedFile(disk'[Current]) /\ disk'[Current].cost = disk[Current].cost
    BY DEF Complete, Written, FinishedFile
  <1>3. SpentIsWhatIsStored' /\ PlanIsNotLeft'
    BY <1>2, SpentGrows
  <1>4. PoolIsAsked' /\ CellCostIsBounded' /\ ProjectionFits'
    BY DEF MoneyInv, PoolIsAsked, CellCostIsBounded, ProjectionFits, InCell
  <1>5. StoredCost' = StoredCost
    BY <1>1, StoredCostSame DEF Complete, Written
  <1>. QED
    BY <1>3, <1>4, <1>5 DEF MoneyInv, BilledIsKept, InCell

LEMMA StartCellMoneyInv ==
    ASSUME IInv, IInv', MoneyInv, StartCell
    PROVE  MoneyInv'
  <1>. USE DEF StartCell
  <1>1. TypeOK /\ TypeOK'
    BY DEF IInv
  <1>2. StoredCost' = StoredCost /\ SpentIsWhatIsStored' /\ PlanIsNotLeft' /\ Asked' = Asked
    BY SameFilesSameSums
  <1>3. PoolIsAsked'
    BY <1>2, FS_EmptySet DEF PoolIsAsked
  <1>4. CellCost' = 0
    <2>1. ReadyCost' = 0
      BY SumEmpty DEF ReadyCost
    <2>. QED
      BY <2>1 DEF CellCost, NoRows
  <1>5. CellCostIsBounded'
    <2>1. Cardinality(Asked \ Asked) \in Nat /\ MaxItemCost \in Nat
      BY <1>1, AskedIsFinite, SweepAssumption
    <2>2. Cardinality(Asked \ Asked) * MaxItemCost \in Nat
      BY <2>1, TimesNat
    <2>. QED
      BY <1>2, <1>4, <2>2 DEF CellCostIsBounded
  <1>6. ProjectionFits'
    BY FitsSame DEF ProjectionFits
  <1>7. BilledIsKept'
    BY <1>2, <1>4 DEF MoneyInv, BilledIsKept, InCell
  <1>. QED
    BY <1>2, <1>3, <1>5, <1>6, <1>7 DEF MoneyInv

\* A run that lands moves one item, and its cost, from the pool to what is ready.
LEMMA RunLandsMoneyInv ==
    ASSUME IInv, IInv', MoneyInv, pc \in InCell,
           NEW i \in pending, NEW r, r.item = i, r.cost \in 0..MaxItemCost,
           pending' = pending \ {i}, ready' = ready \cup {r}, billed' = billed + r.cost,
           UNCHANGED <<disk, pc, profile, index, spent, rows, deaths>>
    PROVE  MoneyInv'
  <1>1. TypeOK /\ TypeOK' /\ PoolIsAsked
    BY DEF IInv, MoneyInv
  <1>2. StoredCost' = StoredCost /\ SpentIsWhatIsStored' /\ PlanIsNotLeft' /\ Asked' = Asked
    BY SameFilesSameSums
  <1>3. /\ i \in Asked /\ i \notin Asked \ pending /\ r \notin ready
        /\ Asked \ pending' = (Asked \ pending) \cup {i}
    BY <1>1 DEF PoolIsAsked
  <1>4. IsFiniteSet(ready) /\ IsFiniteSet(ready')
    BY <1>1, FS_AddElement DEF PoolIsAsked
  <1>5. PoolIsAsked'
    <2>1. pc # "finalising"
      BY <1>1 DEF IInv, FinalReportIsWhole
    <2>. QED
      BY <1>1, <1>2, <1>3, <1>4, <2>1 DEF PoolIsAsked
  <1>6. CellCost' = CellCost + r.cost
    <2>. DEFINE f == [x \in ready |-> x.cost]
                g == [x \in ready' |-> x.cost]
    <2>1. \A x \in ready' : g[x] \in Nat
      BY <1>1, SweepAssumption DEF TypeOK
    <2>2. \A x \in ready : f[x] = g[x]
      OBVIOUS
    <2>3. g[r] = r.cost /\ r \in ready'
      OBVIOUS
    <2>4. ReadyCost = SumFunctionOnSet(f, ready) /\ ReadyCost' = SumFunctionOnSet(g, ready')
      BY DEF ReadyCost
    <2>. HIDE DEF f, g
    <2>5. SumFunctionOnSet(f, ready) = SumFunctionOnSet(g, ready)
      BY <1>4, <2>2, SumSame
    <2>6. SumFunctionOnSet(g, ready \cup {r}) = g[r] + SumFunctionOnSet(g, ready)
      BY <1>3, <1>4, <2>1, <2>3, SumAdd
    <2>7. ReadyCost \in Nat /\ rows.cost \in Nat /\ r.cost \in Nat
      BY <1>1, <1>4, NumbersOfTheCell, SweepAssumption
    <2>. QED
      BY <2>3, <2>4, <2>5, <2>6, <2>7 DEF CellCost
  <1>. DEFINE n == Cardinality(Asked \ pending)
              C == Cardinality(Items) * MaxItemCost
  <1>7. /\ CellCost \in Nat /\ r.cost \in Nat /\ r.cost <= MaxItemCost /\ MaxItemCost \in Nat
        /\ n \in Nat /\ StoredCost \in Nat /\ billed \in Nat /\ deaths * C \in Nat
    <2>1. n \in Nat
      BY <1>1, AskedIsFinite
    <2>2. /\ CellCost \in Nat /\ MaxItemCost \in Nat /\ StoredCost \in Nat
          /\ billed \in Nat /\ deaths * C \in Nat
      BY <1>1, <1>4, NumbersOfTheCell
    <2>. HIDE DEF n, C
    <2>. QED
      BY <2>1, <2>2
  <1>8. CellCostIsBounded'
    <2>1. Cardinality(Asked' \ pending') = n + 1
      <3>1. IsFiniteSet(Asked \ pending)
        BY <1>1, AskedIsFinite
      <3>. QED
        BY <1>2, <1>3, <3>1, FS_AddElement
    <2>2. CellCost <= n * MaxItemCost
      BY DEF MoneyInv, CellCostIsBounded
    <2>. HIDE DEF n
    <2>3. n * MaxItemCost \in Nat /\ (n + 1) * MaxItemCost = n * MaxItemCost + MaxItemCost
      BY <1>7, TimesNat, TimesOneMore
    <2>4. CellCost + r.cost <= (n + 1) * MaxItemCost
      BY <1>7, <2>2, <2>3
    <2>. QED
      BY <1>6, <2>1, <2>4 DEF CellCostIsBounded
  <1>9. ProjectionFits'
    BY FitsSame DEF MoneyInv, ProjectionFits
  <1>10. BilledIsKept'
    <2>1. billed <= StoredCost + deaths * C + CellCost
      BY DEF MoneyInv, BilledIsKept
    <2>. HIDE DEF C
    <2>2. billed + r.cost <= StoredCost + deaths * C + (CellCost + r.cost)
      BY <1>7, <2>1
    <2>. USE DEF C
    <2>. QED
      BY <1>2, <1>6, <2>2 DEF BilledIsKept
  <1>. QED
    BY <1>2, <1>5, <1>8, <1>9, <1>10 DEF MoneyInv

LEMMA PoolMoneyInv ==
    ASSUME IInv, IInv', MoneyInv, PoolStep \/ \E i \in Items : RunRaises(i)
    PROVE  MoneyInv'
  <1>1. ASSUME NEW i \in Items, NEW cost \in 0..MaxItemCost, RunEnds(i, cost)
        PROVE  MoneyInv'
    <2>. DEFINE r == [item |-> i, cost |-> cost, raised |-> FALSE]
    <2>1. r.item = i /\ r.cost = cost
      OBVIOUS
    <2>. QED
      BY <1>1, <2>1, RunLandsMoneyInv DEF RunEnds
  <1>2. ASSUME NEW i \in Items, RunRaises(i)
        PROVE  MoneyInv'
    <2>. DEFINE r == [item |-> i, cost |-> 0, raised |-> TRUE]
    <2>1. r.item = i /\ r.cost = 0 /\ 0 \in 0..MaxItemCost
      BY SweepAssumption
    <2>2. billed' = billed + r.cost
      BY <1>2, <2>1 DEF RunRaises, IInv, TypeOK
    <2>. QED
      BY <1>2, <2>1, <2>2, RunLandsMoneyInv DEF RunRaises
  <1>. QED
    BY <1>1, <1>2 DEF PoolStep

\* Collecting a run moves its cost from what is ready to the rows.
LEMMA CollectMoneyInv ==
    ASSUME IInv, IInv', MoneyInv, NEW r \in ready, Collect(r)
    PROVE  MoneyInv'
  <1>1. TypeOK /\ TypeOK' /\ PoolIsAsked /\ IsFiniteSet(ready)
    BY DEF IInv, MoneyInv, PoolIsAsked
  <1>2. /\ pc \in InCell /\ pc' \in InCell /\ pc' # "finalising"
        /\ ready' = ready \ {r} /\ rows'.cost = rows.cost + r.cost
        /\ disk' = [disk EXCEPT ![Current] = Torn]
        /\ UNCHANGED <<profile, index, spent, pending, billed, deaths>>
    BY DEF Collect, InCell
  <1>3. Asked' = Asked /\ Plan' = Plan
    BY <1>2 DEF Asked, Plan
  <1>4. StoredCost' = StoredCost /\ SpentIsWhatIsStored'
    BY <1>2, UnfinishedFileCountsForNothing
  <1>5. IsFiniteSet(ready')
    BY <1>1, <1>2, FS_RemoveElement
  <1>6. PoolIsAsked'
    BY <1>1, <1>2, <1>3, <1>5 DEF PoolIsAsked
  <1>7. CellCost' = CellCost
    <2>. DEFINE f == [x \in ready |-> x.cost]
                g == [x \in ready' |-> x.cost]
    <2>1. \A x \in ready : f[x] \in Nat
      BY <1>1, SweepAssumption DEF TypeOK
    <2>2. \A x \in ready' : f[x] = g[x]
      BY <1>2
    <2>3. f[r] = r.cost
      OBVIOUS
    <2>4. ReadyCost = SumFunctionOnSet(f, ready) /\ ReadyCost' = SumFunctionOnSet(g, ready')
      BY DEF ReadyCost
    <2>. HIDE DEF f, g
    <2>5. SumFunctionOnSet(f, ready') = SumFunctionOnSet(g, ready')
      BY <1>5, <2>2, SumSame
    <2>6. SumFunctionOnSet(f, ready) = f[r] + SumFunctionOnSet(f, ready \ {r})
      BY <1>1, <2>1, SumRemove
    <2>7. ReadyCost' \in Nat /\ rows.cost \in Nat /\ r.cost \in Nat
      <3>1. rows.cost \in Nat /\ r.cost \in Nat
        BY <1>1, NumbersOfTheCell, SweepAssumption DEF TypeOK
      <3>2. \A x \in ready' : f[x] \in Nat
        BY <1>2, <2>1
      <3>3. SumFunctionOnSet(f, ready') \in Nat
        BY <1>5, <3>2, SumNat
      <3>. QED
        BY <2>4, <2>5, <3>1, <3>3
    <2>8. ReadyCost = r.cost + ReadyCost'
      BY <1>2, <2>3, <2>4, <2>5, <2>6
    <2>. QED
      BY <1>2, <2>7, <2>8 DEF CellCost
  <1>8. CellCostIsBounded'
    BY <1>2, <1>3, <1>7 DEF MoneyInv, CellCostIsBounded
  <1>9. ProjectionFits' /\ PlanIsNotLeft'
    BY <1>2, <1>3, FitsSame DEF MoneyInv, ProjectionFits, PlanIsNotLeft
  <1>10. BilledIsKept'
    BY <1>2, <1>4, <1>7 DEF MoneyInv, BilledIsKept
  <1>. QED
    BY <1>4, <1>6, <1>8, <1>9, <1>10 DEF MoneyInv

LEMMA WriteMoneyInv ==
    ASSUME IInv, IInv', MoneyInv, WritePartial \/ AllCollected
    PROVE  MoneyInv'
  <1>1. /\ pc \in InCell /\ pc' \in InCell
        /\ \E x \in {Torn, Report(FALSE)} : disk' = [disk EXCEPT ![Current] = x]
        /\ UNCHANGED <<profile, index, spent, pending, ready, rows, billed, deaths>>
        /\ pc' = "finalising" => ready = {}
    BY DEF WritePartial, AllCollected, cell, InCell
  <1>2. Asked' = Asked /\ Plan' = Plan
    BY <1>1 DEF Asked, Plan
  <1>3. StoredCost' = StoredCost /\ SpentIsWhatIsStored'
    BY <1>1, UnfinishedFileCountsForNothing
  <1>4. CellCost' = CellCost
    BY <1>1, ReadyCostSame DEF CellCost
  <1>5. PoolIsAsked' /\ CellCostIsBounded'
    BY <1>1, <1>2, <1>4 DEF MoneyInv, PoolIsAsked, CellCostIsBounded
  <1>6. ProjectionFits' /\ PlanIsNotLeft'
    BY <1>1, <1>2, FitsSame DEF MoneyInv, ProjectionFits, PlanIsNotLeft
  <1>7. BilledIsKept'
    BY <1>1, <1>3, <1>4 DEF MoneyInv, BilledIsKept
  <1>. QED
    BY <1>3, <1>5, <1>6, <1>7 DEF MoneyInv

\* The final report moves what the cell cost from the pool to the store.
LEMMA CellDoneMoneyInv ==
    ASSUME IInv, IInv', MoneyInv, CellDone
    PROVE  MoneyInv'
  <1>1. TypeOK /\ TypeOK' /\ CurrentIsUnfinished /\ PoolIsAsked /\ PlanIsNotLeft
    BY DEF IInv, MoneyInv
  <1>2. pc \in InCell /\ pc' \notin InCell /\ ready = {} /\ ready' = {}
    BY <1>1 DEF CellDone, cell, PoolIsAsked, InCell
  <1>3. index <= Len(Plan) /\ Current \in Cells /\ ~Complete(Current)
    BY <1>1, <1>2, PlanIsASequence DEF CurrentIsUnfinished, Current
  <1>4. disk'[Current] = Report(TRUE) /\ \A c \in Cells : c # Current => disk'[c] = disk[c]
    BY <1>1, <1>3 DEF TypeOK, CellDone
  <1>5. FinishedFile(disk'[Current]) /\ disk'[Current].cost = rows.cost /\ rows.cost \in Nat
    BY <1>1, <1>4, ReportIsAFile DEF FinishedFile, TypeOK, Measurements
  <1>6. SpentIsWhatIsStored' /\ PlanIsNotLeft'
    <2>1. \A k \in 1..(index - 1) : disk'[Plan[k]] = disk[Plan[k]]
      BY <1>1, <1>3, <1>4, PlaceBehindIsInThePlan
    <2>. QED
      BY <1>3, <1>5, <2>1, SpentGrows DEF CellDone
  <1>7. PoolIsAsked' /\ CellCostIsBounded' /\ ProjectionFits'
    BY <1>1, <1>2 DEF PoolIsAsked, CellCostIsBounded, ProjectionFits, CellDone
  <1>8. StoredCost' = StoredCost + rows.cost
    <2>. DEFINE f == [c \in Cells |-> IF Complete(c) THEN disk[c].cost ELSE 0]
                g == [c \in Cells |-> IF Complete(c)' THEN disk'[c].cost ELSE 0]
    <2>1. \A c \in Cells : f[c] \in Nat
      BY <1>1, CompleteIsAFile
    <2>2. \A c \in Cells : c # Current => f[c] = g[c]
      BY <1>4 DEF Complete, Written
    <2>3. f[Current] = 0 /\ g[Current] = rows.cost
      BY <1>3, <1>5 DEF Complete, Written, FinishedFile
    <2>4. \A c \in Cells : g[c] \in Nat
      <3>. HIDE DEF f, g
      <3>. QED
        BY <1>5, <2>1, <2>2, <2>3
    <2>5. StoredCost = SumFunctionOnSet(f, Cells) /\ StoredCost' = SumFunctionOnSet(g, Cells)
      BY DEF StoredCost
    <2>. HIDE DEF f, g
    <2>6. SumFunctionOnSet(g, Cells) + f[Current] = SumFunctionOnSet(f, Cells) + g[Current]
      <3>1. \A c \in Cells : f[c] \in Nat /\ g[c] \in Nat
        BY <2>1, <2>4
      <3>2. IsFiniteSet(Cells) /\ Current \in Cells
        BY <1>3, SweepAssumption
      <3>. HIDE DEF Current
      <3>. QED
        BY <2>2, <3>1, <3>2, SumUpdate
    <2>7. StoredCost' \in Nat
      BY <2>4, <2>5, SumNat, SweepAssumption
    <2>. QED
      BY <2>3, <2>5, <2>6, <2>7
  <1>9. BilledIsKept'
    <2>. DEFINE C == Cardinality(Items) * MaxItemCost
    <2>1. CellCost = rows.cost + 0
      BY <1>2, NoneReadyCostsNothing DEF CellCost
    <2>2. billed <= StoredCost + deaths * C + CellCost
      BY <1>2 DEF MoneyInv, BilledIsKept
    <2>3. /\ StoredCost \in Nat /\ deaths * C \in Nat /\ billed \in Nat
          /\ billed' = billed /\ deaths' = deaths
      BY <1>1, NumbersOfTheCell DEF PoolIsAsked, CellDone
    <2>. HIDE DEF C
    <2>4. billed' <= StoredCost' + deaths' * C + 0
      BY <1>5, <1>8, <2>1, <2>2, <2>3
    <2>. USE DEF C
    <2>. QED
      BY <1>2, <2>4 DEF BilledIsKept
  <1>. QED
    BY <1>6, <1>7, <1>9 DEF MoneyInv

LEMMA RenderMoneyInv ==
    ASSUME IInv, IInv', MoneyInv, RenderCharts \/ UNCHANGED vars
    PROVE  MoneyInv'
  <1>1. UNCHANGED <<disk, pc, profile, index, spent, pending, ready, rows, billed, deaths>>
    BY DEF RenderCharts, vars, cell
  <1>2. /\ StoredCost' = StoredCost /\ SpentIsWhatIsStored' /\ PlanIsNotLeft'
        /\ Asked' = Asked
    BY <1>1, SameFilesSameSums
  <1>3. CellCost' = CellCost
    BY <1>1, ReadyCostSame DEF CellCost
  <1>4. PoolIsAsked' /\ CellCostIsBounded'
    BY <1>1, <1>2, <1>3 DEF MoneyInv, PoolIsAsked, CellCostIsBounded
  <1>5. ProjectionFits'
    BY <1>1, FitsSame DEF MoneyInv, ProjectionFits
  <1>6. BilledIsKept'
    BY <1>1, <1>2, <1>3 DEF MoneyInv, BilledIsKept
  <1>. QED
    BY <1>2, <1>4, <1>5, <1>6 DEF MoneyInv

LEMMA MoneyInductive ==
    ASSUME IInv, IInv', MoneyInv, [Next]_vars
    PROVE  MoneyInv'
  <1>1. CASE Resume
    BY <1>1, ResumeMoneyInv
  <1>2. CASE \/ LoadFails \/ Abort \/ Finish \/ Interrupt \/ Unwound \/ Kill
             \/ \E r \in ready : CollectRaises(r)
    BY <1>2, LeavingMoneyInv
  <1>3. CASE StartCell
    BY <1>3, StartCellMoneyInv
  <1>4. CASE WritePartial \/ AllCollected
    BY <1>4, WriteMoneyInv
  <1>5. CASE CellDone
    BY <1>5, CellDoneMoneyInv
  <1>6. CASE \E r \in ready : Collect(r)
    BY <1>6, CollectMoneyInv
  <1>7. CASE PoolStep \/ \E i \in Items : RunRaises(i)
    BY <1>7, PoolMoneyInv
  <1>8. CASE \E p \in Profiles, f \in BOOLEAN : Begin(p, f)
    BY <1>8, BeginMoneyInv
  <1>9. CASE RenderCharts \/ UNCHANGED vars
    BY <1>9, RenderMoneyInv
  <1>. QED
    BY <1>1, <1>2, <1>3, <1>4, <1>5, <1>6, <1>7, <1>8, <1>9 DEF Next, SweepStep

-----------------------------------------------------------------------------
(* What the invariant says of the money.                                   *)

\* What the cell has cost is within what its items were projected to cost, up to
\* what they cost beyond it; the projection of the rest of the plan covers it.
LEMMA MoneyFitsTheCap ==
    ASSUME IInv, MoneyInv
    PROVE  SpendFitsTheCap
  <1>. SUFFICES ASSUME pc \in InCell
                PROVE  spent + rows.cost <= CapOf[profile] + Excess
    BY DEF SpendFitsTheCap
  <1>. DEFINE a == Cardinality(Asked)
              done == Cardinality(Asked \ pending)
              m == MaxItemCost
              p == Projection[Current]
              f == [k \in DOMAIN Plan |-> a * Projection[Plan[k]]]
  <1>1. TypeOK /\ IsFiniteSet(ready)
    BY DEF IInv, MoneyInv, PoolIsAsked
  <1>2. /\ index \in Nat \ {0} /\ Len(Plan) \in Nat /\ index <= Len(Plan)
        /\ Current \in Cells /\ DOMAIN Plan = 1..Len(Plan)
        /\ \A k \in 1..Len(Plan) : Plan[k] \in Cells
    BY <1>1, PlanIsASequence DEF IInv, CurrentIsUnfinished, Current
  <1>3. /\ a \in Nat /\ done \in Nat /\ done <= a /\ m \in Nat /\ p \in Nat
        /\ spent \in Nat /\ CapOf[profile] \in Nat
    BY <1>1, <1>2, AskedIsFinite, SweepAssumption DEF TypeOK
  <1>4. rows.cost \in Nat /\ rows.cost <= a * m
    <2>1. rows.cost \in Nat /\ ReadyCost \in Nat
      BY <1>1, NumbersOfTheCell
    <2>2. rows.cost + ReadyCost <= done * m
      BY DEF MoneyInv, CellCostIsBounded, CellCost
    <2>. HIDE DEF a, done, m
    <2>3. done * m <= a * m /\ done * m \in Nat /\ a * m \in Nat
      BY <1>3, TimesMonotone, TimesNat
    <2>. QED
      BY <2>1, <2>2, <2>3
  <1>5. a * p \in Nat /\ Remaining \in Nat /\ a * p <= Remaining
    <2>1. \A k \in 1..Len(Plan) : f[k] = a * Projection[Plan[k]]
      BY <1>2
    <2>. HIDE DEF a
    <2>2. \A k \in index..Len(Plan) : f[k] \in Nat
      <3>. HIDE DEF f
      <3>1. ASSUME NEW k \in index..Len(Plan)
            PROVE  f[k] \in Nat
        <4>1. k \in 1..Len(Plan)
          BY <1>2
        <4>2. Projection[Plan[k]] \in Nat
          BY <1>2, <4>1, SweepAssumption
        <4>. QED
          BY <1>3, <2>1, <4>1, <4>2, TimesNat
      <3>. QED
        BY <3>1
    <2>3. f[index] = a * p /\ index \in index..Len(Plan)
      BY <1>2 DEF Current
    <2>4. Remaining = SumFunctionOnSet(f, index..Len(Plan))
      BY DEF Remaining, a
    <2>. HIDE DEF f, p
    <2>5. IsFiniteSet(index..Len(Plan))
      BY <1>2, FS_Interval
    <2>. QED
      BY <2>2, <2>3, <2>4, <2>5, SumNat, SumHasTheTerm
  <1>6. spent + Remaining <= CapOf[profile]
    BY DEF MoneyInv, ProjectionFits, Fits
  <1>7. spent + a * p <= CapOf[profile]
    <2>. HIDE DEF a, p
    <2>. QED
      BY <1>3, <1>5, <1>6
  <1>8. CASE m > p
    <2>1. Excess = a * (m - p)
      BY <1>8 DEF Excess
    <2>. HIDE DEF a, m, p
    <2>2. a * m = a * p + a * (m - p)
      BY <1>3
    <2>3. a * (m - p) \in Nat
      BY <1>3, <1>8, TimesNat
    <2>. QED
      BY <1>3, <1>4, <1>5, <1>7, <2>1, <2>2, <2>3
  <1>9. CASE ~(m > p)
    <2>1. Excess = 0
      BY <1>9 DEF Excess
    <2>. HIDE DEF a, m, p
    <2>2. m * a <= p * a
      BY <1>3, <1>9, TimesMonotone
    <2>3. m * a = a * m /\ p * a = a * p /\ a * m \in Nat
      BY <1>3
    <2>. QED
      BY <1>3, <1>4, <1>5, <1>7, <2>1, <2>2, <2>3
  <1>. QED
    BY <1>8, <1>9

LEMMA LossIsBounded ==
    ASSUME IInv, MoneyInv
    PROVE  LossIsOneCellPerDeath
  <1>. DEFINE n == Cardinality(Items)
              m == MaxItemCost
              done == Cardinality(Asked \ pending)
  <1>1. TypeOK /\ IsFiniteSet(ready)
    BY DEF IInv, MoneyInv, PoolIsAsked
  <1>2. /\ n \in Nat /\ m \in Nat /\ done \in Nat /\ done <= n /\ deaths \in Nat
        /\ billed \in Nat /\ StoredCost \in Nat /\ CellCost \in Nat
    BY <1>1, NumbersOfTheCell, AskedIsFinite
  <1>3. billed <= StoredCost + deaths * (n * m) + (IF pc \in InCell THEN CellCost ELSE 0)
    BY DEF MoneyInv, BilledIsKept
  <1>4. pc \in InCell => CellCost <= n * m
    <2>1. pc \in InCell => CellCost <= done * m
      BY DEF MoneyInv, CellCostIsBounded
    <2>. HIDE DEF n, m, done
    <2>2. done * m <= n * m /\ done * m \in Nat /\ n * m \in Nat
      BY <1>2, TimesMonotone, TimesNat
    <2>. QED
      BY <1>2, <2>1, <2>2
  <1>5. SUFFICES billed <= StoredCost + (deaths + (IF pc \in InCell THEN 1 ELSE 0)) * n * m
    BY DEF LossIsOneCellPerDeath
  <1>. HIDE DEF n, m, done
  <1>6. /\ deaths * n * m = deaths * (n * m) /\ deaths * (n * m) \in Nat /\ n * m \in Nat
        /\ (deaths + 1) * n * m = deaths * (n * m) + n * m
    <2>1. n * m \in Nat
      BY <1>2, TimesNat
    <2>2. deaths * (n * m) \in Nat
      BY <1>2, <2>1, TimesNat
    <2>3. deaths * n * m = deaths * (n * m)
      BY <1>2
    <2>4. (deaths + 1) * n * m = deaths * (n * m) + n * m
      BY <1>2
    <2>. QED
      BY <2>1, <2>2, <2>3, <2>4
  <1>7. CASE pc \in InCell
    BY <1>2, <1>3, <1>4, <1>6, <1>7
  <1>8. CASE pc \notin InCell
    <2>1. deaths + 0 = deaths
      BY <1>2
    <2>. QED
      BY <1>2, <1>3, <1>6, <1>8, <2>1
  <1>. QED
    BY <1>7, <1>8

THEOREM MoneyInvariance == Spec => []MoneyInv
  <1>1. Init => MoneyInv
    BY InitMoneyInv
  <1>2. IInv /\ IInv' /\ MoneyInv /\ [Next]_vars => MoneyInv'
    BY MoneyInductive
  <1>. QED
    BY <1>1, <1>2, Invariance, PTL DEF Spec

\* Through kills, resumes and changes of profile the running total is what the
\* finished files of the plan say, and the cap, checked before each cell, holds
\* up to what the items of one cell cost beyond their projection.
THEOREM SpendingAccounted == Spec => []SpendingIsAccountedFor
  <1>1. IInv /\ MoneyInv => SpendingIsAccountedFor
    BY MoneyFitsTheCap DEF MoneyInv, SpendingIsAccountedFor
  <1>. QED
    BY <1>1, Invariance, MoneyInvariance, PTL

\* A death loses at most the cell in flight: what was billed beyond the finished
\* files is at most one cell's runs for each invocation that died.
THEOREM LossBounded == Spec => []LossIsOneCellPerDeath
  <1>1. IInv /\ MoneyInv => LossIsOneCellPerDeath
    BY LossIsBounded
  <1>. QED
    BY <1>1, Invariance, MoneyInvariance, PTL

=============================================================================
