-------------------------- MODULE GoldCache_proofs --------------------------
(***************************************************************************)
(* Proofs about GoldCache, for any number of processes, any seeds and any  *)
(* versions of the questions.                                              *)
(*                                                                         *)
(* What a process serves it has built or read, so the invariant follows    *)
(* the answers on their way: what is being cached was built from the       *)
(* questions its key names, and what is cached answers the questions of    *)
(* the key it is stored under.                                             *)
(***************************************************************************)
EXTENDS GoldCache, TLAPS

\* What a process has in hand before it serves.
InHand(p) ==
    /\ At(p, "building") \/ At(p, "caching") => proc[p].key \in CacheKeys
    /\ At(p, "caching") => proc[p].gold \in Golds

Holds(p) ==
    /\ At(p, "building") \/ At(p, "caching") => proc[p].key = CacheKey(proc[p].version)
    /\ At(p, "caching") => Canonical(proc[p].gold) = Right(proc[p].version)
    /\ At(p, "serving") => proc[p].gold = Right(proc[p].version)

CacheIsRight == cache \notin {None, Torn} => cache.gold = Right(cache.key.version)

IInv ==
    /\ TypeOK
    /\ \A p \in Procs : InHand(p)
    /\ ~outlived /\ ~foreign => CacheIsRight /\ \A p \in Procs : Holds(p)

-----------------------------------------------------------------------------
(* One process moves, the others stay as they are.                         *)

LEMMA KeyIsAKey == \A v \in Versions : CacheKey(v) \in CacheKeys
  BY GoldAssumption DEF CacheKey, CacheKeys

LEMMA ProcessFields ==
    ASSUME TypeOK, NEW p \in Procs, NEW pc, At(p, pc)
    PROVE  /\ proc[p] \in Processes /\ proc[p].pc = pc
           /\ proc[p].version \in Versions
           /\ proc[p].key \in CacheKeys \cup {None}
           /\ proc[p].gold \in Golds \cup {None}
           /\ proc[p].writing \in BOOLEAN
  <1>1. proc[p] \in Processes /\ proc[p].pc = pc
    BY DEF TypeOK, At
  <1>. QED
    BY <1>1 DEF Processes

\* A process that is where p was moves on to next; nothing else of the others changes.
LEMMA OneMoves ==
    ASSUME TypeOK, NEW p \in Procs, NEW next \in Processes,
           proc' = [proc EXCEPT ![p] = next]
    PROVE  /\ proc' \in [Procs -> Processes \cup {None}]
           /\ proc'[p] = next
           /\ \A q \in Procs \ {p} :
                /\ proc'[q] = proc[q]
                /\ InHand(q)' <=> InHand(q)
                /\ Holds(q)' <=> Holds(q)
  <1>1. /\ proc' \in [Procs -> Processes \cup {None}]
        /\ proc'[p] = next
        /\ \A q \in Procs \ {p} : proc'[q] = proc[q]
    BY DEF TypeOK
  <1>2. ASSUME NEW q \in Procs \ {p}
        PROVE  (InHand(q)' <=> InHand(q)) /\ (Holds(q)' <=> Holds(q))
    <2>1. proc'[q] = proc[q]
      BY <1>1
    <2>. QED
      BY <2>1 DEF InHand, Holds, At, CacheKey, Canonical, Right
  <1>. QED
    BY <1>1, <1>2

\* The obligations of a step of p: its type, what p has in hand, what it holds.
LEMMA StepOf ==
    ASSUME IInv, NEW p \in Procs, NEW next \in Processes,
           proc' = [proc EXCEPT ![p] = next],
           next.pc \in {"building", "caching"} => next.key \in CacheKeys,
           next.pc = "caching" => next.gold \in Golds,
           source' \in Versions, warehouse' \in Warehouses \cup {None},
           cache' \in CacheFiles \cup {None, Torn},
           outlived' \in BOOLEAN, foreign' \in BOOLEAN,
           ~outlived' /\ ~foreign' => ~outlived /\ ~foreign,
           ~outlived' /\ ~foreign' =>
             /\ CacheIsRight'
             /\ next.pc \in {"building", "caching"} => next.key = CacheKey(next.version)
             /\ next.pc = "caching" => Canonical(next.gold) = Right(next.version)
             /\ next.pc = "serving" => next.gold = Right(next.version)
    PROVE  IInv'
  <1>1. /\ proc' \in [Procs -> Processes \cup {None}]
        /\ proc'[p] = next
        /\ \A q \in Procs \ {p} : (InHand(q)' <=> InHand(q)) /\ (Holds(q)' <=> Holds(q))
    BY OneMoves DEF IInv
  <1>2. TypeOK'
    BY <1>1 DEF TypeOK
  <1>3. InHand(p)'
    BY <1>1 DEF InHand, At
  <1>4. ~outlived' /\ ~foreign' => Holds(p)'
    BY <1>1 DEF Holds, At, CacheKey, Canonical, Right
  <1>5. \A q \in Procs : InHand(q)'
    BY <1>1, <1>3 DEF IInv
  <1>6. ~outlived' /\ ~foreign' => \A q \in Procs : Holds(q)'
    BY <1>1, <1>4 DEF IInv
  <1>. QED
    BY <1>2, <1>5, <1>6 DEF IInv

-----------------------------------------------------------------------------
(* Every action keeps the invariant.                                       *)

LEMMA InitIInv ==
    ASSUME Init
    PROVE  IInv
  BY DEF Init, IInv, TypeOK, InHand, Holds, At, CacheIsRight

LEMMA LaunchKeepsIInv ==
    ASSUME IInv, NEW p \in Procs, Launch(p)
    PROVE  IInv'
  <1>. DEFINE next == [pc |-> "ensuring", version |-> source, key |-> None, gold |-> None,
                       writing |-> FALSE]
  <1>1. next \in Processes
    BY DEF IInv, TypeOK, Processes
  <1>2. PICK n \in Processes : n = next
    BY <1>1
  <1>3. /\ proc' = [proc EXCEPT ![p] = n] /\ n.pc = "ensuring"
        /\ UNCHANGED <<source, warehouse, cache, outlived, foreign>>
    BY <1>2 DEF Launch
  <1>4. CacheIsRight' <=> CacheIsRight
    BY <1>3 DEF CacheIsRight, Right
  <1>. QED
    BY <1>3, <1>4, StepOf DEF IInv, TypeOK

\* A process that goes on without having looked at the cache.
LEMMA WarehouseKeepsIInv ==
    ASSUME IInv, NEW p \in Procs, EnsureWarehouse(p) \/ Create(p) \/ Fill(p)
    PROVE  IInv'
  <1>1. PICK here \in {"ensuring", "creating", "filling"},
             there \in {"creating", "filling", "keying"} :
          /\ At(p, here) /\ Go(p, there)
          /\ UNCHANGED <<source, cache, outlived, foreign>>
    BY DEF EnsureWarehouse, Create, Fill
  <1>2. proc[p] \in Processes /\ proc \in [Procs -> Processes \cup {None}]
    BY <1>1, ProcessFields DEF IInv, TypeOK
  <1>3. PICK n \in Processes : n = [proc[p] EXCEPT !.pc = there]
    BY <1>2 DEF Processes
  <1>4. proc' = [proc EXCEPT ![p] = n] /\ n.pc = there
    BY <1>1, <1>2, <1>3 DEF Go, Processes
  <1>5. warehouse' \in Warehouses \cup {None}
    <2>1. CASE EnsureWarehouse(p)
      BY <2>1 DEF EnsureWarehouse, IInv, TypeOK
    <2>2. CASE Create(p)
      BY <2>2 DEF Create, Warehouses
    <2>3. CASE Fill(p)
      <3>1. warehouse \in Warehouses \cup {None}
        BY DEF IInv, TypeOK
      <3>. QED
        BY <2>3, <3>1 DEF Fill, Warehouses
    <2>. QED
      BY <2>1, <2>2, <2>3
  <1>6. CacheIsRight' <=> CacheIsRight
    BY <1>1 DEF CacheIsRight, Right
  <1>. QED
    BY <1>1, <1>4, <1>5, <1>6, StepOf DEF IInv, TypeOK

\* A hit is the answer to the questions the process has, unless it outlived an edit.
LEMMA LookupKeepsIInv ==
    ASSUME IInv, NEW p \in Procs, Lookup(p)
    PROVE  IInv'
  <1>. DEFINE key == CacheKey(source)
              hit == cache \notin {None, Torn} /\ cache.key = key
  <1>1. /\ proc[p] \in Processes /\ proc[p].version \in Versions
        /\ proc[p].writing \in BOOLEAN
        /\ proc \in [Procs -> Processes \cup {None}] /\ source \in Versions
        /\ cache \in CacheFiles \cup {None, Torn}
    BY ProcessFields DEF Lookup, IInv, TypeOK
  <1>2. /\ key \in CacheKeys /\ key.version = source
        /\ hit => cache.gold \in Golds
    BY <1>1, KeyIsAKey DEF CacheFiles, CacheKey
  <1>3. PICK n \in Processes : n =
          [proc[p] EXCEPT !.key = IF hit THEN None ELSE key,
                          !.pc = IF hit THEN "serving" ELSE "building",
                          !.gold = IF hit THEN cache.gold ELSE None]
    <2>. HIDE DEF key
    <2>1. CASE hit
      BY <1>1, <1>2, <2>1 DEF Processes
    <2>2. CASE ~hit
      BY <1>1, <1>2, <2>2 DEF Processes
    <2>. QED
      BY <2>1, <2>2
  <1>4. /\ proc' = [proc EXCEPT ![p] = n]
        /\ n.version = proc[p].version
        /\ hit => n.pc = "serving" /\ n.gold = cache.gold
        /\ ~hit => n.pc = "building" /\ n.key = key
    <2>1. proc' = [proc EXCEPT ![p].key = IF hit THEN None ELSE key,
                               ![p].pc = IF hit THEN "serving" ELSE "building",
                               ![p].gold = IF hit THEN cache.gold ELSE None]
      BY DEF Lookup
    <2>. HIDE DEF key, hit
    <2>2. proc' = [proc EXCEPT ![p] = n]
      BY <1>1, <1>3, <2>1
    <2>. QED
      BY <1>1, <1>3, <2>2 DEF Processes
  <1>5. /\ UNCHANGED <<source, warehouse, cache, foreign>>
        /\ outlived' = (outlived \/ proc[p].version # source)
    BY DEF Lookup
  <1>6. CacheIsRight' <=> CacheIsRight
    BY <1>5 DEF CacheIsRight, Right
  <1>7. CASE hit
    <2>1. ~outlived' /\ ~foreign' => n.gold = Right(n.version)
      BY <1>2, <1>4, <1>5, <1>7 DEF IInv, CacheIsRight
    <2>2. n.pc = "serving"
      BY <1>4, <1>7
    <2>. QED
      BY <1>4, <1>5, <1>6, <2>1, <2>2, StepOf DEF IInv, TypeOK
  <1>8. CASE ~hit
    <2>1. n.pc = "building" /\ n.key = CacheKey(source) /\ n.version = proc[p].version
      BY <1>4, <1>8
    <2>2. n.key \in CacheKeys
      BY <1>2, <2>1
    <2>. QED
      BY <1>4, <1>5, <1>6, <2>1, <2>2, StepOf DEF IInv, TypeOK
  <1>. QED
    BY <1>7, <1>8

\* What is built on the default data, whole, answers the questions the process has.
LEMMA BuildKeepsIInv ==
    ASSUME IInv, NEW p \in Procs, Build(p)
    PROVE  IInv'
  <1>1. /\ proc[p] \in Processes /\ proc[p].version \in Versions
        /\ proc[p].writing \in BOOLEAN /\ proc[p].key \in CacheKeys
        /\ proc \in [Procs -> Processes \cup {None}] /\ warehouse \in Warehouses
    BY ProcessFields DEF Build, IInv, TypeOK, InHand
  <1>2. PICK g \in Golds : g =
          [version |-> proc[p].version, seed |-> warehouse.seed, whole |-> warehouse.whole,
           types |-> "duckdb"]
    BY <1>1 DEF Golds, Warehouses
  <1>3. PICK n \in Processes : n = [proc[p] EXCEPT !.pc = "caching", !.gold = g]
    BY <1>1 DEF Processes
  <1>4. proc' = [proc EXCEPT ![p] = n]
    BY <1>1, <1>2, <1>3 DEF Build
  <1>5. /\ UNCHANGED <<source, warehouse, cache, outlived>>
        /\ foreign' = (foreign \/ warehouse.seed # DefaultSeed \/ ~warehouse.whole)
    BY DEF Build
  <1>6. CacheIsRight' <=> CacheIsRight
    BY <1>5 DEF CacheIsRight, Right
  <1>7. /\ n.pc = "caching" /\ n.gold = g /\ n.key = proc[p].key
        /\ n.version = proc[p].version
    BY <1>1, <1>3 DEF Processes
  <1>8. ~foreign' => Canonical(g) = Right(n.version)
    <2>1. warehouse \in Warehouses
      BY <1>1
    <2>2. warehouse.whole = TRUE \/ warehouse.whole = FALSE
      BY <2>1 DEF Warehouses
    <2>3. ~foreign' => warehouse.seed = DefaultSeed /\ warehouse.whole = TRUE
      BY <1>5, <2>2
    <2>4. Canonical(g) = [version |-> proc[p].version, seed |-> warehouse.seed,
                          whole |-> warehouse.whole, types |-> "json"]
      BY <1>2 DEF Canonical
    <2>. QED
      BY <1>7, <2>3, <2>4 DEF Right
  <1>9. ~outlived' /\ ~foreign' => n.key = CacheKey(n.version)
    <2>1. ~outlived' /\ ~foreign' => ~outlived /\ ~foreign
      BY <1>5
    <2>2. ~outlived /\ ~foreign => proc[p].key = CacheKey(proc[p].version)
      BY DEF IInv, Holds, Build
    <2>. QED
      BY <1>7, <2>1, <2>2
  <1>. QED
    BY <1>1, <1>4, <1>5, <1>6, <1>7, <1>8, <1>9, StepOf DEF IInv, TypeOK

LEMMA BuildRaisesKeepsIInv ==
    ASSUME IInv, NEW p \in Procs, BuildRaises(p)
    PROVE  IInv'
  <1>1. /\ proc[p] \in Processes /\ proc \in [Procs -> Processes \cup {None}]
    BY ProcessFields DEF BuildRaises, IInv, TypeOK
  <1>2. PICK n \in Processes : n = [proc[p] EXCEPT !.pc = "raised", !.key = None, !.gold = None]
    BY <1>1 DEF Processes
  <1>3. proc' = [proc EXCEPT ![p] = n] /\ n.pc = "raised"
    BY <1>1, <1>2 DEF BuildRaises, Raise, Processes
  <1>4. UNCHANGED <<source, warehouse, cache, outlived, foreign>>
    BY DEF BuildRaises
  <1>5. CacheIsRight' <=> CacheIsRight
    BY <1>4 DEF CacheIsRight, Right
  <1>. QED
    BY <1>3, <1>4, <1>5, StepOf DEF IInv, TypeOK

LEMMA EmptyCacheKeepsIInv ==
    ASSUME IInv, NEW p \in Procs, EmptyCache(p)
    PROVE  IInv'
  <1>1. /\ proc[p] \in Processes /\ proc \in [Procs -> Processes \cup {None}]
        /\ proc[p].pc = "caching" /\ proc[p].key \in CacheKeys /\ proc[p].gold \in Golds
    BY ProcessFields DEF EmptyCache, IInv, TypeOK, InHand
  <1>2. PICK n \in Processes : n = [proc[p] EXCEPT !.writing = TRUE]
    BY <1>1 DEF Processes
  <1>3. /\ proc' = [proc EXCEPT ![p] = n]
        /\ n.pc = "caching" /\ n.key = proc[p].key /\ n.gold = proc[p].gold
        /\ n.version = proc[p].version
    BY <1>1, <1>2 DEF EmptyCache, Processes
  <1>4. UNCHANGED <<source, warehouse, outlived, foreign>> /\ cache' = Torn
    BY DEF EmptyCache
  <1>5. CacheIsRight'
    BY <1>4 DEF CacheIsRight
  <1>6. ~outlived /\ ~foreign => /\ n.key = CacheKey(n.version)
                                 /\ Canonical(n.gold) = Right(n.version)
    BY <1>3 DEF IInv, Holds, EmptyCache
  <1>. QED
    BY <1>1, <1>3, <1>4, <1>5, <1>6, StepOf DEF IInv, TypeOK

\* What is stored answers the questions that its key names, and so does what is served.
LEMMA FillCacheKeepsIInv ==
    ASSUME IInv, NEW p \in Procs, FillCache(p)
    PROVE  IInv'
  <1>1. /\ proc[p] \in Processes /\ proc \in [Procs -> Processes \cup {None}]
        /\ proc[p].key \in CacheKeys /\ proc[p].gold \in Golds
        /\ proc[p].version \in Versions
    BY ProcessFields DEF FillCache, IInv, TypeOK, InHand
  <1>2. PICK g \in Golds : g = Canonical(proc[p].gold)
    BY <1>1 DEF Golds, Canonical
  <1>3. PICK n \in Processes : n =
          [proc[p] EXCEPT !.pc = "serving", !.writing = FALSE, !.key = None, !.gold = g]
    BY <1>1 DEF Processes
  <1>4. proc' = [proc EXCEPT ![p] = n]
    BY <1>1, <1>2, <1>3 DEF FillCache, Processes
  <1>5. /\ UNCHANGED <<source, warehouse, outlived, foreign>>
        /\ cache' = [key |-> proc[p].key, gold |-> g] \/ cache' = Torn
    BY <1>2 DEF FillCache, Canonical
  <1>6. cache' \in CacheFiles \cup {None, Torn}
    BY <1>1, <1>5 DEF CacheFiles
  <1>7. ~outlived /\ ~foreign =>
          proc[p].key = CacheKey(proc[p].version) /\ g = Right(proc[p].version)
    BY <1>2 DEF IInv, Holds, FillCache
  <1>8. ~outlived /\ ~foreign => CacheIsRight'
    <2>1. proc[p].key = CacheKey(proc[p].version) => proc[p].key.version = proc[p].version
      BY DEF CacheKey
    <2>2. CASE cache' = Torn
      BY <2>2 DEF CacheIsRight
    <2>3. CASE cache' = [key |-> proc[p].key, gold |-> g]
      <3>1. cache'.gold = g /\ cache'.key = proc[p].key
        BY <2>3
      <3>. QED
        BY <1>7, <2>1, <3>1 DEF CacheIsRight, Right
    <2>. QED
      BY <1>5, <2>2, <2>3
  <1>9. n.pc = "serving" /\ n.gold = g /\ n.version = proc[p].version
    BY <1>1, <1>3 DEF Processes
  <1>. QED
    BY <1>4, <1>5, <1>6, <1>7, <1>8, <1>9, StepOf DEF IInv, TypeOK

LEMMA BuildAgainKeepsIInv ==
    ASSUME IInv, NEW p \in Procs, BuildAgain(p)
    PROVE  IInv'
  <1>1. /\ proc[p] \in Processes /\ proc \in [Procs -> Processes \cup {None}]
    BY ProcessFields DEF BuildAgain, IInv, TypeOK
  <1>2. PICK n \in Processes : n = [proc[p] EXCEPT !.pc = "keying", !.gold = None]
    BY <1>1 DEF Processes
  <1>3. proc' = [proc EXCEPT ![p] = n] /\ n.pc = "keying"
    BY <1>1, <1>2 DEF BuildAgain, Processes
  <1>4. UNCHANGED <<source, warehouse, cache, outlived, foreign>>
    BY DEF BuildAgain
  <1>5. CacheIsRight' <=> CacheIsRight
    BY <1>4 DEF CacheIsRight, Right
  <1>. QED
    BY <1>3, <1>4, <1>5, StepOf DEF IInv, TypeOK

\* A process that ends takes what it had in hand with it.
LEMMA EndKeepsIInv ==
    ASSUME IInv, NEW p \in Procs, End(p)
    PROVE  IInv'
  <1>1. /\ proc' \in [Procs -> Processes \cup {None}] /\ proc'[p] = None
        /\ \A q \in Procs \ {p} : proc'[q] = proc[q]
        /\ UNCHANGED <<source, warehouse, cache, outlived, foreign>>
    BY DEF End, IInv, TypeOK
  <1>2. TypeOK'
    BY <1>1 DEF IInv, TypeOK
  <1>3. CacheIsRight' <=> CacheIsRight
    BY <1>1 DEF CacheIsRight, Right
  <1>4. InHand(p)' /\ Holds(p)'
    BY <1>1 DEF InHand, Holds, At
  <1>5. ASSUME NEW q \in Procs \ {p}
        PROVE  (InHand(q)' <=> InHand(q)) /\ (Holds(q)' <=> Holds(q))
    BY <1>1 DEF InHand, Holds, At, CacheKey, Canonical, Right
  <1>. QED
    BY <1>1, <1>2, <1>3, <1>4, <1>5 DEF IInv

\* Nobody but the processes touches what they hold or the cache.
LEMMA PeopleKeepIInv ==
    ASSUME IInv, EditSource \/ DeleteWarehouse \/ UNCHANGED vars
    PROVE  IInv'
  <1>1. UNCHANGED <<cache, proc, outlived, foreign>>
    BY DEF EditSource, DeleteWarehouse, vars
  <1>2. TypeOK'
    BY <1>1 DEF IInv, TypeOK, EditSource, DeleteWarehouse, vars
  <1>3. /\ CacheIsRight' <=> CacheIsRight
        /\ \A p \in Procs : (InHand(p)' <=> InHand(p)) /\ (Holds(p)' <=> Holds(p))
    BY <1>1 DEF CacheIsRight, InHand, Holds, At, CacheKey, Canonical, Right
  <1>. QED
    BY <1>1, <1>2, <1>3 DEF IInv

LEMMA Inductive ==
    ASSUME IInv, [Next]_vars
    PROVE  IInv'
  <1>1. ASSUME NEW p \in Procs, Launch(p) \/ Step(p) \/ BuildAgain(p) \/ End(p)
        PROVE  IInv'
    BY <1>1, LaunchKeepsIInv, WarehouseKeepsIInv, LookupKeepsIInv, BuildKeepsIInv,
       BuildRaisesKeepsIInv, EmptyCacheKeepsIInv, FillCacheKeepsIInv, BuildAgainKeepsIInv,
       EndKeepsIInv DEF Step
  <1>2. CASE EditSource \/ DeleteWarehouse \/ UNCHANGED vars
    BY <1>2, PeopleKeepIInv
  <1>. QED
    BY <1>1, <1>2 DEF Next

-----------------------------------------------------------------------------
(* The invariants of the specification.                                    *)

\* The inductive invariant holds of every reachable state of the gold cache.
THEOREM Invariance == Spec => []IInv
  <1>1. Init => IInv
    BY InitIInv
  <1>2. IInv /\ [Next]_vars => IInv'
    BY Inductive
  <1>. QED
    BY <1>1, <1>2, PTL DEF Spec

\* Every file and every process holds what its writers can have written.
THEOREM TypeCorrect == Spec => []TypeOK
  <1>1. IInv => TypeOK
    BY DEF IInv
  <1>. QED
    BY <1>1, Invariance, PTL

\* However many processes build, cache, crash and read at once, and whatever is edited
\* between two launches: a process that neither outlived an edit nor saw other data
\* grades against the answers of its own questions.
THEOREM ServedIsRight == Spec => []ServedGoldIsRight
  <1>1. IInv => ServedGoldIsRight
    BY DEF IInv, ServedGoldIsRight, Holds
  <1>. QED
    BY <1>1, Invariance, PTL

=============================================================================
