------------------------------ MODULE GoldCache ------------------------------
(***************************************************************************)
(* The answer key: the warehouse file (warehouse/connect.py, generate.py)  *)
(* and the gold set built from it and cached (gold/build.py), used by      *)
(* processes that start, live on and are killed on their own.              *)
(*                                                                         *)
(* The questions are Python that a process imports once; the key of the    *)
(* cache is a hash of the files they were imported from, read anew at      *)
(* every build.  A gold set is known here by what decides its answers: the *)
(* questions it was built from and the data it was built on.               *)
(***************************************************************************)
EXTENDS Naturals, FiniteSets

CONSTANTS
    Procs,
    Seeds, DefaultSeed,
    Versions,       \* of patterns.py and semantic_model.yaml together
    None,           \* no file, no process
    Torn            \* a cache file that does not parse

ASSUME GoldAssumption ==
    DefaultSeed \in Seeds /\ None # Torn

VARIABLES
    source,         \* the version of the files
    warehouse,      \* the warehouse file
    cache,          \* gold_cache.json
    proc,           \* the processes
    outlived,       \* history: a process built after the files it had imported changed
    foreign         \* history: one built on other data than the default seed's, whole

vars == <<source, warehouse, cache, proc, outlived, foreign>>

\* A file is read under a lock that its writer holds to the end.
Warehouses == [seed : Seeds, whole : BOOLEAN, writer : Procs]

\* DECIMAL answers are Decimals from DuckDB and floats from JSON.
Golds == [version : Versions, seed : Seeds, whole : BOOLEAN, types : {"duckdb", "json"}]
CacheKeys == [seed : Seeds, version : Versions \cup {None}]
CacheFiles == [key : CacheKeys, gold : Golds]

Processes ==
    [pc : {"ensuring", "creating", "filling", "keying", "building", "caching", "serving", "raised"},
     version : Versions, key : CacheKeys \cup {None}, gold : Golds \cup {None},
     writing : BOOLEAN]

Init ==
    /\ source \in Versions
    /\ warehouse = None /\ cache = None
    /\ proc = [p \in Procs |-> None]
    /\ outlived = FALSE /\ foreign = FALSE

At(p, pc) == proc[p] # None /\ proc[p].pc = pc

Go(p, pc) == proc' = [proc EXCEPT ![p].pc = pc]

-----------------------------------------------------------------------------
(* A process.                                                              *)

Launch(p) ==
    /\ proc[p] = None
    /\ proc' = [proc EXCEPT ![p] =
        [pc |-> "ensuring", version |-> source, key |-> None, gold |-> None, writing |-> FALSE]]
    /\ UNCHANGED <<source, warehouse, cache, outlived, foreign>>

\* ensure_warehouse: a file that exists will do, whoever made it from whatever.
EnsureWarehouse(p) ==
    /\ At(p, "ensuring")
    /\ Go(p, IF warehouse = None THEN "creating" ELSE "keying")
    /\ UNCHANGED <<source, warehouse, cache, outlived, foreign>>

\* generate: whatever has appeared meanwhile is unlinked, and the new file has the seed
\* that .env had when the process read it.
Create(p) ==
    /\ At(p, "creating")
    /\ \E s \in Seeds : warehouse' = [seed |-> s, whole |-> FALSE, writer |-> p]
    /\ Go(p, "filling")
    /\ UNCHANGED <<source, cache, outlived, foreign>>

\* A process whose file was unlinked fills it all the same, out of sight.
Fill(p) ==
    /\ At(p, "filling")
    /\ warehouse' = IF warehouse # None /\ warehouse.writer = p
                    THEN [warehouse EXCEPT !.whole = TRUE] ELSE warehouse
    /\ Go(p, "keying")
    /\ UNCHANGED <<source, cache, outlived, foreign>>

\* Mutant of CacheKey: keyed on the seed alone.
CacheKey_Seed(version) == [seed |-> DefaultSeed, version |-> None]

\* No caller gives a seed, and settings_seed reads the default, not the setting.
CacheKey(version) == [seed |-> DefaultSeed, version |-> version]

Raise(p) ==
    proc' = [proc EXCEPT ![p].pc = "raised", ![p].key = None, ![p].gold = None]

\* Mutant of Lookup: a file that does not parse stops the process.
Lookup_Strict(p) ==
    /\ At(p, "keying")
    /\ IF cache = Torn THEN Raise(p)
       ELSE proc' = [proc EXCEPT
        ![p].key = IF cache # None /\ cache.key = CacheKey(source) THEN None ELSE CacheKey(source),
        ![p].pc = IF cache # None /\ cache.key = CacheKey(source) THEN "serving" ELSE "building",
        ![p].gold = IF cache # None /\ cache.key = CacheKey(source) THEN cache.gold ELSE None]
    /\ outlived' = (outlived \/ proc[p].version # source)
    /\ UNCHANGED <<source, warehouse, cache, foreign>>

\* cache_key and read_cache: another key, no file and a damaged one are all the same.
Lookup(p) ==
    LET key == CacheKey(source)
        hit == cache \notin {None, Torn} /\ cache.key = key
    IN  /\ At(p, "keying")
        /\ proc' = [proc EXCEPT ![p].key = IF hit THEN None ELSE key,
                                ![p].pc = IF hit THEN "serving" ELSE "building",
                                ![p].gold = IF hit THEN cache.gold ELSE None]
        /\ outlived' = (outlived \/ proc[p].version # source)
        /\ UNCHANGED <<source, warehouse, cache, foreign>>

\* DuckDB: a file being written cannot be opened.
Busy == warehouse # None /\ \E q \in Procs : At(q, "filling") /\ warehouse.writer = q

Good == warehouse # None /\ warehouse.whole /\ warehouse.seed = DefaultSeed

\* Every question and every naive variant of it is answered by the warehouse.
Build(p) ==
    /\ At(p, "building")
    /\ warehouse # None /\ ~Busy
    /\ proc' = [proc EXCEPT ![p].pc = "caching", ![p].gold =
        [version |-> proc[p].version, seed |-> warehouse.seed, whole |-> warehouse.whole,
         types |-> "duckdb"]]
    /\ foreign' = (foreign \/ warehouse.seed # DefaultSeed \/ ~warehouse.whole)
    /\ UNCHANGED <<source, warehouse, cache, outlived>>

\* No file, a locked file, or data too thin for the gates of _build_item.
BuildRaises(p) ==
    /\ At(p, "building")
    /\ Busy \/ ~Good
    /\ Raise(p)
    /\ UNCHANGED <<source, warehouse, cache, outlived, foreign>>

\* write_cache, first half: the file is emptied.
EmptyCache(p) ==
    /\ At(p, "caching") /\ ~proc[p].writing
    /\ cache' = Torn
    /\ proc' = [proc EXCEPT ![p].writing = TRUE]
    /\ UNCHANGED <<source, warehouse, outlived, foreign>>

\* Mutant of Canonical: the built set is served as it was built.
Canonical_Raw(gold) == gold

\* canonical: the built set goes through the serialisation, as a cached one has.
Canonical(gold) == [gold EXCEPT !.types = "json"]

\* Two that write at once may leave a mixture.
FillCache(p) ==
    /\ At(p, "caching") /\ proc[p].writing
    /\ \/ cache' = [key |-> proc[p].key, gold |-> [proc[p].gold EXCEPT !.types = "json"]]
       \/ cache' = Torn /\ \E q \in Procs \ {p} : At(q, "caching") /\ proc[q].writing
    /\ proc' = [proc EXCEPT ![p].pc = "serving", ![p].writing = FALSE,
                            ![p].key = None, ![p].gold = Canonical(@)]
    /\ UNCHANGED <<source, warehouse, outlived, foreign>>

\* The worker builds the gold set again for every row it claims.
BuildAgain(p) ==
    /\ At(p, "serving")
    /\ proc' = [proc EXCEPT ![p].pc = "keying", ![p].gold = None]
    /\ UNCHANGED <<source, warehouse, cache, outlived, foreign>>

\* It ends, or is killed wherever it is; a cache it was writing stays torn.
End(p) ==
    /\ proc[p] # None
    /\ proc' = [proc EXCEPT ![p] = None]
    /\ UNCHANGED <<source, warehouse, cache, outlived, foreign>>

-----------------------------------------------------------------------------
(* People.                                                                 *)

EditSource ==
    /\ source' \in Versions \ {source}
    /\ UNCHANGED <<warehouse, cache, proc, outlived, foreign>>

\* "The file is gitignored and rebuilt from scratch."
DeleteWarehouse ==
    /\ warehouse # None
    /\ warehouse' = None
    /\ UNCHANGED <<source, cache, proc, outlived, foreign>>

Step(p) ==
    \/ EnsureWarehouse(p) \/ Create(p) \/ Fill(p) \/ Lookup(p)
    \/ Build(p) \/ BuildRaises(p) \/ EmptyCache(p) \/ FillCache(p)

Next ==
    \/ \E p \in Procs : Launch(p) \/ Step(p) \/ BuildAgain(p) \/ End(p)
    \/ EditSource \/ DeleteWarehouse

Spec == Init /\ [][Next]_vars

\* A process that has started is not left hanging; people may do nothing.
FairSpec == Spec /\ \A p \in Procs : WF_vars(Step(p))

-----------------------------------------------------------------------------
(* Properties.                                                             *)

\* What is on disk and in the processes is what their writers can have written.
TypeOK ==
    /\ source \in Versions
    /\ warehouse \in Warehouses \cup {None}
    /\ cache \in CacheFiles \cup {None, Torn}
    /\ proc \in [Procs -> Processes \cup {None}]
    /\ outlived \in BOOLEAN /\ foreign \in BOOLEAN

Right(version) == [version |-> version, seed |-> DefaultSeed, whole |-> TRUE, types |-> "json"]

\* gold/build.py, "Editing either invalidates the cache automatically": as long as no
\* process outlives an edit and no other data was used, a process grades against the
\* answers of its own questions, with the same types whether they were cached or not.
\* Kills, torn files and processes that build at once change nothing.
ServedGoldIsRight ==
    ~outlived /\ ~foreign =>
        \A p \in Procs : At(p, "serving") => proc[p].gold = Right(proc[p].version)

\* read_cache, "an optimisation that can break a cold start is worse than no
\* optimisation": a process that asks for the gold set gets it, unless it is killed or
\* the warehouse is not there to build from, whatever state the cache is in.
EveryBuildIsServed ==
    \A p \in Procs :
        At(p, "keying") ~> (At(p, "serving") \/ proc[p] = None \/ ~Good)

-----------------------------------------------------------------------------
(* A statement of the documentation that the code does not keep.           *)

\* gold/build.py: "Editing either invalidates the cache automatically": a process
\* that starts after an edit is not served the answers from before it.
EditsInvalidateTheCache ==
    \A p \in Procs : At(p, "serving") => proc[p].gold.version = proc[p].version

=============================================================================
