----------------------------- MODULE FoldLemmas -----------------------------
(***************************************************************************)
(* Lemmas about sums, lists and folds of finite collections: what the      *)
(* modules that count with SumFunctionOnSet, sort with Lists or loop with  *)
(* FoldLeft need.                                                          *)
(*                                                                         *)
(* A sum folds over a set in the order of a CHOOSE and a fold over the     *)
(* places of a sequence from the last, both by a recursive function on     *)
(* subsets.  That the functions exist, that the order of a sum does not    *)
(* show and that a fold goes step by step, is proved here by taking a      *)
(* smallest counterexample (SmallestSubset), which needs no induction      *)
(* theorem with an operator for a parameter.                               *)
(***************************************************************************)
EXTENDS Integers, FiniteSetsExt, SequencesExt, Functions, Lists,
        Groups, FiniteSetTheorems, SequenceTheorems, WellFoundedInduction, TLAPS

\* Induction over finite sets: a collection of subsets has a smallest one.
LEMMA SmallestSubset ==
    ASSUME NEW S, IsFiniteSet(S), NEW T \in SUBSET (SUBSET S), T # {}
    PROVE  \E x \in T : \A y \in T : y \subseteq x => y = x
  <1>1. IsWellFoundedOn(StrictSubsetOrdering(S), FiniteSubsetsOf(S))
    BY FS_StrictSubsetOrderingWellFounded
  <1>2. T \subseteq FiniteSubsetsOf(S)
    BY FS_Subset DEF FiniteSubsetsOf
  <1>3. PICK x \in T : \A y \in T : <<y, x>> \notin StrictSubsetOrdering(S)
    BY <1>1, <1>2, WFMin
  <1>4. ASSUME NEW y \in T, y \subseteq x, y # x
        PROVE  FALSE
    <2>1. <<y, x>> \in (SUBSET S) \X (SUBSET S)
      OBVIOUS
    <2>2. <<y, x>>[1] = y /\ <<y, x>>[2] = x
      OBVIOUS
    <2>. QED
      BY <1>3, <1>4, <2>1, <2>2 DEF StrictSubsetOrdering
  <1>. QED
    BY <1>4

-----------------------------------------------------------------------------
(* The recursive function behind a sum.                                    *)

Pick(s) == CHOOSE x \in s : TRUE

Rest(s) == s \ {Pick(s)}

\* g gives the sum of f over each subset of S.
SumsUpTo(f, S, g) ==
    g = [s \in SUBSET S |-> IF s = {} THEN 0 ELSE f[Pick(s)] + g[Rest(s)]]

\* A sum is what the recursive function gives for the whole set.
LEMMA SumIsTheFold ==
    ASSUME NEW f, NEW S
    PROVE  SumFunctionOnSet(f, S) = (CHOOSE g : SumsUpTo(f, S, g))[S]
  BY Zenon DEF SumFunctionOnSet, FoldFunctionOnSet, MapThenFoldSet, SumsUpTo, Pick, Rest

\* What is picked from a set is in it.
LEMMA PickIsInside ==
    ASSUME NEW s, s # {}
    PROVE  Pick(s) \in s
  BY DEF Pick

\* The recursive function, at one subset.
LEMMA SumsUpToUnfold ==
    ASSUME NEW f, NEW S, NEW g, SumsUpTo(f, S, g), NEW s \in SUBSET S
    PROVE  g[s] = IF s = {} THEN 0 ELSE f[Pick(s)] + g[Rest(s)]
  <1>. DEFINE h == [t \in SUBSET S |-> IF t = {} THEN 0 ELSE f[Pick(t)] + g[Rest(t)]]
  <1>1. g = h
    BY DEF SumsUpTo
  <1>2. h[s] = IF s = {} THEN 0 ELSE f[Pick(s)] + g[Rest(s)]
    OBVIOUS
  <1>. QED
    BY <1>1, <1>2

\* Two such functions agree wherever both are defined.
LEMMA SumsUpToAgree ==
    ASSUME NEW f, NEW S, IsFiniteSet(S), NEW T \in SUBSET S, NEW g, NEW h,
           SumsUpTo(f, S, g), SumsUpTo(f, T, h)
    PROVE  \A s \in SUBSET T : g[s] = h[s]
  <1>. DEFINE Bad == {s \in SUBSET T : g[s] # h[s]}
  <1>. SUFFICES ASSUME Bad # {}
                PROVE  FALSE
    OBVIOUS
  <1>1. IsFiniteSet(T)
    BY FS_Subset
  <1>2. PICK s \in Bad : \A t \in Bad : t \subseteq s => t = s
    <2>1. Bad \in SUBSET (SUBSET T)
      OBVIOUS
    <2>. HIDE DEF Bad
    <2>. QED
      BY <1>1, <2>1, SmallestSubset
  <1>3. /\ g[s] = IF s = {} THEN 0 ELSE f[Pick(s)] + g[Rest(s)]
        /\ h[s] = IF s = {} THEN 0 ELSE f[Pick(s)] + h[Rest(s)]
    <2>1. s \in SUBSET S /\ s \in SUBSET T
      OBVIOUS
    <2>2. g[s] = IF s = {} THEN 0 ELSE f[Pick(s)] + g[Rest(s)]
      BY <2>1, SumsUpToUnfold
    <2>3. h[s] = IF s = {} THEN 0 ELSE f[Pick(s)] + h[Rest(s)]
      BY <2>1, SumsUpToUnfold
    <2>. QED
      BY <2>2, <2>3
  <1>4. s # {}
    BY <1>3
  <1>5. Rest(s) \in SUBSET T /\ Rest(s) \subseteq s /\ Rest(s) # s
    BY <1>4, PickIsInside DEF Rest
  <1>6. g[Rest(s)] = h[Rest(s)]
    BY <1>2, <1>5
  <1>. QED
    BY <1>3, <1>4, <1>6

\* Were there sums for every smaller set, there would be for this one.
LEMMA SumsUpToStep ==
    ASSUME NEW f, NEW S, IsFiniteSet(S),
           \A T \in SUBSET S : T # S => \E g : SumsUpTo(f, T, g)
    PROVE  \E g : SumsUpTo(f, S, g)
  <1>. DEFINE Of(t) == (CHOOSE g : SumsUpTo(f, t, g))[t]
              G == [s \in SUBSET S |-> IF s = {} THEN 0 ELSE f[Pick(s)] + Of(Rest(s))]
  <1>1. ASSUME NEW t \in SUBSET S, t # S
        PROVE  Of(t) = IF t = {} THEN 0 ELSE f[Pick(t)] + Of(Rest(t))
    <2>. DEFINE h == CHOOSE g : SumsUpTo(f, t, g)
    <2>1. SumsUpTo(f, t, h)
      BY <1>1
    <2>2. h[t] = IF t = {} THEN 0 ELSE f[Pick(t)] + h[Rest(t)]
      BY <2>1, SumsUpToUnfold
    <2>3. CASE t = {}
      BY <2>2, <2>3
    <2>4. CASE t # {}
      <3>1. Rest(t) \in SUBSET t /\ Rest(t) \in SUBSET S /\ Rest(t) # S
        BY <1>1, <2>4, PickIsInside DEF Rest
      <3>. DEFINE k == CHOOSE g : SumsUpTo(f, Rest(t), g)
      <3>2. SumsUpTo(f, Rest(t), k)
        BY <3>1
      <3>3. IsFiniteSet(t)
        BY FS_Subset
      <3>. HIDE DEF h, k
      <3>4. h[Rest(t)] = k[Rest(t)]
        BY <2>1, <3>1, <3>2, <3>3, SumsUpToAgree
      <3>. USE DEF h, k
      <3>. QED
        BY <2>2, <2>4, <3>4
    <2>. QED
      BY <2>3, <2>4
  <1>. HIDE DEF Of
  <1>2. ASSUME NEW s \in SUBSET S, s # {}
        PROVE  G[Rest(s)] = Of(Rest(s))
    <2>1. Rest(s) \in SUBSET S /\ Rest(s) # S
      BY <1>2, PickIsInside DEF Rest
    <2>. QED
      BY <1>1, <2>1
  <1>3. G = [s \in SUBSET S |-> IF s = {} THEN 0 ELSE f[Pick(s)] + G[Rest(s)]]
    BY <1>2
  <1>. HIDE DEF G
  <1>4. SumsUpTo(f, S, G)
    BY <1>3 DEF SumsUpTo
  <1>. QED
    BY <1>4

\* There is such a function for every finite set.
LEMMA SumsUpToExist ==
    ASSUME NEW f, NEW S, IsFiniteSet(S)
    PROVE  \E g : SumsUpTo(f, S, g)
  <1>. DEFINE Bad == {s \in SUBSET S : ~ \E g : SumsUpTo(f, s, g)}
  <1>. SUFFICES ASSUME Bad # {}
                PROVE  FALSE
    OBVIOUS
  <1>1. PICK s \in Bad : \A t \in Bad : t \subseteq s => t = s
    <2>1. Bad \in SUBSET (SUBSET S)
      OBVIOUS
    <2>. HIDE DEF Bad
    <2>. QED
      BY <2>1, SmallestSubset
  <1>2. \A t \in SUBSET s : t # s => \E g : SumsUpTo(f, t, g)
    BY <1>1
  <1>3. IsFiniteSet(s)
    BY FS_Subset
  <1>. QED
    BY <1>2, <1>3, SumsUpToStep

-----------------------------------------------------------------------------
(* Sums of natural numbers over finite sets.                               *)

\* A sum takes one element off at a time.
LEMMA SumUnfold ==
    ASSUME NEW f, NEW S, IsFiniteSet(S)
    PROVE  SumFunctionOnSet(f, S) =
               IF S = {} THEN 0 ELSE f[Pick(S)] + SumFunctionOnSet(f, Rest(S))
  <1>. DEFINE g == CHOOSE g : SumsUpTo(f, S, g)
              h == CHOOSE h : SumsUpTo(f, Rest(S), h)
  <1>1. SumFunctionOnSet(f, S) = g[S] /\ SumFunctionOnSet(f, Rest(S)) = h[Rest(S)]
    BY SumIsTheFold
  <1>2. Rest(S) \in SUBSET S
    BY DEF Rest
  <1>3. IsFiniteSet(Rest(S))
    BY <1>2, FS_Subset
  <1>4. SumsUpTo(f, S, g) /\ SumsUpTo(f, Rest(S), h)
    BY <1>3, SumsUpToExist
  <1>. HIDE DEF g, h
  <1>5. g[S] = IF S = {} THEN 0 ELSE f[Pick(S)] + g[Rest(S)]
    BY <1>4, SumsUpToUnfold
  <1>6. g[Rest(S)] = h[Rest(S)]
    BY <1>2, <1>4, SumsUpToAgree
  <1>. QED
    BY <1>1, <1>5, <1>6

\* An empty sum is zero.
LEMMA SumEmpty ==
    ASSUME NEW f
    PROVE  SumFunctionOnSet(f, {}) = 0
  BY SumUnfold, FS_EmptySet

\* A sum of natural numbers is one.
LEMMA SumNat ==
    ASSUME NEW S, IsFiniteSet(S), NEW f, \A x \in S : f[x] \in Nat
    PROVE  SumFunctionOnSet(f, S) \in Nat
  <1>. DEFINE Bad == {s \in SUBSET S : SumFunctionOnSet(f, s) \notin Nat}
  <1>. SUFFICES ASSUME Bad # {}
                PROVE  FALSE
    OBVIOUS
  <1>1. PICK s \in Bad : \A t \in Bad : t \subseteq s => t = s
    <2>1. Bad \in SUBSET (SUBSET S)
      OBVIOUS
    <2>. HIDE DEF Bad
    <2>. QED
      BY <2>1, SmallestSubset
  <1>2. SumFunctionOnSet(f, s) = IF s = {} THEN 0
                                 ELSE f[Pick(s)] + SumFunctionOnSet(f, Rest(s))
    BY FS_Subset, SumUnfold
  <1>3. s # {}
    BY <1>2
  <1>4. Pick(s) \in S /\ Rest(s) \in SUBSET S /\ Rest(s) # s /\ Rest(s) \subseteq s
    BY <1>3, PickIsInside DEF Rest
  <1>5. SumFunctionOnSet(f, Rest(s)) \in Nat /\ f[Pick(s)] \in Nat
    BY <1>1, <1>4
  <1>. QED
    BY <1>2, <1>3, <1>5

\* A sum of integers is one.
LEMMA SumInt ==
    ASSUME NEW S, IsFiniteSet(S), NEW f, \A x \in S : f[x] \in Int
    PROVE  SumFunctionOnSet(f, S) \in Int
  <1>. DEFINE Bad == {s \in SUBSET S : SumFunctionOnSet(f, s) \notin Int}
  <1>. SUFFICES ASSUME Bad # {}
                PROVE  FALSE
    OBVIOUS
  <1>1. PICK s \in Bad : \A t \in Bad : t \subseteq s => t = s
    <2>1. Bad \in SUBSET (SUBSET S)
      OBVIOUS
    <2>. HIDE DEF Bad
    <2>. QED
      BY <2>1, SmallestSubset
  <1>2. SumFunctionOnSet(f, s) = IF s = {} THEN 0
                                 ELSE f[Pick(s)] + SumFunctionOnSet(f, Rest(s))
    BY FS_Subset, SumUnfold
  <1>3. s # {}
    BY <1>2
  <1>4. Pick(s) \in S /\ Rest(s) \in SUBSET S /\ Rest(s) # s /\ Rest(s) \subseteq s
    BY <1>3, PickIsInside DEF Rest
  <1>5. SumFunctionOnSet(f, Rest(s)) \in Int /\ f[Pick(s)] \in Int
    BY <1>1, <1>4
  <1>. QED
    BY <1>2, <1>3, <1>5

\* Any element may be taken out first: the order of the fold does not show.
LEMMA SumTake ==
    ASSUME NEW S, IsFiniteSet(S), NEW f, \A x \in S : f[x] \in Int, NEW a \in S
    PROVE  SumFunctionOnSet(f, S) = f[a] + SumFunctionOnSet(f, S \ {a})
  <1>. DEFINE Good(s) == \A x \in s :
                  SumFunctionOnSet(f, s) = f[x] + SumFunctionOnSet(f, s \ {x})
              Bad == {s \in SUBSET S : ~Good(s)}
  <1>1. SUFFICES ASSUME Bad # {}
                 PROVE  FALSE
    OBVIOUS
  <1>2. PICK s \in Bad : \A t \in Bad : t \subseteq s => t = s
    <2>1. Bad \in SUBSET (SUBSET S)
      OBVIOUS
    <2>. HIDE DEF Bad
    <2>. QED
      BY <1>1, <2>1, SmallestSubset
  <1>3. PICK x \in s : SumFunctionOnSet(f, s) # f[x] + SumFunctionOnSet(f, s \ {x})
    BY <1>2
  <1>. DEFINE p == Pick(s)
              both == s \ {p, x}
  <1>4. p \in s /\ Rest(s) = s \ {p}
    BY <1>3, PickIsInside DEF Rest
  <1>5. IsFiniteSet(s) /\ IsFiniteSet(both) /\ both \in SUBSET S
    <2>1. s \in SUBSET S /\ both \in SUBSET S
      OBVIOUS
    <2>. QED
      BY <2>1, FS_Subset
  <1>6. SumFunctionOnSet(f, s) = f[p] + SumFunctionOnSet(f, s \ {p})
    BY <1>3, <1>4, <1>5, SumUnfold
  <1>7. p # x
    BY <1>3, <1>6
  <1>8. Good(s \ {p}) /\ Good(s \ {x})
    <2>1. /\ s \ {p} \in SUBSET S /\ s \ {p} # s /\ s \ {p} \subseteq s
          /\ s \ {x} \in SUBSET S /\ s \ {x} # s /\ s \ {x} \subseteq s
      BY <1>4
    <2>. HIDE DEF Good, p
    <2>. QED
      BY <1>2, <2>1
  <1>9. /\ SumFunctionOnSet(f, s \ {p}) = f[x] + SumFunctionOnSet(f, both)
        /\ SumFunctionOnSet(f, s \ {x}) = f[p] + SumFunctionOnSet(f, both)
    <2>1. (s \ {p}) \ {x} = both /\ (s \ {x}) \ {p} = both
      OBVIOUS
    <2>2. x \in s \ {p} /\ p \in s \ {x}
      BY <1>4, <1>7
    <2>. HIDE DEF both, p
    <2>. QED
      BY <1>8, <2>1, <2>2
  <1>10. f[p] \in Int /\ f[x] \in Int /\ SumFunctionOnSet(f, both) \in Int
    <2>1. p \in S /\ x \in S
      BY <1>4
    <2>. HIDE DEF p
    <2>. QED
      BY <1>5, <2>1, SumInt
  <1>. HIDE DEF p, both
  <1>. QED
    BY <1>3, <1>6, <1>9, <1>10

\* And so of natural numbers.
LEMMA SumRemove ==
    ASSUME NEW S, IsFiniteSet(S), NEW f, \A x \in S : f[x] \in Nat, NEW a \in S
    PROVE  SumFunctionOnSet(f, S) = f[a] + SumFunctionOnSet(f, S \ {a})
  <1>1. \A x \in S : f[x] \in Int
    OBVIOUS
  <1>. QED
    BY <1>1, SumTake

\* One element more.
LEMMA SumAdd ==
    ASSUME NEW S, IsFiniteSet(S), NEW f, NEW a, a \notin S, f[a] \in Nat,
           \A x \in S : f[x] \in Nat
    PROVE  SumFunctionOnSet(f, S \cup {a}) = f[a] + SumFunctionOnSet(f, S)
  <1>1. IsFiniteSet(S \cup {a}) /\ \A x \in S \cup {a} : f[x] \in Nat
    BY FS_AddElement
  <1>2. (S \cup {a}) \ {a} = S /\ a \in S \cup {a}
    OBVIOUS
  <1>. QED
    BY <1>1, <1>2, SumRemove

\* Functions that agree on a set have the same sum over it.
LEMMA SumSame ==
    ASSUME NEW S, IsFiniteSet(S), NEW f, NEW g, \A x \in S : f[x] = g[x]
    PROVE  SumFunctionOnSet(f, S) = SumFunctionOnSet(g, S)
  <1>. DEFINE Bad == {s \in SUBSET S : SumFunctionOnSet(f, s) # SumFunctionOnSet(g, s)}
  <1>. SUFFICES ASSUME Bad # {}
                PROVE  FALSE
    OBVIOUS
  <1>1. PICK s \in Bad : \A t \in Bad : t \subseteq s => t = s
    <2>1. Bad \in SUBSET (SUBSET S)
      OBVIOUS
    <2>. HIDE DEF Bad
    <2>. QED
      BY <2>1, SmallestSubset
  <1>2. IsFiniteSet(s)
    BY FS_Subset
  <1>3. /\ SumFunctionOnSet(f, s) = IF s = {} THEN 0
                                    ELSE f[Pick(s)] + SumFunctionOnSet(f, Rest(s))
        /\ SumFunctionOnSet(g, s) = IF s = {} THEN 0
                                    ELSE g[Pick(s)] + SumFunctionOnSet(g, Rest(s))
    BY <1>2, SumUnfold
  <1>4. s # {}
    BY <1>3
  <1>5. Pick(s) \in S /\ Rest(s) \in SUBSET S /\ Rest(s) # s /\ Rest(s) \subseteq s
    BY <1>4, PickIsInside DEF Rest
  <1>6. SumFunctionOnSet(f, Rest(s)) = SumFunctionOnSet(g, Rest(s)) /\ f[Pick(s)] = g[Pick(s)]
    BY <1>1, <1>5
  <1>. QED
    BY <1>3, <1>4, <1>6

\* A function changed at one place.
LEMMA SumUpdate ==
    ASSUME NEW S, IsFiniteSet(S), NEW f, NEW g, NEW a \in S,
           \A x \in S : f[x] \in Nat /\ g[x] \in Nat,
           \A x \in S : x # a => f[x] = g[x]
    PROVE  SumFunctionOnSet(g, S) + f[a] = SumFunctionOnSet(f, S) + g[a]
  <1>. DEFINE others == S \ {a}
  <1>1. others \in SUBSET S /\ IsFiniteSet(others)
    BY FS_RemoveElement
  <1>2. SumFunctionOnSet(f, S) = f[a] + SumFunctionOnSet(f, others)
    BY SumRemove
  <1>3. SumFunctionOnSet(g, S) = g[a] + SumFunctionOnSet(g, others)
    BY SumRemove
  <1>4. SumFunctionOnSet(f, others) = SumFunctionOnSet(g, others)
    BY <1>1, SumSame
  <1>5. SumFunctionOnSet(f, others) \in Nat /\ f[a] \in Nat /\ g[a] \in Nat
    BY <1>1, SumNat
  <1>. HIDE DEF others
  <1>. QED
    BY <1>2, <1>3, <1>4, <1>5

\* A term is no larger than the sum.
LEMMA SumHasTheTerm ==
    ASSUME NEW S, IsFiniteSet(S), NEW f, \A x \in S : f[x] \in Nat, NEW a \in S
    PROVE  f[a] <= SumFunctionOnSet(f, S)
  <1>1. IsFiniteSet(S \ {a})
    BY FS_RemoveElement
  <1>2. SumFunctionOnSet(f, S \ {a}) \in Nat /\ f[a] \in Nat
    BY <1>1, SumNat
  <1>. QED
    BY <1>2, SumRemove

\* The first of an interval is summed last.
LEMMA SumFirst ==
    ASSUME NEW m \in Nat, NEW n \in Nat, m <= n, NEW f, \A x \in m..n : f[x] \in Nat
    PROVE  SumFunctionOnSet(f, m..n) = f[m] + SumFunctionOnSet(f, (m + 1)..n)
  <1>1. IsFiniteSet(m..n)
    BY FS_Interval
  <1>2. m \in m..n /\ (m..n) \ {m} = (m + 1)..n
    OBVIOUS
  <1>. QED
    BY <1>1, <1>2, SumRemove

\* One more at the end of an interval.
LEMMA SumLast ==
    ASSUME NEW n \in Nat, NEW f, \A x \in 1..(n + 1) : f[x] \in Nat
    PROVE  SumFunctionOnSet(f, 1..(n + 1)) = f[n + 1] + SumFunctionOnSet(f, 1..n)
  <1>1. IsFiniteSet(1..(n + 1))
    BY FS_Interval
  <1>2. n + 1 \in 1..(n + 1) /\ (1..(n + 1)) \ {n + 1} = 1..n
    OBVIOUS
  <1>. QED
    BY <1>1, <1>2, SumRemove

-----------------------------------------------------------------------------
(* What sums of sums are.                                                  *)

\* A collection of subsets that has the empty one and grows an element at a time has the
\* whole set.
LEMMA SubsetInduction ==
    ASSUME NEW S, IsFiniteSet(S), NEW P \in SUBSET (SUBSET S), {} \in P,
           \A T \in P : \A a \in S \ T : T \cup {a} \in P
    PROVE  S \in P
  <1>. DEFINE Bad == (SUBSET S) \ P
  <1>. SUFFICES ASSUME Bad # {}
                PROVE  FALSE
    OBVIOUS
  <1>1. PICK s \in Bad : \A t \in Bad : t \subseteq s => t = s
    <2>1. Bad \in SUBSET (SUBSET S)
      OBVIOUS
    <2>. HIDE DEF Bad
    <2>. QED
      BY <2>1, SmallestSubset
  <1>2. PICK a \in s : TRUE
    OBVIOUS
  <1>. DEFINE t == s \ {a}
  <1>3. t \in SUBSET S /\ t \subseteq s /\ t # s /\ t \cup {a} = s /\ a \in S \ t
    OBVIOUS
  <1>. HIDE DEF t
  <1>4. t \in P
    BY <1>1, <1>3
  <1>. QED
    BY <1>3, <1>4

\* A sum of zeros is zero.
LEMMA SumZero ==
    ASSUME NEW S, IsFiniteSet(S), NEW f, \A x \in S : f[x] = 0
    PROVE  SumFunctionOnSet(f, S) = 0
  <1>. DEFINE P == {T \in SUBSET S : SumFunctionOnSet(f, T) = 0}
  <1>1. {} \in P
    BY SumEmpty
  <1>2. ASSUME NEW T \in P, NEW a \in S \ T
        PROVE  T \cup {a} \in P
    <2>1. T \in SUBSET S /\ a \notin T /\ SumFunctionOnSet(f, T) = 0 /\ f[a] = 0
      OBVIOUS
    <2>2. IsFiniteSet(T) /\ \A x \in T : f[x] \in Nat
      BY <2>1, FS_Subset
    <2>3. SumFunctionOnSet(f, T \cup {a}) = 0
      <3>. HIDE DEF P
      <3>. QED
        BY <2>1, <2>2, SumAdd
    <2>. QED
      BY <2>1, <2>3
  <1>3. P \in SUBSET (SUBSET S)
    OBVIOUS
  <1>. HIDE DEF P
  <1>4. S \in P
    BY <1>1, <1>2, <1>3, SubsetInduction
  <1>. QED
    BY <1>4 DEF P

\* The sum of a sum of two functions.
LEMMA SumPlus ==
    ASSUME NEW S, IsFiniteSet(S), NEW f, NEW g, NEW h,
           \A x \in S : f[x] \in Nat /\ g[x] \in Nat /\ h[x] = f[x] + g[x]
    PROVE  SumFunctionOnSet(h, S) = SumFunctionOnSet(f, S) + SumFunctionOnSet(g, S)
  <1>. DEFINE P == {T \in SUBSET S : SumFunctionOnSet(h, T)
                                        = SumFunctionOnSet(f, T) + SumFunctionOnSet(g, T)}
  <1>1. {} \in P
    BY SumEmpty
  <1>2. ASSUME NEW T \in P, NEW a \in S \ T
        PROVE  T \cup {a} \in P
    <2>1. IsFiniteSet(T)
      BY FS_Subset
    <2>2. SumFunctionOnSet(h, T \cup {a}) = h[a] + SumFunctionOnSet(h, T)
      <3>1. a \notin T /\ h[a] \in Nat /\ \A x \in T : h[x] \in Nat
        OBVIOUS
      <3>. HIDE DEF P
      <3>. QED
        BY <2>1, <3>1, SumAdd
    <2>3. /\ SumFunctionOnSet(f, T \cup {a}) = f[a] + SumFunctionOnSet(f, T)
          /\ SumFunctionOnSet(f, T) \in Nat
      BY <2>1, SumAdd, SumNat
    <2>4. /\ SumFunctionOnSet(g, T \cup {a}) = g[a] + SumFunctionOnSet(g, T)
          /\ SumFunctionOnSet(g, T) \in Nat
      BY <2>1, SumAdd, SumNat
    <2>. QED
      BY <2>2, <2>3, <2>4
  <1>3. P \in SUBSET (SUBSET S)
    OBVIOUS
  <1>. HIDE DEF P
  <1>4. S \in P
    BY <1>1, <1>2, <1>3, SubsetInduction
  <1>. QED
    BY <1>4 DEF P

\* A factor comes out of a sum.
LEMMA SumTimes ==
    ASSUME NEW S, IsFiniteSet(S), NEW f, NEW h, NEW k \in Nat,
           \A x \in S : f[x] \in Nat /\ h[x] = k * f[x]
    PROVE  SumFunctionOnSet(h, S) = k * SumFunctionOnSet(f, S)
  <1>. DEFINE P == {T \in SUBSET S : SumFunctionOnSet(h, T) = k * SumFunctionOnSet(f, T)}
  <1>1. {} \in P
    BY SumEmpty
  <1>2. ASSUME NEW T \in P, NEW a \in S \ T
        PROVE  T \cup {a} \in P
    <2>1. IsFiniteSet(T)
      BY FS_Subset
    <2>2. \A x \in S : h[x] \in Nat
      OBVIOUS
    <2>3. SumFunctionOnSet(h, T \cup {a}) = h[a] + SumFunctionOnSet(h, T)
      BY <2>1, <2>2, SumAdd
    <2>4. /\ SumFunctionOnSet(f, T \cup {a}) = f[a] + SumFunctionOnSet(f, T)
          /\ SumFunctionOnSet(f, T) \in Nat
      BY <2>1, SumAdd, SumNat
    <2>5. ASSUME NEW m \in Nat, NEW n \in Nat
          PROVE  k * m + k * n = k * (m + n)
      OBVIOUS
    <2>. QED
      BY <2>3, <2>4, <2>5
  <1>3. P \in SUBSET (SUBSET S)
    OBVIOUS
  <1>. HIDE DEF P
  <1>4. S \in P
    BY <1>1, <1>2, <1>3, SubsetInduction
  <1>. QED
    BY <1>4 DEF P

\* A sum of ones counts.
LEMMA SumCounts ==
    ASSUME NEW S, IsFiniteSet(S), NEW f, \A x \in S : f[x] = 1
    PROVE  SumFunctionOnSet(f, S) = Cardinality(S)
  <1>. DEFINE P == {T \in SUBSET S : SumFunctionOnSet(f, T) = Cardinality(T)}
  <1>1. {} \in P
    BY SumEmpty, FS_EmptySet
  <1>2. ASSUME NEW T \in P, NEW a \in S \ T
        PROVE  T \cup {a} \in P
    <2>1. IsFiniteSet(T)
      BY FS_Subset
    <2>2. SumFunctionOnSet(f, T \cup {a}) = f[a] + SumFunctionOnSet(f, T)
      <3>1. a \notin T /\ f[a] \in Nat /\ \A x \in T : f[x] \in Nat
        OBVIOUS
      <3>. HIDE DEF P
      <3>. QED
        BY <2>1, <3>1, SumAdd
    <2>3. Cardinality(T \cup {a}) = Cardinality(T) + 1 /\ Cardinality(T) \in Nat
      BY <2>1, FS_AddElement, FS_CardinalityType
    <2>. QED
      BY <2>2, <2>3
  <1>3. P \in SUBSET (SUBSET S)
    OBVIOUS
  <1>. HIDE DEF P
  <1>4. S \in P
    BY <1>1, <1>2, <1>3, SubsetInduction
  <1>. QED
    BY <1>4 DEF P

\* The elements of T that have key m.
Under(T, key, m) == {x \in T : key[x] = m}

\* What is summed by key is summed once.
LEMMA SumByKey ==
    ASSUME NEW S, IsFiniteSet(S), NEW K, IsFiniteSet(K), NEW f, NEW key, NEW g,
           \A x \in S : f[x] \in Nat /\ key[x] \in K,
           \A m \in K : g[m] = SumFunctionOnSet(f, Under(S, key, m))
    PROVE  SumFunctionOnSet(g, K) = SumFunctionOnSet(f, S)
  <1>. DEFINE of(T) == [m \in K |-> SumFunctionOnSet(f, Under(T, key, m))]
              P == {T \in SUBSET S : SumFunctionOnSet(of(T), K) = SumFunctionOnSet(f, T)}
  <1>1. {} \in P
    <2>1. \A m \in K : of({})[m] = 0
      <3>1. \A m \in K : Under({}, key, m) = {}
        BY DEF Under
      <3>. QED
        BY <3>1, SumEmpty
    <2>. HIDE DEF of
    <2>2. SumFunctionOnSet(of({}), K) = 0
      BY <2>1, SumZero
    <2>. QED
      BY <2>2, SumEmpty
  <1>2. ASSUME NEW T \in P, NEW a \in S \ T
        PROVE  T \cup {a} \in P
    <2>. DEFINE k == key[a]
                more == T \cup {a}
    <2>1. k \in K /\ T \in SUBSET S /\ more \in SUBSET S
      OBVIOUS
    <2>2. IsFiniteSet(T) /\ IsFiniteSet(more)
      BY <2>1, FS_Subset
    <2>3. ASSUME NEW U \in SUBSET S, IsFiniteSet(U), NEW m \in K
          PROVE  IsFiniteSet(Under(U, key, m)) /\ of(U)[m] \in Nat
      <3>1. Under(U, key, m) \in SUBSET U
        BY DEF Under
      <3>2. IsFiniteSet(Under(U, key, m))
        BY <2>3, <3>1, FS_Subset
      <3>3. \A x \in Under(U, key, m) : f[x] \in Nat
        BY <2>3, <3>1
      <3>4. SumFunctionOnSet(f, Under(U, key, m)) \in Nat
        BY <3>2, <3>3, SumNat
      <3>. QED
        BY <3>2, <3>4
    <2>4. ASSUME NEW m \in K, m # k
          PROVE  of(T)[m] = of(more)[m]
      <3>1. Under(more, key, m) = Under(T, key, m)
        BY <2>4 DEF Under
      <3>. QED
        BY <3>1
    <2>5. of(more)[k] = f[a] + of(T)[k]
      <3>1. Under(more, key, k) = Under(T, key, k) \cup {a} /\ a \notin Under(T, key, k)
        BY DEF Under
      <3>2. \A x \in Under(T, key, k) : f[x] \in Nat
        BY <2>1 DEF Under
      <3>3. SumFunctionOnSet(f, Under(T, key, k) \cup {a}) = f[a] + SumFunctionOnSet(f, Under(T, key, k))
        <4>1. IsFiniteSet(Under(T, key, k))
          BY <2>1, <2>2, <2>3
        <4>. HIDE DEF k
        <4>. QED
          BY <3>1, <3>2, <4>1, SumAdd
      <3>. QED
        BY <2>1, <3>1, <3>3
    <2>6. \A m \in K : of(T)[m] \in Nat /\ of(more)[m] \in Nat
      BY <2>1, <2>2, <2>3
    <2>7. SumFunctionOnSet(of(T), K) = SumFunctionOnSet(f, T)
      OBVIOUS
    <2>. HIDE DEF of, k, more
    <2>8. SumFunctionOnSet(of(more), K) + of(T)[k] = SumFunctionOnSet(of(T), K) + of(more)[k]
      BY <2>1, <2>4, <2>6, SumUpdate
    <2>9. SumFunctionOnSet(f, more) = f[a] + SumFunctionOnSet(f, T)
      BY <2>1, <2>2, SumAdd DEF more
    <2>10. /\ SumFunctionOnSet(of(more), K) \in Nat /\ SumFunctionOnSet(f, T) \in Nat
           /\ f[a] \in Nat /\ of(T)[k] \in Nat
      BY <2>1, <2>2, <2>6, SumNat
    <2>11. SumFunctionOnSet(of(more), K) = SumFunctionOnSet(f, more)
      BY <2>5, <2>7, <2>8, <2>9, <2>10
    <2>. QED
      BY <2>1, <2>11 DEF more
  <1>3. P \in SUBSET (SUBSET S)
    OBVIOUS
  <1>. HIDE DEF P
  <1>4. S \in P
    BY <1>1, <1>2, <1>3, SubsetInduction
  <1>5. SumFunctionOnSet(of(S), K) = SumFunctionOnSet(f, S)
    BY <1>4 DEF P
  <1>6. \A m \in K : of(S)[m] = g[m]
    OBVIOUS
  <1>. HIDE DEF of
  <1>7. SumFunctionOnSet(of(S), K) = SumFunctionOnSet(g, K)
    BY <1>6, SumSame
  <1>. QED
    BY <1>5, <1>7

\* A sum over what comes after another.
LEMMA SumConcat ==
    ASSUME NEW n \in Nat, NEW m \in Nat, NEW f, NEW g,
           \A i \in 1..(n + m) : f[i] \in Nat, \A i \in 1..m : g[i] = f[n + i]
    PROVE  SumFunctionOnSet(f, 1..(n + m)) = SumFunctionOnSet(f, 1..n) + SumFunctionOnSet(g, 1..m)
  <1>. DEFINE M == 1..m
              past(T) == (1..n) \cup {n + i : i \in T}
              P == {T \in SUBSET M : SumFunctionOnSet(f, past(T))
                                        = SumFunctionOnSet(f, 1..n) + SumFunctionOnSet(g, T)}
  <1>1. SumFunctionOnSet(f, 1..n) \in Nat
    <2>1. IsFiniteSet(1..n) /\ \A i \in 1..n : f[i] \in Nat
      BY FS_Interval
    <2>. QED
      BY <2>1, SumNat
  <1>2. {} \in P
    <2>1. past({}) = 1..n
      OBVIOUS
    <2>. QED
      <3>1. SumFunctionOnSet(g, {}) = 0 /\ {} \in SUBSET M
        BY SumEmpty
      <3>. HIDE DEF past, M
      <3>. QED
        BY <1>1, <2>1, <3>1
  <1>3. IsFiniteSet(M)
    BY FS_Interval
  <1>4. ASSUME NEW T \in P, NEW a \in M \ T
        PROVE  T \cup {a} \in P
    <2>1. T \in SUBSET M /\ T \cup {a} \in SUBSET M /\ n + a \in 1..(n + m) /\ a \in 1..m
      OBVIOUS
    <2>2. past(T \cup {a}) = past(T) \cup {n + a} /\ n + a \notin past(T) /\ past(T) \in SUBSET (1..(n + m))
      BY <2>1
    <2>3. SumFunctionOnSet(f, past(T)) = SumFunctionOnSet(f, 1..n) + SumFunctionOnSet(g, T)
      OBVIOUS
    <2>4. IsFiniteSet(T) /\ IsFiniteSet(past(T))
      <3>1. IsFiniteSet(1..(n + m))
        BY FS_Interval
      <3>. HIDE DEF past, M
      <3>. QED
        BY <1>3, <2>1, <2>2, <3>1, FS_Subset
    <2>5. \A i \in T : g[i] \in Nat
      <3>1. \A i \in M : n + i \in 1..(n + m)
        OBVIOUS
      <3>. QED
        BY <2>1, <3>1
    <2>6. \A i \in past(T) : f[i] \in Nat
      BY <2>2
    <2>. HIDE DEF past, M, P
    <2>7. SumFunctionOnSet(f, past(T) \cup {n + a}) = f[n + a] + SumFunctionOnSet(f, past(T))
      BY <2>1, <2>2, <2>4, <2>6, SumAdd
    <2>8. SumFunctionOnSet(g, T \cup {a}) = g[a] + SumFunctionOnSet(g, T)
      <3>1. g[a] \in Nat /\ a \notin T
        BY <2>1
      <3>. QED
        BY <2>4, <2>5, <3>1, SumAdd
    <2>9. g[a] = f[n + a] /\ f[n + a] \in Nat /\ SumFunctionOnSet(g, T) \in Nat
      BY <2>1, <2>4, <2>5, SumNat
    <2>10. SumFunctionOnSet(f, past(T \cup {a}))
               = SumFunctionOnSet(f, 1..n) + SumFunctionOnSet(g, T \cup {a})
      <3>. DEFINE A == SumFunctionOnSet(f, past(T))
                  B == SumFunctionOnSet(f, 1..n)
                  C == SumFunctionOnSet(g, T)
                  D == SumFunctionOnSet(f, past(T \cup {a}))
                  E == SumFunctionOnSet(g, T \cup {a})
                  k == f[n + a]
      <3>1. A = B + C /\ D = k + A /\ E = k + C /\ k \in Nat /\ B \in Nat /\ C \in Nat
        <4>1. D = SumFunctionOnSet(f, past(T) \cup {n + a})
          BY <2>2
        <4>2. k \in Nat /\ E = k + C
          BY <2>8, <2>9
        <4>. QED
          BY <1>1, <2>3, <2>7, <2>9, <4>1, <4>2
      <3>. HIDE DEF A, B, C, D, E, k
      <3>2. D = B + E
        BY <3>1
      <3>. QED
        BY <3>2 DEF D, B, E
    <2>. QED
      BY <2>1, <2>10 DEF P
  <1>5. P \in SUBSET (SUBSET M)
    OBVIOUS
  <1>6. past(M) = 1..(n + m)
    <2>1. ASSUME NEW i \in 1..(n + m), i \notin 1..n
          PROVE  i - n \in M /\ i = n + (i - n)
      BY <2>1
    <2>2. \A i \in M : n + i \in 1..(n + m)
      OBVIOUS
    <2>3. (1..n) \subseteq 1..(n + m)
      OBVIOUS
    <2>. HIDE DEF M
    <2>. QED
      BY <2>1, <2>2, <2>3
  <1>. HIDE DEF P, M
  <1>7. M \in P
    BY <1>2, <1>3, <1>4, <1>5, SubsetInduction
  <1>8. SumFunctionOnSet(f, past(M)) = SumFunctionOnSet(f, 1..n) + SumFunctionOnSet(g, M)
    BY <1>7 DEF P
  <1>. QED
    BY <1>6, <1>8 DEF M

\* A sum of one term, which may be negative.
LEMMA SumOne ==
    ASSUME NEW a, NEW f, f[a] \in Int
    PROVE  SumFunctionOnSet(f, {a}) = f[a]
  <1>. DEFINE s == {a}
  <1>1. IsFiniteSet(s) /\ s # {}
    BY FS_Singleton
  <1>2. Pick(s) = a /\ Rest(s) = {}
    BY <1>1, PickIsInside DEF Rest
  <1>. HIDE DEF s
  <1>3. SumFunctionOnSet(f, s) = f[Pick(s)] + SumFunctionOnSet(f, Rest(s))
    BY <1>1, SumUnfold
  <1>4. SumFunctionOnSet(f, {}) = 0
    BY SumEmpty
  <1>5. SumFunctionOnSet(f, s) = f[a]
    BY <1>2, <1>3, <1>4
  <1>. QED
    BY <1>5 DEF s

\* A sum of two terms, which may be negative.
LEMMA SumTwo ==
    ASSUME NEW a, NEW b, a # b, NEW f, f[a] \in Int, f[b] \in Int
    PROVE  SumFunctionOnSet(f, {a, b}) = f[a] + f[b]
  <1>. DEFINE s == {a, b}
  <1>1. IsFiniteSet(s) /\ s # {}
    <2>1. IsFiniteSet({a}) /\ s = {a} \cup {b}
      BY FS_Singleton
    <2>. HIDE DEF s
    <2>2. IsFiniteSet(s)
      BY <2>1, FS_AddElement
    <2>. QED
      BY <2>2 DEF s
  <1>2. \/ Pick(s) = a /\ Rest(s) = {b}
        \/ Pick(s) = b /\ Rest(s) = {a}
    BY <1>1, PickIsInside DEF Rest
  <1>. HIDE DEF s
  <1>3. SumFunctionOnSet(f, s) = f[Pick(s)] + SumFunctionOnSet(f, Rest(s))
    BY <1>1, SumUnfold
  <1>4. SumFunctionOnSet(f, s) = f[a] + f[b]
    <2>1. CASE Pick(s) = a /\ Rest(s) = {b}
      <3>1. SumFunctionOnSet(f, Rest(s)) = f[b]
        BY <2>1, SumOne
      <3>. QED
        BY <1>3, <2>1, <3>1
    <2>2. CASE Pick(s) = b /\ Rest(s) = {a}
      <3>1. SumFunctionOnSet(f, Rest(s)) = f[a]
        BY <2>2, SumOne
      <3>. QED
        BY <1>3, <2>2, <3>1
    <2>. QED
      BY <1>2, <2>1, <2>2
  <1>. QED
    BY <1>4 DEF s

\* The sum of a difference of two functions.
LEMMA SumLess ==
    ASSUME NEW S, IsFiniteSet(S), NEW f, NEW g, NEW h,
           \A x \in S : f[x] \in Int /\ g[x] \in Int /\ h[x] = f[x] - g[x]
    PROVE  SumFunctionOnSet(h, S) = SumFunctionOnSet(f, S) - SumFunctionOnSet(g, S)
  <1>. DEFINE P == {T \in SUBSET S : SumFunctionOnSet(h, T)
                                        = SumFunctionOnSet(f, T) - SumFunctionOnSet(g, T)}
  <1>1. {} \in P
    BY SumEmpty
  <1>2. ASSUME NEW T \in P, NEW a \in S \ T
        PROVE  T \cup {a} \in P
    <2>. DEFINE more == T \cup {a}
    <2>1. more \in SUBSET S /\ T \in SUBSET S /\ a \in more /\ more \ {a} = T
      OBVIOUS
    <2>2. IsFiniteSet(more) /\ IsFiniteSet(T)
      BY <2>1, FS_Subset
    <2>3. \A x \in more : f[x] \in Int /\ g[x] \in Int /\ h[x] \in Int
      BY <2>1
    <2>4. \A x \in T : f[x] \in Int /\ g[x] \in Int
      BY <2>1
    <2>5. /\ f[a] \in Int /\ g[a] \in Int /\ h[a] = f[a] - g[a]
          /\ SumFunctionOnSet(h, T) = SumFunctionOnSet(f, T) - SumFunctionOnSet(g, T)
      OBVIOUS
    <2>. HIDE DEF more
    <2>6. SumFunctionOnSet(h, more) = h[a] + SumFunctionOnSet(h, T)
      BY <2>1, <2>2, <2>3, SumTake
    <2>7. SumFunctionOnSet(f, more) = f[a] + SumFunctionOnSet(f, T)
      BY <2>1, <2>2, <2>3, SumTake
    <2>8. SumFunctionOnSet(g, more) = g[a] + SumFunctionOnSet(g, T)
      BY <2>1, <2>2, <2>3, SumTake
    <2>9. SumFunctionOnSet(f, T) \in Int /\ SumFunctionOnSet(g, T) \in Int
      BY <2>2, <2>4, SumInt
    <2>10. SumFunctionOnSet(h, more) = SumFunctionOnSet(f, more) - SumFunctionOnSet(g, more)
      BY <2>5, <2>6, <2>7, <2>8, <2>9
    <2>. QED
      BY <2>1, <2>10 DEF more
  <1>3. P \in SUBSET (SUBSET S)
    OBVIOUS
  <1>. HIDE DEF P
  <1>4. S \in P
    BY <1>1, <1>2, <1>3, SubsetInduction
  <1>. QED
    BY <1>4 DEF P

\* A sum does not depend on what its terms are called.
LEMMA SumRename ==
    ASSUME NEW S, IsFiniteSet(S), NEW f, NEW g, NEW name,
           \A x, y \in S : name[x] = name[y] => x = y,
           \A x \in S : f[x] \in Nat /\ g[name[x]] = f[x]
    PROVE  SumFunctionOnSet(g, {name[x] : x \in S}) = SumFunctionOnSet(f, S)
  <1>. DEFINE named(T) == {name[x] : x \in T}
              P == {T \in SUBSET S : SumFunctionOnSet(g, named(T)) = SumFunctionOnSet(f, T)}
  <1>1. {} \in P
    <2>1. named({}) = {}
      OBVIOUS
    <2>. QED
      BY <2>1, SumEmpty
  <1>2. ASSUME NEW T \in P, NEW a \in S \ T
        PROVE  T \cup {a} \in P
    <2>1. T \in SUBSET S /\ T \cup {a} \in SUBSET S /\ a \notin T
      OBVIOUS
    <2>2. IsFiniteSet(T)
      BY <2>1, FS_Subset
    <2>3. named(T \cup {a}) = named(T) \cup {name[a]} /\ name[a] \notin named(T)
      BY <2>1
    <2>4. IsFiniteSet(named(T))
      <3>. DEFINE as == [x \in T |-> name[x]]
      <3>1. as \in Surjection(T, named(T))
        BY DEF Surjection
      <3>. HIDE DEF as, named
      <3>. QED
        BY <2>2, <3>1, FS_Surjection
    <2>5. g[name[a]] \in Nat /\ \A y \in named(T) : g[y] \in Nat
      BY <2>1
    <2>6. f[a] \in Nat /\ \A y \in T : f[y] \in Nat
      BY <2>1
    <2>. HIDE DEF named, P
    <2>7. SumFunctionOnSet(g, named(T) \cup {name[a]})
              = g[name[a]] + SumFunctionOnSet(g, named(T))
      BY <2>3, <2>4, <2>5, SumAdd
    <2>8. SumFunctionOnSet(f, T \cup {a}) = f[a] + SumFunctionOnSet(f, T)
      BY <2>1, <2>2, <2>6, SumAdd
    <2>9. SumFunctionOnSet(g, named(T)) = SumFunctionOnSet(f, T)
      BY DEF P
    <2>10. SumFunctionOnSet(g, named(T \cup {a})) = SumFunctionOnSet(f, T \cup {a})
      BY <2>3, <2>7, <2>8, <2>9
    <2>. QED
      BY <2>1, <2>10 DEF P
  <1>3. P \in SUBSET (SUBSET S)
    OBVIOUS
  <1>. HIDE DEF P
  <1>4. S \in P
    BY <1>1, <1>2, <1>3, SubsetInduction
  <1>. QED
    BY <1>4 DEF P

\* A table of numbers by its rows and by its columns, each with its sum.
CrossTable(K, S, across, down, row, col) ==
    /\ \A k \in K, x \in S : across[k][x] \in Nat /\ down[x][k] = across[k][x]
    /\ \A k \in K : row[k] = SumFunctionOnSet(across[k], S)
    /\ \A x \in S : col[x] = SumFunctionOnSet(down[x], K)

\* It adds up to the same either way.
LEMMA SumSwap ==
    ASSUME NEW K, IsFiniteSet(K), NEW S, IsFiniteSet(S), NEW across, NEW down, NEW row, NEW col,
           CrossTable(K, S, across, down, row, col)
    PROVE  SumFunctionOnSet(row, K) = SumFunctionOnSet(col, S)
  <1>. /\ \A k \in K, x \in S : across[k][x] \in Nat /\ down[x][k] = across[k][x]
       /\ \A k \in K : row[k] = SumFunctionOnSet(across[k], S)
       /\ \A x \in S : col[x] = SumFunctionOnSet(down[x], K)
    BY DEF CrossTable
  <1>. DEFINE part(T) == [x \in S |-> SumFunctionOnSet(down[x], T)]
              P == {T \in SUBSET K : SumFunctionOnSet(row, T) = SumFunctionOnSet(part(T), S)}
  <1>1. {} \in P
    <2>1. \A x \in S : part({})[x] = 0
      BY SumEmpty
    <2>. HIDE DEF part
    <2>2. SumFunctionOnSet(part({}), S) = 0
      BY <2>1, SumZero
    <2>. QED
      BY <2>2, SumEmpty
  <1>2. ASSUME NEW T \in P, NEW a \in K \ T
        PROVE  T \cup {a} \in P
    <2>1. T \in SUBSET K /\ T \cup {a} \in SUBSET K /\ a \notin T /\ a \in K
      OBVIOUS
    <2>2. IsFiniteSet(T)
      BY <2>1, FS_Subset
    <2>3. ASSUME NEW x \in S
          PROVE  /\ part(T)[x] \in Nat /\ across[a][x] \in Nat
                 /\ part(T \cup {a})[x] = across[a][x] + part(T)[x]
      <3>1. /\ down[x][a] \in Nat /\ down[x][a] = across[a][x]
            /\ \A k \in T : down[x][k] \in Nat
        BY <2>1
      <3>. HIDE DEF P
      <3>2. SumFunctionOnSet(down[x], T) \in Nat
        BY <2>2, <3>1, SumNat
      <3>3. SumFunctionOnSet(down[x], T \cup {a}) = down[x][a] + SumFunctionOnSet(down[x], T)
        BY <2>1, <2>2, <3>1, SumAdd
      <3>. QED
        BY <3>1, <3>2, <3>3
    <2>4. \A k \in T : row[k] \in Nat
      <3>1. ASSUME NEW k \in T
            PROVE  row[k] \in Nat
        <4>1. \A x \in S : across[k][x] \in Nat
          BY <2>1
        <4>. HIDE DEF P
        <4>2. SumFunctionOnSet(across[k], S) \in Nat
          BY <4>1, SumNat
        <4>. QED
          BY <2>1, <4>2
      <3>. QED
        BY <3>1
    <2>5. row[a] = SumFunctionOnSet(across[a], S)
      BY <2>1
    <2>6. row[a] \in Nat
      <3>1. \A x \in S : across[a][x] \in Nat
        BY <2>1
      <3>. HIDE DEF P
      <3>. QED
        BY <2>5, <3>1, SumNat
    <2>7. SumFunctionOnSet(row, T) = SumFunctionOnSet(part(T), S)
      OBVIOUS
    <2>. HIDE DEF P, part
    <2>8. SumFunctionOnSet(row, T \cup {a}) = row[a] + SumFunctionOnSet(row, T)
      BY <2>1, <2>2, <2>4, <2>6, SumAdd
    <2>9. SumFunctionOnSet(part(T \cup {a}), S)
              = SumFunctionOnSet(across[a], S) + SumFunctionOnSet(part(T), S)
      <3>. DEFINE one == across[a]
                  few == part(T)
                  more == part(T \cup {a})
      <3>1. \A x \in S : one[x] \in Nat /\ few[x] \in Nat /\ more[x] = one[x] + few[x]
        BY <2>3
      <3>. HIDE DEF one, few, more
      <3>2. SumFunctionOnSet(more, S) = SumFunctionOnSet(one, S) + SumFunctionOnSet(few, S)
        BY <3>1, SumPlus
      <3>. QED
        BY <3>2 DEF one, few, more
    <2>10. SumFunctionOnSet(row, T \cup {a}) = SumFunctionOnSet(part(T \cup {a}), S)
      BY <2>5, <2>7, <2>8, <2>9
    <2>. QED
      BY <2>1, <2>10 DEF P
  <1>3. P \in SUBSET (SUBSET K)
    OBVIOUS
  <1>. HIDE DEF P
  <1>4. K \in P
    BY <1>1, <1>2, <1>3, SubsetInduction
  <1>5. SumFunctionOnSet(row, K) = SumFunctionOnSet(part(K), S)
    BY <1>4 DEF P
  <1>6. \A x \in S : part(K)[x] = col[x]
    OBVIOUS
  <1>. HIDE DEF part
  <1>7. SumFunctionOnSet(part(K), S) = SumFunctionOnSet(col, S)
    BY <1>6, SumSame
  <1>. QED
    BY <1>5, <1>7

-----------------------------------------------------------------------------
(* Lists.                                                                  *)

\* Some numbers from 1 to n have a least.
LEMMA LeastOf ==
    ASSUME NEW n \in Nat, NEW B \in SUBSET (1..n), B # {}
    PROVE  \E b \in B : \A c \in B : b <= c
  <1>. DEFINE T == {1..b : b \in B}
              N == 1..n
  <1>1. T \in SUBSET (SUBSET N) /\ T # {}
    <2>1. ASSUME NEW b \in B
          PROVE  1..b \in SUBSET N
      BY n \in Nat, b \in 1..n
    <2>. HIDE DEF N
    <2>. QED
      BY <2>1
  <1>2. IsFiniteSet(N)
    BY FS_Interval
  <1>3. PICK x \in T : \A y \in T : y \subseteq x => y = x
    <2>. HIDE DEF T, N
    <2>. QED
      BY <1>1, <1>2, SmallestSubset
  <1>4. PICK b \in B : x = 1..b
    OBVIOUS
  <1>5. ASSUME NEW c \in B, c < b
        PROVE  FALSE
    <2>1. 1..c \in T /\ 1..c \subseteq 1..b
      BY <1>5
    <2>2. 1..c = 1..b
      BY <1>3, <1>4, <2>1
    <2>3. b \in 1..b /\ b \notin 1..c
      BY <1>5
    <2>. QED
      BY <2>2, <2>3
  <1>. QED
    BY <1>5

\* And a greatest.
LEMMA GreatestOf ==
    ASSUME NEW n \in Nat, NEW B \in SUBSET (1..n), B # {}
    PROVE  \E b \in B : \A c \in B : c <= b
  <1>. DEFINE C == {i \in 1..n : n + 1 - i \in B}
  <1>1. PICK a \in B : TRUE
    OBVIOUS
  <1>2. n + 1 - a \in C
    OBVIOUS
  <1>3. PICK c \in C : \A d \in C : c <= d
    <2>1. C \in SUBSET (1..n) /\ C # {}
      BY <1>2
    <2>. HIDE DEF C
    <2>. QED
      BY <2>1, LeastOf
  <1>4. ASSUME NEW b \in B
        PROVE  b <= n + 1 - c
    <2>1. n + 1 - b \in C
      OBVIOUS
    <2>2. c <= n + 1 - b
      BY <1>3, <2>1
    <2>. QED
      BY <2>2
  <1>. QED
    BY <1>4

\* E, a set of pairs, orders N; p lists N along it.
Arranges(E, N) ==
    /\ \A i \in N : <<i, i>> \notin E
    /\ \A i, j \in N : i # j => <<i, j>> \in E \/ <<j, i>> \in E
    /\ \A i, j, k \in N : <<i, j>> \in E /\ <<j, k>> \in E => <<i, k>> \in E

Follows(p, E, N) == \A i, j \in N : i < j => <<p[i], p[j]>> \in E

Preceding(i, E, N) == {j \in N : <<j, i>> \in E}

\* What comes before x in E, of a finite set, is fewer than what comes before a later one.
LEMMA FewerBefore ==
    ASSUME NEW S, IsFiniteSet(S), NEW E, Arranges(E, S), NEW i \in S
    PROVE  /\ Cardinality(Preceding(i, E, S)) \in 0..(Cardinality(S) - 1)
           /\ \A k \in S : <<i, k>> \in E =>
                  Cardinality(Preceding(i, E, S)) < Cardinality(Preceding(k, E, S))
  <1>. DEFINE before(k) == Preceding(k, E, S)
              n == Cardinality(S)
  <1>1. n \in Nat
    BY FS_CardinalityType
  <1>. HIDE DEF n
  <1>2. ASSUME NEW k \in S
        PROVE  IsFiniteSet(before(k)) /\ Cardinality(before(k)) \in Nat
    <2>1. before(k) \in SUBSET S
      BY DEF Preceding
    <2>. HIDE DEF before
    <2>. QED
      BY <2>1, FS_Subset, FS_CardinalityType
  <1>3. i \notin before(i)
    BY DEF Arranges, Preceding
  <1>4. Cardinality(before(i) \cup {i}) = Cardinality(before(i)) + 1
    <2>. HIDE DEF before
    <2>. QED
      BY <1>2, <1>3, FS_AddElement
  <1>5. Cardinality(before(i)) + 1 <= n
    <2>1. before(i) \cup {i} \in SUBSET S
      BY DEF Preceding
    <2>. HIDE DEF before
    <2>2. Cardinality(before(i) \cup {i}) <= n
      BY <2>1, FS_Subset DEF n
    <2>. QED
      BY <1>4, <2>2
  <1>6. ASSUME NEW k \in S, <<i, k>> \in E
        PROVE  Cardinality(before(i)) < Cardinality(before(k))
    <2>1. before(i) \cup {i} \in SUBSET before(k)
      BY <1>6 DEF Arranges, Preceding
    <2>. HIDE DEF before
    <2>2. Cardinality(before(i) \cup {i}) <= Cardinality(before(k))
      BY <1>2, <2>1, FS_Subset
    <2>. QED
      BY <1>2, <1>4, <2>2
  <1>7. Cardinality(before(i)) \in 0..(n - 1)
    <2>. HIDE DEF before
    <2>. QED
      BY <1>1, <1>2, <1>5
  <1>. QED
    BY <1>6, <1>7 DEF n

\* A finite set that is ordered is listed in its order, each member once.
LEMMA ListedInOrder ==
    ASSUME NEW S, IsFiniteSet(S), NEW E, Arranges(E, S), NEW N, N = 1..Cardinality(S)
    PROVE  Listed(S, E) \in Bijection(N, S) /\ Follows(Listed(S, E), E, N)
  <1>. DEFINE n == Cardinality(S)
              r == [x \in S |-> Cardinality(Preceding(x, E, S)) + 1]
              l == Listed(S, E)
  <1>1. n \in Nat
    BY FS_CardinalityType
  <1>2. \A x \in S : r[x] \in N
    <2>. SUFFICES ASSUME NEW x \in S
                  PROVE  Cardinality(Preceding(x, E, S)) + 1 \in N
      OBVIOUS
    <2>. DEFINE c == Cardinality(Preceding(x, E, S))
    <2>1. c \in 0..(n - 1)
      BY FewerBefore
    <2>2. N = 1..n
      OBVIOUS
    <2>. HIDE DEF n, c
    <2>3. c + 1 \in 1..n
      BY <1>1, <2>1
    <2>. QED
      BY <2>2, <2>3 DEF c
  <1>3. \A x, y \in S : <<x, y>> \in E => r[x] < r[y]
    <2>1. \A x, y \in S : <<x, y>> \in E =>
              Cardinality(Preceding(x, E, S)) < Cardinality(Preceding(y, E, S))
      BY FewerBefore
    <2>2. \A x \in S : Cardinality(Preceding(x, E, S)) \in 0..(n - 1)
      BY FewerBefore
    <2>. HIDE DEF n
    <2>. QED
      BY <1>1, <2>1, <2>2
  <1>4. l = [m \in N |-> CHOOSE x \in S : Cardinality(Preceding(x, E, S)) = m - 1]
    BY DEF Listed, Preceding
  <1>5. \A m \in N : \A x \in S : Cardinality(Preceding(x, E, S)) = m - 1 <=> r[x] = m
    <2>1. \A x \in S : Cardinality(Preceding(x, E, S)) \in 0..(n - 1)
      BY FewerBefore
    <2>2. N = 1..n
      OBVIOUS
    <2>. HIDE DEF n
    <2>. QED
      BY <1>1, <2>1, <2>2
  <1>6. r \in [S -> N]
    BY <1>2
  <1>. HIDE DEF r, l
  <1>7. \A x, y \in S : r[x] = r[y] => x = y
    <2>1. \A m \in N : m \in Int
      BY <1>1
    <2>2. \A x \in S : r[x] \in Int
      BY <1>6, <2>1
    <2>3. ASSUME NEW x \in S, NEW y \in S, r[x] = r[y], x # y
          PROVE  FALSE
      <3>1. <<x, y>> \in E \/ <<y, x>> \in E
        BY <2>3 DEF Arranges
      <3>2. r[x] < r[y] \/ r[y] < r[x]
        BY <1>3, <3>1
      <3>. QED
        BY <2>2, <2>3, <3>2
    <2>. QED
      BY <2>3
  <1>8. \A m \in N : \E x \in S : r[x] = m
    <2>1. IsFiniteSet(N) /\ Cardinality(N) = n
      BY <1>1, FS_Interval
    <2>2. r \in Injection(S, N)
      BY <1>6, <1>7 DEF Injection, IsInjective
    <2>3. r \in Surjection(S, N)
      <3>. HIDE DEF n
      <3>. QED
        BY <2>1, <2>2, FS_Injection DEF n
    <2>. QED
      BY <2>3 DEF Surjection
  <1>9. \A m \in N : l[m] \in S /\ r[l[m]] = m
    <2>1. SUFFICES ASSUME NEW m \in N PROVE l[m] \in S /\ r[l[m]] = m
      OBVIOUS
    <2>2. PICK x \in S : Cardinality(Preceding(x, E, S)) = m - 1
      BY <1>5, <1>8
    <2>3. l[m] \in S /\ Cardinality(Preceding(l[m], E, S)) = m - 1
      BY <1>4, <2>2
    <2>. QED
      BY <1>5, <2>3
  <1>10. l \in [N -> S]
    BY <1>4, <1>9
  <1>11. \A i, j \in N : l[i] = l[j] => i = j
    BY <1>9
  <1>12. \A x \in S : \E m \in N : l[m] = x
    BY <1>6, <1>7, <1>9
  <1>13. l \in Bijection(N, S)
    BY <1>10, <1>11, <1>12 DEF Bijection, Injection, Surjection, IsInjective
  <1>14. ASSUME NEW i \in N, NEW j \in N, i < j
         PROVE  <<l[i], l[j]>> \in E
    <2>1. l[i] \in S /\ l[j] \in S /\ r[l[i]] = i /\ r[l[j]] = j
      BY <1>9
    <2>2. i \in Int /\ j \in Int
      BY <1>1
    <2>3. ~(<<l[j], l[i]>> \in E)
      BY <1>3, <1>14, <2>1, <2>2
    <2>4. l[i] # l[j]
      BY <1>14, <2>1, <2>2
    <2>. QED
      BY <2>1, <2>3, <2>4 DEF Arranges
  <1>. QED
    BY <1>13, <1>14 DEF l, Follows

-----------------------------------------------------------------------------
(* The recursive function behind FoldLeft.                                 *)

Greatest(t) == Max(t)
Lower(t) == t \ {Greatest(t)}

\* g folds s with the step F over each set of places in S.
FoldsOver(F, base, s, S, g) ==
    g = [t \in SUBSET S |-> IF t = {} THEN base ELSE F[<<g[Lower(t)], s[Greatest(t)]>>]]

\* Every set of places in S has its greatest.
Graded(S) == IsFiniteSet(S) /\ \A t \in SUBSET S : t # {} => Greatest(t) \in t

\* The recursive function, at one set of places.
LEMMA FoldsOverUnfold ==
    ASSUME NEW F, NEW base, NEW s, NEW S, NEW g, FoldsOver(F, base, s, S, g), NEW t \in SUBSET S
    PROVE  g[t] = IF t = {} THEN base ELSE F[<<g[Lower(t)], s[Greatest(t)]>>]
  <1>. DEFINE h == [u \in SUBSET S |-> IF u = {} THEN base ELSE F[<<g[Lower(u)], s[Greatest(u)]>>]]
  <1>1. g = h
    BY DEF FoldsOver
  <1>2. h[t] = IF t = {} THEN base ELSE F[<<g[Lower(t)], s[Greatest(t)]>>]
    OBVIOUS
  <1>. QED
    BY <1>1, <1>2

\* Subsets are graded, and lose a place below their greatest.
LEMMA GradedBelow ==
    ASSUME NEW S, Graded(S), NEW T \in SUBSET S
    PROVE  /\ Graded(T)
           /\ T # {} => Lower(T) \in SUBSET T /\ Lower(T) # T
  <1>1. IsFiniteSet(T)
    BY FS_Subset DEF Graded
  <1>. QED
    BY <1>1 DEF Graded, Lower

\* Two such functions agree wherever both are defined.
LEMMA FoldsOverAgree ==
    ASSUME NEW F, NEW base, NEW s, NEW S, Graded(S), NEW T \in SUBSET S,
           NEW g, NEW h, FoldsOver(F, base, s, S, g), FoldsOver(F, base, s, T, h)
    PROVE  \A t \in SUBSET T : g[t] = h[t]
  <1>. DEFINE Bad == {t \in SUBSET T : g[t] # h[t]}
  <1>. SUFFICES ASSUME Bad # {}
                PROVE  FALSE
    OBVIOUS
  <1>1. IsFiniteSet(T)
    BY FS_Subset DEF Graded
  <1>2. PICK t \in Bad : \A u \in Bad : u \subseteq t => u = t
    <2>1. Bad \in SUBSET (SUBSET T)
      OBVIOUS
    <2>. HIDE DEF Bad
    <2>. QED
      BY <1>1, <2>1, SmallestSubset
  <1>3. /\ g[t] = IF t = {} THEN base ELSE F[<<g[Lower(t)], s[Greatest(t)]>>]
        /\ h[t] = IF t = {} THEN base ELSE F[<<h[Lower(t)], s[Greatest(t)]>>]
    <2>1. t \in SUBSET S /\ t \in SUBSET T
      OBVIOUS
    <2>2. g[t] = IF t = {} THEN base ELSE F[<<g[Lower(t)], s[Greatest(t)]>>]
      BY <2>1, FoldsOverUnfold
    <2>3. h[t] = IF t = {} THEN base ELSE F[<<h[Lower(t)], s[Greatest(t)]>>]
      BY <2>1, FoldsOverUnfold
    <2>. QED
      BY <2>2, <2>3
  <1>4. t # {}
    BY <1>3
  <1>5. Lower(t) \in SUBSET T /\ Lower(t) \subseteq t /\ Lower(t) # t
    <2>1. t \in SUBSET S
      OBVIOUS
    <2>. QED
      BY <1>4, <2>1, GradedBelow
  <1>6. g[Lower(t)] = h[Lower(t)]
    BY <1>2, <1>5
  <1>. QED
    BY <1>3, <1>4, <1>6

\* Were there folds over every smaller set, there would be one over this.
LEMMA FoldsOverStep ==
    ASSUME NEW F, NEW base, NEW s, NEW S, Graded(S),
           \A T \in SUBSET S : T # S => \E g : FoldsOver(F, base, s, T, g)
    PROVE  \E g : FoldsOver(F, base, s, S, g)
  <1>. DEFINE Of(t) == (CHOOSE g : FoldsOver(F, base, s, t, g))[t]
              G == [t \in SUBSET S |-> IF t = {} THEN base ELSE F[<<Of(Lower(t)), s[Greatest(t)]>>]]
  <1>1. ASSUME NEW t \in SUBSET S, t # S
        PROVE  Of(t) = IF t = {} THEN base ELSE F[<<Of(Lower(t)), s[Greatest(t)]>>]
    <2>. DEFINE h == CHOOSE g : FoldsOver(F, base, s, t, g)
    <2>1. FoldsOver(F, base, s, t, h)
      BY <1>1
    <2>2. h[t] = IF t = {} THEN base ELSE F[<<h[Lower(t)], s[Greatest(t)]>>]
      BY <2>1, FoldsOverUnfold
    <2>3. CASE t = {}
      BY <2>2, <2>3
    <2>4. CASE t # {}
      <3>1. Lower(t) \in SUBSET t /\ Lower(t) \in SUBSET S /\ Lower(t) # S /\ Graded(t)
        BY <1>1, <2>4, GradedBelow
      <3>. DEFINE k == CHOOSE g : FoldsOver(F, base, s, Lower(t), g)
      <3>2. FoldsOver(F, base, s, Lower(t), k)
        BY <3>1
      <3>. HIDE DEF h, k
      <3>4. h[Lower(t)] = k[Lower(t)]
        BY <2>1, <3>1, <3>2, FoldsOverAgree
      <3>. USE DEF h, k
      <3>. QED
        BY <2>2, <2>4, <3>4
    <2>. QED
      BY <2>3, <2>4
  <1>. HIDE DEF Of
  <1>2. ASSUME NEW t \in SUBSET S, t # {}
        PROVE  G[Lower(t)] = Of(Lower(t))
    <2>1. Lower(t) \in SUBSET S /\ Lower(t) # S
      BY <1>2, GradedBelow
    <2>. QED
      BY <1>1, <2>1
  <1>3. G = [t \in SUBSET S |-> IF t = {} THEN base ELSE F[<<G[Lower(t)], s[Greatest(t)]>>]]
    BY <1>2
  <1>. HIDE DEF G
  <1>4. FoldsOver(F, base, s, S, G)
    BY <1>3 DEF FoldsOver
  <1>. QED
    BY <1>4

\* There is such a function over any graded set.
LEMMA FoldsOverExist ==
    ASSUME NEW F, NEW base, NEW s, NEW S, Graded(S)
    PROVE  \E g : FoldsOver(F, base, s, S, g)
  <1>. DEFINE Bad == {t \in SUBSET S : ~ \E g : FoldsOver(F, base, s, t, g)}
  <1>. SUFFICES ASSUME Bad # {}
                PROVE  FALSE
    OBVIOUS
  <1>1. PICK t \in Bad : \A u \in Bad : u \subseteq t => u = t
    <2>1. Bad \in SUBSET (SUBSET S) /\ IsFiniteSet(S)
      BY DEF Graded
    <2>. HIDE DEF Bad
    <2>. QED
      BY <2>1, SmallestSubset
  <1>2. \A u \in SUBSET t : u # t => \E g : FoldsOver(F, base, s, u, g)
    BY <1>1
  <1>3. Graded(t)
    BY GradedBelow
  <1>. QED
    BY <1>2, <1>3, FoldsOverStep

\* The places of a sequence are graded, and come one after the other.
LEMMA UpToIsGraded ==
    ASSUME NEW n \in Nat
    PROVE  /\ Graded(1..n)
           /\ \A m \in 1..n : Greatest(1..m) = m /\ Lower(1..m) = 1..(m - 1)
  <1>1. ASSUME NEW t \in SUBSET (1..n), t # {}
        PROVE  Greatest(t) \in t /\ \A i \in t : i <= Greatest(t)
    <2>1. PICK x \in t : \A y \in t : y <= x
      BY <1>1, GreatestOf
    <2>2. \E z \in t : \A y \in t : z >= y
      BY <2>1
    <2>. QED
      BY <2>2 DEF Max, Greatest
  <1>2. Graded(1..n)
    BY <1>1, FS_Interval DEF Graded
  <1>3. ASSUME NEW m \in 1..n
        PROVE  Greatest(1..m) = m /\ Lower(1..m) = 1..(m - 1)
    <2>1. 1..m \in SUBSET (1..n) /\ 1..m # {} /\ m \in 1..m
      OBVIOUS
    <2>2. Greatest(1..m) \in 1..m /\ m <= Greatest(1..m)
      BY <1>1, <2>1
    <2>3. Greatest(1..m) = m
      BY <2>2
    <2>. QED
      BY <2>3 DEF Lower
  <1>. QED
    BY <1>2, <1>3

\* What a fold holds after each place: the step F of what it held before.
StepsOver(F, base, s, h) ==
    h[0] = base /\ \A m \in 1..Len(s) : h[m] = F[<<h[m - 1], s[m]>>]

FoldsInSteps(F, base, s, D, g) ==
    \E h \in [0..Len(s) -> D] : StepsOver(F, base, s, h) /\ g[DOMAIN s] = h[Len(s)]

\* A fold of a sequence is the last of the steps over its places.
LEMMA FoldsStepByStep ==
    ASSUME NEW E, NEW s \in Seq(E), NEW D, NEW F \in [D \X E -> D], NEW base \in D,
           NEW g, FoldsOver(F, base, s, DOMAIN s, g)
    PROVE  FoldsInSteps(F, base, s, D, g)
  <1>. DEFINE n == Len(s)
              h == [m \in 0..n |-> g[1..m]]
  <1>0. n \in Nat /\ DOMAIN s = 1..n /\ \A m \in 1..n : s[m] \in E
    OBVIOUS
  <1>. HIDE DEF n
  <1>1. h[0] = base
    <2>1. {} \in SUBSET (DOMAIN s) /\ 1..0 = {}
      OBVIOUS
    <2>2. g[{}] = base
      <3>. DEFINE t == {}
      <3>1. t \in SUBSET (DOMAIN s)
        OBVIOUS
      <3>. HIDE DEF t
      <3>2. g[t] = IF t = {} THEN base ELSE F[<<g[Lower(t)], s[Greatest(t)]>>]
        BY <3>1, FoldsOverUnfold
      <3>. QED
        BY <3>2 DEF t
    <2>. QED
      BY <1>0, <2>1, <2>2
  <1>2. ASSUME NEW m \in 1..n
        PROVE  h[m] = F[<<h[m - 1], s[m]>>]
    <2>1. 1..m \in SUBSET (DOMAIN s) /\ 1..m # {} /\ m - 1 \in 0..n /\ m \in 0..n
      BY <1>0
    <2>2. g[1..m] = F[<<g[Lower(1..m)], s[Greatest(1..m)]>>]
      <3>. DEFINE t == 1..m
      <3>1. t \in SUBSET (DOMAIN s) /\ t # {}
        BY <2>1
      <3>. HIDE DEF t
      <3>2. g[t] = IF t = {} THEN base ELSE F[<<g[Lower(t)], s[Greatest(t)]>>]
        BY <3>1, FoldsOverUnfold
      <3>3. g[t] = F[<<g[Lower(t)], s[Greatest(t)]>>]
        BY <3>1, <3>2
      <3>. QED
        BY <3>3 DEF t
    <2>3. Greatest(1..m) = m /\ Lower(1..m) = 1..(m - 1)
      BY <1>0, UpToIsGraded
    <2>. QED
      BY <2>1, <2>2, <2>3
  <1>. HIDE DEF h
  <1>3. \A m \in 0..n : h[m] \in D
    <2>. DEFINE B == {m \in 1..n : h[m] \notin D}
    <2>1. SUFFICES ASSUME B # {} PROVE FALSE
      BY <1>0, <1>1
    <2>2. PICK b \in B : \A c \in B : b <= c
      <3>1. B \in SUBSET (1..n)
        OBVIOUS
      <3>. HIDE DEF B
      <3>. QED
        BY <1>0, <2>1, <3>1, LeastOf
    <2>3. b \in 1..n /\ h[b] \notin D
      OBVIOUS
    <2>4. h[b - 1] \in D
      <3>1. b - 1 = 0 \/ (b - 1 \in 1..n /\ b - 1 < b)
        BY <1>0, <2>3
      <3>2. b - 1 \notin B
        <4>. HIDE DEF B
        <4>. QED
          BY <1>0, <2>2, <2>3
      <3>. QED
        BY <1>1, <3>1, <3>2
    <2>5. <<h[b - 1], s[b]>> \in D \X E
      BY <1>0, <2>3, <2>4
    <2>. HIDE DEF B
    <2>6. h[b] = F[<<h[b - 1], s[b]>>]
      BY <1>2, <2>3
    <2>. QED
      BY <2>3, <2>5, <2>6
  <1>4. h \in [0..n -> D]
    BY <1>3 DEF h
  <1>5. g[DOMAIN s] = h[n]
    BY <1>0 DEF h
  <1>. QED
    BY <1>1, <1>2, <1>4, <1>5 DEF StepsOver, FoldsInSteps, n

\* g steps by F wherever it holds something of D.
StepsInside(F, base, s, S, D, g) ==
    /\ g = [t \in SUBSET S |-> g[t]] /\ g[{}] = base
    /\ \A t \in SUBSET S : t # {} /\ g[Lower(t)] \in D => g[t] = F[<<g[Lower(t)], s[Greatest(t)]>>]

\* What steps by F inside D never leaves it, so it folds by F.
LEMMA InsideIsOver ==
    ASSUME NEW S, Graded(S), NEW E, NEW s, \A i \in S : s[i] \in E,
           NEW D, NEW F \in [D \X E -> D], NEW base \in D, NEW g, StepsInside(F, base, s, S, D, g)
    PROVE  FoldsOver(F, base, s, S, g) /\ \A t \in SUBSET S : g[t] \in D
  <1>. DEFINE Bad == {t \in SUBSET S : g[t] \notin D}
  <1>1. Bad = {}
    <2>. SUFFICES ASSUME Bad # {}
                  PROVE  FALSE
      OBVIOUS
    <2>1. PICK t \in Bad : \A u \in Bad : u \subseteq t => u = t
      <3>1. Bad \in SUBSET (SUBSET S) /\ IsFiniteSet(S)
        BY DEF Graded
      <3>. HIDE DEF Bad
      <3>. QED
        BY <3>1, SmallestSubset
    <2>2. t \in SUBSET S /\ g[t] \notin D /\ t # {}
      BY DEF StepsInside
    <2>3. Lower(t) \in SUBSET S /\ Lower(t) \subseteq t /\ Lower(t) # t /\ Greatest(t) \in S
      BY <2>2, GradedBelow DEF Graded
    <2>4. g[Lower(t)] \in D
      BY <2>1, <2>3
    <2>5. g[t] = F[<<g[Lower(t)], s[Greatest(t)]>>]
      BY <2>2, <2>4 DEF StepsInside
    <2>6. <<g[Lower(t)], s[Greatest(t)]>> \in D \X E
      BY <2>3, <2>4
    <2>. QED
      BY <2>2, <2>5, <2>6
  <1>2. \A t \in SUBSET S : g[t] \in D
    BY <1>1
  <1>3. \A t \in SUBSET S :
            g[t] = IF t = {} THEN base ELSE F[<<g[Lower(t)], s[Greatest(t)]>>]
    <2>. SUFFICES ASSUME NEW t \in SUBSET S
                  PROVE  g[t] = IF t = {} THEN base ELSE F[<<g[Lower(t)], s[Greatest(t)]>>]
      OBVIOUS
    <2>1. CASE t = {}
      BY <2>1 DEF StepsInside
    <2>2. CASE t # {}
      <3>1. Lower(t) \in SUBSET S
        BY <2>2, GradedBelow
      <3>2. g[Lower(t)] \in D
        BY <1>2, <3>1
      <3>. QED
        BY <2>2, <3>2 DEF StepsInside
    <2>. QED
      BY <2>1, <2>2
  <1>4. g = [t \in SUBSET S |-> g[t]]
    BY DEF StepsInside
  <1>5. FoldsOver(F, base, s, S, g)
    <2>. DEFINE G == [t \in SUBSET S |-> IF t = {} THEN base ELSE F[<<g[Lower(t)], s[Greatest(t)]>>]]
    <2>1. \A t \in SUBSET S : g[t] = G[t]
      BY <1>3
    <2>2. g = G
      BY <1>4, <2>1
    <2>. QED
      BY <2>2 DEF FoldsOver
  <1>. QED
    BY <1>2, <1>5

\* And what folds by F steps by it.
LEMMA OverIsInside ==
    ASSUME NEW S, Graded(S), NEW E, NEW s, \A i \in S : s[i] \in E,
           NEW D, NEW F \in [D \X E -> D], NEW base \in D, NEW g, FoldsOver(F, base, s, S, g)
    PROVE  StepsInside(F, base, s, S, D, g)
  <1>1. g = [t \in SUBSET S |-> g[t]]
    BY DEF FoldsOver
  <1>2. \A t \in SUBSET S : g[t] = IF t = {} THEN base ELSE F[<<g[Lower(t)], s[Greatest(t)]>>]
    BY FoldsOverUnfold
  <1>. QED
    BY <1>1, <1>2 DEF StepsInside

-----------------------------------------------------------------------------
(* Places and numbers.                                                     *)

\* A set in two parts counts as both together.
LEMMA CountInTwo ==
    ASSUME NEW A, NEW B, IsFiniteSet(A \cup B), A \cap B = {}
    PROVE  /\ IsFiniteSet(A) /\ IsFiniteSet(B)
           /\ Cardinality(A) \in Nat /\ Cardinality(B) \in Nat
           /\ Cardinality(A \cup B) = Cardinality(A) + Cardinality(B)
  <1>1. A \in SUBSET (A \cup B) /\ B \in SUBSET (A \cup B)
    OBVIOUS
  <1>2. IsFiniteSet(A) /\ IsFiniteSet(B)
    BY <1>1, FS_Subset
  <1>3. Cardinality(A) \in Nat /\ Cardinality(B) \in Nat
    BY <1>2, FS_CardinalityType
  <1>4. Cardinality(A \cup B) = Cardinality(A) + Cardinality(B) - Cardinality(A \cap B)
    BY <1>2, FS_Union
  <1>. QED
    BY <1>2, <1>3, <1>4, FS_EmptySet

\* An increasing function of 1..n into itself leaves every number in its place.
LEMMA IncreasingIsIdentity ==
    ASSUME NEW n \in Nat, NEW g \in [1..n -> 1..n],
           \A i, j \in 1..n : i < j => g[i] < g[j]
    PROVE  \A i \in 1..n : g[i] = i
  <1>1. ASSUME NEW i \in 1..n, g[i] < i
        PROVE  FALSE
    <2>. DEFINE B == {k \in 1..n : g[k] < k}
    <2>1. B \in SUBSET (1..n) /\ B # {}
      BY <1>1
    <2>2. PICK b \in B : \A c \in B : b <= c
      <3>. HIDE DEF B
      <3>. QED
        BY <2>1, LeastOf
    <2>3. b - 1 \in 1..n /\ b - 1 \notin B
      BY <2>2
    <2>. QED
      BY <2>3
  <1>2. ASSUME NEW i \in 1..n, g[i] > i
        PROVE  FALSE
    <2>. DEFINE B == {k \in 1..n : g[k] > k}
    <2>1. B \in SUBSET (1..n) /\ B # {}
      BY <1>2
    <2>2. PICK b \in B : \A c \in B : c <= b
      <3>. HIDE DEF B
      <3>. QED
        BY <2>1, GreatestOf
    <2>3. b + 1 \in 1..n /\ b + 1 \notin B
      BY <2>2
    <2>. QED
      BY <2>3
  <1>. QED
    BY <1>1, <1>2

\* Of two different numbers, one not after the other is before it.
LEMMA OneIsLess ==
    ASSUME NEW x \in Int, NEW y \in Int, x # y, x < y \/ ~(y < x)
    PROVE  x < y
  OBVIOUS

\* The r[m], for m in N, are different; every number of N is one; p says where; p puts them in
\* order.
Different(r, N) == \A i, j \in N : r[i] = r[j] => i = j
Onto(r, M, N) == \A i \in N : \E j \in M : r[j] = i
Finds(p, r, N) == \A i \in N : r[p[i]] = i
PutsInOrder(p, r, N) == \A i, j \in N : i < j => r[p[i]] < r[p[j]] \/ ~(r[p[j]] < r[p[i]])

PlaceOf(r, N) == [i \in N |-> CHOOSE m \in N : r[m] = i]

\* Where every number is in r is a permutation that finds it.
LEMMA PlaceOfFinds ==
    ASSUME NEW N, NEW r, r \in [N -> N], Onto(r, N, N)
    PROVE  PlaceOf(r, N) \in [N -> N] /\ Finds(PlaceOf(r, N), r, N) /\ Different(PlaceOf(r, N), N)
  <1>. DEFINE p == PlaceOf(r, N)
  <1>1. \A i \in N : p[i] \in N /\ r[p[i]] = i
    BY DEF PlaceOf, Onto
  <1>2. p \in [N -> N]
    BY <1>1 DEF PlaceOf
  <1>. HIDE DEF p
  <1>3. ASSUME NEW i \in N, NEW j \in N, p[i] = p[j]
        PROVE  i = j
    <2>1. r[p[i]] = i /\ r[p[j]] = j
      BY <1>1
    <2>. QED
      BY <1>3, <2>1
  <1>4. Finds(p, r, N) /\ Different(p, N)
    BY <1>1, <1>3 DEF Finds, Different
  <1>. QED
    BY <1>2, <1>4 DEF p

\* Places that put n different numbers from 1 to n in order put the number i in place i.
LEMMA PlacesInOrder ==
    ASSUME NEW n \in Nat, NEW N, N = 1..n, NEW r, NEW p, r \in [N -> N], p \in [N -> N],
           Different(r, N), Different(p, N), PutsInOrder(p, r, N)
    PROVE  Finds(p, r, N)
  <1>. DEFINE g == [i \in N |-> r[p[i]]]
  <1>0. \A i \in N : i \in Int
    OBVIOUS
  <1>1. g \in [N -> N]
    OBVIOUS
  <1>2. \A i, j \in N : i < j => g[i] < g[j]
    <2>. SUFFICES ASSUME NEW i \in N, NEW j \in N, i < j
                  PROVE  r[p[i]] < r[p[j]]
      OBVIOUS
    <2>1. p[i] \in N /\ p[j] \in N /\ i # j
      BY <1>0
    <2>2. r[p[i]] # r[p[j]]
      BY <2>1 DEF Different
    <2>3. r[p[i]] \in Int /\ r[p[j]] \in Int
      BY <1>0, <2>1
    <2>4. r[p[i]] < r[p[j]] \/ ~(r[p[j]] < r[p[i]])
      BY DEF PutsInOrder
    <2>. QED
      BY <2>2, <2>3, <2>4, OneIsLess
  <1>3. \A i \in N : g[i] = i
    <2>. HIDE DEF g
    <2>. QED
      BY <1>1, <1>2, IncreasingIsIdentity
  <1>. QED
    BY <1>3 DEF Finds

\* Numbers from 1 to n, each once, are as many as they are.
LEMMA EachOnceIsAsMany ==
    ASSUME NEW n \in Nat, NEW N, N = 1..n, NEW r \in Seq(N),
           Different(r, 1..Len(r)), Onto(r, 1..Len(r), N)
    PROVE  Len(r) = n /\ r \in [N -> N] /\ Different(r, N) /\ Onto(r, N, N)
  <1>. USE DEF Different, Onto
  <1>1. r \in [1..Len(r) -> N] /\ Len(r) \in Nat
    BY LenProperties
  <1>2. r \in Bijection(1..Len(r), N)
    BY <1>1 DEF Bijection, Injection, Surjection, IsInjective
  <1>3. ExistsBijection(1..Len(r), N)
    BY <1>2 DEF ExistsBijection
  <1>4. Cardinality(N) = Len(r)
    BY <1>1, <1>3, FS_CountingElements
  <1>5. Cardinality(N) = n
    BY FS_Interval
  <1>. QED
    BY <1>1, <1>4, <1>5

\* Numbers compare as their multiples do.
LEMMA MoreOfAsMany ==
    ASSUME NEW x \in Nat, NEW y \in Nat, NEW n \in Nat, n > 0
    PROVE  /\ x * n > y * n <=> x > y
           /\ x * n < y * n <=> x < y
  OBVIOUS

\* SetToSeq lists every member of a set, once.
LEMMA SetAsSequence ==
    ASSUME NEW S, IsFiniteSet(S)
    PROVE  /\ SetToSeq(S) \in [1..Cardinality(S) -> S]
           /\ Different(SetToSeq(S), 1..Cardinality(S))
           /\ Onto(SetToSeq(S), 1..Cardinality(S), S)
  <1>. DEFINE s == SetToSeq(S)
              N == 1..Cardinality(S)
  <1>1. Cardinality(S) \in Nat /\ ExistsBijection(N, S)
    BY FS_CardinalityType
  <1>2. \E f \in [N -> S] : IsInjective(f)
    <2>1. PICK f : f \in Bijection(N, S)
      BY <1>1 DEF ExistsBijection
    <2>2. f \in [N -> S] /\ IsInjective(f)
      BY <2>1 DEF Bijection, Injection, IsInjective
    <2>. QED
      BY <2>2
  <1>3. s \in [N -> S] /\ IsInjective(s)
    BY <1>2 DEF SetToSeq
  <1>. HIDE DEF s
  <1>4. s \in Injection(N, S)
    BY <1>3 DEF Injection, IsInjective
  <1>5. Cardinality(N) = Cardinality(S)
    BY <1>1, FS_Interval
  <1>. HIDE DEF N
  <1>6. s \in Surjection(N, S)
    BY <1>4, <1>5, FS_Injection
  <1>7. Different(s, N) /\ Onto(s, N, S)
    BY <1>3, <1>6 DEF Different, Onto, Surjection, IsInjective
  <1>. QED
    BY <1>3, <1>7 DEF s, N

\* From one up to n there are n.
LEMMA UpToIsAsMany ==
    ASSUME NEW n \in Nat
    PROVE  IsFiniteSet(1..n) /\ Cardinality(1..n) = n
  BY FS_Interval

\* The first few of some places: all of them under the limit, and not the last over it.
LEMMA FirstOfThePlaces ==
    ASSUME NEW n \in Nat, NEW D \in SUBSET (1..n), NEW limit \in Nat
    PROVE  LET S == {i \in D : Cardinality({j \in D : j <= i}) <= limit}
           IN  /\ Cardinality(S) \in Nat /\ Cardinality(D) \in Nat
               /\ Cardinality(S) <= Cardinality(D) /\ IsFiniteSet(S)
               /\ Cardinality(S) < Cardinality(D) <=> Cardinality(D) > limit
  <1>. DEFINE upTo(i) == {j \in D : j <= i}
              S == {i \in D : Cardinality(upTo(i)) <= limit}
  <1>1. IsFiniteSet(D)
    <2>1. IsFiniteSet(1..n)
      BY FS_Interval
    <2>. QED
      BY <2>1, FS_Subset
  <1>2. S \in SUBSET D
    OBVIOUS
  <1>3. /\ IsFiniteSet(S) /\ Cardinality(S) \in Nat /\ Cardinality(D) \in Nat
        /\ Cardinality(S) <= Cardinality(D) /\ (Cardinality(S) = Cardinality(D) => S = D)
    <2>. HIDE DEF S
    <2>. QED
      BY <1>1, <1>2, FS_Subset, FS_CardinalityType
  <1>4. ASSUME NEW i \in D
        PROVE  /\ IsFiniteSet(upTo(i)) /\ Cardinality(upTo(i)) \in Nat
               /\ Cardinality(upTo(i)) <= Cardinality(D)
    <2>1. upTo(i) \in SUBSET D
      OBVIOUS
    <2>. HIDE DEF upTo
    <2>. QED
      BY <1>1, <2>1, FS_Subset, FS_CardinalityType
  <1>5. ASSUME Cardinality(D) <= limit
        PROVE  S = D
    <2>1. ASSUME NEW i \in D
          PROVE  Cardinality(upTo(i)) <= limit
      <3>. HIDE DEF upTo, S
      <3>. QED
        BY <1>3, <1>4, <1>5
    <2>. QED
      BY <2>1
  <1>6. ASSUME Cardinality(D) > limit
        PROVE  S # D
    <2>1. D # {}
      <3>1. Cardinality({}) = 0
        BY FS_EmptySet
      <3>. QED
        BY <1>6, <3>1
    <2>2. PICK last \in D : \A i \in D : i <= last
      BY <2>1, GreatestOf
    <2>3. upTo(last) = D
      BY <2>2
    <2>4. last \notin S
      <3>. HIDE DEF upTo
      <3>. QED
        BY <1>3, <1>6, <2>3
    <2>. QED
      BY <2>4
  <1>. HIDE DEF S
  <1>7. Cardinality(S) < Cardinality(D) <=> Cardinality(D) > limit
    BY <1>3, <1>5, <1>6
  <1>. QED
    BY <1>3, <1>7 DEF S

\* Two things are a finite set.
LEMMA TwoAreFew ==
    ASSUME NEW a, NEW b
    PROVE  IsFiniteSet({a, b})
  <1>1. IsFiniteSet({a}) /\ {a, b} = {a} \cup {b}
    BY FS_Singleton
  <1>2. IsFiniteSet({a} \cup {b})
    BY <1>1, FS_AddElement
  <1>. QED
    BY <1>1, <1>2

\* Two sequences flattened are one after the other.
LEMMA MergedIsConcatenated ==
    ASSUME NEW s, NEW t
    PROVE  FlattenSeq(<<s, t>>) = s \o t
  <1>. DEFINE u == <<s, t>>
              Unfolds(g) == g = [i \in 1..Len(u) |-> IF i = 1 THEN u[i] ELSE g[i - 1] \o u[i]]
              f == CHOOSE g : Unfolds(g)
              w == [i \in 1..2 |-> IF i = 1 THEN s ELSE s \o t]
  <1>1. Len(u) = 2 /\ u[1] = s /\ u[2] = t
    OBVIOUS
  <1>2. Unfolds(w)
    <2>1. \A i \in 1..2 : w[i] = IF i = 1 THEN u[i] ELSE w[i - 1] \o u[i]
      <3>1. w[1] = s /\ w[2] = s \o t
        OBVIOUS
      <3>2. w[2] = w[1] \o u[2] /\ w[1] = u[1] /\ 2 - 1 = 1
        BY <1>1, <3>1
      <3>3. \A i \in 1..2 : i = 1 \/ i = 2
        OBVIOUS
      <3>. HIDE DEF w, u
      <3>. QED
        BY <3>2, <3>3
    <2>2. w = [i \in 1..2 |-> IF i = 1 THEN u[i] ELSE w[i - 1] \o u[i]]
      <3>1. w = [i \in 1..2 |-> w[i]]
        OBVIOUS
      <3>. HIDE DEF w, u
      <3>. QED
        BY <2>1, <3>1
    <2>. HIDE DEF w, u
    <2>. QED
      BY <1>1, <2>2
  <1>3. Unfolds(f)
    <2>. HIDE DEF Unfolds, w
    <2>. QED
      BY <1>2
  <1>4. FlattenSeq(u) = f[2]
    <2>1. FlattenSeq(u) = f[Len(u)]
      <3>1. Len(u) # 0
        BY <1>1
      <3>. QED
        BY <3>1, Zenon DEF FlattenSeq
    <2>. QED
      BY <1>1, <2>1
  <1>5. f[2] = s \o t
    <2>. HIDE DEF f, u
    <2>1. f = [i \in 1..2 |-> IF i = 1 THEN u[i] ELSE f[i - 1] \o u[i]]
      BY <1>1, <1>3
    <2>. DEFINE r == [i \in 1..2 |-> IF i = 1 THEN u[i] ELSE f[i - 1] \o u[i]]
    <2>2. r[1] = u[1]
      OBVIOUS
    <2>3. r[2] = f[1] \o u[2]
      <3>1. \A i \in 1..2 : r[i] = IF i = 1 THEN u[i] ELSE f[i - 1] \o u[i]
        OBVIOUS
      <3>2. 2 - 1 = 1 /\ 2 \in 1..2 /\ 2 # 1
        OBVIOUS
      <3>. HIDE DEF r
      <3>. QED
        BY <3>1, <3>2
    <2>4. f = r
      BY <2>1
    <2>. HIDE DEF r
    <2>. QED
      BY <1>1, <2>2, <2>3, <2>4
  <1>. QED
    BY <1>4, <1>5

\* One sequence flattened is itself.
LEMMA OnlyOneIsItself ==
    ASSUME NEW s
    PROVE  FlattenSeq(<<s>>) = s
  <1>. DEFINE u == <<s>>
              Unfolds(g) == g = [i \in 1..Len(u) |-> IF i = 1 THEN u[i] ELSE g[i - 1] \o u[i]]
              f == CHOOSE g : Unfolds(g)
              w == [i \in 1..1 |-> s]
  <1>1. Len(u) = 1 /\ u[1] = s
    OBVIOUS
  <1>2. Unfolds(w)
    BY <1>1
  <1>3. Unfolds(f)
    <2>. HIDE DEF Unfolds, w
    <2>. QED
      BY <1>2
  <1>4. FlattenSeq(u) = f[1]
    <2>1. FlattenSeq(u) = f[Len(u)]
      <3>1. Len(u) # 0
        BY <1>1
      <3>. QED
        BY <3>1, Zenon DEF FlattenSeq
    <2>. QED
      BY <1>1, <2>1
  <1>5. f[1] = s
    <2>. DEFINE r == [i \in 1..1 |-> IF i = 1 THEN u[i] ELSE f[i - 1] \o u[i]]
    <2>1. f = r
      <3>. HIDE DEF f, u
      <3>. QED
        BY <1>1, <1>3
    <2>2. r[1] = u[1]
      OBVIOUS
    <2>. HIDE DEF f, u, r
    <2>. QED
      BY <1>1, <2>1, <2>2
  <1>. QED
    BY <1>4, <1>5

\* Different numbers up to n are all of them.
LEMMA DifferentIsComplete ==
    ASSUME NEW n \in Nat, NEW N, N = 1..n, NEW r \in [N -> N], Different(r, N)
    PROVE  Onto(r, N, N)
  <1>1. IsFiniteSet(N)
    BY FS_Interval
  <1>2. r \in Injection(N, N)
    BY DEF Injection, IsInjective, Different
  <1>3. r \in Surjection(N, N)
    BY <1>1, <1>2, FS_Injection
  <1>. QED
    BY <1>3 DEF Surjection, Onto

\* What is ordered can be listed in order.
LEMMA OrderIsFollowed ==
    ASSUME NEW n \in Nat, NEW N, N = 1..n, NEW E, Arranges(E, N)
    PROVE  \E p \in [N -> N] : Different(p, N) /\ Follows(p, E, N)
  <1>. DEFINE before(k) == Preceding(k, E, N)
              r == [i \in N |-> Cardinality(before(i)) + 1]
              p == PlaceOf(r, N)
  <1>0. IsFiniteSet(N) /\ Cardinality(N) = n
    BY FS_Interval
  <1>1. \A i \in N : r[i] \in N
    <2>1. \A i \in N : Cardinality(before(i)) \in 0..(n - 1)
      BY <1>0, FewerBefore
    <2>. HIDE DEF before
    <2>. QED
      BY <2>1
  <1>2. \A i, j \in N : <<i, j>> \in E => r[i] < r[j]
    <2>1. \A i, j \in N : <<i, j>> \in E => Cardinality(before(i)) < Cardinality(before(j))
      BY <1>0, FewerBefore
    <2>2. \A i \in N : Cardinality(before(i)) \in 0..(n - 1)
      BY <1>0, FewerBefore
    <2>. HIDE DEF before
    <2>. QED
      BY <2>1, <2>2
  <1>3. r \in [N -> N]
    BY <1>1
  <1>. HIDE DEF r
  <1>4. Different(r, N)
    <2>1. ASSUME NEW i \in N, NEW j \in N, r[i] = r[j], i # j
          PROVE  FALSE
      <3>1. r[i] < r[j] \/ r[j] < r[i]
        BY <1>2, <2>1 DEF Arranges
      <3>. QED
        BY <1>3, <2>1, <3>1
    <2>. QED
      BY <2>1 DEF Different
  <1>5. Onto(r, N, N)
    BY <1>3, <1>4, DifferentIsComplete
  <1>6. p \in [N -> N] /\ Finds(p, r, N) /\ Different(p, N)
    BY <1>3, <1>5, PlaceOfFinds
  <1>. HIDE DEF p
  <1>7. ASSUME NEW i \in N, NEW j \in N, i < j
        PROVE  <<p[i], p[j]>> \in E
    <2>1. p[i] \in N /\ p[j] \in N /\ r[p[i]] = i /\ r[p[j]] = j
      BY <1>6 DEF Finds
    <2>2. p[i] # p[j]
      BY <1>7, <2>1
    <2>3. ~(<<p[j], p[i]>> \in E)
      BY <1>2, <1>7, <2>1
    <2>. QED
      BY <2>1, <2>2, <2>3 DEF Arranges
  <1>. QED
    BY <1>6, <1>7 DEF Follows

\* The least of two numbers is the one that is not more than the other.
LEMMA LesserOfTwo ==
    ASSUME NEW a \in Int, NEW b \in Int
    PROVE  Min({a, b}) = IF a <= b THEN a ELSE b
  <1>1. \E x \in {a, b} : \A y \in {a, b} : x =< y
    OBVIOUS
  <1>. QED
    BY <1>1 DEF Min

\* One and another are two.
LEMMA OneAndAnother ==
    ASSUME NEW S, IsFiniteSet(S), Cardinality(S) = 1, NEW j, j \notin S
    PROVE  Cardinality(S \cup {j}) = 2
  <1>1. Cardinality(S \cup {j}) = Cardinality(S) + 1
    BY FS_AddElement
  <1>. QED
    BY <1>1

\* One of the g from place i on is one of the q up to there.
Meet(g, q, i, N) == \E j, k \in N : i <= j /\ k <= i /\ g[j] = q[k]

\* Of two listings of the same things, one place is not behind the other.
LEMMA EndsMeet ==
    ASSUME NEW n \in Nat, NEW N, N = 1..n, NEW g \in [N -> N], NEW q \in [N -> N],
           Different(g, N), Different(q, N), NEW i \in N
    PROVE  Meet(g, q, i, N)
  <1>. DEFINE A == {q[k] : k \in 1..i}
              B == {g[j] : j \in i..n}
  <1>0. SUFFICES ASSUME \A j, k \in N : i <= j /\ k <= i => g[j] # q[k]
                 PROVE  FALSE
    BY DEF Meet
  <1>1. A \in SUBSET N /\ B \in SUBSET N
    OBVIOUS
  <1>2. A \cap B = {}
    <2>1. ASSUME NEW k \in 1..i, NEW j \in i..n
          PROVE  q[k] # g[j]
      <3>1. j \in N /\ k \in N /\ i <= j /\ k <= i
        OBVIOUS
      <3>. QED
        BY <1>0, <3>1
    <2>. QED
      BY <2>1
  <1>3. IsFiniteSet(N) /\ Cardinality(N) = n
    BY FS_Interval
  <1>4. IsFiniteSet(A) /\ Cardinality(A) = i
    <2>. DEFINE M == 1..i
                h == [k \in M |-> q[k]]
    <2>1. M \in SUBSET N /\ IsFiniteSet(M) /\ Cardinality(M) = i
      BY FS_Interval
    <2>2. A = {q[k] : k \in M}
      OBVIOUS
    <2>. HIDE DEF M, A
    <2>3. h \in [M -> A] /\ \A a \in A : \E k \in M : h[k] = a
      BY <2>2
    <2>4. \A j, k \in M : h[j] = h[k] => j = k
      BY <2>1 DEF Different
    <2>5. h \in Bijection(M, A)
      BY <2>3, <2>4 DEF Bijection, Injection, Surjection, IsInjective
    <2>6. ExistsBijection(M, A)
      BY <2>5 DEF ExistsBijection
    <2>. QED
      BY <2>1, <2>6, FS_Bijection
  <1>5. IsFiniteSet(B) /\ Cardinality(B) = n - i + 1
    <2>. DEFINE M == i..n
                h == [k \in M |-> g[k]]
    <2>1. M \in SUBSET N /\ IsFiniteSet(M) /\ Cardinality(M) = n - i + 1
      BY FS_Interval
    <2>2. B = {g[k] : k \in M}
      OBVIOUS
    <2>. HIDE DEF M, B
    <2>3. h \in [M -> B] /\ \A a \in B : \E k \in M : h[k] = a
      BY <2>2
    <2>4. \A j, k \in M : h[j] = h[k] => j = k
      BY <2>1 DEF Different
    <2>5. h \in Bijection(M, B)
      BY <2>3, <2>4 DEF Bijection, Injection, Surjection, IsInjective
    <2>6. ExistsBijection(M, B)
      BY <2>5 DEF ExistsBijection
    <2>. QED
      BY <2>1, <2>6, FS_Bijection
  <1>. HIDE DEF A, B
  <1>6. Cardinality(A \cup B) = Cardinality(A) + Cardinality(B) - Cardinality(A \cap B)
    BY <1>4, <1>5, FS_Union
  <1>7. Cardinality(A \cap B) = 0
    BY <1>2, FS_EmptySet
  <1>8. Cardinality(A \cup B) <= n
    BY <1>1, <1>3, FS_Subset
  <1>. QED
    BY <1>4, <1>5, <1>6, <1>7, <1>8

\* What is appended is a member, and so is what was there.
LEMMA NamedAlso ==
    ASSUME NEW S, NEW s \in Seq(S), NEW r \in S
    PROVE  ToSet(Append(s, r)) = ToSet(s) \cup {r}
  <1>1. /\ DOMAIN s = 1..Len(s) /\ Len(s) \in Nat /\ DOMAIN Append(s, r) = 1..(Len(s) + 1)
        /\ \A i \in 1..Len(s) : Append(s, r)[i] = s[i]
        /\ Append(s, r)[Len(s) + 1] = r
    OBVIOUS
  <1>. QED
    BY <1>1 DEF ToSet

\* A sequence after another has the members of both.
LEMMA NamedTogether ==
    ASSUME NEW S, NEW s \in Seq(S), NEW t \in Seq(S)
    PROVE  s \o t \in Seq(S) /\ ToSet(s \o t) = ToSet(s) \cup ToSet(t)
  <1>1. /\ DOMAIN s = 1..Len(s) /\ Len(s) \in Nat /\ DOMAIN t = 1..Len(t) /\ Len(t) \in Nat
        /\ s \o t \in Seq(S) /\ DOMAIN (s \o t) = 1..(Len(s) + Len(t))
        /\ \A i \in 1..Len(s) : (s \o t)[i] = s[i]
        /\ \A i \in 1..Len(t) : (s \o t)[Len(s) + i] = t[i]
    OBVIOUS
  <1>2. ASSUME NEW i \in 1..(Len(s) + Len(t))
        PROVE  (s \o t)[i] \in ToSet(s) \cup ToSet(t)
    <2>1. CASE i <= Len(s)
      BY <1>1, <2>1 DEF ToSet
    <2>2. CASE i > Len(s)
      <3>1. i - Len(s) \in 1..Len(t) /\ i = Len(s) + (i - Len(s))
        BY <1>1, <2>2
      <3>. QED
        BY <1>1, <3>1 DEF ToSet
    <2>. QED
      BY <1>1, <2>1, <2>2
  <1>3. ToSet(s) \subseteq ToSet(s \o t)
    BY <1>1 DEF ToSet
  <1>4. ASSUME NEW i \in 1..Len(t)
        PROVE  t[i] \in ToSet(s \o t)
    <2>1. Len(s) + i \in 1..(Len(s) + Len(t))
      BY <1>1
    <2>. QED
      BY <1>1, <2>1 DEF ToSet
  <1>. QED
    BY <1>1, <1>2, <1>3, <1>4 DEF ToSet

-----------------------------------------------------------------------------
(* Things alike, in classes and in groups.                                 *)

\* A group has either of a pair.
Touches(group, pair) == group \cap {pair[1], pair[2]} # {}

\* A says which members of D are alike.
Likens(A, D) ==
    /\ \A x \in D : <<x, x>> \in A
    /\ \A x, y \in D : <<x, y>> \in A => <<y, x>> \in A
    /\ \A x, y, z \in D : <<x, y>> \in A /\ <<y, z>> \in A => <<x, z>> \in A

\* The first of those alike x.
FirstAlike(A, D, x, y) == y \in D /\ <<x, y>> \in A /\ \A z \in D : <<x, z>> \in A => y <= z

AlikeInside(A, group) == \A x, y \in group : <<x, y>> \in A
HoldsItsFirst(A, D, group) == \A x \in group, y \in D : FirstAlike(A, D, x, y) => y \in group
HoldsTwo(group) == \E x, y \in group : x # y
IsHeld(groups, pair) == \E i \in DOMAIN groups : pair[1] \in groups[i] /\ pair[2] \in groups[i]

\* Groups so far: parts of different classes, each with the first of its class, that hold
\* the pairs done.
Grouped(groups, A, D, done) ==
    /\ \A i \in DOMAIN groups :
           AlikeInside(A, groups[i]) /\ HoldsItsFirst(A, D, groups[i]) /\ HoldsTwo(groups[i])
    /\ \A i, j \in DOMAIN groups : groups[i] \cap groups[j] # {} => i = j
    /\ \A pair \in done : IsHeld(groups, pair)

AscendingPairs(A, D) == {p \in D \X D : p[1] < p[2] /\ <<p[1], p[2]>> \in A}

\* Every class has its first.
LEMMA FirstAlikeExists ==
    ASSUME NEW n \in Nat, NEW D, D = 1..n, NEW A, Likens(A, D), NEW x \in D
    PROVE  \E y \in D : FirstAlike(A, D, x, y)
  <1>. DEFINE B == {y \in D : <<x, y>> \in A}
  <1>1. B \in SUBSET (1..n) /\ B # {}
    BY DEF Likens
  <1>2. \E b \in B : \A c \in B : b <= c
    <2>. HIDE DEF B
    <2>. QED
      BY <1>1, LeastOf
  <1>. QED
    BY <1>2 DEF FirstAlike

\* The first of those alike is the same for all that are.
LEMMA FirstAlikeIsShared ==
    ASSUME NEW D \in SUBSET Int, NEW A, Likens(A, D), NEW x \in D, NEW y \in D, <<x, y>> \in A,
           NEW a, FirstAlike(A, D, x, a), NEW b, FirstAlike(A, D, y, b)
    PROVE  a = b
  <1>1. a \in D /\ b \in D /\ <<x, a>> \in A /\ <<y, b>> \in A
    BY DEF FirstAlike
  <1>2. <<x, b>> \in A /\ <<y, x>> \in A
    BY <1>1 DEF Likens
  <1>3. <<y, a>> \in A
    BY <1>1, <1>2 DEF Likens
  <1>4. a <= b /\ b <= a
    BY <1>1, <1>2, <1>3 DEF FirstAlike
  <1>5. a \in Int /\ b \in Int
    BY <1>1
  <1>. QED
    BY <1>4, <1>5

\* As the loop comes to a pair, the groups that touch it are those that hold its first.
LEMMA TouchingHoldsTheFirst ==
    ASSUME NEW n \in Nat, NEW D, D = 1..n, NEW A, Likens(A, D),
           NEW groups \in Seq(SUBSET D), NEW done, Grouped(groups, A, D, done),
           NEW pair \in AscendingPairs(A, D),
           \A q \in AscendingPairs(A, D) : q[1] < pair[1] => q \in done,
           NEW a, FirstAlike(A, D, pair[1], a), NEW i \in DOMAIN groups
    PROVE  Touches(groups[i], pair) <=> a \in groups[i]
  <1>. DEFINE l == pair[1]
              r == pair[2]
  <1>0. l \in D /\ r \in D /\ l < r /\ <<l, r>> \in A /\ pair = <<l, r>>
    BY DEF AscendingPairs
  <1>1. a \in D /\ <<l, a>> \in A /\ a <= l
    BY <1>0 DEF FirstAlike, Likens
  <1>2. groups[i] \in SUBSET D
    OBVIOUS
  <1>3. ASSUME NEW x \in {l, r}, x \in groups[i]
        PROVE  a \in groups[i]
    <2>1. <<l, x>> \in A /\ x \in D
      BY <1>0, <1>3 DEF Likens
    <2>2. PICK b \in D : FirstAlike(A, D, x, b)
      BY <2>1, FirstAlikeExists
    <2>3. D \in SUBSET Int
      OBVIOUS
    <2>4. a = b
      BY <1>0, <2>1, <2>2, <2>3, FirstAlikeIsShared
    <2>. QED
      BY <1>3, <2>2, <2>4 DEF Grouped, HoldsItsFirst
  <1>4. ASSUME a \in groups[i]
        PROVE  l \in groups[i]
    <2>1. CASE a = l
      BY <1>4, <2>1
    <2>2. CASE a # l
      <3>1. a < l /\ <<a, l>> \in A
        BY <1>0, <1>1, <2>2 DEF Likens
      <3>2. <<a, l>> \in AscendingPairs(A, D)
        BY <1>0, <1>1, <3>1 DEF AscendingPairs
      <3>3. <<a, l>> \in done
        BY <3>1, <3>2
      <3>4. PICK j \in DOMAIN groups : a \in groups[j] /\ l \in groups[j]
        BY <3>3 DEF Grouped, IsHeld
      <3>5. i = j
        BY <1>4, <3>4 DEF Grouped
      <3>. QED
        BY <3>4, <3>5
    <2>. QED
      BY <2>1, <2>2
  <1>. QED
    BY <1>3, <1>4 DEF Touches

\* The order in which two nested loops come to pairs.
Lexical(Q) == {e \in Q \X Q : e[1][1] < e[2][1] \/ (e[1][1] = e[2][1] /\ e[1][2] < e[2][2])}

\* Nested loops come to pairs one after the other.
LEMMA LexicalArranges ==
    ASSUME NEW D \in SUBSET Int, NEW Q \in SUBSET (D \X D)
    PROVE  Arranges(Lexical(Q), Q)
  <1>1. \A p, q \in Q : <<p, q>> \in Lexical(Q) <=> p[1] < q[1] \/ (p[1] = q[1] /\ p[2] < q[2])
    BY DEF Lexical
  <1>2. \A p \in Q : p[1] \in Int /\ p[2] \in Int /\ p = <<p[1], p[2]>>
    <2>1. \A p \in D \X D : p[1] \in D /\ p[2] \in D /\ p = <<p[1], p[2]>>
      OBVIOUS
    <2>. QED
      BY <2>1
  <1>3. ASSUME NEW p \in Q, NEW q \in Q, p # q
        PROVE  <<p, q>> \in Lexical(Q) \/ <<q, p>> \in Lexical(Q)
    <2>1. p[1] # q[1] \/ p[2] # q[2]
      BY <1>2, <1>3
    <2>. QED
      BY <1>1, <1>2, <2>1
  <1>4. ASSUME NEW p \in Q, NEW q \in Q, NEW r \in Q,
               <<p, q>> \in Lexical(Q), <<q, r>> \in Lexical(Q)
        PROVE  <<p, r>> \in Lexical(Q)
    BY <1>1, <1>2, <1>4
  <1>5. \A p \in Q : <<p, p>> \notin Lexical(Q)
    BY <1>1, <1>2
  <1>. QED
    BY <1>3, <1>4, <1>5 DEF Arranges

ClassOf(A, D, x) == {y \in D : <<y, x>> \in A}
Shared(A, D) == {x \in D : HoldsTwo(ClassOf(A, D, x))}

\* Groups that hold all pairs are the classes of two or more.
LEMMA GroupsAreClasses ==
    ASSUME NEW n \in Nat, NEW D, D = 1..n, NEW A, Likens(A, D),
           NEW groups \in Seq(SUBSET D), Grouped(groups, A, D, AscendingPairs(A, D))
    PROVE  /\ ToSet(groups) = {ClassOf(A, D, x) : x \in Shared(A, D)}
           /\ UNION ToSet(groups) = Shared(A, D)
  <1>. DEFINE Q == AscendingPairs(A, D)
  <1>1. \A i \in DOMAIN groups : groups[i] \in SUBSET D
    OBVIOUS
  <1>2. D \in SUBSET Int
    OBVIOUS
  <1>3. ASSUME NEW x \in D, NEW y \in D, <<x, y>> \in A, x # y
        PROVE  \E i \in DOMAIN groups : x \in groups[i] /\ y \in groups[i]
    <2>1. x < y \/ y < x
      BY <1>2, <1>3
    <2>2. <<y, x>> \in A
      BY <1>3 DEF Likens
    <2>3. CASE x < y
      <3>1. <<x, y>> \in Q
        BY <1>3, <2>3 DEF AscendingPairs
      <3>. QED
        BY <3>1 DEF Grouped, IsHeld
    <2>4. CASE y < x
      <3>1. <<y, x>> \in Q
        BY <2>2, <2>4 DEF AscendingPairs
      <3>. QED
        BY <3>1 DEF Grouped, IsHeld
    <2>. QED
      BY <2>1, <2>3, <2>4
  <1>4. ASSUME NEW i \in DOMAIN groups, NEW x \in groups[i]
        PROVE  groups[i] = ClassOf(A, D, x) /\ x \in Shared(A, D)
    <2>1. x \in D /\ \A y \in groups[i] : y \in D /\ <<y, x>> \in A
      BY <1>1 DEF Grouped, AlikeInside
    <2>2. ASSUME NEW y \in D, <<y, x>> \in A
          PROVE  y \in groups[i]
      <3>1. CASE y = x
        BY <3>1
      <3>2. CASE y # x
        <4>1. PICK j \in DOMAIN groups : x \in groups[j] /\ y \in groups[j]
          BY <1>3, <2>1, <2>2, <3>2
        <4>2. i = j
          BY <4>1 DEF Grouped
        <4>. QED
          BY <4>1, <4>2
      <3>. QED
        BY <3>1, <3>2
    <2>3. groups[i] = ClassOf(A, D, x)
      BY <2>1, <2>2 DEF ClassOf
    <2>4. HoldsTwo(groups[i])
      BY DEF Grouped
    <2>. QED
      BY <2>1, <2>3, <2>4 DEF Shared
  <1>5. ASSUME NEW x \in Shared(A, D)
        PROVE  \E i \in DOMAIN groups : x \in groups[i]
    <2>1. PICK y \in ClassOf(A, D, x) : y # x
      BY DEF Shared, HoldsTwo
    <2>2. x \in D /\ y \in D /\ <<y, x>> \in A
      BY DEF ClassOf, Shared
    <2>. QED
      BY <1>3, <2>1, <2>2
  <1>6. ASSUME NEW i \in DOMAIN groups
        PROVE  \E x \in groups[i] : TRUE
    BY DEF Grouped, HoldsTwo
  <1>7. ToSet(groups) = {ClassOf(A, D, x) : x \in Shared(A, D)}
    <2>1. ASSUME NEW g \in ToSet(groups)
          PROVE  g \in {ClassOf(A, D, x) : x \in Shared(A, D)}
      <3>1. PICK i \in DOMAIN groups : g = groups[i]
        BY DEF ToSet
      <3>2. PICK x \in groups[i] : TRUE
        BY <1>6
      <3>. QED
        BY <1>4, <3>1, <3>2
    <2>2. ASSUME NEW x \in Shared(A, D)
          PROVE  ClassOf(A, D, x) \in ToSet(groups)
      <3>1. PICK i \in DOMAIN groups : x \in groups[i]
        BY <1>5
      <3>. QED
        BY <1>4, <3>1 DEF ToSet
    <2>. QED
      BY <2>1, <2>2
  <1>8. UNION ToSet(groups) = Shared(A, D)
    BY <1>4, <1>5 DEF ToSet
  <1>. QED
    BY <1>7, <1>8

PairedUp(l, r) == \E f \in Bijection(DOMAIN l, DOMAIN r) : \A i \in DOMAIN l : l[i] = r[f[i]]

\* Lists without a repetition that have the same members have them at places that match.
LEMMA SameMembersMatch ==
    ASSUME NEW E, NEW l \in Seq(E), NEW r \in Seq(E), IsInjective(l), IsInjective(r), ToSet(l) = ToSet(r)
    PROVE  Len(l) = Len(r) /\ PairedUp(l, r)
  <1>. DEFINE N == DOMAIN l
              M == DOMAIN r
              f == [i \in N |-> CHOOSE j \in M : r[j] = l[i]]
  <1>0. Len(l) \in Nat /\ Len(r) \in Nat /\ N = 1..Len(l) /\ M = 1..Len(r)
    OBVIOUS
  <1>1. \A i \in N : \E j \in M : r[j] = l[i]
    BY DEF ToSet
  <1>2. \A j \in M : \E i \in N : r[j] = l[i]
    BY DEF ToSet
  <1>3. (\A i, j \in N : l[i] = l[j] => i = j) /\ (\A i, j \in M : r[i] = r[j] => i = j)
    BY DEF IsInjective
  <1>4. \A i \in N : f[i] \in M /\ r[f[i]] = l[i]
    BY <1>1
  <1>5. f \in [N -> M]
    BY <1>4
  <1>. HIDE DEF f, N, M
  <1>6. \A i, j \in N : f[i] = f[j] => i = j
    BY <1>3, <1>4
  <1>7. \A j \in M : \E i \in N : f[i] = j
    BY <1>2, <1>3, <1>4
  <1>8. f \in Bijection(N, M)
    BY <1>5, <1>6, <1>7 DEF Bijection, Injection, Surjection, IsInjective
  <1>9. Len(l) = Len(r)
    <2>1. /\ IsFiniteSet(N) /\ Cardinality(N) = Len(l)
          /\ IsFiniteSet(M) /\ Cardinality(M) = Len(r)
      <3>1. \A k \in Nat : IsFiniteSet(1..k) /\ Cardinality(1..k) = k
        BY FS_Interval
      <3>. QED
        BY <1>0, <3>1
    <2>2. ExistsBijection(N, M)
      BY <1>8 DEF ExistsBijection
    <2>. QED
      BY <2>1, <2>2, FS_Bijection
  <1>. QED
    BY <1>4, <1>8, <1>9 DEF PairedUp, N, M

\* A class of a finite set holds two when it has more than one.
LEMMA TwoIsMoreThanOne ==
    ASSUME NEW S, IsFiniteSet(S)
    PROVE  Cardinality(S) > 1 <=> HoldsTwo(S)
  <1>0. Cardinality(S) \in Nat
    BY FS_CardinalityType
  <1>1. ASSUME NEW x \in S, NEW y \in S, x # y
        PROVE  Cardinality(S) > 1
    <2>1. IsFiniteSet({x}) /\ Cardinality({x}) = 1
      BY FS_Singleton
    <2>2. Cardinality({x} \cup {y}) = 2
      BY <1>1, <2>1, FS_AddElement
    <2>3. {x} \cup {y} \in SUBSET S
      OBVIOUS
    <2>. DEFINE two == {x} \cup {y}
    <2>. HIDE DEF two
    <2>4. Cardinality(two) <= Cardinality(S)
      BY <2>3, FS_Subset DEF two
    <2>. QED
      BY <1>0, <2>2, <2>4 DEF two
  <1>2. ASSUME Cardinality(S) > 1, ~HoldsTwo(S)
        PROVE  FALSE
    <2>1. S # {}
      <3>1. Cardinality({}) = 0
        BY FS_EmptySet
      <3>. QED
        BY <1>2, <3>1
    <2>2. PICK x \in S : S = {x}
      BY <1>2, <2>1 DEF HoldsTwo
    <2>. QED
      BY <1>2, <2>2, FS_Singleton
  <1>. QED
    BY <1>1, <1>2 DEF HoldsTwo

\* Groups that are apart are listed by their least.
LEMMA GroupsAreListed ==
    ASSUME NEW n \in Nat, NEW D, D = 1..n, NEW groups \in SUBSET (SUBSET D),
           \A g \in groups : g # {}, \A g, h \in groups : g \cap h # {} => g = h,
           NEW E, E = {e \in groups \X groups : Min(e[1]) < Min(e[2])}
    PROVE  Listed(groups, E) \in Seq(groups)
  <1>1. \A g \in groups : Min(g) \in g
    <2>1. SUFFICES ASSUME NEW g \in groups PROVE Min(g) \in g
      OBVIOUS
    <2>2. \E b \in g : \A c \in g : b <= c
      BY LeastOf
    <2>. QED
      BY <2>2 DEF Min
  <1>2. \A g \in groups : Min(g) \in Int
    <2>1. \A g \in groups : Min(g) \in D
      BY <1>1
    <2>. QED
      BY <2>1
  <1>3. \A g, h \in groups : <<g, h>> \in E <=> Min(g) < Min(h)
    OBVIOUS
  <1>4. \A g, h \in groups : g # h => Min(g) # Min(h)
    BY <1>1
  <1>5. Arranges(E, groups)
    <2>1. \A g \in groups : <<g, g>> \notin E
      BY <1>2, <1>3
    <2>2. \A g, h \in groups : g # h => <<g, h>> \in E \/ <<h, g>> \in E
      BY <1>2, <1>3, <1>4
    <2>3. \A g, h, k \in groups : <<g, h>> \in E /\ <<h, k>> \in E => <<g, k>> \in E
      BY <1>2, <1>3
    <2>. QED
      BY <2>1, <2>2, <2>3 DEF Arranges
  <1>6. IsFiniteSet(groups)
    <2>1. IsFiniteSet(D)
      BY FS_Interval
    <2>2. IsFiniteSet(SUBSET D)
      BY <2>1, FS_SUBSET
    <2>. QED
      BY <2>2, FS_Subset
  <1>. DEFINE c == Cardinality(groups)
              l == Listed(groups, E)
  <1>7. c \in Nat
    BY <1>6, FS_CardinalityType
  <1>8. l \in Bijection(1..c, groups)
    BY <1>5, <1>6, ListedInOrder
  <1>. HIDE DEF l, c
  <1>9. l \in [1..c -> groups]
    BY <1>8 DEF Bijection, Injection
  <1>. QED
    BY <1>7, <1>9 DEF l

-----------------------------------------------------------------------------
(* The groups of rules that are alike.                                     *)

\* A pair joins one group that has either, or starts one when none has.
JoinsOne(groups, pair, two) ==
    \/ Join(groups, pair) = Append(groups, two) /\ \A i \in DOMAIN groups : ~Touches(groups[i], pair)
    \/ \E i \in DOMAIN groups :
           Touches(groups[i], pair) /\ Join(groups, pair) = [groups EXCEPT ![i] = groups[i] \cup two]

\* What Join does, to the groups and to the pair.
LEMMA JoinIs ==
    ASSUME NEW D, NEW groups \in Seq(SUBSET D), NEW pair \in D \X D
    PROVE  JoinsOne(groups, pair, {pair[1], pair[2]})
  <1>. DEFINE having == {g \in DOMAIN groups : groups[g] \cap {pair[1], pair[2]} # {}}
  <1>1. CASE having = {}
    BY <1>1 DEF Join, Touches, JoinsOne
  <1>2. CASE having # {}
    <2>. DEFINE first == CHOOSE g \in having : \A h \in having : g <= h
    <2>1. having \in SUBSET (1..Len(groups)) /\ Len(groups) \in Nat
      OBVIOUS
    <2>2. \E g \in having : \A h \in having : g <= h
      <3>. HIDE DEF having
      <3>. QED
        BY <1>2, <2>1, LeastOf
    <2>3. first \in having
      <3>. HIDE DEF having
      <3>. QED
        BY <2>2
    <2>4. Join(groups, pair) = [groups EXCEPT ![first] = groups[first] \cup {pair[1], pair[2]}]
      BY <1>2 DEF Join
    <2>. HIDE DEF first
    <2>. QED
      BY <2>3, <2>4 DEF Touches, JoinsOne
  <1>. QED
    BY <1>1, <1>2

\* Groups stay groups of rules.
LEMMA JoinKeepsGroups ==
    ASSUME NEW D, NEW groups \in Seq(SUBSET D), NEW pair \in D \X D
    PROVE  Join(groups, pair) \in Seq(SUBSET D)
  <1>. DEFINE two == {pair[1], pair[2]}
  <1>1. two \in SUBSET D
    OBVIOUS
  <1>2. JoinsOne(groups, pair, two)
    BY JoinIs
  <1>. HIDE DEF two
  <1>3. CASE Join(groups, pair) = Append(groups, two)
    BY <1>1, <1>3
  <1>4. ASSUME NEW i \in DOMAIN groups, Join(groups, pair) = [groups EXCEPT ![i] = groups[i] \cup two]
        PROVE  Join(groups, pair) \in Seq(SUBSET D)
    <2>1. groups[i] \cup two \in SUBSET D
      BY <1>1
    <2>. DEFINE new == groups[i] \cup two
    <2>. HIDE DEF new
    <2>2. [groups EXCEPT ![i] = new] \in Seq(SUBSET D)
      BY <2>1 DEF new
    <2>. QED
      BY <1>4, <2>2 DEF new
  <1>. QED
    BY <1>2, <1>3, <1>4 DEF JoinsOne

\* A fold of Join joins pair after pair.
JoinsInTurn(pairs, h) ==
    h[0] = <<>> /\ \A m \in 1..Len(pairs) : h[m] = Join(h[m - 1], pairs[m])

\* The loop of _ambiguous_groups, step by step.
LEMMA FoldOfJoin ==
    ASSUME NEW D, NEW pairs \in Seq(D \X D)
    PROVE  \E h \in [0..Len(pairs) -> Seq(SUBSET D)] :
               JoinsInTurn(pairs, h) /\ FoldLeft(Join, <<>>, pairs) = h[Len(pairs)]
  <1>. DEFINE P == D \X D
              G == Seq(SUBSET D)
              S == DOMAIN pairs
              F == [e \in G \X P |-> Join(e[1], e[2])]
              Joins(g) == g = [t \in SUBSET S |-> IF t = {} THEN <<>>
                                                   ELSE Join(g[t \ {Max(t)}], pairs[Max(t)])]
              it == CHOOSE g : Joins(g)
  <1>1. FoldLeft(Join, <<>>, pairs) = it[S]
    BY Zenon DEF FoldLeft, MapThenFoldSet
  <1>2. \A q \in G, p \in P : Join(q, p) \in G
    BY JoinKeepsGroups
  <1>3. F \in [G \X P -> G] /\ <<>> \in G
    <2>1. <<>> \in G
      OBVIOUS
    <2>. HIDE DEF G, P
    <2>2. F \in [G \X P -> G]
      BY <1>2
    <2>. QED
      BY <2>1, <2>2
  <1>4. \A q \in G, p \in P : F[<<q, p>>] = Join(q, p)
    OBVIOUS
  <1>5. pairs \in Seq(P) /\ S = 1..Len(pairs) /\ Len(pairs) \in Nat
    OBVIOUS
  <1>6. \A i \in S : pairs[i] \in P
    OBVIOUS
  <1>. HIDE DEF P, G, S, F
  <1>7. Graded(S)
    BY <1>5, UpToIsGraded
  <1>8. ASSUME NEW g, Joins(g)
        PROVE  StepsInside(F, <<>>, pairs, S, G, g)
    <2>. DEFINE f == [t \in SUBSET S |-> IF t = {} THEN <<>> ELSE Join(g[t \ {Max(t)}], pairs[Max(t)])]
    <2>1. g = f
      BY <1>8
    <2>2. \A t \in SUBSET S : f[t] = IF t = {} THEN <<>> ELSE Join(g[t \ {Max(t)}], pairs[Max(t)])
      OBVIOUS
    <2>3. f = [t \in SUBSET S |-> f[t]]
      OBVIOUS
    <2>. HIDE DEF f
    <2>4. ASSUME NEW t \in SUBSET S, t # {}, g[Lower(t)] \in G
          PROVE  g[t] = F[<<g[Lower(t)], pairs[Greatest(t)]>>]
      <3>1. Greatest(t) \in S
        BY <1>7, <2>4 DEF Graded
      <3>2. g[t] = Join(g[Lower(t)], pairs[Greatest(t)])
        BY <2>1, <2>2, <2>4 DEF Lower, Greatest
      <3>. QED
        BY <1>4, <1>6, <2>4, <3>1, <3>2
    <2>5. g[{}] = <<>>
      BY <2>1, <2>2
    <2>. QED
      BY <2>1, <2>3, <2>4, <2>5 DEF StepsInside
  <1>9. \E g : Joins(g)
    <2>1. PICK g : FoldsOver(F, <<>>, pairs, S, g)
      BY <1>7, FoldsOverExist
    <2>2. StepsInside(F, <<>>, pairs, S, G, g)
      BY <1>3, <1>6, <1>7, <2>1, OverIsInside
    <2>3. \A t \in SUBSET S : g[t] \in G
      BY <1>3, <1>6, <1>7, <2>2, InsideIsOver
    <2>. DEFINE f == [t \in SUBSET S |-> IF t = {} THEN <<>> ELSE Join(g[t \ {Max(t)}], pairs[Max(t)])]
    <2>4. ASSUME NEW t \in SUBSET S
          PROVE  g[t] = f[t]
      <3>1. CASE t = {}
        BY <2>2, <3>1 DEF StepsInside
      <3>2. CASE t # {}
        <4>1. Greatest(t) \in S /\ Lower(t) \in SUBSET S
          BY <1>7, <3>2, GradedBelow DEF Graded
        <4>2. g[t] = F[<<g[Lower(t)], pairs[Greatest(t)]>>]
          BY <2>2, <2>3, <3>2, <4>1 DEF StepsInside
        <4>3. g[t] = Join(g[Lower(t)], pairs[Greatest(t)])
          BY <1>4, <1>6, <2>3, <4>1, <4>2
        <4>. QED
          BY <3>2, <4>3 DEF Lower, Greatest
      <3>. QED
        BY <3>1, <3>2
    <2>5. g = [t \in SUBSET S |-> g[t]]
      BY <2>2 DEF StepsInside
    <2>6. g = f
      <3>1. \A t \in SUBSET S : g[t] = f[t]
        BY <2>4
      <3>. QED
        BY <2>5, <3>1
    <2>. QED
      BY <2>6
  <1>10. Joins(it)
    <2>. HIDE DEF Joins
    <2>. QED
      BY <1>9
  <1>. HIDE DEF it, Joins
  <1>11. FoldsOver(F, <<>>, pairs, S, it)
    <2>1. StepsInside(F, <<>>, pairs, S, G, it)
      BY <1>8, <1>10
    <2>. QED
      BY <1>3, <1>6, <1>7, <2>1, InsideIsOver
  <1>12. PICK h \in [0..Len(pairs) -> G] : StepsOver(F, <<>>, pairs, h) /\ it[S] = h[Len(pairs)]
    <2>1. FoldsOver(F, <<>>, pairs, DOMAIN pairs, it)
      BY <1>11 DEF S
    <2>2. FoldsInSteps(F, <<>>, pairs, G, it)
      BY <1>3, <1>5, <2>1, FoldsStepByStep
    <2>. QED
      BY <2>2 DEF S, FoldsInSteps
  <1>13. JoinsInTurn(pairs, h)
    <2>1. ASSUME NEW m \in 1..Len(pairs)
          PROVE  h[m] = Join(h[m - 1], pairs[m])
      <3>1. m - 1 \in 0..Len(pairs) /\ m \in S
        BY <1>5
      <3>2. h[m - 1] \in G /\ pairs[m] \in P
        BY <1>6, <3>1
      <3>3. h[m] = F[<<h[m - 1], pairs[m]>>]
        BY <1>12 DEF StepsOver
      <3>. QED
        BY <1>4, <3>2, <3>3
    <2>. QED
      BY <1>12, <2>1 DEF StepsOver, JoinsInTurn
  <1>. QED
    BY <1>1, <1>12, <1>13 DEF G

\* A step of the loop keeps what is said of its groups.
LEMMA JoinGroups ==
    ASSUME NEW n \in Nat, NEW D, D = 1..n, NEW A, Likens(A, D),
           NEW groups \in Seq(SUBSET D), NEW done, Grouped(groups, A, D, done),
           NEW pair \in AscendingPairs(A, D),
           \A q \in AscendingPairs(A, D) : q[1] < pair[1] => q \in done
    PROVE  Grouped(Join(groups, pair), A, D, done \cup {pair})
  <1>. DEFINE l == pair[1]
              r == pair[2]
              two == {l, r}
              new == Join(groups, pair)
  <1>0. l \in D /\ r \in D /\ l # r /\ <<l, r>> \in A /\ pair = <<l, r>> /\ pair \in D \X D
    BY DEF AscendingPairs
  <1>1. PICK a \in D : FirstAlike(A, D, l, a)
    BY <1>0, FirstAlikeExists
  <1>2. \A i \in DOMAIN groups : Touches(groups[i], pair) <=> a \in groups[i]
    BY <1>1, TouchingHoldsTheFirst
  <1>3. D \in SUBSET Int
    OBVIOUS
  <1>4. AlikeInside(A, two)
    <2>1. <<l, l>> \in A /\ <<r, r>> \in A /\ <<l, r>> \in A /\ <<r, l>> \in A
      BY <1>0 DEF Likens
    <2>2. \A x \in two : x = l \/ x = r
      OBVIOUS
    <2>. HIDE DEF l, r, two
    <2>. QED
      BY <2>1, <2>2 DEF AlikeInside
  <1>5. \A x \in two, y \in D : FirstAlike(A, D, x, y) => y = a
    <2>1. \A x \in two : <<l, x>> \in A /\ x \in D
      BY <1>0 DEF Likens
    <2>. QED
      BY <1>0, <1>1, <1>3, <2>1, FirstAlikeIsShared
  <1>6. HoldsTwo(two)
    BY <1>0 DEF HoldsTwo
  <1>7. \A i \in DOMAIN groups : groups[i] \in SUBSET D
    OBVIOUS
  <1>8. Len(groups) \in Nat /\ DOMAIN groups = 1..Len(groups)
    OBVIOUS
  <1>9. \A g : Touches(g, pair) <=> g \cap two # {}
    BY DEF Touches
  <1>10. JoinsOne(groups, pair, two)
    BY <1>0, JoinIs
  <1>11. CASE new = Append(groups, two) /\ \A i \in DOMAIN groups : ~Touches(groups[i], pair)
    <2>. DEFINE k == Len(groups)
    <2>1. DOMAIN new = 1..(k + 1) /\ new[k + 1] = two /\ \A i \in 1..k : new[i] = groups[i]
      BY <1>8, <1>11
    <2>. HIDE DEF two, new
    <2>2. a \in two
      <3>1. CASE a = l
        BY <3>1 DEF two
      <3>2. CASE a # l
        <4>0. a <= l /\ <<l, a>> \in A
          BY <1>0, <1>1 DEF FirstAlike, Likens
        <4>1. a < l /\ <<a, l>> \in A
          <5>1. a \in Int /\ l \in Int
            BY <1>0, <1>1, <1>3
          <5>2. <<a, l>> \in A
            BY <1>0, <1>1, <4>0 DEF Likens
          <5>. QED
            BY <3>2, <4>0, <5>1, <5>2
        <4>2. <<a, l>> \in AscendingPairs(A, D)
          BY <1>0, <4>1 DEF AscendingPairs
        <4>3. <<a, l>> \in done
          BY <4>1, <4>2
        <4>4. PICK j \in DOMAIN groups : l \in groups[j]
          BY <4>3 DEF Grouped, IsHeld
        <4>. QED
          BY <1>9, <1>11, <4>4 DEF two
      <3>. QED
        BY <3>1, <3>2
    <2>3. HoldsItsFirst(A, D, two)
      BY <1>5, <2>2 DEF HoldsItsFirst
    <2>4. ASSUME NEW i \in DOMAIN new
          PROVE  AlikeInside(A, new[i]) /\ HoldsItsFirst(A, D, new[i]) /\ HoldsTwo(new[i])
      <3>1. i = k + 1 \/ i \in DOMAIN groups
        BY <1>8, <2>1
      <3>. QED
        BY <1>4, <1>6, <1>8, <2>1, <2>3, <3>1 DEF Grouped
    <2>5. ASSUME NEW i \in DOMAIN new, NEW j \in DOMAIN new, new[i] \cap new[j] # {}
          PROVE  i = j
      <3>1. (i = k + 1 \/ i \in DOMAIN groups) /\ (j = k + 1 \/ j \in DOMAIN groups)
        BY <1>8, <2>1
      <3>2. \A h \in DOMAIN groups : new[h] \cap two = {}
        BY <1>8, <1>9, <1>11, <2>1
      <3>3. CASE i \in DOMAIN groups /\ j \in DOMAIN groups
        BY <1>8, <2>1, <2>5, <3>3 DEF Grouped
      <3>4. CASE i = k + 1 /\ j = k + 1
        BY <3>4
      <3>. QED
        BY <2>1, <2>5, <3>1, <3>2, <3>3, <3>4
    <2>6. ASSUME NEW q \in done \cup {pair}
          PROVE  IsHeld(new, q)
      <3>1. CASE q \in done
        <4>1. PICK i \in DOMAIN groups : q[1] \in groups[i] /\ q[2] \in groups[i]
          BY <3>1 DEF Grouped, IsHeld
        <4>2. i \in DOMAIN new /\ new[i] = groups[i]
          BY <1>8, <2>1, <4>1
        <4>. QED
          BY <4>1, <4>2 DEF IsHeld
      <3>2. CASE q = pair
        <4>1. k + 1 \in DOMAIN new
          BY <1>8, <2>1
        <4>. QED
          BY <2>1, <3>2, <4>1 DEF IsHeld, two
      <3>. QED
        BY <3>1, <3>2
    <2>. QED
      BY <2>4, <2>5, <2>6 DEF Grouped, new
  <1>12. ASSUME NEW k \in DOMAIN groups, Touches(groups[k], pair),
                new = [groups EXCEPT ![k] = groups[k] \cup two]
         PROVE  Grouped(new, A, D, done \cup {pair})
    <2>1. DOMAIN new = DOMAIN groups /\ new[k] = groups[k] \cup two
          /\ \A i \in DOMAIN groups : i # k => new[i] = groups[i]
      BY <1>12
    <2>. DEFINE wide == groups[k] \cup two
    <2>. HIDE DEF two, new
    <2>2. a \in groups[k]
      BY <1>2, <1>12
    <2>3. \A x \in wide : <<a, x>> \in A /\ <<x, a>> \in A /\ x \in D
      <3>1. \A x \in groups[k] : <<a, x>> \in A /\ <<x, a>> \in A /\ x \in D
        BY <1>7, <2>2 DEF Grouped, AlikeInside
      <3>2. \A x \in two : <<a, x>> \in A /\ <<x, a>> \in A /\ x \in D
        BY <1>0, <1>1 DEF FirstAlike, Likens, two
      <3>. QED
        BY <3>1, <3>2
    <2>4. AlikeInside(A, wide)
      BY <2>3 DEF AlikeInside, Likens
    <2>5. HoldsItsFirst(A, D, wide)
      <3>1. SUFFICES ASSUME NEW x \in wide, NEW y \in D, FirstAlike(A, D, x, y)
                     PROVE  y \in wide
        BY DEF HoldsItsFirst
      <3>2. CASE x \in groups[k]
        BY <3>1, <3>2 DEF Grouped, HoldsItsFirst
      <3>3. CASE x \in two
        BY <1>5, <2>2, <3>1, <3>3
      <3>. QED
        BY <3>2, <3>3
    <2>6. HoldsTwo(wide)
      BY DEF Grouped, HoldsTwo
    <2>7. ASSUME NEW i \in DOMAIN new
          PROVE  AlikeInside(A, new[i]) /\ HoldsItsFirst(A, D, new[i]) /\ HoldsTwo(new[i])
      BY <2>1, <2>4, <2>5, <2>6 DEF Grouped
    <2>8. ASSUME NEW i \in DOMAIN groups, i # k
          PROVE  groups[i] \cap wide = {}
      <3>1. groups[i] \cap groups[k] = {}
        BY <2>8 DEF Grouped
      <3>2. a \notin groups[i]
        BY <2>2, <3>1
      <3>3. groups[i] \cap two = {}
        BY <1>2, <1>9, <3>2
      <3>. QED
        BY <3>1, <3>3
    <2>9. ASSUME NEW i \in DOMAIN new, NEW j \in DOMAIN new, new[i] \cap new[j] # {}
          PROVE  i = j
      <3>1. CASE i # k /\ j # k
        BY <2>1, <2>9, <3>1 DEF Grouped
      <3>2. CASE i = k \/ j = k
        BY <2>1, <2>8, <2>9, <3>2
      <3>. QED
        BY <3>1, <3>2
    <2>10. ASSUME NEW q \in done \cup {pair}
           PROVE  IsHeld(new, q)
      <3>1. CASE q \in done
        <4>1. PICK i \in DOMAIN groups : q[1] \in groups[i] /\ q[2] \in groups[i]
          BY <3>1 DEF Grouped, IsHeld
        <4>2. i \in DOMAIN new /\ groups[i] \subseteq new[i]
          BY <2>1, <4>1
        <4>. QED
          BY <4>1, <4>2 DEF IsHeld
      <3>2. CASE q = pair
        BY <2>1, <3>2 DEF IsHeld, two
      <3>. QED
        BY <3>1, <3>2
    <2>. QED
      BY <2>7, <2>9, <2>10 DEF Grouped
  <1>. QED
    BY <1>10, <1>11, <1>12 DEF JoinsOne

\* Once the loop has come to all pairs that are alike, the groups hold them all.
LEMMA GroupsOfTheLoop ==
    ASSUME NEW n \in Nat, NEW D, D = 1..n, NEW A, Likens(A, D),
           NEW Q, Q = AscendingPairs(A, D), NEW groups, groups = FoldLeft(Join, <<>>, Listed(Q, Lexical(Q)))
    PROVE  groups \in Seq(SUBSET D) /\ Grouped(groups, A, D, Q)
  <1>. DEFINE l == Listed(Q, Lexical(Q))
              c == Cardinality(Q)
              N == 1..c
              done(m) == {l[k] : k \in 1..m}
  <1>1. Q \in SUBSET (D \X D) /\ D \in SUBSET Int
    BY DEF AscendingPairs
  <1>2. IsFiniteSet(Q)
    <2>1. IsFiniteSet(D)
      BY FS_Interval
    <2>2. IsFiniteSet(D \X D)
      BY <2>1, FS_Product
    <2>. QED
      BY <1>1, <2>2, FS_Subset
  <1>3. c \in Nat
    BY <1>2, FS_CardinalityType
  <1>4. Arranges(Lexical(Q), Q)
    BY <1>1, LexicalArranges
  <1>5. l \in Bijection(N, Q) /\ Follows(l, Lexical(Q), N)
    BY <1>2, <1>4, ListedInOrder
  <1>. HIDE DEF l, c
  <1>6. l \in [N -> Q] /\ (\A p \in Q : \E k \in N : l[k] = p)
    BY <1>5 DEF Bijection, Injection, Surjection
  <1>7. l \in Seq(D \X D) /\ Len(l) = c /\ DOMAIN l = N
    <2>1. l \in [1..c -> D \X D]
      BY <1>1, <1>6
    <2>. QED
      BY <1>3, <2>1
  <1>8. PICK h \in [0..Len(l) -> Seq(SUBSET D)] :
            JoinsInTurn(l, h) /\ FoldLeft(Join, <<>>, l) = h[Len(l)]
    BY <1>7, FoldOfJoin
  <1>9. \A m \in 0..c : h[m] \in Seq(SUBSET D)
    BY <1>7
  <1>10. h[0] = <<>> /\ \A m \in 1..c : h[m] = Join(h[m - 1], l[m])
    BY <1>7, <1>8 DEF JoinsInTurn
  <1>11. Grouped(h[0], A, D, done(0))
    <2>1. DOMAIN h[0] = {} /\ done(0) = {}
      BY <1>10
    <2>. HIDE DEF done
    <2>. QED
      BY <2>1 DEF Grouped
  <1>12. ASSUME NEW m \in 1..c, Grouped(h[m - 1], A, D, done(m - 1))
         PROVE  Grouped(h[m], A, D, done(m))
    <2>1. m - 1 \in 0..c /\ m \in N
      BY <1>3
    <2>2. done(m) = done(m - 1) \cup {l[m]}
      <3>1. 1..m = (1..(m - 1)) \cup {m}
        BY <1>3
      <3>. QED
        BY <3>1
    <2>3. ASSUME NEW q \in Q, q[1] < l[m][1]
          PROVE  q \in done(m - 1)
      <3>1. PICK k \in N : l[k] = q
        BY <1>6
      <3>2. <<q, l[m]>> \in Lexical(Q)
        BY <1>6, <2>1, <2>3 DEF Lexical
      <3>3. ~(m < k) /\ k # m
        BY <1>4, <1>5, <1>6, <2>1, <3>1, <3>2 DEF Follows, Arranges
      <3>4. k \in 1..(m - 1)
        BY <1>3, <3>3
      <3>. QED
        BY <3>1, <3>4
    <2>. HIDE DEF done
    <2>4. l[m] \in AscendingPairs(A, D)
      BY <1>6, <2>1
    <2>5. h[m - 1] \in Seq(SUBSET D)
      BY <1>9, <2>1
    <2>6. Grouped(Join(h[m - 1], l[m]), A, D, done(m - 1) \cup {l[m]})
      BY <1>12, <2>3, <2>4, <2>5, JoinGroups
    <2>. QED
      BY <1>10, <2>2, <2>6
  <1>13. done(c) = Q
    BY <1>6
  <1>. HIDE DEF done
  <1>14. \A m \in 0..c : Grouped(h[m], A, D, done(m))
    <2>. DEFINE B == {m \in 1..c : ~Grouped(h[m], A, D, done(m))}
    <2>1. SUFFICES ASSUME B # {} PROVE FALSE
      BY <1>3, <1>11
    <2>2. PICK b \in B : \A d \in B : b <= d
      <3>1. B \in SUBSET (1..c)
        OBVIOUS
      <3>. HIDE DEF B
      <3>. QED
        BY <1>3, <2>1, <3>1, LeastOf
    <2>3. b \in 1..c /\ ~Grouped(h[b], A, D, done(b))
      OBVIOUS
    <2>4. Grouped(h[b - 1], A, D, done(b - 1))
      <3>1. b - 1 = 0 \/ (b - 1 \in 1..c /\ b - 1 < b)
        BY <1>3, <2>3
      <3>2. b - 1 \notin B
        <4>. HIDE DEF B
        <4>. QED
          BY <1>3, <2>2, <2>3
      <3>. QED
        BY <1>11, <3>1, <3>2
    <2>. QED
      BY <1>12, <2>3, <2>4
  <1>15. groups = h[c] /\ c \in 0..c
    BY <1>3, <1>7, <1>8 DEF l
  <1>. QED
    BY <1>9, <1>13, <1>14, <1>15

-----------------------------------------------------------------------------
(* Lists sorted, joined and summed.                                        *)

\* What is answered of the items of r, sorted by item.
RowsByItem(r, of) ==
    Sorted([m \in DOMAIN r |-> [item |-> r[m], answer |-> of[r[m]]]], LAMBDA x, y : x.item < y.item)

\* A row for each of n items, in any order, sorts to the items in order.
LEMMA RowsSortToItems ==
    ASSUME NEW n \in Nat, NEW N, N = 1..n, NEW r \in Seq(N), NEW of,
           Different(r, 1..Len(r)), Onto(r, 1..Len(r), N)
    PROVE  RowsByItem(r, of) = [i \in N |-> [item |-> i, answer |-> of[i]]]
  <1>. DEFINE s == [m \in DOMAIN r |-> [item |-> r[m], answer |-> of[r[m]]]]
              InPlace(p) == /\ IsInjective(p)
                            /\ \A i, j \in DOMAIN s : i < j =>
                                  \/ s[p[i]].item < s[p[j]].item
                                  \/ ~(s[p[j]].item < s[p[i]].item) /\ p[i] < p[j]
              place == CHOOSE p \in [DOMAIN s -> DOMAIN s] : InPlace(p)
  <1>1. Len(r) = n /\ r \in [N -> N] /\ Different(r, N) /\ Onto(r, N, N)
    BY EachOnceIsAsMany
  <1>2. RowsByItem(r, of) = [m \in DOMAIN s |-> s[place[m]]]
    BY DEF RowsByItem, Sorted
  <1>3. /\ DOMAIN s = N
        /\ \A m \in N : s[m] = [item |-> r[m], answer |-> of[r[m]]]
        /\ \A m \in N : s[m].item = r[m]
    BY <1>1
  <1>. HIDE DEF s
  <1>4. \E p \in [DOMAIN s -> DOMAIN s] : InPlace(p)
    <2>. DEFINE p == PlaceOf(r, N)
    <2>1. p \in [N -> N] /\ Finds(p, r, N) /\ Different(p, N)
      BY <1>1, PlaceOfFinds
    <2>. HIDE DEF p
    <2>2. \A i \in N : p[i] \in N /\ s[p[i]].item = i
      BY <1>3, <2>1 DEF Finds
    <2>3. IsInjective(p)
      BY <2>1 DEF IsInjective, Different
    <2>4. InPlace(p)
      BY <1>3, <2>2, <2>3
    <2>. HIDE DEF InPlace
    <2>. QED
      BY <1>3, <2>1, <2>4
  <1>5. place \in [DOMAIN s -> DOMAIN s] /\ InPlace(place)
    <2>. HIDE DEF InPlace
    <2>. QED
      BY <1>4
  <1>. HIDE DEF place
  <1>6. place \in [N -> N] /\ Different(place, N)
    BY <1>3, <1>5 DEF IsInjective, Different
  <1>7. PutsInOrder(place, r, N)
    <2>1. \A i \in N : place[i] \in N /\ s[place[i]].item = r[place[i]]
      BY <1>3, <1>6
    <2>2. ASSUME NEW i \in N, NEW j \in N, i < j
          PROVE  r[place[i]] < r[place[j]] \/ ~(r[place[j]] < r[place[i]])
      <3>1. s[place[i]].item < s[place[j]].item \/ ~(s[place[j]].item < s[place[i]].item)
        BY <1>3, <1>5, <2>2
      <3>. QED
        BY <2>1, <3>1
    <2>. QED
      BY <2>2 DEF PutsInOrder
  <1>8. Finds(place, r, N)
    BY <1>1, <1>6, <1>7, PlacesInOrder
  <1>9. \A i \in N : s[place[i]] = [item |-> i, answer |-> of[i]]
    <2>. SUFFICES ASSUME NEW i \in N
                  PROVE  s[place[i]] = [item |-> i, answer |-> of[i]]
      OBVIOUS
    <2>1. place[i] \in N /\ r[place[i]] = i
      BY <1>6, <1>8 DEF Finds
    <2>2. s[place[i]] = [item |-> r[place[i]], answer |-> of[r[place[i]]]]
      BY <1>3, <2>1
    <2>. QED
      BY <2>1, <2>2
  <1>10. [m \in DOMAIN s |-> s[place[m]]] = [i \in N |-> [item |-> i, answer |-> of[i]]]
    BY <1>3, <1>9
  <1>. QED
    BY <1>2, <1>10

\* A sum over some of two places is one over both, if the others have zero.
LEMMA SumOfSome ==
    ASSUME NEW s \in SUBSET {1, 2}, NEW f, NEW g, f[1] \in Int, f[2] \in Int,
           \A c \in {1, 2} : c \notin s => f[c] = 0,
           \A c \in s : g[c] = f[c]
    PROVE  SumFunctionOnSet(g, s) = f[1] + f[2] /\ IsFiniteSet(s)
  <1>1. IsFiniteSet(s)
    <2>1. IsFiniteSet({1, 2})
      BY TwoAreFew
    <2>. QED
      BY <2>1, FS_Subset
  <1>2. SumFunctionOnSet(g, s) = SumFunctionOnSet(f, s)
    BY <1>1, SumSame
  <1>3. s = {} \/ s = {1} \/ s = {2} \/ s = {1, 2}
    <2>1. CASE 1 \in s /\ 2 \in s
      BY <2>1
    <2>2. CASE 1 \in s /\ 2 \notin s
      BY <2>2
    <2>3. CASE 1 \notin s /\ 2 \in s
      BY <2>3
    <2>4. CASE 1 \notin s /\ 2 \notin s
      BY <2>4
    <2>. QED
      BY <2>1, <2>2, <2>3, <2>4
  <1>4. SumFunctionOnSet(f, {}) = 0
    BY SumEmpty
  <1>5. SumFunctionOnSet(f, {1}) = f[1] /\ SumFunctionOnSet(f, {2}) = f[2]
    BY SumOne
  <1>6. SumFunctionOnSet(f, {1, 2}) = f[1] + f[2]
    <2>1. 1 # 2
      OBVIOUS
    <2>2. ASSUME NEW a, NEW b, a # b, f[a] \in Int, f[b] \in Int
          PROVE  SumFunctionOnSet(f, {a, b}) = f[a] + f[b]
      BY <2>2, SumTwo
    <2>. QED
      BY <2>1, <2>2
  <1>7. SumFunctionOnSet(f, s) = f[1] + f[2]
    <2>1. CASE s = {}
      BY <1>4, <2>1
    <2>2. CASE s = {1}
      BY <1>5, <2>2
    <2>3. CASE s = {2}
      BY <1>5, <2>3
    <2>4. CASE s = {1, 2}
      BY <1>6, <2>4
    <2>. QED
      BY <1>3, <2>1, <2>2, <2>3, <2>4
  <1>. QED
    BY <1>1, <1>2, <1>7

\* A sum of whole numbers is one.
LEMMA SumIsWhole ==
    ASSUME NEW f, NEW S, DOMAIN f = S, IsFiniteSet(S), \A x \in S : f[x] \in Int
    PROVE  SumFunction(f) \in Int
  BY SumInt DEF SumFunction

LEMMA SumIsNatural ==
    ASSUME NEW f, NEW S, DOMAIN f = S, IsFiniteSet(S), \A x \in S : f[x] \in Nat
    PROVE  SumFunction(f) \in Nat
  BY SumNat DEF SumFunction

\* The sequence v is s followed by t.
IsJoined(v, s, t, S) ==
    /\ v \in Seq(S) /\ Len(v) = Len(s) + Len(t)
    /\ \A i \in 1..Len(s) : v[i] = s[i]
    /\ \A i \in 1..Len(t) : v[Len(s) + i] = t[i]

\* As a concatenation is.
LEMMA JoinedAre ==
    ASSUME NEW S, NEW s \in Seq(S), NEW t \in Seq(S)
    PROVE  IsJoined(s \o t, s, t, S)
  BY DEF IsJoined

\* One and one are two.
LEMMA TwoOnes ==
    ASSUME NEW S, NEW x \in S, NEW y \in S
    PROVE  <<x>> \o <<y>> = <<x, y>>
  <1>. DEFINE a == <<x>>
              b == <<y>>
              ab == a \o b
  <1>1. /\ a \in Seq(S) /\ b \in Seq(S) /\ Len(a) = 1 /\ Len(b) = 1 /\ a[1] = x /\ b[1] = y
        /\ 1 \in 1..1 /\ 1 + 1 = 2
    OBVIOUS
  <1>. HIDE DEF a, b
  <1>2. ab \in Seq(S) /\ Len(ab) = 2 /\ ab[1] = x /\ ab[2] = y
    <2>1. IsJoined(ab, a, b, S)
      BY <1>1, JoinedAre
    <2>. HIDE DEF ab
    <2>. QED
      BY <1>1, <2>1 DEF IsJoined
  <1>. HIDE DEF ab
  <1>3. ab = <<x, y>>
    BY <1>2
  <1>. QED
    BY <1>3 DEF ab, a, b

\* Six in four lists, one after the other; and the last three of them.
LEMMA SixSteps ==
    ASSUME NEW S, NEW a \in S, NEW b \in S, NEW c \in S, NEW d \in S, NEW e \in S, NEW f \in S
    PROVE  /\ <<a>> \o <<b, c>> \o <<d, e>> \o <<f>> = <<a, b, c, d, e, f>>
           /\ SubSeq(<<a, b, c, d, e, f>>, 6 - 2, 6) = <<d, e, f>>
  <1>. DEFINE p == <<a>>
              q == <<b, c>>
              r == <<d, e>>
              s == <<f>>
              pq == p \o q
              pqr == pq \o r
              all == pqr \o s
              six == <<a, b, c, d, e, f>>
              last == SubSeq(six, 6 - 2, 6)
  <1>1. /\ p \in Seq(S) /\ Len(p) = 1 /\ p[1] = a
        /\ q \in Seq(S) /\ Len(q) = 2 /\ q[1] = b /\ q[2] = c
        /\ r \in Seq(S) /\ Len(r) = 2 /\ r[1] = d /\ r[2] = e
        /\ s \in Seq(S) /\ Len(s) = 1 /\ s[1] = f
    OBVIOUS
  <1>2. six \in Seq(S) /\ Len(six) = 6 /\ six[4] = d /\ six[5] = e /\ six[6] = f
    OBVIOUS
  <1>3. pq \in Seq(S) /\ Len(pq) = 3 /\ pq[1] = a /\ pq[2] = b /\ pq[3] = c
    <2>. HIDE DEF p, q
    <2>1. IsJoined(pq, p, q, S)
      BY <1>1, JoinedAre
    <2>. HIDE DEF pq
    <2>2. /\ 1 \in 1..1 /\ 1 \in 1..2 /\ 2 \in 1..2 /\ 1 + 1 = 2 /\ 1 + 2 = 3
      OBVIOUS
    <2>. QED
      BY <1>1, <2>1, <2>2 DEF IsJoined
  <1>4. pqr \in Seq(S) /\ Len(pqr) = 5 /\ pqr[1] = a /\ pqr[2] = b /\ pqr[3] = c /\ pqr[4] = d /\ pqr[5] = e
    <2>. HIDE DEF pq, r
    <2>1. IsJoined(pqr, pq, r, S)
      BY <1>1, <1>3, JoinedAre
    <2>. HIDE DEF pqr
    <2>2. /\ 1 \in 1..3 /\ 2 \in 1..3 /\ 3 \in 1..3 /\ 1 \in 1..2 /\ 2 \in 1..2
          /\ 3 + 1 = 4 /\ 3 + 2 = 5
      OBVIOUS
    <2>. QED
      BY <1>1, <1>3, <2>1, <2>2 DEF IsJoined
  <1>5. /\ all \in Seq(S) /\ Len(all) = 6 /\ all[1] = a /\ all[2] = b /\ all[3] = c
        /\ all[4] = d /\ all[5] = e /\ all[6] = f
    <2>. HIDE DEF pqr, s
    <2>1. IsJoined(all, pqr, s, S)
      BY <1>1, <1>4, JoinedAre
    <2>. HIDE DEF all
    <2>2. /\ 1 \in 1..5 /\ 2 \in 1..5 /\ 3 \in 1..5 /\ 4 \in 1..5 /\ 5 \in 1..5 /\ 1 \in 1..1
          /\ 5 + 1 = 6
      OBVIOUS
    <2>. QED
      BY <1>1, <1>4, <2>1, <2>2 DEF IsJoined
  <1>6. all = six
    <2>. HIDE DEF all
    <2>. QED
      BY <1>5
  <1>7. last = <<d, e, f>>
    <2>. HIDE DEF six
    <2>1. last = SubSeq(six, 4, 6)
      <3>1. 6 - 2 = 4
        OBVIOUS
      <3>. QED
        BY <3>1
    <2>2. SubSeq(six, 4, 6) = [i \in 1..3 |-> six[4 + i - 1]]
      BY <1>2
    <2>3. \A i \in 1..3 : six[4 + i - 1] \in S
      <3>1. \A i \in 1..3 : 4 + i - 1 \in 1..6
        OBVIOUS
      <3>2. ASSUME NEW t \in Seq(S)
            PROVE  \A i \in 1..Len(t) : t[i] \in S
        OBVIOUS
      <3>. QED
        BY <1>2, <3>1, <3>2
    <2>4. 4 + 1 - 1 = 4 /\ 4 + 2 - 1 = 5 /\ 4 + 3 - 1 = 6
      OBVIOUS
    <2>. HIDE DEF last
    <2>5. last \in Seq(S) /\ Len(last) = 3 /\ last[1] = six[4] /\ last[2] = six[5] /\ last[3] = six[6]
      BY <2>1, <2>2, <2>3, <2>4
    <2>. QED
      BY <1>2, <2>5
  <1>. QED
    BY <1>6, <1>7

\* The same of five.
LEMMA FiveSteps ==
    ASSUME NEW S, NEW a \in S, NEW b \in S, NEW d \in S, NEW e \in S, NEW f \in S
    PROVE  /\ <<a>> \o <<b>> \o <<d, e>> \o <<f>> = <<a, b, d, e, f>>
           /\ SubSeq(<<a, b, d, e, f>>, 5 - 2, 5) = <<d, e, f>>
  <1>. DEFINE p == <<a>>
              q == <<b>>
              r == <<d, e>>
              s == <<f>>
              pq == p \o q
              pqr == pq \o r
              all == pqr \o s
              five == <<a, b, d, e, f>>
              last == SubSeq(five, 5 - 2, 5)
  <1>1. /\ r \in Seq(S) /\ Len(r) = 2 /\ r[1] = d /\ r[2] = e
        /\ s \in Seq(S) /\ Len(s) = 1 /\ s[1] = f
    OBVIOUS
  <1>2. five \in Seq(S) /\ Len(five) = 5 /\ five[3] = d /\ five[4] = e /\ five[5] = f
    OBVIOUS
  <1>3. pq \in Seq(S) /\ Len(pq) = 2 /\ pq[1] = a /\ pq[2] = b
    <2>1. pq = <<a, b>>
      BY TwoOnes
    <2>. HIDE DEF pq
    <2>. QED
      BY <2>1
  <1>4. pqr \in Seq(S) /\ Len(pqr) = 4 /\ pqr[1] = a /\ pqr[2] = b /\ pqr[3] = d /\ pqr[4] = e
    <2>. HIDE DEF pq, r
    <2>1. IsJoined(pqr, pq, r, S)
      BY <1>1, <1>3, JoinedAre
    <2>. HIDE DEF pqr
    <2>2. /\ 1 \in 1..2 /\ 2 \in 1..2 /\ 2 + 1 = 3 /\ 2 + 2 = 4
      OBVIOUS
    <2>. QED
      BY <1>1, <1>3, <2>1, <2>2 DEF IsJoined
  <1>5. /\ all \in Seq(S) /\ Len(all) = 5 /\ all[1] = a /\ all[2] = b
        /\ all[3] = d /\ all[4] = e /\ all[5] = f
    <2>. HIDE DEF pqr, s
    <2>1. IsJoined(all, pqr, s, S)
      BY <1>1, <1>4, JoinedAre
    <2>. HIDE DEF all
    <2>2. /\ 1 \in 1..4 /\ 2 \in 1..4 /\ 3 \in 1..4 /\ 4 \in 1..4 /\ 1 \in 1..1 /\ 4 + 1 = 5
      OBVIOUS
    <2>. QED
      BY <1>1, <1>4, <2>1, <2>2 DEF IsJoined
  <1>6. all = five
    <2>. HIDE DEF all
    <2>. QED
      BY <1>5
  <1>7. last = <<d, e, f>>
    <2>. HIDE DEF five
    <2>1. last = SubSeq(five, 3, 5)
      <3>1. 5 - 2 = 3
        OBVIOUS
      <3>. QED
        BY <3>1
    <2>2. SubSeq(five, 3, 5) = [i \in 1..3 |-> five[3 + i - 1]]
      BY <1>2
    <2>3. \A i \in 1..3 : five[3 + i - 1] \in S
      <3>1. \A i \in 1..3 : 3 + i - 1 \in 1..5
        OBVIOUS
      <3>2. ASSUME NEW t \in Seq(S)
            PROVE  \A i \in 1..Len(t) : t[i] \in S
        OBVIOUS
      <3>. QED
        BY <1>2, <3>1, <3>2
    <2>4. 3 + 1 - 1 = 3 /\ 3 + 2 - 1 = 4 /\ 3 + 3 - 1 = 5
      OBVIOUS
    <2>. HIDE DEF last
    <2>5. last \in Seq(S) /\ Len(last) = 3 /\ last[1] = five[3] /\ last[2] = five[4] /\ last[3] = five[5]
      BY <2>1, <2>2, <2>3, <2>4
    <2>. QED
      BY <1>2, <2>5
  <1>. QED
    BY <1>6, <1>7

=============================================================================
