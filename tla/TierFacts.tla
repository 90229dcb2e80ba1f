----------------------------- MODULE TierFacts -----------------------------
(***************************************************************************)
(* What the proofs about the storage tiers share: what the transactions    *)
(* of the metadata table do to its rows, and what their byte counters need *)
(* to know of SumFunctionOnSet(w, S), the sum of w[x] over the x of a      *)
(* finite set S.                                                           *)
(*                                                                         *)
(* The library's induction theorems have an operator as their parameter.   *)
(* Here induction is a statement about sets: the numbers, or the subsets   *)
(* of a finite set, for which something holds.                             *)
(***************************************************************************)
EXTENDS MetadataStore, Functions, FiniteSetTheorems, WellFoundedInduction, TLAPS

-----------------------------------------------------------------------------
(* Induction *)

\* A set of natural numbers has a least element.
LEMMA LeastNumber ==
  ASSUME NEW T, T \subseteq Nat, T # {}
  PROVE  \E n \in T : \A m \in T : n <= m
<1> DEFINE R == {ss \in Nat \X Nat : ss[1] < ss[2]}
<1>1. IsWellFoundedOn(R, Nat)
  BY NatLessThanWellFounded, Zenon DEF OpToRel
<1> HIDE DEF R
<1>2. PICK n \in T : \A m \in T : ~ (<<m, n>> \in R)
  BY <1>1, WFMin, Zenon
<1>3. \A m \in T : ~ (m < n)
  BY <1>2, Zenon DEF R
<1> QED
  BY <1>3

\* A set with 0 and the successors of its numbers has all numbers.
LEMMA NumberInduction ==
  ASSUME NEW G, 0 \in G, \A n \in Nat : n \in G => n + 1 \in G
  PROVE  Nat \subseteq G
<1> SUFFICES ASSUME Nat \ G # {} PROVE FALSE
  BY Zenon
<1>1. PICK n \in Nat \ G : \A m \in Nat \ G : n <= m
  BY LeastNumber, Zenon
<1>2. n # 0 /\ n - 1 \in Nat /\ n - 1 \in G
  BY <1>1
<1> QED
  BY <1>1, <1>2

\* A finite set is reached when every subset is that can be reached from the
\* subsets with one element less.
LEMMA SubsetInduction ==
  ASSUME NEW S, IsFiniteSet(S), NEW G,
         \A T \in SUBSET S : (\A x \in T : T \ {x} \in G) => T \in G
  PROVE  S \in G
<1> DEFINE Missed == {n \in Nat : \E T \in SUBSET S : T \notin G /\ Cardinality(T) = n}
<1> SUFFICES ASSUME S \notin G PROVE FALSE
  BY Zenon
<1>1. Missed # {}
  BY FS_CardinalityType
<1>2. PICK n \in Missed : \A m \in Missed : n <= m
  BY <1>1, LeastNumber, Zenon
<1>3. PICK T \in SUBSET S : T \notin G /\ Cardinality(T) = n
  BY <1>2, Zenon
<1>4. PICK x \in T : T \ {x} \notin G
  BY <1>3, Zenon
<1>5. IsFiniteSet(T)
  BY FS_Subset, Zenon
<1>6. IsFiniteSet(T \ {x}) /\ Cardinality(T \ {x}) = n - 1
  BY <1>3, <1>5, FS_RemoveElement, Zenon
<1>7. n - 1 \in Missed
  BY <1>4, <1>6, FS_CardinalityType
<1> QED
  BY <1>2, <1>7

-----------------------------------------------------------------------------
(* The recursion behind the sum *)

\* The element that the fold takes next.
Chosen(s) == CHOOSE x \in s : TRUE

\* The body of the recursive definition.
Body(w, g, s) == IF s = {} THEN 0 ELSE w[Chosen(s)] + g[s \ {Chosen(s)}]

\* g satisfies the recursion for all subsets of S.
Solves(w, S, g) == g = [s \in SUBSET S |-> Body(w, g, s)]

Fold(w, S) == CHOOSE g : Solves(w, S, g)

\* g satisfies the recursion for the sets with up to n elements.
SolvesUpto(w, S, g, n) ==
  \A s \in SUBSET S : Cardinality(s) <= n => g[s] = Body(w, g, s)

\* The library's sum, by its recursion.
LEMMA SumIsFold ==
  ASSUME NEW w, NEW S
  PROVE  SumFunctionOnSet(w, S) = Fold(w, S)[S]
  BY Zenon DEF SumFunctionOnSet, FoldFunctionOnSet, MapThenFoldSet,
         Fold, Solves, Body, Chosen

\* The sets on which the fold is to be defined, and their chosen elements.
LEMMA ChosenElement ==
  ASSUME NEW s, s # {}
  PROVE  Chosen(s) \in s
  BY Zenon DEF Chosen

\* A function that satisfies the recursion up to n elements gives one that
\* does up to n + 1.
LEMMA FoldExtends ==
  ASSUME NEW w, NEW S, IsFiniteSet(S), \A x \in S : w[x] \in Int,
         NEW n \in Nat, NEW g \in [SUBSET S -> Int],
         SolvesUpto(w, S, g, n)
  PROVE  \E h \in [SUBSET S -> Int] : SolvesUpto(w, S, h, n + 1)
<1> DEFINE h == [s \in SUBSET S |-> Body(w, g, s)]
<1>1. ASSUME NEW s \in SUBSET S, s # {}
      PROVE  /\ Chosen(s) \in S /\ s \ {Chosen(s)} \in SUBSET S
             /\ Cardinality(s \ {Chosen(s)}) = Cardinality(s) - 1
             /\ Cardinality(s) \in Nat
  BY <1>1, ChosenElement, FS_Subset, FS_RemoveElement, FS_CardinalityType, Zenon
<1>2. h \in [SUBSET S -> Int]
  <2>1. ASSUME NEW s \in SUBSET S PROVE Body(w, g, s) \in Int
    <3>1. CASE s = {}
      BY <3>1 DEF Body
    <3>2. CASE s # {}
      <4>1. w[Chosen(s)] \in Int /\ g[s \ {Chosen(s)}] \in Int
        BY <1>1, <3>2, Zenon
      <4> QED
        BY <3>2, <4>1 DEF Body
    <3> QED
      BY <3>1, <3>2, Zenon
  <2> QED
    BY <2>1, Zenon
<1>3. ASSUME NEW s \in SUBSET S, Cardinality(s) <= n + 1
      PROVE  h[s] = Body(w, h, s)
  <2>1. CASE s = {}
    BY <2>1, Zenon DEF Body
  <2>2. CASE s # {}
    <3> DEFINE r == s \ {Chosen(s)}
    <3>1. r \in SUBSET S /\ Cardinality(r) <= n
      BY <1>1, <1>3, <2>2
    <3>2. h[r] = g[r]
      BY <3>1, Zenon DEF SolvesUpto
    <3> QED
      BY <2>2, <3>2, Zenon DEF Body
  <2> QED
    BY <2>1, <2>2, Zenon
<1> HIDE DEF h
<1>4. SolvesUpto(w, S, h, n + 1)
  BY <1>3, Zenon DEF SolvesUpto
<1> QED
  BY <1>2, <1>4, Zenon

\* The recursion has a solution.
LEMMA FoldExists ==
  ASSUME NEW w, NEW S, IsFiniteSet(S), \A x \in S : w[x] \in Int
  PROVE  \E g \in [SUBSET S -> Int] : Solves(w, S, g)
<1> DEFINE G == {n \in Nat : \E g \in [SUBSET S -> Int] : SolvesUpto(w, S, g, n)}
<1>1. 0 \in G
  <2> DEFINE g == [s \in SUBSET S |-> 0]
  <2>1. \A s \in SUBSET S : Cardinality(s) <= 0 => s = {}
    BY FS_Subset, FS_CardinalityType, FS_EmptySet
  <2>2. SolvesUpto(w, S, g, 0)
    BY <2>1, Zenon DEF Body, SolvesUpto
  <2>3. g \in [SUBSET S -> Int]
    OBVIOUS
  <2> HIDE DEF g
  <2> QED
    BY <2>2, <2>3, Zenon
<1>2. ASSUME NEW n \in Nat, n \in G PROVE n + 1 \in G
  <2>1. PICK g \in [SUBSET S -> Int] : SolvesUpto(w, S, g, n)
    BY <1>2, Zenon
  <2>2. \E h \in [SUBSET S -> Int] : SolvesUpto(w, S, h, n + 1)
    BY <2>1, FoldExtends, Zenon
  <2> QED
    BY <2>2
<1> HIDE DEF G
<1>3. Cardinality(S) \in G
  BY <1>1, <1>2, NumberInduction, FS_CardinalityType, Zenon
<1>4. PICK g \in [SUBSET S -> Int] : SolvesUpto(w, S, g, Cardinality(S))
  BY <1>3, Zenon DEF G
<1>5. \A s \in SUBSET S : g[s] = Body(w, g, s)
  BY <1>4, FS_Subset, Zenon DEF SolvesUpto
<1> QED
  BY <1>5, Zenon DEF Solves

\* The fold satisfies its recursion.
LEMMA FoldUnfolds ==
  ASSUME NEW w, NEW S, IsFiniteSet(S), \A x \in S : w[x] \in Int
  PROVE  \A s \in SUBSET S : Fold(w, S)[s] = Body(w, Fold(w, S), s)
<1>1. \E g : Solves(w, S, g)
  BY FoldExists, Zenon
<1>2. Solves(w, S, Fold(w, S))
  BY <1>1, Zenon DEF Fold
<1> QED
  BY <1>2, Zenon DEF Solves

\* Two folds agree where both weigh all elements alike.
LEMMA FoldsAgree ==
  ASSUME NEW w, NEW v, NEW S, NEW T, NEW r, IsFiniteSet(S), IsFiniteSet(T),
         \A x \in S : w[x] \in Int, \A x \in T : v[x] \in Int,
         r \subseteq S, r \subseteq T, \A x \in r : w[x] = v[x]
  PROVE  Fold(w, S)[r] = Fold(v, T)[r]
<1> DEFINE f == Fold(w, S)
           g == Fold(v, T)
           G == {s \in SUBSET r : f[s] = g[s]}
<1>1. \A s \in SUBSET r : f[s] = Body(w, f, s) /\ g[s] = Body(v, g, s)
  BY FoldUnfolds, Zenon
<1> HIDE DEF f, g
<1>2. ASSUME NEW s \in SUBSET r, \A x \in s : s \ {x} \in G PROVE s \in G
  <2>1. CASE s = {}
    BY <1>1, <2>1, Zenon DEF Body
  <2>2. CASE s # {}
    <3>1. Chosen(s) \in s
      BY <2>2, ChosenElement, Zenon
    <3>2. f[s \ {Chosen(s)}] = g[s \ {Chosen(s)}] /\ w[Chosen(s)] = v[Chosen(s)]
      BY <1>2, <3>1, Zenon
    <3> QED
      BY <1>1, <2>2, <3>2, Zenon DEF Body
  <2> QED
    BY <2>1, <2>2, Zenon
<1>3. IsFiniteSet(r)
  BY FS_Subset, Zenon
<1> HIDE DEF G
<1>4. r \in G
  BY <1>2, <1>3, SubsetInduction, Zenon
<1> QED
  BY <1>4, Zenon DEF G, f, g

-----------------------------------------------------------------------------
(* The sum *)

\* Nothing adds up to 0.
LEMMA SumOfNothing ==
  ASSUME NEW w
  PROVE  SumFunctionOnSet(w, {}) = 0
<1>1. Fold(w, {})[{}] = Body(w, Fold(w, {}), {})
  BY FoldUnfolds, FS_EmptySet, Zenon
<1> QED
  BY <1>1, SumIsFold, Zenon DEF Body

\* Zeros add up to 0.
LEMMA SumOfZeros ==
  ASSUME NEW w, NEW S, IsFiniteSet(S), \A x \in S : w[x] = 0
  PROVE  SumFunctionOnSet(w, S) = 0
<1> DEFINE f == Fold(w, S)
           G == {s \in SUBSET S : f[s] = 0}
<1>1. \A s \in SUBSET S : f[s] = Body(w, f, s)
  BY FoldUnfolds
<1> HIDE DEF f
<1>2. ASSUME NEW s \in SUBSET S, \A x \in s : s \ {x} \in G PROVE s \in G
  <2>1. CASE s = {}
    BY <1>1, <2>1, Zenon DEF Body
  <2>2. CASE s # {}
    <3>1. Chosen(s) \in s
      BY <2>2, ChosenElement, Zenon
    <3>2. f[s \ {Chosen(s)}] = 0 /\ w[Chosen(s)] = 0
      BY <1>2, <3>1, Zenon
    <3> QED
      BY <1>1, <2>2, <3>2 DEF Body
  <2> QED
    BY <2>1, <2>2, Zenon
<1> HIDE DEF G
<1>3. S \in G
  BY <1>2, SubsetInduction, Zenon
<1>4. Fold(w, S)[S] = 0
  BY <1>3, Zenon DEF G, f
<1> QED
  BY <1>4, SumIsFold, Zenon

\* The sum depends on the weights of the elements only.
LEMMA SumOfEquals ==
  ASSUME NEW w, NEW v, NEW S, IsFiniteSet(S), \A x \in S : w[x] \in Int,
         \A x \in S : v[x] = w[x]
  PROVE  SumFunctionOnSet(v, S) = SumFunctionOnSet(w, S)
<1>1. Fold(v, S)[S] = Fold(w, S)[S]
  BY FoldsAgree
<1> QED
  BY <1>1, SumIsFold, Zenon

\* The chosen element comes first.
LEMMA SumStep ==
  ASSUME NEW w, NEW S, IsFiniteSet(S), S # {}, \A x \in S : w[x] \in Int
  PROVE  SumFunctionOnSet(w, S) = w[Chosen(S)] + SumFunctionOnSet(w, S \ {Chosen(S)})
<1> DEFINE r == S \ {Chosen(S)}
<1>1. Fold(w, S)[S] = w[Chosen(S)] + Fold(w, S)[r]
  BY FoldUnfolds DEF Body
<1>2. IsFiniteSet(r) /\ r \subseteq S
  BY FS_RemoveElement, Zenon
<1>3. Fold(w, S)[r] = Fold(w, r)[r]
  BY <1>2, FoldsAgree
<1> QED
  BY <1>1, <1>3, SumIsFold, Zenon

\* A sum of integers is an integer, a sum of natural numbers is one.
LEMMA SumType ==
  ASSUME NEW w, NEW S, IsFiniteSet(S), \A x \in S : w[x] \in Int
  PROVE  /\ SumFunctionOnSet(w, S) \in Int
         /\ (\A x \in S : w[x] \in Nat) => SumFunctionOnSet(w, S) \in Nat
<1> DEFINE G == {s \in SUBSET S : /\ SumFunctionOnSet(w, s) \in Int
                                  /\ (\A x \in s : w[x] \in Nat) => SumFunctionOnSet(w, s) \in Nat}
<1>1. ASSUME NEW s \in SUBSET S, \A x \in s : s \ {x} \in G PROVE s \in G
  <2>1. CASE s = {}
    BY <2>1, SumOfNothing
  <2>2. CASE s # {}
    <3>1. Chosen(s) \in s /\ IsFiniteSet(s)
      BY <2>2, ChosenElement, FS_Subset, Zenon
    <3>2. s \ {Chosen(s)} \in G
      BY <1>1, <3>1, Zenon
    <3>3. SumFunctionOnSet(w, s) = w[Chosen(s)] + SumFunctionOnSet(w, s \ {Chosen(s)})
      BY <2>2, <3>1, SumStep, Zenon
    <3> QED
      BY <3>1, <3>2, <3>3
  <2> QED
    BY <2>1, <2>2, Zenon
<1> HIDE DEF G
<1>2. S \in G
  BY <1>1, SubsetInduction, Zenon
<1> QED
  BY <1>2, Zenon DEF G

\* Any element can be split off.
LEMMA SumSplit ==
  ASSUME NEW w, NEW S, IsFiniteSet(S), \A x \in S : w[x] \in Int, NEW y \in S
  PROVE  SumFunctionOnSet(w, S) = w[y] + SumFunctionOnSet(w, S \ {y})
<1> DEFINE Sum(s) == SumFunctionOnSet(w, s)
           G == {s \in SUBSET S : \A x \in s : Sum(s) = w[x] + Sum(s \ {x})}
<1>1. ASSUME NEW s \in SUBSET S, \A x \in s : s \ {x} \in G, NEW x \in s
      PROVE  Sum(s) = w[x] + Sum(s \ {x})
  <2> DEFINE c == Chosen(s)
             r == (s \ {c}) \ {x}
  <2>1. c \in s /\ IsFiniteSet(s)
    BY ChosenElement, FS_Subset, Zenon
  <2>2. Sum(s) = w[c] + Sum(s \ {c})
    BY <2>1, SumStep, Zenon
  <2>3. CASE c = x
    BY <2>2, <2>3, Zenon
  <2>4. CASE c # x
    <3>1. Sum(s \ {c}) = w[x] + Sum(r)
      BY <1>1, <2>1, <2>4, Zenon
    <3>2. Sum(s \ {x}) = w[c] + Sum(r)
      <4>1. (s \ {x}) \ {c} = r
        BY Zenon
      <4> QED
        BY <1>1, <2>1, <2>4, <4>1, Zenon
    <3>3. IsFiniteSet(r)
      BY <2>1, FS_RemoveElement, Zenon
    <3>4. Sum(r) \in Int /\ w[c] \in Int /\ w[x] \in Int
      BY <2>1, <3>3, SumType, Zenon
    <3> QED
      BY <2>2, <3>1, <3>2, <3>4
  <2> QED
    BY <2>3, <2>4, Zenon
<1>2. \A s \in SUBSET S : (\A x \in s : s \ {x} \in G) => s \in G
  BY <1>1, Zenon
<1> HIDE DEF G
<1>3. S \in G
  BY <1>2, SubsetInduction, Zenon
<1> QED
  BY <1>3, Zenon DEF G

\* One weight changes.
LEMMA SumUpdate ==
  ASSUME NEW w, NEW v, NEW S, IsFiniteSet(S), NEW y,
         \A x \in S : w[x] \in Int /\ v[x] \in Int,
         \A x \in S \ {y} : v[x] = w[x]
  PROVE  /\ y \in S => SumFunctionOnSet(v, S) = SumFunctionOnSet(w, S) - w[y] + v[y]
         /\ y \notin S => SumFunctionOnSet(v, S) = SumFunctionOnSet(w, S)
<1>1. IsFiniteSet(S \ {y})
  BY FS_Subset, Zenon
<1>2. SumFunctionOnSet(v, S \ {y}) = SumFunctionOnSet(w, S \ {y})
  BY <1>1, SumOfEquals, Zenon
<1>3. CASE y \in S
  <2>1. /\ SumFunctionOnSet(w, S) = w[y] + SumFunctionOnSet(w, S \ {y})
        /\ SumFunctionOnSet(v, S) = v[y] + SumFunctionOnSet(v, S \ {y})
    BY <1>3, SumSplit
  <2>2. SumFunctionOnSet(w, S \ {y}) \in Int
    BY <1>1, SumType, Zenon
  <2> QED
    BY <1>2, <1>3, <2>1, <2>2
<1>4. CASE y \notin S
  <2>1. S \ {y} = S
    BY <1>4, Zenon
  <2> QED
    BY <1>2, <1>4, <2>1, Zenon
<1> QED
  BY <1>3, <1>4, Zenon

-----------------------------------------------------------------------------
(* The table and its transactions *)

USE NoRowAssumption

Table == [Keys -> [Tiers -> Row \cup {NoRow}]]

\* No row appears, disappears, or changes its state or its descriptor.
RowsKept ==
  \A k \in Keys, p \in Tiers :
    /\ blocks'[k][p] = NoRow <=> blocks[k][p] = NoRow
    /\ blocks[k][p] # NoRow => /\ blocks'[k][p].state = blocks[k][p].state
                               /\ blocks'[k][p].desc = blocks[k][p].desc

\* Every row but this one stays as it is.
OthersKept(k, p) ==
  \A j \in Keys, q \in Tiers : <<j, q>> # <<k, p>> => blocks'[j][q] = blocks[j][q]

\* Replacing one row by a well-formed one or by none.
LEMMA SetRowFacts ==
  ASSUME blocks \in Table, NEW k \in Keys, NEW p \in Tiers,
         NEW row \in Row \cup {NoRow}, SetRow(k, p, row)
  PROVE  blocks' \in Table /\ blocks'[k][p] = row /\ OthersKept(k, p)
  BY Zenon DEF SetRow, Table, OthersKept

\* Pins change counters only.
LEMMA PinFacts ==
  ASSUME blocks \in Table, ownerEpoch \in Nat, NEW k \in Keys, NEW p \in Tiers,
         Acquire(k, p) \/ Release(k, p)
  PROVE  blocks' \in Table /\ RowsKept /\ UNCHANGED <<ownerEpoch, open>>
<1>1. blocks[k][p] \in Row \cup {NoRow}
  BY Zenon DEF Table
<1>2. CASE UNCHANGED mdVars
  BY <1>2, Zenon DEF mdVars, RowsKept
<1>3. CASE Acquire(k, p)
  <2>1. /\ blocks[k][p] \in Row
        /\ SetRow(k, p, [blocks[k][p] EXCEPT !.inFlight = KeptInFlight(k, p) + 1,
                                             !.epoch = ownerEpoch])
    BY <1>1, <1>3, Zenon DEF Acquire, Active
  <2>2. KeptInFlight(k, p) + 1 \in Nat
    BY <2>1 DEF KeptInFlight, Row
  <2>3. PICK row \in Row : SetRow(k, p, row) /\ row.state = blocks[k][p].state
                                             /\ row.desc = blocks[k][p].desc
    <3> DEFINE row == [blocks[k][p] EXCEPT !.inFlight = KeptInFlight(k, p) + 1,
                                           !.epoch = ownerEpoch]
    <3>1. row \in Row /\ row.state = blocks[k][p].state /\ row.desc = blocks[k][p].desc
      BY <2>1, <2>2, Zenon DEF Row
    <3> QED
      BY <2>1, <3>1, Zenon
  <2> QED
    BY <1>3, <2>1, <2>3, SetRowFacts DEF RowsKept, OthersKept, Acquire
<1>4. CASE Release(k, p)
  <2>1. CASE blocks[k][p] # NoRow /\ blocks[k][p].epoch = ownerEpoch
    <3>1. /\ blocks[k][p] \in Row
          /\ SetRow(k, p, [blocks[k][p] EXCEPT !.inFlight = IF @ = 0 THEN 0 ELSE @ - 1])
      BY <1>1, <1>4, <2>1, Zenon DEF Release
    <3>2. PICK row \in Row : SetRow(k, p, row) /\ row.state = blocks[k][p].state
                                               /\ row.desc = blocks[k][p].desc
      BY <3>1 DEF Row
    <3> QED
      BY <1>4, <3>1, <3>2, SetRowFacts DEF RowsKept, OthersKept, Release
  <2>2. CASE ~(blocks[k][p] # NoRow /\ blocks[k][p].epoch = ownerEpoch)
    BY <1>4, <2>2, Zenon DEF Release, RowsKept
  <2> QED
    BY <2>1, <2>2, Zenon
<1> QED
  BY <1>3, <1>4, Zenon

\* A row is withdrawn.
LEMMA RemoveFacts ==
  ASSUME blocks \in Table, NEW k \in Keys, NEW p \in Tiers,
         Delete(k, p) \/ FinishDelete(k, p)
  PROVE  /\ blocks' \in Table /\ blocks'[k][p] = NoRow /\ OthersKept(k, p)
         /\ UNCHANGED <<ownerEpoch, open>>
<1>1. SetRow(k, p, NoRow) /\ UNCHANGED <<ownerEpoch, open>>
  BY Zenon DEF Delete, FinishDelete
<1> QED
  BY <1>1, SetRowFacts, Zenon

\* A row becomes a tombstone.
LEMMA TombstoneFacts ==
  ASSUME blocks \in Table, NEW k \in Keys, NEW p \in Tiers, BeginDelete(k, p)
  PROVE  /\ blocks' \in Table /\ OthersKept(k, p) /\ UNCHANGED <<ownerEpoch, open>>
         /\ blocks'[k][p] # NoRow /\ blocks'[k][p].state = "deleting"
         /\ blocks'[k][p].desc = blocks[k][p].desc
<1>1. /\ blocks[k][p] \in Row /\ UNCHANGED <<ownerEpoch, open>>
      /\ SetRow(k, p, [blocks[k][p] EXCEPT !.state = "deleting",
                                           !.inFlight = IF Active(k, p) THEN 0 ELSE @,
                                           !.epoch = IF Active(k, p) THEN 0 ELSE @])
  BY Zenon DEF BeginDelete, CanBeginDelete, Table
<1>2. PICK row \in Row : SetRow(k, p, row) /\ row.state = "deleting"
                                           /\ row.desc = blocks[k][p].desc
  <2> DEFINE n   == IF Active(k, p) THEN 0 ELSE blocks[k][p].inFlight
             e   == IF Active(k, p) THEN 0 ELSE blocks[k][p].epoch
             row == [blocks[k][p] EXCEPT !.state = "deleting", !.inFlight = n, !.epoch = e]
  <2>1. n \in Nat /\ e \in Nat
    BY <1>1, Zenon DEF Row
  <2> HIDE DEF n, e
  <2>2. row \in Row /\ row.state = "deleting" /\ row.desc = blocks[k][p].desc
    BY <1>1, <2>1, Zenon DEF Row
  <2>3. SetRow(k, p, row)
    BY <1>1, Zenon DEF n, e
  <2> QED
    BY <2>2, <2>3, Zenon
<1> QED
  BY <1>1, <1>2, SetRowFacts, Zenon

\* A row is published.
LEMMA UpsertFacts ==
  ASSUME blocks \in Table, ownerEpoch \in Nat, NEW k \in Keys, NEW p \in Tiers,
         NEW d \in Descriptors, NEW u \in Uris, Upsert(k, p, d, u)
  PROVE  /\ blocks' \in Table /\ OthersKept(k, p) /\ UNCHANGED <<ownerEpoch, open>>
         /\ blocks'[k][p] # NoRow /\ blocks'[k][p].state = "active"
         /\ blocks'[k][p].desc = d
<1>1. KeptInFlight(k, p) \in Nat
  BY Zenon DEF KeptInFlight, Table, Row
<1>2. PICK row \in Row : SetRow(k, p, row) /\ row.state = "active" /\ row.desc = d
  BY <1>1 DEF Upsert, Row
<1> QED
  BY <1>2, SetRowFacts, Zenon DEF Upsert

\* Opening the database clears counters only.
LEMMA OpenFacts ==
  ASSUME blocks \in Table, ownerEpoch \in Nat, Open
  PROVE  blocks' \in Table /\ RowsKept /\ ownerEpoch' \in Nat
<1>1. ASSUME NEW row \in Row
      PROVE  [row EXCEPT !.inFlight = 0, !.epoch = 0] \in Row
             /\ [row EXCEPT !.inFlight = 0, !.epoch = 0].state = row.state
             /\ [row EXCEPT !.inFlight = 0, !.epoch = 0].desc = row.desc
  BY Zenon DEF Row
<1>2. \A k \in Keys, p \in Tiers :
        blocks'[k][p] = IF blocks[k][p] = NoRow THEN NoRow
                        ELSE [blocks[k][p] EXCEPT !.inFlight = 0, !.epoch = 0]
  BY Zenon DEF Open, ClearedCounters
<1>3. \A k \in Keys, p \in Tiers : blocks[k][p] # NoRow => blocks[k][p] \in Row
  BY Zenon DEF Table
<1>4. RowsKept
  <2> SUFFICES ASSUME NEW k \in Keys, NEW p \in Tiers
               PROVE  /\ blocks'[k][p] = NoRow <=> blocks[k][p] = NoRow
                      /\ blocks[k][p] # NoRow => /\ blocks'[k][p].state = blocks[k][p].state
                                                 /\ blocks'[k][p].desc = blocks[k][p].desc
    BY Zenon DEF RowsKept
  <2>1. CASE blocks[k][p] = NoRow
    BY <1>2, <2>1, Zenon
  <2>2. CASE blocks[k][p] # NoRow
    <3>1. blocks[k][p] \in Row
      BY <1>3, <2>2, Zenon
    <3>2. blocks'[k][p] = [blocks[k][p] EXCEPT !.inFlight = 0, !.epoch = 0]
      BY <1>2, <2>2, Zenon
    <3> QED
      BY <1>1, <2>2, <3>1, <3>2, Zenon
  <2> QED
    BY <2>1, <2>2, Zenon
<1>5. blocks' \in Table
  <2> DEFINE row(k, p) == IF blocks[k][p] = NoRow THEN NoRow
                          ELSE [blocks[k][p] EXCEPT !.inFlight = 0, !.epoch = 0]
  <2>1. \A k \in Keys, p \in Tiers : row(k, p) \in Row \cup {NoRow}
    BY <1>1, <1>3, Zenon
  <2>2. blocks' = [k \in Keys |-> [p \in Tiers |-> row(k, p)]]
    BY Zenon DEF Open, ClearedCounters
  <2> HIDE DEF row
  <2> QED
    BY <2>1, <2>2, Zenon DEF Table
<1> QED
  BY <1>4, <1>5 DEF Open
=============================================================================
