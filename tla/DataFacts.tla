------------------------------ MODULE DataFacts ------------------------------
(***************************************************************************)
(* Facts about natural numbers, finite sets, sequences, sums and folds     *)
(* that the proofs of several components use.                              *)
(*                                                                         *)
(* Induction is stated over a set: the set of the numbers (or of the finite *)
(* sets) that have a property.  A proof by induction defines that set and  *)
(* shows that it is closed.                                                *)
(***************************************************************************)
EXTENDS Integers, Sequences, SequencesExt, FiniteSets, Functions,
        FiniteSetTheorems, WellFoundedInduction, TLAPS

Elements(s) == {s[i] : i \in DOMAIN s}

\* A sequence, of whatever elements.
IsSequence(s) == s \in Seq(Elements(s))
-----------------------------------------------------------------------------
\* A nonempty set of naturals has a least element.
LEMMA LeastNatural ==
    ASSUME NEW T \in SUBSET Nat, T # {}
    PROVE  \E x \in T : \A y \in T : x <= y
<1> DEFINE Less == {p \in Nat \X Nat : p[1] < p[2]}
<1>1. OpToRel(<, Nat) = Less
  BY Zenon DEF OpToRel
<1>2. IsWellFoundedOn(Less, Nat)
  BY <1>1, NatLessThanWellFounded, Zenon
<1> HIDE DEF Less
<1>3. PICK x \in T : \A y \in T : <<y, x>> \notin Less
  BY <1>2, WFMin
<1>4. ASSUME NEW y \in T PROVE x <= y
  <2>1. x \in Nat /\ y \in Nat /\ <<y, x>>[1] = y /\ <<y, x>>[2] = x
    OBVIOUS
  <2>2. <<y, x>> \in Nat \X Nat /\ <<y, x>> \notin Less
    BY <1>3, <2>1
  <2>3. ~ (<<y, x>>[1] < <<y, x>>[2])
    BY <2>2 DEF Less
  <2> QED
    BY <2>1, <2>3
<1> QED
  BY <1>4

\* Induction on the naturals.
LEMMA InductionOnNaturals ==
    ASSUME NEW S, 0 \in S, \A n \in Nat : n \in S => n + 1 \in S
    PROVE  Nat \subseteq S
<1> DEFINE T == Nat \ S
<1> SUFFICES ASSUME T # {} PROVE FALSE
  OBVIOUS
<1>1. PICK x \in T : \A y \in T : x <= y
  BY LeastNatural
<1>2. x # 0
  OBVIOUS
<1>3. x - 1 \in S
  BY <1>1, <1>2
<1> QED
  BY <1>2, <1>3

\* Induction on the finite sets.
LEMMA InductionOnFiniteSets ==
    ASSUME NEW A, IsFiniteSet(A), NEW S, {} \in S,
           \A T \in SUBSET A : \A x \in A \ T : T \in S => T \cup {x} \in S
    PROVE  A \in S
<1> DEFINE N == {n \in Nat : \A T \in SUBSET A : Cardinality(T) = n => T \in S}
<1>1. \A T \in SUBSET A : IsFiniteSet(T) /\ Cardinality(T) \in Nat
  BY FS_Subset, FS_CardinalityType
<1>2. 0 \in N
  <2> SUFFICES ASSUME NEW T \in SUBSET A, Cardinality(T) = 0 PROVE T \in S
    OBVIOUS
  <2> QED
    BY <1>1, FS_EmptySet
<1>3. ASSUME NEW n \in Nat, n \in N PROVE n + 1 \in N
  <2> SUFFICES ASSUME NEW T \in SUBSET A, Cardinality(T) = n + 1 PROVE T \in S
    OBVIOUS
  <2>1. PICK x \in T : TRUE
    BY <1>1, FS_EmptySet
  <2> DEFINE R == T \ {x}
  <2>2. R \in SUBSET A /\ x \in A \ R /\ T = R \cup {x}
    BY <2>1
  <2>3. Cardinality(R) = n
    <3>1. Cardinality(R) = IF x \in T THEN Cardinality(T) - 1 ELSE Cardinality(T)
      BY <1>1, FS_RemoveElement, Zenon
    <3> HIDE DEF R, N
    <3> QED
      BY <3>1
  <2> HIDE DEF R
  <2>4. R \in S
    BY <1>3, <2>2, <2>3
  <2> QED
    BY <2>2, <2>4
<1> HIDE DEF N
<1>4. Nat \subseteq N
  BY <1>2, <1>3, InductionOnNaturals
<1>5. Cardinality(A) \in N
  BY <1>1, <1>4
<1> QED
  BY <1>5 DEF N
-----------------------------------------------------------------------------
\* A sequence is one over its own elements.
LEMMA OwnElements ==
    ASSUME NEW U, NEW s \in Seq(U)
    PROVE  IsSequence(s)
<1>1. Len(s) \in Nat /\ DOMAIN s = 1 .. Len(s) /\ s \in [1 .. Len(s) -> U]
  OBVIOUS
<1>2. s = [n \in 1 .. Len(s) |-> s[n]]
  BY <1>1
<1>3. s \in [1 .. Len(s) -> Elements(s)]
  BY <1>1, <1>2 DEF Elements
<1> QED
  BY <1>1, <1>3 DEF IsSequence

LEMMA SequenceDomain ==
    ASSUME NEW s, IsSequence(s)
    PROVE  /\ Len(s) \in Nat
           /\ DOMAIN s = 1 .. Len(s)
           /\ s = [n \in 1 .. Len(s) |-> s[n]]
BY DEF IsSequence

LEMMA EmptySequence == IsSequence(<<>>) /\ DOMAIN <<>> = {}
BY DEF IsSequence, Elements

\* What Append leaves and adds.
LEMMA AppendElements ==
    ASSUME NEW s, IsSequence(s), NEW k
    PROVE  /\ IsSequence(Append(s, k))
           /\ Len(Append(s, k)) = Len(s) + 1
           /\ DOMAIN Append(s, k) = DOMAIN s \cup {Len(s) + 1}
           /\ Append(s, k)[Len(s) + 1] = k
           /\ \A i \in DOMAIN s : Append(s, k)[i] = s[i]
<1> DEFINE U == Elements(s) \cup {k}
           t == Append(s, k)
<1>1. s \in Seq(U) /\ k \in U
  BY DEF IsSequence
<1> HIDE DEF U
<1>2. Len(s) \in Nat /\ DOMAIN s = 1 .. Len(s)
  BY <1>1
<1>3. t \in Seq(U) /\ Len(t) = Len(s) + 1 /\ DOMAIN t = 1 .. (Len(s) + 1)
  BY <1>1
<1>4. t[Len(s) + 1] = k /\ \A i \in DOMAIN s : t[i] = s[i]
  BY <1>1, <1>2
<1>5. DOMAIN t = DOMAIN s \cup {Len(s) + 1}
  BY <1>2, <1>3
<1> QED
  BY <1>3, <1>4, <1>5, OwnElements

\* What Head and Tail take and leave.
LEMMA TailElements ==
    ASSUME NEW s, IsSequence(s), s # <<>>
    PROVE  /\ Head(s) = s[1] /\ 1 \in DOMAIN s
           /\ IsSequence(Tail(s))
           /\ Len(Tail(s)) = Len(s) - 1
           /\ \A i \in DOMAIN Tail(s) : Tail(s)[i] = s[i + 1] /\ i + 1 \in DOMAIN s
<1> DEFINE U == Elements(s)
<1>1. s \in Seq(U)
  BY DEF IsSequence
<1> HIDE DEF U
<1>2. Len(s) \in Nat \ {0} /\ DOMAIN s = 1 .. Len(s)
  BY <1>1
<1>3. /\ Tail(s) \in Seq(U)
      /\ Len(Tail(s)) = Len(s) - 1
      /\ \A i \in DOMAIN Tail(s) : Tail(s)[i] = s[i + 1] /\ i + 1 \in DOMAIN s
  BY <1>1, <1>2
<1>4. Head(s) = s[1] /\ 1 \in DOMAIN s
  BY <1>1, <1>2
<1> QED
  BY <1>3, <1>4, OwnElements
-----------------------------------------------------------------------------
(* Sums.  SumFunction adds the values of a function in the order in which   *)
(* CHOOSE picks the elements of its domain.  Sums is that recursion; the    *)
(* lemmas show that on a finite domain it exists, and that the order does   *)
(* not matter.                                                              *)

Pick(s) == CHOOSE x \in s : TRUE

IsSums(g, f, S) ==
    g = [s \in SUBSET S |-> IF s = {} THEN 0 ELSE f[Pick(s)] + g[s \ {Pick(s)}]]

Sums(f, S) == CHOOSE g : IsSums(g, f, S)

LEMMA PickOne == ASSUME NEW s, s # {} PROVE Pick(s) \in s
  BY DEF Pick

\* The subsets of a finite set, without one of their elements.
LEMMA SmallerSubset ==
    ASSUME NEW S, IsFiniteSet(S), NEW s \in SUBSET S
    PROVE  /\ IsFiniteSet(s) /\ Cardinality(s) \in Nat
           /\ Cardinality(s) = 0 <=> s = {}
           /\ Cardinality(s) <= 0 => s = {}
           /\ \A x \in s : s \ {x} \in SUBSET S /\ Cardinality(s \ {x}) = Cardinality(s) - 1
<1>1. IsFiniteSet(s) /\ Cardinality(s) \in Nat
  BY FS_Subset, FS_CardinalityType
<1> QED
  BY <1>1, FS_EmptySet, FS_RemoveElement

LEMMA SumsExist ==
    ASSUME NEW f, NEW S, IsFiniteSet(S)
    PROVE  IsSums(Sums(f, S), f, S)
<1> DEFINE Next(g, s) == IF s = {} THEN 0 ELSE f[Pick(s)] + g[s \ {Pick(s)}]
           Upto(g, n) == /\ g = [s \in SUBSET S |-> g[s]]
                         /\ \A s \in SUBSET S : Cardinality(s) <= n => g[s] = Next(g, s)
           N == {n \in Nat : \E g : Upto(g, n)}
<1>1. 0 \in N
  <2>1. Upto([s \in SUBSET S |-> 0], 0)
    BY SmallerSubset
  <2> QED
    BY <2>1
<1>2. ASSUME NEW n \in Nat, n \in N PROVE n + 1 \in N
  <2>1. PICK g : Upto(g, n)
    BY <1>2
  <2> DEFINE h == [s \in SUBSET S |-> IF Cardinality(s) = n + 1 THEN Next(g, s) ELSE g[s]]
  <2>2. ASSUME NEW s \in SUBSET S, s # {}, Cardinality(s) <= n + 1
        PROVE  h[s \ {Pick(s)}] = g[s \ {Pick(s)}]
    BY <2>2, PickOne, SmallerSubset
  <2>3. ASSUME NEW s \in SUBSET S, Cardinality(s) <= n + 1 PROVE h[s] = Next(h, s)
    <3>1. Next(h, s) = Next(g, s)
      BY <2>2, <2>3
    <3>2. CASE Cardinality(s) = n + 1
      BY <3>1, <3>2
    <3>3. CASE Cardinality(s) # n + 1
      <4>1. Cardinality(s) <= n
        BY <2>3, <3>3, SmallerSubset
      <4> QED
        BY <2>1, <3>1, <3>3, <4>1
    <3> QED
      BY <3>2, <3>3
  <2>4. h = [s \in SUBSET S |-> h[s]]
    OBVIOUS
  <2>5. Upto(h, n + 1)
    BY <2>3, <2>4
  <2> HIDE DEF h, Upto
  <2> QED
    BY <2>5
<1> HIDE DEF N
<1>3. Cardinality(S) \in N
  BY <1>1, <1>2, InductionOnNaturals, SmallerSubset
<1>4. PICK g : Upto(g, Cardinality(S))
  BY <1>3 DEF N
<1>5. \A s \in SUBSET S : Cardinality(s) <= Cardinality(S)
  BY FS_Subset
<1>6. g = [s \in SUBSET S |-> Next(g, s)]
  BY <1>4, <1>5
<1>7. IsSums(g, f, S)
  BY <1>6 DEF IsSums
<1> QED
  BY <1>7 DEF Sums

LEMMA SumsOf ==
    ASSUME NEW f, NEW S, NEW g, IsSums(g, f, S)
    PROVE  /\ g[{}] = 0
           /\ \A s \in SUBSET S : s # {} => g[s] = f[Pick(s)] + g[s \ {Pick(s)}]
BY DEF IsSums

\* Any element may be taken first.
LEMMA SumsSplit ==
    ASSUME NEW f, NEW S, IsFiniteSet(S), \A x \in S : f[x] \in Int, NEW g, IsSums(g, f, S)
    PROVE  \A s \in SUBSET S : g[s] \in Int /\ \A x \in s : g[s] = f[x] + g[s \ {x}]
<1> DEFINE Ok(s) == g[s] \in Int /\ \A x \in s : g[s] = f[x] + g[s \ {x}]
           N == {n \in Nat : \A s \in SUBSET S : Cardinality(s) <= n => Ok(s)}
<1>0. /\ g[{}] = 0
      /\ \A s \in SUBSET S : s # {} => g[s] = f[Pick(s)] + g[s \ {Pick(s)}]
  BY SumsOf
<1>1. 0 \in N
  <2>1. \A s \in SUBSET S : Cardinality(s) <= 0 => s = {}
    BY SmallerSubset
  <2>2. Ok({})
    BY <1>0
  <2> QED
    BY <2>1, <2>2
<1>2. ASSUME NEW n \in Nat, n \in N PROVE n + 1 \in N
  <2> SUFFICES ASSUME NEW s \in SUBSET S, Cardinality(s) <= n + 1 PROVE Ok(s)
    OBVIOUS
  <2>1. CASE s = {}
    BY <1>0, <2>1
  <2>2. CASE s # {}
    <3> DEFINE c == Pick(s)
    <3>1. c \in s /\ g[s] = f[c] + g[s \ {c}]
      BY <1>0, <2>2, PickOne
    <3> HIDE DEF c
    <3>2. \A x \in s : s \ {x} \in SUBSET S /\ Cardinality(s \ {x}) <= n
      BY SmallerSubset
    <3>3. \A x \in s : Ok(s \ {x})
      BY <1>2, <3>2
    <3>4. g[s] \in Int
      <4>1. f[c] \in Int /\ g[s \ {c}] \in Int
        BY <3>1, <3>3
      <4> QED
        BY <3>1, <4>1
    <3>5. ASSUME NEW x \in s, x # c PROVE g[s] = f[x] + g[s \ {x}]
      <4>1. g[s \ {c}] = f[x] + g[(s \ {c}) \ {x}]
        BY <3>1, <3>3, <3>5
      <4>2. g[s \ {x}] = f[c] + g[(s \ {x}) \ {c}]
        BY <3>1, <3>3, <3>5
      <4>3. (s \ {x}) \ {c} = (s \ {c}) \ {x}
        OBVIOUS
      <4>4. f[x] \in Int /\ f[c] \in Int /\ g[(s \ {c}) \ {x}] \in Int
        <5>1. (s \ {c}) \ {x} \in SUBSET S /\ Cardinality((s \ {c}) \ {x}) <= n
          <6> DEFINE t == s \ {c}
          <6>1. t \in SUBSET S /\ Cardinality(t) <= n /\ x \in t
            BY <3>1, <3>2, <3>5
          <6> HIDE DEF t
          <6>2. t \ {x} \in SUBSET S /\ Cardinality(t \ {x}) <= n
            BY <6>1, SmallerSubset
          <6> QED
            BY <6>2 DEF t
        <5> QED
          BY <1>2, <3>1, <5>1
      <4> QED
        <5> DEFINE v == g[(s \ {c}) \ {x}]
        <5>1. g[s] = f[c] + (f[x] + v) /\ g[s \ {x}] = f[c] + v
          BY <3>1, <4>1, <4>2, <4>3
        <5> HIDE DEF v
        <5>2. f[x] \in Int /\ f[c] \in Int /\ v \in Int
          BY <4>4 DEF v
        <5> QED
          BY <5>1, <5>2
    <3> QED
      BY <3>1, <3>4, <3>5
  <2> QED
    BY <2>1, <2>2
<1> HIDE DEF N
<1>3. Cardinality(S) \in N
  BY <1>1, <1>2, InductionOnNaturals, SmallerSubset
<1> QED
  BY <1>3, FS_Subset DEF N

LEMMA SumsAgree ==
    ASSUME NEW f, NEW e, NEW S, IsFiniteSet(S), NEW T \in SUBSET S,
           \A x \in T : f[x] = e[x], NEW g, IsSums(g, f, S), NEW h, IsSums(h, e, T)
    PROVE  \A s \in SUBSET T : g[s] = h[s]
<1> DEFINE N == {n \in Nat : \A s \in SUBSET T : Cardinality(s) <= n => g[s] = h[s]}
<1>0. /\ g[{}] = 0 /\ h[{}] = 0 /\ IsFiniteSet(T)
      /\ \A s \in SUBSET T : s # {} => g[s] = f[Pick(s)] + g[s \ {Pick(s)}]
      /\ \A s \in SUBSET T : s # {} => h[s] = e[Pick(s)] + h[s \ {Pick(s)}]
  <2>1. g[{}] = 0 /\ \A s \in SUBSET S : s # {} => g[s] = f[Pick(s)] + g[s \ {Pick(s)}]
    BY SumsOf
  <2>2. h[{}] = 0 /\ \A s \in SUBSET T : s # {} => h[s] = e[Pick(s)] + h[s \ {Pick(s)}]
    BY SumsOf
  <2>3. IsFiniteSet(T) /\ SUBSET T \subseteq SUBSET S
    BY FS_Subset
  <2> QED
    BY <2>1, <2>2, <2>3
<1>1. 0 \in N
  <2>1. \A s \in SUBSET T : Cardinality(s) <= 0 => s = {}
    BY <1>0, SmallerSubset
  <2> QED
    BY <1>0, <2>1
<1>2. ASSUME NEW n \in Nat, n \in N PROVE n + 1 \in N
  <2> SUFFICES ASSUME NEW s \in SUBSET T, Cardinality(s) <= n + 1 PROVE g[s] = h[s]
    OBVIOUS
  <2>1. CASE s = {}
    BY <1>0, <2>1
  <2>2. CASE s # {}
    <3>1. Pick(s) \in s
      BY <2>2, PickOne
    <3>2. s \ {Pick(s)} \in SUBSET T /\ Cardinality(s \ {Pick(s)}) <= n
      BY <1>0, <3>1, SmallerSubset
    <3>3. g[s \ {Pick(s)}] = h[s \ {Pick(s)}] /\ f[Pick(s)] = e[Pick(s)]
      BY <1>2, <3>1, <3>2
    <3> QED
      BY <1>0, <2>2, <3>3
  <2> QED
    BY <2>1, <2>2
<1> HIDE DEF N
<1>3. Cardinality(T) \in N
  BY <1>0, <1>1, <1>2, InductionOnNaturals, SmallerSubset
<1> QED
  BY <1>0, <1>3, FS_Subset DEF N

LEMMA SumIs == ASSUME NEW f PROVE SumFunction(f) = Sums(f, DOMAIN f)[DOMAIN f]
  BY DEF SumFunction, SumFunctionOnSet, FoldFunctionOnSet, MapThenFoldSet, Sums, IsSums, Pick

\* The sum of a function that is an integer on its finite domain, with those
\* over the subsets.
Splits(g, f, S) ==
    /\ IsSums(g, f, S) /\ SumFunction(f) = g[S] /\ g[{}] = 0
    /\ \A s \in SUBSET S : g[s] \in Int /\ \A x \in s : g[s] = f[x] + g[s \ {x}]

LEMMA SumSplits ==
    ASSUME NEW f, NEW S, S = DOMAIN f, IsFiniteSet(S), \A x \in S : f[x] \in Int
    PROVE  \E g : Splits(g, f, S)
<1> DEFINE g == Sums(f, S)
<1>1. IsSums(g, f, S) /\ SumFunction(f) = g[S]
  BY SumsExist, SumIs
<1> HIDE DEF g
<1>2. g[{}] = 0
  BY <1>1, SumsOf
<1>3. \A s \in SUBSET S : g[s] \in Int /\ \A x \in s : g[s] = f[x] + g[s \ {x}]
  BY <1>1, SumsSplit
<1>4. Splits(g, f, S)
  BY <1>1, <1>2, <1>3 DEF Splits
<1> QED
  BY <1>4

LEMMA SumFacts ==
    ASSUME NEW f, NEW S, S = DOMAIN f, IsFiniteSet(S), \A x \in S : f[x] \in Int
    PROVE  SumFunction(f) \in Int /\ (S = {} => SumFunction(f) = 0)
<1>1. PICK g : Splits(g, f, S)
  BY SumSplits
<1> QED
  BY <1>1 DEF Splits

\* One element less.
OneLess(f, e, S, x) ==
    /\ S = DOMAIN f /\ x \in S /\ DOMAIN e = S \ {x}
    /\ \A y \in S : f[y] \in Int /\ (y # x => e[y] = f[y])

LEMMA SumRest ==
    ASSUME NEW f, NEW e, NEW S, NEW x, OneLess(f, e, S, x), IsFiniteSet(S)
    PROVE  SumFunction(f) = f[x] + SumFunction(e)
<1> USE DEF OneLess
<1> DEFINE T == S \ {x}
<1>1. T = DOMAIN e /\ T \in SUBSET S /\ IsFiniteSet(T) /\ \A y \in T : e[y] \in Int
  BY FS_Subset
<1>2. PICK g : Splits(g, f, S)
  BY SumSplits
<1>3. \A y \in T : f[y] = e[y]
  OBVIOUS
<1> HIDE DEF T
<1>4. PICK h : Splits(h, e, T)
  BY <1>1, SumSplits
<1>5. g[T] = h[T]
  <2>1. IsSums(g, f, S) /\ IsSums(h, e, T)
    BY <1>2, <1>4 DEF Splits
  <2>2. \A s \in SUBSET T : g[s] = h[s]
    BY <1>1, <1>3, <2>1, SumsAgree
  <2> QED
    BY <2>2
<1>6. SumFunction(f) = g[S] /\ g[S] = f[x] + g[T] /\ SumFunction(e) = h[T]
  BY <1>2, <1>4 DEF Splits, T
<1> QED
  BY <1>5, <1>6

\* One value changes.
OneChanges(f, e, S, x) ==
    /\ S = DOMAIN f /\ S = DOMAIN e /\ x \in S
    /\ \A y \in S : f[y] \in Int /\ e[y] \in Int /\ (y # x => e[y] = f[y])

LEMMA SumChange ==
    ASSUME NEW f, NEW e, NEW S, NEW x, OneChanges(f, e, S, x), IsFiniteSet(S)
    PROVE  SumFunction(e) = SumFunction(f) + (e[x] - f[x])
<1> DEFINE T == S \ {x}
           r == [y \in T |-> f[y]]
<1>1. IsFiniteSet(T)
  BY FS_Subset
<1>2. /\ T = DOMAIN r /\ S = DOMAIN f /\ DOMAIN e = S /\ x \in S
      /\ \A y \in T : r[y] = f[y] /\ r[y] = e[y] /\ r[y] \in Int
      /\ \A y \in S : e[y] \in Int /\ f[y] \in Int
  BY DEF OneChanges
<1> HIDE DEF r
<1>3. SumFunction(f) = f[x] + SumFunction(r)
  BY <1>2, SumRest DEF OneLess
<1>4. SumFunction(e) = e[x] + SumFunction(r)
  BY <1>2, SumRest DEF OneLess
<1> HIDE DEF T
<1>5. SumFunction(r) \in Int /\ f[x] \in Int /\ e[x] \in Int
  BY <1>1, <1>2, SumFacts
<1> QED
  BY <1>3, <1>4, <1>5

\* A set of integers closed under adding the values of f has the sum of f.
LEMMA SumIn ==
    ASSUME NEW f, NEW S, S = DOMAIN f, IsFiniteSet(S), \A y \in S : f[y] \in Int,
           NEW V, 0 \in V, \A v \in V : \A y \in S : f[y] + v \in V
    PROVE  SumFunction(f) \in V
<1>1. PICK g : Splits(g, f, S)
  BY SumSplits
<1> DEFINE A == {s \in SUBSET S : g[s] \in V}
<1>2. ASSUME NEW T \in SUBSET S, NEW x \in S \ T, T \in A PROVE T \cup {x} \in A
  <2>1. (T \cup {x}) \ {x} = T
    BY <1>2
  <2>2. T \cup {x} \in SUBSET S /\ g[T \cup {x}] = f[x] + g[(T \cup {x}) \ {x}]
    BY <1>1 DEF Splits
  <2>3. g[T] \in V
    BY <1>2
  <2>4. g[T \cup {x}] \in V
    BY <2>1, <2>2, <2>3
  <2> QED
    BY <2>2, <2>4
<1>3. {} \in A
  BY <1>1 DEF Splits
<1>4. S \in A
  <2> HIDE DEF A
  <2> QED
    BY <1>2, <1>3, InductionOnFiniteSets
<1> QED
  BY <1>1, <1>4 DEF Splits

LEMMA SumZero ==
    ASSUME NEW f, NEW S, S = DOMAIN f, IsFiniteSet(S), \A y \in S : f[y] = 0
    PROVE  SumFunction(f) = 0
<1>1. \A y \in S : f[y] \in Int
  OBVIOUS
<1>2. \A v \in {0} : \A y \in S : f[y] + v \in {0}
  OBVIOUS
<1>3. SumFunction(f) \in {0}
  BY <1>1, <1>2, SumIn
<1> QED
  BY <1>3

\* A sum of naturals is not less than any of them.
LEMMA SumNat ==
    ASSUME NEW f, NEW S, S = DOMAIN f, IsFiniteSet(S), \A y \in S : f[y] \in Nat
    PROVE  SumFunction(f) \in Nat /\ \A x \in S : f[x] <= SumFunction(f)
<1>1. \A y \in S : f[y] \in Int
  OBVIOUS
<1>2. SumFunction(f) \in Nat
  <2>1. \A v \in Nat : \A y \in S : f[y] + v \in Nat
    OBVIOUS
  <2> QED
    BY <1>1, <2>1, SumIn
<1>3. ASSUME NEW x \in S PROVE f[x] <= SumFunction(f)
  <2> DEFINE T == S \ {x}
             r == [y \in T |-> f[y]]
  <2>1. IsFiniteSet(T)
    BY FS_Subset
  <2>2. T = DOMAIN r /\ \A y \in T : r[y] = f[y] /\ r[y] \in Int /\ r[y] \in Nat
    OBVIOUS
  <2> HIDE DEF r
  <2>3. SumFunction(f) = f[x] + SumFunction(r)
    BY <1>1, <2>2, SumRest DEF OneLess
  <2> HIDE DEF T
  <2>4. SumFunction(r) \in Nat
    <3>1. \A v \in Nat : \A y \in T : r[y] + v \in Nat
      BY <2>2
    <3> QED
      BY <2>1, <2>2, <3>1, SumIn
  <2> QED
    BY <2>3, <2>4
<1> QED
  BY <1>2, <1>3

\* A sum over fewer, each of which is smaller, is smaller.
Below(e, T, f, S) ==
    /\ S = DOMAIN f /\ T = DOMAIN e /\ T \subseteq S
    /\ \A x \in S : f[x] \in Nat
    /\ \A x \in T : e[x] \in Nat /\ e[x] <= f[x]

LEMMA SumMono ==
    ASSUME NEW f, NEW S, NEW e, NEW T, Below(e, T, f, S), IsFiniteSet(S)
    PROVE  SumFunction(e) <= SumFunction(f)
<1>0. /\ S = DOMAIN f /\ T = DOMAIN e /\ T \subseteq S
      /\ \A x \in S : f[x] \in Int /\ f[x] >= 0
      /\ \A x \in T : e[x] \in Int /\ e[x] <= f[x]
  BY DEF Below
<1>1. IsFiniteSet(T)
  BY <1>0, FS_Subset
<1>2. PICK g : Splits(g, f, S)
  BY <1>0, SumSplits
<1>3. PICK h : Splits(h, e, T)
  BY <1>0, <1>1, SumSplits
<1> DEFINE A == {s \in SUBSET S : h[s \cap T] <= g[s]}
<1>4. {} \in A
  <2>1. {} \cap T = {} /\ g[{}] = 0 /\ h[{}] = 0
    BY <1>2, <1>3 DEF Splits
  <2> QED
    BY <2>1
<1>5. ASSUME NEW s \in SUBSET S, NEW x \in S \ s, s \in A PROVE s \cup {x} \in A
  <2> DEFINE u == s \cup {x}
  <2>1. u \in SUBSET S /\ x \in u /\ u \ {x} = s
    BY <1>5
  <2>2. g[u] = f[x] + g[s] /\ g[s] \in Int /\ f[x] \in Int /\ f[x] >= 0
    BY <1>0, <1>2, <2>1 DEF Splits
  <2>3. s \cap T \in SUBSET T /\ h[s \cap T] \in Int /\ h[s \cap T] <= g[s]
    BY <1>3, <1>5 DEF Splits
  <2>4. CASE x \in T
    <3>1. u \cap T \in SUBSET T /\ x \in u \cap T /\ (u \cap T) \ {x} = s \cap T
      BY <1>5, <2>4
    <3>2. h[u \cap T] = e[x] + h[s \cap T]
      BY <1>3, <3>1 DEF Splits
    <3>3. e[x] \in Int /\ e[x] <= f[x]
      BY <1>0, <2>4
    <3> HIDE DEF u
    <3>4. h[u \cap T] <= g[u]
      BY <2>2, <2>3, <3>2, <3>3
    <3>5. u \in A
      BY <2>1, <3>4
    <3> QED
      BY <3>5 DEF u
  <2>5. CASE x \notin T
    <3>1. u \cap T = s \cap T
      BY <2>5
    <3> HIDE DEF u
    <3>4. h[u \cap T] = h[s \cap T]
      BY <3>1
    <3>2. h[u \cap T] <= g[u]
      <4>1. g[s] <= g[u] /\ g[u] \in Int
        BY <2>2
      <4> QED
        BY <2>2, <2>3, <3>4, <4>1
    <3>3. u \in A
      BY <2>1, <3>2
    <3> QED
      BY <3>3 DEF u
  <2> QED
    BY <2>4, <2>5
<1> HIDE DEF A
<1>6. S \in A
  BY <1>4, <1>5, InductionOnFiniteSets
<1>7. S \cap T = T
  BY <1>0
<1> QED
  BY <1>2, <1>3, <1>6, <1>7 DEF A, Splits

\* The members of a finite set, in some order.
LEMMA SetSequence ==
    ASSUME NEW S, IsFiniteSet(S)
    PROVE  SetToSeq(S) \in Seq(S)
<1>1. Cardinality(S) \in Nat /\ ExistsBijection(1 .. Cardinality(S), S)
  BY FS_CardinalityType
<1>2. \E f \in [1 .. Cardinality(S) -> S] : IsInjective(f)
  BY <1>1 DEF ExistsBijection, Bijection, Injection, IsInjective
<1>3. SetToSeq(S) \in [1 .. Cardinality(S) -> S]
  BY <1>2 DEF SetToSeq
<1> QED
  BY <1>1, <1>3

-----------------------------------------------------------------------------
(* Folds.  A fold takes the elements of a finite set one by one, in the     *)
(* order that pick gives, and step makes the next value.  Whatever contains *)
(* the base and is closed under step contains what the fold computes.       *)

IsFold(g, S, pick, step, base) ==
    g = [u \in SUBSET S |-> IF u = {} THEN base ELSE step[pick[u], g[u \ {pick[u]}]]]

LEMMA FoldExists ==
    ASSUME NEW S, IsFiniteSet(S), NEW pick, \A u \in SUBSET S : u # {} => pick[u] \in u,
           NEW T, NEW base \in T, NEW step \in [S \X T -> T]
    PROVE  \E g \in [SUBSET S -> T] : IsFold(g, S, pick, step, base)
<1> DEFINE Step(g, u) == IF u = {} THEN base ELSE step[pick[u], g[u \ {pick[u]}]]
           Upto(g, n) == /\ g \in [SUBSET S -> T]
                         /\ \A u \in SUBSET S : Cardinality(u) <= n => g[u] = Step(g, u)
           N == {n \in Nat : \E g : Upto(g, n)}
<1>1. 0 \in N
  <2> DEFINE g == [u \in SUBSET S |-> base]
  <2>1. g \in [SUBSET S -> T]
    OBVIOUS
  <2>2. \A u \in SUBSET S : Cardinality(u) <= 0 => u = {}
    BY SmallerSubset
  <2>3. Upto(g, 0)
    BY <2>1, <2>2
  <2> QED
    BY <2>3
<1>2. ASSUME NEW n \in Nat, n \in N PROVE n + 1 \in N
  <2>1. PICK g : Upto(g, n)
    BY <1>2
  <2>2. ASSUME NEW h \in [SUBSET S -> T], NEW u \in SUBSET S PROVE Step(h, u) \in T
    <3>1. CASE u = {}
      BY <3>1
    <3>2. CASE u # {}
      <4> DEFINE x == pick[u]
      <4>1. x \in S /\ u \ {x} \in SUBSET S
        BY <3>2
      <4> HIDE DEF x
      <4>2. h[u \ {x}] \in T
        BY <4>1
      <4>3. step[x, h[u \ {x}]] \in T
        BY <4>1, <4>2
      <4> QED
        BY <3>2, <4>3 DEF x
    <3> QED
      BY <3>1, <3>2
  <2> DEFINE h == [u \in SUBSET S |-> IF Cardinality(u) = n + 1 THEN Step(g, u) ELSE g[u]]
  <2>3. h \in [SUBSET S -> T]
    <3> HIDE DEF Step
    <3> QED
      BY <2>1, <2>2
  <2>4. ASSUME NEW u \in SUBSET S, u # {}, Cardinality(u) <= n + 1
        PROVE  h[u \ {pick[u]}] = g[u \ {pick[u]}]
    <3>1. u \ {pick[u]} \in SUBSET S /\ Cardinality(u \ {pick[u]}) # n + 1
      BY <2>4, SmallerSubset
    <3> QED
      BY <3>1
  <2>5. ASSUME NEW u \in SUBSET S, Cardinality(u) <= n + 1 PROVE h[u] = Step(h, u)
    <3>1. Step(h, u) = Step(g, u)
      BY <2>4, <2>5
    <3> HIDE DEF Step
    <3>2. CASE Cardinality(u) = n + 1
      BY <3>1, <3>2
    <3>3. CASE Cardinality(u) # n + 1
      <4>1. Cardinality(u) <= n
        BY <2>5, <3>3, SmallerSubset
      <4> QED
        BY <2>1, <3>1, <3>3, <4>1
    <3> QED
      BY <3>2, <3>3
  <2>6. Upto(h, n + 1)
    BY <2>3, <2>5
  <2> HIDE DEF h, Upto
  <2> QED
    BY <2>6
<1> HIDE DEF N
<1>3. Cardinality(S) \in N
  BY <1>1, <1>2, InductionOnNaturals, SmallerSubset
<1>4. PICK g : Upto(g, Cardinality(S))
  BY <1>3 DEF N
<1>5. \A u \in SUBSET S : Cardinality(u) <= Cardinality(S)
  BY FS_Subset
<1>6. g \in [SUBSET S -> T] /\ g = [u \in SUBSET S |-> g[u]]
  BY <1>4
<1>7. g = [u \in SUBSET S |-> Step(g, u)]
  BY <1>4, <1>5, <1>6
<1>8. IsFold(g, S, pick, step, base)
  BY <1>7 DEF IsFold
<1> QED
  BY <1>6, <1>8

\* A set of naturals that is finite has a greatest element.
LEMMA GreatestPicked ==
    ASSUME NEW s, s \subseteq Nat, IsFiniteSet(s), s # {}
    PROVE  Max(s) \in s
<1> DEFINE Has(u) == u = {} \/ \E x \in u : \A y \in u : x >= y
           A == {u \in SUBSET s : Has(u)}
<1>1. {} \in A
  OBVIOUS
<1>2. ASSUME NEW u \in SUBSET s, NEW x \in s \ u, u \in A PROVE u \cup {x} \in A
  <2>1. CASE u = {}
    BY <2>1
  <2>2. CASE u # {}
    <3>1. PICK z \in u : \A y \in u : z >= y
      BY <1>2, <2>2
    <3>2. x \in Nat /\ z \in Nat /\ u \subseteq Nat
      OBVIOUS
    <3>3. CASE x >= z
      <4>1. \A y \in u \cup {x} : x >= y
        BY <3>1, <3>2, <3>3
      <4> QED
        BY <4>1
    <3>4. CASE ~(x >= z)
      <4>1. \A y \in u \cup {x} : z >= y
        BY <3>1, <3>2, <3>4
      <4> QED
        BY <3>1, <4>1
    <3> QED
      BY <3>3, <3>4
  <2> QED
    BY <2>1, <2>2
<1> HIDE DEF A
<1>3. s \in A
  BY <1>1, <1>2, InductionOnFiniteSets
<1> QED
  BY <1>3 DEF A, Max

LEMMA FoldStays ==
    ASSUME NEW S, IsFiniteSet(S), NEW pick, \A u \in SUBSET S : u # {} => pick[u] \in u,
           NEW T, NEW h, h[{}] \in T,
           \A u \in SUBSET S : u # {} /\ h[u \ {pick[u]}] \in T => h[u] \in T
    PROVE  h[S] \in T
<1> DEFINE N == {n \in Nat : \A u \in SUBSET S : Cardinality(u) = n => h[u] \in T}
<1>1. 0 \in N
  <2>1. \A u \in SUBSET S : Cardinality(u) = 0 => u = {}
    BY SmallerSubset
  <2> QED
    BY <2>1
<1>2. ASSUME NEW n \in Nat, n \in N PROVE n + 1 \in N
  <2> SUFFICES ASSUME NEW u \in SUBSET S, Cardinality(u) = n + 1 PROVE h[u] \in T
    OBVIOUS
  <2>1. u # {}
    BY SmallerSubset
  <2>2. u \ {pick[u]} \in SUBSET S /\ Cardinality(u \ {pick[u]}) = n
    BY <2>1, SmallerSubset
  <2>3. h[u \ {pick[u]}] \in T
    BY <1>2, <2>2
  <2> QED
    BY <2>1, <2>3
<1> HIDE DEF N
<1>3. Cardinality(S) \in N
  BY <1>1, <1>2, InductionOnNaturals, SmallerSubset
<1> QED
  BY <1>3 DEF N
=============================================================================
