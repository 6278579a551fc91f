---------------------------- MODULE SumTheorems ----------------------------
(***************************************************************************)
(* Facts about sums over finite sets (SumFunctionOnSet of the community    *)
(* modules) that the proofs of every part need: a sum over nothing, with   *)
(* one element taken out, of a part, compared, added, scaled and renamed;  *)
(* a few about least numbers and quotients; and about lists of a set's     *)
(* members in order.                                                       *)
(*                                                                         *)
(* An induction is an argument by a least counterexample: the statement    *)
(* becomes a set of the instances it holds for, and the library's theorem  *)
(* that strict inclusion is well-founded on finite sets gives the least    *)
(* instance outside of it.                                                 *)
(***************************************************************************)
EXTENDS Integers, Sequences, Functions, Tables, FiniteSetTheorems, TLAPS

-----------------------------------------------------------------------------
\* Induction over a finite set, one element at a time.
LEMMA FiniteInduction ==
    ASSUME NEW S, IsFiniteSet(S), NEW Good \in SUBSET SUBSET S,
           \A T \in SUBSET S : (\A x \in T : T \ {x} \in Good) => T \in Good
    PROVE  S \in Good
<1> SUFFICES ASSUME S \notin Good PROVE FALSE
  OBVIOUS
<1> DEFINE Bad == (SUBSET S) \ Good
<1>1. Bad \subseteq FiniteSubsetsOf(S) /\ Bad # {}
  BY FS_FiniteSubsetsOfFinite
<1>2. PICK T \in Bad : \A U \in Bad : <<U, T>> \notin StrictSubsetOrdering(S)
  <2> HIDE DEF Bad
  <2> QED
    BY <1>1, WFMin, FS_StrictSubsetOrderingWellFounded
<1>3. ASSUME NEW x \in T
      PROVE  T \ {x} \in Good
  <2>1. T \ {x} \in SUBSET S /\ T \ {x} # T
    OBVIOUS
  <2>2. <<T \ {x}, T>> \in StrictSubsetOrdering(S)
    BY <2>1 DEF StrictSubsetOrdering
  <2> QED
    BY <1>2, <2>1, <2>2
<1> QED
  BY <1>2, <1>3

\* The places of a list are finitely many.
LEMMA CountedSetIsFinite == \A n \in Nat : IsFiniteSet(1..n)
BY FS_Interval

\* Induction over the natural numbers.
LEMMA NaturalInduction ==
    ASSUME NEW Good, 0 \in Good, \A n \in Nat : n \in Good => n + 1 \in Good
    PROVE  Nat \subseteq Good
<1> SUFFICES ASSUME NEW n \in Nat PROVE n \in Good
  OBVIOUS
<1> DEFINE S == 1..n
           Sets == {T \in SUBSET S : Cardinality(T) \in Good}
<1>1. IsFiniteSet(S) /\ Cardinality(S) = n
  BY FS_Interval
<1>2. ASSUME NEW T \in SUBSET S, \A x \in T : T \ {x} \in Sets
      PROVE  T \in Sets
  <2>1. IsFiniteSet(T) /\ Cardinality(T) \in Nat
    BY <1>1, FS_Subset, FS_CardinalityType
  <2>2. CASE T = {}
    BY <2>2, FS_EmptySet
  <2>3. ASSUME NEW x \in T PROVE T \in Sets
    <3>1. Cardinality(T \ {x}) \in Good /\ Cardinality(T \ {x}) = Cardinality(T) - 1
      BY <1>2, <2>1, FS_RemoveElement
    <3>2. Cardinality(T \ {x}) \in Nat
      <4>1. IsFiniteSet(T \ {x})
        BY <2>1, FS_RemoveElement
      <4> QED
        BY <4>1, FS_CardinalityType
    <3> QED
      BY <3>1, <3>2, <2>1
  <2> QED
    BY <2>2, <2>3
<1>3. S \in Sets
  <2> HIDE DEF S
  <2>1. Sets \in SUBSET SUBSET S
    OBVIOUS
  <2> HIDE DEF Sets
  <2> QED
    BY <1>1, <1>2, <2>1, FiniteInduction
<1> QED
  BY <1>1, <1>3

-----------------------------------------------------------------------------
\* The order in which SumFunctionOnSet adds, and a table of the sums of all
\* subsets of S that agrees with it.
Pick(s) == CHOOSE x \in s : TRUE
IsSumTable(g, f, S) ==
    g = [s \in SUBSET S |-> IF s = {} THEN 0 ELSE f[Pick(s)] + g[s \ {Pick(s)}]]
SumTable(f, S) == CHOOSE g : IsSumTable(g, f, S)

\* f has integers on S.
IntsOn(f, S) == \A x \in S : f[x] \in Int

LEMMA SumIsTable ==
    ASSUME NEW f, NEW S
    PROVE  SumFunctionOnSet(f, S) = SumTable(f, S)[S]
  BY DEF SumFunctionOnSet, FoldFunctionOnSet, MapThenFoldSet, SumTable, IsSumTable, Pick

LEMMA PickIsMember == ASSUME NEW s, s # {} PROVE Pick(s) \in s
  BY DEF Pick

\* A table exists: it is filled by the size of the subsets.
LEMMA TableExists ==
    ASSUME NEW S, IsFiniteSet(S), NEW f, IntsOn(f, S)
    PROVE  IsSumTable(SumTable(f, S), f, S)
<1> DEFINE Entry(g, s) == IF s = {} THEN 0 ELSE f[Pick(s)] + g[s \ {Pick(s)}]
           Good == {n \in Nat : \E g \in [SUBSET S -> Int] :
                       \A s \in SUBSET S : Cardinality(s) <= n => g[s] = Entry(g, s)}
<1>0. ASSUME NEW s \in SUBSET S
      PROVE  /\ IsFiniteSet(s) /\ Cardinality(s) \in Nat /\ Cardinality(s) <= Cardinality(S)
             /\ Cardinality(s) = 0 <=> s = {}
             /\ s # {} => /\ Pick(s) \in S /\ s \ {Pick(s)} \in SUBSET S
                          /\ Cardinality(s \ {Pick(s)}) = Cardinality(s) - 1
  <2>1. IsFiniteSet(s) /\ Cardinality(s) <= Cardinality(S)
    BY FS_Subset
  <2>2. Cardinality(s) \in Nat
    BY <2>1, FS_CardinalityType
  <2>3. Cardinality(s) = 0 <=> s = {}
    BY <2>1, FS_EmptySet
  <2>4. ASSUME s # {}
        PROVE  /\ Pick(s) \in S /\ s \ {Pick(s)} \in SUBSET S
               /\ Cardinality(s \ {Pick(s)}) = Cardinality(s) - 1
    <3>1. Pick(s) \in s
      BY <2>4, PickIsMember
    <3> QED
      BY <3>1, <2>1, FS_RemoveElement
  <2> QED
    BY <2>1, <2>2, <2>3, <2>4
<1>1. 0 \in Good
  <2> DEFINE g == [s \in SUBSET S |-> 0]
  <2>1. g \in [SUBSET S -> Int]
    OBVIOUS
  <2>2. ASSUME NEW s \in SUBSET S, Cardinality(s) <= 0
        PROVE  g[s] = Entry(g, s)
    <3>1. Cardinality(s) \in Nat /\ (Cardinality(s) = 0 <=> s = {})
      BY <1>0
    <3>2. s = {}
      BY <2>2, <3>1
    <3> QED
      BY <3>2
  <2> HIDE DEF g
  <2> QED
    BY <2>1, <2>2
<1>2. ASSUME NEW n \in Nat, n \in Good
      PROVE  n + 1 \in Good
  <2>1. PICK g \in [SUBSET S -> Int] :
           \A s \in SUBSET S : Cardinality(s) <= n => g[s] = Entry(g, s)
    BY <1>2
  <2> DEFINE h == [s \in SUBSET S |-> IF Cardinality(s) <= n THEN g[s] ELSE Entry(g, s)]
  <2>2. ASSUME NEW s \in SUBSET S
        PROVE  Entry(g, s) \in Int
    <3>1. s # {} => f[Pick(s)] \in Int /\ s \ {Pick(s)} \in SUBSET S
      BY <1>0 DEF IntsOn
    <3>2. s # {} => g[s \ {Pick(s)}] \in Int
      BY <3>1
    <3> QED
      BY <3>1, <3>2
  <2>3. h \in [SUBSET S -> Int]
    BY <2>2
  <2>4. ASSUME NEW s \in SUBSET S, Cardinality(s) <= n + 1
        PROVE  h[s] = Entry(h, s)
    <3>1. CASE s = {}
      BY <1>0, <2>1, <3>1
    <3>2. CASE s # {}
      <4>1. /\ s \ {Pick(s)} \in SUBSET S
            /\ Cardinality(s \ {Pick(s)}) <= n
        BY <1>0, <2>4, <3>2
      <4>2. h[s \ {Pick(s)}] = g[s \ {Pick(s)}]
        BY <4>1
      <4>3. h[s] = Entry(g, s)
        BY <2>1
      <4> QED
        BY <3>2, <4>2, <4>3
    <3> QED
      BY <3>1, <3>2
  <2> HIDE DEF h, Entry
  <2> QED
    BY <2>3, <2>4
<1>3. Cardinality(S) \in Good
  <2> HIDE DEF Good
  <2>1. Nat \subseteq Good
    BY <1>1, <1>2, NaturalInduction
  <2> QED
    BY <2>1, FS_CardinalityType
<1>4. PICK g \in [SUBSET S -> Int] : \A s \in SUBSET S : g[s] = Entry(g, s)
  BY <1>0, <1>3
<1>5. IsSumTable(g, f, S)
  <2>1. g = [s \in SUBSET S |-> g[s]]
    OBVIOUS
  <2>2. [s \in SUBSET S |-> g[s]] = [s \in SUBSET S |-> Entry(g, s)]
    BY <1>4
  <2> QED
    BY <2>1, <2>2 DEF IsSumTable
<1> QED
  BY <1>5 DEF SumTable

\* A table over S lists the sums of the subsets of S.
LEMMA TableHolds ==
    ASSUME NEW S, IsFiniteSet(S), NEW f, IntsOn(f, S), NEW T \in SUBSET S
    PROVE  SumTable(f, S)[T] = SumFunctionOnSet(f, T)
<1> DEFINE g == SumTable(f, S)
           h == SumTable(f, T)
           Good == {U \in SUBSET T : g[U] = h[U]}
<1>1. IsFiniteSet(T) /\ IntsOn(f, T)
  BY FS_Subset DEF IntsOn
<1>2. IsSumTable(g, f, S) /\ IsSumTable(h, f, T)
  BY <1>1, TableExists
<1> HIDE DEF g, h
<1>3. ASSUME NEW U \in SUBSET T, \A x \in U : U \ {x} \in Good
      PROVE  U \in Good
  <2>1. /\ g[U] = IF U = {} THEN 0 ELSE f[Pick(U)] + g[U \ {Pick(U)}]
        /\ h[U] = IF U = {} THEN 0 ELSE f[Pick(U)] + h[U \ {Pick(U)}]
    BY <1>2 DEF IsSumTable
  <2>2. U # {} => g[U \ {Pick(U)}] = h[U \ {Pick(U)}]
    BY <1>3, PickIsMember
  <2> QED
    BY <2>1, <2>2
<1>4. T \in Good
  <2>1. Good \in SUBSET SUBSET T
    OBVIOUS
  <2> HIDE DEF Good
  <2> QED
    BY <1>1, <1>3, <2>1, FiniteInduction
<1> QED
  BY <1>4, SumIsTable DEF g, h

\* Nothing adds up to nothing.
LEMMA SumEmpty ==
    ASSUME NEW f
    PROVE  SumFunctionOnSet(f, {}) = 0
<1> DEFINE g == SumTable(f, {})
<1>1. IsSumTable(g, f, {})
  BY FS_EmptySet, TableExists DEF IntsOn
<1> HIDE DEF g
<1>2. g[{}] = 0
  BY <1>1 DEF IsSumTable
<1> QED
  BY <1>2, SumIsTable DEF g

\* The sum takes the element it picks first.
LEMMA SumPicks ==
    ASSUME NEW S, IsFiniteSet(S), NEW f, IntsOn(f, S), S # {}
    PROVE  SumFunctionOnSet(f, S) = f[Pick(S)] + SumFunctionOnSet(f, S \ {Pick(S)})
<1> DEFINE g == SumTable(f, S)
<1>1. IsSumTable(g, f, S)
  BY TableExists
<1>2. g[S] = SumFunctionOnSet(f, S)
  BY TableHolds
<1>3. g[S \ {Pick(S)}] = SumFunctionOnSet(f, S \ {Pick(S)})
  BY TableHolds
<1> HIDE DEF g
<1>4. g[S] = f[Pick(S)] + g[S \ {Pick(S)}]
  BY <1>1 DEF IsSumTable
<1> QED
  BY <1>2, <1>3, <1>4

\* A sum of integers is an integer.
LEMMA SumType ==
    ASSUME NEW S, IsFiniteSet(S), NEW f, IntsOn(f, S)
    PROVE  SumFunctionOnSet(f, S) \in Int
<1> DEFINE Good == {T \in SUBSET S : SumFunctionOnSet(f, T) \in Int}
<1>1. ASSUME NEW T \in SUBSET S, \A x \in T : T \ {x} \in Good
      PROVE  T \in Good
  <2>1. CASE T = {}
    BY <2>1, SumEmpty
  <2>2. CASE T # {}
    <3>1. IsFiniteSet(T) /\ IntsOn(f, T) /\ Pick(T) \in T
      BY <2>2, FS_Subset, PickIsMember DEF IntsOn
    <3>2. SumFunctionOnSet(f, T) = f[Pick(T)] + SumFunctionOnSet(f, T \ {Pick(T)})
      BY <2>2, <3>1, SumPicks
    <3> QED
      BY <1>1, <3>1, <3>2 DEF IntsOn
  <2> QED
    BY <2>1, <2>2
<1>2. Good \in SUBSET SUBSET S
  OBVIOUS
<1>3. S \in Good
  <2> HIDE DEF Good
  <2> QED
    BY <1>1, <1>2, FiniteInduction
<1> QED
  BY <1>3

\* The order of the additions does not matter: any element may come first.
LEMMA SumRemove ==
    ASSUME NEW S, IsFiniteSet(S), NEW f, IntsOn(f, S), NEW x \in S
    PROVE  SumFunctionOnSet(f, S) = f[x] + SumFunctionOnSet(f, S \ {x})
<1> DEFINE Sum(T) == SumFunctionOnSet(f, T)
           Good == {T \in SUBSET S : \A y \in T : Sum(T) = f[y] + Sum(T \ {y})}
<1>0. ASSUME NEW T \in SUBSET S
      PROVE  IsFiniteSet(T) /\ IntsOn(f, T) /\ Sum(T) \in Int
  <2>1. IsFiniteSet(T) /\ IntsOn(f, T)
    BY FS_Subset DEF IntsOn
  <2> QED
    BY <2>1, SumType
<1>1. ASSUME NEW T \in SUBSET S, \A y \in T : T \ {y} \in Good
      PROVE  T \in Good
  <2> SUFFICES ASSUME NEW y \in T
               PROVE  Sum(T) = f[y] + Sum(T \ {y})
    OBVIOUS
  <2> DEFINE p == Pick(T)
  <2>1. p \in T
    BY PickIsMember
  <2>2. Sum(T) = f[p] + Sum(T \ {p})
    BY <1>0, SumPicks
  <2> HIDE DEF p
  <2>3. CASE p = y
    BY <2>2, <2>3
  <2>4. CASE p # y
    <3> DEFINE rest == Sum((T \ {y}) \ {p})
    <3>1. (T \ {p}) \ {y} = (T \ {y}) \ {p}
      OBVIOUS
    <3>2. Sum(T \ {p}) = f[y] + rest
      BY <1>1, <2>1, <2>4, <3>1
    <3>3. Sum(T \ {y}) = f[p] + rest
      BY <1>1, <2>1, <2>4
    <3>4. f[p] \in Int /\ f[y] \in Int /\ rest \in Int
      BY <1>0, <2>1 DEF IntsOn
    <3> HIDE DEF rest
    <3> QED
      BY <2>2, <3>2, <3>3, <3>4
  <2> QED
    BY <2>3, <2>4
<1>2. Good \in SUBSET SUBSET S
  OBVIOUS
<1>3. S \in Good
  <2> HIDE DEF Good
  <2> QED
    BY <1>1, <1>2, FiniteInduction
<1> QED
  BY <1>3

-----------------------------------------------------------------------------
\* Sums compare as their terms do.
LEMMA SumCompares ==
    ASSUME NEW S, IsFiniteSet(S), NEW f, IntsOn(f, S), NEW g, IntsOn(g, S),
           \A x \in S : f[x] <= g[x]
    PROVE  SumFunctionOnSet(f, S) <= SumFunctionOnSet(g, S)
<1> DEFINE Good == {T \in SUBSET S : SumFunctionOnSet(f, T) <= SumFunctionOnSet(g, T)}
<1>1. ASSUME NEW T \in SUBSET S, \A x \in T : T \ {x} \in Good
      PROVE  T \in Good
  <2>1. CASE T = {}
    <3>1. SumFunctionOnSet(f, T) = 0 /\ SumFunctionOnSet(g, T) = 0
      BY <2>1, SumEmpty
    <3> QED
      BY <3>1
  <2>2. ASSUME NEW x \in T PROVE T \in Good
    <3>1. IsFiniteSet(T) /\ IntsOn(f, T) /\ IntsOn(g, T)
      BY FS_Subset DEF IntsOn
    <3>2. IsFiniteSet(T \ {x}) /\ IntsOn(f, T \ {x}) /\ IntsOn(g, T \ {x})
      BY <3>1, FS_Subset DEF IntsOn
    <3> DEFINE F == SumFunctionOnSet(f, T \ {x})
               G == SumFunctionOnSet(g, T \ {x})
    <3>3. F \in Int /\ G \in Int /\ F <= G
      BY <1>1, <3>2, SumType
    <3>4. SumFunctionOnSet(f, T) = f[x] + F /\ SumFunctionOnSet(g, T) = g[x] + G
      BY <3>1, SumRemove
    <3>5. f[x] \in Int /\ g[x] \in Int /\ f[x] <= g[x]
      BY DEF IntsOn
    <3> HIDE DEF F, G
    <3>6. SumFunctionOnSet(f, T) <= SumFunctionOnSet(g, T)
      BY <3>3, <3>4, <3>5
    <3> QED
      BY <3>6
  <2> QED
    BY <2>1, <2>2
<1>2. Good \in SUBSET SUBSET S
  OBVIOUS
<1>3. S \in Good
  <2> HIDE DEF Good
  <2> QED
    BY <1>1, <1>2, FiniteInduction
<1> QED
  BY <1>3

\* Equal terms, equal sums.
LEMMA SumEqual ==
    ASSUME NEW S, IsFiniteSet(S), NEW f, IntsOn(f, S), NEW g, \A x \in S : f[x] = g[x]
    PROVE  SumFunctionOnSet(f, S) = SumFunctionOnSet(g, S)
<1>1. IntsOn(g, S)
  BY DEF IntsOn
<1>2. /\ SumFunctionOnSet(f, S) <= SumFunctionOnSet(g, S)
      /\ SumFunctionOnSet(g, S) <= SumFunctionOnSet(f, S)
  BY <1>1, SumCompares DEF IntsOn
<1> QED
  BY <1>1, <1>2, SumType

\* A sum of numbers that are not negative is not negative.
LEMMA SumNonNegative ==
    ASSUME NEW S, IsFiniteSet(S), NEW f, \A x \in S : f[x] \in Nat
    PROVE  SumFunctionOnSet(f, S) \in Nat
<1> DEFINE Good == {T \in SUBSET S : SumFunctionOnSet(f, T) \in Nat}
<1>1. ASSUME NEW T \in SUBSET S, \A x \in T : T \ {x} \in Good
      PROVE  T \in Good
  <2>1. CASE T = {}
    BY <2>1, SumEmpty
  <2>2. ASSUME NEW x \in T PROVE T \in Good
    <3>1. IsFiniteSet(T) /\ IntsOn(f, T)
      BY FS_Subset DEF IntsOn
    <3>2. SumFunctionOnSet(f, T) = f[x] + SumFunctionOnSet(f, T \ {x})
      BY <3>1, SumRemove
    <3>3. SumFunctionOnSet(f, T \ {x}) \in Nat /\ f[x] \in Nat
      BY <1>1
    <3>4. SumFunctionOnSet(f, T) \in Nat
      BY <3>2, <3>3
    <3> QED
      BY <3>4
  <2> QED
    BY <2>1, <2>2
<1>2. Good \in SUBSET SUBSET S
  OBVIOUS
<1>3. S \in Good
  <2> HIDE DEF Good
  <2> QED
    BY <1>1, <1>2, FiniteInduction
<1> QED
  BY <1>3

\* A part of a sum of numbers that are not negative is at most the whole.
LEMMA SumOfPart ==
    ASSUME NEW S, IsFiniteSet(S), NEW f, \A x \in S : f[x] \in Nat, NEW P \in SUBSET S
    PROVE  SumFunctionOnSet(f, P) <= SumFunctionOnSet(f, S)
<1> DEFINE Good == {T \in SUBSET S : \A U \in SUBSET T :
                       SumFunctionOnSet(f, U) <= SumFunctionOnSet(f, T)}
<1>1. ASSUME NEW T \in SUBSET S, \A x \in T : T \ {x} \in Good
      PROVE  T \in Good
  <2> SUFFICES ASSUME NEW U \in SUBSET T
               PROVE  SumFunctionOnSet(f, U) <= SumFunctionOnSet(f, T)
    OBVIOUS
  <2>1. /\ IsFiniteSet(T) /\ IntsOn(f, T) /\ SumFunctionOnSet(f, T) \in Nat
        /\ IsFiniteSet(U) /\ SumFunctionOnSet(f, U) \in Nat
    BY FS_Subset, SumNonNegative DEF IntsOn
  <2>2. CASE U = T
    BY <2>1, <2>2
  <2>3. ASSUME NEW x \in T, x \notin U
        PROVE  SumFunctionOnSet(f, U) <= SumFunctionOnSet(f, T)
    <3>1. SumFunctionOnSet(f, T) = f[x] + SumFunctionOnSet(f, T \ {x})
      BY <2>1, SumRemove
    <3>2. f[x] \in Nat /\ U \in SUBSET (T \ {x})
      BY <2>3
    <3>3. SumFunctionOnSet(f, U) <= SumFunctionOnSet(f, T \ {x})
      BY <1>1, <3>2
    <3>4. IsFiniteSet(T \ {x})
      BY <2>1, FS_Subset
    <3>5. SumFunctionOnSet(f, T \ {x}) \in Nat
      BY <3>4, SumNonNegative
    <3> QED
      BY <2>1, <3>1, <3>2, <3>3, <3>5
  <2> QED
    BY <2>2, <2>3
<1>2. Good \in SUBSET SUBSET S
  OBVIOUS
<1>3. S \in Good
  <2> HIDE DEF Good
  <2> QED
    BY <1>1, <1>2, FiniteInduction
<1> QED
  BY <1>3

\* Sums add term by term.
LEMMA SumAdds ==
    ASSUME NEW S, IsFiniteSet(S), NEW f, IntsOn(f, S), NEW g, IntsOn(g, S),
           NEW h, \A x \in S : h[x] = f[x] + g[x]
    PROVE  SumFunctionOnSet(h, S) = SumFunctionOnSet(f, S) + SumFunctionOnSet(g, S)
<1> DEFINE Adds(T) == SumFunctionOnSet(h, T) = SumFunctionOnSet(f, T) + SumFunctionOnSet(g, T)
           Good == {T \in SUBSET S : Adds(T)}
<1>0. IntsOn(h, S)
  BY DEF IntsOn
<1>1. ASSUME NEW T \in SUBSET S, \A x \in T : T \ {x} \in Good
      PROVE  Adds(T)
  <2>1. CASE T = {}
    <3>1. /\ SumFunctionOnSet(h, T) = 0 /\ SumFunctionOnSet(f, T) = 0
          /\ SumFunctionOnSet(g, T) = 0
      BY <2>1, SumEmpty
    <3> QED
      BY <3>1
  <2>2. ASSUME NEW x \in T PROVE Adds(T)
    <3>1. IsFiniteSet(T) /\ IntsOn(f, T) /\ IntsOn(g, T) /\ IntsOn(h, T)
      BY <1>0, FS_Subset DEF IntsOn
    <3>2. IsFiniteSet(T \ {x}) /\ IntsOn(f, T \ {x}) /\ IntsOn(g, T \ {x})
      BY <3>1, FS_Subset DEF IntsOn
    <3> DEFINE F == SumFunctionOnSet(f, T \ {x})
               G == SumFunctionOnSet(g, T \ {x})
               H == SumFunctionOnSet(h, T \ {x})
    <3>3. F \in Int /\ G \in Int /\ H = F + G
      BY <1>1, <3>2, SumType
    <3>4. /\ SumFunctionOnSet(f, T) = f[x] + F /\ SumFunctionOnSet(g, T) = g[x] + G
          /\ SumFunctionOnSet(h, T) = h[x] + H
      BY <3>1, SumRemove
    <3>5. f[x] \in Int /\ g[x] \in Int /\ h[x] = f[x] + g[x]
      BY DEF IntsOn
    <3> HIDE DEF F, G, H
    <3> QED
      BY <3>3, <3>4, <3>5
  <2> QED
    BY <2>1, <2>2
<1>2. Good \in SUBSET SUBSET S /\ \A T \in SUBSET S : Adds(T) <=> T \in Good
  OBVIOUS
<1>3. S \in Good
  <2> HIDE DEF Good, Adds
  <2> QED
    BY <1>1, <1>2, FiniteInduction
<1> QED
  BY <1>3

\* A common factor comes out of a sum.
LEMMA SumTimes ==
    ASSUME NEW S, IsFiniteSet(S), NEW f, IntsOn(f, S), NEW c \in Int,
           NEW h, \A x \in S : h[x] = c * f[x]
    PROVE  SumFunctionOnSet(h, S) = c * SumFunctionOnSet(f, S)
<1> DEFINE Scales(T) == SumFunctionOnSet(h, T) = c * SumFunctionOnSet(f, T)
           Good == {T \in SUBSET S : Scales(T)}
<1>0. IntsOn(h, S)
  BY DEF IntsOn
<1>1. ASSUME NEW T \in SUBSET S, \A x \in T : T \ {x} \in Good
      PROVE  Scales(T)
  <2>1. CASE T = {}
    <3>1. SumFunctionOnSet(h, T) = 0 /\ SumFunctionOnSet(f, T) = 0
      BY <2>1, SumEmpty
    <3> QED
      BY <3>1
  <2>2. ASSUME NEW x \in T PROVE Scales(T)
    <3>1. IsFiniteSet(T) /\ IntsOn(f, T) /\ IntsOn(h, T)
      BY <1>0, FS_Subset DEF IntsOn
    <3>2. IsFiniteSet(T \ {x}) /\ IntsOn(f, T \ {x})
      BY <3>1, FS_Subset DEF IntsOn
    <3> DEFINE F == SumFunctionOnSet(f, T \ {x})
               H == SumFunctionOnSet(h, T \ {x})
    <3>3. F \in Int /\ H = c * F
      BY <1>1, <3>2, SumType
    <3>4. SumFunctionOnSet(f, T) = f[x] + F /\ SumFunctionOnSet(h, T) = h[x] + H
      BY <3>1, SumRemove
    <3>5. f[x] \in Int /\ h[x] = c * f[x]
      BY DEF IntsOn
    <3> HIDE DEF F, H
    <3>6. c * (f[x] + F) = c * f[x] + c * F
      BY <3>3, <3>5
    <3> QED
      BY <3>3, <3>4, <3>5, <3>6
  <2> QED
    BY <2>1, <2>2
<1>2. Good \in SUBSET SUBSET S /\ \A T \in SUBSET S : Scales(T) <=> T \in Good
  OBVIOUS
<1>3. S \in Good
  <2> HIDE DEF Good, Scales
  <2> QED
    BY <1>1, <1>2, FiniteInduction
<1> QED
  BY <1>3

\* A sum of zeros.
LEMMA SumOfZeros ==
    ASSUME NEW S, IsFiniteSet(S), NEW f, \A x \in S : f[x] = 0
    PROVE  SumFunctionOnSet(f, S) = 0
<1>1. IntsOn(f, S)
  BY DEF IntsOn
<1>2. \A x \in S : f[x] = 0 * f[x]
  OBVIOUS
<1>3. SumFunctionOnSet(f, S) = 0 * SumFunctionOnSet(f, S)
  BY <1>1, <1>2, SumTimes
<1>4. SumFunctionOnSet(f, S) \in Int
  BY <1>1, SumType
<1> QED
  BY <1>3, <1>4

\* A sum is that of a part and that of the rest.
LEMMA SumSplits ==
    ASSUME NEW S, IsFiniteSet(S), NEW f, IntsOn(f, S), NEW P \in SUBSET S
    PROVE  SumFunctionOnSet(f, S) = SumFunctionOnSet(f, P) + SumFunctionOnSet(f, S \ P)
<1> DEFINE Sum(T) == SumFunctionOnSet(f, T)
           Splits(T) == Sum(T) = Sum(T \cap P) + Sum(T \ P)
           Good == {T \in SUBSET S : Splits(T)}
<1>0. ASSUME NEW T \in SUBSET S PROVE IsFiniteSet(T) /\ IntsOn(f, T) /\ Sum(T) \in Int
  <2>1. IsFiniteSet(T) /\ IntsOn(f, T)
    BY FS_Subset DEF IntsOn
  <2> QED
    BY <2>1, SumType
<1>1. ASSUME NEW T \in SUBSET S, \A x \in T : T \ {x} \in Good
      PROVE  Splits(T)
  <2>1. CASE T = {}
    <3>1. T \cap P = {} /\ T \ P = {}
      BY <2>1
    <3> QED
      BY <2>1, <3>1, SumEmpty
  <2>2. ASSUME NEW x \in T PROVE Splits(T)
    <3> DEFINE U == T \ {x}
    <3>1. /\ U \in SUBSET S /\ T \cap P \in SUBSET S /\ T \ P \in SUBSET S
          /\ U \cap P \in SUBSET S /\ U \ P \in SUBSET S /\ f[x] \in Int
      BY DEF IntsOn
    <3>2. Sum(U) = Sum(U \cap P) + Sum(U \ P)
      BY <1>1
    <3>3. Sum(T) = f[x] + Sum(U)
      BY <1>0, SumRemove
    <3>4. Sum(U \cap P) \in Int /\ Sum(U \ P) \in Int /\ Sum(U) \in Int
      BY <1>0, <3>1
    <3>5. CASE x \in P
      <4>1. (T \cap P) \ {x} = U \cap P /\ T \ P = U \ P /\ x \in T \cap P
        BY <3>5
      <4>2. Sum(T \cap P) = f[x] + Sum(U \cap P)
        BY <1>0, <3>1, <4>1, SumRemove
      <4>3. Sum(T \ P) = Sum(U \ P) /\ f[x] \in Int
        BY <3>1, <4>1
      <4> HIDE DEF Sum, U
      <4> QED
        BY <3>2, <3>3, <3>4, <4>2, <4>3
    <3>6. CASE x \notin P
      <4>1. (T \ P) \ {x} = U \ P /\ T \cap P = U \cap P /\ x \in T \ P
        BY <3>6
      <4>2. Sum(T \ P) = f[x] + Sum(U \ P)
        BY <1>0, <3>1, <4>1, SumRemove
      <4>3. Sum(T \cap P) = Sum(U \cap P) /\ f[x] \in Int
        BY <3>1, <4>1
      <4> HIDE DEF Sum, U
      <4> QED
        BY <3>2, <3>3, <3>4, <4>2, <4>3
    <3> QED
      BY <3>5, <3>6
  <2> QED
    BY <2>1, <2>2
<1>2. Good \in SUBSET SUBSET S /\ \A T \in SUBSET S : Splits(T) <=> T \in Good
  OBVIOUS
<1>3. S \in Good
  <2> HIDE DEF Good, Splits
  <2> QED
    BY <1>1, <1>2, FiniteInduction
<1>4. S \cap P = P
  OBVIOUS
<1> QED
  BY <1>3, <1>4

\* What counts for nothing may be left out.
LEMMA SumOfSupport ==
    ASSUME NEW S, IsFiniteSet(S), NEW f, IntsOn(f, S), NEW P \in SUBSET S, \A x \in S \ P : f[x] = 0
    PROVE  SumFunctionOnSet(f, S) = SumFunctionOnSet(f, P)
<1>1. IsFiniteSet(S \ P) /\ IsFiniteSet(P) /\ IntsOn(f, P)
  BY FS_Subset DEF IntsOn
<1>2. SumFunctionOnSet(f, S \ P) = 0 /\ SumFunctionOnSet(f, P) \in Int
  BY <1>1, SumOfZeros, SumType
<1>3. SumFunctionOnSet(f, S) = SumFunctionOnSet(f, P) + SumFunctionOnSet(f, S \ P)
  BY SumSplits
<1> QED
  BY <1>2, <1>3

\* A sum may be taken class by class.
ClassOf(S, class, d) == {x \in S : class[x] = d}

LEMMA SumByClass ==
    ASSUME NEW S, IsFiniteSet(S), NEW f, IntsOn(f, S),
           NEW D, IsFiniteSet(D), NEW class, \A x \in S : class[x] \in D,
           NEW h, \A d \in D : h[d] = SumFunctionOnSet(f, ClassOf(S, class, d))
    PROVE  SumFunctionOnSet(h, D) = SumFunctionOnSet(f, S)
<1> DEFINE Of(E) == {x \in S : class[x] \in E}
           Agrees(E) == SumFunctionOnSet(h, E) = SumFunctionOnSet(f, Of(E))
           Good == {E \in SUBSET D : Agrees(E)}
<1>0. ASSUME NEW T \in SUBSET S
      PROVE  IsFiniteSet(T) /\ IntsOn(f, T) /\ SumFunctionOnSet(f, T) \in Int
  <2>1. IsFiniteSet(T) /\ IntsOn(f, T)
    BY FS_Subset DEF IntsOn
  <2> QED
    BY <2>1, SumType
<1>1. IntsOn(h, D)
  <2> SUFFICES ASSUME NEW d \in D PROVE h[d] \in Int
    BY DEF IntsOn
  <2>1. ClassOf(S, class, d) \in SUBSET S
    BY DEF ClassOf
  <2> QED
    BY <1>0, <2>1
<1>2. ASSUME NEW E \in SUBSET D, \A d \in E : E \ {d} \in Good
      PROVE  Agrees(E)
  <2>1. CASE E = {}
    <3>1. Of(E) = {}
      BY <2>1
    <3> QED
      BY <2>1, <3>1, SumEmpty
  <2>2. ASSUME NEW d \in E PROVE Agrees(E)
    <3> DEFINE F == E \ {d}
               one == ClassOf(S, class, d)
    <3>1. /\ Of(E) \in SUBSET S /\ Of(F) \in SUBSET S /\ one \in SUBSET Of(E) /\ Of(E) \ one = Of(F)
          /\ one \in SUBSET S
      BY DEF ClassOf
    <3>2. SumFunctionOnSet(h, F) = SumFunctionOnSet(f, Of(F))
      BY <1>2
    <3>3. IsFiniteSet(E) /\ IntsOn(h, E)
      BY <1>1, FS_Subset DEF IntsOn
    <3>4. SumFunctionOnSet(h, E) = h[d] + SumFunctionOnSet(h, F)
      BY <3>3, SumRemove
    <3>5. h[d] = SumFunctionOnSet(f, one)
      OBVIOUS
    <3> HIDE DEF Of, F, one
    <3>6. SumFunctionOnSet(f, Of(E)) = SumFunctionOnSet(f, one) + SumFunctionOnSet(f, Of(F))
      <4>1. IsFiniteSet(Of(E)) /\ IntsOn(f, Of(E))
        BY <1>0, <3>1
      <4> QED
        BY <3>1, <4>1, SumSplits
    <3> QED
      BY <3>2, <3>4, <3>5, <3>6
  <2> QED
    BY <2>1, <2>2
<1>3. Good \in SUBSET SUBSET D /\ \A E \in SUBSET D : Agrees(E) <=> E \in Good
  OBVIOUS
<1>4. D \in Good
  <2> HIDE DEF Good, Agrees
  <2> QED
    BY <1>2, <1>3, FiniteInduction
<1>5. Of(D) = S
  OBVIOUS
<1> QED
  BY <1>4, <1>5

\* A sum of ones counts them.
LEMMA SumOfOnes ==
    ASSUME NEW S, IsFiniteSet(S), NEW f, \A x \in S : f[x] = 1
    PROVE  SumFunctionOnSet(f, S) = Cardinality(S)
<1> DEFINE Good == {T \in SUBSET S : SumFunctionOnSet(f, T) = Cardinality(T)}
<1>1. ASSUME NEW T \in SUBSET S, \A x \in T : T \ {x} \in Good
      PROVE  T \in Good
  <2>1. CASE T = {}
    BY <2>1, SumEmpty, FS_EmptySet
  <2>2. ASSUME NEW x \in T PROVE T \in Good
    <3>1. IsFiniteSet(T) /\ IntsOn(f, T) /\ f[x] = 1
      BY FS_Subset DEF IntsOn
    <3>2. SumFunctionOnSet(f, T) = f[x] + SumFunctionOnSet(f, T \ {x})
      BY <3>1, SumRemove
    <3>3. Cardinality(T) \in Nat /\ Cardinality(T \ {x}) = Cardinality(T) - 1
      BY <3>1, FS_CardinalityType, FS_RemoveElement
    <3>4. SumFunctionOnSet(f, T \ {x}) = Cardinality(T \ {x})
      BY <1>1
    <3>5. SumFunctionOnSet(f, T) = Cardinality(T)
      BY <3>1, <3>2, <3>3, <3>4
    <3> QED
      BY <3>5
  <2> QED
    BY <2>1, <2>2
<1>2. Good \in SUBSET SUBSET S
  OBVIOUS
<1>3. S \in Good
  <2> HIDE DEF Good
  <2> QED
    BY <1>1, <1>2, FiniteInduction
<1> QED
  BY <1>3

\* Members are counted class by class.
LEMMA CountByClass ==
    ASSUME NEW S, IsFiniteSet(S), NEW D, IsFiniteSet(D), NEW class, \A x \in S : class[x] \in D,
           NEW h, \A d \in D : h[d] = Cardinality(ClassOf(S, class, d))
    PROVE  SumFunctionOnSet(h, D) = Cardinality(S)
<1> DEFINE one == [x \in S |-> 1]
<1>1. IntsOn(one, S) /\ \A x \in S : one[x] = 1
  BY DEF IntsOn
<1> HIDE DEF one
<1>2. SumFunctionOnSet(one, S) = Cardinality(S)
  BY <1>1, SumOfOnes
<1>3. ASSUME NEW d \in D PROVE h[d] = SumFunctionOnSet(one, ClassOf(S, class, d))
  <2> DEFINE C == ClassOf(S, class, d)
  <2>1. C \subseteq S  BY DEF ClassOf
  <2> HIDE DEF C
  <2>2. IsFiniteSet(C) /\ \A x \in C : one[x] = 1  BY <1>1, <2>1, FS_Subset
  <2>3. SumFunctionOnSet(one, C) = Cardinality(C)  BY <2>2, SumOfOnes
  <2> QED  BY <2>3 DEF C
<1>4. SumFunctionOnSet(h, D) = SumFunctionOnSet(one, S)
  BY <1>1, <1>3, SumByClass
<1> QED  BY <1>2, <1>4

\* e gives every index of g another name, under which f has the same number.
Renames(e, f, g) ==
    IsInjective(e) /\ IntsOn(g, DOMAIN e) /\ \A x \in DOMAIN e : g[x] = f[e[x]]

\* Renaming the indices does not change a sum.
LEMMA SumRenamed ==
    ASSUME NEW e, IsFiniteSet(DOMAIN e), NEW f, NEW g, Renames(e, f, g)
    PROVE  SumFunctionOnSet(f, Range(e)) = SumFunctionOnSet(g, DOMAIN e)
<1> DEFINE S == DOMAIN e
<1>0. /\ \A x, y \in S : e[x] = e[y] => x = y
      /\ IntsOn(g, S) /\ \A x \in S : g[x] = f[e[x]]
  BY DEF Renames, IsInjective
<1> DEFINE Image(T) == {e[x] : x \in T}
           Same(T) == IsFiniteSet(Image(T)) /\ SumFunctionOnSet(f, Image(T)) = SumFunctionOnSet(g, T)
           Good == {T \in SUBSET S : Same(T)}
<1>1. ASSUME NEW T \in SUBSET S, \A x \in T : T \ {x} \in Good
      PROVE  Same(T)
  <2>1. CASE T = {}
    <3>1. Image(T) = {}
      BY <2>1
    <3> HIDE DEF Image
    <3> QED
      BY <2>1, <3>1, SumEmpty, FS_EmptySet
  <2>2. ASSUME NEW x \in T PROVE Same(T)
    <3>1. IsFiniteSet(T) /\ IntsOn(g, T) /\ IntsOn(f, Image(T))
      BY <1>0, FS_Subset DEF IntsOn
    <3>2. e[x] \in Image(T) /\ Image(T) \ {e[x]} = Image(T \ {x})
      BY <1>0
    <3>3. IsFiniteSet(Image(T \ {x}) \cup {e[x]})
      <4>1. IsFiniteSet(Image(T \ {x}))
        BY <1>1
      <4> HIDE DEF Image
      <4> QED
        BY <4>1, FS_AddElement
    <3>4. IsFiniteSet(Image(T))
      <4>1. Image(T) = Image(T \ {x}) \cup {e[x]}
        OBVIOUS
      <4> HIDE DEF Image
      <4> QED
        BY <3>3, <4>1
    <3>5. SumFunctionOnSet(f, Image(T \ {x})) = SumFunctionOnSet(g, T \ {x})
      BY <1>1
    <3> HIDE DEF Image
    <3>6. SumFunctionOnSet(f, Image(T)) = f[e[x]] + SumFunctionOnSet(f, Image(T) \ {e[x]})
      BY <3>1, <3>2, <3>4, SumRemove
    <3>7. SumFunctionOnSet(g, T) = g[x] + SumFunctionOnSet(g, T \ {x})
      BY <3>1, SumRemove
    <3>8. g[x] = f[e[x]]
      BY <1>0
    <3> QED
      BY <3>2, <3>4, <3>5, <3>6, <3>7, <3>8
  <2> QED
    BY <2>1, <2>2
<1>2. Good \in SUBSET SUBSET S /\ \A T \in SUBSET S : Same(T) <=> T \in Good
  OBVIOUS
<1>3. S \in Good
  <2> HIDE DEF Good, Same
  <2> QED
    BY <1>1, <1>2, FiniteInduction
<1> QED
  BY <1>3 DEF Range

\* The sum of a vector is the sum of all but its last element, and that element.
LEMMA SumOfVector ==
    ASSUME NEW n \in Nat \ {0}, NEW f, IntsOn(f, 1..n)
    PROVE  /\ SumFunctionOnSet(f, 1..n) = f[n] + SumFunctionOnSet(f, 1..(n - 1))
           /\ SumFunctionOnSet(f, 1..n) \in Int /\ SumFunctionOnSet(f, 1..(n - 1)) \in Int
<1>1. (1..n) \ {n} = 1..(n - 1) /\ n \in 1..n
  OBVIOUS
<1>2. IsFiniteSet(1..n) /\ IsFiniteSet(1..(n - 1)) /\ IntsOn(f, 1..(n - 1))
  BY FS_Interval DEF IntsOn
<1>3. SumFunctionOnSet(f, 1..n) = f[n] + SumFunctionOnSet(f, (1..n) \ {n})
  BY <1>1, <1>2, SumRemove
<1> QED
  BY <1>1, <1>2, <1>3, SumType

\* A sequence without its first elements sums to no more than the whole.
LEMMA SumOfSuffix ==
    ASSUME NEW n \in Nat, NEW f, \A i \in 1..n : f[i] \in Nat, NEW m \in 1..(n + 1),
           NEW g, \A i \in 1..(n - m + 1) : g[i] = f[i + m - 1]
    PROVE  SumFunctionOnSet(g, 1..(n - m + 1)) <= SumFunctionOnSet(f, 1..n)
<1> DEFINE D == 1..(n - m + 1)
           e == [i \in D |-> i + m - 1]
<1>1. n - m + 1 \in Nat
  OBVIOUS
<1>2. IsFiniteSet(D) /\ IsFiniteSet(1..n)
  BY <1>1, CountedSetIsFinite
<1>3. \A i \in D : e[i] \in 1..n /\ g[i] = f[e[i]] /\ g[i] \in Int
  OBVIOUS
<1>4. \A i, j \in D : e[i] = e[j] => i = j
  OBVIOUS
<1>5. DOMAIN e = D
  OBVIOUS
<1> HIDE DEF e, D
<1>6. Renames(e, f, g) /\ Range(e) \subseteq 1..n
  BY <1>3, <1>4, <1>5 DEF Renames, IsInjective, IntsOn, Range
<1>7. SumFunctionOnSet(f, Range(e)) = SumFunctionOnSet(g, D)
  BY <1>2, <1>5, <1>6, SumRenamed
<1>8. SumFunctionOnSet(f, Range(e)) <= SumFunctionOnSet(f, 1..n)
  BY <1>2, <1>6, SumOfPart
<1> QED
  BY <1>7, <1>8 DEF D

-----------------------------------------------------------------------------
\* A set of natural numbers has a least one.
LEMMA LeastNumber ==
    ASSUME NEW S \in SUBSET Nat, S # {}
    PROVE  \E m \in S : \A x \in S : m <= x
<1> SUFFICES ASSUME \A m \in S : \E x \in S : x < m PROVE FALSE
  OBVIOUS
<1> DEFINE Good == {n \in Nat : \A m \in S : m > n}
<1>1. 0 \in Good
  OBVIOUS
<1>2. ASSUME NEW n \in Nat, n \in Good PROVE n + 1 \in Good
  <2>1. ASSUME NEW m \in S, ~(m > n + 1) PROVE FALSE
    <3>1. PICK x \in S : x < m
      BY <2>1
    <3> QED
      BY <1>2, <2>1, <3>1
  <2> QED
    BY <2>1
<1>3. Nat \subseteq Good
  <2> HIDE DEF Good
  <2> QED
    BY <1>1, <1>2, NaturalInduction
<1>4. PICK m \in S : TRUE
  OBVIOUS
<1> QED
  BY <1>3, <1>4

\* A number is a quotient and a remainder in one way only.
LEMMA Quotient ==
    ASSUME NEW n \in Nat \ {0}, NEW x \in Int
    PROVE  x \div n \in Int /\ x % n \in 0..(n - 1) /\ x = (x \div n) * n + (x % n)
  OBVIOUS

LEMMA OneQuotient ==
    ASSUME NEW n \in Nat \ {0}, NEW q \in Int, NEW r \in 0..(n - 1)
    PROVE  (q * n + r) \div n = q /\ (q * n + r) % n = r
<1> DEFINE x == q * n + r
           p == x \div n
           s == x % n
<1>1. x \in Int /\ p \in Int /\ s \in 0..(n - 1) /\ x = p * n + s
  BY Quotient
<1>2. (p - q) * n = r - s
  BY <1>1
<1>3. r - s < n /\ r - s > - n
  BY <1>1
<1> HIDE DEF x, p, s
<1>4. p - q \in Int  BY <1>1
<1>5. CASE p - q >= 1
  <2>1. (p - q) * n >= n  BY <1>4, <1>5
  <2> QED  BY <1>1, <1>2, <1>3, <2>1
<1>6. CASE p - q <= -1
  <2>1. (p - q) * n <= - n  BY <1>4, <1>6
  <2> QED  BY <1>1, <1>2, <1>3, <2>1
<1>7. CASE p = q
  BY <1>1, <1>2, <1>7 DEF x, p, s
<1> QED  BY <1>1, <1>4, <1>5, <1>6, <1>7

LEMMA Distributes ==
    ASSUME NEW a \in Int, NEW b \in Int, NEW n \in Int
    PROVE  /\ a * n \in Int /\ (a + b) * n = a * n + b * n /\ (a - b) * n = a * n - b * n
           /\ (a + 1) * n = a * n + n
  OBVIOUS

\* Quotients are ordered as the numbers are.
LEMMA QuotientOrder ==
    ASSUME NEW n \in Nat \ {0}, NEW x \in Int, NEW y \in Int
    PROVE  /\ x <= y => x \div n <= y \div n
           /\ x \div n < y \div n => x < y
<1> DEFINE p == x \div n
           q == y \div n
<1>1. /\ p \in Int /\ x % n \in 0..(n - 1) /\ x = p * n + (x % n)
      /\ q \in Int /\ y % n \in 0..(n - 1) /\ y = q * n + (y % n)
  BY Quotient
<1>2. ASSUME p < q PROVE x < y
  <2> HIDE DEF p, q
  <2>1. q - p \in Int /\ q - p >= 1  BY <1>1, <1>2
  <2>2. (q - p) * n >= n  BY <2>1
  <2>3. q * n - p * n >= n  BY <1>1, <2>2
  <2>4. p * n \in Int /\ q * n \in Int  BY <1>1
  <2> QED  BY <1>1, <2>3, <2>4
<1>3. x <= y => p <= q
  BY <1>1, <1>2
<1> QED  BY <1>2, <1>3

-----------------------------------------------------------------------------
(***************************************************************************)
(* Lists in order.  The number of members before one of them is its place, *)
(* places are all different and less than the number of members, so every  *)
(* place is taken: a list holds each member once, in the order.            *)
(***************************************************************************)

StrictOrder(S, order) ==
    /\ \A x \in S : <<x, x>> \notin order
    /\ \A x, y \in S : x # y => <<x, y>> \in order \/ <<y, x>> \in order
    /\ \A x, y, z \in S : <<x, y>> \in order /\ <<y, z>> \in order => <<x, z>> \in order

Preceding(S, order, x) == {y \in S : <<y, x>> \in order}
Place(S, order, x) == Cardinality(Preceding(S, order, x))

LEMMA PlacesFollowTheOrder ==
    ASSUME NEW S, IsFiniteSet(S), NEW order, StrictOrder(S, order)
    PROVE  /\ Cardinality(S) \in Nat
           /\ \A x \in S : Place(S, order, x) \in 0..(Cardinality(S) - 1)
           /\ \A x, y \in S : <<x, y>> \in order => Place(S, order, x) < Place(S, order, y)
           /\ \A x, y \in S : Place(S, order, x) = Place(S, order, y) => x = y
<1> DEFINE n == Cardinality(S)
           B(x) == Preceding(S, order, x)
<1>1. n \in Nat  BY FS_CardinalityType
<1>2. \A x \in S : IsFiniteSet(B(x)) /\ Cardinality(B(x)) \in Nat
  <2> SUFFICES ASSUME NEW x \in S PROVE IsFiniteSet(B(x)) /\ Cardinality(B(x)) \in Nat  OBVIOUS
  <2>1. B(x) \subseteq S  BY DEF Preceding
  <2> QED  BY <2>1, FS_Subset, FS_CardinalityType
<1>3. \A x \in S : Cardinality(B(x)) <= n - 1
  <2> SUFFICES ASSUME NEW x \in S PROVE Cardinality(B(x)) <= n - 1  OBVIOUS
  <2>1. B(x) \subseteq S \ {x}  BY DEF Preceding, StrictOrder
  <2>2. IsFiniteSet(S \ {x}) /\ Cardinality(S \ {x}) = n - 1  BY FS_RemoveElement
  <2> QED  BY <2>1, <2>2, FS_Subset
<1>4. \A x, y \in S : <<x, y>> \in order => Cardinality(B(x)) < Cardinality(B(y))
  <2> SUFFICES ASSUME NEW x \in S, NEW y \in S, <<x, y>> \in order
               PROVE  Cardinality(B(x)) < Cardinality(B(y))
    OBVIOUS
  <2>1. B(x) \subseteq B(y) /\ x \in B(y) /\ x \notin B(x)  BY DEF Preceding, StrictOrder
  <2>2. Cardinality(B(x)) <= Cardinality(B(y)) /\ Cardinality(B(x)) # Cardinality(B(y))
    BY <1>2, <2>1, FS_Subset
  <2> QED  BY <1>2, <2>2
<1>5. \A x, y \in S : Cardinality(B(x)) = Cardinality(B(y)) => x = y
  <2> SUFFICES ASSUME NEW x \in S, NEW y \in S, Cardinality(B(x)) = Cardinality(B(y)), x # y
               PROVE  FALSE
    OBVIOUS
  <2>1. <<x, y>> \in order \/ <<y, x>> \in order  BY DEF StrictOrder
  <2> QED  BY <1>2, <1>4, <2>1
<1>6. \A x \in S : Place(S, order, x) = Cardinality(B(x))  BY DEF Place
<1> HIDE DEF B, n
<1>7. \A x \in S : Cardinality(B(x)) \in 0..(n - 1)  BY <1>1, <1>2, <1>3
<1>8. /\ \A x, y \in S : <<x, y>> \in order => Place(S, order, x) < Place(S, order, y)
      /\ \A x, y \in S : Place(S, order, x) = Place(S, order, y) => x = y
      /\ \A x \in S : Place(S, order, x) \in 0..(n - 1)
  BY <1>4, <1>5, <1>6, <1>7
<1> QED  BY <1>1, <1>8 DEF n

LEMMA EveryPlaceIsTaken ==
    ASSUME NEW S, IsFiniteSet(S), NEW order, StrictOrder(S, order), NEW k \in 1..Cardinality(S)
    PROVE  \E x \in S : Place(S, order, x) = k - 1
<1> DEFINE n == Cardinality(S)
           place == [x \in S |-> Place(S, order, x)]
           R == {place[x] : x \in S}
<1>1. /\ n \in Nat /\ \A x \in S : place[x] \in 0..(n - 1)
      /\ \A x, y \in S : place[x] = place[y] => x = y
  BY PlacesFollowTheOrder
<1> HIDE DEF place, n
<1>2. place \in Bijection(S, R)
  <2>1. DOMAIN place = S /\ place = [x \in S |-> place[x]]  BY DEF place
  <2>2. place \in [S -> R]  BY <2>1
  <2> QED  BY <1>1, <2>2 DEF Bijection, Injection, Surjection, IsInjective
<1>3. Cardinality(R) = n
  <2>1. ExistsBijection(S, R)  BY <1>2 DEF ExistsBijection
  <2> QED  BY <2>1, FS_Bijection DEF n
<1>4. IsFiniteSet(0..(n - 1)) /\ Cardinality(0..(n - 1)) = n
  <2>1. 0 \in Int /\ n - 1 \in Int  BY <1>1
  <2> QED  BY <1>1, <2>1, FS_Interval
<1>5. R \subseteq 0..(n - 1)  BY <1>1
<1>6. R = 0..(n - 1)  BY <1>3, <1>4, <1>5, FS_Subset
<1>7. k - 1 \in 0..(n - 1)  BY <1>1 DEF n
<1>8. PICK x \in S : place[x] = k - 1  BY <1>6, <1>7
<1> QED  BY <1>8 DEF place

LEMMA ListingIsExact ==
    ASSUME NEW S, IsFiniteSet(S), NEW order, StrictOrder(S, order)
    PROVE  LET at == Listing(S, order)
           IN  /\ Cardinality(S) \in Nat /\ DOMAIN at = 1..Cardinality(S)
               /\ at \in Seq(S) /\ Len(at) = Cardinality(S)
               /\ \A k \in DOMAIN at : at[k] \in S /\ Place(S, order, at[k]) = k - 1
               /\ \A x \in S : \E k \in DOMAIN at : at[k] = x
               /\ \A j, k \in DOMAIN at : j < k => <<at[j], at[k]>> \in order
<1> DEFINE n == Cardinality(S)
           at == Listing(S, order)
           pick(k) == CHOOSE x \in S : Place(S, order, x) = k - 1
<1>1. n \in Nat  BY PlacesFollowTheOrder
<1>2. at = [k \in 1..n |-> pick(k)]  BY DEF Listing, Place, Preceding
<1>3. \A k \in 1..n : \E x \in S : Place(S, order, x) = k - 1  BY EveryPlaceIsTaken
<1> HIDE DEF at, n
<1>4. \A k \in 1..n : at[k] \in S /\ Place(S, order, at[k]) = k - 1
  <2> SUFFICES ASSUME NEW k \in 1..n PROVE at[k] \in S /\ Place(S, order, at[k]) = k - 1  OBVIOUS
  <2>1. PICK x \in S : Place(S, order, x) = k - 1  BY <1>3
  <2>2. pick(k) \in S /\ Place(S, order, pick(k)) = k - 1  BY <2>1
  <2> HIDE DEF pick
  <2> QED  BY <1>2, <2>2
<1>5. at \in Seq(S) /\ Len(at) = n
  <2> HIDE DEF pick
  <2>1. at \in [1..n -> S]  BY <1>2, <1>4
  <2> QED  BY <1>1, <2>1
<1>6. \A x \in S : \E k \in 1..n : at[k] = x
  <2> SUFFICES ASSUME NEW x \in S PROVE \E k \in 1..n : at[k] = x  OBVIOUS
  <2> DEFINE k == Place(S, order, x) + 1
  <2>1. Place(S, order, x) \in 0..(n - 1)  BY PlacesFollowTheOrder DEF n
  <2>2. k \in 1..n /\ k - 1 = Place(S, order, x)  BY <1>1, <2>1
  <2> HIDE DEF k
  <2>3. at[k] = x  BY <1>4, <2>2, PlacesFollowTheOrder
  <2> QED  BY <2>2, <2>3
<1>7. \A j, k \in 1..n : j < k => <<at[j], at[k]>> \in order
  <2> SUFFICES ASSUME NEW j \in 1..n, NEW k \in 1..n, j < k PROVE <<at[j], at[k]>> \in order  OBVIOUS
  <2>1. /\ at[j] \in S /\ Place(S, order, at[j]) = j - 1
        /\ at[k] \in S /\ Place(S, order, at[k]) = k - 1
    BY <1>4
  <2>2. at[j] # at[k]  BY <2>1
  <2>3. ~(<<at[k], at[j]>> \in order)
    <3> SUFFICES ASSUME <<at[k], at[j]>> \in order PROVE FALSE  OBVIOUS
    <3>1. Place(S, order, at[k]) < Place(S, order, at[j])  BY <2>1, PlacesFollowTheOrder
    <3> QED  BY <2>1, <3>1
  <2> QED  BY <2>1, <2>2, <2>3 DEF StrictOrder
<1>8. DOMAIN at = 1..n  BY <1>2
<1> QED  BY <1>1, <1>4, <1>5, <1>6, <1>7, <1>8 DEF at, n

\* Rows by their place in the table.
LEMMA PlacesAreOrdered ==
    ASSUME NEW P \in SUBSET Int
    PROVE  /\ StrictOrder(P, {p \in P \X P : p[1] < p[2]})
           /\ StrictOrder(P, {p \in P \X P : p[1] > p[2]})
           /\ \A x, y \in P : /\ <<x, y>> \in {p \in P \X P : p[1] < p[2]} <=> x < y
                              /\ <<x, y>> \in {p \in P \X P : p[1] > p[2]} <=> x > y
<1> DEFINE up == {p \in P \X P : p[1] < p[2]}
           down == {p \in P \X P : p[1] > p[2]}
<1>1. \A x, y \in P : (<<x, y>> \in up <=> x < y) /\ (<<x, y>> \in down <=> x > y)  OBVIOUS
<1> HIDE DEF up, down
<1>2. StrictOrder(P, up)  BY <1>1 DEF StrictOrder
<1>3. StrictOrder(P, down)  BY <1>1 DEF StrictOrder
<1> QED  BY <1>1, <1>2, <1>3 DEF up, down

LEMMA PlacesAreListed ==
    ASSUME NEW P \in SUBSET Int, IsFiniteSet(P), NEW at, at \in {OldestFirst(P), NewestFirst(P)}
    PROVE  /\ Cardinality(P) \in Nat /\ DOMAIN at = 1..Cardinality(P)
           /\ at \in Seq(P) /\ Len(at) = Cardinality(P)
           /\ \A k \in DOMAIN at : at[k] \in P
           /\ \A x \in P : \E k \in DOMAIN at : at[k] = x
<1>1. PICK order : StrictOrder(P, order) /\ at = Listing(P, order)
  BY PlacesAreOrdered DEF OldestFirst, NewestFirst
<1> QED  BY <1>1, ListingIsExact

LEMMA OldestIsFirst ==
    ASSUME NEW P \in SUBSET Int, IsFiniteSet(P)
    PROVE  \A j, k \in DOMAIN OldestFirst(P) : j < k => OldestFirst(P)[j] < OldestFirst(P)[k]
<1> DEFINE up == {p \in P \X P : p[1] < p[2]}
           at == OldestFirst(P)
<1>1. StrictOrder(P, up) /\ \A x, y \in P : <<x, y>> \in up <=> x < y  BY PlacesAreOrdered
<1>2. at = Listing(P, up)  BY DEF OldestFirst
<1> HIDE DEF up, at
<1>3. /\ \A k \in DOMAIN at : at[k] \in P
      /\ \A j, k \in DOMAIN at : j < k => <<at[j], at[k]>> \in up
  BY <1>1, <1>2, ListingIsExact
<1>4. \A j, k \in DOMAIN at : j < k => at[j] < at[k]  BY <1>1, <1>3
<1> QED  BY <1>4 DEF at

LEMMA RowsAreListed ==
    ASSUME NEW P \in SUBSET Int, IsFiniteSet(P), NEW s,
           NEW rows, rows \in {RowsIn(s, P), LatestIn(s, P)}
    PROVE  /\ Cardinality(P) \in Nat /\ DOMAIN rows = 1..Cardinality(P)
           /\ \A k \in DOMAIN rows : \E p \in P : rows[k] = s[p]
           /\ \A p \in P : \E k \in DOMAIN rows : rows[k] = s[p]
           /\ \A V : (\A p \in P : s[p] \in V) => rows \in Seq(V)
           /\ Len(rows) = Cardinality(P)
<1>1. PICK at \in {OldestFirst(P), NewestFirst(P)} : rows = RowsAt(s, at)
  BY DEF RowsIn, LatestIn
<1>2. /\ Cardinality(P) \in Nat /\ DOMAIN at = 1..Cardinality(P)
      /\ \A k \in DOMAIN at : at[k] \in P
      /\ \A x \in P : \E k \in DOMAIN at : at[k] = x
  BY PlacesAreListed
<1> DEFINE n == Cardinality(P)
<1>3. rows = [k \in 1..n |-> s[at[k]]]  BY <1>1, <1>2 DEF RowsAt
<1> HIDE DEF n
<1>4. ASSUME NEW V, \A p \in P : s[p] \in V PROVE rows \in Seq(V) /\ Len(rows) = n
  <2>1. \A k \in 1..n : s[at[k]] \in V  BY <1>2, <1>4 DEF n
  <2>2. rows \in [1..n -> V]  BY <1>3, <2>1
  <2> QED  BY <1>2, <2>2 DEF n
<1>5. Len(rows) = n
  <2>1. \A p \in P : s[p] \in {s[q] : q \in P}  OBVIOUS
  <2> QED  BY <1>4, <2>1
<1>6. \A k \in DOMAIN rows : \E p \in P : rows[k] = s[p]  BY <1>2, <1>3 DEF n
<1>7. \A p \in P : \E k \in DOMAIN rows : rows[k] = s[p]
  <2> SUFFICES ASSUME NEW p \in P PROVE \E k \in DOMAIN rows : rows[k] = s[p]  OBVIOUS
  <2>1. PICK k \in 1..n : at[k] = p  BY <1>2 DEF n
  <2> QED  BY <1>3, <2>1
<1> QED  BY <1>2, <1>3, <1>4, <1>5, <1>6, <1>7 DEF n

\* The row written last is the last one of the list.
LEMMA LastRow ==
    ASSUME NEW P \in SUBSET Int, IsFiniteSet(P), NEW s, NEW m \in P, \A p \in P : p <= m
    PROVE  /\ Len(RowsIn(s, P)) = Cardinality(P) /\ RowsIn(s, P)[Cardinality(P)] = s[m]
<1> DEFINE at == OldestFirst(P)
           n == Cardinality(P)
<1>1. /\ n \in Nat /\ DOMAIN at = 1..n
      /\ \A k \in 1..n : at[k] \in P
      /\ \A x \in P : \E k \in 1..n : at[k] = x
  BY PlacesAreListed
<1>2. \A j, k \in 1..n : j < k => at[j] < at[k]  BY <1>1, OldestIsFirst
<1>3. RowsIn(s, P) = [k \in 1..n |-> s[at[k]]]  BY <1>1 DEF RowsIn, RowsAt
<1>4. Len(RowsIn(s, P)) = n  BY RowsAreListed
<1> HIDE DEF at, n
<1>5. PICK k \in 1..n : at[k] = m  BY <1>1
<1>6. n \in 1..n /\ at[n] \in P  BY <1>1, <1>5
<1>7. k = n
  <2> SUFFICES ASSUME k # n PROVE FALSE  OBVIOUS
  <2>1. k < n  BY <1>1, <1>5
  <2>2. at[k] < at[n] /\ at[n] <= m  BY <1>2, <1>6, <2>1
  <2>3. m \in Int /\ at[n] \in Int  BY <1>6
  <2> QED  BY <1>5, <2>2, <2>3
<1> QED  BY <1>3, <1>4, <1>5, <1>6, <1>7 DEF n

LEMMA PlaceOfNumber ==
    ASSUME NEW P \in SUBSET Int, NEW x \in P
    PROVE  Place(P, {p \in P \X P : p[1] < p[2]}, x) = Cardinality({y \in P : y < x})
<1>1. Preceding(P, {p \in P \X P : p[1] < p[2]}, x) = {y \in P : y < x}
  BY DEF Preceding
<1> QED  BY <1>1 DEF Place

LEMMA OldestPlaces ==
    ASSUME NEW P \in SUBSET Int, IsFiniteSet(P)
    PROVE  /\ \A k \in DOMAIN OldestFirst(P) : Cardinality({y \in P : y < OldestFirst(P)[k]}) = k - 1
           /\ \A x, y \in P : Cardinality({z \in P : z < x}) = Cardinality({z \in P : z < y}) => x = y
<1> DEFINE up == {p \in P \X P : p[1] < p[2]}
           at == OldestFirst(P)
<1>1. StrictOrder(P, up)  BY PlacesAreOrdered
<1>2. at = Listing(P, up)  BY DEF OldestFirst
<1>3. \A x \in P : Place(P, up, x) = Cardinality({y \in P : y < x})  BY PlaceOfNumber
<1> HIDE DEF up, at
<1>4. \A k \in DOMAIN at : at[k] \in P /\ Place(P, up, at[k]) = k - 1  BY <1>1, <1>2, ListingIsExact
<1>5. \A k \in DOMAIN at : Cardinality({y \in P : y < at[k]}) = k - 1
  <2> SUFFICES ASSUME NEW k \in DOMAIN at PROVE Cardinality({y \in P : y < at[k]}) = k - 1  OBVIOUS
  <2>1. at[k] \in P /\ Place(P, up, at[k]) = k - 1  BY <1>4
  <2> QED  BY <1>3, <2>1
<1>6. \A x, y \in P : Place(P, up, x) = Place(P, up, y) => x = y  BY <1>1, PlacesFollowTheOrder
<1>7. ASSUME NEW x \in P, NEW y \in P,
             Cardinality({z \in P : z < x}) = Cardinality({z \in P : z < y})
      PROVE  x = y
  <2>1. Place(P, up, x) = Place(P, up, y)  BY <1>3, <1>7
  <2> QED  BY <1>6, <2>1
<1> QED  BY <1>5, <1>7 DEF at

\* What is picked from the first rows is a first part of what is picked from all.
LEMMA PickedPrefix ==
    ASSUME NEW P \in SUBSET Int, IsFiniteSet(P), NEW b \in Int, NEW Q, Q = {p \in P : p <= b}
    PROVE  /\ IsFiniteSet(Q) /\ Cardinality(Q) <= Cardinality(P)
           /\ \A k \in DOMAIN OldestFirst(Q) : k \in DOMAIN OldestFirst(P)
                                               /\ OldestFirst(Q)[k] = OldestFirst(P)[k]
<1> DEFINE at == OldestFirst(P)
           qt == OldestFirst(Q)
<1>1. Q \in SUBSET Int /\ Q \subseteq P  OBVIOUS
<1>2. IsFiniteSet(Q) /\ Cardinality(Q) <= Cardinality(P)  BY <1>1, FS_Subset
<1>3. /\ DOMAIN at = 1..Cardinality(P) /\ DOMAIN qt = 1..Cardinality(Q)
      /\ Cardinality(P) \in Nat /\ Cardinality(Q) \in Nat
      /\ \A k \in DOMAIN at : at[k] \in P
      /\ \A k \in DOMAIN qt : qt[k] \in Q
  BY <1>1, <1>2, PlacesAreListed
<1>4. /\ \A k \in DOMAIN at : Cardinality({y \in P : y < at[k]}) = k - 1
      /\ \A k \in DOMAIN qt : Cardinality({y \in Q : y < qt[k]}) = k - 1
      /\ \A x, y \in P : Cardinality({z \in P : z < x}) = Cardinality({z \in P : z < y}) => x = y
  BY <1>1, <1>2, OldestPlaces
<1> HIDE DEF at, qt
<1>5. ASSUME NEW k \in DOMAIN qt PROVE k \in DOMAIN at /\ qt[k] = at[k]
  <2>1. k \in DOMAIN at  BY <1>2, <1>3, <1>5
  <2>2. qt[k] \in P /\ qt[k] <= b /\ qt[k] \in Int  BY <1>3, <1>5
  <2>3. {y \in Q : y < qt[k]} = {y \in P : y < qt[k]}
    <3>1. \A y \in P : y < qt[k] => y <= b  BY <2>2
    <3>2. \A y \in P : y < qt[k] => y \in Q  BY <3>1
    <3> QED  BY <1>1, <3>2
  <2>4. Cardinality({y \in P : y < qt[k]}) = k - 1  BY <1>4, <1>5, <2>3
  <2>5. at[k] \in P /\ Cardinality({y \in P : y < at[k]}) = k - 1  BY <1>3, <1>4, <2>1
  <2>6. Cardinality({y \in P : y < qt[k]}) = Cardinality({y \in P : y < at[k]})  BY <2>4, <2>5
  <2> QED  BY <1>4, <2>1, <2>2, <2>5, <2>6
<1> QED  BY <1>2, <1>5 DEF at, qt

\* Picking every row picks the table.
LEMMA AllRows ==
    ASSUME NEW V, NEW s \in Seq(V)
    PROVE  RowsIn(s, DOMAIN s) = s
<1> DEFINE n == Len(s)
           at == OldestFirst(1..n)
<1>1. n \in Nat /\ DOMAIN s = 1..n /\ s = [k \in 1..n |-> s[k]]  OBVIOUS
<1> HIDE DEF n
<1>2. IsFiniteSet(1..n) /\ Cardinality(1..n) = n /\ 1..n \in SUBSET Int
  <2>1. 1 \in Int /\ n \in Int  BY <1>1
  <2>2. IsFiniteSet(1..n) /\ Cardinality(1..n) = IF 1 > n THEN 0 ELSE n - 1 + 1  BY <2>1, FS_Interval
  <2> QED  BY <1>1, <2>2
<1>3. /\ DOMAIN at = 1..n /\ \A k \in 1..n : at[k] \in 1..n
      /\ \A k \in 1..n : Cardinality({y \in 1..n : y < at[k]}) = k - 1
  <2>1. DOMAIN at = 1..n /\ \A k \in DOMAIN at : at[k] \in 1..n  BY <1>2, PlacesAreListed
  <2>2. \A k \in DOMAIN at : Cardinality({y \in 1..n : y < at[k]}) = k - 1  BY <1>2, OldestPlaces
  <2> QED  BY <2>1, <2>2
<1>4. RowsIn(s, DOMAIN s) = [k \in 1..n |-> s[at[k]]]  BY <1>1, <1>3 DEF RowsIn, RowsAt
<1> HIDE DEF at
<1>5. ASSUME NEW k \in 1..n PROVE at[k] = k
  <2>1. at[k] \in 1..n /\ Cardinality({y \in 1..n : y < at[k]}) = k - 1  BY <1>3
  <2>2. {y \in 1..n : y < at[k]} = 1..(at[k] - 1)  BY <1>1, <2>1
  <2>3. at[k] - 1 \in Nat /\ 1 \in Int  BY <2>1
  <2>4. Cardinality(1..(at[k] - 1)) = at[k] - 1
    <3>1. PICK m \in Nat : m = at[k] - 1  BY <2>3
    <3>2. Cardinality(1..m) = IF 1 > m THEN 0 ELSE m - 1 + 1  BY FS_Interval
    <3>3. Cardinality(1..m) = m  BY <3>2
    <3> QED  BY <3>1, <3>3
  <2>5. at[k] - 1 = k - 1  BY <2>1, <2>2, <2>4
  <2>6. at[k] \in Int /\ k \in Int  BY <1>1, <2>1
  <2> QED  BY <2>5, <2>6
<1>6. [k \in 1..n |-> s[at[k]]] = [k \in 1..n |-> s[k]]  BY <1>5
<1> QED  BY <1>1, <1>4, <1>6

\* Each of the two lists has one row of the table for each place.
ArePlaces(P) == P \in SUBSET Int /\ IsFiniteSet(P)

LEMMA RowsOfPlaces ==
    ASSUME NEW P, ArePlaces(P), NEW s
    PROVE  /\ \A k \in DOMAIN RowsIn(s, P) : \E p \in P : RowsIn(s, P)[k] = s[p]
           /\ \A k \in DOMAIN LatestIn(s, P) : \E p \in P : LatestIn(s, P)[k] = s[p]
           /\ Len(RowsIn(s, P)) = Cardinality(P) /\ Len(LatestIn(s, P)) = Cardinality(P)
<1>1. P \in SUBSET Int /\ IsFiniteSet(P)  BY DEF ArePlaces
<1>2. ASSUME NEW at, at \in {OldestFirst(P), NewestFirst(P)}
      PROVE  /\ \A k \in DOMAIN RowsAt(s, at) : \E p \in P : RowsAt(s, at)[k] = s[p]
             /\ Len(RowsAt(s, at)) = Cardinality(P)
  <2>1. /\ Cardinality(P) \in Nat /\ DOMAIN at = 1..Cardinality(P)
        /\ \A k \in DOMAIN at : at[k] \in P
    BY <1>1, <1>2, PlacesAreListed
  <2> DEFINE n == Cardinality(P)
  <2>2. RowsAt(s, at) = [k \in 1..n |-> s[at[k]]]  BY <2>1 DEF RowsAt
  <2>3. n \in Nat  BY <2>1
  <2> HIDE DEF n
  <2>4. Len(RowsAt(s, at)) = n  BY <2>2, <2>3
  <2> QED  BY <2>1, <2>2, <2>4 DEF n
<1> QED  BY <1>2 DEF RowsIn, LatestIn
=============================================================================
