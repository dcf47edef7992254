------------------------------- MODULE NumberProofs -------------------------------
(***************************************************************************)
(* The data of the system: sums over finite sets and the check of order     *)
(* numbers, for texts of every length and integers of every size.           *)
(*                                                                          *)
(* Induction is over the natural numbers, by the least number that is not   *)
(* in a set.  What a recursive definition computes is shown in three steps:  *)
(* a function that satisfies its equation exists, so the one the definition *)
(* chooses does, and the rest follows from the equation.                    *)
(***************************************************************************)
EXTENDS Number, FiniteSetTheorems, TLAPS

-----------------------------------------------------------------------------
(* Sums.  SumFunction adds up the values of a function over a finite set in   *)
(* an order of its own; what the invariants need is that the order does not  *)
(* matter.  The inductions are over the number of elements: sets of natural  *)
(* numbers that contain 0 and with every number the next one.                *)

Pick(s) == CHOOSE x \in s : TRUE

\* Partial sums
IsSums(f, S, g) ==
    g = [s \in SUBSET S |-> IF s = {} THEN 0 ELSE f[Pick(s)] + g[s \ {Pick(s)}]]

SumTable(f, S) == CHOOSE g : IsSums(f, S, g)

LEMMA SumIs == ASSUME NEW f, NEW S PROVE SumFunctionOnSet(f, S) = SumTable(f, S)[S]
BY DEF SumFunctionOnSet, FoldFunctionOnSet, MapThenFoldSet, SumTable, IsSums, Pick

LEMMA Least == ASSUME NEW T, T \subseteq Nat, T # {} PROVE \E m \in T : \A n \in T : m <= n
<1> DEFINE B == {0..m : m \in T}
<1>1. B \subseteq FiniteSubsetsOf(Nat) /\ B # {}
  <2>1. ASSUME NEW m \in T PROVE 0..m \in FiniteSubsetsOf(Nat)
    <3>1. m \in Int /\ 0..m \subseteq Nat
      OBVIOUS
    <3>2. IsFiniteSet(0..m)
      BY <3>1, FS_Interval
    <3> QED BY <3>1, <3>2 DEF FiniteSubsetsOf
  <2>2. PICK m \in T : TRUE
    OBVIOUS
  <2>3. 0..m \in B
    OBVIOUS
  <2> QED BY <2>1, <2>3
<1>2. PICK b \in B : \A c \in B : <<c, b>> \notin StrictSubsetOrdering(Nat)
  BY <1>1, FS_StrictSubsetOrderingWellFounded, WFMin
<1>3. PICK m \in T : b = 0..m
  OBVIOUS
<1>4. ASSUME NEW n \in T, n < m PROVE FALSE
  <2>1. 0..n \in B
    OBVIOUS
  <2>2. 0..n \subseteq 0..m /\ m \in 0..m /\ m \notin 0..n
    BY <1>4
  <2>3. <<0..n, 0..m>> \in StrictSubsetOrdering(Nat)
    BY <2>2 DEF StrictSubsetOrdering
  <2> QED BY <1>2, <1>3, <2>1, <2>3
<1> QED BY <1>4

LEMMA Steps == ASSUME NEW T, 0 \in T, \A n \in Nat : n \in T => n+1 \in T PROVE \A n \in Nat : n \in T
<1>1. SUFFICES ASSUME NEW n \in Nat, n \notin T PROVE FALSE
  OBVIOUS
<1>2. PICK m \in Nat \ T : \A k \in Nat \ T : m <= k
  BY <1>1, Least
<1>3. m # 0 /\ m - 1 \in Nat
  BY <1>2
<1>4. m - 1 \in T
  BY <1>2, <1>3
<1> QED BY <1>2, <1>3, <1>4

LEMMA PickIn == ASSUME NEW s, s # {} PROVE Pick(s) \in s
BY DEF Pick

\* Subsets of at most n elements.
UpTo(S, n) == {s \in SUBSET S : Cardinality(s) <= n}

Step(f, g, s) == IF s = {} THEN 0 ELSE f[Pick(s)] + g[s \ {Pick(s)}]

LEMMA SubsetFinite ==
    ASSUME NEW S, IsFiniteSet(S), NEW s \in SUBSET S
    PROVE  /\ IsFiniteSet(s) /\ Cardinality(s) \in Nat /\ Cardinality(s) <= Cardinality(S)
           /\ Cardinality(s) = 0 <=> s = {}
           /\ \A x \in s : s \ {x} \in SUBSET S /\ Cardinality(s \ {x}) = Cardinality(s) - 1
<1>1. IsFiniteSet(s) /\ Cardinality(s) <= Cardinality(S)
  BY FS_Subset
<1> QED BY <1>1, FS_CardinalityType, FS_EmptySet, FS_RemoveElement

LEMMA SumsExist ==
    ASSUME NEW S, IsFiniteSet(S), NEW f \in [S -> Int]
    PROVE  \E g \in [SUBSET S -> Int] : IsSums(f, S, g)
<1> DEFINE T == {n \in Nat : \E g \in [UpTo(S, n) -> Int] :
                                 \A s \in UpTo(S, n) : g[s] = Step(f, g, s)}
<1>1. 0 \in T
  <2> DEFINE g == [s \in UpTo(S, 0) |-> 0]
  <2>1. \A s \in UpTo(S, 0) : s = {}
    BY SubsetFinite DEF UpTo
  <2>2. g \in [UpTo(S, 0) -> Int] /\ \A s \in UpTo(S, 0) : g[s] = Step(f, g, s)
    BY <2>1 DEF Step
  <2> HIDE DEF g
  <2> QED BY <2>2
<1>2. ASSUME NEW n \in Nat, n \in T PROVE n + 1 \in T
  <2>1. PICK g \in [UpTo(S, n) -> Int] : \A s \in UpTo(S, n) : g[s] = Step(f, g, s)
    BY <1>2
  <2> DEFINE h == [s \in UpTo(S, n+1) |-> Step(f, g, s)]
  <2>2. ASSUME NEW s \in UpTo(S, n+1), s # {}
        PROVE  f[Pick(s)] \in Int /\ s \ {Pick(s)} \in UpTo(S, n)
    BY <2>2, SubsetFinite, PickIn DEF UpTo
  <2>3. UpTo(S, n) \subseteq UpTo(S, n+1)
    BY SubsetFinite DEF UpTo
  <2>4. \A s \in UpTo(S, n) : h[s] = g[s]
    BY <2>1, <2>3
  <2>5. h \in [UpTo(S, n+1) -> Int]
    BY <2>2 DEF Step
  <2>6. \A s \in UpTo(S, n+1) : h[s] = Step(f, h, s)
    BY <2>2, <2>4 DEF Step
  <2> HIDE DEF h
  <2> QED BY <2>5, <2>6
<1> HIDE DEF T
<1>3. \A n \in Nat : n \in T
  BY <1>1, <1>2, Steps
<1>4. Cardinality(S) \in T
  BY <1>3, FS_CardinalityType
<1>5. UpTo(S, Cardinality(S)) = SUBSET S
  BY SubsetFinite DEF UpTo
<1>6. PICK g \in [SUBSET S -> Int] : \A s \in SUBSET S : g[s] = Step(f, g, s)
  BY <1>4, <1>5 DEF T
<1> QED BY <1>6 DEF IsSums, Step

LEMMA SumsRec ==
    ASSUME NEW S, IsFiniteSet(S), NEW f \in [S -> Int]
    PROVE  /\ SumTable(f, S) \in [SUBSET S -> Int]
           /\ \A s \in SUBSET S : SumTable(f, S)[s] = Step(f, SumTable(f, S), s)
<1> DEFINE G == SumTable(f, S)
<1>1. IsSums(f, S, G)
  BY SumsExist DEF SumTable
<1> HIDE DEF G
<1>2. /\ G = [s \in SUBSET S |-> G[s]]
      /\ \A s \in SUBSET S : G[s] = Step(f, G, s)
  BY <1>1 DEF IsSums, Step
<1> DEFINE T == {n \in Nat : \A s \in UpTo(S, n) : G[s] \in Int}
<1>3. 0 \in T
  <2>1. \A s \in UpTo(S, 0) : s = {}
    BY SubsetFinite DEF UpTo
  <2>2. G[{}] = 0
    BY <1>2 DEF Step
  <2>3. ASSUME NEW s \in UpTo(S, 0) PROVE G[s] \in Int
    <3>1. G[s] = 0
      BY <2>1, <2>2, Zenon
    <3> QED BY <3>1
  <2> QED BY <2>3
<1>4. ASSUME NEW n \in Nat, n \in T PROVE n + 1 \in T
  <2>1. ASSUME NEW s \in UpTo(S, n+1), s # {}
        PROVE  f[Pick(s)] \in Int /\ s \ {Pick(s)} \in UpTo(S, n)
    BY <2>1, SubsetFinite, PickIn DEF UpTo
  <2>2. \A s \in UpTo(S, n+1) : G[s] = Step(f, G, s)
    BY <1>2 DEF UpTo
  <2>3. ASSUME NEW s \in UpTo(S, n+1) PROVE G[s] \in Int
    <3>1. CASE s = {}
      BY <2>2, <3>1 DEF Step
    <3>2. CASE s # {}
      <4>1. f[Pick(s)] \in Int /\ G[s \ {Pick(s)}] \in Int
        BY <1>4, <2>1, <3>2
      <4>2. G[s] = f[Pick(s)] + G[s \ {Pick(s)}]
        BY <2>2, <3>2 DEF Step
      <4> QED BY <4>1, <4>2
    <3> QED BY <3>1, <3>2
  <2> QED BY <2>3
<1> HIDE DEF T
<1>5. Cardinality(S) \in T
  BY <1>3, <1>4, Steps, FS_CardinalityType
<1>6. \A s \in SUBSET S : G[s] \in Int
  BY <1>5, SubsetFinite DEF UpTo, T
<1> QED BY <1>2, <1>6 DEF G

\* The order in which the elements are added up does not matter.
LEMMA SumsRemove ==
    ASSUME NEW S, IsFiniteSet(S), NEW f \in [S -> Int], NEW s \in SUBSET S, NEW x \in s
    PROVE  SumTable(f, S)[s] = f[x] + SumTable(f, S)[s \ {x}]
<1> DEFINE G == SumTable(f, S)
<1>1. /\ G \in [SUBSET S -> Int]
      /\ \A t \in SUBSET S : G[t] = Step(f, G, t)
  BY SumsRec
<1> HIDE DEF G
<1> DEFINE T == {n \in Nat : \A t \in UpTo(S, n) : \A y \in t : G[t] = f[y] + G[t \ {y}]}
<1>2. 0 \in T
  BY SubsetFinite DEF UpTo
<1>3. ASSUME NEW n \in Nat, n \in T PROVE n + 1 \in T
  <2> SUFFICES ASSUME NEW t \in UpTo(S, n+1), NEW y \in t
               PROVE  G[t] = f[y] + G[t \ {y}]
    OBVIOUS
  <2> DEFINE p == Pick(t)
  <2>1. /\ p \in t /\ t \in SUBSET S
        /\ G[t] = f[p] + G[t \ {p}]
    BY <1>1, PickIn DEF UpTo, Step
  <2>2. CASE y = p
    BY <2>1, <2>2
  <2>3. CASE y # p
    <3>1. /\ t \ {p} \in UpTo(S, n) /\ y \in t \ {p}
          /\ t \ {y} \in UpTo(S, n) /\ p \in t \ {y}
      BY <2>1, <2>3, SubsetFinite DEF UpTo
    <3>2. /\ G[t \ {p}] = f[y] + G[(t \ {p}) \ {y}]
          /\ G[t \ {y}] = f[p] + G[(t \ {y}) \ {p}]
      BY <1>3, <3>1
    <3>3. (t \ {p}) \ {y} = (t \ {y}) \ {p}
      OBVIOUS
    <3>4. /\ f[y] \in Int /\ f[p] \in Int
          /\ G[(t \ {p}) \ {y}] \in Int
      BY <1>1, <2>1
    <3> DEFINE rest == G[(t \ {p}) \ {y}]
    <3>5. G[t] = f[p] + (f[y] + rest) /\ G[t \ {y}] = f[p] + rest
      BY <2>1, <3>2, <3>3
    <3> HIDE DEF p, rest
    <3>6. f[p] + (f[y] + rest) = f[y] + (f[p] + rest)
      BY <3>4 DEF rest
    <3> QED BY <3>5, <3>6
  <2> QED BY <2>2, <2>3
<1> HIDE DEF T
<1>4. Cardinality(S) \in T
  BY <1>2, <1>3, Steps, FS_CardinalityType
<1>5. s \in UpTo(S, Cardinality(S))
  BY SubsetFinite DEF UpTo
<1> QED BY <1>4, <1>5 DEF T, G

\* Sums of functions that agree are equal.
LEMMA SumsAgree ==
    ASSUME NEW S, IsFiniteSet(S), NEW f \in [S -> Int],
           NEW D, IsFiniteSet(D), NEW h \in [D -> Int],
           S \subseteq D, \A x \in S : h[x] = f[x]
    PROVE  SumTable(f, S)[S] = SumTable(h, D)[S]
<1> DEFINE F == SumTable(f, S)
           H == SumTable(h, D)
<1>1. /\ F \in [SUBSET S -> Int]
      /\ \A s \in SUBSET S : F[s] = Step(f, F, s)
  BY SumsRec
<1>2. /\ H \in [SUBSET D -> Int]
      /\ \A s \in SUBSET D : H[s] = Step(h, H, s)
  BY SumsRec
<1> HIDE DEF F, H
<1> DEFINE T == {n \in Nat : \A s \in UpTo(S, n) : F[s] = H[s]}
<1>3. 0 \in T
  <2>1. \A s \in UpTo(S, 0) : s = {}
    BY SubsetFinite DEF UpTo
  <2>2. F[{}] = 0 /\ H[{}] = 0
    BY <1>1, <1>2 DEF Step
  <2> QED BY <2>1, <2>2
<1>4. ASSUME NEW n \in Nat, n \in T PROVE n + 1 \in T
  <2> SUFFICES ASSUME NEW s \in UpTo(S, n+1) PROVE F[s] = H[s]
    OBVIOUS
  <2>0. CASE s = {}
    BY <1>1, <1>2, <2>0 DEF Step
  <2> SUFFICES ASSUME s # {} PROVE F[s] = H[s]
    BY <2>0
  <2>1. /\ Pick(s) \in S /\ s \ {Pick(s)} \in UpTo(S, n)
        /\ s \in SUBSET S /\ s \in SUBSET D
    BY SubsetFinite, PickIn DEF UpTo
  <2>2. /\ F[s] = f[Pick(s)] + F[s \ {Pick(s)}]
        /\ H[s] = h[Pick(s)] + H[s \ {Pick(s)}]
    BY <1>1, <1>2, <2>1 DEF Step
  <2> QED BY <1>4, <2>1, <2>2
<1> HIDE DEF T
<1>5. Cardinality(S) \in T
  BY <1>3, <1>4, Steps, FS_CardinalityType
<1>6. S \in UpTo(S, Cardinality(S))
  BY SubsetFinite DEF UpTo
<1> QED BY <1>5, <1>6 DEF T, F, H

LEMMA SumType ==
    ASSUME NEW S, IsFiniteSet(S), NEW f \in [S -> Int]
    PROVE  SumFunction(f) \in Int
<1>1. SumFunction(f) = SumTable(f, S)[S]
  BY SumIs DEF SumFunction
<1>2. SumTable(f, S)[S] \in Int
  <2>1. SumTable(f, S) \in [SUBSET S -> Int]
    BY SumsRec
  <2> QED BY <2>1
<1> QED BY <1>1, <1>2

LEMMA SumEmpty ==
    ASSUME NEW f, DOMAIN f = {}
    PROVE  SumFunction(f) = 0
<1>1. SumFunctionOnSet(f, {}) = SumTable(f, {})[{}]
  BY SumIs
<1>2. \E g : IsSums(f, {}, g)
  <2> DEFINE g == [s \in {{}} |-> 0]
  <2>1. IsSums(f, {}, g)
    BY DEF IsSums
  <2> QED BY <2>1
<1>3. IsSums(f, {}, SumTable(f, {}))
  BY <1>2 DEF SumTable
<1> QED BY <1>1, <1>3 DEF SumFunction, IsSums

\* One more element adds its value.
LEMMA SumAdd ==
    ASSUME NEW S, IsFiniteSet(S), NEW f \in [S -> Int], NEW x, x \notin S,
           NEW h \in [S \cup {x} -> Int], \A y \in S : h[y] = f[y]
    PROVE  SumFunction(h) = SumFunction(f) + h[x]
<1> DEFINE D == S \cup {x}
<1>1. IsFiniteSet(D)
  BY FS_AddElement
<1>2. SumTable(h, D)[D] = h[x] + SumTable(h, D)[D \ {x}]
  BY <1>1, SumsRemove
<1>3. D \ {x} = S
  OBVIOUS
<1>4. SumTable(f, S)[S] = SumTable(h, D)[S]
  BY <1>1, SumsAgree
<1>5. SumFunction(h) = SumTable(h, D)[D] /\ SumFunction(f) = SumTable(f, S)[S]
  BY SumIs DEF SumFunction
<1>6. SumTable(f, S)[S] \in Int /\ h[x] \in Int
  BY <1>5, SumType
<1>7. SumFunction(h) = h[x] + SumFunction(f) /\ SumFunction(f) \in Int
  BY <1>2, <1>3, <1>4, <1>5, <1>6
<1> QED BY <1>6, <1>7

-----------------------------------------------------------------------------
(* The value of a sequence of digits.                                        *)

PrefixStep(s, g, n) == IF n = 0 THEN 0 ELSE 10 * g[n - 1] + s[n]

ArePrefixes(s, g) == g = [n \in 0 .. Len(s) |-> PrefixStep(s, g, n)]

LEMMA PrefixesExist ==
    ASSUME NEW s \in Seq(Digits)
    PROVE  \E g \in [0 .. Len(s) -> Nat] : ArePrefixes(s, g)
<1> DEFINE T == {n \in Nat : n <= Len(s) =>
                     \E g \in [0 .. n -> Nat] : \A m \in 0 .. n : g[m] = PrefixStep(s, g, m)}
<1>0. Len(s) \in Nat /\ \A i \in 1 .. Len(s) : s[i] \in Nat
  BY DEF Digits
<1>1. 0 \in T
  <2> DEFINE g == [m \in 0 .. 0 |-> 0]
  <2>1. g \in [0 .. 0 -> Nat] /\ \A m \in 0 .. 0 : g[m] = PrefixStep(s, g, m)
    BY DEF PrefixStep
  <2> HIDE DEF g
  <2> QED BY <2>1
<1>2. ASSUME NEW n \in Nat, n \in T PROVE n + 1 \in T
  <2> SUFFICES ASSUME n + 1 <= Len(s)
               PROVE  \E g \in [0 .. n + 1 -> Nat] :
                          \A m \in 0 .. n + 1 : g[m] = PrefixStep(s, g, m)
    OBVIOUS
  <2>1. PICK g \in [0 .. n -> Nat] : \A m \in 0 .. n : g[m] = PrefixStep(s, g, m)
    BY <1>0, <1>2
  <2> DEFINE h == [m \in 0 .. n + 1 |-> IF m = n + 1 THEN PrefixStep(s, g, m) ELSE g[m]]
  <2>2. PrefixStep(s, g, n + 1) = 10 * g[n] + s[n + 1] /\ g[n] \in Nat /\ s[n + 1] \in Nat
    BY <1>0, <2>1 DEF PrefixStep
  <2>3. h \in [0 .. n + 1 -> Nat]
    BY <2>1, <2>2
  <2>4. ASSUME NEW m \in 0 .. n + 1 PROVE h[m] = PrefixStep(s, h, m)
    <3>1. m # 0 => m - 1 \in 0 .. n /\ h[m - 1] = g[m - 1]
      OBVIOUS
    <3>2. h[m] = PrefixStep(s, g, m)
      BY <2>1
    <3> HIDE DEF h
    <3> QED BY <3>1, <3>2 DEF PrefixStep
  <2> HIDE DEF h
  <2> QED BY <2>3, <2>4
<1> HIDE DEF T
<1>3. Len(s) \in T
  BY <1>0, <1>1, <1>2, Steps
<1>4. PICK g \in [0 .. Len(s) -> Nat] : \A m \in 0 .. Len(s) : g[m] = PrefixStep(s, g, m)
  BY <1>0, <1>3 DEF T
<1> QED BY <1>4 DEF ArePrefixes

\* Each digit is added to ten times what was read before.
LEMMA PrefixesRec ==
    ASSUME NEW s \in Seq(Digits)
    PROVE  /\ PrefixValues(s) \in [0 .. Len(s) -> Nat]
           /\ PrefixValues(s)[0] = 0
           /\ \A n \in 1 .. Len(s) : PrefixValues(s)[n] = 10 * PrefixValues(s)[n - 1] + s[n]
<1> DEFINE G == PrefixValues(s)
<1>1. G = CHOOSE g : ArePrefixes(s, g)
  BY DEF PrefixValues, ArePrefixes, PrefixStep
<1>2. PICK f \in [0 .. Len(s) -> Nat] : ArePrefixes(s, f)
  BY PrefixesExist
<1>3. ArePrefixes(s, G)
  BY <1>1, <1>2
<1> HIDE DEF G
<1>4. \A n \in 0 .. Len(s) : G[n] = PrefixStep(s, G, n) /\ f[n] = PrefixStep(s, f, n)
  BY <1>2, <1>3 DEF ArePrefixes
<1> DEFINE T == {n \in Nat : n <= Len(s) => G[n] \in Nat}
<1>5. Len(s) \in Nat /\ \A i \in 1 .. Len(s) : s[i] \in Nat
  BY DEF Digits
<1>6. 0 \in T
  BY <1>4, <1>5 DEF PrefixStep
<1>7. ASSUME NEW n \in Nat, n \in T PROVE n + 1 \in T
  <2> SUFFICES ASSUME n + 1 <= Len(s) PROVE G[n + 1] \in Nat
    OBVIOUS
  <2>1. G[n + 1] = 10 * G[n] + s[n + 1]
    BY <1>4, <1>5 DEF PrefixStep
  <2> QED BY <1>5, <1>7, <2>1
<1>8. \A n \in Nat : n \in T
  <2> HIDE DEF T
  <2> QED BY <1>6, <1>7, Steps
<1>9. G = [n \in 0 .. Len(s) |-> PrefixStep(s, G, n)]
  BY <1>3 DEF ArePrefixes
<1>10. \A n \in 0 .. Len(s) : G[n] \in Nat
  BY <1>5, <1>8
<1>11. G \in [0 .. Len(s) -> Nat]
  BY <1>9, <1>10
<1> QED BY <1>4, <1>5, <1>11 DEF PrefixStep, G

-----------------------------------------------------------------------------
(* The loop of checksum.                                                     *)

\* What one digit adds.
Weight(plain, d) == IF plain THEN d ELSE Doubled(d)

LoopStep(g, n) ==
    [even \in BOOLEAN |->
        IF n = 0 THEN 0 ELSE Weight(~even, n % 10) + g[n \div 10][~even]]

Loops(n) == {g \in [0 .. n -> [BOOLEAN -> Nat]] : \A m \in 0 .. n : g[m] = LoopStep(g, m)}

LEMMA WeightType == ASSUME NEW plain \in BOOLEAN, NEW d \in Digits PROVE Weight(plain, d) \in Digits
BY DEF Weight, Doubled, Digits

LEMMA Tenth ==
    ASSUME NEW n \in Nat
    PROVE  n \div 10 \in Nat /\ n \div 10 <= n /\ (n # 0 => n \div 10 < n) /\ n % 10 \in Digits
BY DEF Digits

LEMMA LastDigit ==
    ASSUME NEW v \in Nat, NEW d \in Digits
    PROVE  10 * v + d \in Nat /\ (10 * v + d) % 10 = d /\ (10 * v + d) \div 10 = v
BY DEF Digits

LEMMA LoopsExist == ASSUME NEW k \in Nat PROVE Loops(k) # {}
<1> DEFINE T == {n \in Nat : Loops(n) # {}}
<1>1. 0 \in T
  <2> DEFINE g == [m \in 0 .. 0 |-> [even \in BOOLEAN |-> 0]]
  <2>1. g \in [0 .. 0 -> [BOOLEAN -> Nat]] /\ \A m \in 0 .. 0 : g[m] = LoopStep(g, m)
    BY DEF LoopStep
  <2> HIDE DEF g
  <2> QED BY <2>1 DEF Loops
<1>2. ASSUME NEW n \in Nat, n \in T PROVE n + 1 \in T
  <2>1. PICK g \in Loops(n) : TRUE
    BY <1>2
  <2>2. g \in [0 .. n -> [BOOLEAN -> Nat]] /\ \A m \in 0 .. n : g[m] = LoopStep(g, m)
    BY <2>1 DEF Loops
  <2> DEFINE h == [m \in 0 .. n + 1 |-> IF m = n + 1 THEN LoopStep(g, m) ELSE g[m]]
  <2>3. ASSUME NEW m \in 0 .. n + 1
        PROVE  /\ m # 0 => m \div 10 \in 0 .. n /\ h[m \div 10] = g[m \div 10]
               /\ h[m] = LoopStep(g, m)
    BY <2>2, Tenth
  <2>4. ASSUME NEW m \in 0 .. n + 1 PROVE LoopStep(g, m) \in [BOOLEAN -> Nat]
    <3>1. ASSUME NEW even \in BOOLEAN, m # 0
          PROVE  Weight(~even, m % 10) \in Nat /\ g[m \div 10][~even] \in Nat
      <4>1. (~even) \in BOOLEAN /\ m \in Nat /\ m \div 10 \in 0 .. n
        BY <2>3, <3>1
      <4>2. Weight(~even, m % 10) \in Digits
        BY <4>1, Tenth, WeightType
      <4>3. g[m \div 10] \in [BOOLEAN -> Nat]
        BY <2>2, <4>1
      <4>4. Weight(~even, m % 10) \in Nat
        BY <4>2 DEF Digits
      <4> QED BY <4>1, <4>3, <4>4
    <3>2. \A even \in BOOLEAN :
              (IF m = 0 THEN 0 ELSE Weight(~even, m % 10) + g[m \div 10][~even]) \in Nat
      BY <3>1
    <3> QED BY <3>2 DEF LoopStep
  <2>5. h \in [0 .. n + 1 -> [BOOLEAN -> Nat]]
    BY <2>2, <2>4
  <2> HIDE DEF h
  <2>6. ASSUME NEW m \in 0 .. n + 1 PROVE h[m] = LoopStep(h, m)
    BY <2>3 DEF LoopStep
  <2>7. h \in Loops(n + 1)
    BY <2>5, <2>6 DEF Loops
  <2> QED BY <2>7
<1> HIDE DEF T
<1>3. k \in T
  BY <1>1, <1>2, Steps
<1> QED BY <1>3 DEF T

\* There is one way only to run the loop.
LEMMA LoopsAgree ==
    ASSUME NEW n \in Nat, NEW m \in Nat, NEW g \in Loops(n), NEW h \in Loops(m),
           NEW k \in Nat, k <= n, k <= m
    PROVE  g[k] = h[k]
<1> DEFINE T == {i \in Nat : i <= n /\ i <= m /\ g[i] # h[i]}
<1>1. SUFFICES ASSUME k \in T PROVE FALSE
  OBVIOUS
<1>2. PICK i \in T : \A j \in T : i <= j
  <2> HIDE DEF T
  <2>1. T \subseteq Nat
    BY DEF T
  <2> QED BY <1>1, <2>1, Least
<1>3. i \in 0 .. n /\ i \in 0 .. m /\ g[i] = LoopStep(g, i) /\ h[i] = LoopStep(h, i)
  BY <1>2 DEF Loops
<1>4. i # 0 => g[i \div 10] = h[i \div 10]
  <2>1. i # 0 => i \div 10 \in Nat /\ i \div 10 < i /\ i \div 10 \notin T
    BY <1>2, <1>3, Tenth
  <2> QED BY <1>3, <2>1, Tenth
<1>5. LoopStep(g, i) = LoopStep(h, i)
  BY <1>4 DEF LoopStep
<1> QED BY <1>2, <1>3, <1>5

IsLuhnSum(g) == g = [n \in Nat |-> LoopStep(g, n)]

LEMMA LuhnSumExists == \E g \in [Nat -> [BOOLEAN -> Nat]] : IsLuhnSum(g)
<1> DEFINE G(n) == CHOOSE g : g \in Loops(n)
           h == [n \in Nat |-> G(n)[n]]
<1>1. ASSUME NEW n \in Nat
      PROVE  /\ G(n) \in Loops(n) /\ G(n)[n] = LoopStep(G(n), n)
             /\ G(n)[n] \in [BOOLEAN -> Nat]
  <2>1. G(n) \in Loops(n)
    BY LoopsExist
  <2> HIDE DEF G
  <2> QED BY <2>1 DEF Loops
<1>2. ASSUME NEW n \in Nat, n # 0 PROVE G(n)[n \div 10] = h[n \div 10]
  <2>1. n \div 10 \in Nat /\ n \div 10 <= n
    BY Tenth
  <2>2. G(n)[n \div 10] = G(n \div 10)[n \div 10]
    <3> HIDE DEF G
    <3> QED BY <1>1, <2>1, LoopsAgree
  <2> QED BY <2>1, <2>2
<1>3. h \in [Nat -> [BOOLEAN -> Nat]]
  BY <1>1
<1>4. ASSUME NEW n \in Nat PROVE h[n] = LoopStep(h, n)
  <2>1. h[n] = LoopStep(G(n), n)
    BY <1>1
  <2> HIDE DEF h, G
  <2> QED BY <1>2, <2>1 DEF LoopStep
<1> HIDE DEF h
<1>5. h = [n \in Nat |-> LoopStep(h, n)]
  BY <1>3, <1>4
<1> QED BY <1>3, <1>5 DEF IsLuhnSum

LEMMA LuhnSumRec ==
    /\ \A n \in Nat, b \in BOOLEAN : LuhnSum[n][b] \in Nat
    /\ \A b \in BOOLEAN : LuhnSum[0][b] = 0
    /\ \A n \in Nat, b \in BOOLEAN :
           LuhnSum[n][b] = Weight(~b, n % 10) + LuhnSum[n \div 10][~b]
<1> DEFINE G == LuhnSum
<1>1. G = CHOOSE g : IsLuhnSum(g)
  BY DEF LuhnSum, IsLuhnSum, LoopStep, Weight
<1>2. IsLuhnSum(G)
  BY <1>1, LuhnSumExists
<1> HIDE DEF G
<1>3. ASSUME NEW n \in Nat PROVE G[n] = LoopStep(G, n)
  BY <1>2 DEF IsLuhnSum
<1>4. \A b \in BOOLEAN : G[0][b] = 0
  <2>1. G[0] = LoopStep(G, 0)
    BY <1>3
  <2> QED BY <2>1 DEF LoopStep
<1>5. ASSUME NEW n \in Nat, NEW b \in BOOLEAN
      PROVE  G[n][b] = Weight(~b, n % 10) + G[n \div 10][~b]
  <2>1. CASE n = 0
    <3>1. n % 10 = 0 /\ n \div 10 = 0
      BY <2>1
    <3>2. Weight(~b, 0) = 0
      BY DEF Weight, Doubled
    <3>3. (~b) \in BOOLEAN
      OBVIOUS
    <3>4. G[n][b] = 0 /\ G[n \div 10][~b] = 0 /\ Weight(~b, n % 10) = 0
      BY <1>4, <2>1, <3>1, <3>2, <3>3
    <3> QED BY <3>4
  <2>2. CASE n # 0
    <3>1. G[n] = LoopStep(G, n)
      BY <1>3
    <3> HIDE DEF Weight
    <3> QED BY <2>2, <3>1, Zenon DEF LoopStep
  <2> QED BY <2>1, <2>2
<1> DEFINE T == {n \in Nat : \E b \in BOOLEAN : G[n][b] \notin Nat}
<1>6. T = {}
  <2>1. SUFFICES ASSUME T # {} PROVE FALSE
    OBVIOUS
  <2>2. PICK n \in T : \A m \in T : n <= m
    <3> HIDE DEF T
    <3>1. T \subseteq Nat
      BY DEF T
    <3> QED BY <2>1, <3>1, Least
  <2>3. PICK b \in BOOLEAN : G[n][b] \notin Nat
    BY <2>2
  <2>4. n # 0
    BY <1>4, <2>3
  <2>0. n \in Nat /\ (~b) \in BOOLEAN
    BY <2>2
  <2>5. G[n \div 10][~b] \in Nat
    <3>1. n \div 10 \in Nat /\ n \div 10 \notin T
      BY <2>0, <2>2, <2>4, Tenth
    <3> QED BY <2>0, <3>1
  <2>6. Weight(~b, n % 10) \in Nat
    <3>1. Weight(~b, n % 10) \in Digits
      BY <2>0, Tenth, WeightType
    <3> QED BY <3>1 DEF Digits
  <2> QED BY <1>5, <2>3, <2>5, <2>6
<1>7. \A n \in Nat, b \in BOOLEAN : G[n][b] \in Nat
  BY <1>6
<1> QED BY <1>4, <1>5, <1>7 DEF G

-----------------------------------------------------------------------------
(* The loop on an integer against the sum over the digits.                   *)

\* What the first n digits add; turn says whether the last of them is plain.
Weights(s, turn, n) == [i \in 1 .. n |-> Weight((n - i + turn) % 2 = 0, s[i])]

\* The loop, started with a plain digit or with a doubled one.
Loop(turn, v) == IF turn = 0 THEN LuhnSum[v][FALSE] ELSE LuhnSum[v][TRUE]

LEMMA LoopRec ==
    ASSUME NEW turn \in {0, 1}, NEW v \in Nat
    PROVE  /\ Loop(turn, v) \in Nat /\ Loop(turn, 0) = 0
           /\ Loop(turn, v) = Weight(turn = 0, v % 10) + Loop(1 - turn, v \div 10)
<1>1. /\ LuhnSum[v][TRUE] \in Nat /\ LuhnSum[v][FALSE] \in Nat
      /\ LuhnSum[0][TRUE] = 0 /\ LuhnSum[0][FALSE] = 0
  BY LuhnSumRec
<1>2. LuhnSum[v][TRUE] = Weight(FALSE, v % 10) + LuhnSum[v \div 10][FALSE]
  <2>1. LuhnSum[v][TRUE] = Weight(~TRUE, v % 10) + LuhnSum[v \div 10][~TRUE]
    BY LuhnSumRec
  <2> QED BY <2>1
<1>3. LuhnSum[v][FALSE] = Weight(TRUE, v % 10) + LuhnSum[v \div 10][TRUE]
  <2>1. LuhnSum[v][FALSE] = Weight(~FALSE, v % 10) + LuhnSum[v \div 10][~FALSE]
    BY LuhnSumRec
  <2> QED BY <2>1
<1>4. CASE turn = 0
  <2>1. 1 - turn = 1 /\ Weight(turn = 0, v % 10) = Weight(TRUE, v % 10)
    BY <1>4 DEF Weight
  <2>2. /\ Loop(turn, v) = LuhnSum[v][FALSE] /\ Loop(turn, 0) = LuhnSum[0][FALSE]
        /\ Loop(1 - turn, v \div 10) = LuhnSum[v \div 10][TRUE]
    BY <1>4, <2>1 DEF Loop
  <2> QED BY <1>1, <1>3, <2>1, <2>2
<1>5. CASE turn = 1
  <2>1. 1 - turn = 0 /\ Weight(turn = 0, v % 10) = Weight(FALSE, v % 10)
    BY <1>5 DEF Weight
  <2>2. /\ Loop(turn, v) = LuhnSum[v][TRUE] /\ Loop(turn, 0) = LuhnSum[0][TRUE]
        /\ Loop(1 - turn, v \div 10) = LuhnSum[v \div 10][FALSE]
    BY <1>5, <2>1 DEF Loop
  <2> QED BY <1>1, <1>2, <2>1, <2>2
<1> QED BY <1>4, <1>5

LEMMA WeightsType ==
    ASSUME NEW s \in Seq(Digits), NEW n \in 0 .. Len(s), NEW turn \in {0, 1}
    PROVE  IsFiniteSet(1 .. n) /\ Weights(s, turn, n) \in [1 .. n -> Int]
<1>1. IsFiniteSet(1 .. n)
  BY FS_Interval
<1>2. ASSUME NEW i \in 1 .. n PROVE Weight((n - i + turn) % 2 = 0, s[i]) \in Int
  <2>1. s[i] \in Digits /\ ((n - i + turn) % 2 = 0) \in BOOLEAN
    OBVIOUS
  <2>2. Weight((n - i + turn) % 2 = 0, s[i]) \in Digits
    BY <2>1, WeightType
  <2> QED BY <2>2 DEF Digits
<1> QED BY <1>1, <1>2 DEF Weights

\* With one digit more the others change their turn.
LEMMA WeightsNext ==
    ASSUME NEW s \in Seq(Digits), NEW n \in Nat, n + 1 <= Len(s), NEW turn \in {0, 1}
    PROVE  SumFunction(Weights(s, turn, n + 1))
               = SumFunction(Weights(s, 1 - turn, n)) + Weight(turn = 0, s[n + 1])
<1> DEFINE S == 1 .. n
           f == Weights(s, 1 - turn, n)
           h == Weights(s, turn, n + 1)
<1>1. n \in 0 .. Len(s) /\ n + 1 \in 0 .. Len(s) /\ 1 - turn \in {0, 1}
  BY Len(s) \in Nat
<1>2. 1 .. n + 1 = S \cup {n + 1} /\ n + 1 \notin S
  OBVIOUS
<1>3. IsFiniteSet(S) /\ f \in [S -> Int]
  BY <1>1, WeightsType
<1>4. h \in [S \cup {n + 1} -> Int]
  <2>1. h \in [1 .. n + 1 -> Int]
    BY <1>1, WeightsType
  <2> QED BY <1>2, <2>1
<1>5. h[n + 1] = Weight(turn = 0, s[n + 1])
  <2>1. h[n + 1] = Weight((n + 1 - (n + 1) + turn) % 2 = 0, s[n + 1])
    BY DEF Weights
  <2>2. (n + 1 - (n + 1) + turn) % 2 = 0 <=> turn = 0
    OBVIOUS
  <2> QED BY <2>1, <2>2 DEF Weight
<1>6. ASSUME NEW i \in S PROVE h[i] = f[i]
  <2>1. (n + 1 - i + turn) % 2 = 0 <=> (n - i + (1 - turn)) % 2 = 0
    OBVIOUS
  <2> QED BY <2>1 DEF Weights, Weight
<1>7. SumFunction(h) = SumFunction(f) + h[n + 1]
  <2> DEFINE x == n + 1
  <2>1. x \notin S /\ h \in [S \cup {x} -> Int]
    BY <1>2, <1>4
  <2> HIDE DEF f, h, S, x
  <2>2. SumFunction(h) = SumFunction(f) + h[x]
    <3>1. /\ IsFiniteSet(S) /\ f \in [S -> Int] /\ \A y \in S : h[y] = f[y]
      BY <1>3, <1>6
    <3> QED BY <2>1, <3>1, SumAdd, Z3T(60)
  <2> QED BY <2>2 DEF x
<1> QED BY <1>5, <1>7 DEF f, h

\* The loop on the value of the first n digits adds up what they add: leading zeros
\* add nothing, and the loop's first digit is the text's last.
LEMMA LoopIsSum ==
    ASSUME NEW s \in Seq(Digits), NEW k \in 0 .. Len(s), NEW turn \in {0, 1}
    PROVE  SumFunction(Weights(s, turn, k)) = Loop(turn, PrefixValues(s)[k])
<1> DEFINE V == PrefixValues(s)
           W(b, n) == SumFunction(Weights(s, b, n))
           T == {n \in Nat : n <= Len(s) => \A b \in {0, 1} : W(b, n) = Loop(b, V[n])}
<1>0. Len(s) \in Nat
  OBVIOUS
<1>1. /\ V \in [0 .. Len(s) -> Nat] /\ V[0] = 0
      /\ \A n \in 1 .. Len(s) : V[n] = 10 * V[n - 1] + s[n]
  BY PrefixesRec
<1> HIDE DEF V
<1>2. 0 \in T
  <2>1. ASSUME NEW b \in {0, 1} PROVE W(b, 0) = Loop(b, V[0])
    <3>1. DOMAIN Weights(s, b, 0) = {}
      BY DEF Weights
    <3>2. W(b, 0) = 0
      BY <3>1, SumEmpty
    <3>3. Loop(b, 0) = 0
      BY LoopRec
    <3> QED BY <1>1, <3>2, <3>3
  <2> QED BY <2>1
<1>3. ASSUME NEW n \in Nat, n \in T PROVE n + 1 \in T
  <2> SUFFICES ASSUME n + 1 <= Len(s), NEW b \in {0, 1}
               PROVE  W(b, n + 1) = Loop(b, V[n + 1])
    OBVIOUS
  <2> DEFINE d == s[n + 1]
  <2>1. n <= Len(s) /\ n + 1 \in 1 .. Len(s) /\ d \in Digits /\ 1 - b \in {0, 1}
    BY <1>0
  <2>2. W(b, n + 1) = W(1 - b, n) + Weight(b = 0, d)
    BY WeightsNext
  <2>3. W(1 - b, n) = Loop(1 - b, V[n])
    <3> HIDE DEF W
    <3> QED BY <1>3, <2>1
  <2>4. V[n + 1] = 10 * V[n] + d /\ V[n] \in Nat
    BY <1>1, <2>1
  <2>5. V[n + 1] \in Nat /\ V[n + 1] % 10 = d /\ V[n + 1] \div 10 = V[n]
    <3>1. /\ 10 * V[n] + d \in Nat /\ (10 * V[n] + d) % 10 = d
          /\ (10 * V[n] + d) \div 10 = V[n]
      <4> HIDE DEF d, V
      <4> QED BY <2>1, <2>4, LastDigit, Zenon
    <3> QED BY <2>4, <3>1, Zenon
  <2>6. Loop(b, V[n + 1]) = Weight(b = 0, d) + Loop(1 - b, V[n])
    BY <2>5, LoopRec
  <2>7. Weight(b = 0, d) \in Nat /\ Loop(1 - b, V[n]) \in Nat
    <3>1. Weight(b = 0, d) \in Digits
      BY <2>1, WeightType
    <3>2. Weight(b = 0, d) \in Nat
      BY <3>1 DEF Digits
    <3> QED BY <2>1, <2>4, <3>2, LoopRec
  <2> HIDE DEF W, d
  <2> QED BY <2>2, <2>3, <2>6, <2>7
<1> HIDE DEF T
<1>4. k \in T
  BY <1>2, <1>3, Steps
<1> HIDE DEF W
<1>5. W(turn, k) = Loop(turn, V[k])
  BY <1>0, <1>4 DEF T
<1> QED BY <1>5 DEF V, W

\* The definition's sum is the loop's, with the last digit plain.
LEMMA LuhnDigitsSum ==
    ASSUME NEW s \in Seq(Digits)
    PROVE  /\ LuhnDigits(s) \in [1 .. Len(s) -> Int]
           /\ \A i \in 1 .. Len(s) :
                  LuhnDigits(s)[i] = Weight((Len(s) - i) % 2 = 0, s[i])
           /\ SumFunction(LuhnDigits(s)) = LuhnSum[PrefixValues(s)[Len(s)]][FALSE]
<1>1. /\ DOMAIN s = 1 .. Len(s) /\ Len(s) \in 0 .. Len(s)
      /\ \A i \in 1 .. Len(s) : s[i] \in Digits
  BY Len(s) \in Nat
<1>2. ASSUME NEW d \in Digits PROVE ((2 * d) % 10) + ((2 * d) \div 10) = Doubled(d)
  BY <1>2 DEF Digits, Doubled
<1>3. \A i \in 1 .. Len(s) : LuhnDigits(s)[i] = Weight((Len(s) - i) % 2 = 0, s[i])
  BY <1>1, <1>2 DEF LuhnDigits, Weight
<1>4. LuhnDigits(s) = Weights(s, 0, Len(s))
  <2>1. \A i \in 1 .. Len(s) : (Len(s) - i) % 2 = (Len(s) - i + 0) % 2
    BY <1>1
  <2>2. \A i \in 1 .. Len(s) : Weights(s, 0, Len(s))[i] = LuhnDigits(s)[i]
    BY <1>3, <2>1 DEF Weights, Weight
  <2>3. LuhnDigits(s) = [i \in 1 .. Len(s) |-> LuhnDigits(s)[i]]
    BY <1>1 DEF LuhnDigits
  <2>4. Weights(s, 0, Len(s)) = [i \in 1 .. Len(s) |-> Weights(s, 0, Len(s))[i]]
    BY DEF Weights
  <2> QED BY <2>2, <2>3, <2>4
<1>5. LuhnDigits(s) \in [1 .. Len(s) -> Int]
  <2>1. Weights(s, 0, Len(s)) \in [1 .. Len(s) -> Int]
    BY <1>1, WeightsType
  <2> QED BY <1>4, <2>1
<1>6. SumFunction(Weights(s, 0, Len(s))) = Loop(0, PrefixValues(s)[Len(s)])
  BY <1>1, LoopIsSum
<1> QED BY <1>3, <1>4, <1>5, <1>6 DEF Loop

-----------------------------------------------------------------------------
(* The check.                                                                *)

LEMMA RemOfNat ==
    ASSUME NEW n \in Nat
    PROVE  Quo(n) = n \div 10 /\ Rem(n) = n % 10 /\ Rem(n) \in Nat
BY DEF Quo, Rem

LEMMA Mod10 ==
    ASSUME NEW a \in Nat, NEW b \in Nat
    PROVE  (a + (b % 10)) % 10 = (a + b) % 10
OBVIOUS

\* What IsValid computes is whether the Luhn check holds.
LEMMA CheckIsLuhn ==
    ASSUME NEW s \in Seq(Digits), NEW n, n = PrefixValues(s)[Len(s)]
    PROVE  n \in Nat /\ (Rem(Rem(n) + checksum(Quo(n))) = 0 <=> LuhnHolds(s))
<1> DEFINE q == n \div 10
           c == LuhnSum[q][TRUE]
<1>1. n \in Nat /\ q \in Nat /\ n % 10 \in Nat
  <2>1. Len(s) \in 0 .. Len(s)
    BY Len(s) \in Nat
  <2>2. n \in Nat
    BY <2>1, PrefixesRec
  <2> QED BY <2>2
<1>2. c \in Nat /\ LuhnSum[0][TRUE] = 0
  <2> HIDE DEF q
  <2> QED BY <1>1, LuhnSumRec
<1>3. LuhnSum[n][FALSE] = (n % 10) + c
  <2>1. LuhnSum[n][FALSE] = Weight(~FALSE, n % 10) + LuhnSum[n \div 10][~FALSE]
    BY <1>1, LuhnSumRec
  <2> QED BY <2>1 DEF Weight
<1>4. checksum(Quo(n)) = c % 10
  <2>1. Quo(n) = q
    BY <1>1, RemOfNat
  <2>2. q = 0 => c = 0
    BY <1>2
  <2>3. CASE q > 0
    <3> HIDE DEF q
    <3> QED BY <2>1, <2>3 DEF checksum
  <2>4. CASE q = 0
    <3> HIDE DEF c
    <3>1. c = 0 /\ c % 10 = 0
      BY <2>2, <2>4
    <3> HIDE DEF q
    <3> QED BY <2>1, <2>4, <3>1 DEF checksum
  <2>5. q > 0 \/ q = 0
    BY <1>1
  <2> HIDE DEF q
  <2> QED BY <2>3, <2>4, <2>5
<1>5. Rem(Rem(n) + checksum(Quo(n))) = ((n % 10) + c) % 10
  <2> HIDE DEF c, q
  <2>1. Rem(n) = n % 10 /\ c % 10 \in Nat
    BY <1>1, <1>2, RemOfNat
  <2>2. (n % 10) + (c % 10) \in Nat
    BY <1>1, <2>1
  <2>3. Rem((n % 10) + (c % 10)) = ((n % 10) + (c % 10)) % 10
    BY <2>2, RemOfNat
  <2> QED BY <1>1, <1>2, <1>4, <2>1, <2>3, Mod10
<1>6. LuhnHolds(s) <=> ((n % 10) + c) % 10 = 0
  <2>1. SumFunction(LuhnDigits(s)) = LuhnSum[n][FALSE]
    BY LuhnDigitsSum
  <2> QED BY <1>3, <2>1 DEF LuhnHolds
<1> QED BY <1>1, <1>5, <1>6

LEMMA TextsAreSequences == Texts \subseteq Seq(Digits \cup {Plus, Minus, OtherCharacter})
<1> SUFFICES ASSUME NEW t \in Texts PROVE t \in Seq(Digits \cup {Plus, Minus, OtherCharacter})
  OBVIOUS
<1>1. PICK m \in 0 .. MaxLength : t \in [1 .. m -> Digits \cup {Plus, Minus, OtherCharacter}]
  BY DEF Texts, BoundedSeq, SeqOf
<1>2. m \in Nat
  BY NumberAssumption
<1> QED BY <1>1, <1>2

\* A number that is parsed and not negative: its digits, with or without a plus.
LEMMA CheckedText ==
    ASSUME NEW t \in Texts, Parses(t), ~IsMinus(t)
    PROVE  Unsigned(t) \in Seq(Digits) /\ (IsValid(t) <=> LuhnHolds(Unsigned(t)))
<1> DEFINE s == Unsigned(t)
<1>1. t \in Seq(Digits \cup {Plus, Minus, OtherCharacter})
  BY TextsAreSequences
<1>2. s \in Seq(Digits \cup {Plus, Minus, OtherCharacter})
  BY <1>1 DEF Unsigned, Signed
<1>3. s \in Seq(Digits)
  <2>1. \A i \in 1 .. Len(s) : s[i] \in Digits
    BY <1>2 DEF Parses, ToSet
  <2> QED BY <1>2, <2>1
<1>4. Atoi(t) = PrefixValues(s)[Len(s)]
  BY DEF Atoi, Magnitude
<1> HIDE DEF s
<1>5. Rem(Rem(Atoi(t)) + checksum(Quo(Atoi(t)))) = 0 <=> LuhnHolds(s)
  BY <1>3, <1>4, CheckIsLuhn
<1> QED BY <1>3, <1>5 DEF IsValid, s

\* A number with a minus sign: the loop is not entered, its last digit alone decides.
LEMMA MinusText ==
    ASSUME NEW t \in Texts, Parses(t), IsMinus(t)
    PROVE  IsValid(t) <=> Magnitude(t) % 10 = 0
<1> DEFINE s == Unsigned(t)
           n == Magnitude(t)
<1>1. t \in Seq(Digits \cup {Plus, Minus, OtherCharacter})
  BY TextsAreSequences
<1>2. s \in Seq(Digits \cup {Plus, Minus, OtherCharacter})
  BY <1>1 DEF Unsigned, Signed
<1>3. s \in Seq(Digits)
  <2>1. \A i \in 1 .. Len(s) : s[i] \in Digits
    BY <1>2 DEF Parses, ToSet
  <2> QED BY <1>2, <2>1
<1>4. n = PrefixValues(s)[Len(s)]
  BY DEF Magnitude
<1> HIDE DEF s
<1>5. n \in Nat
  BY <1>3, <1>4, CheckIsLuhn
<1>6. Atoi(t) = 0 - n
  BY DEF Atoi
<1> HIDE DEF n
<1>7. checksum(Quo(0 - n)) = 0
  <2>1. Quo(0 - n) \in Int /\ Quo(0 - n) <= 0
    BY <1>5 DEF Quo
  <2>2. ~(Quo(0 - n) > 0)
    BY <2>1
  <2> QED BY <2>2, Zenon DEF checksum
<1>8. Rem(0 - n) = 0 - (n % 10)
  BY <1>5 DEF Rem, Quo
<1>9. n % 10 \in 0 .. 9
  BY <1>5
<1>10. Rem((0 - (n % 10)) + 0) = 0 - (n % 10)
  <2>1. PICK d \in 0 .. 9 : d = n % 10
    BY <1>9
  <2>2. Rem((0 - d) + 0) = 0 - d
    BY DEF Rem, Quo
  <2> QED BY <2>1, <2>2
<1>11. IsValid(t) <=> 0 - (n % 10) = 0
  BY <1>6, <1>7, <1>8, <1>10 DEF IsValid
<1> QED BY <1>9, <1>11 DEF n

LEMMA DigitText ==
    ASSUME NEW t \in DigitTexts
    PROVE  /\ t \in Texts /\ t \in Seq(Digits) /\ t # <<>>
           /\ Unsigned(t) = t /\ ~IsMinus(t)
           /\ Magnitude(t) <= IntMax => Parses(t)
<1>1. t \in Seq(Digits \cup {Plus, Minus, OtherCharacter}) /\ t # <<>>
  BY TextsAreSequences DEF DigitTexts
<1>2. t \in Seq(Digits)
  <2>1. \A i \in 1 .. Len(t) : t[i] \in Digits
    BY <1>1 DEF DigitTexts, ToSet
  <2> QED BY <1>1, <2>1
<1>3. t[1] \in Digits
  BY <1>1, <1>2
<1>4. ~Signed(t)
  BY <1>3 DEF Signed, Digits, Plus, Minus
<1> QED BY <1>1, <1>2, <1>4 DEF DigitTexts, Unsigned, IsMinus, Parses

\* IsValid is the Luhn check, for texts of digits of every length that fit into an
\* int: the loop over the integer's digits sees what the definition sees.
THEOREM LuhnIsChecked == DigitsFollowLuhn
<1> SUFFICES ASSUME NEW t \in DigitTexts, Magnitude(t) <= IntMax
             PROVE  IsValid(t) <=> LuhnHolds(t)
  BY DEF DigitsFollowLuhn
<1> QED BY DigitText, CheckedText

-----------------------------------------------------------------------------
(* Typos.                                                                    *)

\* h is f but for its value at x.
Replaces(D, x, f, h) ==
    /\ IsFiniteSet(D) /\ x \in D /\ f \in [D -> Int] /\ h \in [D -> Int]
    /\ \A y \in D \ {x} : h[y] = f[y]

\* Sums of functions that differ in one place.
LEMMA SumReplace ==
    ASSUME NEW D, NEW x, NEW f, NEW h, Replaces(D, x, f, h)
    PROVE  /\ SumFunction(f) \in Int /\ SumFunction(h) \in Int
           /\ SumFunction(h) - h[x] = SumFunction(f) - f[x]
<1> USE DEF Replaces
<1> DEFINE S == D \ {x}
           r == [y \in S |-> f[y]]
<1>1. IsFiniteSet(S) /\ x \notin S /\ S \cup {x} = D
  BY FS_Subset
<1>2. r \in [S -> Int] /\ (\A y \in S : f[y] = r[y]) /\ (\A y \in S : h[y] = r[y])
  OBVIOUS
<1>3. f \in [S \cup {x} -> Int] /\ h \in [S \cup {x} -> Int]
  BY <1>1
<1> HIDE DEF S, r
<1>4. SumFunction(f) = SumFunction(r) + f[x]
  BY <1>1, <1>2, <1>3, SumAdd
<1>5. SumFunction(h) = SumFunction(r) + h[x]
  BY <1>1, <1>2, <1>3, SumAdd
<1>6. SumFunction(r) \in Int /\ f[x] \in Int /\ h[x] \in Int
  BY <1>1, <1>2, SumType
<1> QED BY <1>4, <1>5, <1>6

\* t is s with d for its i-th digit.
Retypes(s, i, d, t) ==
    s \in Seq(Digits) /\ i \in 1 .. Len(s) /\ d \in Digits /\ t = [s EXCEPT ![i] = d]

\* Writing another digit changes the sum by what that digit adds.
LEMMA Retyped ==
    ASSUME NEW s, NEW i, NEW d, NEW t, Retypes(s, i, d, t)
    PROVE  LET plain == (Len(s) - i) % 2 = 0
           IN  /\ t \in Seq(Digits) /\ Len(t) = Len(s)
               /\ t[i] = d /\ \A j \in 1 .. Len(s) : j # i => t[j] = s[j]
               /\ SumFunction(LuhnDigits(s)) \in Int /\ SumFunction(LuhnDigits(t)) \in Int
               /\ SumFunction(LuhnDigits(t)) - SumFunction(LuhnDigits(s))
                      = Weight(plain, d) - Weight(plain, s[i])
<1> DEFINE D == 1 .. Len(s)
           plain(j) == (Len(s) - j) % 2 = 0
           f == LuhnDigits(s)
           h == LuhnDigits(t)
<1>1. /\ t \in Seq(Digits) /\ Len(t) = Len(s) /\ Len(s) \in Nat
      /\ t[i] = d /\ \A j \in D : j # i => t[j] = s[j]
      /\ s \in Seq(Digits)
  BY DEF Retypes
<1>2. f \in [D -> Int] /\ \A j \in D : f[j] = Weight(plain(j), s[j])
  BY <1>1, LuhnDigitsSum
<1>3. h \in [D -> Int] /\ \A j \in D : h[j] = Weight(plain(j), t[j])
  <2>1. /\ h \in [1 .. Len(t) -> Int]
        /\ \A j \in 1 .. Len(t) : h[j] = Weight((Len(t) - j) % 2 = 0, t[j])
    BY <1>1, LuhnDigitsSum
  <2> QED BY <1>1, <2>1
<1>4. IsFiniteSet(D) /\ i \in D
  BY <1>1, FS_Interval DEF Retypes
<1>5. \A j \in D \ {i} : h[j] = f[j]
  BY <1>1, <1>2, <1>3
<1>6. h[i] = Weight(plain(i), d) /\ f[i] = Weight(plain(i), s[i])
  BY <1>1, <1>2, <1>3, <1>4
<1>7. h[i] \in Int /\ f[i] \in Int
  BY <1>2, <1>3, <1>4
<1> HIDE DEF f, h, D, plain
<1>8. /\ SumFunction(f) \in Int /\ SumFunction(h) \in Int
      /\ SumFunction(h) - h[i] = SumFunction(f) - f[i]
  <2>1. Replaces(D, i, f, h)
    BY <1>2, <1>3, <1>4, <1>5 DEF Replaces
  <2> QED BY <2>1, SumReplace
<1>9. SumFunction(h) - SumFunction(f) = h[i] - f[i]
  BY <1>7, <1>8
<1> QED BY <1>1, <1>6, <1>8, <1>9 DEF f, h, D, plain

LEMMA DoubledDigit ==
    ASSUME NEW d \in Digits
    PROVE  d \in 0 .. 9 /\ Doubled(d) = IF d < 5 THEN 2 * d ELSE 2 * d - 9
BY DEF Digits, Doubled

\* No two digits add the same modulo 10, plain or doubled.
LEMMA DigitsDiffer ==
    ASSUME NEW d \in Digits, NEW e \in Digits, d # e
    PROVE  (d - e) % 10 # 0 /\ (Doubled(d) - Doubled(e)) % 10 # 0
BY DoubledDigit

\* Nor do two pairs of them, one plain and one doubled, that differ by a swap, but for
\* 0 and 9.
LEMMA SwapDiffers ==
    ASSUME NEW d \in Digits, NEW e \in Digits, d # e, {d, e} # {0, 9},
           NEW p, NEW q, p <=> ~q
    PROVE  LET first == Weight(p, e) - Weight(p, d)
               second == Weight(q, d) - Weight(q, e)
           IN  first \in Int /\ second \in Int /\ (first + second) % 10 # 0
<1>1. ~(d = 0 /\ e = 9) /\ ~(d = 9 /\ e = 0)
  OBVIOUS
<1>2. CASE p
  <2>1. /\ Weight(p, e) = e /\ Weight(p, d) = d
        /\ Weight(q, e) = Doubled(e) /\ Weight(q, d) = Doubled(d)
    BY <1>2 DEF Weight
  <2> QED BY <1>1, <2>1, DoubledDigit
<1>3. CASE ~p
  <2>1. /\ Weight(p, e) = Doubled(e) /\ Weight(p, d) = Doubled(d)
        /\ Weight(q, e) = e /\ Weight(q, d) = d
    BY <1>3 DEF Weight
  <2> QED BY <1>1, <2>1, DoubledDigit
<1> QED BY <1>2, <1>3

\* If the sum changes by what is not a multiple of 10, the check fails.
LEMMA SumChanges ==
    ASSUME NEW a \in Int, NEW b \in Int, a % 10 = 0, (b - a) % 10 # 0
    PROVE  b % 10 # 0
OBVIOUS

\* Texts of digits are compared by their sums.
LEMMA ValidByLuhn ==
    ASSUME NEW t \in DigitTexts, NEW u \in Seq(Digits), Len(u) = Len(t), IsValid(u)
    PROVE  SumFunction(LuhnDigits(u)) % 10 = 0
<1>1. t \in [1 .. Len(t) -> Digits \cup {Plus, Minus, OtherCharacter}] /\ Len(t) <= MaxLength
  <2>1. PICK m \in 0 .. MaxLength :
            t \in [1 .. m -> Digits \cup {Plus, Minus, OtherCharacter}]
    BY DEF DigitTexts, Texts, BoundedSeq, SeqOf
  <2>2. m \in Nat /\ t \in Seq(Digits)
    BY DigitText, NumberAssumption
  <2>3. Len(t) = m
    BY <2>1, <2>2
  <2> QED BY <2>1, <2>3
<1>2. u \in Texts
  <2>1. u \in [1 .. Len(t) -> Digits \cup {Plus, Minus, OtherCharacter}]
    OBVIOUS
  <2>2. Len(t) \in 0 .. MaxLength
    BY <1>1, Len(u) \in Nat, NumberAssumption
  <2> QED BY <2>1, <2>2 DEF Texts, BoundedSeq, SeqOf
<1>3. u # <<>> /\ ToSet(u) \subseteq Digits
  <2>1. t \in Seq(Digits) /\ t # <<>>
    BY DigitText
  <2> QED BY <2>1 DEF ToSet
<1>4. u \in DigitTexts
  BY <1>2, <1>3 DEF DigitTexts
<1>5. Unsigned(u) = u /\ ~IsMinus(u) /\ Parses(u)
  BY <1>4, DigitText DEF IsValid
<1>6. LuhnHolds(u)
  BY <1>2, <1>5, CheckedText
<1> QED BY <1>6 DEF LuhnHolds

\* No single mistyped digit and no swap of neighbours goes unnoticed, but for 09 and 90;
\* also when the mistyped number no longer fits into an int.
THEOREM TyposCaught == TyposAreCaught
<1> SUFFICES ASSUME NEW t \in DigitTexts, IsValid(t)
             PROVE  /\ \A i \in DOMAIN t : \A d \in Digits \ {t[i]} :
                           ~IsValid([t EXCEPT ![i] = d])
                    /\ \A i \in 1 .. Len(t) - 1 :
                           t[i] # t[i + 1] /\ {t[i], t[i + 1]} # {0, 9} =>
                               ~IsValid([t EXCEPT ![i] = t[i + 1], ![i + 1] = t[i]])
  BY DEF TyposAreCaught
<1> DEFINE Sum(s) == SumFunction(LuhnDigits(s))
           plain(i) == (Len(t) - i) % 2 = 0
<1>1. /\ t \in Seq(Digits) /\ DOMAIN t = 1 .. Len(t) /\ Len(t) \in Nat
      /\ \A i \in 1 .. Len(t) : t[i] \in Digits
  BY DigitText
<1>2. Sum(t) % 10 = 0
  BY <1>1, ValidByLuhn
<1>3. ASSUME NEW i \in DOMAIN t, NEW d \in Digits \ {t[i]}
      PROVE  ~IsValid([t EXCEPT ![i] = d])
  <2> DEFINE u == [t EXCEPT ![i] = d]
  <2>1. /\ u \in Seq(Digits) /\ Len(u) = Len(t)
        /\ Sum(t) \in Int /\ Sum(u) \in Int
        /\ Sum(u) - Sum(t) = Weight(plain(i), d) - Weight(plain(i), t[i])
    <3>1. Retypes(t, i, d, u)
      BY <1>1 DEF Retypes
    <3> HIDE DEF u
    <3> QED BY <3>1, Retyped
  <2>2. (Weight(plain(i), d) - Weight(plain(i), t[i])) % 10 # 0
    BY <1>1, DigitsDiffer DEF Weight
  <2> HIDE DEF Sum, u, plain
  <2>3. Sum(u) % 10 # 0
    BY <1>2, <2>1, <2>2, SumChanges
  <2>4. IsValid(u) => Sum(u) % 10 = 0
    BY <2>1, ValidByLuhn DEF Sum
  <2> QED BY <2>3, <2>4 DEF u
<1>4. ASSUME NEW i \in 1 .. Len(t) - 1, t[i] # t[i + 1], {t[i], t[i + 1]} # {0, 9}
      PROVE  ~IsValid([t EXCEPT ![i] = t[i + 1], ![i + 1] = t[i]])
  <2> DEFINE v == [t EXCEPT ![i] = t[i + 1]]
             u == [v EXCEPT ![i + 1] = t[i]]
  <2>0. /\ i \in 1 .. Len(t) /\ i + 1 \in 1 .. Len(t) /\ i # i + 1
        /\ t[i] \in Digits /\ t[i + 1] \in Digits
    BY <1>1
  <2>1. /\ v \in Seq(Digits) /\ Len(v) = Len(t) /\ v[i + 1] = t[i + 1]
        /\ Sum(t) \in Int /\ Sum(v) \in Int
        /\ Sum(v) - Sum(t) = Weight(plain(i), t[i + 1]) - Weight(plain(i), t[i])
    <3>1. Retypes(t, i, t[i + 1], v) /\ v[i + 1] = t[i + 1]
      BY <1>1, <2>0 DEF Retypes
    <3> HIDE DEF v
    <3> QED BY <3>1, Retyped
  <2>2. /\ u \in Seq(Digits) /\ Len(u) = Len(t) /\ Sum(u) \in Int
        /\ Sum(u) - Sum(v) = Weight(plain(i + 1), t[i]) - Weight(plain(i + 1), t[i + 1])
    <3> HIDE DEF v
    <3>1. Retypes(v, i + 1, t[i], u)
      BY <2>0, <2>1 DEF Retypes
    <3> HIDE DEF u
    <3>2. /\ u \in Seq(Digits) /\ Len(u) = Len(v) /\ Sum(u) \in Int
          /\ Sum(u) - Sum(v) = Weight((Len(v) - (i + 1)) % 2 = 0, t[i])
                                   - Weight((Len(v) - (i + 1)) % 2 = 0, v[i + 1])
      BY <3>1, Retyped
    <3> QED BY <2>1, <3>2
  <2>3. plain(i) <=> ~plain(i + 1)
    BY <1>1, <2>0
  <2>4. u = [t EXCEPT ![i] = t[i + 1], ![i + 1] = t[i]]
    BY <1>1, <2>0
  <2> DEFINE first == Weight(plain(i), t[i + 1]) - Weight(plain(i), t[i])
             second == Weight(plain(i + 1), t[i]) - Weight(plain(i + 1), t[i + 1])
  <2>5. first \in Int /\ second \in Int /\ (first + second) % 10 # 0
    <3> HIDE DEF plain
    <3> QED BY <1>4, <2>0, <2>3, SwapDiffers
  <2> HIDE DEF Sum, u, first, second
  <2>6. Sum(u) - Sum(t) = first + second
    BY <2>1, <2>2, <2>5 DEF first, second
  <2>7. Sum(u) % 10 # 0
    BY <1>2, <2>1, <2>2, <2>5, <2>6, SumChanges
  <2>8. IsValid(u) => Sum(u) % 10 = 0
    BY <2>2, ValidByLuhn DEF Sum
  <2> QED BY <2>4, <2>7, <2>8
<1> QED BY <1>3, <1>4
=============================================================================
