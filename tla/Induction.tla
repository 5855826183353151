------------------------------ MODULE Induction ------------------------------
(***************************************************************************)
(* Induction over numbers and finite sets.  The theorems of the library    *)
(* take the property as an operator; here it is the set of what has it, so *)
(* that a proof can cite them.                                             *)
(***************************************************************************)
EXTENDS Integers, FiniteSetTheorems, WellFoundedInduction, TLAPS

\* Every set of numbers has a least one.
LEMMA LeastNumber ==
    ASSUME NEW T, T \subseteq Nat, T # {}
    PROVE  \E n \in T : \A m \in T : n <= m
<1>1. IsWellFoundedOn(OpToRel(<, Nat), Nat)
  BY NatLessThanWellFounded
<1>2. \E n \in T : \A m \in T : ~ (<<m, n>> \in OpToRel(<, Nat))
  BY <1>1, WFMin
<1>3. \A m, n \in Nat : m < n => <<m, n>> \in OpToRel(<, Nat)
  BY DEF OpToRel
<1>4. \A m, n \in Nat : ~ (m < n) => n <= m
  OBVIOUS
<1> QED
  BY <1>2, <1>3, <1>4

\* Induction over the subsets of a finite set: what holds of a set when it holds
\* of its proper subsets holds of all.
LEMMA SubsetInduction ==
    ASSUME NEW S, IsFiniteSet(S), NEW Good,
           \A s \in SUBSET S : (\A t \in SUBSET s : t # s => t \in Good) => s \in Good
    PROVE  SUBSET S \subseteq Good
<1>1. SUFFICES ASSUME NEW bad \in SUBSET S, bad \notin Good PROVE FALSE
  OBVIOUS
<1> DEFINE sizes == {Cardinality(s) : s \in {t \in SUBSET S : t \notin Good}}
<1>2. sizes \subseteq Nat /\ sizes # {}
  <2>1. \A s \in SUBSET S : Cardinality(s) \in Nat
    BY FS_Subset, FS_CardinalityType
  <2> QED
    BY <1>1, <2>1
<1>3. PICK n \in sizes : \A m \in sizes : n <= m
  BY <1>2, LeastNumber
<1>4. PICK s \in SUBSET S : s \notin Good /\ n = Cardinality(s)
  OBVIOUS
<1>5. ASSUME NEW t \in SUBSET s, t # s PROVE t \in Good
  <2>1. Cardinality(t) < Cardinality(s)
    <3>1. IsFiniteSet(s) /\ IsFiniteSet(t)
      BY FS_Subset
    <3>2. Cardinality(t) <= Cardinality(s) /\ Cardinality(t) # Cardinality(s)
      BY <1>5, <3>1, FS_Subset
    <3> QED
      BY <3>1, <3>2, FS_CardinalityType
  <2>2. t \in SUBSET S /\ Cardinality(t) \in Nat /\ n \in Nat
    BY <1>2, FS_Subset, FS_CardinalityType
  <2>3. SUFFICES ASSUME t \notin Good PROVE FALSE
    OBVIOUS
  <2>4. Cardinality(t) \in sizes
    BY <2>2, <2>3
  <2> QED
    BY <1>3, <1>4, <2>1, <2>2, <2>4
<1> QED
  BY <1>4, <1>5

\* Induction over the numbers up to n.
LEMMA IntervalInduction ==
    ASSUME NEW n \in Nat, NEW Good, 0 \in Good,
           \A i \in 1 .. n : i - 1 \in Good => i \in Good
    PROVE  0 .. n \subseteq Good
<1> DEFINE bad == {i \in 0 .. n : i \notin Good}
<1>1. SUFFICES ASSUME bad # {} PROVE FALSE
  OBVIOUS
<1>2. PICK i \in bad : \A j \in bad : i <= j
  <2>1. bad \subseteq Nat
    OBVIOUS
  <2> HIDE DEF bad
  <2> QED
    BY <1>1, <2>1, LeastNumber
<1>3. i # 0 /\ i \in 1 .. n
  OBVIOUS
<1>4. i - 1 \in 0 .. n /\ i - 1 < i /\ i \in Int /\ i - 1 \in Int
  BY <1>3
<1>5. i - 1 \in Good
  BY <1>2, <1>4
<1> QED
  BY <1>3, <1>5

\* Every finite set of numbers that is not empty has a greatest one.
LEMMA GreatestNumber ==
    ASSUME NEW T, T \subseteq Int, IsFiniteSet(T), T # {}
    PROVE  \E n \in T : \A m \in T : m <= n
<1> DEFINE Good == {s \in SUBSET T : s = {} \/ \E n \in s : \A m \in s : m <= n}
<1>1. ASSUME NEW s \in SUBSET T, \A t \in SUBSET s : t # s => t \in Good
      PROVE  s \in Good
  <2>1. CASE s = {}
    BY <2>1
  <2>2. CASE s # {}
    <3>1. PICK x \in s : TRUE
      BY <2>2
    <3>2. s \ {x} \in Good
      BY <1>1, <3>1
    <3>3. CASE s \ {x} = {}
      <4>1. \A m \in s : m = x
        BY <3>3
      <4>2. x <= x
        OBVIOUS
      <4> QED
        BY <4>1, <4>2
    <3>4. CASE s \ {x} # {}
      <4>1. PICK n \in s \ {x} : \A m \in s \ {x} : m <= n
        BY <3>2, <3>4
      <4>2. n \in Int /\ x \in Int /\ n \in s /\ \A m \in s : m = x \/ m \in s \ {x}
        OBVIOUS
      <4>3. CASE x <= n
        BY <4>1, <4>2, <4>3
      <4>4. CASE n <= x
        <5>1. \A m \in s : m \in Int
          OBVIOUS
        <5> QED
          BY <4>1, <4>2, <4>4, <5>1
      <4> QED
        BY <4>2, <4>3, <4>4
    <3> QED
      BY <3>3, <3>4
  <2> QED
    BY <2>1, <2>2
<1> HIDE DEF Good
<1>2. \A s \in SUBSET T : (\A t \in SUBSET s : t # s => t \in Good) => s \in Good
  BY <1>1
<1>3. SUBSET T \subseteq Good
  BY <1>2, SubsetInduction, ZenonT(40)
<1> QED
  BY <1>3 DEF Good

\* A recursive function over numbers exists: n steps from a value.
Iterates(f, n, T, base, step) ==
    f \in [0 .. n -> T] /\ f[0] = base /\ \A i \in 1 .. n : f[i] = step[<<i, f[i - 1]>>]

LEMMA StepsExist ==
    ASSUME NEW n \in Nat, NEW T, NEW base \in T, NEW step \in [(1 .. n) \X T -> T]
    PROVE  \E f : Iterates(f, n, T, base, step)
<1> DEFINE Upto(f, k) == /\ f \in [0 .. k -> T] /\ f[0] = base
                         /\ \A i \in 1 .. k : f[i] = step[<<i, f[i - 1]>>]
           Good == {k \in 0 .. n : \E f : Upto(f, k)}
<1>1. 0 \in Good
  <2> DEFINE f == [i \in 0 .. 0 |-> base]
  <2>1. Upto(f, 0) /\ 0 \in 0 .. n
    OBVIOUS
  <2> HIDE DEF f, Upto
  <2>2. \E any : Upto(any, 0)
    BY <2>1
  <2> QED
    BY <2>1, <2>2
<1>2. ASSUME NEW k \in 1 .. n, k - 1 \in Good PROVE k \in Good
  <2>1. PICK f : Upto(f, k - 1)
    BY <1>2
  <2> DEFINE g == [i \in 0 .. k |-> IF i = k THEN step[<<k, f[k - 1]>>] ELSE f[i]]
  <2>2. /\ k \in 0 .. n /\ k - 1 \in 0 .. k - 1 /\ 0 \in 0 .. k - 1 /\ k # 0
        /\ \A i \in 0 .. k : i # k => i \in 0 .. k - 1
        /\ \A i \in 1 .. k : i # k => i \in 1 .. k - 1
        /\ \A i \in 1 .. k : i - 1 \in 0 .. k /\ i - 1 # k /\ i \in 0 .. k
    OBVIOUS
  <2>3. step[<<k, f[k - 1]>>] \in T
    BY <2>1, <2>2
  <2>4. g \in [0 .. k -> T]
    BY <2>1, <2>2, <2>3
  <2>5. g[0] = base
    BY <2>1, <2>2
  <2>6. \A i \in 1 .. k : g[i] = step[<<i, g[i - 1]>>]
    BY <2>1, <2>2
  <2>7. Upto(g, k)
    BY <2>4, <2>5, <2>6
  <2> HIDE DEF g, Upto
  <2>8. \E any : Upto(any, k)
    BY <2>7
  <2> QED
    BY <2>2, <2>8
<1> HIDE DEF Good
<1>3. n \in Good
  <2>1. 0 .. n \subseteq Good
    BY <1>1, <1>2, IntervalInduction
  <2> QED
    BY <2>1
<1>4. PICK f : Upto(f, n)
  BY <1>3 DEF Good
<1>5. Iterates(f, n, T, base, step)
  BY <1>4 DEF Iterates
<1> QED
  BY <1>5

\* So does one over the subsets of a finite set, that takes their elements in
\* the order of `pick`.
Picks(pick, S) == \A s \in SUBSET S : s # {} => pick[s] \in s

Folds(f, S, T, base, pick, step) ==
    /\ f \in [SUBSET S -> T]
    /\ \A s \in SUBSET S : f[s] = IF s = {} THEN base ELSE step[<<pick[s], f[s \ {pick[s]}]>>]

LEMMA FoldExists ==
    ASSUME NEW S, IsFiniteSet(S), NEW T, NEW base \in T, NEW pick, Picks(pick, S),
           NEW step \in [S \X T -> T]
    PROVE  \E f : Folds(f, S, T, base, pick, step)
<1> DEFINE N == Cardinality(S)
           Size(n) == {s \in SUBSET S : Cardinality(s) <= n}
           rest(s) == s \ {pick[s]}
           More(f, s) == step[<<pick[s], f[rest(s)]>>]
           Upto(f, n) == /\ f \in [Size(n) -> T]
                         /\ \A s \in Size(n) : f[s] = IF s = {} THEN base ELSE More(f, s)
           Good == {n \in 0 .. N : \E f : Upto(f, n)}
<1>1. N \in Nat
  BY FS_CardinalityType
<1>2. \A s \in SUBSET S : Cardinality(s) \in Nat /\ Cardinality(s) <= N /\ IsFiniteSet(s)
  BY FS_Subset, FS_CardinalityType
<1>3. \A s \in SUBSET S : s # {} => /\ pick[s] \in s /\ rest(s) \in SUBSET S
                                      /\ Cardinality(rest(s)) = Cardinality(s) - 1
  BY <1>2, FS_RemoveElement DEF Picks
<1>4. 0 \in Good
  <2> DEFINE f == [s \in Size(0) |-> base]
  <2>1. \A s \in Size(0) : s = {}
    BY <1>2, FS_EmptySet
  <2> HIDE DEF More, Size
  <2>2. Upto(f, 0)
    BY <2>1
  <2> HIDE DEF f, Upto
  <2>3. \E any : Upto(any, 0)
    BY <2>2
  <2> QED
    BY <1>1, <2>3
<1>5. ASSUME NEW n \in 1 .. N, n - 1 \in Good
      PROVE  n \in Good
  <2>1. PICK f : Upto(f, n - 1)
    BY <1>5
  <2> DEFINE g == [s \in Size(n) |-> IF s = {} THEN base ELSE More(f, s)]
  <2>2. \A s \in Size(n) : s # {} => rest(s) \in Size(n - 1) /\ rest(s) \in Size(n)
    <3>1. SUFFICES ASSUME NEW s \in Size(n), s # {}
                   PROVE  rest(s) \in Size(n - 1) /\ rest(s) \in Size(n)
      OBVIOUS
    <3>2. /\ rest(s) \in SUBSET S /\ Cardinality(rest(s)) = Cardinality(s) - 1
          /\ Cardinality(s) \in Nat /\ Cardinality(s) <= n /\ n \in Nat
      BY <1>1, <1>2, <1>3, <3>1
    <3> HIDE DEF rest
    <3>3. Cardinality(rest(s)) <= n - 1 /\ Cardinality(rest(s)) <= n
      BY <3>2
    <3> QED
      BY <3>2, <3>3
  <2>3. \A s \in Size(n - 1) : s \in Size(n) /\ g[s] = f[s]
    <3>1. \A s \in Size(n - 1) : s \in Size(n)
      BY <1>2
    <3> HIDE DEF More, Size
    <3> QED
      BY <2>1, <3>1
  <2>4. \A s \in Size(n) : s # {} => More(f, s) \in T
    <3>1. SUFFICES ASSUME NEW s \in Size(n), s # {} PROVE More(f, s) \in T
      OBVIOUS
    <3>2. f[rest(s)] \in T
      <4> HIDE DEF rest, Size
      <4> QED
        BY <2>1, <2>2, <3>1
    <3>3. pick[s] \in S
      BY <1>3, <3>1
    <3> HIDE DEF rest, Size
    <3> QED
      BY <3>2, <3>3
  <2>5. \A s \in Size(n) : s # {} => More(g, s) = More(f, s)
    <3> HIDE DEF g, Size, rest
    <3> QED
      BY <2>2, <2>3
  <2>6. Upto(g, n)
    <3>1. g \in [Size(n) -> T]
      <4> HIDE DEF More, Size
      <4> QED
        BY <2>4
    <3>2. \A s \in Size(n) : g[s] = IF s = {} THEN base ELSE More(f, s)
      <4> HIDE DEF More, Size
      <4> QED
        OBVIOUS
    <3> HIDE DEF g, More, Size
    <3> QED
      BY <2>5, <3>1, <3>2
  <2>7. n \in 0 .. N
    BY <1>1
  <2> HIDE DEF g, Upto
  <2>8. \E any : Upto(any, n)
    BY <2>6
  <2> QED
    BY <2>7, <2>8
<1> HIDE DEF Good
<1>6. N \in Good
  <2>1. 0 .. N \subseteq Good
    BY <1>1, <1>4, <1>5, IntervalInduction
  <2> QED
    BY <1>1, <2>1
<1>7. PICK f : Upto(f, N)
  BY <1>6 DEF Good
<1>8. Size(N) = SUBSET S
  BY <1>2
<1> HIDE DEF Size
<1>9. Folds(f, S, T, base, pick, step)
  BY <1>7, <1>8 DEF Folds
<1> QED
  BY <1>9

=============================================================================
