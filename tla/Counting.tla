------------------------------ MODULE Counting ------------------------------
(***************************************************************************)
(* Counting by rows, for the proofs that bound how many instances the      *)
(* overlapping executions of scale_up create: each instance is charged to  *)
(* one execution, and no execution is charged too many.                    *)
(***************************************************************************)
EXTENDS Integers, FiniteSetTheorems, TLAPS

\* The elements of S that f maps to t
Row(S, f, t) == {x \in S : f[x] = t}

\* A finite set with at most n elements can be numbered by 1 .. n.
LEMMA Numbering ==
    ASSUME NEW S, IsFiniteSet(S), NEW n \in Nat, Cardinality(S) <= n
    PROVE  \E g \in [S -> 1 .. n] : \A x, y \in S : g[x] = g[y] => x = y
<1> DEFINE c == Cardinality(S)
<1>1. c \in Nat /\ ExistsBijection(1 .. c, S)
  BY FS_CardinalityType
<1>2. PICK b \in Bijection(1 .. c, S) : TRUE
  BY <1>1 DEF ExistsBijection
<1>3. b \in [1 .. c -> S] /\ \A x \in S : \E i \in 1 .. c : b[i] = x
  BY <1>2 DEF Bijection, Injection, Surjection
<1> DEFINE g == [x \in S |-> CHOOSE i \in 1 .. c : b[i] = x]
<1>4. \A x \in S : g[x] \in 1 .. c /\ b[g[x]] = x
  BY <1>3
<1>5. c <= n
  OBVIOUS
<1> HIDE DEF c
<1>6. 1 .. c \subseteq 1 .. n
  BY <1>1, <1>5
<1>7. \A x \in S : g[x] \in 1 .. n
  BY <1>4, <1>6
<1>8. g \in [S -> 1 .. n]
  BY <1>7
<1>9. \A x, y \in S : g[x] = g[y] => x = y
  BY <1>4
<1> QED
  BY <1>8, <1>9

\* If no row has more than d elements, the set has at most d for each row.
LEMMA RowsCount ==
    ASSUME NEW S, NEW T, IsFiniteSet(S), IsFiniteSet(T), NEW d \in Nat,
           NEW f \in [S -> T], \A t \in T : Cardinality(Row(S, f, t)) <= d
    PROVE  Cardinality(S) <= Cardinality(T) * d
<1> DEFINE Fits(t, g) == /\ g \in [Row(S, f, t) -> 1 .. d]
                         /\ \A x, y \in Row(S, f, t) : g[x] = g[y] => x = y
           g == [t \in T |-> CHOOSE g : Fits(t, g)]
           h == [x \in S |-> <<f[x], g[f[x]][x]>>]
<1>1. ASSUME NEW t \in T PROVE Fits(t, g[t])
  <2>1. IsFiniteSet(Row(S, f, t))
    BY FS_Subset DEF Row
  <2>2. \E k : Fits(t, k)
    BY <2>1, Numbering
  <2> QED
    BY <2>2
<1>2. \A x \in S : f[x] \in T /\ x \in Row(S, f, f[x])
  BY DEF Row
<1>3. \A x \in S : g[f[x]][x] \in 1 .. d
  BY <1>1, <1>2
<1>4. h \in [S -> T \X (1 .. d)]
  BY <1>2, <1>3
<1>5. ASSUME NEW x \in S, NEW y \in S, h[x] = h[y] PROVE x = y
  <2>1. f[x] = f[y] /\ g[f[x]][x] = g[f[x]][y]
    <3>1. h[x] = <<f[x], g[f[x]][x]>> /\ h[y] = <<f[y], g[f[y]][y]>>
      OBVIOUS
    <3> HIDE DEF h, g
    <3>2. <<f[x], g[f[x]][x]>> = <<f[y], g[f[y]][y]>>
      BY <1>5, <3>1
    <3>3. f[x] = f[y] /\ g[f[x]][x] = g[f[y]][y]
      BY <3>2
    <3> QED
      BY <3>3
  <2>2. y \in Row(S, f, f[x])
    BY <2>1 DEF Row
  <2> QED
    BY <1>1, <1>2, <2>1, <2>2
<1>6. h \in Injection(S, T \X (1 .. d))
  BY <1>4, <1>5 DEF Injection, IsInjective
<1>7. IsFiniteSet(1 .. d) /\ Cardinality(1 .. d) = d
  BY FS_Interval
<1>8. /\ IsFiniteSet(T \X (1 .. d))
      /\ Cardinality(T \X (1 .. d)) = Cardinality(T) * d
  BY <1>7, FS_Product
<1> QED
  BY <1>6, <1>8, FS_Injection

\* The same when one row may have as many as m elements.
LEMMA RowsCountButOne ==
    ASSUME NEW S, NEW T, IsFiniteSet(S), IsFiniteSet(T), NEW d \in Nat,
           NEW m \in Nat, NEW f \in [S -> T], NEW one \in T,
           Cardinality(Row(S, f, one)) <= m,
           \A t \in T \ {one} : Cardinality(Row(S, f, t)) <= d
    PROVE  Cardinality(S) <= m + (Cardinality(T) - 1) * d
<1> DEFINE First == Row(S, f, one)
           Rest == S \ First
           Others == T \ {one}
           r == [x \in Rest |-> f[x]]
<1>1. First \subseteq S /\ S = First \cup Rest /\ First \cap Rest = {}
  BY DEF Row
<1>2. IsFiniteSet(First) /\ IsFiniteSet(Rest)
  BY <1>1, FS_Subset
<1>3. Cardinality(S) = Cardinality(First) + Cardinality(Rest)
  <2> HIDE DEF First, Rest
  <2>1. Cardinality(First \cap Rest) = 0
    BY <1>1, FS_EmptySet
  <2>2. Cardinality(First) \in Nat /\ Cardinality(Rest) \in Nat
    BY <1>2, FS_CardinalityType
  <2>3. Cardinality(First \cup Rest)
          = Cardinality(First) + Cardinality(Rest) - Cardinality(First \cap Rest)
    BY <1>2, FS_Union
  <2>4. Cardinality(S) = Cardinality(First \cup Rest)
    BY <1>1
  <2> QED
    BY <2>1, <2>2, <2>3, <2>4
<1>4. IsFiniteSet(Others) /\ Cardinality(Others) = Cardinality(T) - 1
  BY FS_RemoveElement
<1>5. r \in [Rest -> Others]
  BY DEF Row
<1>6. ASSUME NEW t \in Others PROVE Cardinality(Row(Rest, r, t)) <= d
  <2>1. Row(Rest, r, t) \subseteq Row(S, f, t) /\ Row(S, f, t) \subseteq S
    BY DEF Row
  <2>2. IsFiniteSet(Row(S, f, t))
    BY <2>1, FS_Subset
  <2>3. Cardinality(Row(Rest, r, t)) <= Cardinality(Row(S, f, t))
    BY <2>1, <2>2, FS_Subset
  <2>4. /\ Cardinality(Row(Rest, r, t)) \in Nat
        /\ Cardinality(Row(S, f, t)) \in Nat
    BY <2>1, <2>2, FS_Subset, FS_CardinalityType
  <2> QED
    BY <2>3, <2>4
<1> HIDE DEF Rest, Others, r, First
<1>7. Cardinality(Rest) <= Cardinality(Others) * d
  BY <1>2, <1>4, <1>5, <1>6, RowsCount
<1>8. Cardinality(First) \in Nat /\ Cardinality(Rest) \in Nat
  BY <1>2, FS_CardinalityType
<1>9. Cardinality(First) <= m
  BY DEF First
<1> QED
  <2> DEFINE p == (Cardinality(T) - 1) * d
  <2>1. Cardinality(Rest) <= p
    BY <1>4, <1>7
  <2>2. p \in Int
    BY FS_CardinalityType
  <2> HIDE DEF p
  <2>3. Cardinality(S) <= m + p
    BY <1>3, <1>8, <1>9, <2>1, <2>2
  <2> QED
    BY <2>3 DEF p
=============================================================================
