--------------------------- MODULE Download_proofs ---------------------------
(***************************************************************************)
(* The download of an attachment, for every file, chunk size and header,   *)
(* and any number of breaks: a reply is the range that was asked for, and  *)
(* a download put together over breaks is the file.  First what the        *)
(* recursive definitions compute (where a chunk begins, the bytes of a     *)
(* file, the slices of a window), then the invariant.                      *)
(***************************************************************************)
EXTENDS Download, FiniteSetTheorems, SequenceTheorems, TLAPS

-----------------------------------------------------------------------------
(* Induction.  A property given as a set makes it first-order: a smallest   *)
(* subset without the property would have it.                              *)

LEMMA SubsetInduction ==
    ASSUME NEW S, IsFiniteSet(S), NEW P,
           \A T \in SUBSET S : (\A U \in SUBSET T : U # T => U \in P) => T \in P
    PROVE  S \in P
  <1> SUFFICES ASSUME S \notin P PROVE FALSE
    OBVIOUS
  <1> DEFINE Bad == {T \in SUBSET S : T \notin P}
  <1>1. Bad \subseteq FiniteSubsetsOf(S) /\ Bad # {}
    BY FS_Subset DEF FiniteSubsetsOf
  <1>2. PICK T \in Bad : \A U \in Bad : <<U, T>> \notin StrictSubsetOrdering(S)
    <2>1. IsWellFoundedOn(StrictSubsetOrdering(S), FiniteSubsetsOf(S))
      BY FS_StrictSubsetOrderingWellFounded
    <2> HIDE DEF Bad
    <2> QED
      BY <1>1, <2>1, WFMin
  <1>3. \A U \in SUBSET T : U # T => U \in P
    BY <1>2 DEF StrictSubsetOrdering
  <1> QED
    BY <1>2, <1>3

LEMMA Upwards ==
    ASSUME NEW n \in Nat, NEW P, 0 \in P, \A i \in 0..n-1 : i \in P => i + 1 \in P
    PROVE  \A i \in 0..n : i \in P
  <1> SUFFICES ASSUME NEW i \in 0..n PROVE i \in P
    OBVIOUS
  <1> DEFINE S == 1..i
             Q == {T \in SUBSET S : \A m \in 0..i : T = 1..m => m \in P}
  <1>1. ASSUME NEW T \in SUBSET S, \A U \in SUBSET T : U # T => U \in Q
        PROVE  T \in Q
    <2> SUFFICES ASSUME NEW m \in 0..i, T = 1..m PROVE m \in P
      OBVIOUS
    <2>1. CASE m = 0
      BY <2>1
    <2>2. CASE m # 0
      <3>1. 1..(m - 1) \in SUBSET T /\ m \in T /\ m \notin 1..(m - 1) /\ m - 1 \in 0..i
        BY <2>2
      <3>2. 1..(m - 1) \in Q
        BY <1>1, <3>1
      <3>3. m - 1 \in P
        BY <3>1, <3>2
      <3> QED
        BY <3>3, <2>2
    <2> QED
      BY <2>1, <2>2
  <1>2. IsFiniteSet(S)
    BY FS_Interval
  <1> HIDE DEF S, Q
  <1>3. S \in Q
    BY <1>1, <1>2, SubsetInduction
  <1> QED
    BY <1>3 DEF Q, S

LEMMA MaxIn ==
    ASSUME NEW S, IsFiniteSet(S), S \subseteq Nat, S # {}
    PROVE  Max(S) \in S /\ \A y \in S : Max(S) >= y
  <1> DEFINE P == {T \in SUBSET S : T # {} => \E x \in T : \A y \in T : x >= y}
  <1>1. ASSUME NEW T \in SUBSET S, \A U \in SUBSET T : U # T => U \in P
        PROVE  T \in P
    <2> SUFFICES ASSUME NEW e \in T PROVE \E x \in T : \A y \in T : x >= y
      OBVIOUS
    <2>1. CASE T \ {e} = {}
      <3>1. \A y \in T : y = e
        BY <2>1
      <3> QED
        BY <3>1
    <2>2. CASE T \ {e} # {}
      <3>1. T \ {e} \in P
        BY <1>1
      <3>2. PICK x \in T \ {e} : \A y \in T \ {e} : x >= y
        BY <2>2, <3>1
      <3>3. CASE x >= e
        BY <3>2, <3>3
      <3>4. CASE ~(x >= e)
        <4>1. \A y \in T : e >= y
          BY <3>2, <3>4
        <4> QED
          BY <4>1
      <3> QED
        BY <3>3, <3>4
    <2> QED
      BY <2>1, <2>2
  <1> HIDE DEF P
  <1>2. S \in P
    BY <1>1, SubsetInduction
  <1> QED
    BY <1>2 DEF P, Max

LEMMA AscendingAt ==
    ASSUME NEW S, NEW k \in 1..Cardinality(S), NEW e \in S,
           \A i \in S : Cardinality({j \in S : j < i}) = k - 1 <=> i = e
    PROVE  Ascending(S)[k] = e
  <1> DEFINE Rank(i) == Cardinality({j \in S : j < i})
  <1>1. Ascending(S)[k] = CHOOSE i \in S : Rank(i) = k - 1
    BY DEF Ascending
  <1> HIDE DEF Rank
  <1>2. \A i \in S : Rank(i) = k - 1 <=> i = e
    BY DEF Rank
  <1> QED
    BY <1>1, <1>2

\* The numbers of an interval, in their order.
LEMMA AscendingInterval ==
    ASSUME NEW a \in Int, NEW b \in Int
    PROVE  /\ Cardinality(a..b) = IF a > b THEN 0 ELSE b - a + 1
           /\ \A k \in 1..(b - a + 1) : Ascending(a..b)[k] = a + k - 1
  <1> DEFINE Below(i) == {j \in a..b : j < i}
             Rank(i)  == Cardinality(Below(i))
  <1>1. \A i \in a..b : Rank(i) = i - a
    <2> SUFFICES ASSUME NEW i \in a..b PROVE Rank(i) = i - a
      OBVIOUS
    <2>1. Below(i) = a..(i - 1)
      OBVIOUS
    <2> HIDE DEF Below
    <2>2. Cardinality(a..(i - 1)) = IF a > i - 1 THEN 0 ELSE (i - 1) - a + 1
      BY FS_Interval
    <2> QED
      BY <2>1, <2>2
  <1>2. Cardinality(a..b) = IF a > b THEN 0 ELSE b - a + 1
    BY FS_Interval
  <1>3. ASSUME NEW k \in 1..(b - a + 1)
        PROVE  Ascending(a..b)[k] = a + k - 1
    <2> DEFINE S == a..b
    <2>1. k \in 1..Cardinality(S) /\ a + k - 1 \in S
      BY <1>2
    <2>2. \A i \in S : Rank(i) = k - 1 <=> i = a + k - 1
      BY <1>1
    <2>3. \A i \in S : Cardinality({j \in S : j < i}) = k - 1 <=> i = a + k - 1
      BY <2>2
    <2> HIDE DEF S, Rank
    <2> QED
      BY <2>1, <2>3, AscendingAt DEF S
  <1> QED
    BY <1>2, <1>3

-----------------------------------------------------------------------------
(* Where a chunk begins.                                                   *)

Chunklists == Seq(DOMAIN SizeOf)

Adds(b, l, m) == b = [i \in 1..m + 1 |-> IF i = 1 THEN 0 ELSE b[i - 1] + SizeOf[l[i - 1]]]

LEMMA Sizes == \A l \in Chunklists : /\ Len(l) \in Nat /\ DOMAIN l = 1..Len(l)
                                     /\ \A i \in 1..Len(l) : /\ l[i] \in DOMAIN SizeOf
                                                             /\ SizeOf[l[i]] \in Nat
                                                             /\ SizeOf[l[i]] > 0
  <1> SUFFICES ASSUME NEW l \in Chunklists
               PROVE  /\ Len(l) \in Nat /\ DOMAIN l = 1..Len(l)
                      /\ \A i \in 1..Len(l) : /\ l[i] \in DOMAIN SizeOf
                                              /\ SizeOf[l[i]] \in Nat
                                              /\ SizeOf[l[i]] > 0
    OBVIOUS
  <1>1. Len(l) \in Nat /\ DOMAIN l = 1..Len(l) /\ \A i \in 1..Len(l) : l[i] \in DOMAIN SizeOf
    BY DEF Chunklists
  <1>2. \A c \in DOMAIN SizeOf : SizeOf[c] \in Nat /\ SizeOf[c] > 0
    BY DownloadConstants
  <1> QED
    BY <1>1, <1>2

LEMMA AddsExist == ASSUME NEW l \in Chunklists PROVE \E b : Adds(b, l, Len(l))
  <1> DEFINE P == {m \in 0..Len(l) : \E b : Adds(b, l, m)}
  <1>0. Len(l) \in Nat
    BY Sizes
  <1>1. 0 \in P
    <2>1. Adds([i \in 1..1 |-> 0], l, 0)
      BY DEF Adds
    <2> QED
      BY <1>0, <2>1
  <1>2. ASSUME NEW m \in 0..Len(l)-1, m \in P
        PROVE  m + 1 \in P
    <2>1. PICK b : Adds(b, l, m)
      BY <1>2
    <2> DEFINE c == [i \in 1..m + 2 |-> IF i = 1 THEN 0 ELSE b[i - 1] + SizeOf[l[i - 1]]]
    <2>2. \A i \in 1..m + 1 : c[i] = b[i]
      BY <1>0, <2>1 DEF Adds
    <2>3. c = [i \in 1..m + 2 |-> IF i = 1 THEN 0 ELSE c[i - 1] + SizeOf[l[i - 1]]]
      <3>1. \A i \in 1..m + 2 : i # 1 => c[i - 1] = b[i - 1]
        <4> HIDE DEF c
        <4>1. \A i \in 1..m + 2 : i # 1 => i - 1 \in 1..m + 1
          BY <1>0
        <4> QED
          BY <2>2, <4>1
      <3> QED
        BY <3>1
    <2>4. Adds(c, l, m + 1)
      <3>1. (m + 1) + 1 = m + 2
        BY <1>0
      <3> QED
        BY <2>3, <3>1 DEF Adds
    <2> QED
      BY <1>0, <2>4
  <1> HIDE DEF P
  <1>3. \A m \in 0..Len(l) : m \in P
    BY <1>0, <1>1, <1>2, Upwards
  <1>4. Len(l) \in P
    BY <1>0, <1>3
  <1> QED
    BY <1>4 DEF P

\* Chunk i is SizeOf[l[i]] bytes long, and the next begins behind it.
LEMMA BeginsStep ==
    ASSUME NEW l \in Chunklists
    PROVE  /\ Begins(l)[1] = 0
           /\ \A i \in 1..Len(l) : Begins(l)[i + 1] = Begins(l)[i] + SizeOf[l[i]]
  <1> DEFINE b == Begins(l)
  <1>0. Len(l) \in Nat
    BY Sizes
  <1>1. b = CHOOSE c : Adds(c, l, Len(l))
    BY DEF Begins, Adds
  <1>2. Adds(b, l, Len(l))
    BY <1>1, AddsExist
  <1> HIDE DEF b
  <1>3. b[1] = 0 /\ \A i \in 1..Len(l) : b[i + 1] = b[i] + SizeOf[l[i]]
    BY <1>0, <1>2 DEF Adds
  <1> QED
    BY <1>3 DEF b

LEMMA BeginsType ==
    ASSUME NEW l \in Chunklists
    PROVE  \A i \in 1..Len(l) + 1 : Begins(l)[i] \in Nat
  <1> DEFINE P == {m \in Nat : Begins(l)[m + 1] \in Nat}
  <1>0. Len(l) \in Nat
    BY Sizes
  <1>1. 0 \in P
    BY BeginsStep
  <1>2. ASSUME NEW m \in 0..Len(l)-1, m \in P
        PROVE  m + 1 \in P
    <2>1. m + 1 \in 1..Len(l)
      BY <1>0
    <2>2. Begins(l)[(m + 1) + 1] = Begins(l)[m + 1] + SizeOf[l[m + 1]]
      BY <2>1, BeginsStep
    <2>3. SizeOf[l[m + 1]] \in Nat
      BY <2>1, Sizes
    <2> QED
      BY <1>2, <2>2, <2>3
  <1> HIDE DEF P
  <1>3. \A m \in 0..Len(l) : m \in P
    BY <1>0, <1>1, <1>2, Upwards
  <1>4. ASSUME NEW i \in 1..Len(l) + 1
        PROVE  Begins(l)[i] \in Nat
    <2>1. i - 1 \in 0..Len(l) /\ (i - 1) + 1 = i
      BY <1>0
    <2> QED
      BY <1>3, <2>1 DEF P
  <1> QED
    BY <1>4

LEMMA BeginsMonotone ==
    ASSUME NEW l \in Chunklists, NEW i \in 1..Len(l) + 1, NEW j \in 1..Len(l) + 1, i < j
    PROVE  Begins(l)[i] < Begins(l)[j]
  <1> DEFINE b == Begins(l)
             n == Len(l) - i
             P == {m \in 0..n : b[i] < b[i + m + 1]}
  <1>0. Len(l) \in Nat /\ n \in Nat /\ j - i - 1 \in 0..n
    BY Sizes
  <1>1. \A k \in 1..Len(l) : b[k + 1] > b[k] /\ b[k + 1] \in Nat /\ b[k] \in Nat
    <2> SUFFICES ASSUME NEW k \in 1..Len(l)
                 PROVE  b[k + 1] > b[k] /\ b[k + 1] \in Nat /\ b[k] \in Nat
      OBVIOUS
    <2>1. k \in 1..Len(l) + 1 /\ k + 1 \in 1..Len(l) + 1
      BY <1>0
    <2>2. b[k + 1] = b[k] + SizeOf[l[k]] /\ SizeOf[l[k]] \in Nat /\ SizeOf[l[k]] > 0
      BY BeginsStep, Sizes
    <2>3. b[k + 1] \in Nat /\ b[k] \in Nat
      BY <2>1, BeginsType
    <2> HIDE DEF b
    <2> QED
      BY <2>2, <2>3
  <1> HIDE DEF b
  <1>2. 0 \in P
    BY <1>0, <1>1
  <1>3. ASSUME NEW m \in 0..n-1, m \in P
        PROVE  m + 1 \in P
    <2>1. i + m + 1 \in 1..Len(l) /\ i + (m + 1) + 1 = (i + m + 1) + 1 /\ i \in 1..Len(l)
      BY <1>0
    <2>2. b[i + m + 1] < b[i + (m + 1) + 1]
      BY <1>1, <2>1
    <2>3. /\ b[i + (m + 1) + 1] \in Nat /\ b[i + m + 1] \in Nat /\ b[i] \in Nat
          /\ b[i] < b[i + m + 1]
      BY <1>1, <1>3, <2>1
    <2>4. b[i] < b[i + (m + 1) + 1]
      BY <2>2, <2>3
    <2> QED
      BY <1>0, <2>4
  <1> HIDE DEF P, n
  <1>4. j - i - 1 \in P
    BY <1>0, <1>2, <1>3, Upwards
  <1>5. i + (j - i - 1) + 1 = j
    BY <1>0
  <1> QED
    BY <1>4, <1>5 DEF P, b

\* Every position of the file lies in a chunk.
LEMMA ChunkOf ==
    ASSUME NEW l \in Chunklists, NEW p \in Nat, p < Total(l)
    PROVE  \E i \in 1..Len(l) : Begins(l)[i] <= p /\ p < Begins(l)[i + 1]
  <1> DEFINE b == Begins(l)
             P == {m \in 0..Len(l) : p < b[m + 1] => \E i \in 1..Len(l) : b[i] <= p /\ p < b[i + 1]}
  <1>0. Len(l) \in Nat /\ \A i \in 1..Len(l) + 1 : b[i] \in Nat
    BY Sizes, BeginsType
  <1>1. 0 \in P
    BY <1>0, BeginsStep
  <1> HIDE DEF b
  <1>2. ASSUME NEW m \in 0..Len(l)-1, m \in P
        PROVE  m + 1 \in P
    <2>1. m + 1 \in 1..Len(l) /\ b[m + 1] \in Nat
      BY <1>0
    <2> QED
      BY <1>0, <1>2, <2>1
  <1> HIDE DEF P
  <1>3. \A m \in 0..Len(l) : m \in P
    BY <1>0, <1>1, <1>2, Upwards
  <1>4. Len(l) \in P
    BY <1>0, <1>3
  <1> QED
    BY <1>4 DEF P, b, Total

-----------------------------------------------------------------------------
(* The bytes of a file.                                                    *)

Places    == (DOMAIN SizeOf) \X Nat
Bytes(c)  == [k \in 1..SizeOf[c] |-> <<c, k - 1>>]
FileOf(l) ==
    FoldLeft(LAMBDA bytes, c : bytes \o [k \in 1..SizeOf[c] |-> <<c, k - 1>>], <<>>, l)

\* The recursive function behind that fold.
Unfold(f, l, T) == IF T = {} THEN <<>> ELSE f[T \ {Max(T)}] \o Bytes(l[Max(T)])
Folds(f, l, S)  == f = [T \in SUBSET S |-> Unfold(f, l, T)]

LEMMA FileDef == \A l : FileOf(l) = (CHOOSE f : Folds(f, l, DOMAIN l))[DOMAIN l]
  BY DEF FileOf, FoldLeft, MapThenFoldSet, Folds, Unfold, Bytes

LEMMA FoldsAt ==
    ASSUME NEW S, NEW l, NEW f, Folds(f, l, S), NEW T \in SUBSET S
    PROVE  f[T] = Unfold(f, l, T)
  BY DEF Folds

LEMMA FoldsUnique ==
    ASSUME NEW l, NEW S, NEW f, Folds(f, l, S), NEW R, NEW g, Folds(g, l, R),
           NEW T, T \subseteq S, T \subseteq R, IsFiniteSet(T), T \subseteq Nat
    PROVE  f[T] = g[T]
  <1> DEFINE P == {U \in SUBSET T : f[U] = g[U]}
  <1>1. ASSUME NEW U \in SUBSET T, \A V \in SUBSET U : V # U => V \in P
        PROVE  U \in P
    <2>0. U \in SUBSET S /\ U \in SUBSET R
      OBVIOUS
    <2>1. f[U] = Unfold(f, l, U)
      BY <2>0 DEF Folds
    <2>3. g[U] = Unfold(g, l, U)
      BY <2>0 DEF Folds
    <2>2. U # {} => f[U \ {Max(U)}] = g[U \ {Max(U)}]
      <3>1. U # {} => Max(U) \in U
        BY MaxIn, FS_Subset
      <3> QED
        BY <1>1, <3>1
    <2> QED
      BY <2>1, <2>2, <2>3 DEF Unfold
  <1> HIDE DEF P
  <1>2. T \in P
    BY <1>1, SubsetInduction
  <1> QED
    BY <1>2 DEF P

LEMMA FoldsExist ==
    ASSUME NEW l, NEW S, IsFiniteSet(S), S \subseteq Nat
    PROVE  \E f : Folds(f, l, S)
  <1> DEFINE P == {T \in SUBSET S : \E f : Folds(f, l, T)}
  <1>0. \A T \in SUBSET S : T # {} => Max(T) \in T
    BY MaxIn, FS_Subset
  <1>1. ASSUME NEW T \in SUBSET S, \A U \in SUBSET T : U # T => U \in P
        PROVE  T \in P
    <2> DEFINE F(U)    == CHOOSE f : Folds(f, l, U)
               Rest(U) == U \ {Max(U)}
               g == [U \in SUBSET T |-> IF U = {} THEN <<>>
                                        ELSE F(Rest(U))[Rest(U)] \o Bytes(l[Max(U)])]
    <2>1. \A U \in SUBSET T : U # T => Folds(F(U), l, U)
      BY <1>1
    <2> HIDE DEF F
    <2>2. ASSUME NEW V \in SUBSET T, V # {}
          PROVE  g[Rest(V)] = F(Rest(V))[Rest(V)]
      <3> DEFINE U == Rest(V)
      <3>1. U \in SUBSET T /\ U # T /\ Folds(F(U), l, U)
        BY <1>0, <2>1, <2>2
      <3>2. F(U)[U] = Unfold(F(U), l, U)
        <4> HIDE DEF U
        <4> QED
          BY <3>1, FoldsAt
      <3>3. CASE U = {}
        BY <3>1, <3>2, <3>3 DEF Unfold
      <3>4. CASE U # {}
        <4>1. /\ Rest(U) \in SUBSET U /\ Rest(U) # T /\ Rest(U) \in SUBSET T
              /\ IsFiniteSet(Rest(U)) /\ Rest(U) \subseteq Nat
          BY <1>0, <3>1, <3>4, FS_Subset
        <4>2. Folds(F(Rest(U)), l, Rest(U))
          BY <4>1, <2>1
        <4>3. F(U)[Rest(U)] = F(Rest(U))[Rest(U)]
          <5> HIDE DEF Rest, U
          <5> QED
            BY <3>1, <4>1, <4>2, FoldsUnique
        <4> QED
          BY <3>1, <3>2, <3>4, <4>3 DEF Unfold
      <3> QED
        BY <3>3, <3>4
    <2>3. g = [U \in SUBSET T |-> IF U = {} THEN <<>> ELSE g[Rest(U)] \o Bytes(l[Max(U)])]
      <3> HIDE DEF Rest
      <3> QED
        BY <2>2
    <2>4. Folds(g, l, T)
      BY <2>3 DEF Folds, Unfold
    <2> QED
      BY <2>4
  <1> HIDE DEF P
  <1>2. S \in P
    BY <1>1, SubsetInduction
  <1> QED
    BY <1>2 DEF P

LEMMA BytesType ==
    ASSUME NEW c \in DOMAIN SizeOf
    PROVE  /\ Bytes(c) \in Seq(Places) /\ Len(Bytes(c)) = SizeOf[c]
           /\ \A k \in 1..SizeOf[c] : Bytes(c)[k] = <<c, k - 1>>
  <1>1. SizeOf[c] \in Nat
    BY DownloadConstants
  <1>2. Bytes(c) \in [1..SizeOf[c] -> Places]
    <2>1. \A k \in 1..SizeOf[c] : <<c, k - 1>> \in Places
      BY <1>1 DEF Places
    <2> QED
      BY <2>1 DEF Bytes
  <1>3. Bytes(c) \in Seq(Places)
    BY <1>1, <1>2, SeqDef
  <1>4. DOMAIN Bytes(c) = 1..Len(Bytes(c)) /\ Len(Bytes(c)) \in Nat /\ DOMAIN Bytes(c) = 1..SizeOf[c]
    BY <1>2, <1>3, LenProperties
  <1>5. Len(Bytes(c)) = SizeOf[c]
    BY <1>1, <1>4
  <1> QED
    BY <1>3, <1>5 DEF Bytes

\* What a file is: as long as its chunks, and at each place the byte of the chunk
\* that holds it.
Holds(f, l, m) ==
    /\ f \in Seq(Places) /\ Len(f) = Begins(l)[m + 1]
    /\ \A i \in 1..m : \A p \in Begins(l)[i]..Begins(l)[i + 1] - 1 :
        f[p + 1] = <<l[i], p - Begins(l)[i]>>

LEMMA FileHolds == ASSUME NEW l \in Chunklists PROVE Holds(FileOf(l), l, Len(l))
  <1> DEFINE b == Begins(l)
             f == CHOOSE g : Folds(g, l, DOMAIN l)
             P == {m \in 0..Len(l) : Holds(f[1..m], l, m)}
  <1>0. /\ Len(l) \in Nat /\ DOMAIN l = 1..Len(l) /\ IsFiniteSet(DOMAIN l) /\ DOMAIN l \subseteq Nat
        /\ \A i \in 1..Len(l) + 1 : b[i] \in Nat
    <2>1. Len(l) \in Nat /\ DOMAIN l = 1..Len(l)
      BY Sizes
    <2>2. IsFiniteSet(1..Len(l))
      BY <2>1, FS_Interval
    <2> QED
      BY <2>1, <2>2, BeginsType
  <1>1. Folds(f, l, DOMAIN l)
    BY <1>0, FoldsExist
  <1> HIDE DEF f
  <1>2. 0 \in P
    <2>1. 1..0 = {} /\ b[0 + 1] = 0
      BY BeginsStep
    <2>2. f[{}] = Unfold(f, l, {})
      BY <1>1, FoldsAt
    <2>3. f[1..0] = <<>>
      BY <2>1, <2>2 DEF Unfold
    <2>4. <<>> \in Seq(Places) /\ Len(<<>>) = 0
      BY EmptySeq
    <2>5. Holds(<<>>, l, 0)
      BY <2>1, <2>4 DEF Holds
    <2> QED
      BY <1>0, <2>3, <2>5
  <1>3. ASSUME NEW m \in 0..Len(l)-1, m \in P
        PROVE  m + 1 \in P
    <2> DEFINE n == m + 1
               g == f[1..m]
    <2>1. /\ n \in 1..Len(l) /\ n + 1 \in 1..Len(l) + 1 /\ m \in Nat /\ n \in Nat
          /\ l[n] \in DOMAIN SizeOf /\ SizeOf[l[n]] \in Nat /\ SizeOf[l[n]] > 0
      BY <1>0, Sizes
    <2>0. n = m + 1
      OBVIOUS
    <2> HIDE DEF n
    <2>2. Max(1..n) = n /\ (1..n) \ {n} = 1..m /\ 1..n # {} /\ 1..n \in SUBSET DOMAIN l
      <3> DEFINE T == 1..n
      <3>1. IsFiniteSet(T) /\ T \subseteq Nat /\ T # {} /\ n \in T
        <4>1. IsFiniteSet(1..n)
          BY <2>1, FS_Interval
        <4>2. \A k \in 1..n : k \in Nat
          BY <2>1
        <4>3. n \in 1..n
          BY <2>1
        <4> QED
          BY <4>1, <4>2, <4>3
      <3>2. Max(T) \in T /\ Max(T) >= n
        <4> HIDE DEF T
        <4> QED
          BY <3>1, MaxIn
      <3>3. Max(T) = n
        BY <2>1, <3>2
      <3>4. T \ {n} = 1..m
        BY <2>0, <2>1
      <3> QED
        BY <1>0, <2>1, <3>1, <3>3, <3>4
    <2>3. f[1..n] = g \o Bytes(l[n])
      <3> DEFINE T == 1..n
      <3>1. Max(T) = n /\ T \ {n} = 1..m /\ T # {} /\ T \in SUBSET DOMAIN l
        BY <2>2
      <3> HIDE DEF T
      <3>2. f[T] = Unfold(f, l, T)
        BY <1>1, <3>1, FoldsAt
      <3>3. f[T \ {Max(T)}] = g
        BY <3>1
      <3>4. f[T] = g \o Bytes(l[n])
        <4> HIDE DEF g
        <4> QED
          BY <3>1, <3>2, <3>3 DEF Unfold
      <3> QED
        BY <3>4 DEF T
    <2>4. Holds(g, l, m) /\ g \in Seq(Places) /\ Len(g) = b[n] /\ b[n] \in Nat
      BY <1>0, <1>3, <2>0, <2>1 DEF Holds
    <2>5. b[n + 1] = b[n] + SizeOf[l[n]]
      BY <2>1, BeginsStep
    <2> DEFINE h == g \o Bytes(l[n])
    <2> HIDE DEF g, b
    <2>6. /\ h \in Seq(Places) /\ Len(h) = b[n + 1]
          /\ \A k \in 1..b[n + 1] : h[k] = IF k <= b[n] THEN g[k] ELSE <<l[n], k - b[n] - 1>>
      <3>1. /\ Bytes(l[n]) \in Seq(Places) /\ Len(Bytes(l[n])) = SizeOf[l[n]]
            /\ \A k \in 1..SizeOf[l[n]] : Bytes(l[n])[k] = <<l[n], k - 1>>
        BY <2>1, BytesType
      <3>2. /\ h \in Seq(Places)
            /\ Len(h) = Len(g) + Len(Bytes(l[n]))
            /\ \A i \in 1..Len(g) + Len(Bytes(l[n])) :
                    h[i] = IF i <= Len(g) THEN g[i] ELSE Bytes(l[n])[i - Len(g)]
        BY <2>4, <3>1, ConcatProperties
      <3> HIDE DEF h
      <3>3. Len(h) = b[n + 1]
        BY <2>1, <2>4, <2>5, <3>1, <3>2
      <3>4. ASSUME NEW k \in 1..b[n + 1]
            PROVE  h[k] = IF k <= b[n] THEN g[k] ELSE <<l[n], k - b[n] - 1>>
        <4>1. k \in Int /\ k \in 1..Len(g) + Len(Bytes(l[n]))
          BY <2>1, <2>4, <2>5, <3>1
        <4>2. h[k] = IF k <= b[n] THEN g[k] ELSE Bytes(l[n])[k - b[n]]
          BY <2>4, <3>2, <4>1
        <4>3. ~(k <= b[n]) => Bytes(l[n])[k - b[n]] = <<l[n], (k - b[n]) - 1>>
          <5>1. ~(k <= b[n]) => k - b[n] \in 1..SizeOf[l[n]]
            BY <2>1, <2>4, <2>5, <4>1
          <5> QED
            BY <3>1, <5>1
        <4> QED
          BY <4>2, <4>3
      <3> QED
        BY <3>2, <3>3, <3>4
    <2> HIDE DEF h
    <2>7. ASSUME NEW i \in 1..n, NEW p \in b[i]..b[i + 1] - 1
          PROVE  h[p + 1] = <<l[i], p - b[i]>>
      <3>1. b[i] \in Nat /\ b[i + 1] \in Nat
        <4>1. i \in 1..Len(l) + 1 /\ i + 1 \in 1..Len(l) + 1
          BY <1>0, <2>1
        <4> QED
          BY <1>0, <4>1
      <3>2. CASE i = n
        <4>1. p + 1 \in 1..b[n + 1] /\ ~(p + 1 <= b[n]) /\ (p + 1) - b[n] - 1 = p - b[n]
          BY <3>1, <3>2, <2>4
        <4> QED
          BY <2>6, <3>2, <4>1
      <3>3. CASE i # n
        <4>1. i \in 1..m /\ i + 1 \in 1..n
          BY <2>0, <2>1, <3>3
        <4>2. g[p + 1] = <<l[i], p - b[i]>>
          BY <2>4, <4>1 DEF Holds, b
        <4>3. b[i + 1] <= b[n]
          <5>1. i + 1 = n \/ i + 1 < n
            BY <4>1, <2>1
          <5>2. i + 1 < n => b[i + 1] < b[n]
            BY <1>0, <2>1, <4>1, BeginsMonotone DEF b
          <5> QED
            BY <5>1, <5>2, <3>1, <2>4
        <4>4. p + 1 \in 1..b[n + 1] /\ p + 1 <= b[n]
          <5>1. p \in Nat /\ p + 1 <= b[i + 1]
            BY <3>1
          <5>2. p + 1 <= b[n]
            BY <2>4, <3>1, <4>3, <5>1
          <5>3. b[n + 1] \in Nat /\ b[n] <= b[n + 1]
            BY <2>1, <2>4, <2>5
          <5> QED
            BY <2>4, <5>1, <5>2, <5>3
        <4> QED
          BY <2>6, <4>2, <4>4
      <3> QED
        BY <3>2, <3>3
    <2>8. Holds(h, l, n)
      BY <2>6, <2>7 DEF Holds, b
    <2>9. f[1..n] = h
      BY <2>3 DEF h
    <2>10. n \in P
      BY <1>0, <2>1, <2>8, <2>9
    <2> QED
      BY <2>0, <2>10
  <1> HIDE DEF P
  <1>4. \A m \in 0..Len(l) : m \in P
    BY <1>0, <1>2, <1>3, Upwards
  <1>5. Len(l) \in P
    BY <1>0, <1>4
  <1>6. FileOf(l) = f[1..Len(l)]
    BY <1>0, FileDef DEF f
  <1> QED
    BY <1>5, <1>6 DEF P

-----------------------------------------------------------------------------
(* The slices of a window.                                                 *)

Slice(l, s, e, i) ==
    LET offset == Greatest(0, s - Begins(l)[i])
    IN [chunk  |-> l[i], offset |-> offset,
        length |-> LengthOf(offset, Least(SizeOf[l[i]] - 1, e - Begins(l)[i]))]

In(l, i, p) == i \in 1..Len(l) /\ Begins(l)[i] <= p /\ p < Begins(l)[i + 1]

LEMMA FunSeq ==
    ASSUME NEW m \in Nat, NEW X, NEW R \in [1..m -> X]
    PROVE  R \in Seq(X) /\ Len(R) = m
  <1>1. R \in Seq(X)
    BY SeqDef
  <1>2. DOMAIN R = 1..Len(R) /\ Len(R) \in Nat /\ DOMAIN R = 1..m
    BY <1>1, LenProperties
  <1> QED
    BY <1>1, <1>2

LEMMA FunTail ==
    ASSUME NEW m \in Nat \ {0}, NEW X, NEW R \in [1..m -> X]
    PROVE  R # <<>> /\ Head(R) = R[1] /\ Tail(R) = [k \in 1..m - 1 |-> R[k + 1]]
  <1>1. R \in Seq(X) /\ Len(R) = m
    BY FunSeq
  <1>2. R # <<>>
    BY <1>1, EmptySeq
  <1>3. /\ Tail(R) \in Seq(X) /\ Len(Tail(R)) = m - 1
        /\ \A i \in 1..Len(Tail(R)) : Tail(R)[i] = R[i + 1]
    BY <1>1, <1>2, HeadTailProperties
  <1>4. DOMAIN Tail(R) = 1..(m - 1) /\ Tail(R) \in [1..(m - 1) -> X]
    BY <1>3, LenProperties
  <1>5. Head(R) = R[1]
    BY <1>1, <1>2
  <1> QED
    BY <1>2, <1>3, <1>4, <1>5

\* The chunks that reach into a window are those from its first byte to its last.
LEMMA Reaching ==
    ASSUME NEW l \in Chunklists, NEW s \in Nat, NEW e \in Nat, s <= e,
           NEW lo, In(l, lo, s), NEW hi, In(l, hi, e)
    PROVE  /\ lo <= hi
           /\ {i \in DOMAIN l : Begins(l)[i + 1] - 1 >= s /\ Begins(l)[i] <= e} = lo..hi
  <1> DEFINE b == Begins(l)
  <1>0. /\ Len(l) \in Nat /\ DOMAIN l = 1..Len(l) /\ lo \in 1..Len(l) /\ hi \in 1..Len(l)
        /\ \A i \in 1..Len(l) + 1 : b[i] \in Nat
        /\ b[lo] <= s /\ s < b[lo + 1] /\ b[hi] <= e /\ e < b[hi + 1]
    BY Sizes, BeginsType DEF In
  <1>1. \A i, j \in 1..Len(l) + 1 : i <= j => b[i] <= b[j]
    <2> SUFFICES ASSUME NEW i \in 1..Len(l) + 1, NEW j \in 1..Len(l) + 1, i <= j
                 PROVE  b[i] <= b[j]
      OBVIOUS
    <2>1. b[i] \in Nat /\ b[j] \in Nat
      BY BeginsType
    <2>2. i < j => b[i] < b[j]
      BY BeginsMonotone
    <2>3. i = j \/ i < j
      BY <1>0
    <2> HIDE DEF b
    <2> QED
      BY <2>1, <2>2, <2>3
  <1> HIDE DEF b
  <1>2. \A i \in 1..Len(l) : i \in 1..Len(l) + 1 /\ i + 1 \in 1..Len(l) + 1
    BY <1>0
  <1>3. ASSUME NEW i \in 1..Len(l)
        PROVE  (b[i + 1] - 1 >= s <=> lo <= i) /\ (b[i] <= e <=> i <= hi)
    <2>1. /\ b[i] \in Nat /\ b[i + 1] \in Nat /\ b[lo] \in Nat /\ b[lo + 1] \in Nat
          /\ b[hi] \in Nat /\ b[hi + 1] \in Nat
      BY <1>0, <1>2
    <2>2. lo <= i => b[lo + 1] <= b[i + 1]
      BY <1>0, <1>1, <1>2
    <2>3. ~(lo <= i) => b[i + 1] <= b[lo]
      BY <1>0, <1>1, <1>2
    <2>4. i <= hi => b[i] <= b[hi]
      BY <1>0, <1>1, <1>2
    <2>5. ~(i <= hi) => b[hi + 1] <= b[i]
      BY <1>0, <1>1, <1>2
    <2>6. b[i + 1] - 1 >= s <=> lo <= i
      BY <1>0, <2>1, <2>2, <2>3
    <2>7. b[i] <= e <=> i <= hi
      BY <1>0, <2>1, <2>4, <2>5
    <2> QED
      BY <2>6, <2>7
  <1>4. lo <= hi
    <2>1. b[lo] \in Nat
      BY <1>0, <1>2
    <2>2. b[lo] <= e
      BY <1>0, <2>1
    <2> QED
      BY <1>0, <1>3, <2>2
  <1>5. {i \in DOMAIN l : b[i + 1] - 1 >= s /\ b[i] <= e} = lo..hi
    <2>1. {i \in DOMAIN l : b[i + 1] - 1 >= s /\ b[i] <= e} = {i \in 1..Len(l) : lo <= i /\ i <= hi}
      BY <1>0, <1>3
    <2>2. {i \in 1..Len(l) : lo <= i /\ i <= hi} = lo..hi
      BY <1>0
    <2> QED
      BY <2>1, <2>2
  <1> QED
    BY <1>4, <1>5 DEF b

Slices(l, s, e, lo, hi) == [k \in 1..(hi - lo + 1) |-> Slice(l, s, e, lo + k - 1)]

LEMMA SlicesOf ==
    ASSUME NEW l \in Chunklists, NEW s \in Nat, NEW e \in Nat, s <= e,
           NEW lo, In(l, lo, s), NEW hi, In(l, hi, e)
    PROVE  hi - lo + 1 \in Nat \ {0} /\ SliceChunks(l, s, e) = Slices(l, s, e, lo, hi)
  <1> DEFINE reach == {i \in DOMAIN l : Begins(l)[i + 1] - 1 >= s /\ Begins(l)[i] <= e}
  <1>0. lo \in Int /\ hi \in Int
    BY Sizes DEF In
  <1>1. lo <= hi /\ reach = lo..hi
    BY Reaching
  <1>2. SliceChunks(l, s, e) = [k \in 1..Cardinality(reach) |-> Slice(l, s, e, Ascending(reach)[k])]
    BY DEF SliceChunks, Slice
  <1> HIDE DEF reach
  <1>3. Cardinality(reach) = hi - lo + 1 /\ \A k \in 1..(hi - lo + 1) : Ascending(reach)[k] = lo + k - 1
    BY <1>0, <1>1, AscendingInterval
  <1> QED
    BY <1>0, <1>1, <1>2, <1>3 DEF Slices

\* A part of a file, byte by byte.
LEMMA Cut ==
    ASSUME NEW F \in Seq(Places), NEW s \in Nat, NEW q \in Nat, s <= q, q <= Len(F)
    PROVE  /\ SubSeq(F, s + 1, q) \in Seq(Places) /\ Len(SubSeq(F, s + 1, q)) = q - s
           /\ \A k \in 1..(q - s) : SubSeq(F, s + 1, q)[k] = F[s + k]
  <1>1. \A i \in s + 1..q : F[i] \in Places
    <2>1. \A i \in s + 1..q : i \in 1..Len(F)
      BY LenProperties
    <2> QED
      BY <2>1, ElementOfSeq
  <1>2. /\ SubSeq(F, s + 1, q) \in Seq(Places)
        /\ Len(SubSeq(F, s + 1, q)) = IF s + 1 <= q THEN q - (s + 1) + 1 ELSE 0
        /\ \A i \in 1..(q - (s + 1) + 1) : SubSeq(F, s + 1, q)[i] = F[(s + 1) + i - 1]
    BY <1>1, SubSeqProperties
  <1>3. q - (s + 1) + 1 = q - s /\ \A i \in 1..(q - s) : (s + 1) + i - 1 = s + i
    OBVIOUS
  <1>4. Len(SubSeq(F, s + 1, q)) = q - s
    BY <1>2
  <1> QED
    BY <1>2, <1>3, <1>4

LEMMA Stretch ==
    ASSUME NEW l \in Chunklists, NEW s \in Nat, NEW q \in Nat, s <= q, q <= Total(l)
    PROVE  /\ SubSeq(FileOf(l), s + 1, q) \in Seq(Places)
           /\ Len(SubSeq(FileOf(l), s + 1, q)) = q - s
           /\ \A k \in 1..(q - s) : SubSeq(FileOf(l), s + 1, q)[k] = FileOf(l)[s + k]
  <1>1. FileOf(l) \in Seq(Places) /\ Len(FileOf(l)) = Total(l)
    BY FileHolds DEF Holds, Total
  <1> QED
    BY <1>1, Cut

\* The first slice of a window, read from S3, is the file from the window's first
\* byte to some byte q; the other slices are those of the rest of the window.
LEMMA FirstSlice ==
    ASSUME NEW l \in Chunklists, NEW s \in Nat, NEW e \in Nat, s <= e, e < Total(l)
    PROVE  /\ SliceChunks(l, s, e) # <<>>
           /\ \E q \in (s + 1)..(e + 1) :
                /\ GetChunk(Head(SliceChunks(l, s, e))) = SubSeq(FileOf(l), s + 1, q)
                /\ Tail(SliceChunks(l, s, e)) = IF q <= e THEN SliceChunks(l, q, e) ELSE <<>>
  <1> DEFINE b == Begins(l)
             R == SliceChunks(l, s, e)
  <1>0. Len(l) \in Nat /\ Total(l) \in Nat
    <2>1. Len(l) \in Nat
      BY Sizes
    <2>2. Len(l) + 1 \in 1..Len(l) + 1
      BY <2>1
    <2> QED
      BY <2>1, <2>2, BeginsType DEF Total
  <1>p. s < Total(l)
    BY <1>0
  <1>q. PICK lo \in 1..Len(l) : In(l, lo, s)
    BY <1>p, ChunkOf DEF In
  <1>r. PICK hi \in 1..Len(l) : In(l, hi, e)
    BY ChunkOf DEF In
  <1>1. In(l, lo, s) /\ In(l, hi, e)
    BY <1>q, <1>r
  <1> DEFINE m == hi - lo + 1
             q == IF lo = hi THEN e + 1 ELSE b[lo + 1]
             size == SizeOf[l[lo]]
             begin == b[lo]
  <1>2. m \in Nat \ {0} /\ lo <= hi /\ R = [k \in 1..m |-> Slice(l, s, e, lo + k - 1)]
    <2>1. lo <= hi
      BY <1>1, Reaching
    <2>2. hi - lo + 1 \in Nat \ {0} /\ SliceChunks(l, s, e) = Slices(l, s, e, lo, hi)
      BY <1>1, SlicesOf
    <2> QED
      BY <2>1, <2>2 DEF Slices
  <1>3. /\ begin \in Nat /\ size \in Nat /\ size > 0 /\ b[lo + 1] = begin + size
        /\ begin <= s /\ s < b[lo + 1] /\ l[lo] \in DOMAIN SizeOf
    BY <1>0, <1>1, BeginsStep, BeginsType, Sizes DEF In
  <1>4. lo # hi => b[lo + 1] <= e
    <2> SUFFICES ASSUME lo # hi PROVE b[lo + 1] <= e
      OBVIOUS
    <2>1. lo + 1 \in 1..Len(l) + 1 /\ hi \in 1..Len(l) + 1 /\ (lo + 1 = hi \/ lo + 1 < hi)
      BY <1>0, <1>2
    <2>2. b[lo + 1] \in Nat /\ b[hi] \in Nat /\ b[hi] <= e
      BY <1>1, <2>1, BeginsType DEF In
    <2>3. lo + 1 < hi => b[lo + 1] < b[hi]
      BY <2>1, BeginsMonotone
    <2> HIDE DEF b
    <2> QED
      BY <2>1, <2>2, <2>3
  <1>5. lo = hi => e < b[lo + 1]
    BY <1>1 DEF In
  <1>6. /\ q \in (s + 1)..(e + 1) /\ q <= begin + size /\ q \in Nat
        /\ lo = hi => q = e + 1 /\ e < begin + size
        /\ lo # hi => q = begin + size /\ q <= e
    <2> HIDE DEF b, begin, size
    <2> QED
      BY <1>3, <1>4, <1>5
  <1> HIDE DEF q
  <1>7. /\ R # <<>> /\ Head(R) = Slice(l, s, e, lo)
        /\ Tail(R) = [k \in 1..m - 1 |-> R[k + 1]]
    <2> DEFINE X == {R[k] : k \in 1..m}
    <2>1. R \in [1..m -> X]
      BY <1>2
    <2>2. R[1] = Slice(l, s, e, lo)
      <3>1. 1 \in 1..m /\ lo + 1 - 1 = lo
        BY <1>2
      <3> QED
        BY <1>2, <3>1
    <2> HIDE DEF R, X, m
    <2> QED
      BY <1>2, <2>1, <2>2, FunTail
  <1>8. GetChunk(Head(R)) = SubSeq(FileOf(l), s + 1, q)
    <2> DEFINE h == Head(R)
               G == GetChunk(h)
               S == SubSeq(FileOf(l), s + 1, q)
    <2>1. h.chunk = l[lo] /\ h.offset = s - begin /\ h.length = q - s
      <3>1. Greatest(0, s - begin) = s - begin
        BY <1>3 DEF Greatest
      <3>2. LengthOf(s - begin, Least(size - 1, e - begin)) = q - s
        <4>1. CASE lo = hi
          <5>1. Least(size - 1, e - begin) = e - begin
            BY <1>3, <1>6, <4>1 DEF Least
          <5> QED
            BY <1>3, <1>6, <4>1, <5>1 DEF LengthOf
        <4>2. CASE lo # hi
          <5>1. Least(size - 1, e - begin) = size - 1
            BY <1>3, <1>6, <4>2 DEF Least
          <5>2. q = begin + size
            BY <1>6, <4>2
          <5> HIDE DEF begin, size
          <5>3. (size - 1) - (s - begin) + 1 = (begin + size) - s
            BY <1>3
          <5> QED
            BY <5>1, <5>2, <5>3 DEF LengthOf
        <4> QED
          BY <4>1, <4>2
      <3> QED
        BY <1>7, <3>1, <3>2 DEF Slice
    <2>2. Least(h.length, SizeOf[h.chunk] - h.offset) = q - s
      <3>1. SizeOf[h.chunk] = size
        BY <2>1
      <3> HIDE DEF h, size, begin
      <3> QED
        BY <1>3, <1>6, <2>1, <3>1 DEF Least
    <2>3. G = [k \in 1..(q - s) |-> <<l[lo], (s - begin) + k - 1>>]
      <3> HIDE DEF h, begin
      <3> QED
        BY <2>1, <2>2 DEF GetChunk
    <2>4. q - s \in Nat
      BY <1>6
    <2>5. ASSUME NEW k \in 1..(q - s)
          PROVE  FileOf(l)[s + k] = <<l[lo], (s - begin) + k - 1>> /\ G[k] \in Places
      <3> DEFINE p == s + k - 1
      <3>1. /\ p \in b[lo]..b[lo + 1] - 1 /\ p + 1 = s + k
            /\ p - begin = (s - begin) + k - 1 /\ p - begin \in Nat
        <4> DEFINE next == b[lo + 1]
        <4>1. begin = b[lo]
          OBVIOUS
        <4>2. next = begin + size /\ begin \in Nat /\ size \in Nat /\ begin <= s
          BY <1>3
        <4> HIDE DEF b, begin, size, next
        <4>3. p \in begin..next - 1
          BY <1>6, <4>2
        <4>4. p + 1 = s + k /\ p - begin = (s - begin) + k - 1 /\ p - begin \in Nat
          BY <1>6, <4>2
        <4> HIDE DEF p
        <4> QED
          BY <4>1, <4>3, <4>4 DEF next
      <3> HIDE DEF p
      <3>2. FileOf(l)[p + 1] = <<l[lo], p - b[lo]>>
        BY <1>1, <3>1, FileHolds DEF Holds
      <3>3. G[k] = <<l[lo], p - begin>>
        BY <2>3, <3>1
      <3>4. FileOf(l)[s + k] = <<l[lo], p - begin>>
        BY <3>1, <3>2
      <3>5. <<l[lo], p - begin>> \in Places
        <4> HIDE DEF begin
        <4> QED
          BY <1>3, <3>1 DEF Places
      <3>6. p - begin = (s - begin) + k - 1
        BY <3>1
      <3> HIDE DEF begin, G
      <3>7. FileOf(l)[s + k] = <<l[lo], (s - begin) + k - 1>>
        BY <3>4, <3>6
      <3> QED
        BY <3>3, <3>5, <3>7
    <2>6. /\ S \in Seq(Places) /\ Len(S) = q - s
          /\ \A k \in 1..(q - s) : S[k] = FileOf(l)[s + k]
      <3>1. q <= Total(l)
        BY <1>0, <1>6
      <3>2. q \in Nat /\ s <= q
        BY <1>6
      <3>3. /\ SubSeq(FileOf(l), s + 1, q) \in Seq(Places)
            /\ Len(SubSeq(FileOf(l), s + 1, q)) = q - s
            /\ \A k \in 1..(q - s) : SubSeq(FileOf(l), s + 1, q)[k] = FileOf(l)[s + k]
        BY <3>1, <3>2, Stretch
      <3> QED
        BY <3>3
    <2>7. G \in Seq(Places) /\ Len(G) = q - s
      <3>1. G \in [1..(q - s) -> Places]
        <4>1. G = [k \in 1..(q - s) |-> G[k]]
          BY <2>3
        <4> HIDE DEF G
        <4> QED
          BY <2>5, <4>1
      <3> HIDE DEF G
      <3> QED
        BY <2>4, <3>1, FunSeq
    <2>8. \A k \in 1..(q - s) : G[k] = S[k]
      BY <2>3, <2>5, <2>6
    <2> HIDE DEF G, S
    <2>9. G = S
      BY <2>6, <2>7, <2>8, SeqEqual
    <2> QED
      BY <2>9 DEF G, S
  <1>9. Tail(R) = IF q <= e THEN SliceChunks(l, q, e) ELSE <<>>
    <2>1. CASE lo = hi
      <3>1. m - 1 = 0 /\ ~(q <= e)
        BY <1>1, <1>6, <2>1
      <3>2. Tail(R) = [k \in 1..0 |-> R[k + 1]]
        BY <1>7, <3>1
      <3>3. [k \in 1..0 |-> R[k + 1]] = <<>>
        OBVIOUS
      <3> QED
        BY <3>1, <3>2, <3>3
    <2>2. CASE lo # hi
      <3>1. q = b[lo + 1] /\ q <= e /\ q \in Nat /\ lo + 1 \in 1..Len(l) /\ lo + 1 <= hi
        BY <1>0, <1>1, <1>2, <1>3, <1>6, <2>2
      <3>2. In(l, lo + 1, q)
        <4>1. lo + 2 \in 1..Len(l) + 1 /\ lo + 1 \in 1..Len(l) + 1 /\ lo + 1 < lo + 2 /\ (lo + 1) + 1 = lo + 2
          BY <1>0, <3>1
        <4>2. b[lo + 1] < b[lo + 2]
          BY <4>1, BeginsMonotone
        <4> QED
          BY <3>1, <4>1, <4>2 DEF In
      <3> DEFINE n == hi - (lo + 1) + 1
      <3>3. SliceChunks(l, q, e) = [k \in 1..n |-> Slice(l, q, e, (lo + 1) + k - 1)]
        <4>1. In(l, hi, e) /\ q \in Nat /\ q <= e
          BY <1>1, <3>1
        <4>2. SliceChunks(l, q, e) = Slices(l, q, e, lo + 1, hi)
          BY <3>2, <4>1, SlicesOf
        <4> QED
          BY <4>2 DEF Slices
      <3>4. n = m - 1
        BY <1>1
      <3>5. ASSUME NEW k \in 1..(m - 1)
            PROVE  R[k + 1] = Slice(l, q, e, (lo + 1) + k - 1)
        <4> DEFINE i == (lo + 1) + k - 1
        <4>1. i \in 1..Len(l) + 1 /\ i = lo + (k + 1) - 1 /\ k + 1 \in 1..m /\ (lo + 1 = i \/ lo + 1 < i)
          BY <1>0, <1>1
        <4>2. R[k + 1] = Slice(l, s, e, i)
          BY <1>2, <4>1
        <4> HIDE DEF i
        <4>3. b[i] \in Nat /\ b[lo + 1] <= b[i]
          <5>1. b[i] \in Nat
            BY <4>1, BeginsType
          <5>2. lo + 1 < i => b[lo + 1] < b[i]
            BY <3>1, <4>1, BeginsMonotone
          <5> HIDE DEF b
          <5> QED
            BY <3>1, <4>1, <5>1, <5>2
        <4>4. Greatest(0, s - b[i]) = 0 /\ Greatest(0, q - b[i]) = 0
          <5> HIDE DEF b
          <5> QED
            BY <1>3, <3>1, <4>3 DEF Greatest
        <4>5. Slice(l, s, e, i) = Slice(l, q, e, i)
          BY <4>4 DEF Slice
        <4> QED
          BY <4>2, <4>5 DEF i
      <3> HIDE DEF R, m, n
      <3> QED
        BY <1>7, <3>1, <3>3, <3>4, <3>5
    <2> QED
      BY <2>1, <2>2
  <1> QED
    BY <1>6, <1>7, <1>8, <1>9

\* Parts of parts.
LEMMA Glue ==
    ASSUME NEW F \in Seq(Places), NEW s \in Nat, NEW p \in Nat, NEW q \in Nat,
           s <= p, p <= q, q <= Len(F)
    PROVE  SubSeq(F, s + 1, p) \o SubSeq(F, p + 1, q) = SubSeq(F, s + 1, q)
  <1>1. s + 1 \in 1..Len(F) + 1 /\ p \in (s + 1) - 1..Len(F) /\ q \in p..Len(F)
    BY LenProperties
  <1> QED
    BY <1>1, ConcatAdjacentSubSeq

LEMMA CutOfCut ==
    ASSUME NEW F \in Seq(Places), NEW s \in Nat, NEW q \in Nat, s <= q, q <= Len(F),
           NEW n \in 0..(q - s)
    PROVE  SubSeq(SubSeq(F, s + 1, q), 1, n) = SubSeq(F, s + 1, s + n)
  <1> DEFINE G == SubSeq(F, s + 1, q)
             A == SubSeq(G, 0 + 1, n)
             B == SubSeq(F, s + 1, s + n)
  <1>0. n \in Nat /\ s + n \in Nat /\ s <= s + n /\ s + n <= q /\ s + n <= Len(F)
    BY LenProperties
  <1>1. /\ G \in Seq(Places) /\ Len(G) = q - s
        /\ \A k \in 1..(q - s) : G[k] = F[s + k]
    BY Cut
  <1> HIDE DEF G
  <1>2. A \in Seq(Places) /\ Len(A) = n - 0 /\ \A k \in 1..(n - 0) : A[k] = G[0 + k]
    BY <1>0, <1>1, Cut
  <1>3. B \in Seq(Places) /\ Len(B) = (s + n) - s /\ \A k \in 1..((s + n) - s) : B[k] = F[s + k]
    BY <1>0, Cut
  <1> HIDE DEF A, B
  <1>4. Len(A) = n /\ Len(B) = n
    BY <1>0, <1>2, <1>3
  <1>5. ASSUME NEW k \in 1..n PROVE A[k] = B[k]
    <2>1. A[k] = G[k]
      BY <1>0, <1>2
    <2>2. G[k] = F[s + k]
      BY <1>0, <1>1
    <2>3. B[k] = F[s + k]
      BY <1>0, <1>3
    <2> QED
      BY <2>1, <2>2, <2>3
  <1>6. A = B
    BY <1>2, <1>3, <1>4, <1>5, SeqEqual
  <1> QED
    BY <1>6 DEF A, B, G

LEMMA FileIs ==
    ASSUME layout \in Layouts
    PROVE  /\ layout \in Chunklists /\ File = FileOf(layout)
           /\ Total(layout) \in Nat /\ File \in Seq(Places) /\ Len(File) = Total(layout)
  <1>1. layout \in Chunklists
    BY DownloadConstants DEF Chunklists
  <1>2. File = FileOf(layout)
    BY DEF File, FileOf
  <1>3. Len(layout) + 1 \in 1..Len(layout) + 1
    BY <1>1, Sizes
  <1>4. Total(layout) \in Nat
    BY <1>1, <1>3, BeginsType DEF Total
  <1>5. FileOf(layout) \in Seq(Places) /\ Len(FileOf(layout)) = Total(layout)
    BY <1>1, FileHolds DEF Holds, Total
  <1> QED
    BY <1>1, <1>2, <1>4, <1>5

\* An empty file has no slices.
LEMMA NoSlices == ASSUME NEW l \in Chunklists PROVE SliceChunks(l, 0, -1) = <<>>
  <1> DEFINE reach == {i \in DOMAIN l : Begins(l)[i + 1] - 1 >= 0 /\ Begins(l)[i] <= -1}
  <1>1. \A i \in DOMAIN l : Begins(l)[i] \in Nat
    <2>1. \A i \in DOMAIN l : i \in 1..Len(l) + 1
      BY Sizes
    <2> QED
      BY <2>1, BeginsType
  <1>2. reach = {}
    BY <1>1
  <1>3. SliceChunks(l, 0, -1)
            = [k \in 1..Cardinality(reach) |-> Slice(l, 0, -1, Ascending(reach)[k])]
    BY DEF SliceChunks, Slice
  <1> HIDE DEF reach
  <1>4. Cardinality(reach) = 0
    BY <1>2, FS_EmptySet
  <1>5. \A S : [k \in 1..0 |-> Slice(l, 0, -1, Ascending(S)[k])] = <<>>
    OBVIOUS
  <1> QED
    BY <1>3, <1>4, <1>5

-----------------------------------------------------------------------------
(* What a header asks for.                                                 *)

Requests ==
    [form : {"first"}, first : Nat, last : Nat \cup {Absent}]
    \cup [form : {"suffix"}, n : Nat] \cup [form : {"none", "malformed"}]

\* The bytes of a header, counted one by one: an interval.
Asks(h, s, e) == {p \in 0..Len(File) - 1 : InRange(h, p)} = s..e

LEMMA Kinds ==
    /\ Everything # Unsatisfiable
    /\ \A s, e : /\ Window(s, e) # Everything /\ Window(s, e) # Unsatisfiable
                 /\ Window(s, e).kind = "window" /\ Window(s, e).start = s /\ Window(s, e).end = e
    /\ Everything.kind = "all" /\ Unsatisfiable.kind = "416"
  <1>1. Everything.kind = "all" /\ Unsatisfiable.kind = "416"
    BY DEF Everything, Unsatisfiable
  <1>2. \A s, e : /\ Window(s, e).kind = "window"
                  /\ Window(s, e).start = s /\ Window(s, e).end = e
    BY DEF Window
  <1> QED
    BY <1>1, <1>2

Right(h, T) ==
    \/ Parse(h, T) = Unsatisfiable /\ Behind(h)
    \/ Parse(h, T) = Everything /\ ~Behind(h) /\ Ignored(h) /\ Asks(h, 0, T - 1)
    \/ \E s, e \in Nat : /\ s <= e /\ e < T /\ Parse(h, T) = Window(s, e)
                         /\ ~Behind(h) /\ ~Ignored(h) /\ Asks(h, s, e)

LEMMA ParseRight ==
    ASSUME NEW h \in Requests, NEW T \in Nat, Len(File) = T
    PROVE  Right(h, T)
  <1>1. Ignored(h) => Asks(h, 0, T - 1)
    BY DEF Asks, InRange
  <1>2. CASE T = 0
    <2>1. Ignored(h) /\ ~Behind(h)
      BY <1>2 DEF Ignored, Behind
    <2>2. Parse(h, T) = Everything
      BY <1>2 DEF Parse
    <2> QED
      BY <1>1, <2>1, <2>2 DEF Right
  <1>3. CASE T # 0 /\ h.form \in {"none", "malformed"}
    <2>1. Ignored(h) /\ ~Behind(h)
      BY <1>3 DEF Ignored, Behind
    <2>2. Parse(h, T) = Everything
      BY <1>3 DEF Parse
    <2> QED
      BY <1>1, <2>1, <2>2 DEF Right
  <1>4. CASE T # 0 /\ h \in [form : {"suffix"}, n : Nat]
    <2>1. h.form = "suffix" /\ h.n \in Nat /\ ~Behind(h) /\ T > 0
      BY <1>4 DEF Behind
    <2>2. Parse(h, T) = IF h.n = 0 THEN Everything ELSE Window(Greatest(0, T - h.n), T - 1)
      BY <2>1 DEF Parse
    <2>3. CASE h.n = 0
      BY <1>1, <2>1, <2>2, <2>3 DEF Right, Ignored
    <2>4. CASE h.n # 0
      <3> DEFINE s == Greatest(0, T - h.n)
      <3>1. s \in Nat /\ T - 1 \in Nat /\ s <= T - 1 /\ T - 1 < T
        BY <2>1, <2>4 DEF Greatest
      <3>2. ~Ignored(h)
        BY <2>1, <2>4 DEF Ignored
      <3>3. \A p \in 0..T - 1 : p >= T - h.n <=> p >= s
        BY <2>1 DEF Greatest
      <3> HIDE DEF s
      <3>4. \A p \in 0..T - 1 : InRange(h, p) <=> p >= T - h.n
        BY <2>1, <3>2 DEF InRange
      <3>5. Asks(h, s, T - 1)
        BY <3>1, <3>3, <3>4 DEF Asks
      <3>6. Parse(h, T) = Window(s, T - 1)
        BY <2>2, <2>4 DEF s
      <3> QED
        BY <2>1, <3>1, <3>2, <3>5, <3>6 DEF Right
    <2> QED
      BY <2>3, <2>4
  <1>5. CASE T # 0 /\ h \in [form : {"first"}, first : Nat, last : Nat \cup {Absent}]
    <2> DEFINE end == IF h.last = Absent THEN T - 1 ELSE h.last
    <2>1. /\ h.form = "first" /\ h.first \in Nat /\ T > 0
          /\ h.last # Absent => h.last \in Nat
      BY <1>5
    <2>2. Parse(h, T) = IF h.first >= T THEN Unsatisfiable
                        ELSE IF end < h.first THEN Everything
                        ELSE Window(h.first, Least(end, T - 1))
      BY <2>1 DEF Parse
    <2>3. Behind(h) <=> h.first >= T
      BY <2>1 DEF Behind
    <2>4. CASE h.first >= T
      BY <2>2, <2>3, <2>4 DEF Right
    <2>5. CASE ~(h.first >= T) /\ end < h.first
      <3>1. h.last # Absent /\ h.last < h.first
        BY <2>1, <2>5
      <3>2. Ignored(h)
        BY <2>1, <3>1 DEF Ignored
      <3> QED
        BY <1>1, <2>2, <2>3, <2>5, <3>2 DEF Right
    <2>6. CASE ~(h.first >= T) /\ ~(end < h.first)
      <3> DEFINE e == Least(end, T - 1)
      <3>0. end \in Nat
        BY <2>1
      <3>1. e \in Nat /\ h.first <= e /\ e < T
        <4> HIDE DEF end
        <4> QED
          BY <2>1, <2>6, <3>0 DEF Least
      <3>2. ~Ignored(h)
        BY <2>1, <2>6 DEF Ignored
      <3>3. \A p \in 0..T - 1 : (h.last = Absent \/ p <= h.last) <=> p <= e
        <4>1. \A p \in 0..T - 1 : p <= e <=> p <= end
          <5> HIDE DEF end
          <5> QED
            BY <2>1, <3>0 DEF Least
        <4> HIDE DEF e
        <4>2. \A p \in 0..T - 1 : (h.last = Absent \/ p <= h.last) <=> p <= end
          BY <2>1
        <4> QED
          BY <4>1, <4>2
      <3> HIDE DEF e
      <3>4. \A p \in 0..T - 1 : InRange(h, p) <=> p >= h.first /\ p <= e
        BY <2>1, <3>2, <3>3 DEF InRange
      <3>5. Asks(h, h.first, e)
        BY <2>1, <3>1, <3>4 DEF Asks
      <3>6. Parse(h, T) = Window(h.first, e)
        BY <2>2, <2>6 DEF e
      <3> QED
        BY <2>1, <2>3, <2>6, <3>1, <3>2, <3>5, <3>6 DEF Right
    <2> QED
      BY <2>4, <2>5, <2>6
  <1> QED
    BY <1>2, <1>3, <1>4, <1>5 DEF Requests

LEMMA WantedIs ==
    ASSUME layout \in Layouts, NEW h, NEW s \in Nat, NEW e \in Int,
           s <= e + 1, e < Len(File), Asks(h, s, e)
    PROVE  /\ Wanted(h) = SubSeq(File, s + 1, e + 1)
           /\ Wanted(h) \in Seq(Places) /\ Len(Wanted(h)) = e - s + 1
  <1> DEFINE in == {p \in 0..Len(File) - 1 : InRange(h, p)}
             n == e - s + 1
             W == Wanted(h)
             S == SubSeq(File, s + 1, e + 1)
  <1>1. File \in Seq(Places) /\ Len(File) \in Nat
    BY FileIs
  <1>2. W = [k \in 1..Cardinality(in) |-> File[Ascending(in)[k] + 1]]
    BY DEF Wanted
  <1>3. in = s..e
    BY DEF Asks
  <1> HIDE DEF in, W
  <1>4. Cardinality(in) = n /\ n \in Nat /\ \A k \in 1..n : Ascending(in)[k] = s + k - 1
    <2>1. /\ Cardinality(s..e) = IF s > e THEN 0 ELSE e - s + 1
          /\ \A k \in 1..(e - s + 1) : Ascending(s..e)[k] = s + k - 1
      BY AscendingInterval
    <2> QED
      BY <1>3, <2>1
  <1>5. \A k \in 1..n : (s + k - 1) + 1 = s + k /\ s + k \in 1..Len(File)
    BY <1>1
  <1>6. W = [k \in 1..n |-> File[s + k]]
    <2> HIDE DEF n
    <2> QED
      BY <1>2, <1>4, <1>5
  <1>7. W \in Seq(Places) /\ Len(W) = n
    <2>1. \A k \in 1..n : File[s + k] \in Places
      BY <1>1, <1>5, ElementOfSeq
    <2>2. W \in [1..n -> Places]
      BY <1>6, <2>1
    <2> HIDE DEF n
    <2> QED
      BY <1>4, <2>2, FunSeq
  <1>8. S \in Seq(Places) /\ Len(S) = n /\ \A k \in 1..n : S[k] = File[s + k]
    <2> DEFINE q == e + 1
    <2>1. q \in Nat /\ s <= q /\ q <= Len(File) /\ q - s = n
      BY <1>1
    <2>2. S = SubSeq(File, s + 1, q)
      OBVIOUS
    <2> HIDE DEF q, n, S
    <2>3. /\ SubSeq(File, s + 1, q) \in Seq(Places) /\ Len(SubSeq(File, s + 1, q)) = q - s
          /\ \A k \in 1..(q - s) : SubSeq(File, s + 1, q)[k] = File[s + k]
      BY <1>1, <2>1, Cut
    <2> QED
      BY <2>1, <2>2, <2>3
  <1> HIDE DEF S, n
  <1>9. \A k \in 1..Len(W) : W[k] = S[k]
    BY <1>6, <1>7, <1>8
  <1>10. W = S
    BY <1>7, <1>8, <1>9, SeqEqual
  <1>11. Len(W) = n
    BY <1>7
  <1> QED
    BY <1>7, <1>10, <1>11 DEF W, S, n

-----------------------------------------------------------------------------
(* The invariant.  While a reply is served, the body is the file from the   *)
(* first byte of the window to Position, and what is left to read is what   *)
(* a request for the rest of the window would read.                         *)

Position == reply.start + Len(body)
LastByte == reply.start + reply.length - 1

Serving ==
    /\ reply.total = Total(layout)
    /\ \/ reply.status = 206 /\ Parse(asked, Total(layout)) = Window(reply.start, LastByte)
       \/ /\ reply.status = 200 /\ Parse(asked, Total(layout)) = Everything
          /\ reply.start = 0 /\ reply.length = Total(layout)
    /\ Position <= LastByte + 1
    /\ body = SubSeq(File, reply.start + 1, Position)
    /\ reads = IF Position <= LastByte THEN SliceChunks(layout, Position, LastByte) ELSE <<>>

Refusing ==
    /\ reads = <<>> /\ body = <<>>
    /\ \/ reply.status \in {0, 304, 404}
       \/ /\ reply.status = 416 /\ reply.total = Total(layout)
          /\ Parse(asked, Total(layout)) = Unsatisfiable

\* What the client holds is a beginning of the file, and all of it when it says so.
Holding ==
    /\ Len(have) <= Len(File) /\ have = SubSeq(File, 1, Len(have))
    /\ complete => Len(have) = Len(File)

GetTypes ==
    /\ layout \in Layouts /\ asked \in Requests /\ shared \in BOOLEAN /\ complete \in BOOLEAN
    /\ reply \in [status : Nat, start : Nat, length : Nat, total : Nat]
    /\ body \in Seq(Places) /\ have \in Seq(Places)

GetIInv == GetTypes /\ (Serving \/ Refusing) /\ Holding

\* A reply that is served announces the interval that was asked for.
LEMMA Served ==
    ASSUME GetTypes, Serving
    PROVE  /\ reply.start \in Nat /\ LastByte \in Int /\ Len(body) \in Nat
           /\ reply.start <= LastByte + 1 /\ LastByte < Len(File)
           /\ reply.length = LastByte - reply.start + 1
           /\ reply.start <= Position /\ Position <= LastByte + 1 /\ Position \in Nat
           /\ Asks(asked, reply.start, LastByte) /\ ~Behind(asked)
           /\ reply.status \in {200, 206} /\ (reply.status = 206 <=> ~Ignored(asked))
           /\ reply.status = 200 => reply.start = 0 /\ reply.length = Len(File)
  <1> DEFINE T == Total(layout)
             s == reply.start
             e == LastByte
  <1>1. T \in Nat /\ Len(File) = T
    BY FileIs DEF GetTypes
  <1>2. /\ reply.start \in Nat /\ reply.length \in Nat /\ Len(body) \in Nat
    BY LenProperties DEF GetTypes
  <1> HIDE DEF T
  <1>3. /\ e \in Int /\ Position \in Nat /\ s <= Position
        /\ reply.length = e - s + 1 /\ s <= e + 1
    BY <1>2 DEF Position, LastByte
  <1>4. Right(asked, T)
    BY <1>1, ParseRight DEF GetTypes
  <1>5. CASE reply.status = 206 /\ Parse(asked, T) = Window(s, e)
    <2>1. PICK x \in Nat, y \in Nat :
            /\ x <= y /\ y < T /\ Parse(asked, T) = Window(x, y)
            /\ ~Behind(asked) /\ ~Ignored(asked) /\ Asks(asked, x, y)
      BY <1>4, <1>5, Kinds DEF Right
    <2>2. x = s /\ y = e
      <3>1. Window(x, y) = Window(s, e)
        BY <1>5, <2>1
      <3>2. \A i, j : Window(i, j).start = i /\ Window(i, j).end = j
        BY Kinds
      <3> HIDE DEF s, e
      <3> QED
        BY <3>1, <3>2
    <2> QED
      BY <1>1, <1>2, <1>3, <1>5, <2>1, <2>2 DEF Serving
  <1>6. CASE reply.status = 200 /\ Parse(asked, T) = Everything /\ s = 0 /\ reply.length = T
    <2>1. ~Behind(asked) /\ Ignored(asked) /\ Asks(asked, 0, T - 1)
      BY <1>4, <1>6, Kinds DEF Right
    <2>2. e = T - 1
      BY <1>1, <1>6 DEF LastByte
    <2> QED
      BY <1>1, <1>2, <1>3, <1>6, <2>1, <2>2 DEF Serving
  <1> QED
    BY <1>5, <1>6 DEF Serving, T

LEMMA PrefixOf ==
    ASSUME NEW F \in Seq(Places), NEW s \in Nat, NEW p \in Nat, NEW q \in Nat,
           s <= p, p <= q, q <= Len(F)
    PROVE  IsPrefix(SubSeq(F, s + 1, p), SubSeq(F, s + 1, q))
  <1> DEFINE A == SubSeq(F, s + 1, p)
             B == SubSeq(F, s + 1, q)
             n == p - s
  <1>0. Len(F) \in Nat /\ n \in 0..(q - s) /\ s + n = p /\ p <= Len(F)
    BY LenProperties
  <1>1. A \in Seq(Places) /\ Len(A) = n /\ Len(B) = q - s
    BY <1>0, Cut
  <1>2. SubSeq(B, 1, n) = SubSeq(F, s + 1, s + n)
    <2> HIDE DEF n
    <2> QED
      BY <1>0, CutOfCut
  <1>3. SubSeq(A, 1, n) = A
    <2> HIDE DEF A, n
    <2> QED
      BY <1>1, SubSeqFull
  <1>4. Len(A) <= Len(B)
    BY <1>0, <1>1
  <1> HIDE DEF A, B
  <1>5. SubSeq(A, 1, Len(A)) = SubSeq(B, 1, Len(A))
    BY <1>0, <1>1, <1>2, <1>3 DEF A
  <1> QED
    BY <1>4, <1>5 DEF IsPrefix, A, B

LEMMA InvIsTheRange == GetIInv => ReplyIsTheRange
  <1> SUFFICES ASSUME GetIInv PROVE ReplyIsTheRange
    OBVIOUS
  <1> USE DEF GetIInv
  <1>1. layout \in Layouts /\ File \in Seq(Places) /\ Len(File) = Total(layout) /\ Len(File) \in Nat
    BY FileIs DEF GetTypes
  <1>2. CASE Serving
    <2> DEFINE s == reply.start
               e == LastByte
               p == Position
               W == Wanted(asked)
    <2>1. /\ s \in Nat /\ e \in Int /\ s <= e + 1 /\ e < Len(File) /\ p \in Nat
          /\ reply.length = e - s + 1 /\ s <= p /\ p <= e + 1
          /\ Asks(asked, s, e) /\ ~Behind(asked)
          /\ reply.status \in {200, 206} /\ (reply.status = 206 <=> ~Ignored(asked))
      BY <1>2, Served
    <2>2. body = SubSeq(File, s + 1, p) /\ reads = IF p <= e THEN SliceChunks(layout, p, e) ELSE <<>>
      BY <1>2 DEF Serving
    <2> HIDE DEF s, e, p, W
    <2>3. W = SubSeq(File, s + 1, e + 1) /\ Len(W) = e - s + 1
      BY <1>1, <2>1, WantedIs DEF W
    <2>4. IsPrefix(body, W)
      <3> DEFINE q == e + 1
      <3>1. q \in Nat /\ p <= q /\ q <= Len(File)
        BY <1>1, <2>1
      <3>2. W = SubSeq(File, s + 1, q)
        BY <2>3
      <3> HIDE DEF q
      <3> QED
        BY <1>1, <2>1, <2>2, <3>1, <3>2, PrefixOf
    <2>5. ASSUME reads = <<>> PROVE body = W
      <3>1. ~(p <= e)
        <4> SUFFICES ASSUME p <= e PROVE FALSE
          OBVIOUS
        <4>1. layout \in Chunklists /\ e \in Nat /\ e < Total(layout)
          BY <1>1, <2>1, FileIs
        <4>2. SliceChunks(layout, p, e) # <<>>
          BY <2>1, <4>1, FirstSlice
        <4> QED
          BY <2>2, <2>5, <4>2
      <3>2. p = e + 1
        BY <2>1, <3>1
      <3> QED
        BY <2>2, <2>3, <3>2
    <2> QED
      BY <2>1, <2>3, <2>4, <2>5 DEF ReplyIsTheRange, W
  <1>3. CASE Refusing /\ reply.status \in {0, 304, 404}
    BY <1>3 DEF Refusing, ReplyIsTheRange
  <1>4. CASE Refusing /\ reply.status = 416
    <2>1. Right(asked, Total(layout))
      BY <1>1, FileIs, ParseRight DEF GetTypes
    <2>2. Behind(asked)
      BY <1>4, <2>1, Kinds DEF Right, Refusing
    <2> QED
      BY <1>1, <1>4, <2>2 DEF Refusing, ReplyIsTheRange
  <1> QED
    BY <1>2, <1>3, <1>4 DEF Refusing

LEMMA InvIsTheFile == GetIInv => DownloadIsTheFile
  <1> SUFFICES ASSUME GetIInv PROVE DownloadIsTheFile
    OBVIOUS
  <1>1. File \in Seq(Places) /\ have \in Seq(Places) /\ Len(have) \in Nat
    BY FileIs, LenProperties DEF GetIInv, GetTypes
  <1>2. Len(have) <= Len(File) /\ have = SubSeq(File, 1, Len(have))
    BY DEF GetIInv, Holding
  <1>3. SubSeq(have, 1, Len(have)) = have /\ SubSeq(File, 1, Len(File)) = File
    BY <1>1, SubSeqFull
  <1>4. IsPrefix(have, File)
    BY <1>2, <1>3 DEF IsPrefix
  <1>5. complete => have = File
    <2>1. complete => Len(have) = Len(File)
      BY DEF GetIInv, Holding
    <2> QED
      BY <1>2, <1>3, <2>1
  <1> QED
    BY <1>4, <1>5 DEF DownloadIsTheFile

-----------------------------------------------------------------------------
(* The steps.                                                              *)

LEMMA GetStarts == GetInit => GetIInv
  <1> SUFFICES ASSUME GetInit PROVE GetIInv
    OBVIOUS
  <1> USE DEF GetInit, NoReply
  <1>1. <<>> \in Seq(Places) /\ Len(<<>>) = 0
    BY EmptySeq
  <1>2. GetTypes
    BY <1>1 DEF GetTypes, Requests
  <1>3. Refusing
    BY DEF Refusing
  <1>4. Holding
    <2>1. Len(File) \in Nat
      BY FileIs
    <2>2. SubSeq(File, 1, 0) = <<>>
      BY SubSeqEmpty
    <2> QED
      BY <1>1, <2>1, <2>2 DEF Holding
  <1> QED
    BY <1>2, <1>3, <1>4 DEF GetIInv

LEMMA FileOfLayout == File = FileOf(layout)
  BY DEF File, FileOf

LEMMA FileStays == layout' = layout => File' = File
  <1>1. (File = FileOf(layout))'
    BY FileOfLayout, PTL
  <1> QED
    BY <1>1, FileOfLayout

Refusal(x, y) == [NoReply EXCEPT !.status = x, !.total = y]

LEMMA RefusalIs ==
    ASSUME NEW x \in Nat, NEW y \in Nat
    PROVE  /\ Refusal(x, y) \in [status : Nat, start : Nat, length : Nat, total : Nat]
           /\ Refusal(x, y).status = x /\ Refusal(x, y).total = y
  BY DEF Refusal, NoReply

\* The answer to a header, of which the body is still empty.
LEMMA AnswerStep == GetIInv /\ GetAttachment => GetIInv'
  <1> SUFFICES ASSUME GetIInv, GetAttachment PROVE GetIInv'
    OBVIOUS
  <1> DEFINE T == Total(layout)
  <1>1. PICK h \in Headers \cup {From(Len(have))}, cached \in {FALSE, complete} :
            asked' = h /\ Answer(h, cached)
    BY DEF GetAttachment
  <1>2. /\ layout' = layout /\ shared' = shared /\ have' = have /\ complete' = complete
        /\ body' = <<>> /\ File' = File
    BY FileStays DEF GetAttachment
  <1>3. /\ layout \in Layouts /\ layout \in Chunklists /\ T \in Nat /\ Len(File) = T
        /\ File \in Seq(Places) /\ have \in Seq(Places) /\ Len(have) \in Nat
        /\ shared \in BOOLEAN /\ complete \in BOOLEAN
    BY FileIs, LenProperties DEF GetIInv, GetTypes
  <1>4. h \in Requests
    <2>1. From(Len(have)) \in Requests
      BY <1>3 DEF From, Requests
    <2>2. Headers \subseteq Requests
      BY DownloadConstants DEF Headers, Requests
    <2> QED
      BY <2>1, <2>2
  <1>5. Right(h, T)
    BY <1>3, <1>4, ParseRight
  <1>6. Holding'
    BY <1>2 DEF GetIInv, Holding
  <1> DEFINE Ok     == reply' \in [status : Nat, start : Nat, length : Nat, total : Nat]
             Served2(s, e, status) ==
                /\ reply' = [status |-> status, start |-> s, length |-> e - s + 1, total |-> T]
                /\ reads' = SliceChunks(layout, s, e)
             Refused(status) ==
                /\ reply' \in [status : Nat, start : Nat, length : Nat, total : Nat]
                /\ reply'.status = status /\ (status = 416 => reply'.total = T)
                /\ reads' = <<>>
  <1>7. \/ Refused(404) \/ Refused(304)
        \/ Parse(h, T) = Unsatisfiable /\ Refused(416)
        \/ Parse(h, T).kind = "window" /\ Parse(h, T) # Unsatisfiable
           /\ Served2(Parse(h, T).start, Parse(h, T).end, 206)
        \/ Parse(h, T).kind # "window" /\ Parse(h, T) # Unsatisfiable /\ Served2(0, T - 1, 200)
    <2> DEFINE parsed == Parse(h, T)
               s      == IF parsed.kind = "window" THEN parsed.start ELSE 0
               e      == IF parsed.kind = "window" THEN parsed.end ELSE T - 1
               status == CASE ~shared -> 404
                           [] shared /\ cached -> 304
                           [] shared /\ ~cached /\ parsed = Unsatisfiable -> 416
                           [] shared /\ ~cached /\ parsed.kind = "window" -> 206
                           [] OTHER -> 200
    <2>1. IF status \in {200, 206}
          THEN /\ reply' = [status |-> status, start |-> s, length |-> e - s + 1, total |-> T]
               /\ reads' = SliceChunks(layout, s, e)
          ELSE /\ reply' = [NoReply EXCEPT !.status = status, !.total = IF status = 416 THEN T ELSE 0]
               /\ reads' = <<>>
      BY <1>1 DEF Answer
    <2>0. cached \in BOOLEAN
      BY <1>3
    <2>8. T \in Nat
      BY <1>3
    <2> HIDE DEF T, parsed
    <2>2. CASE ~shared
      <3>1. status = 404
        BY <2>2
      <3> HIDE DEF status, s, e
      <3>2. /\ reply' = Refusal(404, 0)
            /\ reads' = <<>>
        BY <2>1, <3>1 DEF Refusal
      <3>3. Refused(404)
        BY <2>8, <3>2, RefusalIs
      <3> QED
        BY <3>3
    <2>3. CASE shared /\ cached
      <3>1. status = 304
        BY <2>3
      <3> HIDE DEF status, s, e
      <3>2. /\ reply' = Refusal(304, 0)
            /\ reads' = <<>>
        BY <2>1, <3>1 DEF Refusal
      <3>3. Refused(304)
        BY <2>8, <3>2, RefusalIs
      <3> QED
        BY <3>3
    <2>4. CASE shared /\ ~cached /\ parsed = Unsatisfiable
      <3>1. status = 416
        BY <2>4, Kinds
      <3> HIDE DEF status, s, e
      <3>2. /\ reply' = Refusal(416, T)
            /\ reads' = <<>>
        BY <2>1, <3>1 DEF Refusal
      <3>3. Refused(416)
        BY <2>8, <3>2, RefusalIs
      <3> QED
        BY <2>4, <3>3 DEF parsed
    <2>5. CASE shared /\ ~cached /\ parsed # Unsatisfiable /\ parsed.kind = "window"
      <3>1. status = 206
        BY <2>5
      <3> QED
        BY <2>1, <2>5, <3>1 DEF parsed
    <2>6. CASE shared /\ ~cached /\ parsed # Unsatisfiable /\ parsed.kind # "window"
      <3>1. status = 200
        BY <2>6
      <3> QED
        BY <2>1, <2>6, <3>1 DEF parsed
    <2> QED
      BY <2>0, <2>2, <2>3, <2>4, <2>5, <2>6
  <1>8. <<>> \in Seq(Places) /\ Len(<<>>) = 0
    BY EmptySeq
  <1> HIDE DEF T
  <1>9. ASSUME NEW status \in {404, 304, 416}, Refused(status),
               status = 416 => Parse(h, T) = Unsatisfiable
        PROVE  Ok /\ Refusing'
    <2>1. Ok
      BY <1>3, <1>9
    <2> QED
      BY <1>1, <1>2, <1>9, <2>1 DEF Refusing, T
  <1>10. ASSUME NEW s \in Nat, NEW e \in Int, s <= e + 1, e < T, NEW status \in {200, 206},
                Served2(s, e, status),
                SliceChunks(layout, s, e) = IF s <= e THEN SliceChunks(layout, s, e) ELSE <<>>,
                \/ status = 206 /\ Parse(h, T) = Window(s, e)
                \/ status = 200 /\ Parse(h, T) = Everything /\ s = 0 /\ e = T - 1
         PROVE  Ok /\ Serving'
    <2>1. /\ reply'.status = status /\ reply'.start = s /\ reply'.length = e - s + 1
          /\ reply'.total = T /\ reads' = SliceChunks(layout, s, e)
      BY <1>10
    <2>2. Position' = s /\ LastByte' = e
      BY <1>2, <1>8, <2>1 DEF Position, LastByte
    <2>3. body' = SubSeq(File, s + 1, s)
      BY <1>2, SubSeqEmpty
    <2>4. Ok
      <3>1. e - s + 1 \in Nat /\ status \in Nat
        BY <1>10
      <3> QED
        BY <1>3, <1>10, <3>1
    <2>5. Total(layout)' = T /\ Parse(asked, Total(layout))' = Parse(h, T) /\ Window(reply.start, LastByte)' = Window(s, e)
      BY <1>1, <1>2, <2>1, <2>2 DEF T
    <2>6. \/ reply'.status = 206 /\ Parse(asked, Total(layout))' = Window(reply.start, LastByte)'
          \/ /\ reply'.status = 200 /\ Parse(asked, Total(layout))' = Everything
             /\ reply'.start = 0 /\ reply'.length = Total(layout)'
      BY <1>3, <1>10, <2>1, <2>5
    <2>7. (reads = IF Position <= LastByte THEN SliceChunks(layout, Position, LastByte) ELSE <<>>)'
      BY <1>2, <1>10, <2>1, <2>2
    <2>8. (Position <= LastByte + 1)'
      BY <1>10, <2>2
    <2>9. (body = SubSeq(File, reply.start + 1, Position))'
      BY <1>2, <2>1, <2>2, <2>3
    <2>10. (reply.total = Total(layout))'
      BY <2>1, <2>5
    <2> QED
      BY <2>4, <2>6, <2>7, <2>8, <2>9, <2>10 DEF Serving
  <1>11. Ok /\ (Serving \/ Refusing)'
    <2> HIDE DEF Ok, Refused, Served2
    <2>1. CASE Refused(404) \/ Refused(304)
      BY <1>9, <2>1
    <2>2. CASE Parse(h, T) = Unsatisfiable /\ Refused(416)
      BY <1>9, <2>2
    <2>3. CASE Parse(h, T).kind = "window" /\ Parse(h, T) # Unsatisfiable
               /\ Served2(Parse(h, T).start, Parse(h, T).end, 206)
      <3>1. PICK s \in Nat, e \in Nat : s <= e /\ e < T /\ Parse(h, T) = Window(s, e)
        BY <1>5, <2>3, Kinds DEF Right
      <3>2. Served2(s, e, 206)
        BY <2>3, <3>1, Kinds
      <3> QED
        BY <1>10, <3>1, <3>2
    <2>4. CASE Parse(h, T).kind # "window" /\ Parse(h, T) # Unsatisfiable /\ Served2(0, T - 1, 200)
      <3>1. Parse(h, T) = Everything
        BY <1>5, <2>4, Kinds DEF Right
      <3>2. SliceChunks(layout, 0, T - 1)
                = IF 0 <= T - 1 THEN SliceChunks(layout, 0, T - 1) ELSE <<>>
        <4>1. T = 0 => T - 1 = -1
          OBVIOUS
        <4> QED
          BY <1>3, <4>1, NoSlices
      <3>3. T - 1 \in Int /\ 0 <= (T - 1) + 1 /\ T - 1 < T
        BY <1>3
      <3> QED
        BY <1>10, <2>4, <3>1, <3>2, <3>3
    <2> QED
      BY <1>7, <2>1, <2>2, <2>3, <2>4
  <1>12. GetTypes'
    BY <1>1, <1>2, <1>3, <1>4, <1>8, <1>11 DEF GetTypes
  <1> QED
    BY <1>6, <1>11, <1>12 DEF GetIInv

\* A slice is sent: the body grows by the next part of the file.
LEMMA SendStep == GetIInv /\ SendChunk => GetIInv'
  <1> SUFFICES ASSUME GetIInv, SendChunk PROVE GetIInv'
    OBVIOUS
  <1>1. /\ reads # <<>> /\ body' = body \o GetChunk(Head(reads)) /\ reads' = Tail(reads)
        /\ layout' = layout /\ shared' = shared /\ asked' = asked /\ reply' = reply
        /\ have' = have /\ complete' = complete /\ File' = File
    BY FileStays DEF SendChunk
  <1>2. GetTypes /\ Serving
    BY <1>1 DEF GetIInv, Refusing
  <1> DEFINE s == reply.start
             e == LastByte
             p == Position
  <1>3. /\ s \in Nat /\ e \in Int /\ p \in Nat /\ s <= p /\ e < Len(File) /\ Len(body) \in Nat
    BY <1>2, Served
  <1>4. layout \in Chunklists /\ File = FileOf(layout) /\ Len(File) = Total(layout) /\ File \in Seq(Places)
    BY <1>2, FileIs DEF GetTypes
  <1>5. p <= e /\ e \in Nat /\ reads = SliceChunks(layout, p, e) /\ body = SubSeq(File, s + 1, p)
    BY <1>1, <1>2, <1>3 DEF Serving
  <1> HIDE DEF s, e, p
  <1>6. e < Total(layout)
    BY <1>3, <1>4
  <1>7. PICK q \in (p + 1)..(e + 1) :
            /\ GetChunk(Head(SliceChunks(layout, p, e))) = SubSeq(FileOf(layout), p + 1, q)
            /\ Tail(SliceChunks(layout, p, e)) = IF q <= e THEN SliceChunks(layout, q, e) ELSE <<>>
    BY <1>3, <1>4, <1>5, <1>6, FirstSlice
  <1>8. q \in Nat /\ p <= q /\ s <= q /\ q <= Len(File) /\ q <= e + 1 /\ Len(File) \in Nat
    BY <1>3, <1>4, <1>7, LenProperties
  <1>9. body' = SubSeq(File, s + 1, q)
    <2>1. body' = SubSeq(File, s + 1, p) \o SubSeq(File, p + 1, q)
      BY <1>1, <1>4, <1>5, <1>7
    <2>2. SubSeq(File, s + 1, p) \o SubSeq(File, p + 1, q) = SubSeq(File, s + 1, q)
      BY <1>3, <1>4, <1>8, Glue
    <2> QED
      BY <2>1, <2>2
  <1>10. body' \in Seq(Places) /\ Len(body') = q - s
    BY <1>3, <1>4, <1>8, <1>9, Cut
  <1>11. Position' = q /\ LastByte' = e /\ reply'.start = s
    <2>1. Position' = s + Len(body')
      BY <1>1 DEF Position, s
    <2>2. LastByte' = e
      BY <1>1 DEF LastByte, e
    <2> QED
      BY <1>1, <1>3, <1>8, <1>10, <2>1, <2>2 DEF s
  <1>12. (reads = IF Position <= LastByte THEN SliceChunks(layout, Position, LastByte) ELSE <<>>)'
    BY <1>1, <1>5, <1>7, <1>11
  <1>13. (body = SubSeq(File, reply.start + 1, Position))'
    BY <1>1, <1>9, <1>11
  <1>14. (Position <= LastByte + 1)'
    BY <1>8, <1>11
  <1>15. /\ (reply.total = Total(layout))'
         /\ \/ reply'.status = 206 /\ Parse(asked, Total(layout))' = Window(reply.start, LastByte)'
            \/ /\ reply'.status = 200 /\ Parse(asked, Total(layout))' = Everything
               /\ reply'.start = 0 /\ reply'.length = Total(layout)'
    <2>1. Total(layout)' = Total(layout) /\ Parse(asked, Total(layout))' = Parse(asked, Total(layout))
      BY <1>1
    <2>2. Window(reply.start, LastByte)' = Window(reply.start, LastByte)
      BY <1>1, <1>11 DEF e
    <2> QED
      BY <1>1, <1>2, <2>1, <2>2 DEF Serving
  <1>16. Serving'
    BY <1>12, <1>13, <1>14, <1>15 DEF Serving
  <1>17. Holding'
    BY <1>1 DEF GetIInv, Holding
  <1>18. GetTypes'
    BY <1>1, <1>2, <1>10 DEF GetTypes
  <1> QED
    BY <1>16, <1>17, <1>18 DEF GetIInv

\* The last copy goes, or nothing happens: what is under way runs on.
LEMMA RunsOn ==
    ASSUME GetIInv, shared' \in BOOLEAN,
           UNCHANGED <<layout, asked, reply, reads, body, have, complete>>
    PROVE  GetIInv'
  <1>1. /\ layout' = layout /\ asked' = asked /\ reply' = reply
        /\ reads' = reads /\ body' = body /\ have' = have /\ complete' = complete /\ File' = File
    BY FileStays
  <1>2. Position' = Position /\ LastByte' = LastByte /\ Total(layout)' = Total(layout)
    BY <1>1 DEF Position, LastByte
  <1>3. GetTypes' /\ Holding'
    BY <1>1 DEF GetIInv, GetTypes, Holding
  <1>4. Refusing => Refusing'
    BY <1>1, <1>2 DEF Refusing
  <1>5. Serving => Serving'
    BY <1>1, <1>2 DEF Serving
  <1> QED
    BY <1>3, <1>4, <1>5 DEF GetIInv

\* What the client holds after n bytes of a body is a beginning of the file.
LEMMA KeepHolds ==
    ASSUME GetIInv, NEW n \in 0..Len(body), Keep(n)
    PROVE  /\ have' \in Seq(Places) /\ Len(have') <= Len(File)
           /\ have' = SubSeq(File, 1, Len(have'))
           /\ Anew => Len(have') = n /\ reply.length = Len(File)
           /\ Fits => reply.total = Len(File)
           /\ ~Anew /\ ~Fits => have' = have
           /\ complete => have' = have
  <1>1. GetTypes /\ Holding /\ (Serving \/ Refusing)
    BY DEF GetIInv
  <1>2. /\ File \in Seq(Places) /\ Len(File) = Total(layout) /\ have \in Seq(Places)
        /\ Len(have) \in Nat /\ Len(File) \in Nat
    BY <1>1, FileIs, LenProperties DEF GetTypes
  <1>3. ASSUME reply.status \in {200, 206}
        PROVE  /\ Serving /\ reply.start \in Nat /\ Len(body) \in Nat
               /\ Position = reply.start + Len(body) /\ Position \in Nat /\ Position <= Len(File)
               /\ body = SubSeq(File, reply.start + 1, Position) /\ n \in Nat
    <2>1. Serving
      BY <1>1, <1>3 DEF Refusing
    <2>2. /\ reply.start \in Nat /\ Len(body) \in Nat /\ Position \in Nat
          /\ LastByte \in Int /\ Position <= LastByte + 1 /\ LastByte < Len(File)
      BY <1>1, <2>1, Served
    <2>3. Position <= Len(File)
      BY <1>2, <2>2
    <2> QED
      BY <2>1, <2>2, <2>3 DEF Serving, Position
  <1>4. ASSUME reply.status \in {200, 206}
        PROVE  SubSeq(body, 1, n) = SubSeq(File, reply.start + 1, reply.start + n)
    <2> DEFINE s == reply.start
               q == Position
    <2>1. s \in Nat /\ q \in Nat /\ s <= q /\ q <= Len(File) /\ n \in 0..(q - s)
      BY <1>3, <1>4
    <2>2. body = SubSeq(File, s + 1, q)
      BY <1>3, <1>4
    <2> HIDE DEF s, q
    <2>3. SubSeq(SubSeq(File, s + 1, q), 1, n) = SubSeq(File, s + 1, s + n)
      BY <1>2, <2>1, CutOfCut
    <2> QED
      BY <2>2, <2>3 DEF s
  <1>5. CASE Anew
    <2>1. /\ reply.status = 200 /\ ~complete /\ have' = SubSeq(body, 1, n) /\ ~Fits
      BY <1>5 DEF Anew, Keep, Fits
    <2>2. reply.start = 0 /\ reply.length = Len(File)
      BY <1>1, <1>3, <2>1, Served
    <2>3. have' = SubSeq(File, 0 + 1, n) /\ n \in Nat /\ 0 <= n /\ n <= Len(File)
      BY <1>2, <1>3, <1>4, <2>1, <2>2
    <2>4. have' \in Seq(Places) /\ Len(have') = n - 0
      BY <1>2, <2>3, Cut
    <2>5. Len(have') = n
      BY <2>3, <2>4
    <2> QED
      BY <1>5, <2>1, <2>2, <2>3, <2>4, <2>5
  <1>6. CASE Fits
    <2> DEFINE k == Len(have)
    <2>1. /\ reply.status = 206 /\ ~complete /\ reply.start = k
          /\ have' = have \o SubSeq(body, 1, n) /\ ~Anew
      BY <1>6 DEF Anew, Keep, Fits
    <2>2. k \in Nat /\ k + n \in Nat /\ k <= k + n /\ k + n <= Len(File) /\ n \in Nat
      BY <1>2, <1>3, <2>1
    <2>3. have = SubSeq(File, 0 + 1, k)
      BY <1>1 DEF Holding
    <2>4. SubSeq(body, 1, n) = SubSeq(File, k + 1, k + n)
      BY <1>4, <2>1
    <2> HIDE DEF k
    <2>5. have' = SubSeq(File, 0 + 1, k + n)
      <3>1. SubSeq(File, 0 + 1, k) \o SubSeq(File, k + 1, k + n) = SubSeq(File, 0 + 1, k + n)
        BY <1>2, <2>2, Glue
      <3> QED
        BY <2>1, <2>3, <2>4, <3>1
    <2>6. have' \in Seq(Places) /\ Len(have') = (k + n) - 0
      <3>1. 0 <= k + n
        BY <2>2
      <3> QED
        BY <1>2, <2>2, <2>5, <3>1, Cut
    <2>7. Len(have') = k + n
      BY <2>2, <2>6
    <2>8. reply.total = Len(File)
      BY <1>2, <1>3, <2>1 DEF Serving
    <2> QED
      BY <1>6, <2>1, <2>2, <2>5, <2>6, <2>7, <2>8
  <1>7. CASE ~Anew /\ ~Fits
    <2>1. have' = have
      BY <1>7 DEF Keep
    <2> QED
      BY <1>1, <1>2, <1>7, <2>1 DEF Holding
  <1> QED
    BY <1>5, <1>6, <1>7

LEMMA OverRefuses ==
    ASSUME GetIInv, Over, have' \in Seq(Places), complete' \in BOOLEAN
    PROVE  GetTypes' /\ Refusing' /\ File' = File
  <1>1. /\ reply' = NoReply /\ reads' = <<>> /\ body' = <<>> /\ File' = File
        /\ layout' = layout /\ shared' = shared /\ asked' = asked
    BY FileStays DEF Over
  <1>2. GetTypes'
    BY <1>1, EmptySeq DEF GetIInv, GetTypes, NoReply
  <1>3. Refusing'
    BY <1>1 DEF Refusing, NoReply
  <1> QED
    BY <1>1, <1>2, <1>3

LEMMA FinishStep == GetIInv /\ Finish => GetIInv'
  <1> SUFFICES ASSUME GetIInv, Finish PROVE GetIInv'
    OBVIOUS
  <1> DEFINE n == Len(body)
  <1>1. /\ Keep(n) /\ Over
        /\ complete' = \/ complete
                       \/ Anew /\ n = reply.length
                       \/ Fits /\ Len(have') = reply.total
                       \/ reply.status = 416 /\ Len(have) = reply.total
    BY DEF Finish
  <1>2. n \in Nat /\ n \in 0..Len(body)
    BY LenProperties DEF GetIInv, GetTypes
  <1>3. /\ have' \in Seq(Places) /\ Len(have') <= Len(File)
        /\ have' = SubSeq(File, 1, Len(have'))
        /\ Anew => Len(have') = n /\ reply.length = Len(File)
        /\ Fits => reply.total = Len(File)
        /\ ~Anew /\ ~Fits => have' = have
        /\ complete => have' = have
    BY <1>1, <1>2, KeepHolds
  <1>4. complete \in BOOLEAN
    BY DEF GetIInv, GetTypes
  <1>5. complete' \in BOOLEAN
    BY <1>1, <1>4
  <1>6. GetTypes' /\ Refusing' /\ File' = File
    BY <1>1, <1>3, <1>5, OverRefuses
  <1>7. complete' => Len(have') = Len(File)
    <2>1. CASE complete
      BY <1>3, <2>1 DEF GetIInv, Holding
    <2>2. CASE Anew /\ n = reply.length
      BY <1>3, <2>2
    <2>3. CASE Fits /\ Len(have') = reply.total
      BY <1>3, <2>3
    <2>4. CASE reply.status = 416 /\ Len(have) = reply.total
      <3>1. ~Anew /\ ~Fits
        BY <2>4 DEF Anew, Fits
      <3>2. reply.total = Total(layout)
        BY <2>4 DEF GetIInv, Serving, Refusing
      <3>3. Len(File) = Total(layout)
        BY FileIs DEF GetIInv, GetTypes
      <3> QED
        BY <1>3, <2>4, <3>1, <3>2, <3>3
    <2> QED
      BY <1>1, <2>1, <2>2, <2>3, <2>4
  <1> QED
    BY <1>3, <1>6, <1>7 DEF GetIInv, Holding

LEMMA BreakStep == GetIInv /\ Break => GetIInv'
  <1> SUFFICES ASSUME GetIInv, Break PROVE GetIInv'
    OBVIOUS
  <1>1. PICK n \in 0..Len(body) : Keep(n)
    BY DEF Break
  <1>2. Over /\ complete' = complete
    BY DEF Break
  <1>3. /\ have' \in Seq(Places) /\ Len(have') <= Len(File)
        /\ have' = SubSeq(File, 1, Len(have'))
        /\ complete => have' = have
    BY <1>1, KeepHolds
  <1>4. complete' \in BOOLEAN
    BY <1>2 DEF GetIInv, GetTypes
  <1>5. GetTypes' /\ Refusing' /\ File' = File
    BY <1>2, <1>3, <1>4, OverRefuses
  <1> QED
    BY <1>2, <1>3, <1>5 DEF GetIInv, Holding

-----------------------------------------------------------------------------
(* What is proved.                                                         *)

\* GetIInv is an invariant: whatever the header, the file and the moment of a break
\* (messages.py, download_attachment; ranges.py).
THEOREM GetInvariance == GetSpec => []GetIInv
  <1>1. GetInit => GetIInv
    BY GetStarts
  <1>2. GetIInv /\ [GetNext]_getVars => GetIInv'
    <2> SUFFICES ASSUME GetIInv, [GetNext]_getVars PROVE GetIInv'
      OBVIOUS
    <2>1. CASE GetAttachment
      BY <2>1, AnswerStep
    <2>2. CASE SendChunk
      BY <2>2, SendStep
    <2>3. CASE LoseCopy
      BY <2>3, RunsOn DEF LoseCopy
    <2>4. CASE Finish
      BY <2>4, FinishStep
    <2>5. CASE Break
      BY <2>5, BreakStep
    <2>6. CASE UNCHANGED getVars
      BY <2>6, RunsOn DEF getVars, GetIInv, GetTypes
    <2> QED
      BY <2>1, <2>2, <2>3, <2>4, <2>5, <2>6 DEF GetNext
  <1> QED
    BY <1>1, <1>2, PTL DEF GetSpec

\* A reply is the range that was asked for, wherever the range cuts the chunks, and a 416
\* is a range that begins behind the end (ranges.parse, ranges.slice_chunks).
THEOREM RepliesAreRanges == GetSpec => []ReplyIsTheRange
  BY GetInvariance, InvIsTheRange, PTL

\* A download that was cut off and resumed is the file (messages.py:396-401).
THEOREM DownloadsAreFiles == GetSpec => []DownloadIsTheFile
  BY GetInvariance, InvIsTheFile, PTL
=============================================================================
