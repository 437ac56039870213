---------------------------- MODULE SequenceLemmas ----------------------------
(***************************************************************************)
(* Induction and recursion over the numbers up to a bound, stated of sets  *)
(* and functions instead of operators, and what follows of the sequences   *)
(* that are selected or put together by a loop.                            *)
(***************************************************************************)
EXTENDS Selection, SequencesExt, FiniteSetTheorems, SequenceTheorems, TLAPS

(* A set of numbers that has 0, and with each number the next, has all: a  *)
(* number it lacks would make the intervals up to those it lacks a set of  *)
(* finite sets without a smallest one.                                     *)
LEMMA SetInduction ==
  ASSUME NEW S \in SUBSET Nat, 0 \in S, \A n \in S : n + 1 \in S
  PROVE  Nat \subseteq S
<1> SUFFICES ASSUME NEW m \in Nat, m \notin S PROVE FALSE
  OBVIOUS
<1> DEFINE T == {0..n : n \in Nat \ S}
<1>1. T # {}
  OBVIOUS
<1>2. T \subseteq FiniteSubsetsOf(Nat)
  <2> SUFFICES ASSUME NEW n \in Nat \ S PROVE 0..n \in FiniteSubsetsOf(Nat)
    OBVIOUS
  <2>1. IsFiniteSet(0..n)
    BY FS_Interval
  <2>2. 0..n \in SUBSET Nat
    OBVIOUS
  <2> QED
    BY <2>1, <2>2 DEF FiniteSubsetsOf
<1>3. IsWellFoundedOn(StrictSubsetOrdering(Nat), FiniteSubsetsOf(Nat))
  BY FS_StrictSubsetOrderingWellFounded
<1> HIDE DEF T
<1>4. PICK U \in T : \A V \in T : ~(<<V, U>> \in StrictSubsetOrdering(Nat))
  BY <1>1, <1>2, <1>3, WFMin
<1>5. PICK n \in Nat \ S : U = 0..n
  BY <1>4 DEF T
<1>6. n # 0 /\ n - 1 \in Nat \ S
  <2>1. n # 0
    OBVIOUS
  <2>2. n - 1 \in Nat /\ (n - 1) + 1 = n
    BY <2>1
  <2>3. n - 1 \notin S
    <3> SUFFICES ASSUME n - 1 \in S PROVE FALSE
      OBVIOUS
    <3>1. (n - 1) + 1 \in S
      OBVIOUS
    <3> QED  BY <3>1, <2>2
  <2> QED  BY <2>1, <2>2, <2>3
<1>7. 0..(n - 1) \in T
  BY <1>6 DEF T
<1>8. <<0..(n-1), U>> \in StrictSubsetOrdering(Nat)
  <2>1. 0..(n-1) \subseteq U /\ n \in U /\ n \notin 0..(n-1)
    BY <1>5, <1>6
  <2>2. 0..(n-1) \in SUBSET Nat /\ U \in SUBSET Nat
    BY <1>5, <1>6
  <2> QED  BY <2>1, <2>2 DEF StrictSubsetOrdering
<1> QED
  BY <1>4, <1>7, <1>8

(* The same up to a bound.                                                 *)
LEMMA UpTo ==
  ASSUME NEW n \in Nat, NEW S, 0 \in S, \A i \in 1..n : i - 1 \in S => i \in S
  PROVE  \A i \in 0..n : i \in S
<1> DEFINE T == {m \in Nat : m <= n => m \in S}
<1>1. T \in SUBSET Nat /\ 0 \in T
  OBVIOUS
<1>2. ASSUME NEW m \in T PROVE m + 1 \in T
  <2>1. SUFFICES ASSUME m + 1 <= n PROVE m + 1 \in S
    OBVIOUS
  <2>2. m \in Nat /\ m \in S
    BY <2>1
  <2>3. m + 1 \in 1..n /\ (m + 1) - 1 = m
    BY <2>1, <2>2
  <2>4. (m + 1) - 1 \in S
    BY <2>2, <2>3
  <2> QED
    BY <2>3, <2>4
<1> HIDE DEF T
<1>3. Nat \subseteq T
  BY <1>1, <1>2, SetInduction
<1> QED
  BY <1>3 DEF T

(* Primitive recursion: from b, step i is what H says of i and step i - 1. *)
HasRecursion(n, V, b, H) ==
  \E g \in [0..n -> V] : g[0] = b /\ \A i \in 1..n : g[i] = H[<<i, g[i - 1]>>]

(* There is a function that recursion defines.                             *)
LEMMA RecursionExists ==
  ASSUME NEW n \in Nat, NEW V, NEW b \in V, NEW H \in [(1..n) \X V -> V]
  PROVE  HasRecursion(n, V, b, H)
<1> DEFINE Step(m, g) == \A i \in 1..m : g[i] = H[<<i, g[i - 1]>>]
           Made(m) == \E g \in [0..m -> V] : g[0] = b /\ Step(m, g)
           S == {m \in 0..n : Made(m)}
<1>1. 0 \in S
  <2>1. [i \in 0..0 |-> b] \in [0..0 -> V] /\ [i \in 0..0 |-> b][0] = b
    OBVIOUS
  <2>2. Step(0, [i \in 0..0 |-> b])
    OBVIOUS
  <2> HIDE DEF Step
  <2>3. Made(0)
    BY <2>1, <2>2
  <2> QED
    BY <2>3
<1>2. ASSUME NEW m \in 1..n, m - 1 \in S PROVE m \in S
  <2>1. PICK g \in [0..(m - 1) -> V] : g[0] = b /\ Step(m - 1, g)
    BY <1>2
  <2> DEFINE h == [i \in 0..m |-> IF i = m THEN H[<<m, g[m - 1]>>] ELSE g[i]]
  <2>2. <<m, g[m - 1]>> \in (1..n) \X V
    OBVIOUS
  <2>3. h \in [0..m -> V]
    BY <2>2
  <2>4. h[0] = b
    BY <2>1
  <2>5. ASSUME NEW i \in 1..m PROVE h[i] = H[<<i, h[i - 1]>>]
    <3>1. CASE i = m
      <4>1. h[m] = H[<<m, g[m - 1]>>] /\ h[m - 1] = g[m - 1]
        OBVIOUS
      <4> HIDE DEF h
      <4> QED
        BY <3>1, <4>1
    <3>2. CASE i < m
      <4>1. i \in 1..(m - 1) /\ i - 1 \in 0..(m - 1) /\ i - 1 # m /\ i # m
        BY <3>2
      <4>2. g[i] = H[<<i, g[i - 1]>>]
        BY <2>1, <4>1
      <4>3. h[i] = g[i] /\ h[i - 1] = g[i - 1]
        BY <4>1
      <4> QED
        BY <4>2, <4>3
    <3> QED
      BY <3>1, <3>2
  <2>6. Step(m, h)
    BY <2>5
  <2> HIDE DEF Step, h
  <2>7. Made(m)
    BY <2>3, <2>4, <2>6
  <2> QED
    BY <2>7
<1> HIDE DEF S
<1>3. n \in S
  <2>1. \A i \in 0..n : i \in S
    BY <1>1, <1>2, UpTo
  <2> QED
    BY <2>1
<1> QED
  BY <1>3 DEF S, HasRecursion

-----------------------------------------------------------------------------
(* Prefixes, one element at a time.                                        *)

(* The first is empty.                                                     *)
LEMMA EmptyPrefix == ASSUME NEW V, NEW t \in Seq(V) PROVE SubSeq(t, 1, 0) = <<>>
<1>1. SubSeq(t, 1, 0) \in Seq(V) /\ Len(SubSeq(t, 1, 0)) = 0
  OBVIOUS
<1> QED
  BY <1>1, EmptySeq

(* Each has one more than the one before.                                  *)
LEMMA NextPrefix ==
  ASSUME NEW V, NEW t \in Seq(V), NEW i \in 1..Len(t)
  PROVE  /\ SubSeq(t, 1, i) = Append(SubSeq(t, 1, i - 1), t[i])
         /\ SubSeq(t, 1, i - 1) \in Seq(V) /\ t[i] \in V
<1> DEFINE p == SubSeq(t, 1, i - 1)
           q == SubSeq(t, 1, i)
<1>1. /\ p \in Seq(V) /\ Len(p) = i - 1 /\ \A j \in 1..(i - 1) : p[j] = t[j]
      /\ q \in Seq(V) /\ Len(q) = i /\ \A j \in 1..i : q[j] = t[j]
      /\ t[i] \in V /\ i \in Nat \ {0}
  OBVIOUS
<1> HIDE DEF p, q
<1>2. Append(p, t[i]) \in Seq(V) /\ Len(Append(p, t[i])) = i
  BY <1>1
<1>3. \A j \in 1..i : Append(p, t[i])[j] = q[j]
  BY <1>1
<1>4. q = Append(p, t[i])
  BY <1>1, <1>2, <1>3, SeqEqual
<1> QED
  BY <1>1, <1>4 DEF p, q

-----------------------------------------------------------------------------
(* Selected.  Selecting is the function in its definition.                 *)

Selecting(s, K) ==
  CHOOSE kept : kept = [i \in 0..Len(s) |->
    IF i = 0 THEN <<>> ELSE IF s[i] \in K THEN Append(kept[i - 1], s[i]) ELSE kept[i - 1]]

(* Selecting satisfies the equation that it is chosen by.                  *)
LEMMA SelectingDefined ==
  ASSUME NEW V, NEW s \in Seq(V), NEW K
  PROVE  /\ Selected(s, K) = Selecting(s, K)[Len(s)]
         /\ Selecting(s, K) \in [0..Len(s) -> Seq(V)]
         /\ Selecting(s, K)[0] = <<>>
         /\ \A i \in 1..Len(s) :
              Selecting(s, K)[i] = IF s[i] \in K THEN Append(Selecting(s, K)[i - 1], s[i]) ELSE Selecting(s, K)[i - 1]
<1> DEFINE n == Len(s)
           H == [p \in (1..n) \X Seq(V) |-> IF s[p[1]] \in K THEN Append(p[2], s[p[1]]) ELSE p[2]]
<1>1. H \in [(1..n) \X Seq(V) -> Seq(V)]
  OBVIOUS
<1>2. \A i \in 1..n, x \in Seq(V) : H[<<i, x>>] = IF s[i] \in K THEN Append(x, s[i]) ELSE x
  OBVIOUS
<1>3. n \in Nat /\ n = Len(s) /\ <<>> \in Seq(V)
  OBVIOUS
<1>3a. n \in Nat
  OBVIOUS
<1> HIDE DEF H, n
<1>4. PICK g \in [0..n -> Seq(V)] : g[0] = <<>> /\ \A i \in 1..n : g[i] = H[<<i, g[i - 1]>>]
  <2> DEFINE W == Seq(V)
             e == <<>>
  <2>1. e \in W /\ H \in [(1..n) \X W -> W]
    BY <1>1, <1>3
  <2> HIDE DEF W, e
  <2>2. HasRecursion(n, W, e, H)
    BY <2>1, <1>3a, RecursionExists
  <2> QED
    BY <2>2 DEF W, e, HasRecursion
<1> DEFINE Turned(x, i) == IF s[i] \in K THEN Append(x, s[i]) ELSE x
<1>5. \A i \in 1..n : g[i] = Turned(g[i - 1], i)
  <2>1. SUFFICES ASSUME NEW i \in 1..n PROVE g[i] = Turned(g[i - 1], i)
    OBVIOUS
  <2>2. i - 1 \in 0..n
    BY <1>3
  <2>3. g[i] = H[<<i, g[i - 1]>>] /\ g[i - 1] \in Seq(V)
    BY <1>4, <2>2
  <2> QED
    BY <2>3, <1>2
<1>6. g = [i \in 0..n |-> IF i = 0 THEN <<>> ELSE Turned(g[i - 1], i)]
  <2> HIDE DEF Turned
  <2>1. ASSUME NEW i \in 0..n PROVE g[i] = IF i = 0 THEN <<>> ELSE Turned(g[i - 1], i)
    <3>1. CASE i = 0
      BY <3>1, <1>4
    <3>2. CASE i # 0
      <4>1. i \in 1..n
        BY <3>2, <1>3a
      <4> QED
        BY <4>1, <3>2, <1>5
    <3> QED
      BY <3>1, <3>2
  <2> QED
    BY <2>1
<1> DEFINE k == Selecting(s, K)
<1>7. k = [i \in 0..n |-> IF i = 0 THEN <<>> ELSE Turned(k[i - 1], i)]
  BY <1>6, <1>3, Zenon DEF Selecting
<1>8. Selected(s, K) = k[n]
  BY <1>3, Zenon DEF Selected, Selecting
<1>9. k = g
  <2> HIDE DEF k, Turned
  <2>1. k[0] = g[0]
    BY <1>4, <1>7, <1>3
  <2>2. ASSUME NEW i \in 1..n, k[i - 1] = g[i - 1] PROVE k[i] = g[i]
    <3>1. i \in 0..n /\ i # 0
      BY <1>3
    <3>2. k[i] = Turned(k[i - 1], i)
      BY <1>7, <3>1
    <3> QED
      BY <1>5, <2>2, <3>2
  <2> DEFINE Same == {i \in 0..n : k[i] = g[i]}
  <2>3. 0 \in Same /\ \A i \in 1..n : i - 1 \in Same => i \in Same
    BY <2>1, <2>2, <1>3a
  <2> HIDE DEF Same
  <2>4. \A i \in 0..n : i \in Same
    BY <2>3, <1>3a, UpTo
  <2>5. \A i \in 0..n : k[i] = g[i]
    BY <2>4 DEF Same
  <2> QED
    BY <1>7, <2>5
<1> HIDE DEF k
<1>10. /\ Selected(s, K) = k[Len(s)]
       /\ k \in [0..Len(s) -> Seq(V)]
       /\ k[0] = <<>>
       /\ \A i \in 1..Len(s) : k[i] = IF s[i] \in K THEN Append(k[i - 1], s[i]) ELSE k[i - 1]
  BY <1>3, <1>4, <1>5, <1>8, <1>9
<1> QED
  BY <1>10 DEF k

(* What is selected of a sequence is one of the same elements.             *)
LEMMA SelectedType ==
  ASSUME NEW V, NEW s \in Seq(V), NEW K
  PROVE  Selected(s, K) \in Seq(V)
<1>1. Len(s) \in 0..Len(s)
  OBVIOUS
<1> QED
  BY <1>1, SelectingDefined

(* What is selected is wanted.                                             *)
LEMMA SelectedMembers ==
  ASSUME NEW V, NEW s \in Seq(V), NEW K
  PROVE  Selected(s, K) \in Seq(V \intersect K)
<1> DEFINE k == Selecting(s, K)
           n == Len(s)
           W == Seq(V \intersect K)
           Typed == {i \in 0..n : k[i] \in W}
<1>1. /\ Selected(s, K) = k[n] /\ k[0] = <<>>
      /\ \A i \in 1..n : k[i] = IF s[i] \in K THEN Append(k[i - 1], s[i]) ELSE k[i - 1]
  BY SelectingDefined
<1>2. n \in Nat /\ \A i \in 1..n : s[i] \in V
  OBVIOUS
<1> HIDE DEF k, n
<1>3. 0 \in Typed
  <2>1. <<>> \in W
    OBVIOUS
  <2> HIDE DEF W
  <2> QED
    BY <1>1, <1>2, <2>1
<1>4. ASSUME NEW i \in 1..n, i - 1 \in Typed PROVE i \in Typed
  <2>1. k[i - 1] \in W /\ i \in 0..n
    BY <1>2, <1>4
  <2>2. CASE s[i] \in K
    <3>1. s[i] \in V \intersect K
      BY <1>2, <2>2
    <3>2. Append(k[i - 1], s[i]) \in W
      BY <2>1, <3>1
    <3> QED
      BY <1>1, <2>1, <2>2, <3>2
  <2>3. CASE s[i] \notin K
    BY <1>1, <2>1, <2>3
  <2> QED
    BY <2>2, <2>3
<1> HIDE DEF Typed
<1>5. \A i \in 0..n : i \in Typed
  BY <1>2, <1>3, <1>4, UpTo
<1> QED
  BY <1>1, <1>2, <1>5 DEF Typed

(* Of nothing nothing is selected.                                         *)
LEMMA SelectedEmpty ==
  ASSUME NEW K
  PROVE  Selected(<<>>, K) = <<>>
<1> DEFINE V == {}
<1>1. PICK s : s = <<>>
  OBVIOUS
<1>2. s \in Seq(V)
  BY <1>1
<1> HIDE DEF V
<1>3. Selected(s, K) = Selecting(s, K)[Len(s)] /\ Selecting(s, K)[0] = <<>>
  BY <1>2, SelectingDefined
<1>4. Selected(s, K) = <<>>
  BY <1>1, <1>3
<1> QED
  BY <1>1, <1>4

(* It depends on the elements it has come past only.                       *)
LEMMA SelectingPrefix ==
  ASSUME NEW V, NEW s \in Seq(V), NEW t \in Seq(V), NEW K, NEW n \in Nat,
         n <= Len(s), n <= Len(t), \A i \in 1..n : s[i] = t[i]
  PROVE  \A i \in 0..n : Selecting(s, K)[i] = Selecting(t, K)[i]
<1> DEFINE k == Selecting(s, K)
           l == Selecting(t, K)
           Same == {i \in 0..n : k[i] = l[i]}
<1>1. /\ k[0] = <<>>
      /\ \A i \in 1..Len(s) : k[i] = IF s[i] \in K THEN Append(k[i - 1], s[i]) ELSE k[i - 1]
  BY SelectingDefined
<1>2. /\ l[0] = <<>>
      /\ \A i \in 1..Len(t) : l[i] = IF t[i] \in K THEN Append(l[i - 1], t[i]) ELSE l[i - 1]
  BY SelectingDefined
<1> HIDE DEF k, l
<1>3. 0 \in Same
  BY <1>1, <1>2
<1>4. ASSUME NEW i \in 1..n, i - 1 \in Same PROVE i \in Same
  <2>1. i \in 1..Len(s) /\ i \in 1..Len(t) /\ i \in 0..n
    OBVIOUS
  <2>2. k[i - 1] = l[i - 1] /\ s[i] = t[i]
    BY <1>4
  <2> QED
    BY <1>1, <1>2, <2>1, <2>2
<1> HIDE DEF Same
<1>5. \A i \in 0..n : i \in Same
  BY <1>3, <1>4, UpTo
<1> QED
  BY <1>5 DEF Same, k, l

(* A last element is selected last.                                        *)
LEMMA SelectedAppend ==
  ASSUME NEW V, NEW s \in Seq(V), NEW e \in V, NEW K
  PROVE  Selected(Append(s, e), K) =
           IF e \in K THEN Append(Selected(s, K), e) ELSE Selected(s, K)
<1> DEFINE t == Append(s, e)
           n == Len(s)
<1>1. t \in Seq(V) /\ Len(t) = n + 1 /\ n \in Nat /\ t[n + 1] = e /\ \A i \in 1..n : s[i] = t[i]
  OBVIOUS
<1> HIDE DEF t, n
<1>2. \A i \in 0..n : Selecting(s, K)[i] = Selecting(t, K)[i]
  BY <1>1, SelectingPrefix DEF n
<1>3. Selecting(s, K)[n] = Selecting(t, K)[n]
  BY <1>1, <1>2
<1>4. Selected(s, K) = Selecting(s, K)[n]
  BY SelectingDefined DEF n
<1>5. /\ Selected(t, K) = Selecting(t, K)[n + 1]
      /\ \A i \in 1..(n + 1) :
           Selecting(t, K)[i] = IF t[i] \in K THEN Append(Selecting(t, K)[i - 1], t[i]) ELSE Selecting(t, K)[i - 1]
  <2>1. t \in Seq(V) /\ Len(t) = n + 1
    BY <1>1
  <2>2. /\ Selected(t, K) = Selecting(t, K)[Len(t)]
        /\ \A i \in 1..Len(t) :
             Selecting(t, K)[i] = IF t[i] \in K THEN Append(Selecting(t, K)[i - 1], t[i]) ELSE Selecting(t, K)[i - 1]
    BY <2>1, SelectingDefined
  <2> QED
    BY <2>1, <2>2
<1>6. n + 1 \in 1..(n + 1) /\ (n + 1) - 1 = n
  BY <1>1
<1>7. Selected(t, K) = IF e \in K THEN Append(Selecting(t, K)[n], e) ELSE Selecting(t, K)[n]
  BY <1>1, <1>5, <1>6
<1> QED
  BY <1>3, <1>4, <1>7 DEF t

(* Of two sequences, one after the other, it is selected one after the     *)
(* other.                                                                  *)
LEMMA SelectedConcat ==
  ASSUME NEW V, NEW s \in Seq(V), NEW t \in Seq(V), NEW K
  PROVE  Selected(s \o t, K) = Selected(s, K) \o Selected(t, K)
<1> DEFINE n == Len(t)
           Holds(i) == Selected(s \o SubSeq(t, 1, i), K) = Selected(s, K) \o Selected(SubSeq(t, 1, i), K)
           Done == {i \in 0..n : Holds(i)}
<1>1. n \in Nat /\ Selected(s, K) \in Seq(V)
  BY SelectedType
<1>2. Holds(0)
  <2>1. SubSeq(t, 1, 0) = <<>>
    BY EmptyPrefix
  <2>2. s \o <<>> = s /\ Selected(s, K) \o <<>> = Selected(s, K)
    BY <1>1, ConcatEmptySeq
  <2> QED
    BY <2>1, <2>2, SelectedEmpty
<1>3. ASSUME NEW i \in 1..n, Holds(i - 1) PROVE Holds(i)
  <2> DEFINE p == SubSeq(t, 1, i - 1)
             e == t[i]
  <2>1. SubSeq(t, 1, i) = Append(p, e) /\ p \in Seq(V) /\ e \in V
    BY NextPrefix
  <2>2. Selected(s \o p, K) = Selected(s, K) \o Selected(p, K)
    BY <1>3
  <2> HIDE DEF p, e
  <2>3. s \o Append(p, e) = Append(s \o p, e) /\ s \o p \in Seq(V) /\ Selected(p, K) \in Seq(V)
    BY <2>1, SelectedType
  <2>3a. PICK q \in Seq(V) : q = s \o p
    BY <2>3
  <2>4. CASE e \in K
    <3>1. Selected(Append(s \o p, e), K) = Append(Selected(s \o p, K), e)
      <4>1. Selected(Append(q, e), K) = Append(Selected(q, K), e)
        BY <2>1, <2>4, SelectedAppend
      <4> QED
        BY <2>3a, <4>1
    <3>2. Selected(Append(p, e), K) = Append(Selected(p, K), e)
      BY <2>1, <2>4, SelectedAppend
    <3>3. Selected(s, K) \o Append(Selected(p, K), e) = Append(Selected(s, K) \o Selected(p, K), e)
      BY <1>1, <2>1, <2>3
    <3> QED
      BY <2>1, <2>2, <2>3, <3>1, <3>2, <3>3
  <2>5. CASE e \notin K
    <3>1. Selected(Append(s \o p, e), K) = Selected(s \o p, K)
      <4>1. Selected(Append(q, e), K) = Selected(q, K)
        BY <2>1, <2>5, SelectedAppend
      <4> QED
        BY <2>3a, <4>1
    <3>2. Selected(Append(p, e), K) = Selected(p, K)
      BY <2>1, <2>5, SelectedAppend
    <3> QED
      BY <2>1, <2>2, <2>3, <3>1, <3>2
  <2> QED
    BY <2>4, <2>5
<1> HIDE DEF Holds, n
<1>4. 0 \in Done /\ \A i \in 1..n : i - 1 \in Done => i \in Done
  BY <1>1, <1>2, <1>3
<1> HIDE DEF Done
<1>5. \A i \in 0..n : i \in Done
  BY <1>1, <1>4, UpTo
<1>6. Holds(n)
  BY <1>1, <1>5 DEF Done
<1>7. SubSeq(t, 1, n) = t
  BY SubSeqFull DEF n
<1> QED
  BY <1>6, <1>7 DEF Holds

(* Two sequences of which the same is wanted, at the same places, give the *)
(* same.                                                                   *)
LEMMA SelectedSame ==
  ASSUME NEW V, NEW s \in Seq(V), NEW t \in Seq(V), NEW K, Len(s) = Len(t),
         \A i \in 1..Len(s) : s[i] = t[i] \/ (s[i] \notin K /\ t[i] \notin K)
  PROVE  Selected(s, K) = Selected(t, K)
<1> DEFINE k == Selecting(s, K)
           l == Selecting(t, K)
           n == Len(s)
           Same == {i \in 0..n : k[i] = l[i]}
<1>1. /\ Selected(s, K) = k[n] /\ k[0] = <<>>
      /\ \A i \in 1..n : k[i] = IF s[i] \in K THEN Append(k[i - 1], s[i]) ELSE k[i - 1]
  BY SelectingDefined
<1>2. /\ Selected(t, K) = l[n] /\ l[0] = <<>>
      /\ \A i \in 1..n : l[i] = IF t[i] \in K THEN Append(l[i - 1], t[i]) ELSE l[i - 1]
  BY SelectingDefined
<1>3. n \in Nat
  OBVIOUS
<1>4. \A i \in 1..n : s[i] = t[i] \/ (s[i] \notin K /\ t[i] \notin K)
  OBVIOUS
<1> HIDE DEF k, l, n
<1>5. 0 \in Same
  BY <1>1, <1>2, <1>3
<1>6. ASSUME NEW i \in 1..n, i - 1 \in Same PROVE i \in Same
  <2>1. k[i - 1] = l[i - 1] /\ i \in 0..n
    BY <1>3, <1>6
  <2>2. CASE s[i] = t[i]
    BY <1>1, <1>2, <2>1, <2>2
  <2>3. CASE s[i] \notin K /\ t[i] \notin K
    BY <1>1, <1>2, <2>1, <2>3
  <2> QED
    BY <1>4, <2>2, <2>3
<1> HIDE DEF Same
<1>7. \A i \in 0..n : i \in Same
  BY <1>3, <1>5, <1>6, UpTo
<1>8. k[n] = l[n]
  BY <1>3, <1>7 DEF Same
<1> QED
  BY <1>1, <1>2, <1>8

(* Of a sequence without anything that is wanted nothing is selected.      *)
LEMMA SelectedNone ==
  ASSUME NEW V, NEW s \in Seq(V), NEW K, \A i \in 1..Len(s) : s[i] \notin K
  PROVE  Selected(s, K) = <<>>
<1> DEFINE k == Selecting(s, K)
           n == Len(s)
           Empty == {i \in 0..n : k[i] = <<>>}
<1>1. /\ Selected(s, K) = k[n] /\ k[0] = <<>>
      /\ \A i \in 1..n : k[i] = IF s[i] \in K THEN Append(k[i - 1], s[i]) ELSE k[i - 1]
  BY SelectingDefined
<1>2. n \in Nat /\ \A i \in 1..n : s[i] \notin K
  OBVIOUS
<1> HIDE DEF k, n
<1>3. 0 \in Empty /\ \A i \in 1..n : i - 1 \in Empty => i \in Empty
  BY <1>1, <1>2
<1> HIDE DEF Empty
<1>4. \A i \in 0..n : i \in Empty
  BY <1>2, <1>3, UpTo
<1> QED
  BY <1>1, <1>2, <1>4 DEF Empty

-----------------------------------------------------------------------------
(* FlattenSeq.  Flattening is the function in its definition.              *)

Flattening(seqs) ==
  CHOOSE flatten : flatten = [i \in 1..Len(seqs) |->
    IF i = 1 THEN seqs[i] ELSE flatten[i - 1] \o seqs[i]]

(* Flattening satisfies the equation that it is chosen by.                 *)
LEMMA FlatteningDefined ==
  ASSUME NEW V, NEW seqs \in Seq(Seq(V)), Len(seqs) # 0
  PROVE  /\ FlattenSeq(seqs) = Flattening(seqs)[Len(seqs)]
         /\ Flattening(seqs) \in [1..Len(seqs) -> Seq(V)]
         /\ Flattening(seqs)[1] = seqs[1]
         /\ \A i \in 2..Len(seqs) : Flattening(seqs)[i] = Flattening(seqs)[i - 1] \o seqs[i]
<1> DEFINE n == Len(seqs)
           H == [p \in (1..n) \X Seq(V) |-> p[2] \o seqs[p[1]]]
<1>1. H \in [(1..n) \X Seq(V) -> Seq(V)]
  <2>1. ASSUME NEW p \in (1..n) \X Seq(V) PROVE p[2] \o seqs[p[1]] \in Seq(V)
    <3>1. p[2] \in Seq(V) /\ seqs[p[1]] \in Seq(V)
      OBVIOUS
    <3> QED
      BY <3>1
  <2> QED
    BY <2>1
<1>2. \A i \in 1..n, x \in Seq(V) : H[<<i, x>>] = x \o seqs[i]
  OBVIOUS
<1>3. n \in Nat /\ n = Len(seqs) /\ n # 0 /\ <<>> \in Seq(V) /\ seqs[1] \in Seq(V)
  OBVIOUS
<1>3a. n \in Nat
  OBVIOUS
<1> HIDE DEF H, n
<1>4. PICK g \in [0..n -> Seq(V)] : g[0] = <<>> /\ \A i \in 1..n : g[i] = H[<<i, g[i - 1]>>]
  <2> DEFINE W == Seq(V)
             e == <<>>
  <2>1. e \in W /\ H \in [(1..n) \X W -> W]
    BY <1>1, <1>3
  <2> HIDE DEF W, e
  <2>2. HasRecursion(n, W, e, H)
    BY <2>1, <1>3a, RecursionExists
  <2> QED
    BY <2>2 DEF W, e, HasRecursion
<1> DEFINE h == [i \in 1..n |-> g[i]]
<1>5. h \in [1..n -> Seq(V)] /\ h[1] = seqs[1]
  <2>1. 1 \in 1..n /\ 1..n \subseteq 0..n /\ 1 - 1 = 0
    BY <1>3
  <2>2. g[1] = H[<<1, g[0]>>] /\ g[0] \in Seq(V)
    BY <1>4, <2>1
  <2>3. g[1] = <<>> \o seqs[1]
    BY <1>2, <1>4, <2>1, <2>2
  <2>4. g[1] = seqs[1]
    BY <2>3, <1>3
  <2> QED
    BY <2>1, <2>4
<1>6. ASSUME NEW i \in 2..n PROVE h[i] = h[i - 1] \o seqs[i]
  <2>1. i \in 1..n /\ i - 1 \in 1..n /\ i - 1 \in 0..n
    BY <1>3
  <2>2. g[i] = H[<<i, g[i - 1]>>] /\ g[i - 1] \in Seq(V)
    BY <1>4, <2>1
  <2>3. g[i] = g[i - 1] \o seqs[i]
    BY <1>2, <2>1, <2>2
  <2> QED
    BY <2>1, <2>3
<1> HIDE DEF h
<1> DEFINE Turned(x, i) == x \o seqs[i]
<1>7. h = [i \in 1..n |-> IF i = 1 THEN seqs[i] ELSE Turned(h[i - 1], i)]
  <2>1. ASSUME NEW i \in 1..n PROVE h[i] = IF i = 1 THEN seqs[i] ELSE Turned(h[i - 1], i)
    <3>1. CASE i = 1
      BY <3>1, <1>5
    <3>2. CASE i # 1
      <4>1. i \in 2..n
        BY <3>2, <1>3a
      <4> QED
        BY <4>1, <3>2, <1>6
    <3> QED
      BY <3>1, <3>2
  <2> HIDE DEF Turned
  <2> QED
    BY <2>1, <1>5
<1> DEFINE k == Flattening(seqs)
<1>8. k = [i \in 1..n |-> IF i = 1 THEN seqs[i] ELSE Turned(k[i - 1], i)]
  BY <1>7, <1>3, Zenon DEF Flattening
<1>9. FlattenSeq(seqs) = k[n]
  BY <1>3, Zenon DEF FlattenSeq, Flattening
<1>10. k = h
  <2> HIDE DEF k, Turned
  <2>1. k[1] = h[1]
    BY <1>7, <1>8, <1>3
  <2>2. ASSUME NEW i \in 1..n, i # 1, k[i - 1] = h[i - 1] PROVE k[i] = h[i]
    <3>1. k[i] = Turned(k[i - 1], i)
      BY <1>8, <2>2
    <3>2. h[i] = Turned(h[i - 1], i)
      BY <1>7, <2>2
    <3> QED
      BY <2>2, <3>1, <3>2
  <2> DEFINE Same == {i \in 0..n : i # 0 => k[i] = h[i]}
  <2>3. 0 \in Same
    BY <1>3a
  <2>4. ASSUME NEW i \in 1..n, i - 1 \in Same PROVE i \in Same
    <3>1. CASE i = 1
      BY <3>1, <2>1, <1>3a
    <3>2. CASE i # 1
      <4>1. i - 1 # 0 /\ i \in 0..n
        BY <3>2, <1>3a
      <4>2. k[i - 1] = h[i - 1]
        BY <4>1, <2>4
      <4> QED
        BY <4>1, <4>2, <3>2, <2>2
    <3> QED
      BY <3>1, <3>2
  <2> HIDE DEF Same
  <2>5. \A i \in 0..n : i \in Same
    BY <2>3, <2>4, <1>3a, UpTo
  <2>6. ASSUME NEW i \in 1..n PROVE k[i] = h[i]
    <3>1. i \in 0..n /\ i # 0
      BY <1>3a
    <3> QED
      BY <2>5, <3>1 DEF Same
  <2> QED
    BY <1>8, <1>5, <2>6
<1> HIDE DEF k
<1>11. /\ FlattenSeq(seqs) = k[Len(seqs)]
       /\ k \in [1..Len(seqs) -> Seq(V)]
       /\ k[1] = seqs[1]
       /\ \A i \in 2..Len(seqs) : k[i] = k[i - 1] \o seqs[i]
  BY <1>3, <1>5, <1>6, <1>9, <1>10
<1> QED
  BY <1>11 DEF k

(* Nothing is put together of nothing.                                     *)
LEMMA FlattenEmpty == FlattenSeq(<<>>) = <<>>
<1>1. Len(<<>>) = 0
  OBVIOUS
<1> QED
  BY <1>1, Zenon DEF FlattenSeq

(* Sequences of one type make a sequence of that type.                     *)
LEMMA FlattenType ==
  ASSUME NEW V, NEW seqs \in Seq(Seq(V))
  PROVE  FlattenSeq(seqs) \in Seq(V)
<1>1. CASE Len(seqs) = 0
  <2>1. seqs = <<>> /\ <<>> \in Seq(V)
    BY <1>1
  <2> QED
    BY <2>1, FlattenEmpty
<1>2. CASE Len(seqs) # 0
  <2>1. Len(seqs) \in 1..Len(seqs)
    BY <1>2
  <2> QED
    <3> DEFINE F == Flattening(seqs)
               W == Seq(V)
    <3>1. FlattenSeq(seqs) = F[Len(seqs)] /\ F \in [1..Len(seqs) -> W]
      BY <1>2, FlatteningDefined
    <3> HIDE DEF F, W
    <3>2. FlattenSeq(seqs) \in W
      BY <3>1, <2>1
    <3> QED
      BY <3>2 DEF W
<1> QED
  BY <1>1, <1>2

(* It depends on the sequences it has come past only.                      *)
LEMMA FlatteningPrefix ==
  ASSUME NEW V, NEW s \in Seq(Seq(V)), NEW t \in Seq(Seq(V)), NEW n \in Nat,
         Len(s) = n, Len(s) # 0, Len(t) = n + 1, \A i \in 1..n : s[i] = t[i]
  PROVE  \A i \in 1..n : Flattening(s)[i] = Flattening(t)[i]
<1> DEFINE k == Flattening(s)
           l == Flattening(t)
           Same == {i \in 0..n : i # 0 => k[i] = l[i]}
<1>1. k[1] = s[1] /\ \A i \in 2..n : k[i] = k[i - 1] \o s[i]
  <2>1. k[1] = s[1] /\ \A i \in 2..Len(s) : k[i] = k[i - 1] \o s[i]
    BY FlatteningDefined
  <2> QED
    BY <2>1
<1>2. l[1] = t[1] /\ \A i \in 2..(n + 1) : l[i] = l[i - 1] \o t[i]
  <2>0. Len(t) # 0
    OBVIOUS
  <2>1. l[1] = t[1] /\ \A i \in 2..Len(t) : l[i] = l[i - 1] \o t[i]
    BY <2>0, FlatteningDefined
  <2> QED
    BY <2>1
<1> HIDE DEF k, l
<1>3. 0 \in Same
  OBVIOUS
<1>4. ASSUME NEW i \in 1..n, i - 1 \in Same PROVE i \in Same
  <2>1. CASE i = 1
    BY <1>1, <1>2, <2>1
  <2>2. CASE i # 1
    <3>1. i \in 2..n /\ i \in 2..(n + 1) /\ i \in 0..n /\ i - 1 # 0
      BY <2>2
    <3>2. k[i - 1] = l[i - 1] /\ s[i] = t[i]
      BY <1>4, <3>1
    <3>3. k[i] = k[i - 1] \o s[i] /\ l[i] = l[i - 1] \o t[i]
      BY <1>1, <1>2, <3>1
    <3> QED
      BY <3>1, <3>2, <3>3
  <2> QED
    BY <2>1, <2>2
<1> HIDE DEF Same
<1>5. \A i \in 0..n : i \in Same
  BY <1>3, <1>4, UpTo
<1>6. ASSUME NEW i \in 1..n PROVE k[i] = l[i]
  <2>1. i \in 0..n /\ i # 0
    OBVIOUS
  <2> QED
    BY <1>5, <2>1 DEF Same
<1> QED
  BY <1>6 DEF k, l

(* A last sequence comes last.                                             *)
LEMMA FlattenAppend ==
  ASSUME NEW V, NEW s \in Seq(Seq(V)), NEW p \in Seq(V)
  PROVE  FlattenSeq(Append(s, p)) = FlattenSeq(s) \o p
<1> DEFINE t == Append(s, p)
           n == Len(s)
           F == Flattening(t)
<1>0. PICK W : W = Seq(V)
  OBVIOUS
<1>1. t \in Seq(W) /\ Len(t) = n + 1 /\ n \in Nat /\ t[n + 1] = p /\ \A i \in 1..n : s[i] = t[i]
  BY <1>0
<1> HIDE DEF t, n
<1>1a. t \in Seq(Seq(V)) /\ Len(t) # 0
  BY <1>0, <1>1
<1>2. /\ FlattenSeq(t) = F[n + 1]
      /\ F[1] = t[1]
      /\ \A i \in 2..(n + 1) : F[i] = F[i - 1] \o t[i]
  <2>1. /\ FlattenSeq(t) = F[Len(t)]
        /\ F[1] = t[1]
        /\ \A i \in 2..Len(t) : F[i] = F[i - 1] \o t[i]
    BY <1>1a, FlatteningDefined
  <2> QED
    BY <2>1, <1>1
<1> HIDE DEF F
<1>3. CASE n = 0
  <2>1. s = <<>>
    BY <1>3 DEF n
  <2>2. FlattenSeq(s) = <<>>
    BY <2>1, FlattenEmpty
  <2>3. FlattenSeq(t) = t[1] /\ t[1] = p
    BY <1>1, <1>2, <1>3
  <2>4. <<>> \o p = p
    BY ConcatEmptySeq
  <2> QED
    BY <2>2, <2>3, <2>4 DEF t
<1>4. CASE n # 0
  <2>1. FlattenSeq(s) = Flattening(s)[n]
    <3>1. Len(s) # 0
      BY <1>4 DEF n
    <3> QED
      BY <3>1, FlatteningDefined DEF n
  <2>2. Flattening(s)[n] = F[n]
    <3>1. Len(s) = n /\ Len(s) # 0 /\ n \in 1..n
      BY <1>1, <1>4 DEF n
    <3>2. \A i \in 1..n : Flattening(s)[i] = Flattening(t)[i]
      BY <3>1, <1>1, <1>1a, FlatteningPrefix
    <3> QED
      BY <3>1, <3>2 DEF F
  <2>3. n + 1 \in 2..(n + 1) /\ (n + 1) - 1 = n
    BY <1>1, <1>4
  <2>4. F[n + 1] = F[n] \o t[n + 1]
    BY <1>2, <2>3
  <2> QED
    BY <1>1, <1>2, <2>1, <2>2, <2>4 DEF t
<1> QED
  BY <1>3, <1>4

(* One more sequence in the second of two.                                 *)
LEMMA FlattenStep ==
  ASSUME NEW V, NEW s \in Seq(Seq(V)), NEW p \in Seq(Seq(V)), NEW e \in Seq(V),
         FlattenSeq(s \o p) = FlattenSeq(s) \o FlattenSeq(p)
  PROVE  FlattenSeq(s \o Append(p, e)) = FlattenSeq(s) \o FlattenSeq(Append(p, e))
<1>1. FlattenSeq(s) \in Seq(V) /\ FlattenSeq(p) \in Seq(V)
  BY FlattenType
<1>2. PICK q \in Seq(Seq(V)) : q = s \o p
  BY ConcatProperties
<1>3. s \o Append(p, e) = Append(q, e)
  BY <1>2
<1>4. FlattenSeq(Append(q, e)) = FlattenSeq(q) \o e
  BY FlattenAppend
<1>5. FlattenSeq(Append(p, e)) = FlattenSeq(p) \o e
  BY FlattenAppend
<1>6. (FlattenSeq(s) \o FlattenSeq(p)) \o e = FlattenSeq(s) \o (FlattenSeq(p) \o e)
  BY <1>1, ConcatAssociative
<1> QED
  BY <1>2, <1>3, <1>4, <1>5, <1>6

(* Sequences of sequences, one after the other, are put together one after *)
(* the other.                                                              *)
LEMMA FlattenConcat ==
  ASSUME NEW V, NEW s \in Seq(Seq(V)), NEW t \in Seq(Seq(V))
  PROVE  FlattenSeq(s \o t) = FlattenSeq(s) \o FlattenSeq(t)
<1> DEFINE n == Len(t)
           Holds(i) == FlattenSeq(s \o SubSeq(t, 1, i)) = FlattenSeq(s) \o FlattenSeq(SubSeq(t, 1, i))
           Done == {i \in 0..n : Holds(i)}
<1>1. n \in Nat /\ FlattenSeq(s) \in Seq(V)
  BY FlattenType
<1>2. Holds(0)
  <2>1. SubSeq(t, 1, 0) = <<>>
    BY EmptyPrefix
  <2>2. s \o <<>> = s /\ FlattenSeq(s) \o <<>> = FlattenSeq(s)
    BY <1>1, ConcatEmptySeq
  <2> QED
    BY <2>1, <2>2, FlattenEmpty
<1>3. ASSUME NEW i \in 1..n, Holds(i - 1) PROVE Holds(i)
  <2> DEFINE p == SubSeq(t, 1, i - 1)
             e == t[i]
  <2>1. SubSeq(t, 1, i) = Append(p, e) /\ p \in Seq(Seq(V)) /\ e \in Seq(V)
    BY NextPrefix
  <2>2. FlattenSeq(s \o p) = FlattenSeq(s) \o FlattenSeq(p)
    BY <1>3
  <2> HIDE DEF p, e
  <2>3. FlattenSeq(s \o Append(p, e)) = FlattenSeq(s) \o FlattenSeq(Append(p, e))
    BY <2>1, <2>2, FlattenStep
  <2> QED
    BY <2>1, <2>3
<1> HIDE DEF Holds, n
<1>4. 0 \in Done /\ \A i \in 1..n : i - 1 \in Done => i \in Done
  BY <1>1, <1>2, <1>3
<1> HIDE DEF Done
<1>5. \A i \in 0..n : i \in Done
  BY <1>1, <1>4, UpTo
<1>6. Holds(n)
  BY <1>1, <1>5 DEF Done
<1>7. SubSeq(t, 1, n) = t
  BY SubSeqFull DEF n
<1> QED
  BY <1>6, <1>7 DEF Holds

-----------------------------------------------------------------------------
(* Sequences of anything.                                                  *)

IsSeq(s) == \E U : s \in Seq(U)

(* What Append does to a sequence.                                         *)
LEMMA AppendFacts ==
  ASSUME NEW s, IsSeq(s), NEW e
  PROVE  /\ IsSeq(Append(s, e))
         /\ Len(s) \in Nat /\ DOMAIN s = 1..Len(s)
         /\ Len(Append(s, e)) = Len(s) + 1 /\ DOMAIN Append(s, e) = 1..(Len(s) + 1)
         /\ Append(s, e)[Len(s) + 1] = e
         /\ \A i \in 1..Len(s) : Append(s, e)[i] = s[i]
<1>1. PICK U : s \in Seq(U)
  BY DEF IsSeq
<1>2. s \in Seq(U \union {e}) /\ e \in U \union {e}
  BY <1>1
<1>3. Append(s, e) \in Seq(U \union {e})
  BY <1>2
<1> QED
  BY <1>1, <1>2, <1>3 DEF IsSeq

(* What a prefix is.                                                       *)
LEMMA PrefixFacts ==
  ASSUME NEW s, IsSeq(s), NEW n \in 0..Len(s)
  PROVE  /\ IsSeq(SubSeq(s, 1, n))
         /\ Len(SubSeq(s, 1, n)) = n /\ DOMAIN SubSeq(s, 1, n) = 1..n
         /\ \A i \in 1..n : SubSeq(s, 1, n)[i] = s[i]
         /\ \A m \in 0..n : SubSeq(SubSeq(s, 1, n), 1, m) = SubSeq(s, 1, m)
<1>1. PICK U : s \in Seq(U)
  BY DEF IsSeq
<1>2. SubSeq(s, 1, n) \in Seq(U) /\ Len(SubSeq(s, 1, n)) = n
  BY <1>1
<1>3. \A i \in 1..n : SubSeq(s, 1, n)[i] = s[i]
  BY <1>1
<1>4. ASSUME NEW m \in 0..n PROVE SubSeq(SubSeq(s, 1, n), 1, m) = SubSeq(s, 1, m)
  <2>1. /\ SubSeq(SubSeq(s, 1, n), 1, m) \in Seq(U) /\ SubSeq(s, 1, m) \in Seq(U)
        /\ Len(SubSeq(SubSeq(s, 1, n), 1, m)) = m /\ Len(SubSeq(s, 1, m)) = m
    BY <1>1, <1>2
  <2>2. \A i \in 1..m : SubSeq(SubSeq(s, 1, n), 1, m)[i] = SubSeq(s, 1, m)[i]
    BY <1>1, <1>2, <1>3
  <2> QED
    BY <2>1, <2>2, SeqEqual
<1>5. IsSeq(SubSeq(s, 1, n))
  BY <1>2 DEF IsSeq
<1>6. DOMAIN SubSeq(s, 1, n) = 1..n
  BY <1>2
<1> QED
  BY <1>2, <1>3, <1>4, <1>5, <1>6

(* The prefixes of a longer sequence.                                      *)
LEMMA AppendPrefix ==
  ASSUME NEW s, IsSeq(s), NEW e, NEW n \in 0..Len(s)
  PROVE  SubSeq(Append(s, e), 1, n) = SubSeq(s, 1, n)
<1>1. PICK U : s \in Seq(U)
  BY DEF IsSeq
<1>2. s \in Seq(U \union {e}) /\ Append(s, e) \in Seq(U \union {e})
  BY <1>1
<1>3. /\ SubSeq(Append(s, e), 1, n) \in Seq(U \union {e}) /\ SubSeq(s, 1, n) \in Seq(U \union {e})
      /\ Len(SubSeq(Append(s, e), 1, n)) = n /\ Len(SubSeq(s, 1, n)) = n
  BY <1>2
<1>4. \A i \in 1..n : SubSeq(Append(s, e), 1, n)[i] = SubSeq(s, 1, n)[i]
  BY <1>2
<1> QED
  BY <1>3, <1>4, SeqEqual

(* A sequence is its longest prefix.                                       *)
LEMMA WholePrefix ==
  ASSUME NEW s, IsSeq(s)
  PROVE  SubSeq(s, 1, Len(s)) = s
  BY SubSeqFull DEF IsSeq

-----------------------------------------------------------------------------
(* Parts of sequences, and what is flattened when a sequence grows.        *)

(* One value is a sequence.                                                *)
LEMMA Singleton == ASSUME NEW V, NEW x \in V PROVE <<x>> \in Seq(V)
  OBVIOUS

(* Three sequences one after another, however they are grouped.            *)
LEMMA Regroup ==
  ASSUME NEW V, NEW s \in Seq(V), NEW t \in Seq(V), NEW u \in Seq(V)
  PROVE  s \o t \in Seq(V) /\ t \o u \in Seq(V) /\ (s \o t) \o u = s \o (t \o u)
<1>1. s \o t \in Seq(V) /\ t \o u \in Seq(V)
  OBVIOUS
<1> QED
  BY <1>1, ConcatAssociative

(* One more sequence is flattened by appending it.                         *)
LEMMA FlattenLast ==
  ASSUME NEW V, NEW a \in Seq(Seq(V)), NEW b \in Seq(Seq(V)), Len(b) = Len(a) + 1,
         \A i \in 1..Len(a) : b[i] = a[i]
  PROVE  FlattenSeq(b) = FlattenSeq(a) \o b[Len(a) + 1]
<1>1. b[Len(a) + 1] \in Seq(V)
  OBVIOUS
<1>2. PICK p \in Seq(V) : p = b[Len(a) + 1]
  BY <1>1
<1>3. b = Append(a, p)
  BY <1>2
<1> QED
  BY <1>2, <1>3, FlattenAppend

(* The same of functions on the numbers up to a length.                    *)
LEMMA FlattenMore ==
  ASSUME NEW V, NEW n \in Nat, NEW a \in [1..n -> Seq(V)], NEW b \in [1..(n + 1) -> Seq(V)],
         \A i \in 1..n : b[i] = a[i]
  PROVE  /\ FlattenSeq(b) = FlattenSeq(a) \o b[n + 1]
         /\ FlattenSeq(a) \in Seq(V) /\ FlattenSeq(b) \in Seq(V) /\ b[n + 1] \in Seq(V)
<1>1. a \in Seq(Seq(V)) /\ b \in Seq(Seq(V)) /\ Len(a) = n /\ Len(b) = n + 1
  OBVIOUS
<1>2. FlattenSeq(b) = FlattenSeq(a) \o b[Len(a) + 1]
  BY <1>1, FlattenLast
<1>3. FlattenSeq(a) \in Seq(V) /\ FlattenSeq(b) \in Seq(V)
  BY <1>1, FlattenType
<1>4. b[n + 1] \in Seq(V)
  OBVIOUS
<1> QED
  BY <1>1, <1>2, <1>3, <1>4

(* Sequences that are all empty are flattened to the empty one.            *)
LEMMA FlattenNone ==
  ASSUME NEW V, NEW s \in Seq(Seq(V)), \A i \in 1..Len(s) : s[i] = <<>>
  PROVE  FlattenSeq(s) = <<>>
<1> DEFINE n == Len(s)
           k == Flattening(s)
           Empty == {i \in 0..n : i # 0 => k[i] = <<>>}
<1>0. n \in Nat
  OBVIOUS
<1>1. CASE n = 0
  <2>1. s = <<>>
    BY <1>1
  <2> QED
    BY <2>1, FlattenEmpty
<1>2. CASE n # 0
  <2>1. /\ FlattenSeq(s) = k[n] /\ k[1] = s[1]
        /\ \A i \in 2..n : k[i] = k[i - 1] \o s[i]
    BY <1>2, FlatteningDefined
  <2> HIDE DEF k, n
  <2>2. 0 \in Empty
    BY <1>0
  <2>3. \A i \in 1..n : s[i] = <<>>
    BY DEF n
  <2>4. ASSUME NEW i \in 1..n, i - 1 \in Empty PROVE i \in Empty
    <3>1. CASE i = 1
      BY <1>0, <1>2, <2>1, <2>3, <3>1
    <3>2. CASE i # 1
      <4>1. i \in 2..n /\ i - 1 # 0 /\ i \in 0..n
        BY <1>0, <3>2
      <4>2. k[i] = <<>> \o <<>>
        BY <2>1, <2>3, <2>4, <4>1
      <4>3. <<>> \o <<>> = <<>>
        OBVIOUS
      <4> QED
        BY <4>1, <4>2, <4>3
    <3> QED
      BY <3>1, <3>2
  <2> HIDE DEF Empty
  <2>5. \A i \in 0..n : i \in Empty
    BY <1>0, <2>2, <2>4, UpTo
  <2>6. k[n] = <<>>
    BY <1>0, <1>2, <2>5 DEF Empty
  <2> QED
    BY <2>1, <2>6
<1> QED
  BY <1>1, <1>2

(* What is cut out of a sequence.                                          *)
LEMMA Slice ==
  ASSUME NEW V, NEW s \in Seq(V), NEW a \in Nat, NEW n \in Nat, a + n <= Len(s)
  PROVE  /\ SubSeq(s, a + 1, a + n) \in Seq(V) /\ Len(SubSeq(s, a + 1, a + n)) = n
         /\ \A i \in 1..n : SubSeq(s, a + 1, a + n)[i] = s[a + i]
  OBVIOUS

(* What is cut off at its start.                                           *)
LEMMA Prefix ==
  ASSUME NEW V, NEW s \in Seq(V), NEW n \in 0..Len(s)
  PROVE  /\ SubSeq(s, 1, n) \in Seq(V) /\ Len(SubSeq(s, 1, n)) = n
         /\ \A i \in 1..n : SubSeq(s, 1, n)[i] = s[i]
  OBVIOUS

(* What comes after the first of two sequences.                            *)
LEMMA SecondPart ==
  ASSUME NEW V, NEW s \in Seq(V), NEW t \in Seq(V),
           NEW h \in Nat, h > Len(s), h <= Len(s) + Len(t)
  PROVE  (s \o t)[h] = t[h - Len(s)]
  OBVIOUS

(* Equal parts of two sequences.                                           *)
LEMMA SameSlice ==
  ASSUME NEW V, NEW s \in Seq(V), NEW t \in Seq(V), NEW a \in Nat,
           NEW n \in Nat, a + n <= Len(s), n <= Len(t),
    \A i \in 1..n : t[i] = s[a + i]
  PROVE SubSeq(s, a + 1, a + n) = SubSeq(t, 1, n)
<1> DEFINE u == SubSeq(s, a + 1, a + n)
           v == SubSeq(t, 1, n)
<1>1. u \in Seq(V) /\ Len(u) = n /\ \A i \in 1..n : u[i] = s[a + i]
  BY Slice
<1>2. v \in Seq(V) /\ Len(v) = n /\ \A i \in 1..n : v[i] = t[i]
  <2>1. n \in 0..Len(t)
    OBVIOUS
  <2> QED
    BY <2>1, Prefix
<1> HIDE DEF u, v
<1>3. u = v
  BY <1>1, <1>2, SeqEqual
<1> QED
  BY <1>3 DEF u, v

=============================================================================
