------------------------ MODULE RequestLogRingProofs ------------------------
(***************************************************************************)
(* Proofs about RequestLogRing, for a ring of any size: it implements the  *)
(* bounded log.                                                            *)
(***************************************************************************)
EXTENDS RequestLogRing, SequenceLemmas

(* Going around once: the remainder of a position less than two rounds     *)
(* ahead.                                                                  *)
LEMMA Wrap ==
  \A n \in Nat \ {0} : \A x \in 0..(2 * n - 1) : x % n = IF x < n THEN x ELSE x - n
<1> SUFFICES ASSUME NEW n \in Nat \ {0}, NEW x \in 0..(2 * n - 1)
             PROVE  x % n = IF x < n THEN x ELSE x - n
  OBVIOUS
<1>1. CASE x < n
  BY <1>1
<1>2. CASE ~(x < n)
  BY <1>2
<1> QED
  BY <1>1, <1>2

(* The slot after a slot.                                                  *)
LEMMA NextSlot ==
  \A n \in Nat \ {0} : \A h \in 0..(n - 1) :
    (h + 1) % n = IF h + 1 < n THEN h + 1 ELSE 0
<1> SUFFICES ASSUME NEW n \in Nat \ {0}, NEW h \in 0..(n - 1)
             PROVE  (h + 1) % n = IF h + 1 < n THEN h + 1 ELSE 0
  OBVIOUS
<1>1. CASE h + 1 < n
  BY <1>1
<1>2. CASE h + 1 = n
  BY <1>2
<1> QED
  BY <1>1, <1>2

(* A sequence that drops its first element for a new last one.             *)
LEMMA DropAndAppend ==
  ASSUME NEW S, NEW s \in Seq(S), NEW x \in S, Len(s) > 0,
         NEW t \in Seq(S), Len(t) = Len(s),
         \A i \in 1..Len(s) : t[i] = IF i = Len(s) THEN x ELSE s[i + 1]
  PROVE  t = Append(Tail(s), x)
<1>1. Tail(s) \in Seq(S) /\ Len(Tail(s)) = Len(s) - 1
  OBVIOUS
<1>2. \A i \in 1..(Len(s) - 1) : Tail(s)[i] = s[i + 1]
  OBVIOUS
<1> DEFINE u == Append(Tail(s), x)
<1>3. u \in Seq(S) /\ Len(u) = Len(s)
  BY <1>1
<1>4. \A i \in 1..Len(s) : u[i] = t[i]
  BY <1>1, <1>2
<1> HIDE DEF u
<1>5. t = u
  BY <1>3, <1>4
<1> QED
  BY <1>5 DEF u

(* TypeOK alone does not say where a ring that is not yet full starts.     *)
RingInv == TypeOK /\ (count < Size => head = count)

(* The invariant holds at the start and is kept by every step.             *)
LEMMA RingInvariant ==
  /\ Init => RingInv
  /\ RingInv /\ [Next]_vars => RingInv'
<1> USE SizeAssumption, BlankAssumption
<1>1. Init => RingInv
  BY DEF Init, RingInv, TypeOK
<1>2. ASSUME RingInv, NEW e \in Entry, Add(e) PROVE RingInv'
  <2>1. head' = IF head + 1 < Size THEN head + 1 ELSE 0
    BY <1>2, NextSlot DEF Add, RingInv, TypeOK
  <2> QED
    BY <1>2, <2>1 DEF Add, RingInv, TypeOK
<1>3. ASSUME RingInv, UNCHANGED vars PROVE RingInv'
  BY <1>3 DEF vars, RingInv, TypeOK
<1>4. ASSUME RingInv, Renew PROVE RingInv'
  BY <1>4 DEF Renew, RingInv, TypeOK
<1> QED
  BY <1>1, <1>2, <1>3, <1>4 DEF Next

(* The entries kept by a ring that has not wrapped yet are its first ones. *)
LEMMA KeptBeforeWrap ==
  RingInv /\ count < Size => Kept = [i \in 1..count |-> entries[i - 1]]
<1> SUFFICES ASSUME RingInv, count < Size
             PROVE  Kept = [i \in 1..count |-> entries[i - 1]]
  OBVIOUS
<1> USE SizeAssumption DEF RingInv, TypeOK
<1>1. ASSUME NEW i \in 1..count PROVE (head - count + i - 1 + Size) % Size = i - 1
  <2> DEFINE x == head - count + i - 1 + Size
  <2>1. x = i - 1 + Size /\ x \in 0..(2 * Size - 1)
    OBVIOUS
  <2> HIDE DEF x
  <2>2. x % Size = IF x < Size THEN x ELSE x - Size
    BY <2>1, Wrap
  <2>3. x % Size = i - 1
    BY <2>1, <2>2
  <2> QED
    BY <2>3 DEF x
<1> QED
  BY <1>1 DEF Kept

(* Those of a full ring start at its head.                                 *)
LEMMA KeptWhenFull ==
  RingInv /\ count = Size =>
    Kept = [i \in 1..Size |-> entries[IF head + i - 1 < Size THEN head + i - 1
                                      ELSE head + i - 1 - Size]]
<1> SUFFICES ASSUME RingInv, count = Size
             PROVE  Kept = [i \in 1..Size |-> entries[IF head + i - 1 < Size THEN head + i - 1
                                                      ELSE head + i - 1 - Size]]
  OBVIOUS
<1> USE SizeAssumption DEF RingInv, TypeOK
<1>1. ASSUME NEW i \in 1..Size
      PROVE  (head - count + i - 1 + Size) % Size
                = IF head + i - 1 < Size THEN head + i - 1 ELSE head + i - 1 - Size
  <2> DEFINE x == head - count + i - 1 + Size
  <2>1. x = head + i - 1 /\ x \in 0..(2 * Size - 1)
    OBVIOUS
  <2> HIDE DEF x
  <2>2. x % Size = IF x < Size THEN x ELSE x - Size
    BY <2>1, Wrap
  <2> QED
    BY <2>1, <2>2 DEF x
<1> QED
  BY <1>1 DEF Kept

(* An Add appends its entry to the log, which forgets its oldest entry     *)
(* when it was full.                                                       *)
LEMMA AddAppends ==
  ASSUME RingInv, NEW e \in Entry, Add(e)
  PROVE  Log!Append1(e)
<1> USE SizeAssumption, BlankAssumption
<1>0. RingInv'
  BY RingInvariant DEF Next
<1>1. CASE count < Size
  <2>1. Kept = [i \in 1..count |-> entries[i - 1]]
    BY <1>1, KeptBeforeWrap
  <2>2. Kept \in Seq(Entry \union {Blank}) /\ Len(Kept) = count
    BY <2>1 DEF RingInv, TypeOK
  <2>3. Kept' = [i \in 1..(count + 1) |-> entries'[i - 1]]
    <3>1. CASE count' < Size
      <4>1. (RingInv /\ count < Size => Kept = [i \in 1..count |-> entries[i - 1]])'
        BY KeptBeforeWrap, PTL
      <4> QED
        BY <1>0, <1>1, <3>1, <4>1 DEF Add
    <3>2. CASE count' = Size
      <4>1. (RingInv /\ count = Size =>
               Kept = [i \in 1..Size |-> entries[IF head + i - 1 < Size THEN head + i - 1
                                                 ELSE head + i - 1 - Size]])'
        BY KeptWhenFull, PTL
      <4>2. head' = 0
        BY <1>1, <3>2, NextSlot DEF Add, RingInv, TypeOK
      <4> QED
        BY <1>0, <1>1, <3>2, <4>1, <4>2 DEF Add, RingInv, TypeOK
    <3> QED
      BY <1>0, <3>1, <3>2 DEF RingInv, TypeOK
  <2>4. \A i \in 1..(count + 1) : entries'[i - 1] = IF i = count + 1 THEN e ELSE entries[i - 1]
    BY <1>1 DEF Add, RingInv, TypeOK
  <2>5. Kept' = Append(Kept, e)
    BY <2>1, <2>2, <2>3, <2>4 DEF RingInv, TypeOK
  <2> QED
    BY <1>1, <2>2, <2>5 DEF Log!Append1
<1>2. CASE count = Size
  <2>1. Kept = [i \in 1..Size |-> entries[IF head + i - 1 < Size THEN head + i - 1
                                          ELSE head + i - 1 - Size]]
    BY <1>2, KeptWhenFull
  <2>2. Kept \in Seq(Entry \union {Blank}) /\ Len(Kept) = Size
    BY <2>1 DEF RingInv, TypeOK
  <2>3. count' = Size
    BY <1>2 DEF Add
  <2>4. Kept' = [i \in 1..Size |-> entries'[IF head' + i - 1 < Size THEN head' + i - 1
                                            ELSE head' + i - 1 - Size]]
    <3>1. (RingInv /\ count = Size =>
             Kept = [i \in 1..Size |-> entries[IF head + i - 1 < Size THEN head + i - 1
                                               ELSE head + i - 1 - Size]])'
      BY KeptWhenFull, PTL
    <3> QED
      BY <1>0, <2>3, <3>1
  <2>5. head' = IF head + 1 < Size THEN head + 1 ELSE 0
    BY NextSlot DEF Add, RingInv, TypeOK
  <2>6. \A i \in 1..Size : Kept'[i] = IF i = Size THEN e ELSE Kept[i + 1]
    BY <2>1, <2>4, <2>5 DEF Add, RingInv, TypeOK
  <2>7. Kept' = Append(Tail(Kept), e)
    <3>1. Kept' \in Seq(Entry \union {Blank}) /\ Len(Kept') = Size
      BY <1>0, <2>4, <2>5 DEF RingInv, TypeOK
    <3> HIDE DEF Kept
    <3> QED
      BY <2>2, <2>6, <3>1, DropAndAppend
  <2> QED
    BY <1>2, <2>2, <2>7 DEF Log!Append1
<1> QED
  BY <1>1, <1>2 DEF RingInv, TypeOK

(* Slots are written in order, from the first to the last and around, and  *)
(* no position leaves the array.                                           *)
THEOREM RingTypeCorrect == Spec => []TypeOK
<1>1. RingInv => TypeOK
  BY DEF RingInv
<1> QED
  BY <1>1, RingInvariant, PTL DEF Spec

(* A ring of any size keeps what a bounded log of that size keeps.         *)
THEOREM RingKeepsTheLatest == Spec => KeepsTheLatest
<1>1. Init => Log!LogInit
  BY DEF Init, Kept, Log!LogInit
<1>2. RingInv /\ [Next]_vars => [Log!LogNext]_Kept
  <2>1. ASSUME RingInv, NEW e \in Entry, Add(e) PROVE Log!LogNext
    BY <2>1, AddAppends DEF Log!LogNext
  <2>2. ASSUME UNCHANGED vars PROVE UNCHANGED Kept
    BY <2>2 DEF vars, Kept
  <2>3. ASSUME Renew PROVE Log!LogNext
    BY <2>3 DEF Renew, Kept, Log!LogNext, Log!Forget
  <2> QED
    BY <2>1, <2>2, <2>3 DEF Next
<1> QED
  BY <1>1, <1>2, RingInvariant, PTL DEF Spec, KeepsTheLatest, Log!LogSpec

-----------------------------------------------------------------------------
(* Queries.  Looping is the function in the definition of Query, with the  *)
(* offset and the limit that it has made of the ones given.                *)

Looping(filter, offset, limit) ==
  CHOOSE Loop : Loop = [i \in 0..count |->
    IF i = 0 THEN [result |-> <<>>, skipped |-> 0]
    ELSE Turn(filter, offset, limit, Loop[i - 1], i - 1)]

Slots == Entry \union {Blank}

At == [result : Seq(Slots), skipped : Nat]

(* A turn of the loop makes of what it has found something of its type.    *)
LEMMA TurnType ==
  ASSUME RingInv, NEW filter, NEW offset, NEW limit, NEW at \in At, NEW i \in 0..(count - 1)
  PROVE  Turn(filter, offset, limit, at, i) \in At /\ entries[Slot(i)] \in Slots
<1> USE SizeAssumption
<1>1. Slot(i) \in 0..(Size - 1)
  BY DEF Slot, RingInv, TypeOK
<1>2. entries[Slot(i)] \in Slots
  BY <1>1 DEF RingInv, TypeOK, Slots
<1> DEFINE e == entries[Slot(i)]
<1>3. [at EXCEPT !.skipped = @ + 1] \in At
  BY DEF At
<1>4. [at EXCEPT !.result = Append(@, e)] \in At
  <2> HIDE DEF e
  <2>1. e \in Slots
    BY <1>2 DEF e
  <2>2. Append(at.result, e) \in Seq(Slots)
    BY <2>1 DEF At
  <2> QED
    BY <2>2 DEF At
<1> QED
  BY <1>2, <1>3, <1>4 DEF Turn

(* Looping satisfies the equation that it is chosen by.                    *)
LEMMA LoopingDefined ==
  ASSUME RingInv, NEW filter, NEW offset, NEW limit
  PROVE  LET L == Looping(filter, offset, limit)
         IN  /\ L \in [0..count -> At]
             /\ L[0] = [result |-> <<>>, skipped |-> 0]
             /\ \A i \in 1..count : L[i] = Turn(filter, offset, limit, L[i - 1], i - 1)
<1> DEFINE Turned(x, i) == Turn(filter, offset, limit, x, i - 1)
           H == [p \in (1..count) \X At |-> Turned(p[2], p[1])]
<1>1. count \in Nat
  BY SizeAssumption DEF RingInv, TypeOK
<1>2. \A i \in 1..count, x \in At : Turned(x, i) \in At
  <2>1. SUFFICES ASSUME NEW i \in 1..count, NEW x \in At PROVE Turned(x, i) \in At
    OBVIOUS
  <2>2. i - 1 \in 0..(count - 1)
    BY <1>1
  <2> QED
    BY <2>2, TurnType
<1> HIDE DEF Turned
<1>3. H \in [(1..count) \X At -> At] /\ \A i \in 1..count, x \in At : H[<<i, x>>] = Turned(x, i)
  BY <1>2
<1> HIDE DEF H
<1> DEFINE b == [result |-> <<>>, skipped |-> 0]
<1>4. b \in At
  BY DEF At
<1> HIDE DEF b
<1>5. HasRecursion(count, At, b, H)
  BY <1>1, <1>3, <1>4, RecursionExists
<1>6. PICK g \in [0..count -> At] : g[0] = b /\ \A i \in 1..count : g[i] = H[<<i, g[i - 1]>>]
  BY <1>5 DEF HasRecursion
<1>7. ASSUME NEW i \in 1..count PROVE g[i] = Turned(g[i - 1], i)
  <2>1. i - 1 \in 0..count
    BY <1>1
  <2>2. g[i - 1] \in At
    BY <2>1
  <2> QED
    BY <1>3, <1>6, <2>2
<1>8. g = [i \in 0..count |-> IF i = 0 THEN b ELSE Turned(g[i - 1], i)]
  <2>1. ASSUME NEW i \in 0..count PROVE g[i] = IF i = 0 THEN b ELSE Turned(g[i - 1], i)
    <3>1. CASE i = 0
      BY <3>1, <1>6
    <3>2. CASE i # 0
      <4>1. i \in 1..count
        BY <3>2, <1>1
      <4> QED
        BY <4>1, <3>2, <1>7
    <3> QED
      BY <3>1, <3>2
  <2> QED
    BY <2>1
<1> DEFINE k == Looping(filter, offset, limit)
<1>9. k = [i \in 0..count |-> IF i = 0 THEN b ELSE Turned(k[i - 1], i)]
  BY <1>8, Zenon DEF Looping, Turned, b
<1>10. k = g
  <2> HIDE DEF k
  <2>1. k[0] = g[0]
    BY <1>9, <1>6, <1>1
  <2> DEFINE Same == {i \in 0..count : k[i] = g[i]}
  <2>2. 0 \in Same
    BY <2>1, <1>1
  <2>3. ASSUME NEW i \in 1..count, i - 1 \in Same PROVE i \in Same
    <3>1. i \in 0..count /\ i # 0
      BY <1>1
    <3>2. k[i - 1] = g[i - 1]
      BY <2>3
    <3>3. k[i] = Turned(k[i - 1], i)
      BY <1>9, <3>1
    <3> QED
      BY <1>7, <3>1, <3>2, <3>3
  <2> HIDE DEF Same
  <2>4. \A i \in 0..count : i \in Same
    BY <2>2, <2>3, <1>1, UpTo
  <2>5. \A i \in 0..count : k[i] = g[i]
    BY <2>4 DEF Same
  <2> QED
    BY <1>9, <2>5
<1> HIDE DEF k
<1>11. k \in [0..count -> At] /\ k[0] = b /\ \A i \in 1..count : k[i] = Turned(k[i - 1], i)
  BY <1>6, <1>7, <1>10
<1> QED
  BY <1>11 DEF k, b, Turned

(* The entries kept, the newest first, are those of the slots that a query *)
(* goes through, and none of these is blank.                               *)
LEMMA NewestFirst ==
  ASSUME RingInv
  PROVE  /\ Reverse(Kept) \in Seq(Slots) /\ Len(Reverse(Kept)) = count
         /\ \A i \in 1..count : /\ Reverse(Kept)[i] = entries[Slot(i - 1)]
                                /\ entries[Slot(i - 1)] \in Entry
<1> USE SizeAssumption
<1>1. count \in Nat /\ count <= Size /\ Size \in Nat \ {0} /\ head \in 0..(Size - 1)
  BY DEF RingInv, TypeOK
<1>2. ASSUME NEW i \in 1..count
      PROVE  (head - count + (count - i + 1) - 1 + Size) % Size = Slot(i - 1)
  <2>1. head - count + (count - i + 1) - 1 + Size = head - 1 - (i - 1) + Size
    BY <1>1
  <2> QED
    BY <2>1 DEF Slot
<1>3. ASSUME NEW i \in 1..count PROVE Slot(i - 1) \in 0..(Size - 1) /\ entries[Slot(i - 1)] \in Entry
  <2> DEFINE x == head - 1 - (i - 1) + Size
  <2>1. x = head - i + Size /\ x \in 0..(2 * Size - 1)
    BY <1>1
  <2> HIDE DEF x
  <2>2. x % Size = IF x < Size THEN x ELSE x - Size
    BY <2>1, <1>1, Wrap
  <2>3. Slot(i - 1) = x % Size
    BY DEF Slot, x
  <2>4. Slot(i - 1) \in 0..(Size - 1)
    BY <1>1, <2>1, <2>2, <2>3
  <2>5. count < Size => Slot(i - 1) < head
    BY <1>1, <2>1, <2>2, <2>3 DEF RingInv
  <2>6. entries[Slot(i - 1)] # Blank /\ entries[Slot(i - 1)] \in Entry \union {Blank}
    BY <1>1, <2>4, <2>5 DEF RingInv, TypeOK
  <2> QED
    BY <2>4, <2>6
<1>4. ASSUME NEW i \in 1..count PROVE Kept[count - i + 1] = entries[Slot(i - 1)]
  <2>1. count - i + 1 \in 1..count
    BY <1>1
  <2>2. Kept[count - i + 1] = entries[(head - count + (count - i + 1) - 1 + Size) % Size]
    BY <2>1 DEF Kept
  <2> QED
    BY <1>2, <2>2
<1>5. ASSUME NEW i \in 1..count PROVE Kept[i] \in Slots
  <2>1. count - i + 1 \in 1..count /\ count - (count - i + 1) + 1 = i
    BY <1>1
  <2>2. Kept[i] = entries[Slot((count - i + 1) - 1)] /\ entries[Slot((count - i + 1) - 1)] \in Entry
    BY <1>3, <1>4, <2>1
  <2> QED
    BY <2>2 DEF Slots
<1>6. Len(Kept) = count
  BY <1>1 DEF Kept
<1>7. ASSUME NEW i \in 1..count PROVE Kept[count - i + 1] \in Slots
  BY <1>3, <1>4 DEF Slots
<1> HIDE DEF Kept
<1>8. Reverse(Kept) = [i \in 1..count |-> Kept[count - i + 1]]
  BY <1>6 DEF Reverse
<1>9. Reverse(Kept) \in Seq(Slots) /\ Len(Reverse(Kept)) = count
  BY <1>1, <1>7, <1>8
<1>10. \A i \in 1..count : Reverse(Kept)[i] = entries[Slot(i - 1)]
  BY <1>4, <1>8
<1> QED
  BY <1>3, <1>9, <1>10

(* How long the page is when n entries have been found.                    *)
Filled(n, offset, limit) ==
  IF n <= offset THEN 0 ELSE IF n - offset <= limit THEN n - offset ELSE limit

(* What the loop has when found is what has matched so far: it has skipped *)
(* what it must, and then kept what it may.                                *)
Paged(at, found, offset, limit) ==
  /\ at.skipped = IF Len(found) <= offset THEN Len(found) ELSE offset
  /\ Len(at.result) = Filled(Len(found), offset, limit)
  /\ \A j \in 1..Len(at.result) : at.result[j] = found[offset + j]

(* One turn keeps that.                                                    *)
LEMMA TurnPages ==
  ASSUME RingInv, NEW filter, NEW offset \in Nat, NEW limit \in Nat \ {0},
         NEW at \in At, NEW i \in 0..(count - 1), NEW found \in Seq(Slots),
         Paged(at, found, offset, limit)
  PROVE  Paged(Turn(filter, offset, limit, at, i),
               IF Matches(entries[Slot(i)], filter) THEN Append(found, entries[Slot(i)]) ELSE found,
               offset, limit)
<1> DEFINE e == entries[Slot(i)]
<1>1. e \in Slots
  BY TurnType
<1>2. at.result \in Seq(Slots) /\ at.skipped \in Nat /\ Len(at.result) \in Nat /\ Len(found) \in Nat
  BY DEF At
<1>3. CASE ~Matches(e, filter)
  BY <1>3 DEF Turn
<1>4. CASE Matches(e, filter)
  <2> DEFINE new == Append(found, e)
             m == Len(found)
  <2>1. Len(new) = m + 1 /\ m \in Nat /\ new[m + 1] = e /\ \A j \in 1..m : new[j] = found[j]
    BY <1>1
  <2> SUFFICES Paged(Turn(filter, offset, limit, at, i), new, offset, limit)
    BY <1>4
  <2> HIDE DEF new
  <2>2. CASE Len(at.result) >= limit
    <3>1. Turn(filter, offset, limit, at, i) = at
      BY <2>2 DEF Turn
    <3>2. m > offset /\ m - offset >= limit /\ Len(at.result) = limit
      BY <2>1, <2>2, <1>2 DEF Paged, Filled
    <3>3. \A j \in 1..limit : offset + j \in 1..m
      BY <2>1, <3>2
    <3>4. \A j \in 1..Len(at.result) : at.result[j] = new[offset + j]
      <4>1. \A j \in 1..limit : at.result[j] = found[offset + j] /\ new[offset + j] = found[offset + j]
        BY <2>1, <3>2, <3>3 DEF Paged
      <4> QED
        BY <3>2, <4>1
    <3>5. at.skipped = offset /\ Filled(Len(new), offset, limit) = limit /\ Len(new) > offset
      BY <2>1, <3>2 DEF Paged, Filled
    <3> QED
      BY <2>1, <3>1, <3>2, <3>4, <3>5 DEF Paged
  <2>3. CASE Len(at.result) < limit /\ at.skipped < offset
    <3>1. Turn(filter, offset, limit, at, i) = [at EXCEPT !.skipped = @ + 1]
      BY <1>2, <1>4, <2>3 DEF Turn
    <3>2. m < offset /\ at.skipped = m /\ Len(at.result) = 0
      BY <2>1, <2>3, <1>2 DEF Paged, Filled
    <3>3. [at EXCEPT !.skipped = @ + 1].skipped = m + 1 /\ [at EXCEPT !.skipped = @ + 1].result = at.result
      BY <3>2 DEF At
    <3>4. PICK t : t = Turn(filter, offset, limit, at, i)
      OBVIOUS
    <3>5. t.skipped = m + 1 /\ Len(t.result) = 0 /\ Len(new) = m + 1 /\ m + 1 <= offset
      BY <2>1, <3>1, <3>2, <3>3, <3>4
    <3>6. Paged(t, new, offset, limit)
      BY <2>1, <3>5 DEF Paged, Filled
    <3> QED
      BY <3>4, <3>6
  <2>4. CASE Len(at.result) < limit /\ ~(at.skipped < offset)
    <3> DEFINE r == Append(at.result, e)
    <3>1. Turn(filter, offset, limit, at, i) = [at EXCEPT !.result = r]
      BY <1>2, <1>4, <2>4 DEF Turn
    <3>2. m >= offset /\ at.skipped = offset /\ Len(at.result) = m - offset /\ m - offset < limit
      BY <2>1, <2>4, <1>2 DEF Paged, Filled
    <3>3. [at EXCEPT !.result = r].skipped = offset /\ [at EXCEPT !.result = r].result = r
      BY <3>2 DEF At
    <3>4. Len(r) = m - offset + 1 /\ r[m - offset + 1] = e /\ \A j \in 1..(m - offset) : r[j] = at.result[j]
      BY <1>1, <1>2, <3>2
    <3> HIDE DEF r
    <3>5. ASSUME NEW j \in 1..(m - offset + 1) PROVE r[j] = new[offset + j]
      <4>1. CASE j = m - offset + 1
        BY <4>1, <2>1, <3>4
      <4>2. CASE j # m - offset + 1
        <5>1. j \in 1..(m - offset) /\ offset + j \in 1..m
          BY <4>2, <2>1, <3>2
        <5> QED
          BY <5>1, <2>1, <3>2, <3>4 DEF Paged
      <4> QED
        BY <4>1, <4>2
    <3> QED
      BY <2>1, <3>1, <3>2, <3>3, <3>4, <3>5 DEF Paged, Filled
  <2> QED
    BY <1>2, <2>2, <2>3, <2>4
<1> QED
  BY <1>3, <1>4

(* After i turns the page is filled from what has matched among the newest *)
(* i entries; and so in the end.                                           *)
LEMMA LoopPages ==
  ASSUME RingInv, NEW filter, NEW offset \in Nat, NEW limit \in Nat, limit # 0 \/ count = 0
  PROVE  LET found == Log!Found({entry \in Entry : Matches(entry, filter)})
         IN  /\ found \in Seq(Slots) /\ Len(found) <= count
             /\ Looping(filter, offset, limit)[count] \in At
             /\ Paged(Looping(filter, offset, limit)[count], found, offset, limit)
<1> DEFINE K == {entry \in Entry : Matches(entry, filter)}
           rev == Reverse(Kept)
           k == Selecting(rev, K)
           L == Looping(filter, offset, limit)
<1>1. count \in Nat
  BY SizeAssumption DEF RingInv, TypeOK
<1>2. /\ rev \in Seq(Slots) /\ Len(rev) = count
      /\ \A i \in 1..count : rev[i] = entries[Slot(i - 1)] /\ rev[i] \in Entry
  BY NewestFirst
<1>3. \A i \in 1..count : rev[i] \in K <=> Matches(entries[Slot(i - 1)], filter)
  BY <1>2
<1> HIDE DEF rev, K
<1>4. /\ Selected(rev, K) = k[count]
      /\ k \in [0..count -> Seq(Slots)]
      /\ k[0] = <<>>
      /\ \A i \in 1..count : k[i] = IF rev[i] \in K THEN Append(k[i - 1], rev[i]) ELSE k[i - 1]
  <2>1. /\ Selected(rev, K) = k[Len(rev)]
        /\ k \in [0..Len(rev) -> Seq(Slots)]
        /\ k[0] = <<>>
        /\ \A i \in 1..Len(rev) : k[i] = IF rev[i] \in K THEN Append(k[i - 1], rev[i]) ELSE k[i - 1]
    BY <1>2, SelectingDefined
  <2> QED
    BY <2>1, <1>2
<1>5. /\ L \in [0..count -> At]
      /\ L[0] = [result |-> <<>>, skipped |-> 0]
      /\ \A i \in 1..count : L[i] = Turn(filter, offset, limit, L[i - 1], i - 1)
  BY LoopingDefined
<1> HIDE DEF k, L
<1> DEFINE S == {i \in 0..count : Paged(L[i], k[i], offset, limit) /\ Len(k[i]) <= i}
<1>6. 0 \in S
  <2>1. Len(k[0]) = 0 /\ L[0].skipped = 0 /\ Len(L[0].result) = 0
    BY <1>4, <1>5
  <2>2. Paged(L[0], k[0], offset, limit)
    BY <2>1 DEF Paged, Filled
  <2> QED
    BY <1>1, <2>1, <2>2
<1>7. ASSUME NEW i \in 1..count, i - 1 \in S PROVE i \in S
  <2>1. i \in 0..count /\ i - 1 \in 0..count /\ i - 1 \in 0..(count - 1) /\ limit \in Nat \ {0}
    BY <1>1
  <2>2. L[i - 1] \in At /\ k[i - 1] \in Seq(Slots) /\ Paged(L[i - 1], k[i - 1], offset, limit)
    BY <1>4, <1>5, <1>7, <2>1
  <2>3. k[i] = IF Matches(entries[Slot(i - 1)], filter) THEN Append(k[i - 1], entries[Slot(i - 1)]) ELSE k[i - 1]
    BY <1>2, <1>3, <1>4
  <2> DEFINE t == Turn(filter, offset, limit, L[i - 1], i - 1)
             c == IF Matches(entries[Slot(i - 1)], filter) THEN Append(k[i - 1], entries[Slot(i - 1)]) ELSE k[i - 1]
  <2>4. Paged(t, c, offset, limit)
    BY <2>1, <2>2, TurnPages
  <2>5. L[i] = t
    BY <1>5
  <2> HIDE DEF t
  <2>6. Paged(L[i], k[i], offset, limit)
    BY <2>3, <2>4, <2>5
  <2>7. Len(k[i]) <= i
    <3>1. Len(k[i - 1]) <= i - 1 /\ Len(k[i - 1]) \in Nat
      BY <1>7, <2>2
    <3>2. k[i] = k[i - 1] \/ \E x \in Slots : k[i] = Append(k[i - 1], x)
      <4>1. entries[Slot(i - 1)] \in Slots
        BY <1>2 DEF Slots
      <4> QED
        BY <4>1, <2>3
    <3> QED
      BY <2>1, <2>2, <3>1, <3>2
  <2> QED
    BY <2>1, <2>6, <2>7
<1> HIDE DEF S
<1>8. \A i \in 0..count : i \in S
  BY <1>1, <1>6, <1>7, UpTo
<1>9. count \in S /\ k[count] \in Seq(Slots) /\ L[count] \in At
  BY <1>1, <1>4, <1>5, <1>8
<1>10. Log!Found(K) = k[count]
  <2>1. Log!Found(K) = Selected(rev, K)
    BY Zenon DEF Log!Found, Log!Selected, Selected, Log!Reverse, Reverse, rev
  <2> QED
    BY <1>4, <2>1
<1>11. /\ Log!Found(K) \in Seq(Slots) /\ Len(Log!Found(K)) <= count /\ L[count] \in At
       /\ Paged(L[count], Log!Found(K), offset, limit)
  BY <1>9, <1>10 DEF S
<1> QED
  BY <1>11 DEF K, L

(* What is skipped and kept is the page, whatever the query's bounds are.  *)
LEMMA QueryPages ==
  ASSUME RingInv, NEW filter, NEW offset \in Int, NEW limit \in Int
  PROVE  Query(filter, offset, limit)
           = Log!Page(Log!Found({entry \in Entry : Matches(entry, filter)}), offset, limit)
<1> DEFINE l == IF limit <= 0 \/ limit > count THEN count ELSE limit
           o == IF offset < 0 THEN 0 ELSE offset
           found == Log!Found({entry \in Entry : Matches(entry, filter)})
           at == Looping(filter, o, l)[count]
           first == IF offset < 0 THEN 1 ELSE offset + 1
           last == IF limit <= 0 \/ first + limit - 1 > Len(found) THEN Len(found) ELSE first + limit - 1
<1>1. count \in Nat
  BY SizeAssumption DEF RingInv, TypeOK
<1>2. o \in Nat /\ l \in Nat /\ (l # 0 \/ count = 0) /\ first = o + 1
  BY <1>1
<1>3. Query(filter, offset, limit) = at.result
  BY Zenon DEF Query, Looping
<1>4. Log!Page(found, offset, limit) = SubSeq(found, first, last)
  BY DEF Log!Page
<1> HIDE DEF o
<1>5. /\ found \in Seq(Slots) /\ Len(found) <= count
      /\ at \in At /\ Paged(at, found, o, l)
  <2> HIDE DEF l
  <2> QED
    BY <1>2, LoopPages
<1> HIDE DEF found, at
<1>6. Len(found) \in Nat /\ at.result \in Seq(Slots)
  BY <1>5 DEF At
<1>7. Filled(Len(found), o, l) = IF first <= last THEN last - first + 1 ELSE 0
  <2> DEFINE n == Len(found)
  <2> SUFFICES (IF n <= o THEN 0 ELSE IF n - o <= l THEN n - o ELSE l)
                 = IF first <= last THEN last - first + 1 ELSE 0
    BY DEF Filled
  <2>1. n \in Nat /\ n <= count /\ last = IF limit <= 0 \/ first + limit - 1 > n THEN n ELSE first + limit - 1
    BY <1>5, <1>6
  <2>2. first = o + 1 /\ o \in Nat
    BY <1>2
  <2> HIDE DEF n, first, last
  <2> QED
    BY <1>1, <2>1, <2>2
<1>8. /\ last \in Int /\ first \in Int /\ last <= Len(found) /\ first >= 1
  BY <1>2, <1>6
<1> HIDE DEF l, first, last
<1>9. /\ SubSeq(found, first, last) \in Seq(Slots)
      /\ Len(SubSeq(found, first, last)) = IF first <= last THEN last - first + 1 ELSE 0
      /\ \A i \in 1..(last - first + 1) : SubSeq(found, first, last)[i] = found[first + i - 1]
  <2>1. \A i \in first..last : found[i] \in Slots
    BY <1>5, <1>8
  <2> QED
    BY <1>8, <2>1, SubSeqProperties
<1>10. Len(at.result) = Len(SubSeq(found, first, last))
  BY <1>5, <1>7, <1>9 DEF Paged
<1>11. ASSUME NEW i \in 1..Len(at.result) PROVE at.result[i] = SubSeq(found, first, last)[i]
  <2>1. i \in 1..(last - first + 1)
    BY <1>8, <1>9, <1>10
  <2>2. at.result[i] = found[o + i]
    BY <1>5 DEF Paged
  <2>3. o + i = first + i - 1
    BY <1>2, <2>1
  <2> QED
    BY <1>9, <2>1, <2>2, <2>3
<1>12. at.result = SubSeq(found, first, last)
  BY <1>6, <1>9, <1>10, <1>11, SeqEqual
<1> QED
  BY <1>3, <1>4, <1>12 DEF found

(* In every state of a ring of any size, every query answers with the page *)
(* it asks for.                                                            *)
LEMMA RingAnswersPages == RingInv => QueriesAnswerPages
<1> SUFFICES ASSUME RingInv, NEW filter \in Entry \union {Unset},
                    NEW offset \in Bounds, NEW limit \in Bounds
             PROVE  Query(filter, offset, limit)
                      = Log!Page(Log!Found({entry \in Entry : Matches(entry, filter)}), offset, limit)
  BY DEF QueriesAnswerPages
<1>1. offset \in Int /\ limit \in Int
  BY BoundAssumption
<1> QED
  BY <1>1, QueryPages

(* A query answers with the page of the bounded log that it asks for: with *)
(* any filter, offset and limit, before the ring is full and after it has  *)
(* wrapped around.                                                         *)
THEOREM RingQueriesAnswerPages == Spec => []QueriesAnswerPages
  BY RingInvariant, RingAnswersPages, PTL DEF Spec
=============================================================================
