------------------------ MODULE RuntimeCatalogProofs ------------------------
(***************************************************************************)
(* Proofs about RuntimeCatalog, for any callers, names and tables of the    *)
(* built-in catalog: types, and that each List answers from one refresh.   *)
(***************************************************************************)
EXTENDS RuntimeCatalog, TLAPS

(* How many read locks a caller holds in the places where it holds some,   *)
(* and what a List has found so far: as long as it holds one, nothing is   *)
(* stored.                                                                 *)
HoldsLocks(c) ==
  /\ pc[c] \in {"reading", "listing"} => readers[c] = 1
  /\ pc[c] = "nested" => readers[c] = 2
  /\ pc[c] \notin {"reading", "listing", "nested"} => readers[c] = 0

FoundSoFar(c) ==
  /\ pc[c] \in {"listing", "nested"} =>
       /\ listed[c] = models
       /\ todo[c] \subseteq Merged(models)
       /\ verified[c] = Found(Merged(models) \ todo[c], models)
  /\ pc[c] \notin {"reading", "listing", "nested"} => verified[c] = {}

ListInv == \A c \in Callers : HoldsLocks(c) /\ FoundSoFar(c)

(* The types hold at the start and are kept by every step: of the counts   *)
(* this needs that a caller unlocks only what it has locked.               *)
LEMMA TypeStep == TypeOK /\ ListInv /\ [Next]_vars => TypeOK'
<1> SUFFICES ASSUME TypeOK, ListInv, [Next]_vars PROVE TypeOK'
  OBVIOUS
<1> USE CallerAssumption, NameAssumption DEF TypeOK, Goto, Found
<1>5. models \subseteq Names /\ Merged(models) \subseteq Names
  BY DEF Merged, BuiltIn
<1>1. CASE UNCHANGED vars
  BY <1>1 DEF vars
<1>2. ASSUME NEW c \in Callers, Begin(c) PROVE TypeOK'
  BY <1>2 DEF Begin, ResolveBegin, SnapshotBegin, ListBegin, RefreshBegin
<1>3. ASSUME NEW c \in Callers, Locks(c) PROVE TypeOK'
  <2>1. CASE ResolveLock(c)
    BY <2>1 DEF ResolveLock, RLock
  <2>2. CASE SnapshotLock(c)
    BY <2>2 DEF SnapshotLock, RLock
  <2>3. CASE ListLock(c)
    BY <1>5, <2>3 DEF ListLock, RLock
  <2>4. CASE ListResolve(c)
    BY <2>4 DEF ListResolve, RLock
  <2>5. CASE Announce(c)
    BY <2>5 DEF Announce
  <2> QED
    BY <1>3, <2>1, <2>2, <2>3, <2>4, <2>5 DEF Locks
<1>4. ASSUME NEW c \in Callers, Runs(c) PROVE TypeOK'
  <2>0. HoldsLocks(c)
    BY DEF ListInv
  <2>1. CASE ReadEnd(c)
    BY <2>0, <2>1 DEF ReadEnd, RUnlock, HoldsLocks
  <2>2. CASE ListResolved(c)
    BY <2>0, <2>2 DEF ListResolved, RUnlock, HoldsLocks
  <2>3. CASE ListEnd(c)
    BY <2>0, <2>3 DEF ListEnd, RUnlock, HoldsLocks
  <2>4. CASE RefreshFetched(c)
    BY <2>4 DEF RefreshFetched
  <2>5. CASE RefreshStore(c)
    BY <2>5 DEF RefreshStore
  <2>6. CASE RefreshRefused(c)
    BY <2>6 DEF RefreshRefused
  <2> QED
    BY <1>4, <2>1, <2>2, <2>3, <2>4, <2>5, <2>6 DEF Runs
<1> QED
  BY <1>1, <1>2, <1>3, <1>4 DEF Next

(* A caller that is reading, listing or inside a nested Resolve keeps every *)
(* writer out.                                                             *)
LEMMA ListStep == TypeOK /\ ListInv /\ [Next]_vars => ListInv'
<1> SUFFICES ASSUME TypeOK, ListInv, [Next]_vars, NEW d \in Callers
             PROVE (HoldsLocks(d) /\ FoundSoFar(d))'
  BY DEF ListInv
<1>0. HoldsLocks(d) /\ FoundSoFar(d)
  BY DEF ListInv
<1> USE <1>0 DEF TypeOK, Goto, HoldsLocks, FoundSoFar, Found
<1>1. CASE UNCHANGED vars
  BY <1>1 DEF vars
<1>2. ASSUME NEW c \in Callers, Begin(c) PROVE (HoldsLocks(d) /\ FoundSoFar(d))'
  BY <1>2 DEF Begin, ResolveBegin, SnapshotBegin, ListBegin, RefreshBegin
<1>3. ASSUME NEW c \in Callers, Locks(c) PROVE (HoldsLocks(d) /\ FoundSoFar(d))'
  <2>1. CASE ResolveLock(c)
    BY <2>1 DEF ResolveLock, RLock
  <2>2. CASE SnapshotLock(c)
    BY <2>2 DEF SnapshotLock, RLock
  <2>3. CASE ListLock(c)
    BY <2>3 DEF ListLock, RLock
  <2>4. CASE ListResolve(c)
    BY <2>4 DEF ListResolve, RLock
  <2>5. CASE Announce(c)
    BY <2>5 DEF Announce
  <2> QED
    BY <1>3, <2>1, <2>2, <2>3, <2>4, <2>5 DEF Locks
<1>4. ASSUME NEW c \in Callers, Runs(c) PROVE (HoldsLocks(d) /\ FoundSoFar(d))'
  <2>1. CASE ReadEnd(c)
    BY <2>1 DEF ReadEnd, RUnlock
  <2>2. CASE ListResolved(c)
    BY <2>2 DEF ListResolved, RUnlock
  <2>3. CASE ListEnd(c)
    BY <2>3 DEF ListEnd, RUnlock
  <2>4. CASE RefreshFetched(c)
    BY <2>4 DEF RefreshFetched
  <2>5. CASE RefreshStore(c)
    <3>1. readers[d] = 0
      BY <2>5 DEF RefreshStore
    <3> QED
      BY <2>5, <3>1 DEF RefreshStore
  <2>6. CASE RefreshRefused(c)
    BY <2>6 DEF RefreshRefused
  <2> QED
    BY <1>4, <2>1, <2>2, <2>3, <2>4, <2>5, <2>6 DEF Runs
<1> QED
  BY <1>1, <1>2, <1>3, <1>4 DEF Next

(* Every caller starts outside the catalog.                                *)
LEMMA StartsOutside == Init => TypeOK /\ ListInv
  BY CallerAssumption DEF Init, TypeOK, ListInv, HoldsLocks, FoundSoFar

(* Both facts, for every reachable state.                                  *)
THEOREM CatalogTypeCorrect == Spec => [](TypeOK /\ ListInv)
<1>1. TypeOK /\ ListInv /\ [Next]_vars => (TypeOK /\ ListInv)'
  BY TypeStep, ListStep
<1> QED
  BY <1>1, StartsOutside, PTL DEF Spec

(* A List that has resolved its last name has found exactly the merged     *)
(* names whose internal name is among the models it merged: no refresh was *)
(* stored between its lookups, whatever the number of callers and of       *)
(* refreshes under way, and whatever the tables of names are.              *)
THEOREM ListsAreSnapshots == Spec => []ListIsSnapshot
<1>1. ListInv => ListIsSnapshot
  <2> SUFFICES ASSUME ListInv, NEW c \in Callers, pc[c] = "listing", todo[c] = {}
               PROVE verified[c] = Found(Merged(listed[c]), listed[c])
    BY DEF ListIsSnapshot
  <2>1. listed[c] = models /\ verified[c] = Found(Merged(models) \ {}, models)
    BY DEF ListInv, FoundSoFar
  <2> QED
    BY <2>1 DEF Found
<1> QED
  BY <1>1, CatalogTypeCorrect, PTL
=============================================================================
