-------------------------- MODULE ChatServiceProofs --------------------------
(***************************************************************************)
(* Proofs about ChatService, for any number of requests, sessions,         *)
(* accounts and attempts: what every path through Handle settles.          *)
(***************************************************************************)
EXTENDS ChatService, FiniteSetTheorems, TLAPS

(* What a request owes follows from where it is.                           *)
Owes(r) ==
  CASE pc[r] \in {"changed", "bind", "send", "sent"} -> [reports |-> 1, logs |-> 1]
    [] pc[r] \in {"store", "rotate", "finish"}       -> [reports |-> 0, logs |-> 1]
    [] OTHER                                         -> [reports |-> 0, logs |-> 0]

SettleInv ==
  /\ pc \in [Requests -> Places]
  /\ owed \in [Requests -> [reports : Int, logs : Int]]
  /\ \A r \in Requests : owed[r] = Owes(r)

(* A request starts with nothing owed.                                     *)
LEMMA SettleInit == Init => SettleInv
  BY DEF Init, SettleInv, Owes, Places

(* Every step of a request keeps its debt, and every other step leaves it  *)
(* alone.                                                                  *)
LEMMA SettleStep == SettleInv /\ [Next]_vars => SettleInv'
<1> SUFFICES ASSUME SettleInv, [Next]_vars PROVE SettleInv'
  OBVIOUS
<1> USE DEF SettleInv, Owes, Goto, Places
<1>1. CASE UNCHANGED <<pc, owed>>
  BY <1>1
<1>2. ASSUME NEW r \in Requests, NEW k \in Keys \union {NoKey},
             NEW isLong \in BOOLEAN, NEW compact \in BOOLEAN, Arrive(r, k, isLong, compact)
      PROVE  SettleInv'
  BY <1>2 DEF Arrive
<1>3. ASSUME NEW r \in Requests, Prepare(r) PROVE SettleInv'
  <2>1. CASE CompactManually(r)
    BY <2>1 DEF CompactManually
  <2>2. CASE Lookup(r)
    <3>1. owed' = owed /\ \E to \in {"clientCompacted", "acquire", "ensure"} : Goto(r, "get", to)
      BY <2>2 DEF Lookup
    <3> QED
      BY <3>1
  <2>3. CASE CompactForClient(r)
    BY <2>3 DEF CompactForClient
  <2>4. CASE Create(r)
    BY <2>4 DEF Create
  <2> QED
    BY <1>3, <2>1, <2>2, <2>3, <2>4 DEF Prepare
<1>4. ASSUME NEW r \in Requests, Attempt(r) PROVE SettleInv'
  <2>1. CASE AcquireFails(r)
    BY <2>1 DEF AcquireFails
  <2>2. ASSUME NEW a \in Accounts, Acquire(r, a) PROVE SettleInv'
    <3>1. \E to \in {"send", "changed", "bind"} : Goto(r, "acquire", to)
      BY <2>2 DEF Acquire, AfterAcquire
    <3>2. owed' = [owed EXCEPT ![r] = [reports |-> @.reports + 1, logs |-> @.logs + 1]]
      BY <2>2 DEF Acquire
    <3> QED
      BY <3>1, <3>2
  <2>3. CASE AccountChanged(r)
    BY <2>3 DEF AccountChanged
  <2>4. CASE Bind(r)
    BY <2>4 DEF Bind
  <2>5. CASE Send(r)
    BY <2>5 DEF Send
  <2>6. CASE Retry(r)
    BY <2>6 DEF Retry, Settle
  <2>7. CASE Fails(r)
    BY <2>7 DEF Fails, Settle
  <2>8. CASE Succeeds(r)
    <3>1. \E to \in {"store", "finish"} : Goto(r, "sent", to)
      BY <2>8 DEF Succeeds
    <3>2. owed' = [owed EXCEPT ![r].reports = @ - 1]
      BY <2>8 DEF Succeeds
    <3> QED
      BY <3>1, <3>2
  <2> QED
    BY <1>4, <2>1, <2>2, <2>3, <2>4, <2>5, <2>6, <2>7, <2>8 DEF Attempt
<1>5. ASSUME NEW r \in Requests, Conclude(r) PROVE SettleInv'
  <2>1. CASE Store(r)
    BY <2>1 DEF Store
  <2>2. CASE CompactAfterwards(r)
    BY <2>2 DEF CompactAfterwards
  <2>3. CASE Finish(r)
    BY <2>3 DEF Finish
  <2> QED
    BY <1>5, <2>1, <2>2, <2>3 DEF Conclude
<1>6. CASE Rejected \/ TimePasses \/ SweepSessions \/ UNCHANGED vars
  BY <1>1, <1>6 DEF Rejected, TimePasses, SweepSessions, vars
<1> QED
  BY <1>2, <1>3, <1>4, <1>5, <1>6 DEF Next, Handle

(* Whatever fails, whichever attempt, and however requests interleave, a   *)
(* lease is reported once and an attempt is logged once before the next    *)
(* account is acquired or the request returns.                             *)
THEOREM AttemptsAlwaysSettled == Spec => []AttemptsSettled
<1>1. SettleInv => AttemptsSettled
  BY DEF SettleInv, Owes, AttemptsSettled
<1> QED
  BY <1>1, SettleInit, SettleStep, PTL DEF Spec

-----------------------------------------------------------------------------
(* The requests inside Handle are counted one by one.                      *)
LEMMA HandledCounts ==
  ASSUME NEW r \in Requests
  PROVE  /\ Cardinality(Handled) \in Nat
         /\ Handled' = Handled \union {r} /\ r \notin Handled =>
              Cardinality(Handled') = Cardinality(Handled) + 1
         /\ Handled' = Handled \ {r} /\ r \in Handled =>
              Cardinality(Handled') = Cardinality(Handled) - 1
<1>1. IsFiniteSet(Handled)
  BY RequestsAssumption, FS_Subset DEF Handled
<1>2. Cardinality(Handled) \in Nat
  BY <1>1, FS_CardinalityType
<1>3. ASSUME Handled' = Handled \union {r}, r \notin Handled
      PROVE  Cardinality(Handled') = Cardinality(Handled) + 1
  BY <1>1, <1>3, FS_AddElement
<1>4. ASSUME Handled' = Handled \ {r}, r \in Handled
      PROVE  Cardinality(Handled') = Cardinality(Handled) - 1
  BY <1>1, <1>4, FS_RemoveElement
<1> QED
  BY <1>2, <1>3, <1>4

AccountInv ==
  /\ pc \in [Requests -> Places]
  /\ stats \in [total : Int, success : Int, failed : Int]
  /\ RequestsAccounted

(* The three ways in which a step may touch the counters and Handled: not  *)
(* at all, one request arrives, or one ends and is counted once.           *)
Arrives(r) ==
  Handled' = Handled \union {r} /\ r \notin Handled /\ stats' = [stats EXCEPT !.total = @ + 1]

Ends(r) ==
  Handled' = Handled \ {r} /\ r \in Handled /\ (RecordSuccess \/ RecordFailure)

Continues == Handled' = Handled /\ UNCHANGED stats

(* Each of the three keeps the sum.                                        *)
LEMMA SumKept ==
  ASSUME AccountInv, NEW r \in Requests, Arrives(r) \/ Ends(r) \/ Continues
  PROVE  stats' \in [total : Int, success : Int, failed : Int] /\ RequestsAccounted'
<1> USE DEF AccountInv, RequestsAccounted
<1>0. Cardinality(Handled) \in Nat
  BY HandledCounts
<1>1. CASE Arrives(r)
  <2>1. Cardinality(Handled') = Cardinality(Handled) + 1
    BY <1>1, HandledCounts DEF Arrives
  <2>2. /\ stats' \in [total : Int, success : Int, failed : Int]
        /\ stats'.total = stats.total + 1
        /\ stats'.success = stats.success /\ stats'.failed = stats.failed
    BY <1>1 DEF Arrives
  <2> QED
    BY <1>0, <2>1, <2>2
<1>2. CASE Ends(r)
  <2>1. Cardinality(Handled') = Cardinality(Handled) - 1
    BY <1>2, HandledCounts DEF Ends
  <2>2. /\ stats' \in [total : Int, success : Int, failed : Int]
        /\ stats'.total = stats.total
        /\ stats'.success + stats'.failed = stats.success + stats.failed + 1
    BY <1>2 DEF Ends, RecordSuccess, RecordFailure
  <2> QED
    BY <1>0, <2>1, <2>2
<1>3. CASE Continues
  BY <1>3 DEF Continues
<1> QED
  BY <1>1, <1>2, <1>3

(* Going from place to place keeps pc in its type and changes Handled at   *)
(* most by the request that moves.                                         *)
LEMMA Moves ==
  ASSUME pc \in [Requests -> Places], NEW r \in Requests,
         NEW from \in Places, NEW to \in Places, Goto(r, from, to)
  PROVE  /\ pc' \in [Requests -> Places]
         /\ from # "idle" /\ to # "idle" => Handled' = Handled
         /\ from = "idle" /\ to # "idle" => Handled' = Handled \union {r} /\ r \notin Handled
         /\ from # "idle" /\ to = "idle" => Handled' = Handled \ {r} /\ r \in Handled
  BY DEF Goto, Handled

(* Every step of a request that has arrived either goes on or counts it.   *)
LEMMA HandleStep ==
  ASSUME AccountInv, NEW r \in Requests, Handle(r)
  PROVE  pc' \in [Requests -> Places] /\ (Ends(r) \/ Continues)
<1> USE DEF AccountInv
<1>1. CASE Prepare(r)
  <2>1. UNCHANGED stats /\ \E from \in Places \ {"idle"}, to \in Places \ {"idle"} : Goto(r, from, to)
    <3>1. CASE CompactManually(r)
      BY <3>1 DEF CompactManually, Places
    <3>2. CASE Lookup(r)
      BY <3>2 DEF Lookup, Places
    <3>3. CASE CompactForClient(r)
      BY <3>3 DEF CompactForClient, Places
    <3>4. CASE Create(r)
      BY <3>4 DEF Create, Places
    <3> QED
      BY <1>1, <3>1, <3>2, <3>3, <3>4 DEF Prepare
  <2> QED
    BY <2>1, Moves DEF Continues
<1>2. ASSUME AcquireFails(r) \/ Fails(r) \/ Finish(r)
      PROVE  pc' \in [Requests -> Places] /\ Ends(r)
  <2>1. RecordSuccess \/ RecordFailure
    BY <1>2 DEF AcquireFails, Fails, Finish
  <2>2. \E from \in Places \ {"idle"} : Goto(r, from, "idle")
    BY <1>2 DEF AcquireFails, Fails, Finish, Places
  <2>3. "idle" \in Places
    BY DEF Places
  <2> QED
    BY <2>1, <2>2, <2>3, Moves DEF Ends
<1>3. ASSUME (\E a \in Accounts : Acquire(r, a)) \/ AccountChanged(r) \/ Bind(r) \/ Send(r)
             \/ Retry(r) \/ Succeeds(r) \/ Store(r) \/ CompactAfterwards(r)
      PROVE  pc' \in [Requests -> Places] /\ Continues
  <2>1. UNCHANGED stats /\ \E from \in Places \ {"idle"}, to \in Places \ {"idle"} : Goto(r, from, to)
    <3>1. ASSUME NEW a \in Accounts, Acquire(r, a)
          PROVE  UNCHANGED stats /\ \E to \in Places \ {"idle"} : Goto(r, "acquire", to)
      BY <3>1 DEF Acquire, AfterAcquire, Places
    <3>2. CASE AccountChanged(r)
      BY <3>2 DEF AccountChanged, Places
    <3>3. CASE Bind(r)
      BY <3>3 DEF Bind, Places
    <3>4. CASE Send(r)
      BY <3>4 DEF Send, Places
    <3>5. CASE Retry(r)
      BY <3>5 DEF Retry, Places
    <3>6. CASE Succeeds(r)
      BY <3>6 DEF Succeeds, Places
    <3>7. CASE Store(r)
      BY <3>7 DEF Store, Places
    <3>8. CASE CompactAfterwards(r)
      BY <3>8 DEF CompactAfterwards, Places
    <3>9. "acquire" \in Places \ {"idle"}
      BY DEF Places
    <3> QED
      BY <1>3, <3>1, <3>2, <3>3, <3>4, <3>5, <3>6, <3>7, <3>8, <3>9
  <2> QED
    BY <2>1, Moves DEF Continues
<1> QED
  BY <1>1, <1>2, <1>3 DEF Handle, Attempt, Conclude

(* The counters start at zero, with nobody inside.                         *)
LEMMA AccountInit == Init => AccountInv
<1> SUFFICES ASSUME Init PROVE AccountInv
  OBVIOUS
<1>1. Handled = {}
  BY DEF Init, Handled
<1>2. Cardinality(Handled) = 0
  BY <1>1, FS_EmptySet
<1> QED
  BY <1>2 DEF Init, AccountInv, RequestsAccounted, Places

(* A request that is rejected is counted twice at once: as arrived and as  *)
(* failed.                                                                 *)
LEMMA AccountStep == AccountInv /\ [Next]_vars => AccountInv'
<1> SUFFICES ASSUME AccountInv, [Next]_vars PROVE AccountInv'
  OBVIOUS
<1>1. ASSUME Rejected PROVE AccountInv'
  <2>1. Handled' = Handled /\ UNCHANGED pc
    BY <1>1 DEF Rejected, Handled
  <2>2. stats' = [stats EXCEPT !.total = @ + 1, !.failed = @ + 1]
    BY <1>1 DEF Rejected
  <2>3. Cardinality(Handled) \in Nat
    BY RequestsAssumption, FS_Subset, FS_CardinalityType DEF Handled
  <2>4. /\ stats' \in [total : Int, success : Int, failed : Int]
        /\ stats'.total = stats.total + 1
        /\ stats'.success = stats.success /\ stats'.failed = stats.failed + 1
    <3> DEFINE arrived == [stats EXCEPT !.total = @ + 1]
    <3>1. arrived \in [total : Int, success : Int, failed : Int]
      BY DEF AccountInv
    <3>2. arrived.total = stats.total + 1 /\ arrived.success = stats.success
          /\ arrived.failed = stats.failed
      BY DEF AccountInv
    <3>3. stats' = [arrived EXCEPT !.failed = @ + 1]
      BY <2>2, <3>2 DEF AccountInv
    <3> HIDE DEF arrived
    <3> QED
      BY <3>1, <3>2, <3>3
  <2>5. Cardinality(Handled') = Cardinality(Handled)
    BY <2>1
  <2> QED
    BY <2>1, <2>3, <2>4, <2>5 DEF AccountInv, RequestsAccounted
<1>2. ASSUME NEW r \in Requests, NEW k \in Keys \union {NoKey},
             NEW isLong \in BOOLEAN, NEW compact \in BOOLEAN, Arrive(r, k, isLong, compact)
      PROVE  AccountInv'
  <2>1. \E to \in Places \ {"idle"} : Goto(r, "idle", to)
    BY <1>2 DEF Arrive, Places
  <2>2. "idle" \in Places
    BY DEF Places
  <2>3. pc' \in [Requests -> Places] /\ Arrives(r)
    BY <1>2, <2>1, <2>2, Moves DEF Arrive, Arrives, AccountInv
  <2> QED
    BY <2>3, SumKept DEF AccountInv
<1>3. ASSUME NEW r \in Requests, Handle(r) PROVE AccountInv'
  BY <1>3, HandleStep, SumKept DEF AccountInv
<1>4. CASE TimePasses \/ SweepSessions \/ UNCHANGED vars
  BY <1>4 DEF TimePasses, SweepSessions, vars, AccountInv, RequestsAccounted, Handled
<1> QED
  BY <1>1, <1>2, <1>3, <1>4 DEF Next

(* At every moment the counters add up to the requests that have arrived,  *)
(* for any number of requests at once.                                     *)
THEOREM RequestsAlwaysAccounted == Spec => []RequestsAccounted
<1>1. AccountInv => RequestsAccounted
  BY DEF AccountInv
<1> QED
  BY <1>1, AccountInit, AccountStep, PTL DEF Spec
-----------------------------------------------------------------------------
(* What the methods of the session manager leave in the map.               *)

(* Deleting the expired sessions leaves the others as they are.            *)
LEMMA UnexpiredFacts ==
  /\ DOMAIN Unexpired = {k \in DOMAIN items : items[k].age <= TTL}
  /\ \A k \in DOMAIN Unexpired : Unexpired[k] = items[k]
  BY DEF Unexpired, Restrict

(* The sessions that are left are as they were.                            *)
Shrinks ==
  /\ DOMAIN items' \subseteq DOMAIN items
  /\ \A d \in DOMAIN items' : items'[d] = items[d]

(* Session k may have become b; what else is left has not expired and is   *)
(* as it was.                                                              *)
Writes(k, b) ==
  /\ DOMAIN items' \subseteq DOMAIN Unexpired \union {k}
  /\ \A d \in DOMAIN items' : items'[d] = IF d = k THEN b ELSE items[d]

(* Whatever the eviction keeps, it changes nothing.                        *)
LEMMA EvictWrites ==
  ASSUME NEW k, NEW b, EvictOverflow(With(k, b))
  PROVE  Writes(k, b)
<1> DEFINE I == With(k, b)
<1>1. PICK K \in Kept(I) : items' = Restrict(I, K)
  BY DEF EvictOverflow
<1>2. K \subseteq DOMAIN I
  BY DEF Kept
<1>3. DOMAIN items' = K /\ \A d \in K : items'[d] = I[d]
  BY <1>1 DEF Restrict
<1> HIDE DEF I
<1>4. DOMAIN I = DOMAIN Unexpired \union {k}
      /\ \A d \in DOMAIN I : I[d] = IF d = k THEN b ELSE items[d]
  BY DEF I, With
<1> QED
  BY <1>2, <1>3, <1>4 DEF Writes

(* Ensure writes the session it returns.                                   *)
LEMMA EnsureWrites ==
  ASSUME NEW k, Ensure(k)
  PROVE  Writes(k, Ensured(k)) /\ nextConv' = (IF Found(k) THEN nextConv ELSE nextConv + 1)
<1>1. CASE Found(k)
  <2>1. items' = With(k, Ensured(k))
    BY <1>1 DEF Ensure
  <2> QED
    BY <1>1, <2>1 DEF Ensure, Writes, With
<1>2. CASE ~Found(k)
  BY <1>2, EvictWrites DEF Ensure
<1> QED
  BY <1>1, <1>2

(* Rotate writes one with the next conversation.                           *)
LEMMA RotateWrites ==
  ASSUME NEW k, Rotate(k)
  PROVE  Writes(k, Rotated(k)) /\ nextConv' = nextConv + 1
  BY EvictWrites DEF Rotate

(* Update writes to a session that is there.                               *)
LEMMA UpdateWrites ==
  ASSUME NEW k, NEW c, NEW a, NEW l, Update(k, c, a, l)
  PROVE  IF Found(k) THEN Writes(k, Updated(k, c, a, l)) ELSE Shrinks
<1>1. CASE Found(k)
  <2>1. items' = With(k, Updated(k, c, a, l))
    BY <1>1 DEF Update
  <2> QED
    BY <1>1, <2>1 DEF Writes, With
<1>2. CASE ~Found(k)
  BY <1>2, UnexpiredFacts DEF Update, Shrinks
<1> QED
  BY <1>1, <1>2

(* Sweep and Get only take sessions away.                                  *)
LEMMA SweepShrinks == Sweep \/ (\E k : Get(k)) => Shrinks /\ UNCHANGED <<nextConv, retired>>
  BY UnexpiredFacts DEF Sweep, Get, Shrinks

(* The clock only makes sessions older.                                    *)
LEMMA TickAges ==
  ASSUME NEW S, Tick(S), SessionTypeOK
  PROVE  /\ DOMAIN items' = DOMAIN items
         /\ \A d \in DOMAIN items :
              items'[d] \in Binding /\ items'[d].conv = items[d].conv
              /\ items'[d].account = items[d].account
         /\ UNCHANGED <<nextConv, retired>>
<1>1. items' = [k \in DOMAIN items |-> [items[k] EXCEPT !.age = IF @ <= TTL THEN @ + 1 ELSE @]]
  BY DEF Tick
<1>2. SUFFICES ASSUME NEW d \in DOMAIN items
      PROVE  items'[d] \in Binding /\ items'[d].conv = items[d].conv
             /\ items'[d].account = items[d].account
  BY <1>1 DEF Tick
<1>3. items'[d] = [items[d] EXCEPT !.age = IF @ <= TTL THEN @ + 1 ELSE @]
  BY <1>1
<1>4. items[d] \in Binding
  BY DEF SessionTypeOK
<1> QED
  BY <1>3, <1>4, TTLAssumption DEF Binding
-----------------------------------------------------------------------------
(* The number of sessions, whatever is done with the manager.              *)

Bounded == IsFiniteSet(DOMAIN items) /\ SessionsBounded

(* A call of the manager, or time.                                         *)
ManagerStep ==
  \/ \E k \in Keys : Get(k) \/ Ensure(k) \/ Rotate(k)
  \/ \E k \in Keys, c \in Nat, a \in Accounts, l \in BOOLEAN : Update(k, c, a, l)
  \/ Sweep
  \/ \E S \in SUBSET Keys : Tick(S)
  \/ UNCHANGED sessionVars

(* Fewer sessions are no more than there may be.                           *)
LEMMA SmallerIsBounded ==
  ASSUME Bounded, DOMAIN items' \subseteq DOMAIN items
  PROVE  Bounded'
<1>1. IsFiniteSet(DOMAIN items') /\ Cardinality(DOMAIN items') <= Cardinality(DOMAIN items)
  BY FS_Subset DEF Bounded
<1>2. Cardinality(DOMAIN items') \in Nat /\ Cardinality(DOMAIN items) \in Nat
  BY <1>1, FS_CardinalityType DEF Bounded
<1> QED
  BY <1>1, <1>2, MaxEntriesAssumption DEF Bounded, SessionsBounded

(* One more session than before is evicted down to the limit.              *)
LEMMA EvictionBounds ==
  ASSUME Bounded, NEW k, NEW b, EvictOverflow(With(k, b))
  PROVE  Bounded'
<1> DEFINE I == With(k, b)
<1>1. PICK K \in Kept(I) : items' = Restrict(I, K)
  BY DEF EvictOverflow
<1>2. DOMAIN items' = K
  BY <1>1 DEF Restrict
<1>3. /\ K \subseteq DOMAIN I
      /\ Cardinality(K) = IF Cardinality(DOMAIN I) > MaxEntries THEN MaxEntries
                          ELSE Cardinality(DOMAIN I)
  BY DEF Kept
<1>4. IsFiniteSet(DOMAIN I)
  <2>1. DOMAIN I = DOMAIN Unexpired \union {k}
    BY DEF With
  <2>2. IsFiniteSet(DOMAIN Unexpired)
    BY UnexpiredFacts, FS_Subset DEF Bounded
  <2> HIDE DEF I
  <2> QED
    BY <2>1, <2>2, FS_AddElement
<1> HIDE DEF I
<1>5. IsFiniteSet(K) /\ Cardinality(DOMAIN I) \in Nat
  BY <1>3, <1>4, FS_Subset, FS_CardinalityType
<1>6. Cardinality(K) <= MaxEntries
  BY <1>3, <1>5, MaxEntriesAssumption
<1> QED
  BY <1>2, <1>5, <1>6 DEF Bounded, SessionsBounded

(* No operation of the manager exceeds its room.                           *)
LEMMA ManagerBounds == ASSUME Bounded, ManagerStep PROVE Bounded'
<1> USE SmallerIsBounded
<1>1. ASSUME NEW k \in Keys, Get(k) PROVE Bounded'
  BY <1>1, SweepShrinks DEF Shrinks
<1>2. ASSUME NEW k \in Keys, Ensure(k) PROVE Bounded'
  <2>1. CASE Found(k)
    <3>1. DOMAIN items' \subseteq DOMAIN Unexpired \union {k}
      BY <1>2, EnsureWrites DEF Writes
    <3> QED
      BY <2>1, <3>1, UnexpiredFacts DEF Found
  <2>2. CASE ~Found(k)
    BY <1>2, <2>2, EvictionBounds DEF Ensure
  <2> QED
    BY <2>1, <2>2
<1>3. ASSUME NEW k \in Keys, Rotate(k) PROVE Bounded'
  BY <1>3, EvictionBounds DEF Rotate
<1>4. ASSUME NEW k \in Keys, NEW c \in Nat, NEW a \in Accounts, NEW l \in BOOLEAN, Update(k, c, a, l)
      PROVE  Bounded'
  <2>1. CASE Found(k)
    <3>1. DOMAIN items' \subseteq DOMAIN Unexpired \union {k}
      BY <1>4, <2>1, UpdateWrites DEF Writes
    <3> QED
      BY <2>1, <3>1, UnexpiredFacts DEF Found
  <2>2. CASE ~Found(k)
    BY <1>4, <2>2, UpdateWrites DEF Shrinks
  <2> QED
    BY <2>1, <2>2
<1>5. CASE Sweep
  BY <1>5, SweepShrinks DEF Shrinks
<1>6. ASSUME NEW S \in SUBSET Keys, Tick(S) PROVE Bounded'
  BY <1>6 DEF Tick
<1>7. CASE UNCHANGED sessionVars
  BY <1>7 DEF sessionVars
<1> QED
  BY <1>1, <1>2, <1>3, <1>4, <1>5, <1>6, <1>7 DEF ManagerStep
-----------------------------------------------------------------------------
(* The types of the sessions: every conversation has been drawn.           *)

SessionInv ==
  /\ SessionTypeOK
  /\ \A k \in DOMAIN items : items[k].conv \in Drawn

(* A conversation was drawn if it is below the next one.                   *)
LEMMA DrawnFacts ==
  nextConv \in Nat \ {0} => \A c : c \in Drawn <=> c \in Nat \ {0} /\ c < nextConv
  BY DEF Drawn

(* Conversations are only ever drawn, and the next one is new.             *)
LEMMA DrawnGrows ==
  ASSUME nextConv \in Nat \ {0}, nextConv' \in {nextConv, nextConv + 1}
  PROVE  /\ nextConv' \in Nat \ {0}
         /\ Drawn \subseteq Drawn' /\ nextConv \notin Drawn /\ Drawn' \subseteq Nat \ {0}
         /\ nextConv' = nextConv => Drawn' = Drawn
         /\ nextConv' = nextConv + 1 => Drawn' = Drawn \union {nextConv}
<1>1. (nextConv \in Nat \ {0} => \A c : c \in Drawn <=> c \in Nat \ {0} /\ c < nextConv)'
  BY DrawnFacts, PTL
<1>2. nextConv' \in Nat \ {0} /\ nextConv <= nextConv'
  OBVIOUS
<1>3. \A c : c \in Drawn <=> c \in Nat \ {0} /\ c < nextConv
  BY DrawnFacts
<1>4. \A c : c \in Drawn' <=> c \in Nat \ {0} /\ c < nextConv'
  BY <1>1, <1>2
<1> QED
  BY <1>2, <1>3, <1>4

(* A session that is written with a drawn conversation.                    *)
LEMMA WritesKeep ==
  ASSUME SessionInv, NEW k \in Keys, NEW b \in Binding, Writes(k, b),
         nextConv' \in {nextConv, nextConv + 1}, b.conv \in Drawn', retired' \subseteq Drawn'
  PROVE  SessionInv'
<1>1. DOMAIN items' \subseteq DOMAIN items \union {k}
  BY UnexpiredFacts DEF Writes
<1>2. nextConv' \in Nat \ {0} /\ Drawn \subseteq Drawn'
  BY DrawnGrows DEF SessionInv, SessionTypeOK
<1>3. ASSUME NEW d \in DOMAIN items' PROVE items'[d] \in Binding /\ items'[d].conv \in Drawn'
  BY <1>1, <1>2, <1>3 DEF Writes, SessionInv, SessionTypeOK
<1>4. DOMAIN items' \subseteq Keys
  BY <1>1 DEF SessionInv, SessionTypeOK
<1> QED
  BY <1>2, <1>3, <1>4 DEF SessionInv, SessionTypeOK

(* Sessions that are taken away.                                           *)
LEMMA ShrinksKeep ==
  ASSUME SessionInv, Shrinks, nextConv' \in {nextConv, nextConv + 1}, UNCHANGED retired
  PROVE  SessionInv'
<1>1. nextConv' \in Nat \ {0} /\ Drawn \subseteq Drawn'
  BY DrawnGrows DEF SessionInv, SessionTypeOK
<1> QED
  BY <1>1 DEF Shrinks, SessionInv, SessionTypeOK

(* The bindings that Ensure and Rotate return.                             *)
LEMMA ReturnedBindings ==
  ASSUME SessionInv, NEW k \in Keys
  PROVE  /\ Found(k) => k \in DOMAIN items /\ items[k] \in Binding /\ items[k].conv \in Drawn
         /\ Ensured(k) \in Binding
         /\ Ensured(k).conv = (IF Found(k) THEN items[k].conv ELSE nextConv)
         /\ Ensured(k).account = (IF Found(k) THEN items[k].account ELSE NoAccount)
         /\ Rotated(k) \in Binding
         /\ Rotated(k).conv = nextConv
         /\ Rotated(k).account = (IF Found(k) THEN items[k].account ELSE NoAccount)
<1>1. Found(k) => k \in DOMAIN items /\ items[k] \in Binding /\ items[k].conv \in Drawn
  BY UnexpiredFacts DEF Found, SessionInv, SessionTypeOK
<1>2. PICK n \in Nat \ {0} : n = nextConv
  BY DEF SessionInv, SessionTypeOK
<1>3. NoBinding \in [conv : Nat, account : Accounts \union {NoAccount}, long : BOOLEAN,
                     age : 0..(TTL + 1)]
      /\ NoBinding.account = NoAccount
  BY TTLAssumption DEF NoBinding
<1>4. CASE Found(k)
  <2>1. Ensured(k) = [items[k] EXCEPT !.age = 0]
        /\ Rotated(k) = [items[k] EXCEPT !.conv = nextConv, !.age = 0]
    BY <1>4 DEF Ensured, Rotated
  <2>2. PICK b \in Binding : b = items[k]
    BY <1>1, <1>4
  <2>3. Ensured(k) \in Binding /\ Ensured(k).conv = b.conv /\ Ensured(k).account = b.account
    BY <2>1, <2>2, TTLAssumption DEF Binding
  <2>4. Rotated(k) = [Ensured(k) EXCEPT !.conv = n]
    BY <1>2, <2>1, <2>2 DEF Binding
  <2>5. Rotated(k) \in Binding /\ Rotated(k).conv = n /\ Rotated(k).account = b.account
    BY <1>2, <2>3, <2>4 DEF Binding
  <2> QED
    BY <1>1, <1>2, <1>4, <2>2, <2>3, <2>5
<1>5. CASE ~Found(k)
  <2>1. Ensured(k) = [NoBinding EXCEPT !.conv = nextConv]
        /\ Rotated(k) = [NoBinding EXCEPT !.conv = nextConv, !.age = 0]
    BY <1>5 DEF Ensured, Rotated
  <2>2. Ensured(k) \in Binding /\ Ensured(k).conv = n /\ Ensured(k).account = NoAccount
    BY <1>2, <1>3, <2>1, TTLAssumption DEF Binding
  <2>3. Rotated(k) = [Ensured(k) EXCEPT !.age = 0]
    BY <1>3, <2>1
  <2>4. Rotated(k) \in Binding /\ Rotated(k).conv = n /\ Rotated(k).account = NoAccount
    BY <2>2, <2>3, TTLAssumption DEF Binding
  <2> QED
    BY <1>2, <1>5, <2>2, <2>4
<1> QED
  BY <1>1, <1>4, <1>5

(* Ensure gives a typed session.                                           *)
LEMMA EnsureKeeps ==
  ASSUME SessionInv, NEW k \in Keys, Ensure(k)
  PROVE  SessionInv' /\ nextConv' \in {nextConv, nextConv + 1} /\ Ensured(k).conv \in Drawn'
         /\ Ensured(k).account \in Accounts \union {NoAccount}
<1>1. Writes(k, Ensured(k)) /\ nextConv' = (IF Found(k) THEN nextConv ELSE nextConv + 1)
  BY EnsureWrites
<1>2. Ensured(k) \in Binding /\ Ensured(k).conv \in Drawn' /\ Drawn \subseteq Drawn'
  BY <1>1, ReturnedBindings, DrawnGrows DEF SessionInv, SessionTypeOK
<1>3. retired' \subseteq Drawn'
  BY <1>2 DEF Ensure, SessionInv, SessionTypeOK
<1>4. SessionInv'
  BY <1>1, <1>2, <1>3, WritesKeep
<1> QED
  BY <1>1, <1>2, <1>4 DEF Binding

(* Rotate does too.                                                        *)
LEMMA RotateKeeps ==
  ASSUME SessionInv, NEW k \in Keys, Rotate(k)
  PROVE  SessionInv' /\ nextConv' = nextConv + 1 /\ Rotated(k).conv \in Drawn'
         /\ Rotated(k).account \in Accounts \union {NoAccount}
<1>1. Writes(k, Rotated(k)) /\ nextConv' = nextConv + 1
  BY RotateWrites
<1>2. Rotated(k) \in Binding /\ Rotated(k).conv \in Drawn' /\ Drawn \subseteq Drawn'
  BY <1>1, ReturnedBindings, DrawnGrows DEF SessionInv, SessionTypeOK
<1>3. retired' \subseteq Drawn'
  BY <1>2, ReturnedBindings DEF Rotate, SessionInv, SessionTypeOK
<1>4. SessionInv'
  BY <1>1, <1>2, <1>3, WritesKeep
<1> QED
  BY <1>1, <1>2, <1>4 DEF Binding

(* Update does if what is written is typed.                                *)
LEMMA UpdateKeeps ==
  ASSUME SessionInv, NEW k \in Keys, NEW c \in Drawn', NEW a \in Accounts, NEW l \in BOOLEAN,
         Update(k, c, a, l), nextConv' \in {nextConv, nextConv + 1}
  PROVE  SessionInv'
<1>1. nextConv' \in Nat \ {0} /\ Drawn \subseteq Drawn' /\ Drawn' \subseteq Nat \ {0}
  BY DrawnGrows DEF SessionInv, SessionTypeOK
<1>2. CASE Found(k)
  <2>1. Updated(k, c, a, l) \in Binding /\ Updated(k, c, a, l).conv = c
    BY <1>1, TTLAssumption DEF Updated, Binding
  <2>2. retired' \subseteq Drawn'
    BY <1>1 DEF Update, SessionInv, SessionTypeOK
  <2> QED
    BY <1>2, <2>1, <2>2, UpdateWrites, WritesKeep
<1>3. CASE ~Found(k)
  BY <1>3, UpdateWrites, ShrinksKeep DEF Update
<1> QED
  BY <1>2, <1>3

(* Sweeps, lookups and the clock.                                          *)
LEMMA TimeKeeps ==
  ASSUME SessionInv, Sweep \/ (\E k : Get(k)) \/ \E S : Tick(S)
  PROVE  SessionInv' /\ UNCHANGED <<nextConv, retired>>
<1>1. ASSUME Sweep \/ \E k : Get(k) PROVE SessionInv' /\ UNCHANGED <<nextConv, retired>>
  BY <1>1, SweepShrinks, ShrinksKeep
<1>2. ASSUME NEW S, Tick(S) PROVE SessionInv' /\ UNCHANGED <<nextConv, retired>>
  BY <1>2, TickAges DEF SessionInv, SessionTypeOK, Drawn
<1> QED
  BY <1>1, <1>2
-----------------------------------------------------------------------------
(* The types of the requests: where a request is tells whether it has a    *)
(* key, a conversation and a lease.                                        *)

Stage(at, k, c, l) ==
  /\ at = "idle" => k = NoKey /\ c = 0
  /\ at \in {"compact", "get", "clientCompacted", "ensure", "changed", "bind", "store", "rotate"}
       => k # NoKey
  /\ k # NoKey /\ at \in {"acquire", "changed", "bind", "send", "sent", "store", "rotate", "finish"}
       => c # 0
  /\ at \in {"changed", "bind", "send", "sent", "store", "rotate", "finish"} => l \in Accounts

LocalInv ==
  /\ pc \in [Requests -> Places]
  /\ key \in [Requests -> Keys \union {NoKey}]
  /\ long \in [Requests -> BOOLEAN]
  /\ conv \in [Requests -> {0} \union Drawn]
  /\ bound \in [Requests -> Accounts \union {NoAccount}]
  /\ lease \in [Requests -> Accounts \union {NoAccount}]
  /\ attempt \in [Requests -> 1..MaxSendAttempts]
  /\ \A r \in Requests : Stage(pc[r], key[r], conv[r], lease[r])

(* Request r goes on with these.                                           *)
Becomes(r, at, k, c, b, l) ==
  /\ pc' = [pc EXCEPT ![r] = at]
  /\ key' = [key EXCEPT ![r] = k]
  /\ conv' = [conv EXCEPT ![r] = c]
  /\ bound' = [bound EXCEPT ![r] = b]
  /\ lease' = [lease EXCEPT ![r] = l]

(* A handler that goes on to a place with what belongs there.              *)
LEMMA BecomesKeeps ==
  ASSUME LocalInv, Drawn \subseteq Drawn', NEW r \in Requests, NEW at \in Places,
         NEW k \in Keys \union {NoKey}, NEW c \in {0} \union Drawn',
         NEW b \in Accounts \union {NoAccount}, NEW l \in Accounts \union {NoAccount},
         Becomes(r, at, k, c, b, l), Stage(at, k, c, l),
         long' \in [Requests -> BOOLEAN], attempt' \in [Requests -> 1..MaxSendAttempts]
  PROVE  LocalInv'
<1>1. /\ pc' \in [Requests -> Places]
      /\ key' \in [Requests -> Keys \union {NoKey}]
      /\ bound' \in [Requests -> Accounts \union {NoAccount}]
      /\ lease' \in [Requests -> Accounts \union {NoAccount}]
  BY DEF LocalInv, Becomes
<1>2. conv' \in [Requests -> {0} \union Drawn']
  BY DEF LocalInv, Becomes
<1>3. ASSUME NEW q \in Requests PROVE Stage(pc'[q], key'[q], conv'[q], lease'[q])
  <2>1. CASE q = r
    BY <2>1 DEF LocalInv, Becomes
  <2>2. CASE q # r
    <3>1. pc'[q] = pc[q] /\ key'[q] = key[q] /\ conv'[q] = conv[q] /\ lease'[q] = lease[q]
      BY <2>2 DEF LocalInv, Becomes
    <3> QED
      BY <3>1 DEF LocalInv
  <2> QED
    BY <2>1, <2>2
<1>4. \A q \in Requests : Stage(pc'[q], key'[q], conv'[q], lease'[q])
  BY <1>3
<1> HIDE DEF Stage
<1> QED
  BY <1>1, <1>2, <1>4 DEF LocalInv
(* Every step of a request calls the manager with the key and the          *)
(* conversation the request has.                                           *)
Typed == SessionInv' /\ LocalInv' /\ ManagerStep

(* The steps before the first attempt.                                     *)
LEMMA PrepareTyped ==
  ASSUME SessionInv, LocalInv, NEW r \in Requests, Prepare(r)
  PROVE  Typed
<1>0. /\ Stage(pc[r], key[r], conv[r], lease[r])
      /\ lease[r] \in Accounts \union {NoAccount} /\ key[r] \in Keys \union {NoKey}
      /\ bound[r] \in Accounts \union {NoAccount} /\ conv[r] \in {0} \union Drawn
      /\ nextConv \in Nat \ {0}
  BY DEF LocalInv, SessionInv, SessionTypeOK
<1>1. ASSUME CompactManually(r) \/ CompactForClient(r) PROVE Typed
  <2>1. key[r] \in Keys
    BY <1>0, <1>1 DEF CompactManually, CompactForClient, Goto, Stage
  <2>2. Rotate(key[r]) /\ Becomes(r, "acquire", key[r], Rotated(key[r]).conv, Rotated(key[r]).account, lease[r])
        /\ UNCHANGED <<long, attempt>>
    BY <1>1 DEF CompactManually, CompactForClient, Goto, Take, Becomes, LocalInv
  <2>3. SessionInv' /\ Rotated(key[r]).conv \in Drawn' /\ Drawn \subseteq Drawn' /\ Drawn' \subseteq Nat \ {0}
        /\ Rotated(key[r]).account \in Accounts \union {NoAccount}
    BY <1>0, <2>1, <2>2, RotateKeeps, DrawnGrows
  <2>4. Stage("acquire", key[r], Rotated(key[r]).conv, lease[r]) /\ "acquire" \in Places
    BY <2>3 DEF Stage, Places
  <2>5. LocalInv'
    BY <1>0, <2>2, <2>3, <2>4, BecomesKeeps DEF LocalInv
  <2> QED
    BY <2>1, <2>2, <2>3, <2>5 DEF Typed, ManagerStep
<1>2. ASSUME Create(r) PROVE Typed
  <2>1. key[r] \in Keys
    BY <1>0, <1>2 DEF Create, Goto, Stage
  <2>2. Ensure(key[r]) /\ Becomes(r, "acquire", key[r], Ensured(key[r]).conv, Ensured(key[r]).account, lease[r])
        /\ UNCHANGED <<long, attempt>>
    BY <1>2 DEF Create, Goto, Take, Becomes, LocalInv
  <2>3. SessionInv' /\ Ensured(key[r]).conv \in Drawn' /\ Drawn \subseteq Drawn' /\ Drawn' \subseteq Nat \ {0}
        /\ Ensured(key[r]).account \in Accounts \union {NoAccount}
    BY <1>0, <2>1, <2>2, EnsureKeeps, DrawnGrows
  <2>4. Stage("acquire", key[r], Ensured(key[r]).conv, lease[r]) /\ "acquire" \in Places
    BY <2>3 DEF Stage, Places
  <2>5. LocalInv'
    BY <1>0, <2>2, <2>3, <2>4, BecomesKeeps DEF LocalInv
  <2> QED
    BY <2>1, <2>2, <2>3, <2>5 DEF Typed, ManagerStep
<1>3. ASSUME Lookup(r) PROVE Typed
  <2>1. key[r] \in Keys
    BY <1>0, <1>3 DEF Lookup, Goto, Stage
  <2>2. Get(key[r]) /\ UNCHANGED <<key, long, lease, attempt>>
    BY <1>3 DEF Lookup
  <2>3. SessionInv' /\ nextConv' = nextConv
    BY <2>2, TimeKeeps
  <2>4. Drawn' = Drawn /\ Drawn \subseteq Nat \ {0}
    BY <1>0, <2>3, DrawnGrows
  <2>5. CASE Found(key[r]) /\ ~(items[key[r]].long /\ ~long[r])
    <3>1. Becomes(r, "acquire", key[r], items[key[r]].conv, items[key[r]].account, lease[r])
      BY <1>3, <2>2, <2>5 DEF Lookup, Goto, Take, Becomes, LocalInv
    <3>2. items[key[r]].conv \in Drawn /\ items[key[r]].account \in Accounts \union {NoAccount}
      BY <2>1, <2>5, ReturnedBindings DEF Binding
    <3>3. Stage("acquire", key[r], items[key[r]].conv, lease[r]) /\ "acquire" \in Places
      BY <2>4, <3>2 DEF Stage, Places
    <3> QED
      BY <1>0, <2>1, <2>2, <2>3, <2>4, <3>1, <3>2, <3>3, BecomesKeeps DEF LocalInv, Typed, ManagerStep
  <2>6. CASE ~(Found(key[r]) /\ ~(items[key[r]].long /\ ~long[r]))
    <3>1. PICK to \in {"clientCompacted", "ensure"} :
            Becomes(r, to, key[r], conv[r], bound[r], lease[r])
      BY <1>3, <2>2, <2>6 DEF Lookup, Goto, Becomes, LocalInv
    <3>2. Stage(to, key[r], conv[r], lease[r]) /\ to \in Places
      BY <2>1, KeyAssumption DEF Stage, Places
    <3> QED
      BY <1>0, <2>1, <2>2, <2>3, <2>4, <3>1, <3>2, BecomesKeeps DEF LocalInv, Typed, ManagerStep
  <2> QED
    BY <2>5, <2>6
<1> QED
  BY <1>1, <1>2, <1>3 DEF Prepare
(* A step that leaves the manager alone.                                   *)
LEMMA QuietTyped ==
  ASSUME SessionInv, UNCHANGED sessionVars
  PROVE  SessionInv' /\ ManagerStep /\ Drawn' = Drawn
  BY DEF SessionInv, SessionTypeOK, sessionVars, Drawn, ManagerStep, Binding

(* The steps of an attempt.                                                *)
LEMMA AttemptTyped ==
  ASSUME SessionInv, LocalInv, NEW r \in Requests, Attempt(r)
  PROVE  Typed
<1>0. /\ Stage(pc[r], key[r], conv[r], lease[r])
      /\ lease[r] \in Accounts \union {NoAccount} /\ key[r] \in Keys \union {NoKey}
      /\ bound[r] \in Accounts \union {NoAccount} /\ conv[r] \in {0} \union Drawn
      /\ nextConv \in Nat \ {0} /\ pc[r] \in Places
      /\ long \in [Requests -> BOOLEAN] /\ attempt \in [Requests -> 1..MaxSendAttempts]
  BY DEF LocalInv, SessionInv, SessionTypeOK
<1>1. ASSUME AcquireFails(r) \/ Fails(r) PROVE Typed
  <2>1. Becomes(r, "idle", NoKey, 0, NoAccount, NoAccount) /\ UNCHANGED sessionVars
        /\ long' \in [Requests -> BOOLEAN] /\ attempt' \in [Requests -> 1..MaxSendAttempts]
    <3>1. 1 \in 1..MaxSendAttempts
      BY AttemptAssumption
    <3>2. Leave(r) /\ pc' = [pc EXCEPT ![r] = "idle"] /\ UNCHANGED sessionVars
      BY <1>1 DEF AcquireFails, Fails, Goto
    <3> QED
      BY <1>0, <3>1, <3>2 DEF Leave, Becomes
  <2>2. Stage("idle", NoKey, 0, NoAccount) /\ "idle" \in Places
    BY DEF Stage, Places
  <2> QED
    BY <2>1, <2>2, QuietTyped, BecomesKeeps DEF Typed
<1>2. ASSUME NEW a \in Accounts, Acquire(r, a) PROVE Typed
  <2>1. PICK to \in {"send", "changed", "bind"} : Goto(r, "acquire", to) /\ (to # "send" => Sticky(r))
    BY <1>2 DEF Acquire, AfterAcquire
  <2>2. Becomes(r, to, key[r], conv[r], bound[r], a) /\ UNCHANGED <<sessionVars, long, attempt>>
    BY <1>2, <2>1 DEF Acquire, Goto, Becomes, LocalInv
  <2>3. Stage(to, key[r], conv[r], a) /\ to \in Places
    BY <1>0, <2>1 DEF Stage, Places, Goto, Sticky
  <2> QED
    BY <1>0, <2>2, <2>3, QuietTyped, BecomesKeeps DEF Typed, sessionVars
<1>3. ASSUME AccountChanged(r) PROVE Typed
  <2>1. key[r] \in Keys /\ lease[r] \in Accounts
    BY <1>0, <1>3 DEF AccountChanged, Goto, Stage
  <2>2. Rotate(key[r]) /\ Becomes(r, "bind", key[r], Rotated(key[r]).conv, Rotated(key[r]).account, lease[r])
        /\ UNCHANGED <<long, attempt>>
    BY <1>3 DEF AccountChanged, Goto, Take, Becomes, LocalInv
  <2>3. SessionInv' /\ Rotated(key[r]).conv \in Drawn' /\ Drawn \subseteq Drawn' /\ Drawn' \subseteq Nat \ {0}
        /\ Rotated(key[r]).account \in Accounts \union {NoAccount}
    BY <1>0, <2>1, <2>2, RotateKeeps, DrawnGrows
  <2>4. Stage("bind", key[r], Rotated(key[r]).conv, lease[r]) /\ "bind" \in Places
    BY <2>1, <2>3, KeyAssumption DEF Stage, Places
  <2>5. LocalInv'
    BY <1>0, <2>2, <2>3, <2>4, BecomesKeeps
  <2> QED
    BY <2>1, <2>2, <2>3, <2>5 DEF Typed, ManagerStep
<1>4. ASSUME Bind(r) PROVE Typed
  <2>1. key[r] \in Keys /\ lease[r] \in Accounts /\ conv[r] \in Drawn /\ Drawn \subseteq Nat \ {0}
    BY <1>0, <1>4, DrawnFacts DEF Bind, Goto, Stage
  <2>2. Update(key[r], conv[r], lease[r], long[r]) /\ nextConv' = nextConv /\ UNCHANGED <<long, attempt>>
    BY <1>4 DEF Bind
  <2>3. PICK b \in {lease[r], bound[r]} : Becomes(r, "send", key[r], conv[r], b, lease[r])
    BY <1>4 DEF Bind, Goto, Becomes, LocalInv
  <2>4. Drawn' = Drawn
    BY <1>0, <2>2, DrawnGrows
  <2>5. SessionInv'
    BY <1>0, <2>1, <2>2, <2>4, UpdateKeeps
  <2>6. Stage("send", key[r], conv[r], lease[r]) /\ "send" \in Places
    BY <2>1 DEF Stage, Places
  <2>7. LocalInv'
    BY <1>0, <2>2, <2>3, <2>4, <2>6, BecomesKeeps
  <2> QED
    BY <1>0, <2>1, <2>2, <2>5, <2>7 DEF Typed, ManagerStep
<1>5. ASSUME Send(r) \/ Succeeds(r) PROVE Typed
  <2>1. PICK to \in {"sent", "store", "finish"} : pc' = [pc EXCEPT ![r] = to] /\ (to = "store" => Sticky(r))
    BY <1>5 DEF Send, Succeeds, Goto
  <2>2. Becomes(r, to, key[r], conv[r], bound[r], lease[r]) /\ UNCHANGED <<sessionVars, long, attempt>>
    BY <1>5, <2>1 DEF Send, Succeeds, Becomes, LocalInv, locals
  <2>3. Stage(to, key[r], conv[r], lease[r]) /\ to \in Places
    BY <1>0, <1>5, <2>1 DEF Send, Succeeds, Goto, Stage, Places, Sticky
  <2> QED
    BY <1>0, <2>2, <2>3, QuietTyped, BecomesKeeps DEF Typed, sessionVars
<1>6. ASSUME Retry(r) PROVE Typed
  <2>1. Becomes(r, "acquire", key[r], conv[r], bound[r], NoAccount) /\ UNCHANGED <<sessionVars, long>>
    BY <1>6 DEF Retry, Goto, Becomes, LocalInv
  <2>2. attempt' \in [Requests -> 1..MaxSendAttempts]
    <3>1. attempt[r] \in 1..MaxSendAttempts /\ attempt[r] < MaxSendAttempts
      BY <1>0, <1>6 DEF Retry
    <3>2. attempt[r] + 1 \in 1..MaxSendAttempts
      BY <3>1, AttemptAssumption
    <3> QED
      BY <1>0, <1>6, <3>2 DEF Retry
  <2>3. Stage("acquire", key[r], conv[r], NoAccount) /\ "acquire" \in Places
    BY <1>0, <1>6 DEF Retry, Goto, Stage, Places
  <2> QED
    BY <1>0, <2>1, <2>2, <2>3, QuietTyped, BecomesKeeps DEF Typed, sessionVars
<1> QED
  BY <1>1, <1>2, <1>3, <1>4, <1>5, <1>6 DEF Attempt

(* The steps after the last one.                                           *)
LEMMA ConcludeTyped ==
  ASSUME SessionInv, LocalInv, NEW r \in Requests, Conclude(r)
  PROVE  Typed
<1>0. /\ Stage(pc[r], key[r], conv[r], lease[r])
      /\ lease[r] \in Accounts \union {NoAccount} /\ key[r] \in Keys \union {NoKey}
      /\ bound[r] \in Accounts \union {NoAccount} /\ conv[r] \in {0} \union Drawn
      /\ nextConv \in Nat \ {0}
      /\ long \in [Requests -> BOOLEAN] /\ attempt \in [Requests -> 1..MaxSendAttempts]
  BY DEF LocalInv, SessionInv, SessionTypeOK
<1>1. ASSUME Store(r) PROVE Typed
  <2>1. key[r] \in Keys /\ lease[r] \in Accounts /\ conv[r] \in Drawn
    BY <1>0, <1>1 DEF Store, Goto, Stage
  <2>2. PICK c \in {conv[r], nextConv} :
          /\ Update(key[r], c, lease[r], long[r])
          /\ nextConv' = (IF c = nextConv THEN nextConv + 1 ELSE nextConv)
    <3>1. conv[r] # nextConv
      BY <1>0, <2>1, DrawnFacts
    <3> QED
      BY <1>1, <3>1 DEF Store
  <2>3. nextConv' \in {nextConv, nextConv + 1} /\ c \in Drawn' /\ Drawn \subseteq Drawn' /\ c \in Nat
    BY <1>0, <2>1, <2>2, DrawnGrows, DrawnFacts
  <2>4. SessionInv'
    BY <1>0, <2>1, <2>2, <2>3, UpdateKeeps
  <2>5. PICK to \in {"rotate", "finish"} :
          Becomes(r, to, key[r], conv[r], bound[r], lease[r]) /\ UNCHANGED <<long, attempt>>
    BY <1>1 DEF Store, Goto, Becomes, LocalInv, locals
  <2>6. Stage(to, key[r], conv[r], lease[r]) /\ to \in Places
    BY <1>0, <1>1, <2>5 DEF Store, Goto, Stage, Places
  <2>7. LocalInv'
    BY <1>0, <2>3, <2>5, <2>6, BecomesKeeps
  <2> QED
    BY <1>0, <2>1, <2>2, <2>3, <2>4, <2>7 DEF Typed, ManagerStep
<1>2. ASSUME CompactAfterwards(r) PROVE Typed
  <2>1. key[r] \in Keys /\ lease[r] \in Accounts
    BY <1>0, <1>2 DEF CompactAfterwards, Goto, Stage
  <2>2. Rotate(key[r]) /\ Becomes(r, "finish", key[r], conv[r], bound[r], lease[r])
        /\ UNCHANGED <<long, attempt>>
    BY <1>2 DEF CompactAfterwards, Goto, Becomes, LocalInv, locals
  <2>3. SessionInv' /\ Drawn \subseteq Drawn'
    BY <1>0, <2>1, <2>2, RotateKeeps, DrawnGrows
  <2>4. Stage("finish", key[r], conv[r], lease[r]) /\ "finish" \in Places
    BY <1>0, <1>2 DEF CompactAfterwards, Goto, Stage, Places
  <2>5. LocalInv'
    BY <1>0, <2>2, <2>3, <2>4, BecomesKeeps
  <2> QED
    BY <2>1, <2>2, <2>3, <2>5 DEF Typed, ManagerStep
<1>3. ASSUME Finish(r) PROVE Typed
  <2>1. Becomes(r, "idle", NoKey, 0, NoAccount, NoAccount) /\ UNCHANGED sessionVars
        /\ long' \in [Requests -> BOOLEAN] /\ attempt' \in [Requests -> 1..MaxSendAttempts]
    BY <1>0, <1>3, AttemptAssumption DEF Finish, Leave, Goto, Becomes
  <2>2. Stage("idle", NoKey, 0, NoAccount) /\ "idle" \in Places
    BY DEF Stage, Places
  <2> QED
    BY <2>1, <2>2, QuietTyped, BecomesKeeps DEF Typed
<1> QED
  BY <1>1, <1>2, <1>3 DEF Conclude
-----------------------------------------------------------------------------
(* Type correctness.                                                       *)

TypeInv ==
  /\ SettleInv
  /\ SessionInv
  /\ LocalInv
  /\ stats \in [total : 0..MaxRequests, success : Nat, failed : Nat]
  /\ sent \subseteq (Keys \X Drawn \X Accounts)

(* The types at the start.                                                 *)
LEMMA TypeInit == Init => TypeInv
<1> SUFFICES ASSUME Init PROVE TypeInv
  OBVIOUS
<1>1. SessionInv
  BY DEF Init, SessionInit, SessionInv, SessionTypeOK
<1>2. LocalInv
  BY AttemptAssumption DEF Init, LocalInv, Stage, Places
<1>3. stats \in [total : 0..MaxRequests, success : Nat, failed : Nat]
  BY RequestsAssumption DEF Init
<1> QED
  BY <1>1, <1>2, <1>3, SettleInit DEF Init, TypeInv

(* What the manager and the locals go through.                             *)
LEMMA NextTyped == TypeInv /\ [Next]_vars => Typed
<1> SUFFICES ASSUME TypeInv, [Next]_vars PROVE Typed
  OBVIOUS
<1>0. SessionInv /\ LocalInv
  BY DEF TypeInv
<1>1. ASSUME NEW r \in Requests, Handle(r) PROVE Typed
  BY <1>0, <1>1, PrepareTyped, AttemptTyped, ConcludeTyped DEF Handle
<1>2. ASSUME NEW r \in Requests, NEW k \in Keys \union {NoKey},
             NEW isLong \in BOOLEAN, NEW compact \in BOOLEAN, Arrive(r, k, isLong, compact)
      PROVE  Typed
  <2>1. PICK to \in {"acquire", "compact", "get"} :
          Goto(r, "idle", to) /\ (k = NoKey <=> to = "acquire")
    BY <1>2 DEF Arrive
  <2>2. Becomes(r, to, k, conv[r], bound[r], lease[r])
        /\ UNCHANGED <<sessionVars, attempt>> /\ long' \in [Requests -> BOOLEAN]
    BY <1>0, <1>2, <2>1 DEF Arrive, Goto, Becomes, LocalInv
  <2>3. /\ lease[r] \in Accounts \union {NoAccount} /\ bound[r] \in Accounts \union {NoAccount}
        /\ conv[r] \in {0} \union Drawn /\ attempt \in [Requests -> 1..MaxSendAttempts]
    BY <1>0 DEF LocalInv
  <2>4. Stage(to, k, conv[r], lease[r]) /\ to \in Places
    BY <2>1 DEF Stage, Places
  <2> QED
    BY <1>0, <2>2, <2>3, <2>4, QuietTyped, BecomesKeeps DEF Typed, sessionVars
<1>3. ASSUME Rejected \/ UNCHANGED vars PROVE Typed
  <2>1. UNCHANGED <<sessionVars, pc, locals>>
    BY <1>3 DEF Rejected, vars
  <2> QED
    BY <1>0, <2>1, QuietTyped DEF Typed, LocalInv, locals
<1>4. ASSUME TimePasses \/ SweepSessions PROVE Typed
  <2>1. UNCHANGED <<pc, locals>>
    BY <1>4 DEF TimePasses, SweepSessions
  <2>2. SessionInv' /\ nextConv' = nextConv
    BY <1>0, <1>4, TimeKeeps DEF TimePasses, SweepSessions
  <2>3. Drawn' = Drawn
    BY <2>2 DEF Drawn
  <2>4. ManagerStep
    <3>1. CASE SweepSessions
      BY <3>1 DEF SweepSessions, ManagerStep
    <3>2. CASE TimePasses
      <4>1. InUse \intersect DOMAIN items \subseteq Keys
        BY <1>0 DEF SessionInv, SessionTypeOK
      <4> DEFINE S == IF SlowRequests THEN {} ELSE InUse
      <4>2. Tick(S)
        BY <3>2 DEF TimePasses
      <4>3. Tick(S \intersect Keys)
        BY <4>2 DEF Tick
      <4> HIDE DEF S
      <4> QED
        BY <4>3 DEF ManagerStep
    <3> QED
      BY <1>4, <3>1, <3>2
  <2> QED
    BY <1>0, <2>1, <2>2, <2>3, <2>4 DEF Typed, LocalInv, locals
<1> QED
  BY <1>1, <1>2, <1>3, <1>4 DEF Next

(* Requests arrive up to the bound, and one that ends is counted.          *)
LEMMA StatsTyped ==
  ASSUME TypeInv, [Next]_vars
  PROVE  stats' \in [total : 0..MaxRequests, success : Nat, failed : Nat]
<1>0. stats \in [total : 0..MaxRequests, success : Nat, failed : Nat] /\ MaxRequests \in Nat
  BY RequestsAssumption DEF TypeInv
<1>1. CASE stats' = stats
  BY <1>0, <1>1
<1>2. ASSUME stats.total < MaxRequests,
             \/ stats' = [stats EXCEPT !.total = @ + 1]
             \/ stats' = [stats EXCEPT !.total = @ + 1, !.failed = @ + 1]
      PROVE  stats' \in [total : 0..MaxRequests, success : Nat, failed : Nat]
  <2>1. stats.total + 1 \in 0..MaxRequests /\ stats.failed + 1 \in Nat
    BY <1>0, <1>2
  <2>2. [stats EXCEPT !.total = @ + 1] \in [total : 0..MaxRequests, success : Nat, failed : Nat]
    BY <1>0, <2>1
  <2>3. CASE stats' = [stats EXCEPT !.total = @ + 1, !.failed = @ + 1]
    <3>1. stats' = [[stats EXCEPT !.total = @ + 1] EXCEPT !.failed = stats.failed + 1]
      BY <1>0, <2>3
    <3> QED
      BY <2>1, <2>2, <3>1
  <2> QED
    BY <1>2, <2>2, <2>3
<1>3. CASE RecordSuccess \/ RecordFailure
  BY <1>0, <1>3 DEF RecordSuccess, RecordFailure
<1>4. ASSUME NEW r \in Requests, Handle(r)
      PROVE  stats' = stats \/ RecordSuccess \/ RecordFailure
  <2>1. CASE Prepare(r)
    BY <2>1 DEF Prepare, CompactManually, Lookup, CompactForClient, Create
  <2>2. CASE Attempt(r)
    BY <2>2 DEF Attempt, AcquireFails, Acquire, AccountChanged, Bind, Send, Retry, Fails, Succeeds
  <2>3. CASE Conclude(r)
    BY <2>3 DEF Conclude, Store, CompactAfterwards, Finish
  <2> QED
    BY <1>4, <2>1, <2>2, <2>3 DEF Handle
<1>5. CASE TimePasses \/ SweepSessions \/ UNCHANGED vars
  BY <1>1, <1>5 DEF TimePasses, SweepSessions, vars
<1>6. CASE Rejected
  BY <1>2, <1>6 DEF Rejected
<1>7. ASSUME NEW r \in Requests, NEW k \in Keys \union {NoKey},
             NEW isLong \in BOOLEAN, NEW compact \in BOOLEAN, Arrive(r, k, isLong, compact)
      PROVE  stats' \in [total : 0..MaxRequests, success : Nat, failed : Nat]
  BY <1>2, <1>7 DEF Arrive
<1> QED
  BY <1>1, <1>3, <1>4, <1>5, <1>6, <1>7 DEF Next

(* What is sent, by one step, and by which.                                *)
LEMMA SentSteps ==
  ASSUME [Next]_vars
  PROVE  sent' = sent \/ \E r \in Requests : Send(r)
<1>1. ASSUME NEW r \in Requests, Handle(r) PROVE sent' = sent \/ Send(r)
  <2>1. CASE Prepare(r)
    BY <2>1 DEF Prepare, CompactManually, Lookup, CompactForClient, Create
  <2>2. CASE Attempt(r)
    BY <2>2 DEF Attempt, AcquireFails, Acquire, AccountChanged, Bind, Retry, Fails, Succeeds
  <2>3. CASE Conclude(r)
    BY <2>3 DEF Conclude, Store, CompactAfterwards, Finish
  <2> QED
    BY <1>1, <2>1, <2>2, <2>3 DEF Handle
<1> QED
  BY <1>1 DEF Next, Rejected, Arrive, TimePasses, SweepSessions, vars

(* A step draws at most one conversation.                                  *)
LEMMA NextMayDraw ==
  ASSUME [Next]_vars
  PROVE  nextConv' \in {nextConv, nextConv + 1}
<1>1. ASSUME NEW r \in Requests, Handle(r) PROVE nextConv' \in {nextConv, nextConv + 1}
  <2>1. CASE Prepare(r)
    BY <2>1 DEF Prepare, CompactManually, Lookup, CompactForClient, Create, Rotate, Get, Ensure
  <2>2. CASE Attempt(r)
    BY <2>2 DEF Attempt, AcquireFails, Acquire, AccountChanged, Rotate, Bind, Send, Retry, Fails,
                Succeeds, sessionVars
  <2>3. CASE Conclude(r)
    BY <2>3 DEF Conclude, Store, CompactAfterwards, Rotate, Finish, sessionVars
  <2> QED
    BY <1>1, <2>1, <2>2, <2>3 DEF Handle
<1> QED
  BY <1>1 DEF Next, Rejected, Arrive, TimePasses, SweepSessions, Tick, Sweep, vars, sessionVars

(* Every step keeps the types.                                             *)
LEMMA TypeStep == TypeInv /\ [Next]_vars => TypeInv'
<1> SUFFICES ASSUME TypeInv, [Next]_vars PROVE TypeInv'
  OBVIOUS
<1>1. SettleInv'
  BY SettleStep DEF TypeInv
<1>2. SessionInv' /\ LocalInv'
  BY NextTyped DEF Typed
<1>3. stats' \in [total : 0..MaxRequests, success : Nat, failed : Nat]
  BY StatsTyped
<1>4. sent' \subseteq (Keys \X Drawn' \X Accounts)
  <2>1. nextConv' \in {nextConv, nextConv + 1} => Drawn \subseteq Drawn'
    BY DrawnGrows DEF TypeInv, SessionInv, SessionTypeOK
  <2>2. nextConv' \in {nextConv, nextConv + 1}
    BY NextMayDraw
  <2>3. ASSUME NEW r \in Requests, Send(r), Sticky(r)
        PROVE  <<key[r], conv[r], lease[r]>> \in Keys \X Drawn \X Accounts
    BY <2>3 DEF TypeInv, LocalInv, Stage, Send, Goto, Sticky
  <2>4. ASSUME NEW r \in Requests, Send(r)
        PROVE  sent' \subseteq (Keys \X Drawn \X Accounts)
    BY <2>3, <2>4 DEF Send, TypeInv
  <2>5. sent' \subseteq (Keys \X Drawn \X Accounts)
    BY <2>4, SentSteps DEF TypeInv
  <2> QED
    BY <2>1, <2>2, <2>5
<1> QED
  BY <1>1, <1>2, <1>3, <1>4 DEF TypeInv
(* Every variable of the service and of its sessions keeps its type, for   *)
(* any requests, sessions, accounts and limits.                            *)
THEOREM ChatTypeCorrect == Spec => []TypeOK
<1>1. TypeInv => TypeOK
  <2> SUFFICES ASSUME TypeInv PROVE TypeOK
    OBVIOUS
  <2>1. ASSUME NEW r \in Requests PROVE owed[r] \in [reports : {0, 1}, logs : {0, 1}]
    <3>1. owed[r] = Owes(r)
      BY DEF TypeInv, SettleInv
    <3>2. Owes(r) \in {[reports |-> 1, logs |-> 1], [reports |-> 0, logs |-> 1],
                       [reports |-> 0, logs |-> 0]}
      BY Zenon DEF Owes
    <3> QED
      BY <3>1, <3>2
  <2>2. owed \in [Requests -> [reports : {0, 1}, logs : {0, 1}]]
    BY <2>1 DEF TypeInv, SettleInv
  <2> QED
    BY <2>2 DEF TypeInv, TypeOK, SettleInv, SessionInv, LocalInv
<1> QED
  BY <1>1, TypeInit, TypeStep, PTL DEF Spec

-----------------------------------------------------------------------------
(* The manager starts empty.                                               *)
LEMMA BoundedInit == Init => Bounded
<1> SUFFICES ASSUME Init PROVE Bounded
  OBVIOUS
<1>1. DOMAIN items = {}
  BY DEF Init, SessionInit
<1> QED
  BY <1>1, FS_EmptySet, MaxEntriesAssumption DEF Bounded, SessionsBounded

(* However requests interleave, sessions expire and are evicted, and the   *)
(* limit is, the manager never holds more than that.                       *)
THEOREM SessionsAlwaysBounded == Spec => []SessionsBounded
<1>1. TypeInv /\ Bounded /\ [Next]_vars => Bounded'
  BY NextTyped, ManagerBounds DEF Typed
<1>2. Bounded => SessionsBounded
  BY DEF Bounded
<1> QED
  BY <1>1, <1>2, BoundedInit, TypeInit, TypeStep, PTL DEF Spec
-----------------------------------------------------------------------------
(* Who may come to send conversation c: the session that has it, a request *)
(* of the session that took it, or one that has sent it.                   *)

Claimed(k, c) ==
  \/ k \in DOMAIN items /\ items[k].conv = c
  \/ \E r \in Requests : key[r] = k /\ conv[r] = c
  \/ \E s \in sent : s[1] = k /\ s[2] = c

PrivateInv == \A k, m \in Keys : \A c \in Drawn : Claimed(k, c) /\ Claimed(m, c) => k = m

(* A step lets at most one session claim one conversation, one that the    *)
(* session has claimed before or that is drawn now.                        *)
ClaimStep(K, d) ==
  /\ d = nextConv \/ Claimed(K, d)
  /\ \A k \in DOMAIN items' :
       (k \in DOMAIN items /\ items'[k].conv = items[k].conv) \/ (k = K /\ items'[k].conv = d)
  /\ \A q \in Requests :
       (key'[q] = key[q] /\ conv'[q] = conv[q]) \/ (key'[q] = K /\ conv'[q] = d) \/ conv'[q] = 0
  /\ \A s \in sent' : s \in sent \/ (s[1] = K /\ s[2] = d)

(* A step that claims one conversation for one session.                    *)
LEMMA ClaimStepKeeps ==
  ASSUME TypeInv, TypeInv', PrivateInv, NEW K, NEW d, ClaimStep(K, d)
  PROVE  PrivateInv'
<1>0. nextConv \in Nat \ {0} /\ nextConv' \in Nat \ {0}
  BY DEF TypeInv, SessionInv, SessionTypeOK
<1>1. ASSUME NEW k \in Keys, NEW c \in Drawn', Claimed(k, c)'
      PROVE  Claimed(k, c) \/ (k = K /\ c = d)
  <2>1. c # 0
    BY <1>0, <1>1 DEF Drawn
  <2> QED
    BY <1>1, <2>1 DEF ClaimStep, Claimed
<1>2. ASSUME NEW k \in Keys, NEW c, c # 0, Claimed(k, c)
      PROVE  c \in Drawn
  BY <1>2 DEF Claimed, TypeInv, SessionInv, LocalInv
<1>3. nextConv \notin Drawn
  BY <1>0, DrawnFacts
<1>4. SUFFICES ASSUME NEW k \in Keys, NEW m \in Keys, NEW c \in Drawn', Claimed(k, c)', Claimed(m, c)'
      PROVE  k = m
  BY DEF PrivateInv
<1>5. c # 0
  BY <1>0, <1>4 DEF Drawn
<1>6. CASE Claimed(k, c) /\ Claimed(m, c)
  BY <1>2, <1>5, <1>6 DEF PrivateInv
<1>7. CASE k = K /\ c = d /\ m = K
  BY <1>7
<1>8. CASE k = K /\ c = d /\ Claimed(m, c)
  <2>1. c \in Drawn
    BY <1>2, <1>5, <1>8
  <2>2. Claimed(K, d)
    BY <1>3, <1>8, <2>1 DEF ClaimStep
  <2> QED
    BY <1>8, <2>1, <2>2 DEF PrivateInv
<1>9. CASE m = K /\ c = d /\ Claimed(k, c)
  <2>1. c \in Drawn
    BY <1>2, <1>5, <1>9
  <2>2. Claimed(K, d)
    BY <1>3, <1>9, <2>1 DEF ClaimStep
  <2> QED
    BY <1>9, <2>1, <2>2 DEF PrivateInv
<1> QED
  BY <1>1, <1>4, <1>6, <1>7, <1>8, <1>9

(* A call of the manager that writes binding b, by a request that takes    *)
(* the conversation of b or keeps its own.                                 *)
LEMMA WriteClaims ==
  ASSUME NEW K, NEW b, Writes(K, b) \/ Shrinks, b.conv = nextConv \/ Claimed(K, b.conv),
         UNCHANGED sent,
         \A q \in Requests :
           (key'[q] = key[q] /\ conv'[q] = conv[q]) \/ (key'[q] = K /\ conv'[q] = b.conv)
  PROVE  ClaimStep(K, b.conv)
<1>1. DOMAIN Unexpired \subseteq DOMAIN items
  BY UnexpiredFacts
<1> QED
  BY <1>1 DEF ClaimStep, Writes, Shrinks

(* Every step of a handler is one.                                         *)
LEMMA HandleClaims ==
  ASSUME TypeInv, NEW r \in Requests, Handle(r)
  PROVE  \E K, d : ClaimStep(K, d)
<1>0. SessionInv /\ LocalInv /\ Stage(pc[r], key[r], conv[r], lease[r])
      /\ key \in [Requests -> Keys \union {NoKey}] /\ conv \in [Requests -> {0} \union Drawn]
  BY DEF TypeInv, LocalInv
<1>1. ASSUME CompactManually(r) \/ CompactForClient(r) \/ AccountChanged(r) \/ CompactAfterwards(r)
      PROVE  \E K, d : ClaimStep(K, d)
  <2>1. Rotate(key[r]) /\ UNCHANGED <<key, sent>>
        /\ (conv' = [conv EXCEPT ![r] = Rotated(key[r]).conv] \/ conv' = conv)
    BY <1>1 DEF CompactManually, CompactForClient, AccountChanged, CompactAfterwards, Take, locals
  <2>2. key[r] \in Keys
    BY <1>0, <1>1 DEF CompactManually, CompactForClient, AccountChanged, CompactAfterwards, Goto, Stage
  <2>3. Writes(key[r], Rotated(key[r])) /\ Rotated(key[r]).conv = nextConv
    BY <1>0, <2>1, <2>2, RotateWrites, ReturnedBindings
  <2>4. ClaimStep(key[r], Rotated(key[r]).conv)
    BY <1>0, <2>1, <2>3, WriteClaims
  <2> QED
    BY <2>4
<1>2. ASSUME Create(r) PROVE \E K, d : ClaimStep(K, d)
  <2>1. Ensure(key[r]) /\ UNCHANGED <<key, sent>> /\ conv' = [conv EXCEPT ![r] = Ensured(key[r]).conv]
    BY <1>2 DEF Create, Take
  <2>2. key[r] \in Keys
    BY <1>0, <1>2 DEF Create, Goto, Stage
  <2>3. Writes(key[r], Ensured(key[r]))
        /\ (Ensured(key[r]).conv = nextConv \/ Claimed(key[r], Ensured(key[r]).conv))
    BY <1>0, <2>1, <2>2, EnsureWrites, ReturnedBindings DEF Claimed
  <2>4. ClaimStep(key[r], Ensured(key[r]).conv)
    BY <1>0, <2>1, <2>3, WriteClaims
  <2> QED
    BY <2>4
<1>3. ASSUME Lookup(r) PROVE \E K, d : ClaimStep(K, d)
  <2>1. Get(key[r]) /\ UNCHANGED <<key, sent>>
    BY <1>3 DEF Lookup
  <2>2. Shrinks
    BY <2>1, SweepShrinks
  <2>3. CASE conv' = conv
    BY <2>1, <2>2, <2>3 DEF ClaimStep, Shrinks
  <2>4. CASE Found(key[r]) /\ conv' = [conv EXCEPT ![r] = items[key[r]].conv]
    <3>1. Claimed(key[r], items[key[r]].conv)
      BY <2>4, UnexpiredFacts DEF Found, Claimed
    <3>2. ClaimStep(key[r], items[key[r]].conv)
      BY <1>0, <2>1, <2>2, <2>4, <3>1, WriteClaims
    <3> QED
      BY <3>2
  <2> QED
    BY <1>3, <2>3, <2>4 DEF Lookup, Take
<1>4. ASSUME Bind(r) \/ Store(r) PROVE \E K, d : ClaimStep(K, d)
  <2>1. PICK c \in {conv[r], nextConv} : Update(key[r], c, lease[r], long[r])
    BY <1>4 DEF Bind, Store
  <2>2. UNCHANGED <<key, conv, sent>>
    BY <1>4 DEF Bind, Store, locals
  <2>3. Updated(key[r], c, lease[r], long[r]).conv = c
    BY DEF Updated
  <2>4. Writes(key[r], Updated(key[r], c, lease[r], long[r])) \/ Shrinks
    BY <2>1, UpdateWrites
  <2>5. c = nextConv \/ Claimed(key[r], c)
    BY DEF Claimed
  <2>6. ClaimStep(key[r], c)
    BY <2>2, <2>3, <2>4, <2>5, WriteClaims
  <2> QED
    BY <2>6
<1>5. ASSUME Send(r) PROVE \E K, d : ClaimStep(K, d)
  <2>1. Claimed(key[r], conv[r])
    BY DEF Claimed
  <2>2. ClaimStep(key[r], conv[r])
    BY <1>5, <2>1 DEF Send, ClaimStep, sessionVars, locals
  <2> QED
    BY <2>2
<1>6. ASSUME UNCHANGED sessionVars, UNCHANGED sent, UNCHANGED <<key, conv>> \/ Leave(r)
      PROVE  \E K, d : ClaimStep(K, d)
  <2>1. ClaimStep(NoKey, nextConv)
    BY <1>0, <1>6 DEF ClaimStep, Leave, sessionVars
  <2> QED
    BY <2>1
<1>7. CASE Prepare(r)
  BY <1>1, <1>2, <1>3, <1>7 DEF Prepare
<1>8. CASE Attempt(r)
  BY <1>1, <1>4, <1>5, <1>6, <1>8 DEF Attempt, AcquireFails, Acquire, Retry, Fails, Succeeds, locals
<1>9. CASE Conclude(r)
  BY <1>1, <1>4, <1>6, <1>9 DEF Conclude, Finish
<1> QED
  BY <1>7, <1>8, <1>9 DEF Handle

(* Every step is one.                                                      *)
LEMMA NextClaims ==
  ASSUME TypeInv, [Next]_vars
  PROVE  \E K, d : ClaimStep(K, d)
<1>0. SessionInv /\ LocalInv
  BY DEF TypeInv
<1>1. ASSUME NEW r \in Requests, Handle(r) PROVE \E K, d : ClaimStep(K, d)
  BY <1>1, HandleClaims
<1>2. ASSUME UNCHANGED sessionVars, UNCHANGED sent,
             \A q \in Requests : (key'[q] = key[q] \/ conv'[q] = 0) /\ conv'[q] = conv[q]
      PROVE  \E K, d : ClaimStep(K, d)
  <2>1. ClaimStep(NoKey, nextConv)
    BY <1>2 DEF ClaimStep, sessionVars
  <2> QED
    BY <2>1
<1>3. ASSUME NEW r \in Requests, NEW k \in Keys \union {NoKey},
             NEW isLong \in BOOLEAN, NEW compact \in BOOLEAN, Arrive(r, k, isLong, compact)
      PROVE  \E K, d : ClaimStep(K, d)
  <2>1. conv[r] = 0 /\ key \in [Requests -> Keys \union {NoKey}]
    BY <1>0, <1>3 DEF Arrive, Goto, LocalInv, Stage
  <2> QED
    BY <1>2, <1>3, <2>1 DEF Arrive
<1>4. ASSUME Rejected \/ UNCHANGED vars PROVE \E K, d : ClaimStep(K, d)
  BY <1>2, <1>4 DEF Rejected, vars, locals
<1>5. ASSUME TimePasses \/ SweepSessions PROVE \E K, d : ClaimStep(K, d)
  <2>1. \A k \in DOMAIN items' : k \in DOMAIN items /\ items'[k].conv = items[k].conv
    BY <1>0, <1>5, TickAges, SweepShrinks DEF TimePasses, SweepSessions, Shrinks, SessionInv
  <2>2. ClaimStep(NoKey, nextConv)
    BY <1>5, <2>1 DEF ClaimStep, TimePasses, SweepSessions, locals
  <2> QED
    BY <2>2
<1> QED
  BY <1>1, <1>3, <1>4, <1>5 DEF Next

-----------------------------------------------------------------------------
(* One request after another, as the tests of the service run them: what   *)
(* a rotation promises.                                                    *)

Sequential == \A q, r \in Requests : q = r

(* The places where a request may still send or store its conversation.    *)
Holding == {"acquire", "changed", "bind", "send", "sent", "store"}

RotateInv ==
  /\ CompactionRotates
  /\ \A r \in Requests : pc[r] \in Holding => conv[r] \notin retired

(* A rotation retires a conversation that no other session has.            *)
LEMMA RotationIsFresh ==
  ASSUME TypeInv, PrivateInv, CompactionRotates, NEW K \in Keys, Rotate(K)
  PROVE  CompactionRotates' /\ Rotated(K).conv \notin retired'
<1>0. SessionInv /\ retired \subseteq Drawn /\ nextConv \in Nat \ {0}
  BY DEF TypeInv, SessionInv, SessionTypeOK
<1>1. Writes(K, Rotated(K)) /\ Rotated(K).conv = nextConv
  BY <1>0, RotateWrites, ReturnedBindings
<1>2. retired' = IF Found(K) THEN retired \union {items[K].conv} ELSE retired
  BY DEF Rotate
<1>3. Found(K) => K \in DOMAIN items /\ items[K].conv \in Drawn
  BY <1>0, ReturnedBindings
<1>4. nextConv \notin retired'
  BY <1>0, <1>2, <1>3, DrawnFacts
<1>5. ASSUME NEW d \in DOMAIN items' PROVE items'[d].conv \notin retired'
  <2>1. CASE d = K
    BY <1>1, <1>4, <1>5, <2>1 DEF Writes
  <2>2. CASE d # K
    <3>1. d \in DOMAIN items /\ items'[d] = items[d]
      BY <1>1, <1>5, <2>2, UnexpiredFacts DEF Writes
    <3>2. d \in Keys /\ items[d].conv \in Drawn
      BY <1>0, <3>1 DEF SessionInv, SessionTypeOK
    <3>3. Found(K) => items[d].conv # items[K].conv
      BY <1>3, <2>2, <3>1, <3>2 DEF PrivateInv, Claimed
    <3> QED
      BY <1>2, <3>1, <3>3 DEF CompactionRotates
  <2> QED
    BY <2>1, <2>2
<1> QED
  BY <1>1, <1>4, <1>5 DEF CompactionRotates

(* A write of a conversation that was not replaced.                        *)
LEMMA WriteRotates ==
  ASSUME CompactionRotates, NEW K, NEW b, Writes(K, b) \/ Shrinks, b.conv \notin retired,
         UNCHANGED retired
  PROVE  CompactionRotates'
  BY UnexpiredFacts DEF CompactionRotates, Writes, Shrinks

(* A handler that is alone brings no replaced one back.                    *)
LEMMA HandleRotates ==
  ASSUME Sequential, TypeInv, PrivateInv, RotateInv, NEW r \in Requests, Handle(r)
  PROVE  RotateInv'
<1>0. /\ SessionInv /\ Stage(pc[r], key[r], conv[r], lease[r])
      /\ pc \in [Requests -> Places]
      /\ key[r] \in Keys \union {NoKey} /\ conv \in [Requests -> {0} \union Drawn]
      /\ nextConv \in Nat \ {0} /\ retired \subseteq Drawn
      /\ CompactionRotates /\ (pc[r] \in Holding => conv[r] \notin retired)
      /\ \A q \in Requests : q = r
  BY DEF TypeInv, LocalInv, SessionInv, SessionTypeOK, RotateInv, Sequential
<1>1. nextConv \notin retired
  BY <1>0, DrawnFacts
<1>2. ASSUME CompactManually(r) \/ CompactForClient(r) \/ AccountChanged(r) \/ CompactAfterwards(r)
      PROVE  RotateInv'
  <2>1. /\ Rotate(key[r]) /\ key[r] \in Keys
        /\ conv'[r] = Rotated(key[r]).conv \/ pc'[r] \notin Holding
    BY <1>0, <1>2 DEF CompactManually, CompactForClient, AccountChanged, CompactAfterwards, Take,
                      Goto, Stage, Holding
  <2> QED
    BY <1>0, <2>1, RotationIsFresh DEF RotateInv
<1>3. ASSUME Create(r) PROVE RotateInv'
  <2>1. Ensure(key[r]) /\ conv' = [conv EXCEPT ![r] = Ensured(key[r]).conv] /\ UNCHANGED retired
    BY <1>3 DEF Create, Take, Ensure
  <2>2. key[r] \in Keys
    BY <1>0, <1>3 DEF Create, Goto, Stage
  <2>3. Writes(key[r], Ensured(key[r])) /\ Ensured(key[r]).conv \notin retired
    BY <1>0, <1>1, <2>1, <2>2, EnsureWrites, ReturnedBindings DEF CompactionRotates
  <2> QED
    BY <1>0, <2>1, <2>3, WriteRotates DEF RotateInv
<1>4. ASSUME Lookup(r) PROVE RotateInv'
  <2>1. Get(key[r]) /\ key[r] \in Keys
    BY <1>0, <1>4 DEF Lookup, Goto, Stage
  <2>2. Shrinks /\ UNCHANGED retired
    BY <2>1, SweepShrinks
  <2>3. CompactionRotates'
    BY <1>0, <2>2 DEF Shrinks, CompactionRotates
  <2>4. pc'[r] \in Holding => Found(key[r]) /\ conv'[r] = items[key[r]].conv
    BY <1>0, <1>4 DEF Lookup, Goto, Take, Holding
  <2>5. pc'[r] \in Holding => conv'[r] \notin retired
    BY <1>0, <2>1, <2>4, ReturnedBindings DEF CompactionRotates
  <2> QED
    BY <1>0, <2>2, <2>3, <2>5 DEF RotateInv
<1>5. ASSUME Bind(r) \/ Store(r) PROVE RotateInv'
  <2>1. PICK c \in {conv[r], nextConv} : Update(key[r], c, lease[r], long[r])
    BY <1>5 DEF Bind, Store
  <2>2. UNCHANGED <<conv, retired>> /\ conv[r] \notin retired
    BY <1>0, <1>5, <2>1 DEF Bind, Store, locals, Goto, Holding, Update
  <2>3. Updated(key[r], c, lease[r], long[r]).conv \notin retired
    BY <1>1, <2>2 DEF Updated
  <2>4. Writes(key[r], Updated(key[r], c, lease[r], long[r])) \/ Shrinks
    BY <2>1, UpdateWrites
  <2>5. CompactionRotates'
    BY <1>0, <2>2, <2>3, <2>4, WriteRotates
  <2> QED
    BY <1>0, <2>2, <2>5 DEF RotateInv
<1>6. ASSUME UNCHANGED sessionVars, pc'[r] \in Holding => pc[r] \in Holding /\ conv'[r] = conv[r]
      PROVE  RotateInv'
  BY <1>0, <1>6 DEF RotateInv, sessionVars, CompactionRotates
<1>7. CASE Prepare(r)
  BY <1>2, <1>3, <1>4, <1>7 DEF Prepare
<1>8. ASSUME AcquireFails(r) \/ Fails(r) \/ Finish(r) PROVE RotateInv'
  BY <1>0, <1>6, <1>8 DEF AcquireFails, Fails, Finish, Goto, Holding
<1>9. ASSUME (\E a \in Accounts : Acquire(r, a)) \/ Send(r) \/ Retry(r) \/ Succeeds(r) PROVE RotateInv'
  <2>1. UNCHANGED <<sessionVars, conv>> /\ pc[r] \in Holding
    BY <1>9 DEF Acquire, Send, Retry, Succeeds, Goto, Holding, locals
  <2> QED
    BY <1>6, <2>1
<1>10. CASE Attempt(r)
  BY <1>2, <1>5, <1>8, <1>9, <1>10 DEF Attempt
<1>11. CASE Conclude(r)
  BY <1>2, <1>5, <1>8, <1>11 DEF Conclude
<1> QED
  BY <1>7, <1>10, <1>11 DEF Handle

(* Neither does any other step.                                            *)
LEMMA RotateStep ==
  ASSUME Sequential, TypeInv, PrivateInv, RotateInv, [Next]_vars
  PROVE  RotateInv'
<1>1. ASSUME NEW r \in Requests, NEW k \in Keys \union {NoKey},
             NEW isLong \in BOOLEAN, NEW compact \in BOOLEAN, Arrive(r, k, isLong, compact)
      PROVE  RotateInv'
  <2>1. conv[r] = 0 /\ retired \subseteq Drawn /\ pc \in [Requests -> Places] /\ nextConv \in Nat \ {0}
    BY <1>1 DEF Arrive, Goto, TypeInv, LocalInv, Stage, SessionInv, SessionTypeOK
  <2>2. conv[r] \notin retired
    BY <2>1, DrawnFacts
  <2> QED
    BY <1>1, <2>1, <2>2 DEF Arrive, Goto, sessionVars, RotateInv, CompactionRotates, Sequential
<1>2. ASSUME Rejected \/ UNCHANGED vars PROVE RotateInv'
  BY <1>2 DEF Rejected, vars, locals, sessionVars, RotateInv, CompactionRotates
<1>3. ASSUME TimePasses \/ SweepSessions PROVE RotateInv'
  <2>1. /\ \A k \in DOMAIN items' : k \in DOMAIN items /\ items'[k].conv = items[k].conv
        /\ UNCHANGED <<pc, conv, retired>>
    BY <1>3, TickAges, SweepShrinks
       DEF TimePasses, SweepSessions, Shrinks, TypeInv, SessionInv, locals
  <2> QED
    BY <2>1 DEF RotateInv, CompactionRotates
<1> QED
  BY <1>1, <1>2, <1>3, HandleRotates DEF Next

(* No conversation is ever claimed for two sessions.                       *)
LEMMA PrivateCorrect == Spec => [](TypeInv /\ PrivateInv)
<1>1. Init => PrivateInv
  BY DEF Init, SessionInit, PrivateInv, Claimed, Drawn
<1>2. TypeInv /\ PrivateInv /\ [Next]_vars => PrivateInv'
  BY NextClaims, ClaimStepKeeps, TypeStep
<1> QED
  BY <1>1, <1>2, TypeInit, TypeStep, PTL DEF Spec

(* A conversation is sent for one session only, although requests of a     *)
(* session overlap, hold bindings the manager has since evicted or rotated *)
(* and write them back, and whatever names the upstream gives.             *)
THEOREM ConversationsStayPrivate == Spec => []ConversationsPrivate
<1>1. TypeInv /\ PrivateInv => ConversationsPrivate
  <2> SUFFICES ASSUME TypeInv, PrivateInv, NEW s \in sent, NEW t \in sent, s[2] = t[2]
      PROVE  s[1] = t[1]
    BY DEF ConversationsPrivate
  <2>1. s[1] \in Keys /\ t[1] \in Keys /\ s[2] \in Drawn
    BY DEF TypeInv
  <2>2. Claimed(s[1], s[2]) /\ Claimed(t[1], s[2])
    BY DEF Claimed
  <2> QED
    BY <2>1, <2>2 DEF PrivateInv
<1> QED
  BY <1>1, PrivateCorrect, PTL

(* When requests come one after another, no session ever goes back to a    *)
(* conversation that a compaction or a change of account replaced, however *)
(* sessions expire and are evicted meanwhile.                              *)
THEOREM CompactionsRotate == ASSUME Sequential PROVE Spec => []CompactionRotates
<1>1. Init => RotateInv
  BY DEF Init, SessionInit, RotateInv, CompactionRotates
<1>2. TypeInv /\ PrivateInv /\ RotateInv /\ [Next]_vars => RotateInv'
  BY RotateStep
<1>3. RotateInv => CompactionRotates
  BY DEF RotateInv
<1> QED
  BY <1>1, <1>2, <1>3, PrivateCorrect, PTL DEF Spec
-----------------------------------------------------------------------------
(* With room for every session and requests that finish before theirs      *)
(* expires, a change of account rotates as well.                           *)

Roomy == IsFiniteSet(Keys) /\ Cardinality(Keys) <= MaxEntries

(* The session of a request is where the request left it.                  *)
Attached(r) ==
  LET k == key[r]
  IN /\ k \in DOMAIN items
     /\ items[k].age <= TTL
     /\ items[k].conv = conv[r]
     /\ pc[r] \in {"acquire", "changed"} => items[k].account = bound[r]
     /\ pc[r] \in {"send", "sent", "store"} => items[k].account = lease[r] /\ bound[r] = lease[r]
     /\ pc[r] = "bind" => \A s \in sent : s[2] = conv[r] => s[3] = lease[r]

SessionsKnow == \A k \in DOMAIN items, s \in sent : items[k].conv = s[2] => items[k].account = s[3]

OneAccountInv ==
  /\ \A r \in Requests : Sticky(r) /\ pc[r] \in Holding => Attached(r)
  /\ SessionsKnow
  /\ AccountChangeRotates

(* Where there is room nothing is evicted.                                 *)
LEMMA RoomyKeeps ==
  ASSUME Roomy, SessionTypeOK, NEW k \in Keys, NEW b, EvictOverflow(With(k, b))
  PROVE  k \in DOMAIN items' /\ items'[k] = b
<1> DEFINE I == With(k, b)
<1>1. PICK K \in Kept(I) : items' = Restrict(I, K)
  BY DEF EvictOverflow
<1>2. DOMAIN I = DOMAIN Unexpired \union {k} /\ I[k] = b
  BY DEF With
<1>3. DOMAIN I \subseteq Keys
  BY <1>2, UnexpiredFacts DEF SessionTypeOK
<1>4. DOMAIN items' = K /\ \A d \in K : items'[d] = I[d]
  BY <1>1 DEF Restrict
<1>5. /\ K \subseteq DOMAIN I
      /\ Cardinality(K) = IF Cardinality(DOMAIN I) > MaxEntries THEN MaxEntries
                          ELSE Cardinality(DOMAIN I)
  BY DEF Kept
<1> HIDE DEF I
<1>6. IsFiniteSet(DOMAIN I) /\ Cardinality(DOMAIN I) <= Cardinality(Keys)
  BY <1>3, FS_Subset DEF Roomy
<1>7. Cardinality(DOMAIN I) \in Nat /\ Cardinality(Keys) \in Nat
  BY <1>6, FS_CardinalityType DEF Roomy
<1>8. Cardinality(K) = Cardinality(DOMAIN I)
  BY <1>5, <1>6, <1>7, MaxEntriesAssumption DEF Roomy
<1>9. K = DOMAIN I
  BY <1>5, <1>6, <1>8, FS_Subset
<1> QED
  BY <1>2, <1>4, <1>9

(* What is found is there and not expired.                                 *)
LEMMA FoundFacts == \A k : Found(k) <=> k \in DOMAIN items /\ items[k].age <= TTL
  BY UnexpiredFacts DEF Found

(* A write of a conversation with the account it was sent with.            *)
LEMMA WriteKnows ==
  ASSUME SessionsKnow, NEW K, NEW b, Writes(K, b) \/ Shrinks, UNCHANGED sent,
         \A s \in sent : b.conv = s[2] => b.account = s[3]
  PROVE  SessionsKnow'
  BY UnexpiredFacts DEF SessionsKnow, Writes, Shrinks

(* A rotated session has a conversation that was never sent.               *)
LEMMA RotateAttaches ==
  ASSUME Roomy, TypeInv, SessionsKnow, NEW K \in Keys, Rotate(K), UNCHANGED sent
  PROVE  /\ SessionsKnow' /\ K \in DOMAIN items' /\ items'[K].age <= TTL
         /\ items'[K].conv = Rotated(K).conv /\ items'[K].account = Rotated(K).account
         /\ \A s \in sent : s[2] # Rotated(K).conv
<1>0. SessionInv /\ nextConv \in Nat \ {0}
  BY DEF TypeInv, SessionInv, SessionTypeOK
<1>1. Writes(K, Rotated(K)) /\ Rotated(K).conv = nextConv
  BY <1>0, RotateWrites, ReturnedBindings
<1>2. \A s \in sent : s[2] # Rotated(K).conv
  BY <1>0, <1>1, DrawnFacts DEF TypeInv
<1>3. K \in DOMAIN items' /\ items'[K] = Rotated(K)
  BY <1>0, RoomyKeeps DEF Rotate, SessionInv
<1>4. Rotated(K).age = 0
  <2>1. Rotated(K) \in Binding
    BY <1>0, ReturnedBindings
  <2>2. PICK b \in [conv : Nat, account : Accounts \union {NoAccount}, long : BOOLEAN, age : 0..(TTL + 1)] :
          Rotated(K) = [b EXCEPT !.conv = nextConv, !.age = 0]
    <3>1. Found(K) => items[K] \in Binding
      BY <1>0, ReturnedBindings
    <3>2. NoBinding \in [conv : Nat, account : Accounts \union {NoAccount}, long : BOOLEAN, age : 0..(TTL + 1)]
      BY TTLAssumption DEF NoBinding
    <3> QED
      BY <3>1, <3>2 DEF Rotated, Binding
  <2> QED
    BY <2>2
<1>5. SessionsKnow'
  BY <1>1, <1>2, WriteKnows
<1> QED
  BY <1>2, <1>3, <1>4, <1>5, TTLAssumption

(* An ensured one is there and knows its account.                          *)
LEMMA EnsureAttaches ==
  ASSUME Roomy, TypeInv, SessionsKnow, NEW K \in Keys, Ensure(K), UNCHANGED sent
  PROVE  /\ SessionsKnow' /\ K \in DOMAIN items' /\ items'[K].age <= TTL
         /\ items'[K].conv = Ensured(K).conv /\ items'[K].account = Ensured(K).account
<1>0. SessionInv /\ nextConv \in Nat \ {0}
  BY DEF TypeInv, SessionInv, SessionTypeOK
<1>1. Writes(K, Ensured(K))
  BY EnsureWrites
<1>2. \A s \in sent : Ensured(K).conv = s[2] => Ensured(K).account = s[3]
  <2>1. CASE Found(K)
    BY <1>0, <2>1, ReturnedBindings DEF SessionsKnow
  <2>2. CASE ~Found(K)
    BY <1>0, <2>2, ReturnedBindings, DrawnFacts DEF TypeInv
  <2> QED
    BY <2>1, <2>2
<1>3. K \in DOMAIN items' /\ items'[K] = Ensured(K)
  <2>1. CASE Found(K)
    BY <2>1 DEF Ensure, With
  <2>2. CASE ~Found(K)
    BY <1>0, <2>2, RoomyKeeps DEF Ensure, SessionInv
  <2> QED
    BY <2>1, <2>2
<1>4. Ensured(K).age = 0
  <2>1. Found(K) => items[K] \in Binding
    BY <1>0, ReturnedBindings
  <2> QED
    BY <2>1 DEF Ensured, NoBinding, Binding
<1>5. SessionsKnow'
  BY <1>1, <1>2, WriteKnows
<1> QED
  BY <1>3, <1>4, <1>5, TTLAssumption

(* A handler that is alone keeps to its session's account.                 *)
LEMMA HandleAttached ==
  ASSUME Sequential, Roomy, TypeInv, PrivateInv, OneAccountInv, NEW r \in Requests, Handle(r)
  PROVE  OneAccountInv'
<1>0. /\ SessionInv /\ SessionTypeOK /\ Stage(pc[r], key[r], conv[r], lease[r])
      /\ pc \in [Requests -> Places]
      /\ key \in [Requests -> Keys \union {NoKey}] /\ conv \in [Requests -> {0} \union Drawn]
      /\ bound \in [Requests -> Accounts \union {NoAccount}]
      /\ lease \in [Requests -> Accounts \union {NoAccount}]
      /\ nextConv \in Nat \ {0} /\ sent \subseteq (Keys \X Drawn \X Accounts)
      /\ SessionsKnow /\ AccountChangeRotates
      /\ (Sticky(r) /\ pc[r] \in Holding => Attached(r))
      /\ \A q \in Requests : q = r
  BY DEF TypeInv, LocalInv, SessionInv, SessionTypeOK, OneAccountInv, Sequential
<1>1. ASSUME UNCHANGED sent, SessionsKnow', (Sticky(r) /\ pc[r] \in Holding)' => Attached(r)'
      PROVE  OneAccountInv'
  BY <1>0, <1>1 DEF OneAccountInv, AccountChangeRotates
<1>2. ASSUME CompactManually(r) \/ CompactForClient(r) PROVE OneAccountInv'
  <2>1. /\ Rotate(key[r]) /\ key[r] \in Keys /\ UNCHANGED <<key, sent>>
        /\ pc'[r] = "acquire"
        /\ conv'[r] = Rotated(key[r]).conv /\ bound'[r] = Rotated(key[r]).account
    BY <1>0, <1>2 DEF CompactManually, CompactForClient, Take, Goto, Stage
  <2> QED
    BY <1>0, <1>1, <2>1, RotateAttaches DEF Attached
<1>3. ASSUME AccountChanged(r) PROVE OneAccountInv'
  <2>1. /\ Rotate(key[r]) /\ key[r] \in Keys /\ UNCHANGED <<key, lease, sent>>
        /\ pc'[r] = "bind" /\ conv'[r] = Rotated(key[r]).conv
    BY <1>0, <1>3 DEF AccountChanged, Take, Goto, Stage
  <2> QED
    BY <1>0, <1>1, <2>1, RotateAttaches DEF Attached
<1>4. ASSUME CompactAfterwards(r) PROVE OneAccountInv'
  <2>1. Rotate(key[r]) /\ key[r] \in Keys /\ UNCHANGED sent /\ pc'[r] \notin Holding
    BY <1>0, <1>4 DEF CompactAfterwards, Goto, Stage, Holding
  <2> QED
    BY <1>0, <1>1, <2>1, RotateAttaches
<1>5. ASSUME Create(r) PROVE OneAccountInv'
  <2>1. /\ Ensure(key[r]) /\ key[r] \in Keys /\ UNCHANGED <<key, sent>>
        /\ pc'[r] = "acquire"
        /\ conv'[r] = Ensured(key[r]).conv /\ bound'[r] = Ensured(key[r]).account
    BY <1>0, <1>5 DEF Create, Take, Goto, Stage
  <2> QED
    BY <1>0, <1>1, <2>1, EnsureAttaches DEF Attached
<1>6. ASSUME Lookup(r) PROVE OneAccountInv'
  <2>1. Get(key[r]) /\ key[r] \in Keys /\ UNCHANGED <<key, sent>>
    BY <1>0, <1>6 DEF Lookup, Goto, Stage
  <2>2. SessionsKnow'
    BY <1>0, <2>1, SweepShrinks DEF SessionsKnow, Shrinks
  <2>3. CASE pc'[r] # "acquire"
    BY <1>0, <1>1, <1>6, <2>1, <2>2, <2>3 DEF Lookup, Goto, Holding
  <2>4. CASE pc'[r] = "acquire"
    <3>1. Found(key[r]) /\ conv'[r] = items[key[r]].conv /\ bound'[r] = items[key[r]].account
      BY <1>0, <1>6, <2>4 DEF Lookup, Goto, Take
    <3>2. key[r] \in DOMAIN items' /\ items'[key[r]] = items[key[r]] /\ items[key[r]].age <= TTL
      BY <2>1, <3>1, UnexpiredFacts DEF Get, Found
    <3> QED
      BY <1>1, <2>1, <2>2, <2>4, <3>1, <3>2 DEF Attached
  <2> QED
    BY <2>3, <2>4
<1>7. ASSUME NEW a \in Accounts, Acquire(r, a) PROVE OneAccountInv'
  <2>1. /\ UNCHANGED <<items, key, conv, bound, sent>> /\ pc[r] = "acquire"
        /\ pc'[r] = AfterAcquire(r, a) /\ lease'[r] = a
    BY <1>0, <1>7 DEF Acquire, Goto, sessionVars
  <2>2. SessionsKnow'
    BY <1>0, <2>1 DEF SessionsKnow
  <2>3. ASSUME Sticky(r) PROVE Attached(r)'
    <3>1. Attached(r)
      BY <1>0, <2>1, <2>3 DEF Holding
    <3>2. CASE pc'[r] = "changed"
      BY <2>1, <3>1, <3>2 DEF Attached
    <3>3. CASE pc'[r] = "bind"
      <4>1. bound[r] = NoAccount \/ a = bound[r]
        BY <2>1, <2>3, <3>3 DEF AfterAcquire
      <4>2. ASSUME NEW s \in sent, s[2] = conv[r] PROVE s[3] = a
        <5>1. s[3] = bound[r] /\ s[3] \in Accounts
          BY <1>0, <2>1, <3>1, <4>2 DEF Attached, SessionsKnow
        <5> QED
          BY <4>1, <5>1, AccountAssumption
      <4> QED
        BY <2>1, <3>1, <3>3, <4>2 DEF Attached
    <3> QED
      BY <2>1, <2>3, <3>2, <3>3 DEF AfterAcquire
  <2> QED
    BY <1>1, <2>1, <2>2, <2>3 DEF Sticky
<1>8. ASSUME Bind(r) PROVE OneAccountInv'
  <2>1. /\ key[r] \in Keys /\ Sticky(r) /\ Attached(r) /\ lease[r] \in Accounts
        /\ pc[r] = "bind" /\ pc'[r] = "send" /\ UNCHANGED <<key, conv, lease, sent>>
        /\ Update(key[r], conv[r], lease[r], long[r])
    BY <1>0, <1>8 DEF Bind, Goto, Stage, Holding, Sticky
  <2>2. Found(key[r])
    BY <2>1, FoundFacts DEF Attached
  <2>3. bound'[r] = lease[r]
    BY <1>0, <1>8, <2>2 DEF Bind
  <2> DEFINE b == Updated(key[r], conv[r], lease[r], long[r])
  <2>4. key[r] \in DOMAIN items' /\ items'[key[r]] = b
    BY <2>1, <2>2 DEF Update, With
  <2>5. b.conv = conv[r] /\ b.account = lease[r] /\ b.age = 0
    BY DEF Updated
  <2>6. SessionsKnow'
    <3>1. Writes(key[r], b)
      BY <2>1, <2>2, UpdateWrites
    <3>2. \A s \in sent : b.conv = s[2] => b.account = s[3]
      BY <2>1, <2>5 DEF Attached
    <3> HIDE DEF b
    <3> QED
      BY <1>0, <2>1, <3>1, <3>2, WriteKnows
  <2> HIDE DEF b
  <2> QED
    BY <1>1, <2>1, <2>3, <2>4, <2>5, <2>6, TTLAssumption DEF Attached
<1>9. ASSUME Send(r) PROVE OneAccountInv'
  <2>1. /\ UNCHANGED <<items, key, conv, bound, lease>> /\ pc[r] = "send" /\ pc'[r] = "sent"
        /\ sent' = IF Sticky(r) THEN sent \union {<<key[r], conv[r], lease[r]>>} ELSE sent
    BY <1>0, <1>9 DEF Send, Goto, sessionVars, locals
  <2>2. CASE ~Sticky(r)
    BY <1>0, <1>1, <2>1, <2>2 DEF SessionsKnow, Sticky
  <2>3. CASE Sticky(r)
    <3>1. Attached(r) /\ key[r] \in Keys /\ conv[r] \in Drawn
      BY <1>0, <2>1, <2>3 DEF Holding, Stage, Sticky
    <3>2. Attached(r)'
      BY <2>1, <3>1 DEF Attached
    <3>3. \A k \in DOMAIN items : items[k].conv = conv[r] => k = key[r]
      BY <1>0, <3>1 DEF PrivateInv, Claimed, SessionTypeOK
    <3>4. SessionsKnow'
      BY <1>0, <2>1, <2>3, <3>1, <3>3 DEF SessionsKnow, Attached
    <3>5. \A s \in sent : s[2] = conv[r] => s[3] = lease[r]
      BY <1>0, <2>1, <3>1 DEF SessionsKnow, Attached
    <3>6. AccountChangeRotates'
      BY <1>0, <2>1, <2>3, <3>5 DEF AccountChangeRotates
    <3> QED
      BY <1>0, <3>2, <3>4, <3>6 DEF OneAccountInv
  <2> QED
    BY <2>2, <2>3
<1>10. ASSUME Retry(r) \/ Succeeds(r) PROVE OneAccountInv'
  <2>1. /\ UNCHANGED <<items, key, conv, bound, sent>> /\ pc[r] = "sent"
        /\ \/ pc'[r] = "acquire"
           \/ pc'[r] \in {"store", "finish"} /\ lease' = lease
    BY <1>0, <1>10 DEF Retry, Succeeds, Goto, sessionVars, locals
  <2>2. SessionsKnow'
    BY <1>0, <2>1 DEF SessionsKnow
  <2>3. ASSUME Sticky(r), pc'[r] \in Holding PROVE Attached(r)'
    <3>1. Attached(r)
      BY <1>0, <2>1, <2>3 DEF Holding
    <3> QED
      BY <2>1, <2>3, <3>1 DEF Attached, Holding
  <2> QED
    BY <1>1, <2>1, <2>2, <2>3 DEF Sticky
<1>11. ASSUME AcquireFails(r) \/ Fails(r) \/ Finish(r) PROVE OneAccountInv'
  <2>1. UNCHANGED <<items, sent>> /\ pc'[r] = "idle"
    BY <1>0, <1>11 DEF AcquireFails, Fails, Finish, Goto, sessionVars
  <2> QED
    BY <1>0, <1>1, <2>1 DEF SessionsKnow, Holding
<1>12. ASSUME Store(r) PROVE OneAccountInv'
  <2>1. /\ key[r] \in Keys /\ Attached(r) /\ pc[r] = "store" /\ pc'[r] \notin Holding /\ UNCHANGED sent
    BY <1>0, <1>12 DEF Store, Goto, Stage, Holding, Sticky
  <2>2. PICK c \in {conv[r], nextConv} : Update(key[r], c, lease[r], long[r])
    BY <1>12 DEF Store
  <2> DEFINE b == Updated(key[r], c, lease[r], long[r])
  <2>3. Writes(key[r], b) \/ Shrinks
    BY <2>2, UpdateWrites
  <2>4. b.conv = c /\ b.account = lease[r]
    BY DEF Updated
  <2> HIDE DEF b
  <2>5. \A s \in sent : b.conv = s[2] => b.account = s[3]
    BY <1>0, <2>1, <2>4, DrawnFacts DEF Attached, SessionsKnow
  <2>6. SessionsKnow'
    BY <1>0, <2>1, <2>3, <2>5, WriteKnows
  <2> QED
    BY <1>1, <2>1, <2>6
<1>13. CASE Prepare(r)
  BY <1>2, <1>5, <1>6, <1>13 DEF Prepare
<1>14. CASE Attempt(r)
  BY <1>3, <1>7, <1>8, <1>9, <1>10, <1>11, <1>14 DEF Attempt
<1>15. CASE Conclude(r)
  BY <1>4, <1>11, <1>12, <1>15 DEF Conclude
<1> QED
  BY <1>13, <1>14, <1>15 DEF Handle

(* Every step does when requests come one after another.                   *)
LEMMA OneAccountStep ==
  ASSUME Sequential, Roomy, ~SlowRequests, TypeInv, PrivateInv, OneAccountInv, [Next]_vars
  PROVE  OneAccountInv'
<1>1. ASSUME NEW r \in Requests, NEW k \in Keys \union {NoKey},
             NEW isLong \in BOOLEAN, NEW compact \in BOOLEAN, Arrive(r, k, isLong, compact)
      PROVE  OneAccountInv'
  <2>1. /\ UNCHANGED <<items, sent>> /\ \A q \in Requests : q = r
        /\ pc'[r] \in Holding => key'[r] = NoKey
    BY <1>1 DEF Arrive, Goto, sessionVars, Holding, TypeInv, LocalInv, Sequential
  <2> QED
    BY <2>1 DEF OneAccountInv, SessionsKnow, AccountChangeRotates, Sticky
<1>2. ASSUME Rejected \/ UNCHANGED vars PROVE OneAccountInv'
  BY <1>2 DEF Rejected, vars, locals, sessionVars, OneAccountInv, SessionsKnow, AccountChangeRotates,
              Sticky, Attached
<1>3. ASSUME TimePasses \/ SweepSessions PROVE OneAccountInv'
  <2>1. UNCHANGED <<pc, key, conv, bound, lease, sent>>
    BY <1>3 DEF TimePasses, SweepSessions, locals
  <2>2. \A k \in DOMAIN items' : k \in DOMAIN items /\ items'[k].conv = items[k].conv
                                 /\ items'[k].account = items[k].account
    BY <1>3, TickAges, SweepShrinks DEF TimePasses, SweepSessions, Shrinks, TypeInv, SessionInv
  <2>3. ASSUME NEW r \in Requests, Sticky(r), pc[r] \in Holding
        PROVE  key[r] \in DOMAIN items' /\ items'[key[r]].age <= TTL
    <3>1. Attached(r) /\ key[r] \in DOMAIN items /\ items[key[r]].age <= TTL /\ items[key[r]] \in Binding
      BY <2>3 DEF OneAccountInv, Attached, TypeInv, SessionInv, SessionTypeOK
    <3>2. CASE SweepSessions
      BY <3>1, <3>2, UnexpiredFacts DEF SweepSessions, Sweep
    <3>3. CASE TimePasses
      <4>1. Tick(InUse) /\ key[r] \in InUse
        BY <2>3, <3>3 DEF TimePasses, InUse, Holding
      <4>2. items[key[r]].age < TTL /\ key[r] \in DOMAIN items'
            /\ items'[key[r]] = [items[key[r]] EXCEPT !.age = IF @ <= TTL THEN @ + 1 ELSE @]
        BY <3>1, <4>1 DEF Tick
      <4> QED
        BY <3>1, <4>2, TTLAssumption DEF Binding
    <3> QED
      BY <1>3, <3>2, <3>3
  <2>4. ASSUME NEW r \in Requests, Sticky(r), pc[r] \in Holding PROVE Attached(r)'
    <3>1. Attached(r)
      BY <2>4 DEF OneAccountInv
    <3> QED
      BY <2>1, <2>2, <2>3, <2>4, <3>1 DEF Attached
  <2>5. SessionsKnow' /\ AccountChangeRotates'
    BY <2>1, <2>2 DEF OneAccountInv, SessionsKnow, AccountChangeRotates
  <2> QED
    BY <2>1, <2>4, <2>5 DEF OneAccountInv, Sticky
<1> QED
  BY <1>1, <1>2, <1>3, HandleAttached DEF Next

(* When requests come one after another and each ends before its session   *)
(* expires, no conversation is sent with two accounts, however accounts    *)
(* change between attempts and between requests: a change of account       *)
(* rotates the conversation first.                                         *)
THEOREM AccountChangesRotate ==
  ASSUME Sequential, Roomy, ~SlowRequests PROVE Spec => []AccountChangeRotates
<1>1. Init => OneAccountInv
  BY DEF Init, SessionInit, OneAccountInv, SessionsKnow, AccountChangeRotates, Holding
<1>2. TypeInv /\ PrivateInv /\ OneAccountInv /\ [Next]_vars => OneAccountInv'
  BY OneAccountStep
<1>3. OneAccountInv => AccountChangeRotates
  BY DEF OneAccountInv
<1> QED
  BY <1>1, <1>2, <1>3, PrivateCorrect, PTL DEF Spec
=============================================================================
