--------------------------- MODULE SessionManager ---------------------------
(***************************************************************************)
(* Sticky sessions: session.Manager of                                     *)
(* src/internal/application/session/manager.go.  Each method is one        *)
(* critical section; a module that uses the manager takes one of the       *)
(* actions below per call.                                                 *)
(*                                                                         *)
(* Conversation IDs are numbered as they are drawn.  LastSeenAt is kept as *)
(* an age that a tick of the clock increases.  The message and token       *)
(* counts of the last request are one bit: long or short.                  *)
(***************************************************************************)
EXTENDS Integers, FiniteSets, Functions

CONSTANTS
  Keys,        \* session keys
  Accounts, NoAccount,
  TTL,         \* in ticks
  MaxEntries

ASSUME TTLAssumption == TTL \in Nat
ASSUME MaxEntriesAssumption == MaxEntries \in Nat \ {0}
ASSUME AccountAssumption == NoAccount \notin Accounts

VARIABLES
  items,      \* m.items
  nextConv,   \* conversation IDs drawn so far, plus one
  retired     \* history: the conversations that a rotation replaced

sessionVars == <<items, nextConv, retired>>

Binding == [conv : Nat \ {0}, account : Accounts \union {NoAccount}, long : BOOLEAN,
            age : 0..(TTL + 1)]

(* The binding of a request that has none, the zero value of the code.     *)
NoBinding == [conv |-> 0, account |-> NoAccount, long |-> FALSE, age |-> 0]

(* The conversation IDs drawn so far.                                      *)
Drawn == 1..(nextConv - 1)

SessionTypeOK ==
  /\ DOMAIN items \subseteq Keys
  /\ \A k \in DOMAIN items : items[k] \in Binding
  /\ nextConv \in Nat \ {0}
  /\ retired \subseteq Drawn

SessionInit == items = <<>> /\ nextConv = 1 /\ retired = {}

-----------------------------------------------------------------------------
(* deleteExpiredLocked, the first thing every method does.                 *)
Unexpired == Restrict(items, {k \in DOMAIN items : items[k].age <= TTL})

(* m.items after m.items[k] = binding, which comes after the deletion.     *)
With(k, binding) ==
  [d \in DOMAIN Unexpired \union {k} |-> IF d = k THEN binding ELSE items[d]]

(* evictOverflowLocked keeps the MaxEntries that were seen last; among     *)
(* those seen at the same time the sort may keep any.                      *)
Kept(I) ==
  {K \in SUBSET DOMAIN I :
     /\ Cardinality(K) = IF Cardinality(DOMAIN I) > MaxEntries THEN MaxEntries
                         ELSE Cardinality(DOMAIN I)
     /\ \A k \in K, d \in DOMAIN I \ K : I[k].age <= I[d].age}

EvictOverflow(I) == \E K \in Kept(I) : items' = Restrict(I, K)

(* Get.                                                                    *)
Found(k) == k \in DOMAIN Unexpired

Get(k) ==
  /\ items' = Unexpired
  /\ UNCHANGED <<nextConv, retired>>

(* Ensure: the binding it returns, and what it does.  It is called after a *)
(* Get that found nothing, but another request may have come in between.   *)
Ensured(k) ==
  IF Found(k) THEN [items[k] EXCEPT !.age = 0]
  ELSE [NoBinding EXCEPT !.conv = nextConv]

(* Mutant: newConversationID does not draw a new one.                      *)
EnsureRepeats(k) ==
  /\ IF Found(k) THEN items' = With(k, Ensured(k))
     ELSE EvictOverflow(With(k, Ensured(k)))
  /\ UNCHANGED <<nextConv, retired>>

Ensure(k) ==
  /\ IF Found(k)
     THEN items' = With(k, Ensured(k)) /\ UNCHANGED nextConv
     ELSE EvictOverflow(With(k, Ensured(k))) /\ nextConv' = nextConv + 1
  /\ UNCHANGED retired

(* RotateWithReason keeps the account and the counts of a session it finds *)
(* and creates one that it does not find.                                  *)
Rotated(k) ==
  [(IF Found(k) THEN items[k] ELSE NoBinding) EXCEPT !.conv = nextConv, !.age = 0]

(* Mutant: only Ensure takes care of the overflow.                         *)
RotateUnbounded(k) ==
  /\ items' = With(k, Rotated(k))
  /\ nextConv' = nextConv + 1
  /\ retired' = IF Found(k) THEN retired \union {items[k].conv} ELSE retired

Rotate(k) ==
  /\ EvictOverflow(With(k, Rotated(k)))
  /\ nextConv' = nextConv + 1
  /\ retired' = IF Found(k) THEN retired \union {items[k].conv} ELSE retired

(* Update changes a session that is still there.                           *)
Updated(k, conv, account, long) ==
  [conv |-> conv, account |-> account, long |-> long, age |-> 0]

Update(k, conv, account, long) ==
  /\ items' = IF Found(k) THEN With(k, Updated(k, conv, account, long))
              ELSE Unexpired
  /\ UNCHANGED retired

(* DeleteExpired, which the sweeper calls, and Snapshot.                   *)
Sweep ==
  /\ items' = Unexpired
  /\ UNCHANGED <<nextConv, retired>>

Tick(keys) ==
  /\ items' = [k \in DOMAIN items |->
                 [items[k] EXCEPT !.age = IF @ <= TTL THEN @ + 1 ELSE @]]
  /\ \A k \in keys \intersect DOMAIN items : items[k].age < TTL
  /\ UNCHANGED <<nextConv, retired>>

-----------------------------------------------------------------------------
(* The manager never holds more sessions than it may.                      *)
SessionsBounded == Cardinality(DOMAIN items) <= MaxEntries

=============================================================================
