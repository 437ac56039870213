--------------------------- MODULE RuntimeCatalog ---------------------------
(***************************************************************************)
(* The model catalog: runtimecatalog.Catalog of                            *)
(* src/internal/adapters/catalog/runtime/catalog.go, its RWMutex and its   *)
(* callers: HTTP handlers that List and Resolve models, the background     *)
(* runner and the administrator that Refresh them, the persister that      *)
(* takes Snapshots.                                                        *)
(*                                                                         *)
(* The RWMutex is Go's: Lock first announces the writer, which makes every *)
(* later RLock wait, then waits for the readers that are inside.  List     *)
(* holds a read lock while it calls Resolve, which takes another.          *)
(*                                                                         *)
(* A name is looked up under its internal name, which the built-in catalog *)
(* (static/catalog.go) works out without a lock: its tables are constants  *)
(* here.  Left out: the thinking variant of each name, which is looked up  *)
(* as the name itself, and the lease a Refresh takes (AccountPool).        *)
(***************************************************************************)
EXTENDS Integers

CONSTANTS
  Callers,     \* goroutines inside the catalog
  Names,       \* model names: callers' names, listed names, upstream's IDs
  Answers,     \* the sets of IDs that upstream may list
  plain,       \* a name in lower case and without the thinking suffix
  normalized,  \* NormalizeModelName: versions with a dot, without a date
  aliases, hiddenModels,         \* tables of the built-in catalog, from a
  baseModels, hiddenFromList,    \* name to a name, and sets of names
  NoCaller

ASSUME CallerAssumption == NoCaller \notin Callers
ASSUME NameAssumption ==
  /\ Answers \subseteq SUBSET Names
  /\ DOMAIN aliases \union DOMAIN hiddenModels \union baseModels \subseteq Names

VARIABLES
  models,      \* c.models and c.modelSet
  failed,      \* c.lastError # ""
  pc,          \* where each caller is
  announced,   \* the writer that waits for the readers to leave
  readers,     \* how many read locks each caller holds
  listed,      \* the c.models that a List merges into its result
  todo,        \* names a List or a Resolve still has to look up
  verified,    \* those whose internal name it found in c.modelSet
  fetched      \* what a Refresh is about to store: one model list, or none
               \* if its call failed

vars == <<models, failed, pc, announced, readers, listed, todo, verified, fetched>>

TypeOK ==
  /\ models \in Answers
  /\ failed \in BOOLEAN
  /\ pc \in [Callers -> {"idle", "resolve", "snapshot", "reading", "list", "listing", "nested",
                         "http", "lock", "wait"}]
  /\ announced \in Callers \union {NoCaller}
  /\ readers \in [Callers -> Nat]
  /\ listed \in [Callers -> SUBSET Names]
  /\ todo \in [Callers -> SUBSET Names]
  /\ verified \in [Callers -> SUBSET Names]
  /\ fetched \in [Callers -> SUBSET Answers]

(* ApplySnapshot restores the models and the error of the last run before  *)
(* any caller exists.                                                      *)
Init ==
  /\ models \in Answers
  /\ failed \in BOOLEAN
  /\ pc = [c \in Callers |-> "idle"]
  /\ announced = NoCaller
  /\ readers = [c \in Callers |-> 0]
  /\ listed = [c \in Callers |-> {}]
  /\ todo = [c \in Callers |-> {}]
  /\ verified = [c \in Callers |-> {}]
  /\ fetched = [c \in Callers |-> {}]

-----------------------------------------------------------------------------
Goto(c, from, to) == pc[c] = from /\ pc' = [pc EXCEPT ![c] = to]

(* sync.RWMutex.RLock and RUnlock.                                         *)
RLock(c) == announced = NoCaller /\ readers' = [readers EXCEPT ![c] = @ + 1]
RUnlock(c) == readers' = [readers EXCEPT ![c] = @ - 1]

-----------------------------------------------------------------------------
(* The built-in catalog.                                                   *)

(* An alias is replaced before the rest of the name is put in normal form; *)
(* a hidden model has an upstream ID of its own.                           *)
InternalName(n) ==
  LET t == plain[n]
      named == IF t \in DOMAIN aliases THEN aliases[t] ELSE normalized[t]
  IN IF named \in DOMAIN hiddenModels THEN hiddenModels[named] ELSE named

HiddenFromList(n) ==
  LET t == plain[n]
  IN (IF t \in DOMAIN aliases THEN aliases[t] ELSE t) \in hiddenFromList

BuiltIn == (baseModels \union DOMAIN aliases \union DOMAIN hiddenModels) \ hiddenFromList

(* The names a List answers with.  Without models from upstream it returns *)
(* the built-in list as it is and looks nothing up.                        *)
Merged(M) == IF M = {} THEN {} ELSE BuiltIn \union {id \in M : ~HiddenFromList(id)}

Found(S, M) == {n \in S : InternalName(n) \in M}

-----------------------------------------------------------------------------
(* Resolve and Snapshot: a read lock around a lookup, or a copy.  (A       *)
(* Resolve of the empty name answers with an error and takes no lock.)     *)

ResolveBegin(c) ==
  /\ Goto(c, "idle", "resolve")
  /\ \E n \in Names : todo' = [todo EXCEPT ![c] = {n}]
  /\ UNCHANGED <<models, failed, announced, readers, listed, verified, fetched>>

ResolveLock(c) ==
  /\ Goto(c, "resolve", "reading")
  /\ RLock(c)
  /\ todo' = [todo EXCEPT ![c] = {}]
  /\ verified' = [verified EXCEPT ![c] = Found(todo[c], models)]
  /\ UNCHANGED <<models, failed, announced, listed, fetched>>

SnapshotBegin(c) ==
  /\ Goto(c, "idle", "snapshot")
  /\ UNCHANGED <<models, failed, announced, readers, listed, todo, verified, fetched>>

SnapshotLock(c) ==
  /\ Goto(c, "snapshot", "reading")
  /\ RLock(c)
  /\ UNCHANGED <<models, failed, announced, listed, todo, verified, fetched>>

(* Mutant: an explicit RUnlock in addition to the deferred one.            *)
ReadEndTwice(c) ==
  /\ Goto(c, "reading", "idle")
  /\ readers' = [readers EXCEPT ![c] = @ - 2]
  /\ verified' = [verified EXCEPT ![c] = {}]
  /\ UNCHANGED <<models, failed, announced, listed, todo, fetched>>

(* Mutant: the deferred RUnlock is forgotten.                              *)
ReadEndLocked(c) ==
  /\ Goto(c, "reading", "idle")
  /\ verified' = [verified EXCEPT ![c] = {}]
  /\ UNCHANGED <<models, failed, announced, readers, listed, todo, fetched>>

ReadEnd(c) ==
  /\ Goto(c, "reading", "idle")
  /\ RUnlock(c)
  /\ verified' = [verified EXCEPT ![c] = {}]
  /\ UNCHANGED <<models, failed, announced, listed, todo, fetched>>

-----------------------------------------------------------------------------
(* List: a read lock around the merge and around one Resolve per name.     *)

ListBegin(c) ==
  /\ Goto(c, "idle", "list")
  /\ UNCHANGED <<models, failed, announced, readers, listed, todo, verified, fetched>>

(* Mutant: the models are copied and the lock released before the lookups. *)
ListLockCopy(c) ==
  /\ Goto(c, "list", "listing")
  /\ announced = NoCaller
  /\ listed' = [listed EXCEPT ![c] = models]
  /\ todo' = [todo EXCEPT ![c] = Merged(models)]
  /\ UNCHANGED <<models, failed, announced, readers, verified, fetched>>

ListLock(c) ==
  /\ Goto(c, "list", "listing")
  /\ RLock(c)
  /\ listed' = [listed EXCEPT ![c] = models]
  /\ todo' = [todo EXCEPT ![c] = Merged(models)]
  /\ UNCHANGED <<models, failed, announced, verified, fetched>>

(* One nested Resolve: its RLock and lookup, then its RUnlock.  The names  *)
(* are taken in one order (the code sorts them).                           *)
ListResolve(c) ==
  /\ Goto(c, "listing", "nested")
  /\ RLock(c)
  /\ todo[c] # {}
  /\ LET n == CHOOSE n \in todo[c] : TRUE
     IN /\ todo' = [todo EXCEPT ![c] = @ \ {n}]
        /\ verified' = [verified EXCEPT ![c] = @ \union Found({n}, models)]
  /\ UNCHANGED <<models, failed, announced, listed, fetched>>

ListResolved(c) ==
  /\ Goto(c, "nested", "listing")
  /\ RUnlock(c)
  /\ UNCHANGED <<models, failed, announced, listed, todo, verified, fetched>>

ListEnd(c) ==
  /\ Goto(c, "listing", "idle")
  /\ todo[c] = {}
  /\ RUnlock(c)
  /\ listed' = [listed EXCEPT ![c] = {}]
  /\ verified' = [verified EXCEPT ![c] = {}]
  /\ UNCHANGED <<models, failed, announced, todo, fetched>>

-----------------------------------------------------------------------------
(* Refresh, from the background runner or the administrator, possibly      *)
(* several at once.                                                        *)

RefreshBegin(c) ==
  /\ Goto(c, "idle", "http")
  /\ UNCHANGED <<models, failed, announced, readers, listed, todo, verified, fetched>>

RefreshFetched(c) ==
  /\ Goto(c, "http", "lock")
  /\ \/ fetched' = [fetched EXCEPT ![c] = {}]
     \/ \E M \in Answers : fetched' = [fetched EXCEPT ![c] = {M}]
  /\ UNCHANGED <<models, failed, announced, readers, listed, todo, verified>>

(* Without a lease the Refresh returns before anything else.               *)
RefreshRefused(c) ==
  /\ Goto(c, "http", "idle")
  /\ UNCHANGED <<models, failed, announced, readers, listed, todo, verified, fetched>>

(* mu.Lock, first half.  Writers queue behind one another.                 *)
Announce(c) ==
  /\ Goto(c, "lock", "wait")
  /\ announced = NoCaller
  /\ announced' = c
  /\ UNCHANGED <<models, failed, readers, listed, todo, verified, fetched>>

(* Second half, the assignments - of setLastError after a failure - and    *)
(* mu.Unlock.                                                              *)
RefreshStore(c) ==
  /\ Goto(c, "wait", "idle")
  /\ \A d \in Callers : readers[d] = 0
  /\ \/ fetched[c] = {} /\ failed' = TRUE /\ UNCHANGED models
     \/ \E M \in fetched[c] : failed' = FALSE /\ models' = M
  /\ announced' = NoCaller
  /\ fetched' = [fetched EXCEPT ![c] = {}]
  /\ UNCHANGED <<readers, listed, todo, verified>>

-----------------------------------------------------------------------------
Begin(c) == ResolveBegin(c) \/ SnapshotBegin(c) \/ ListBegin(c) \/ RefreshBegin(c)

(* Steps that may wait for the lock, and steps that never wait.            *)
Locks(c) == ResolveLock(c) \/ SnapshotLock(c) \/ ListLock(c) \/ ListResolve(c) \/ Announce(c)
Runs(c) ==
  \/ ReadEnd(c) \/ ListResolved(c) \/ ListEnd(c)
  \/ RefreshFetched(c) \/ RefreshRefused(c) \/ RefreshStore(c)

Next == \E c \in Callers : Begin(c) \/ Locks(c) \/ Runs(c)

Spec == Init /\ [][Next]_vars

(* Goroutines are scheduled, HTTP calls time out, and the RWMutex starves  *)
(* nobody: a waiting writer keeps new readers out and readers that waited  *)
(* for a writer enter before the next one.                                 *)
FairSpec == Spec /\ \A c \in Callers : SF_vars(Locks(c)) /\ WF_vars(Runs(c))

-----------------------------------------------------------------------------
(* Every List answers from one refresh: of the names it merged, it marks   *)
(* as coming from upstream those whose internal name is in the very list   *)
(* it merged, and no other, even if refreshes arrive between the lookups.  *)
(* (Not the names it merged from upstream: an ID that is not in normal     *)
(* form, or is an alias, is looked up under another name; and the alias of *)
(* an upstream model is marked too.)                                       *)
ListIsSnapshot ==
  \A c \in Callers : pc[c] = "listing" /\ todo[c] = {} =>
    verified[c] = Found(Merged(listed[c]), listed[c])

(* A List that has names left to resolve and a writer that waits for it.   *)
ListBlocked ==
  announced # NoCaller /\ \E c \in Callers : pc[c] = "listing" /\ todo[c] # {}

(* A writer that waits gets the lock, unless it waits for such a List:     *)
(* nothing else in the catalog can hold it up.                             *)
WriterProgress ==
  \A c \in Callers : pc[c] = "wait" ~> (pc[c] = "idle" \/ ListBlocked)

(* Documented: GET /admin/api/models returns the visible models.  That     *)
(* needs every List to return.                                             *)
ListReturns == \A c \in Callers : pc[c] = "list" ~> pc[c] = "idle"
=============================================================================
