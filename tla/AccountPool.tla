----------------------------- MODULE AccountPool -----------------------------
(***************************************************************************)
(* The account pool: provider.Provider of                                  *)
(* src/internal/adapters/token/provider/provider.go.                       *)
(*                                                                         *)
(* Every method runs under p.mu, and keeps it while it calls the OIDC      *)
(* endpoint.  Methods without a loop are one action taken when the mutex   *)
(* is free (mu = "idle").  Acquire and maintainPoolLocked loop over        *)
(* accounts with one OIDC call each: each iteration is a step, so that     *)
(* tokens expire, cooldowns elapse and the process crashes between two     *)
(* iterations, but no other method runs.                                   *)
(*                                                                         *)
(* Data kept: what decides who is handed out.  Weights become an arbitrary *)
(* pick, deadlines become "not yet passed" flags that the environment      *)
(* clears, counters, messages and statistics are left out.                 *)
(***************************************************************************)
EXTENDS Naturals, FiniteSets

CONSTANTS
  Accounts,         \* every account ID that can occur
  Managed,          \* those an administrator imports; the others are external
  HasCreds,         \* those with refresh token, client ID and client secret
  Source,           \* where external accounts are loaded from
  Requests,         \* callers that hold at most one lease each
  PoolSize,         \* cfg.ActivePoolSize
  Persistent,       \* cfg.StatePath is set
  SavesMayFail,     \* a state file write may fail and change nothing
  TornWrites,       \* the process may die inside os.WriteFile
  RefreshFailures,  \* reasons an OIDC call may fail with
  Issued,           \* tokens a 200 answer may hold: expiresIn may be below
                    \* 300 s ("stale"), the accessToken empty ("none")
  ReportReasons,    \* reasons a caller may report
  NoAccount, NoRequest

FailureReasons == {"auth", "ban", "quota", "network", "not_implemented", "unknown"}

ASSUME ManagedAssumption == Managed \subseteq Accounts
ASSUME SourceAssumption == Source \in {"env", "csv", "api"}
ASSUME PoolSizeAssumption == PoolSize \in Nat
ASSUME FlagAssumption ==
  /\ Persistent \in BOOLEAN
  /\ SavesMayFail \in BOOLEAN
  /\ TornWrites \in BOOLEAN
ASSUME ReasonAssumption ==
  /\ RefreshFailures \subseteq FailureReasons \ {"not_implemented"}
  /\ ReportReasons \subseteq FailureReasons
ASSUME IssuedAssumption == Issued \subseteq {"fresh", "stale", "none"}
ASSUME NoneAssumption == NoAccount \notin Accounts /\ NoRequest \notin Requests
ASSUME FiniteAssumption == IsFiniteSet(Accounts)

VARIABLES
  present,      \* IDs in p.accounts
  acct,         \* their state; an ID that is not present has its Fresh state
  lease,        \* the account each request holds a lease on
  mu,           \* what holds p.mu: nothing, Acquire's loop, or the two loops
                \* of maintainPoolLocked; "down": the process is not running
  caller,       \* the request inside Acquire
  preferred, candidates, attempts,   \* locals of Acquire
  todo, need, force,                 \* locals of maintainPoolLocked
  warmPending,  \* a triggerImmediatePoolWarm goroutine waits for the mutex
  recorded,     \* IDs with a record in the state file
  disk,         \* the records
  csvRow,       \* the enabled column of each external account's CSV row
  blocked       \* history: disabled or banned, and not re-enabled by anybody

mutexVars == <<mu, caller, preferred, candidates, attempts, todo, need, force>>
diskVars == <<recorded, disk>>
vars == <<present, acct, lease, mutexVars, warmPending, diskVars, csvRow, blocked>>

External == Accounts \ Managed

AccountState ==
  [disabled : BOOLEAN,
   status   : {"active", "cooling", "disabled", "banned"},
   cool     : BOOLEAN,                                \* CooldownUntil > now
   token    : {"none", "fresh", "stale", "static"},   \* static: ExpiresAt = 0
   inPool   : BOOLEAN]

(* An account as its source loads it.                                      *)
Fresh(a) ==
  [disabled |-> FALSE, status |-> "active", cool |-> FALSE,
   token |-> IF Source = "env" /\ a \in External THEN "static" ELSE "none",
   inPool |-> FALSE]

TypeOK ==
  /\ present \subseteq Accounts
  /\ acct \in [Accounts -> AccountState]
  /\ lease \in [Requests -> Accounts \union {NoAccount}]
  /\ mu \in {"idle", "acquire", "renew", "fill", "down"}
  /\ caller \in Requests \union {NoRequest}
  /\ (mu = "acquire") => (caller \in Requests)
  /\ preferred \subseteq present
  /\ candidates \subseteq present
  /\ todo \subseteq present
  /\ attempts \in Nat
  /\ need \in Nat
  /\ force \in BOOLEAN
  /\ warmPending \in BOOLEAN
  /\ recorded \subseteq Accounts
  /\ disk \in [Accounts -> AccountState]
  /\ csvRow \in [Accounts -> {"on", "maybe", "off"}]
  /\ blocked \subseteq Accounts

-----------------------------------------------------------------------------
(* Helpers of the methods.                                                 *)

(* Mutant: a cooling account keeps its place in the pool.                  *)
ScannedKeepsCooling(s) ==
  CASE s.disabled -> [s EXCEPT !.inPool = FALSE]
    [] ~s.disabled /\ s.cool -> [s EXCEPT !.status = "cooling"]
    [] ~s.disabled /\ ~s.cool /\ s.status = "cooling" -> [s EXCEPT !.status = "active"]
    [] OTHER -> s

(* availableCandidatesLocked is not a read: it drops blocked and cooling   *)
(* accounts from the pool and re-activates those whose cooldown passed.    *)
Scanned(s) ==
  CASE s.disabled -> [s EXCEPT !.inPool = FALSE]
    [] ~s.disabled /\ s.cool -> [s EXCEPT !.inPool = FALSE, !.status = "cooling"]
    [] ~s.disabled /\ ~s.cool /\ s.status = "cooling" -> [s EXCEPT !.status = "active"]
    [] OTHER -> s

Scan(A) == [a \in Accounts |-> IF a \in present THEN Scanned(A[a]) ELSE A[a]]

Usable == {a \in present : ~acct[a].disabled /\ ~acct[a].cool}

WarmedSet(A) == {a \in present : A[a].inPool /\ ~A[a].disabled}
Warmed(A) == Cardinality(WarmedSet(A))

(* Mutant: the bound is forgotten.                                         *)
JoinPoolAlways(A, a) == [A EXCEPT ![a].inPool = TRUE]

(* "if warmed < ActivePoolSize { item.InPool = true }".                    *)
JoinPool(A, a) ==
  IF Warmed(A) < PoolSize THEN [A EXCEPT ![a].inPool = TRUE] ELSE A

(* saveStateLocked: the whole file is rewritten from p.accounts.           *)
Save(A) ==
  \/ /\ Persistent
     /\ recorded' = present'
     /\ disk' = [a \in Accounts |-> [A[a] EXCEPT !.inPool = FALSE]]
  \/ /\ ~Persistent \/ SavesMayFail
     /\ UNCHANGED diskVars

SaveIf(condition, A) == IF condition THEN Save(A) ELSE UNCHANGED diskVars

(* A method that saves twice, A inside ensureBearer (if it was renewed) and *)
(* B at its end: the second save replaces the first, unless it fails.      *)
SaveTwice(renewed, A, B) ==
  \/ Save(B)
  \/ /\ renewed /\ Persistent /\ SavesMayFail
     /\ recorded' = present
     /\ disk' = [a \in Accounts |-> [A[a] EXCEPT !.inPool = FALSE]]

(* ensureBearer: an OIDC call is made with credentials only, and only when *)
(* forced or when the token is missing or within 300 s of its expiry.      *)
(* Without credentials any token will do, an expired one included.         *)
CallsOidc(a, forced) ==
  a \in HasCreds /\ (forced \/ acct[a].token \in {"none", "stale"})

BearerMissing(a) == a \notin HasCreds /\ acct[a].token = "none"

BearerErrors(a, forced) ==
  IF BearerMissing(a) THEN {"auth"}
  ELSE IF CallsOidc(a, forced) THEN RefreshFailures ELSE {}

(* The token of an OIDC answer is stored as it comes.                      *)
Renewed(a, forced, token) ==
  IF CallsOidc(a, forced) THEN [acct EXCEPT ![a].token = token] ELSE acct

(* The field changes of ReportSuccess, DisableAccount, and of EnableAccount *)
(* and RefreshAccount.  The first leaves Disabled as it is; the second     *)
(* leaves InPool as it is.                                                 *)
Succeeded(s) == [s EXCEPT !.status = "active", !.cool = FALSE]
Disabled(s) == [s EXCEPT !.disabled = TRUE, !.status = "disabled", !.cool = FALSE]
EnabledKeepsStatus(s) == [s EXCEPT !.disabled = FALSE, !.cool = FALSE]   \* mutant
Enabled(s) == [s EXCEPT !.disabled = FALSE, !.status = "active", !.cool = FALSE]

(* applyFailure, its save and its disableCSVAccount goroutine.             *)
Failed(s, reason) ==
  CASE reason = "auth" ->
         [s EXCEPT !.disabled = TRUE, !.status = "disabled", !.cool = FALSE, !.inPool = FALSE]
    [] reason = "ban" ->
         [s EXCEPT !.disabled = TRUE, !.status = "banned", !.cool = FALSE, !.inPool = FALSE]
    [] reason = "quota" ->
         [s EXCEPT !.status = "cooling", !.cool = TRUE, !.inPool = FALSE]
    [] reason = "not_implemented" -> [s EXCEPT !.status = "active"]
    [] OTHER -> [s EXCEPT !.status = "cooling", !.cool = TRUE]

(* The goroutine edits the CSV file some time later, or never: it dies     *)
(* with the process, and finds no row once the refresh token was rotated.  *)
DisableCSVRow(a, reason) ==
  csvRow' = IF Source = "csv" /\ a \in External /\ reason \in {"auth", "quota", "ban"}
            THEN [csvRow EXCEPT ![a] = "maybe"]
            ELSE csvRow

(* Mutant: the failure is not saved.                                       *)
ApplyFailureUnsaved(a, reason) ==
  /\ UNCHANGED diskVars
  /\ DisableCSVRow(a, reason)
  /\ blocked' = IF reason \in {"auth", "ban"} THEN blocked \union {a} ELSE blocked

ApplyFailure(a, reason) ==
  /\ Save([acct EXCEPT ![a] = Failed(@, reason)])
  /\ DisableCSVRow(a, reason)
  /\ blocked' = IF reason \in {"auth", "ban"} THEN blocked \union {a} ELSE blocked

ApiRefillEnabled == Source = "api"

ReleaseMutex ==
  /\ mu' = "idle"
  /\ caller' = NoRequest
  /\ preferred' = {} /\ candidates' = {} /\ attempts' = 0
  /\ todo' = {} /\ need' = 0 /\ force' = FALSE

-----------------------------------------------------------------------------
(* Loading: New, that is loadAccounts followed by loadState.               *)

(* A set of external accounts the source may come up with.  An empty CSV   *)
(* or API answer is an error, and the process does not start.              *)
Loadable(L) ==
  CASE Source = "env" -> L = External
    [] Source = "csv" -> /\ L # {}
                         /\ {a \in External : csvRow[a] = "on"} \subseteq L
                         /\ L \subseteq {a \in External : csvRow[a] # "off"}
    [] Source = "api" -> L # {} /\ L \subseteq External

(* Mutant: overrides are not applied.                                      *)
LoadManagedOnly(L) ==
  /\ present' = L \union (recorded \intersect Managed)
  /\ acct' = [a \in Accounts |-> IF a \in Managed \intersect recorded
                                 THEN disk[a] ELSE Fresh(a)]
  /\ csvRow' = [a \in Accounts |-> IF Source = "csv" /\ a \in External /\ a \notin L
                                   THEN "off" ELSE "on"]

(* Records of managed accounts add them; records of external accounts      *)
(* override the ones the source loaded and are ignored for the others.     *)
Load(L) ==
  /\ present' = L \union (recorded \intersect Managed)
  /\ acct' = [a \in Accounts |-> IF a \in present' \intersect recorded
                                 THEN disk[a] ELSE Fresh(a)]
  /\ csvRow' = [a \in Accounts |-> IF Source = "csv" /\ a \in External /\ a \notin L
                                   THEN "off" ELSE "on"]

Init ==
  /\ present = {}
  /\ acct = [a \in Accounts |-> Fresh(a)]
  /\ lease = [r \in Requests |-> NoAccount]
  /\ mu = "down"
  /\ caller = NoRequest
  /\ preferred = {} /\ candidates = {} /\ attempts = 0
  /\ todo = {} /\ need = 0 /\ force = FALSE
  /\ warmPending = FALSE
  /\ recorded = {}
  /\ disk = [a \in Accounts |-> Fresh(a)]
  /\ csvRow = [a \in Accounts |-> "on"]
  /\ blocked = {}

Start ==
  /\ mu = "down"
  /\ \E L \in SUBSET External : Loadable(L) /\ Load(L)
  /\ ReleaseMutex
  /\ UNCHANGED <<lease, warmPending, diskVars, blocked>>

(* The process ends, in the middle of a loop or not.  Killed while it      *)
(* writes the state file, it leaves a truncated one, which New reads as no *)
(* state at all: os.WriteFile truncates first.                             *)
Crash ==
  /\ mu # "down"
  /\ \/ UNCHANGED diskVars
     \/ /\ TornWrites /\ Persistent /\ present # {}
        /\ recorded' = {}
        /\ disk' = [a \in Accounts |-> Fresh(a)]
  /\ mu' = "down"
  /\ caller' = NoRequest
  /\ preferred' = {} /\ candidates' = {} /\ attempts' = 0
  /\ todo' = {} /\ need' = 0 /\ force' = FALSE
  /\ present' = {}
  /\ acct' = [a \in Accounts |-> Fresh(a)]
  /\ lease' = [r \in Requests |-> NoAccount]
  /\ warmPending' = FALSE
  /\ UNCHANGED <<csvRow, blocked>>

-----------------------------------------------------------------------------
(* Acquire.                                                                *)

(* The set to pick from: the hinted account alone when it is available at  *)
(* all, else the pool members among the available ones, else all of them.  *)
PreferredUnchecked(hint) ==   \* mutant: the hint is taken as it comes
  IF hint \in present THEN {hint} ELSE Usable

Preferred(hint) ==
  LET pooled == {a \in Usable : acct[a].inPool}
  IN IF hint \in Usable THEN {hint} ELSE IF pooled # {} THEN pooled ELSE Usable

(* The scan and the choice of the accounts to pick from.                   *)
AcquireBegin(r, hint) ==
  /\ mu = "idle"
  /\ lease[r] = NoAccount
  /\ Usable # {}
  /\ acct' = Scan(acct)
  /\ preferred' = Preferred(hint)
  /\ candidates' = Usable
  /\ attempts' = 0
  /\ mu' = "acquire"
  /\ caller' = r
  /\ UNCHANGED <<todo, need, force, present, lease, warmPending, diskVars, csvRow, blocked>>

(* An iteration whose ensureBearer succeeds returns the lease.             *)
AcquireGrant(a, token) ==
  /\ mu = "acquire"
  /\ a \in preferred
  /\ ~BearerMissing(a)
  /\ LET A == Renewed(a, FALSE, token)
     IN /\ acct' = JoinPool([A EXCEPT ![a].status = "active"], a)
        /\ UNCHANGED present
        /\ SaveIf(CallsOidc(a, FALSE), A)
  /\ lease' = [lease EXCEPT ![caller] = a]
  /\ ReleaseMutex
  /\ UNCHANGED <<warmPending, csvRow, blocked>>

(* Mutant: the failed account is not filtered out.                         *)
AcquireContinuesUnfiltered(a) ==
  IF attempts + 1 < Cardinality(preferred)
  THEN /\ attempts' = attempts + 1
       /\ UNCHANGED <<preferred, candidates, mu, caller, todo, need, force>>
  ELSE ReleaseMutex

(* Mutant: nor are the attempts counted.                                   *)
AcquireContinuesForever(a) == UNCHANGED mutexVars

(* One whose ensureBearer fails drops the account.  When the preferred set *)
(* is used up the remaining candidates take its place.  The loop goes on   *)
(* only while attempts < len(preferred), the preferred set of that moment; *)
(* after it, and on the break, Acquire answers "no active account          *)
(* available".                                                             *)
AcquireContinues(a) ==
  LET rest == preferred \ {a}
      spare == IF rest = {} THEN candidates \ {a} ELSE candidates
      next == IF rest = {} THEN spare ELSE rest
  IN IF attempts + 1 < Cardinality(next)
     THEN /\ preferred' = next
          /\ candidates' = spare
          /\ attempts' = attempts + 1
          /\ UNCHANGED <<mu, caller, todo, need, force>>
     ELSE ReleaseMutex

AcquireFails(a, reason) ==
  /\ mu = "acquire"
  /\ a \in preferred
  /\ reason \in BearerErrors(a, FALSE)
  /\ acct' = [acct EXCEPT ![a] = Failed(@, reason)]
  /\ UNCHANGED present
  /\ ApplyFailure(a, reason)
  /\ AcquireContinues(a)
  /\ UNCHANGED <<lease, warmPending>>

-----------------------------------------------------------------------------
(* Reports.  A lease is reported at most once; the account may have been   *)
(* disabled, deleted or deleted and imported again in between.             *)

ReportSuccess(r) ==
  /\ mu = "idle"
  /\ lease[r] # NoAccount
  /\ LET a == lease[r]
     IN acct' = IF a \in present
                THEN JoinPool([acct EXCEPT ![a] = Succeeded(@)], a)
                ELSE acct
  /\ lease' = [lease EXCEPT ![r] = NoAccount]
  /\ UNCHANGED <<mutexVars, present, warmPending, diskVars, csvRow, blocked>>

ReportFailure(r, reason) ==
  /\ mu = "idle"
  /\ lease[r] # NoAccount
  /\ UNCHANGED present
  /\ LET a == lease[r]
     IN IF a \in present
        THEN /\ acct' = [acct EXCEPT ![a] = Failed(@, reason)]
             /\ ApplyFailure(a, reason)
             /\ warmPending' = (warmPending \/ (/\ acct[a].inPool /\ ApiRefillEnabled
                                               /\ Warmed(acct') < PoolSize))
        ELSE UNCHANGED <<acct, warmPending, diskVars, csvRow, blocked>>
  /\ lease' = [lease EXCEPT ![r] = NoAccount]
  /\ UNCHANGED mutexVars

(* A caller may end without a report: the catalog refresh does when it     *)
(* cannot read or decode the model list.                                   *)
LeaseDropped(r) ==
  /\ lease[r] # NoAccount
  /\ lease' = [lease EXCEPT ![r] = NoAccount]
  /\ UNCHANGED <<mutexVars, present, acct, warmPending, diskVars, csvRow, blocked>>

-----------------------------------------------------------------------------
(* maintainPoolLocked: WarmPool (forced = FALSE) and RefreshPool (TRUE).   *)

(* Mutant: nothing is done while the pool is empty.                        *)
MaintainBeginNonEmpty(forced) ==
  /\ mu = "idle"
  /\ PoolSize > 0
  /\ acct' = Scan(acct)
  /\ mu' = "renew"
  /\ todo' = {a \in Usable : acct[a].inPool} /\ todo' # {}
  /\ force' = forced
  /\ UNCHANGED <<caller, preferred, candidates, attempts, need,
                 present, lease, diskVars, csvRow, blocked>>

MaintainBegin(forced) ==
  /\ mu = "idle"
  /\ PoolSize > 0
  /\ acct' = Scan(acct)
  /\ mu' = "renew"
  /\ todo' = {a \in Usable : acct[a].inPool}
  /\ force' = forced
  /\ UNCHANGED <<caller, preferred, candidates, attempts, need,
                 present, lease, diskVars, csvRow, blocked>>

(* From the token pool runner, the admin endpoint, or the goroutine that   *)
(* ReportFailure started.                                                  *)
WarmPool == MaintainBegin(FALSE) /\ warmPending' \in {warmPending, FALSE}
RefreshPool == MaintainBegin(TRUE) /\ UNCHANGED warmPending

(* First loop: a pool member whose ensureBearer fails leaves the pool.     *)
RenewMember(a, token) ==
  /\ mu = "renew"
  /\ a \in todo
  /\ UNCHANGED present
  /\ \/ /\ ~BearerMissing(a)
        /\ acct' = Renewed(a, force, token)
        /\ SaveIf(CallsOidc(a, force), acct')
        /\ UNCHANGED <<csvRow, blocked>>
     \/ \E reason \in BearerErrors(a, force) :
          /\ acct' = [acct EXCEPT ![a] = [Failed(@, reason) EXCEPT !.inPool = FALSE]]
          /\ ApplyFailure(a, reason)
  /\ todo' = todo \ {a}
  /\ UNCHANGED <<mu, caller, preferred, candidates, attempts, need, force, lease, warmPending>>

(* Mutant: an overfull pool is not clamped.                                *)
MissingUnclamped(pooled) == PoolSize - Cardinality(pooled)

(* The members still wanted, never negative.                               *)
Missing(pooled) ==
  IF Cardinality(pooled) < PoolSize THEN PoolSize - Cardinality(pooled) ELSE 0

(* The accounts an API answer adds: those with a new ID.                   *)
Added(fetched, missing) ==
  IF missing > 0 /\ ApiRefillEnabled THEN fetched \ present ELSE {}

(* Between the loops: scan again, count what is missing, and let the       *)
(* account API add accounts (which get no override from the state file).   *)
Refill(fetched) ==
  /\ mu = "renew"
  /\ todo = {}
  /\ LET A == Scan(acct)
         pooled == {a \in Usable : acct[a].inPool}
         missing == Missing(pooled)
         added == Added(fetched, missing)
     IN /\ present' = present \union added
        /\ acct' = A
        /\ SaveIf(added # {}, A)
        /\ need' = missing
        /\ todo' = IF missing > 0 THEN (Usable \ pooled) \union added ELSE {}
  /\ mu' = "fill"
  /\ UNCHANGED <<caller, preferred, candidates, attempts, force,
                 lease, warmPending, csvRow, blocked>>

(* Second loop: add usable accounts until none is missing.                 *)
FillMember(a, token) ==
  /\ mu = "fill"
  /\ a \in todo
  /\ need > 0
  /\ UNCHANGED present
  /\ \/ /\ ~BearerMissing(a)
        /\ LET A == Renewed(a, FALSE, token)
           IN /\ acct' = [A EXCEPT ![a].inPool = TRUE]
              /\ SaveIf(CallsOidc(a, FALSE), A)
        /\ need' = need - 1
        /\ UNCHANGED <<csvRow, blocked>>
     \/ \E reason \in BearerErrors(a, FALSE) :
          /\ acct' = [acct EXCEPT ![a] = Failed(@, reason)]
          /\ ApplyFailure(a, reason)
          /\ UNCHANGED need
  /\ todo' = todo \ {a}
  /\ UNCHANGED <<mu, caller, preferred, candidates, attempts, force, lease, warmPending>>

(* The snapshot that maintainPoolLocked returns scans once more.           *)
MaintainEnd ==
  /\ mu = "fill"
  /\ todo = {} \/ need = 0
  /\ acct' = Scan(acct)
  /\ ReleaseMutex
  /\ UNCHANGED <<present, lease, warmPending, diskVars, csvRow, blocked>>

(* PoolSnapshot, and an Acquire that finds no candidate.                   *)
PoolSnapshot ==
  /\ mu = "idle"
  /\ acct' = Scan(acct)
  /\ UNCHANGED <<mutexVars, present, lease, warmPending, diskVars, csvRow, blocked>>

-----------------------------------------------------------------------------
(* Administration.                                                         *)

DisableAccount(a) ==
  /\ mu = "idle"
  /\ a \in present
  /\ acct' = [acct EXCEPT ![a] = Disabled(@)]
  /\ UNCHANGED present
  /\ Save(acct')
  /\ blocked' = blocked \union {a}
  /\ UNCHANGED <<mutexVars, lease, warmPending, csvRow>>

EnableAccount(a) ==
  /\ mu = "idle"
  /\ a \in present
  /\ acct' = [acct EXCEPT ![a] = Enabled(@)]
  /\ UNCHANGED present
  /\ Save(acct')
  /\ blocked' = blocked \ {a}
  /\ UNCHANGED <<mutexVars, lease, warmPending, csvRow>>

UpdateWeight ==
  /\ mu = "idle"
  /\ present # {}
  /\ UNCHANGED <<present, acct>>
  /\ Save(acct)
  /\ UNCHANGED <<mutexVars, lease, warmPending, csvRow, blocked>>

(* Deleting an external account disables it.                               *)
DeleteAccount(a) ==
  /\ mu = "idle"
  /\ a \in present
  /\ IF a \in Managed
     THEN /\ present' = present \ {a}
          /\ acct' = [acct EXCEPT ![a] = Fresh(a)]
          /\ Save(acct')
          /\ blocked' = blocked \ {a}
          /\ UNCHANGED <<mutexVars, lease, warmPending, csvRow>>
     ELSE DisableAccount(a)

(* RefreshAccount forces a refresh and, on success, enables the account.   *)
(* On failure it changes nothing.                                          *)
RefreshAccount(a, token) ==
  /\ mu = "idle"
  /\ a \in present
  /\ ~BearerMissing(a)
  /\ acct' = JoinPool([Renewed(a, TRUE, token) EXCEPT ![a] = Enabled(@)], a)
  /\ UNCHANGED present
  /\ SaveTwice(CallsOidc(a, TRUE), Renewed(a, TRUE, token), acct')
  /\ blocked' = blocked \ {a}
  /\ UNCHANGED <<mutexVars, lease, warmPending, csvRow>>

(* An import with a bearer keeps it as it is; one with a refresh token     *)
(* only gets a bearer from OIDC, or is refused.                            *)
ImportAccount(a, token) ==
  /\ mu = "idle"
  /\ a \in Managed \ present
  /\ token = "static" \/ (token \in Issued /\ a \in HasCreds)
  /\ present' = present \union {a}
  /\ acct' = [acct EXCEPT ![a] = [Fresh(a) EXCEPT !.token = token,
                                                 !.inPool = Warmed(acct) < PoolSize]]
  /\ SaveTwice(token # "static", acct, acct')
  /\ blocked' = blocked \ {a}
  /\ UNCHANGED <<mutexVars, lease, warmPending, csvRow>>

-----------------------------------------------------------------------------
(* Time.  Deadlines in memory and in the state file pass together.         *)

TokenExpires(a) ==
  /\ "fresh" \in {acct[a].token, disk[a].token}
  /\ acct' = [acct EXCEPT ![a].token = IF @ = "fresh" THEN "stale" ELSE @]
  /\ disk' = [disk EXCEPT ![a].token = IF @ = "fresh" THEN "stale" ELSE @]
  /\ UNCHANGED <<mutexVars, present, lease, warmPending, recorded, csvRow, blocked>>

CooldownElapses(a) ==
  /\ acct[a].cool \/ disk[a].cool
  /\ acct' = [acct EXCEPT ![a].cool = FALSE]
  /\ disk' = [disk EXCEPT ![a].cool = FALSE]
  /\ UNCHANGED <<mutexVars, present, lease, warmPending, recorded, csvRow, blocked>>

-----------------------------------------------------------------------------
Lifecycle == Start \/ Crash

Acquire ==
  \/ \E r \in Requests, hint \in Accounts \union {NoAccount} : AcquireBegin(r, hint)
  \/ \E a \in Accounts, token \in Issued : AcquireGrant(a, token)
  \/ \E a \in Accounts, reason \in FailureReasons : AcquireFails(a, reason)

Report ==
  \E r \in Requests :
    \/ ReportSuccess(r)
    \/ \E reason \in ReportReasons : ReportFailure(r, reason)
    \/ LeaseDropped(r)

Maintain ==
  \/ WarmPool
  \/ RefreshPool
  \/ \E a \in Accounts, token \in Issued : RenewMember(a, token) \/ FillMember(a, token)
  \/ \E fetched \in SUBSET External : Refill(fetched)
  \/ MaintainEnd
  \/ PoolSnapshot

Administration ==
  \/ UpdateWeight
  \/ \E a \in Accounts :
       \/ DisableAccount(a) \/ EnableAccount(a) \/ DeleteAccount(a)
       \/ \E token \in Issued : RefreshAccount(a, token)
       \/ \E token \in {"static"} \union Issued : ImportAccount(a, token)

Time == \E a \in Accounts : TokenExpires(a) \/ CooldownElapses(a)

Next == Lifecycle \/ Acquire \/ Report \/ Maintain \/ Administration \/ Time

Spec == Init /\ [][Next]_vars

(* The mutex is not starved (Go's sync.Mutex hands over after 1 ms), every *)
(* HTTP call returns (the client has a timeout), so loops advance.         *)
Fairness ==
  /\ WF_vars(\/ \E a \in Accounts, token \in Issued :
                  AcquireGrant(a, token) \/ RenewMember(a, token) \/ FillMember(a, token)
             \/ \E a \in Accounts, reason \in FailureReasons : AcquireFails(a, reason)
             \/ \E fetched \in SUBSET External : Refill(fetched)
             \/ MaintainEnd)
  /\ SF_vars(warmPending /\ WarmPool /\ ~warmPending')

FairSpec == Spec /\ Fairness

-----------------------------------------------------------------------------
(* Safety.                                                                 *)

Granted(a) == \E r \in Requests : lease[r] = NoAccount /\ lease'[r] = a

(* Acquire hands out only accounts that nobody disabled or banned without  *)
(* an administrator taking it back - a restart in between included - and   *)
(* that are not cooling down.  The token lasts for another 300 s, with two *)
(* exceptions: an account without credentials goes out with an expired one *)
(* (never with none), and what OIDC answered in this very Acquire goes out *)
(* unchecked, without any token if the answer held none.                   *)
LeaseOnlyUsable ==
  [][\A a \in Accounts : Granted(a) =>
       /\ a \in present /\ a \notin blocked
       /\ ~acct[a].disabled /\ ~acct[a].cool
       /\ \/ acct'[a].token \in {"fresh", "static"}
          \/ acct'[a].token = "stale" /\ a \notin HasCreds
          \/ CallsOidc(a, FALSE)]_vars

(* A running process knows every block: what disabled an account survived  *)
(* each rewrite of the state file and each restart since.                  *)
BlockedIsDisabled == \A a \in present : a \in blocked => acct[a].disabled

(* No account is enabled while its status says it is disabled or banned,   *)
(* however reports, admin calls and restarts interleave.                   *)
EnabledIsSchedulable ==
  \A a \in present : ~acct[a].disabled => acct[a].status \in {"active", "cooling"}

(* While Acquire has not failed yet, all its candidates can be handed out; *)
(* once it has, its preferred accounts still can.  (The candidates then    *)
(* include accounts that just failed: only the loop bound keeps Acquire    *)
(* from coming back to them.)                                              *)
AcquireNeverRetriesFailed ==
  mu = "acquire" =>
    /\ preferred \subseteq Usable
    /\ attempts = 0 => preferred \subseteq candidates /\ candidates \subseteq Usable

(* A step enlarges the warmed pool beyond its target only by enabling a    *)
(* disabled account; no interleaving of leases, reports and maintenance    *)
(* does.                                                                   *)
PoolGrowth ==
  [][LET W == WarmedSet(acct)
         V == WarmedSet(acct)'
     IN Cardinality(V) > PoolSize /\ Cardinality(V) > Cardinality(W) =>
          \E a \in present : acct[a].disabled /\ ~acct'[a].disabled]_vars

(* The second loop of maintainPoolLocked counts right: "need" is what the  *)
(* pool lacks at every iteration, no blocked or cooling account is in the  *)
(* pool, and while something is missing every account already passed over  *)
(* is in the pool or unavailable.                                          *)
MaintainFillsPool ==
  mu = "fill" =>
    /\ need = IF Warmed(acct) < PoolSize THEN PoolSize - Warmed(acct) ELSE 0
    /\ \A a \in present : acct[a].inPool => a \in Usable
    /\ need > 0 => \A a \in present \ todo :
         acct[a].inPool \/ acct[a].disabled \/ acct[a].status = "cooling"

(* Whenever no save fails, a disk record and the running process agree on  *)
(* what is disabled, and no disabled account lacks a record.               *)
DiskKnowsDisabled ==
  \A a \in present :
    IF a \in recorded THEN disk[a].disabled = acct[a].disabled ELSE ~acct[a].disabled

-----------------------------------------------------------------------------
(* Liveness, under Fairness.                                               *)

(* Every Acquire and every pool maintenance lets go of the mutex, however  *)
(* its OIDC calls end.                                                     *)
MutexReleased == mu \in {"acquire", "renew", "fill"} ~> mu \in {"idle", "down"}

(* The refill that ReportFailure asks for when an API pool loses a member  *)
(* is carried out, unless the process ends first.                          *)
RefillRuns == warmPending ~> (mu = "renew" \/ mu = "down")

-----------------------------------------------------------------------------
(* What the documentation says and the code does not do.                   *)

(* "no active account available" (the answer of an Acquire that gives up)  *)
(* means that no account is active: each is disabled or has been cooling   *)
(* down.                                                                   *)
NoActiveAccountIsTrue ==
  [][mu = "acquire" /\ mu' = "idle" /\ lease' = lease =>
       \A a \in present : acct'[a].disabled \/ acct'[a].status = "cooling"]_vars

=============================================================================
