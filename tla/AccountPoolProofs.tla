-------------------------- MODULE AccountPoolProofs --------------------------
(***************************************************************************)
(* Proofs about AccountPool for every set of accounts and requests, every  *)
(* pool size, source and failure behaviour.                                *)
(***************************************************************************)
EXTENDS AccountPool, FiniteSetTheorems, TLAPS

(* Outside the loops their locals are empty.                               *)
LoopsEmpty ==
  mu \in {"idle", "down"} => preferred = {} /\ candidates = {} /\ todo = {}

TypeInv == TypeOK /\ LoopsEmpty

-----------------------------------------------------------------------------
(* What the helpers return.                                                *)

(* A freshly loaded account has an account state.                          *)
LEMMA FreshType == \A a \in Accounts : Fresh(a) \in AccountState
  BY DEF Fresh, AccountState

(* A scan of an account leaves an account state.                           *)
LEMMA ScannedType == \A s \in AccountState : Scanned(s) \in AccountState
<1> SUFFICES ASSUME NEW s \in AccountState PROVE Scanned(s) \in AccountState
  OBVIOUS
<1>1. CASE s.disabled
  BY <1>1 DEF Scanned, AccountState
<1>2. CASE ~s.disabled /\ s.cool
  BY <1>2 DEF Scanned, AccountState
<1>3. CASE ~s.disabled /\ ~s.cool
  BY <1>3 DEF Scanned, AccountState
<1> QED
  BY <1>1, <1>2, <1>3

(* So does a failure, whatever its reason.                                 *)
LEMMA FailedType ==
  \A s \in AccountState, reason \in FailureReasons : Failed(s, reason) \in AccountState
<1> SUFFICES ASSUME NEW s \in AccountState, NEW reason \in FailureReasons
             PROVE  Failed(s, reason) \in AccountState
  OBVIOUS
<1>1. CASE reason = "auth"
  BY <1>1 DEF Failed, AccountState
<1>2. CASE reason = "ban"
  BY <1>2 DEF Failed, AccountState
<1>3. CASE reason = "quota"
  BY <1>3 DEF Failed, AccountState
<1>4. CASE reason = "not_implemented"
  BY <1>4 DEF Failed, AccountState
<1>5. CASE reason \in {"network", "unknown"}
  BY <1>5 DEF Failed, AccountState
<1> QED
  BY <1>1, <1>2, <1>3, <1>4, <1>5 DEF FailureReasons

(* So do a success and the decisions of an administrator.                  *)
LEMMA AdminType ==
  \A s \in AccountState : /\ Succeeded(s) \in AccountState
                          /\ Disabled(s) \in AccountState
                          /\ Enabled(s) \in AccountState
  BY DEF Succeeded, Disabled, Enabled, AccountState

(* So does writing one field.                                              *)
LEMMA FieldType ==
  \A s \in AccountState :
    /\ \A b \in BOOLEAN : /\ [s EXCEPT !.inPool = b] \in AccountState
                         /\ [s EXCEPT !.cool = b] \in AccountState
    /\ \A t \in {"none", "fresh", "stale", "static"} : [s EXCEPT !.token = t] \in AccountState
  BY DEF AccountState

(* The number of warmed accounts is a natural number.                      *)
LEMMA WarmedType ==
  ASSUME present \subseteq Accounts, NEW A
  PROVE  IsFiniteSet(WarmedSet(A)) /\ Warmed(A) \in Nat
<1>1. IsFiniteSet(WarmedSet(A))
  BY FiniteAssumption, FS_Subset DEF WarmedSet
<1> QED
  BY <1>1, FS_CardinalityType DEF Warmed

(* Updating one account, scanning all and joining the pool keep the type   *)
(* of the account table.                                                   *)
LEMMA UpdateType ==
  ASSUME NEW A \in [Accounts -> AccountState], NEW a \in Accounts, NEW s \in AccountState
  PROVE  [A EXCEPT ![a] = s] \in [Accounts -> AccountState]
  OBVIOUS

(* A scan of the whole table keeps its type.                               *)
LEMMA ScanType ==
  ASSUME NEW A \in [Accounts -> AccountState]
  PROVE  Scan(A) \in [Accounts -> AccountState]
  BY ScannedType DEF Scan

(* So does joining the pool.                                               *)
LEMMA JoinPoolType ==
  ASSUME NEW A \in [Accounts -> AccountState], NEW a \in Accounts
  PROVE  JoinPool(A, a) \in [Accounts -> AccountState]
<1>1. [A[a] EXCEPT !.inPool = TRUE] \in AccountState
  BY DEF AccountState
<1> QED
  BY <1>1 DEF JoinPool

(* So does a token refresh.                                                *)
LEMMA RenewedType ==
  ASSUME acct \in [Accounts -> AccountState], NEW a \in Accounts, NEW forced \in BOOLEAN,
         NEW token \in Issued
  PROVE  Renewed(a, forced, token) \in [Accounts -> AccountState]
<1>1. [acct[a] EXCEPT !.token = token] \in AccountState
  BY IssuedAssumption DEF AccountState
<1> QED
  BY <1>1 DEF Renewed

(* So does an import.                                                      *)
LEMMA ImportType ==
  ASSUME TypeOK, NEW a \in Accounts, NEW token \in {"static"} \union Issued
  PROVE  [acct EXCEPT ![a] = [Fresh(a) EXCEPT !.token = token,
                                             !.inPool = Warmed(acct) < PoolSize]]
           \in [Accounts -> AccountState]
<1>1. (Warmed(acct) < PoolSize) \in BOOLEAN
  BY WarmedType, PoolSizeAssumption DEF TypeOK
<1>2. [Fresh(a) EXCEPT !.token = token] \in AccountState
  BY FreshType, FieldType, IssuedAssumption
<1>3. [Fresh(a) EXCEPT !.token = token, !.inPool = Warmed(acct) < PoolSize]
        = [[Fresh(a) EXCEPT !.token = token] EXCEPT !.inPool = (Warmed(acct) < PoolSize)]
  BY FreshType DEF AccountState
<1>4. [Fresh(a) EXCEPT !.token = token, !.inPool = Warmed(acct) < PoolSize] \in AccountState
  BY <1>1, <1>2, <1>3, FieldType
<1> QED
  BY <1>4, UpdateType DEF TypeOK

(* A save leaves a well-typed state file.                                  *)
LEMMA SaveType ==
  ASSUME NEW A \in [Accounts -> AccountState], TypeOK, present' \subseteq Accounts,
         Save(A)
  PROVE  recorded' \subseteq Accounts /\ disk' \in [Accounts -> AccountState]
<1>1. \A a \in Accounts : [A[a] EXCEPT !.inPool = FALSE] \in AccountState
  BY DEF AccountState
<1>2. CASE UNCHANGED diskVars
  BY <1>2 DEF diskVars, TypeOK
<1>3. CASE recorded' = present' /\ disk' = [a \in Accounts |-> [A[a] EXCEPT !.inPool = FALSE]]
  BY <1>1, <1>3
<1> QED
  BY <1>2, <1>3 DEF Save

(* So does a save that depends on a condition.                             *)
LEMMA SaveIfType ==
  ASSUME NEW A \in [Accounts -> AccountState], TypeOK, present' \subseteq Accounts,
         NEW c \in BOOLEAN, SaveIf(c, A)
  PROVE  recorded' \subseteq Accounts /\ disk' \in [Accounts -> AccountState]
  BY SaveType DEF SaveIf, diskVars, TypeOK

(* So do the two saves of a method that renews a token first.              *)
LEMMA SaveTwiceType ==
  ASSUME NEW A \in [Accounts -> AccountState], NEW B \in [Accounts -> AccountState],
         NEW c \in BOOLEAN, TypeOK, present' \subseteq Accounts, SaveTwice(c, A, B)
  PROVE  recorded' \subseteq Accounts /\ disk' \in [Accounts -> AccountState]
<1>1. CASE Save(B)
  BY <1>1, SaveType
<1>2. CASE recorded' = present /\ disk' = [a \in Accounts |-> [A[a] EXCEPT !.inPool = FALSE]]
  <2>1. \A a \in Accounts : [A[a] EXCEPT !.inPool = FALSE] \in AccountState
    BY DEF AccountState
  <2> QED
    BY <1>2, <2>1 DEF TypeOK
<1> QED
  BY <1>1, <1>2 DEF SaveTwice

(* applyFailure leaves a well-typed state file, CSV file and history.      *)
LEMMA ApplyFailureType ==
  ASSUME TypeOK, present' = present, NEW a \in Accounts, NEW reason \in FailureReasons,
         ApplyFailure(a, reason)
  PROVE  /\ recorded' \subseteq Accounts /\ disk' \in [Accounts -> AccountState]
         /\ csvRow' \in [Accounts -> {"on", "maybe", "off"}]
         /\ blocked' \subseteq Accounts
<1>1. Failed(acct[a], reason) \in AccountState
  BY FailedType DEF TypeOK
<1>2. [acct EXCEPT ![a] = Failed(@, reason)] \in [Accounts -> AccountState]
  BY <1>1 DEF TypeOK
<1>3. recorded' \subseteq Accounts /\ disk' \in [Accounts -> AccountState]
  BY <1>2, SaveType DEF ApplyFailure, TypeOK
<1>4. csvRow' \in [Accounts -> {"on", "maybe", "off"}]
  BY DEF ApplyFailure, DisableCSVRow, TypeOK
<1>5. blocked' \subseteq Accounts
  BY DEF ApplyFailure, TypeOK
<1> QED
  BY <1>3, <1>4, <1>5
-----------------------------------------------------------------------------
(* Type correctness.                                                       *)

(* Every action preserves the type invariant.                              *)
LEMMA TypeStep == TypeInv /\ [Next]_vars => TypeInv'
<1> SUFFICES ASSUME TypeInv, [Next]_vars PROVE TypeInv'
  OBVIOUS
<1> USE DEF TypeInv, LoopsEmpty
<1>1. CASE Start
  <2>1. PICK L \in SUBSET External : Load(L)
    BY <1>1 DEF Start
  <2>2. present' \subseteq Accounts /\ acct' \in [Accounts -> AccountState]
    BY <2>1, FreshType, ManagedAssumption DEF Load, External, TypeOK
  <2>3. csvRow' \in [Accounts -> {"on", "maybe", "off"}]
    BY <2>1 DEF Load
  <2> QED
    BY <1>1, <2>2, <2>3 DEF Start, ReleaseMutex, diskVars, TypeOK
<1>2. CASE Crash
  <2>1. recorded' \subseteq Accounts /\ disk' \in [Accounts -> AccountState]
    BY <1>2, FreshType DEF Crash, diskVars, TypeOK
  <2> QED
    BY <1>2, <2>1, FreshType DEF Crash, TypeOK
<1>3. ASSUME NEW r \in Requests, NEW hint \in Accounts \union {NoAccount}, AcquireBegin(r, hint)
      PROVE  TypeInv'
  <2>1. acct' \in [Accounts -> AccountState]
    BY <1>3, ScanType DEF AcquireBegin, TypeOK
  <2>2. preferred' \subseteq present /\ candidates' \subseteq present
    BY <1>3 DEF AcquireBegin, Preferred, Usable
  <2> QED
    BY <1>3, <2>1, <2>2 DEF AcquireBegin, diskVars, TypeOK
<1>4. ASSUME NEW a \in Accounts, NEW token \in Issued, AcquireGrant(a, token) PROVE TypeInv'
  <2> DEFINE A == Renewed(a, FALSE, token)
  <2>1. A \in [Accounts -> AccountState]
    BY RenewedType DEF TypeOK
  <2>2. [A EXCEPT ![a].status = "active"] \in [Accounts -> AccountState]
    <3>1. [A[a] EXCEPT !.status = "active"] \in AccountState
      BY <2>1 DEF AccountState
    <3> QED
      BY <2>1, <3>1
  <2>3. acct' \in [Accounts -> AccountState]
    BY <1>4, <2>2, JoinPoolType DEF AcquireGrant
  <2>4. recorded' \subseteq Accounts /\ disk' \in [Accounts -> AccountState]
    BY <1>4, <2>1, SaveIfType DEF AcquireGrant, CallsOidc, TypeOK
  <2> QED
    BY <1>4, <2>3, <2>4 DEF AcquireGrant, ReleaseMutex, TypeOK
<1>5. ASSUME NEW a \in Accounts, NEW reason \in FailureReasons, AcquireFails(a, reason)
      PROVE  TypeInv'
  <2>1. acct' \in [Accounts -> AccountState]
    BY <1>5, FailedType, UpdateType DEF AcquireFails, TypeOK
  <2>2. /\ recorded' \subseteq Accounts /\ disk' \in [Accounts -> AccountState]
        /\ csvRow' \in [Accounts -> {"on", "maybe", "off"}]
        /\ blocked' \subseteq Accounts
    BY <1>5, ApplyFailureType DEF AcquireFails
  <2>3. \/ /\ preferred' \subseteq present /\ candidates' \subseteq present
           /\ attempts' = attempts + 1
           /\ UNCHANGED <<mu, caller, todo, need, force>>
        \/ ReleaseMutex
    <3> DEFINE rest == preferred \ {a}
               spare == IF rest = {} THEN candidates \ {a} ELSE candidates
               next == IF rest = {} THEN spare ELSE rest
    <3>1. next \subseteq present /\ spare \subseteq present
      BY DEF TypeOK
    <3>2. CASE attempts + 1 < Cardinality(next)
      BY <1>5, <3>1, <3>2 DEF AcquireFails, AcquireContinues
    <3>3. CASE ~(attempts + 1 < Cardinality(next))
      BY <1>5, <3>3 DEF AcquireFails, AcquireContinues
    <3> QED
      BY <3>2, <3>3
  <2>4. /\ attempts' \in Nat /\ need' \in Nat /\ force' \in BOOLEAN
        /\ preferred' \subseteq present /\ candidates' \subseteq present /\ todo' \subseteq present
        /\ mu' \in {"idle", "acquire"} /\ caller' \in Requests \union {NoRequest}
        /\ mu' = "acquire" => caller' \in Requests
        /\ mu' = "idle" => preferred' = {} /\ candidates' = {} /\ todo' = {}
    <3>1. mu = "acquire"
      BY <1>5 DEF AcquireFails
    <3>2. CASE ReleaseMutex
      BY <3>2 DEF ReleaseMutex
    <3>3. CASE ~ReleaseMutex
      BY <2>3, <3>1, <3>3 DEF TypeOK
    <3> QED
      BY <3>2, <3>3
  <2> QED
    BY <1>5, <2>1, <2>2, <2>4 DEF AcquireFails, TypeOK
<1>6. ASSUME NEW r \in Requests, ReportSuccess(r) PROVE TypeInv'
  <2> DEFINE a == lease[r]
             A == [acct EXCEPT ![a] = Succeeded(@)]
  <2>1. acct' \in [Accounts -> AccountState]
    <3>1. CASE a \in present
      <4>1. A \in [Accounts -> AccountState]
        BY <3>1, AdminType, UpdateType DEF TypeOK
      <4> QED
        BY <1>6, <3>1, <4>1, JoinPoolType DEF ReportSuccess, TypeOK
    <3> QED
      BY <1>6, <3>1 DEF ReportSuccess, TypeOK
  <2>2. lease' \in [Requests -> Accounts \union {NoAccount}]
    BY <1>6 DEF ReportSuccess, TypeOK
  <2> QED
    BY <1>6, <2>1, <2>2 DEF ReportSuccess, mutexVars, diskVars, TypeOK
<1>7. ASSUME NEW r \in Requests, NEW reason \in FailureReasons, ReportFailure(r, reason)
      PROVE  TypeInv'
  <2>1. lease' \in [Requests -> Accounts \union {NoAccount}]
    BY <1>7 DEF ReportFailure, TypeOK
  <2>2. CASE lease[r] \in present
    <3>1. lease[r] \in Accounts
      BY <2>2 DEF TypeOK
    <3>2. acct' \in [Accounts -> AccountState]
      BY <1>7, <2>2, <3>1, FailedType, UpdateType DEF ReportFailure, TypeOK
    <3>3. /\ recorded' \subseteq Accounts /\ disk' \in [Accounts -> AccountState]
          /\ csvRow' \in [Accounts -> {"on", "maybe", "off"}]
          /\ blocked' \subseteq Accounts
      BY <1>7, <2>2, <3>1, ApplyFailureType DEF ReportFailure
    <3>4. warmPending' \in BOOLEAN
      BY <1>7, <2>2 DEF ReportFailure
    <3> QED
      BY <1>7, <2>1, <3>2, <3>3, <3>4 DEF ReportFailure, mutexVars, TypeOK
  <2>3. CASE lease[r] \notin present
    BY <1>7, <2>1, <2>3 DEF ReportFailure, mutexVars, diskVars, TypeOK
  <2> QED
    BY <2>2, <2>3
<1>29. ASSUME NEW r \in Requests, LeaseDropped(r) PROVE TypeInv'
  BY <1>29 DEF LeaseDropped, mutexVars, diskVars, TypeOK
<1>8. ASSUME NEW forced \in BOOLEAN, MaintainBegin(forced), warmPending' \in BOOLEAN
      PROVE  TypeInv'
  <2>1. acct' \in [Accounts -> AccountState]
    BY <1>8, ScanType DEF MaintainBegin, TypeOK
  <2>2. todo' \subseteq present
    BY <1>8 DEF MaintainBegin, Usable
  <2> QED
    BY <1>8, <2>1, <2>2 DEF MaintainBegin, diskVars, TypeOK
<1>9. ASSUME NEW a \in Accounts, NEW token \in Issued, RenewMember(a, token) PROVE TypeInv'
  <2>1. todo' \subseteq present /\ present' = present
    BY <1>9 DEF RenewMember, TypeOK
  <2>2. CASE /\ acct' = Renewed(a, force, token)
             /\ SaveIf(CallsOidc(a, force), acct')
             /\ UNCHANGED <<csvRow, blocked>>
    <3>1. acct' \in [Accounts -> AccountState]
      BY <2>2, RenewedType DEF TypeOK
    <3>2. recorded' \subseteq Accounts /\ disk' \in [Accounts -> AccountState]
      BY <2>1, <2>2, <3>1, SaveIfType DEF CallsOidc, TypeOK
    <3> QED
      BY <1>9, <2>1, <2>2, <3>1, <3>2 DEF RenewMember, TypeOK
  <2>3. ASSUME NEW reason \in BearerErrors(a, force), ApplyFailure(a, reason),
               acct' = [acct EXCEPT ![a] = [Failed(@, reason) EXCEPT !.inPool = FALSE]]
        PROVE  TypeInv'
    <3>1. reason \in FailureReasons
      BY <2>3, ReasonAssumption DEF BearerErrors, FailureReasons
    <3>2. [Failed(acct[a], reason) EXCEPT !.inPool = FALSE] \in AccountState
      BY <3>1, FailedType, FieldType DEF TypeOK
    <3>3. acct' \in [Accounts -> AccountState]
      BY <2>3, <3>2 DEF TypeOK
    <3> QED
      BY <1>9, <2>1, <2>3, <3>1, <3>3, ApplyFailureType DEF RenewMember, TypeOK
  <2> QED
    BY <1>9, <2>2, <2>3 DEF RenewMember
<1>10. ASSUME NEW fetched \in SUBSET External, Refill(fetched) PROVE TypeInv'
  <2>1. acct' \in [Accounts -> AccountState]
    BY <1>10, ScanType DEF Refill, TypeOK
  <2>2. present' \subseteq Accounts /\ present \subseteq present'
    BY <1>10 DEF Refill, Added, External, TypeOK
  <2>3. todo' \subseteq present'
    BY <1>10 DEF Refill, Usable
  <2>4. need' \in Nat
    <3>1. IsFiniteSet({a \in Usable : acct[a].inPool})
      BY FiniteAssumption, FS_Subset DEF Usable, TypeOK
    <3>2. Cardinality({a \in Usable : acct[a].inPool}) \in Nat
      BY <3>1, FS_CardinalityType
    <3> QED
      BY <1>10, <3>2, PoolSizeAssumption DEF Refill, Missing
  <2>5. recorded' \subseteq Accounts /\ disk' \in [Accounts -> AccountState]
    <3>1. PICK c \in BOOLEAN : SaveIf(c, acct')
      BY <1>10 DEF Refill
    <3> QED
      BY <2>1, <2>2, <3>1, SaveIfType
  <2> QED
    BY <1>10, <2>1, <2>2, <2>3, <2>4, <2>5 DEF Refill, TypeOK
<1>11. ASSUME NEW a \in Accounts, NEW token \in Issued, FillMember(a, token) PROVE TypeInv'
  <2>1. todo' \subseteq present /\ present' = present
    BY <1>11 DEF FillMember, TypeOK
  <2> DEFINE A == Renewed(a, FALSE, token)
  <2>2. CASE /\ acct' = [A EXCEPT ![a].inPool = TRUE]
             /\ SaveIf(CallsOidc(a, FALSE), A)
             /\ need' = need - 1
             /\ UNCHANGED <<csvRow, blocked>>
    <3>1. A \in [Accounts -> AccountState]
      BY RenewedType DEF TypeOK
    <3>2. [A[a] EXCEPT !.inPool = TRUE] \in AccountState
      BY <3>1 DEF AccountState
    <3>3. acct' \in [Accounts -> AccountState]
      BY <2>2, <3>1, <3>2
    <3>4. recorded' \subseteq Accounts /\ disk' \in [Accounts -> AccountState]
      BY <2>1, <2>2, <3>1, SaveIfType DEF CallsOidc, TypeOK
    <3>5. need' \in Nat
      BY <1>11, <2>2 DEF FillMember, TypeOK
    <3> QED
      BY <1>11, <2>1, <2>2, <3>3, <3>4, <3>5 DEF FillMember, TypeOK
  <2>3. ASSUME NEW reason \in BearerErrors(a, FALSE), ApplyFailure(a, reason), UNCHANGED need,
               acct' = [acct EXCEPT ![a] = Failed(@, reason)]
        PROVE  TypeInv'
    <3>1. reason \in FailureReasons
      BY <2>3, ReasonAssumption DEF BearerErrors, FailureReasons
    <3>2. acct' \in [Accounts -> AccountState]
      BY <2>3, <3>1, FailedType, UpdateType DEF TypeOK
    <3> QED
      BY <1>11, <2>1, <2>3, <3>1, <3>2, ApplyFailureType DEF FillMember, TypeOK
  <2> QED
    BY <1>11, <2>2, <2>3 DEF FillMember
<1>12. CASE MaintainEnd
  BY <1>12, ScanType DEF MaintainEnd, ReleaseMutex, diskVars, TypeOK
<1>13. CASE PoolSnapshot
  BY <1>13, ScanType DEF PoolSnapshot, mutexVars, diskVars, TypeOK
<1>14. ASSUME NEW a \in Accounts, DisableAccount(a) PROVE TypeInv'
  <2>1. acct' \in [Accounts -> AccountState]
    BY <1>14, AdminType, UpdateType DEF DisableAccount, TypeOK
  <2> QED
    BY <1>14, <2>1, SaveType DEF DisableAccount, mutexVars, TypeOK
<1>15. ASSUME NEW a \in Accounts, EnableAccount(a) PROVE TypeInv'
  <2>1. acct' \in [Accounts -> AccountState]
    BY <1>15, AdminType, UpdateType DEF EnableAccount, TypeOK
  <2> QED
    BY <1>15, <2>1, SaveType DEF EnableAccount, mutexVars, TypeOK
<1>16. CASE UpdateWeight
  BY <1>16, SaveType DEF UpdateWeight, mutexVars, TypeOK
<1>17. ASSUME NEW a \in Accounts, DeleteAccount(a) PROVE TypeInv'
  <2>1. CASE a \notin Managed
    BY <1>14, <1>17, <2>1 DEF DeleteAccount
  <2>2. CASE a \in Managed
    <3>1. acct' \in [Accounts -> AccountState]
      BY <1>17, <2>2, FreshType, UpdateType DEF DeleteAccount, TypeOK
    <3>2. present' \subseteq Accounts
      BY <1>17, <2>2 DEF DeleteAccount, TypeOK
    <3> QED
      BY <1>17, <2>2, <3>1, <3>2, SaveType DEF DeleteAccount, mutexVars, TypeOK
  <2> QED
    BY <2>1, <2>2
<1>18. ASSUME NEW a \in Accounts, NEW token \in Issued, RefreshAccount(a, token) PROVE TypeInv'
  <2>1. Renewed(a, TRUE, token) \in [Accounts -> AccountState]
    BY RenewedType DEF TypeOK
  <2>2. acct' \in [Accounts -> AccountState]
    BY <1>18, <2>1, AdminType, UpdateType, JoinPoolType DEF RefreshAccount
  <2>3. CallsOidc(a, TRUE) \in BOOLEAN
    BY DEF CallsOidc
  <2> QED
    <3>1. recorded' \subseteq Accounts /\ disk' \in [Accounts -> AccountState]
      BY <1>18, <2>1, <2>2, <2>3, SaveTwiceType DEF RefreshAccount, TypeOK
    <3> QED
      BY <1>18, <2>2, <3>1 DEF RefreshAccount, mutexVars, TypeOK
<1>19. ASSUME NEW a \in Accounts, NEW token \in {"static"} \union Issued, ImportAccount(a, token)
       PROVE  TypeInv'
  <2>1. acct' \in [Accounts -> AccountState]
    BY <1>19, ImportType DEF ImportAccount
  <2>2. present' \subseteq Accounts /\ present \subseteq present'
    BY <1>19 DEF ImportAccount, TypeOK
  <2> QED
    BY <1>19, <2>1, <2>2, SaveTwiceType DEF ImportAccount, mutexVars, TypeOK
<1>20. ASSUME NEW a \in Accounts, TokenExpires(a) PROVE TypeInv'
  BY <1>20 DEF TokenExpires, mutexVars, TypeOK, AccountState
<1>21. ASSUME NEW a \in Accounts, CooldownElapses(a) PROVE TypeInv'
  <2>1. acct' \in [Accounts -> AccountState] /\ disk' \in [Accounts -> AccountState]
    BY <1>21, FieldType DEF CooldownElapses, TypeOK
  <2> QED
    BY <1>21, <2>1 DEF CooldownElapses, mutexVars, TypeOK
<1>22. CASE UNCHANGED vars
  BY <1>22 DEF vars, mutexVars, diskVars, TypeOK
<1>23. CASE Lifecycle
  BY <1>1, <1>2, <1>23 DEF Lifecycle
<1>24. CASE Acquire
  BY <1>3, <1>4, <1>5, <1>24 DEF Acquire
<1>25. CASE Report
  BY <1>6, <1>7, <1>25, <1>29, ReasonAssumption DEF Report
<1>26. CASE Maintain
  BY <1>8, <1>9, <1>10, <1>11, <1>12, <1>13, <1>26 DEF Maintain, WarmPool, RefreshPool, TypeOK
<1>27. CASE Administration
  BY <1>14, <1>15, <1>16, <1>17, <1>18, <1>19, <1>27 DEF Administration
<1>28. CASE Time
  BY <1>20, <1>21, <1>28 DEF Time
<1> QED
  BY <1>22, <1>23, <1>24, <1>25, <1>26, <1>27, <1>28 DEF Next

(* The types hold before the first start.                                  *)
LEMMA InitType == Init => TypeInv
<1> SUFFICES ASSUME Init PROVE TypeInv
  OBVIOUS
<1>1. acct \in [Accounts -> AccountState] /\ disk \in [Accounts -> AccountState]
  BY FreshType DEF Init
<1> QED
  BY <1>1 DEF Init, TypeInv, TypeOK, LoopsEmpty

(* Every reachable state is well typed, and outside Acquire and            *)
(* maintainPoolLocked their locals are empty.                              *)
THEOREM TypeCorrect == Spec => []TypeOK
<1>1. TypeInv => TypeOK
  BY DEF TypeInv
<1> QED
  BY <1>1, InitType, TypeStep, PTL DEF Spec
-----------------------------------------------------------------------------
(* What the helpers do to the flags that decide who can be handed out.     *)

(* A scan, a token refresh and joining the pool leave both flags alone.    *)
LEMMA ScanKeepsFlags ==
  \A s \in AccountState : Scanned(s).disabled = s.disabled /\ Scanned(s).cool = s.cool
<1> SUFFICES ASSUME NEW s \in AccountState
             PROVE  Scanned(s).disabled = s.disabled /\ Scanned(s).cool = s.cool
  OBVIOUS
<1>1. CASE s.disabled
  BY <1>1 DEF Scanned, AccountState
<1>2. CASE ~s.disabled /\ s.cool
  BY <1>2 DEF Scanned, AccountState
<1>3. CASE ~s.disabled /\ ~s.cool
  BY <1>3 DEF Scanned, AccountState
<1> QED
  BY <1>1, <1>2, <1>3

(* A token refresh changes the token alone.                                *)
LEMMA RenewedKeepsFlags ==
  ASSUME acct \in [Accounts -> AccountState], NEW a \in Accounts, NEW forced \in BOOLEAN,
         NEW token \in Issued, NEW b \in Accounts
  PROVE  /\ Renewed(a, forced, token)[b].disabled = acct[b].disabled
         /\ Renewed(a, forced, token)[b].cool = acct[b].cool
  BY DEF Renewed, AccountState

(* Joining the pool changes the pool flag alone.                           *)
LEMMA JoinPoolKeepsFlags ==
  ASSUME NEW A \in [Accounts -> AccountState], NEW a \in Accounts, NEW b \in Accounts
  PROVE  /\ JoinPool(A, a)[b].disabled = A[b].disabled
         /\ JoinPool(A, a)[b].cool = A[b].cool
         /\ JoinPool(A, a)[b].token = A[b].token
  BY DEF JoinPool, AccountState

(* Time disables nobody, and only ends cooldowns.                          *)
LEMMA TimeKeepsFlags ==
  ASSUME TypeOK, NEW a \in Accounts, TokenExpires(a) \/ CooldownElapses(a), NEW b \in Accounts
  PROVE  /\ present' = present
         /\ acct'[b].disabled = acct[b].disabled
         /\ disk'[b].disabled = disk[b].disabled
         /\ acct'[b].cool => acct[b].cool
<1>1. CASE TokenExpires(a)
  BY <1>1 DEF TokenExpires, TypeOK, AccountState
<1>2. CASE CooldownElapses(a)
  <2>1. present' = present
    BY <1>2 DEF CooldownElapses
  <2>2. /\ acct'[b].disabled = acct[b].disabled
        /\ disk'[b].disabled = disk[b].disabled
    BY <1>2 DEF CooldownElapses, TypeOK, AccountState
  <2>3. acct'[b].cool => acct[b].cool
    BY <1>2 DEF CooldownElapses, TypeOK, AccountState
  <2> QED
    BY <2>1, <2>2, <2>3
<1> QED
  BY <1>1, <1>2

(* A scan disables nobody, and nothing on disk.                            *)
LEMMA ScanKeeps ==
  ASSUME TypeOK, acct' = Scan(acct), UNCHANGED disk
  PROVE  \A b \in Accounts : /\ acct'[b].disabled = acct[b].disabled
                             /\ disk'[b].disabled = disk[b].disabled
  BY ScanKeepsFlags DEF Scan, TypeOK

(* Writing the status or the pool flag of one account.                     *)
LEMMA EntryKeepsDisabled ==
  ASSUME NEW A \in [Accounts -> AccountState], NEW a \in Accounts, NEW b \in Accounts
  PROVE  /\ [A EXCEPT ![a].status = "active"] \in [Accounts -> AccountState]
         /\ [A EXCEPT ![a].status = "active"][b].disabled = A[b].disabled
         /\ [A EXCEPT ![a].inPool = TRUE][b].disabled = A[b].disabled
<1>1. /\ [A[a] EXCEPT !.status = "active"] \in AccountState
      /\ [A[a] EXCEPT !.status = "active"].disabled = A[a].disabled
      /\ [A[a] EXCEPT !.inPool = TRUE].disabled = A[a].disabled
  BY DEF AccountState
<1> QED
  BY <1>1

(* A failure never enables an account, and disables it exactly for the     *)
(* reasons "auth" and "ban".                                               *)
LEMMA FailedDisables ==
  \A s \in AccountState, reason \in FailureReasons :
    Failed(s, reason).disabled = (s.disabled \/ reason \in {"auth", "ban"})
<1> SUFFICES ASSUME NEW s \in AccountState, NEW reason \in FailureReasons
             PROVE  Failed(s, reason).disabled = (s.disabled \/ reason \in {"auth", "ban"})
  OBVIOUS
<1>1. CASE reason = "auth"
  BY <1>1 DEF Failed, AccountState
<1>2. CASE reason = "ban"
  BY <1>2 DEF Failed, AccountState
<1>3. CASE reason = "quota"
  BY <1>3 DEF Failed, AccountState
<1>4. CASE reason = "not_implemented"
  BY <1>4 DEF Failed, AccountState
<1>5. CASE reason \in {"network", "unknown"}
  BY <1>5 DEF Failed, AccountState
<1> QED
  BY <1>1, <1>2, <1>3, <1>4, <1>5 DEF FailureReasons

-----------------------------------------------------------------------------
(* The loop of Acquire.                                                    *)

(* AcquireNeverRetriesFailed is inductive with the loop condition: after   *)
(* the first failure attempts >= 1, so two preferred accounts are left and *)
(* the loop never falls back on candidates that hold failed ones.          *)
AcquireInv ==
  /\ AcquireNeverRetriesFailed
  /\ mu = "acquire" => attempts < Cardinality(preferred)

(* The bound of the loop in Acquire, kept by every step.                   *)
LEMMA AcquireStep == TypeInv /\ AcquireInv /\ [Next]_vars => AcquireInv'
<1> SUFFICES ASSUME TypeInv, AcquireInv, [Next]_vars PROVE AcquireInv'
  OBVIOUS
<1> USE DEF TypeInv, AcquireInv, AcquireNeverRetriesFailed
<1>1. ASSUME NEW r \in Requests, NEW hint \in Accounts \union {NoAccount}, AcquireBegin(r, hint)
      PROVE  AcquireInv'
  <2>1. Usable' = Usable
    BY <1>1, ScanKeepsFlags DEF AcquireBegin, Usable, Scan, TypeOK
  <2>2. preferred' \subseteq Usable /\ candidates' = Usable /\ preferred' # {}
    BY <1>1 DEF AcquireBegin, Preferred
  <2>3. IsFiniteSet(preferred')
    BY <2>2, FiniteAssumption, FS_Subset DEF Usable, TypeOK
  <2>4. 0 < Cardinality(preferred')
    BY <2>2, <2>3, FS_EmptySet, FS_CardinalityType
  <2> QED
    BY <1>1, <2>1, <2>2, <2>4 DEF AcquireBegin
<1>2. ASSUME NEW a \in Accounts, NEW reason \in FailureReasons, AcquireFails(a, reason)
      PROVE  AcquireInv'
  <2> DEFINE rest == preferred \ {a}
             spare == IF rest = {} THEN candidates \ {a} ELSE candidates
             next == IF rest = {} THEN spare ELSE rest
  <2>1. CASE ~(attempts + 1 < Cardinality(next))
    BY <1>2, <2>1 DEF AcquireFails, AcquireContinues, ReleaseMutex
  <2>2. CASE attempts + 1 < Cardinality(next)
    <3>1. /\ mu = "acquire" /\ preferred' = next /\ attempts' = attempts + 1
          /\ a \in preferred
      BY <1>2, <2>2 DEF AcquireFails, AcquireContinues
    <3>2. Usable \ {a} \subseteq Usable'
      BY <1>2 DEF AcquireFails, Usable, TypeOK
    <3>3. next \subseteq Usable \ {a}
      <4>1. CASE rest = {}
        <5>1. preferred = {a}
          BY <3>1, <4>1
        <5>2. Cardinality(preferred) = 1
          BY <5>1, FS_Singleton
        <5>3. attempts = 0
          BY <3>1, <5>2 DEF TypeOK
        <5> QED
          BY <3>1, <4>1, <5>3
      <4>2. CASE rest # {}
        BY <3>1, <4>2
      <4> QED
        BY <4>1, <4>2
    <3>4. attempts' # 0
      BY <3>1 DEF TypeOK
    <3> QED
      BY <2>2, <3>1, <3>2, <3>3, <3>4
  <2> QED
    BY <2>1, <2>2
<1>3. ASSUME NEW a \in Accounts, TokenExpires(a) \/ CooldownElapses(a) PROVE AcquireInv'
  <2>1. Usable \subseteq Usable'
    BY <1>3, TimeKeepsFlags DEF Usable, TypeOK
  <2>2. UNCHANGED mutexVars
    BY <1>3 DEF TokenExpires, CooldownElapses
  <2> QED
    BY <2>1, <2>2 DEF mutexVars
<1>4. CASE mu' # "acquire"
  BY <1>4
<1>5. CASE UNCHANGED vars
  BY <1>5 DEF vars, mutexVars, Usable
<1>12. ASSUME NEW r \in Requests, LeaseDropped(r) PROVE AcquireInv'
  BY <1>12 DEF LeaseDropped, mutexVars, Usable
<1>6. CASE Lifecycle
  BY <1>4, <1>6 DEF Lifecycle, Start, Crash, ReleaseMutex
<1>7. CASE Acquire
  BY <1>1, <1>2, <1>4, <1>7 DEF Acquire, AcquireGrant, ReleaseMutex
<1>8. CASE Report
  BY <1>4, <1>5, <1>8, <1>12 DEF Report, ReportSuccess, ReportFailure, mutexVars
<1>9. CASE Maintain
  BY <1>4, <1>9 DEF Maintain, WarmPool, RefreshPool, MaintainBegin, RenewMember, FillMember,
                    Refill, MaintainEnd, PoolSnapshot, ReleaseMutex, mutexVars
<1>10. CASE Administration
  BY <1>4, <1>10 DEF Administration, UpdateWeight, DisableAccount, EnableAccount, DeleteAccount,
                     RefreshAccount, ImportAccount, mutexVars
<1>11. CASE Time
  BY <1>3, <1>11 DEF Time
<1> QED
  BY <1>5, <1>6, <1>7, <1>8, <1>9, <1>10, <1>11 DEF Next

(* Acquire only ever tries accounts that are enabled and not cooling down, *)
(* and never one that already failed in the same call.                     *)
THEOREM AcquireTriesUsable == Spec => []AcquireNeverRetriesFailed
<1>1. Init => AcquireInv
  BY DEF Init, AcquireInv, AcquireNeverRetriesFailed
<1>2. AcquireInv => AcquireNeverRetriesFailed
  BY DEF AcquireInv
<1> QED
  BY <1>1, <1>2, InitType, TypeStep, AcquireStep, PTL DEF Spec
-----------------------------------------------------------------------------
(* Blocks survive restarts.                                                *)

(* The state file is kept and complete, and an external account cannot     *)
(* come back after the source once left it out: the account API may do     *)
(* that, environment and CSV file may not.                                 *)
Durable == Persistent /\ ~SavesMayFail /\ ~TornWrites /\ Source # "api"

RowOff(a) == a \in External /\ Source = "csv" /\ csvRow[a] = "off"

(* What makes BlockedIsDisabled inductive: the state file knows every      *)
(* block too, or else the account's CSV row is off for good, which is the  *)
(* only way for an external account not to be loaded.                      *)
BlockInv ==
  /\ BlockedIsDisabled
  /\ \A a \in blocked : IF a \in recorded THEN disk[a].disabled ELSE RowOff(a)
  /\ mu # "down" => /\ \A a \in External \ present : RowOff(a)
                    /\ Managed \intersect recorded \subseteq present
  /\ mu = "down" => present = {}

(* A step that neither saves nor blocks keeps the invariant if it keeps    *)
(* the Disabled flags.                                                     *)
LEMMA BlockKeep ==
  ASSUME TypeOK, BlockInv, mu # "down", mu' # "down",
         UNCHANGED <<present, recorded, csvRow, blocked>>,
         \A a \in Accounts : /\ acct'[a].disabled = acct[a].disabled
                            /\ disk'[a].disabled = disk[a].disabled
  PROVE  BlockInv'
  BY DEF BlockInv, BlockedIsDisabled, RowOff, TypeOK

(* A step that saves keeps it if the saved table and the table in memory   *)
(* have every block of an account that is present, and no external account *)
(* leaves.                                                                 *)
LEMMA BlockSave ==
  ASSUME TypeOK, Durable, BlockInv, mu # "down", mu' # "down",
         NEW A \in [Accounts -> AccountState], Save(A),
         External \intersect present \subseteq present',
         blocked' \subseteq blocked \union present,
         Managed \intersect blocked' \subseteq present',
         \A a \in External \ present' : csvRow'[a] = csvRow[a],
         \A a \in present' \intersect blocked' : A[a].disabled /\ acct'[a].disabled
  PROVE  BlockInv'
<1>1. recorded' = present' /\ disk' = [a \in Accounts |-> [A[a] EXCEPT !.inPool = FALSE]]
  BY DEF Durable, Save
<1>2. \A a \in External \ present' : RowOff(a) /\ RowOff(a)'
  BY DEF BlockInv, RowOff, TypeOK
<1>3. \A a \in blocked' : IF a \in recorded' THEN disk'[a].disabled ELSE RowOff(a)'
  <2> SUFFICES ASSUME NEW a \in blocked \union present, a \in blocked'
               PROVE  IF a \in recorded' THEN disk'[a].disabled ELSE RowOff(a)'
    OBVIOUS
  <2>1. a \in Accounts
    BY DEF TypeOK
  <2>2. CASE a \in present'
    BY <1>1, <2>1, <2>2 DEF AccountState
  <2>3. CASE a \notin present'
    BY <1>1, <1>2, <2>1, <2>3 DEF External
  <2> QED
    BY <2>2, <2>3
<1>4. BlockedIsDisabled'
  BY DEF BlockedIsDisabled
<1> QED
  BY <1>1, <1>2, <1>3, <1>4 DEF BlockInv

(* A managed account that is blocked is present in a running process.      *)
LEMMA ManagedBlockedPresent ==
  ASSUME BlockInv, mu # "down"
  PROVE  Managed \intersect blocked \subseteq present
  BY DEF BlockInv, RowOff, External
(* applyFailure keeps it: what disables an account also saves it.          *)
LEMMA BlockFailure ==
  ASSUME TypeOK, Durable, BlockInv, mu # "down", mu' # "down", present' = present,
         NEW a \in present, NEW reason \in FailureReasons, ApplyFailure(a, reason),
         \A b \in Accounts :
           acct'[b].disabled = [acct EXCEPT ![a] = Failed(@, reason)][b].disabled
  PROVE  BlockInv'
<1> DEFINE A == [acct EXCEPT ![a] = Failed(@, reason)]
<1>1. a \in Accounts
  BY DEF TypeOK
<1>2. A \in [Accounts -> AccountState]
  BY <1>1, FailedType, UpdateType DEF TypeOK
<1>3. blocked' = IF reason \in {"auth", "ban"} THEN blocked \union {a} ELSE blocked
  BY DEF ApplyFailure
<1>4. \A b \in present' \intersect blocked' : A[b].disabled
  <2> SUFFICES ASSUME NEW b \in present, b \in blocked' PROVE A[b].disabled
    OBVIOUS
  <2>1. CASE b = a
    BY <1>1, <1>3, <2>1, FailedDisables DEF BlockInv, BlockedIsDisabled, TypeOK
  <2>2. CASE b # a
    BY <1>1, <1>3, <2>2 DEF BlockInv, BlockedIsDisabled, TypeOK
  <2> QED
    BY <2>1, <2>2
<1>5. \A b \in present' \intersect blocked' : A[b].disabled /\ acct'[b].disabled
  BY <1>4 DEF TypeOK
<1>6. \A b \in External \ present' : csvRow'[b] = csvRow[b]
  BY DEF ApplyFailure, DisableCSVRow, External, TypeOK
<1>7. Managed \intersect blocked' \subseteq present'
  BY <1>3, ManagedBlockedPresent
<1>8. Save(A)
  BY DEF ApplyFailure
<1>9. blocked' \subseteq blocked \union present
  BY <1>3
<1> QED
  BY <1>2, <1>5, <1>6, <1>7, <1>8, <1>9, BlockSave

(* So does a refresh of a bearer, saved when it took place.                *)
LEMMA BlockRenewal ==
  ASSUME TypeOK, Durable, BlockInv, mu # "down", mu' # "down",
         UNCHANGED <<present, csvRow, blocked>>,
         NEW a \in Accounts, NEW forced \in BOOLEAN, NEW token \in Issued,
         SaveIf(CallsOidc(a, forced), Renewed(a, forced, token)),
         \A b \in Accounts : acct'[b].disabled = acct[b].disabled
  PROVE  BlockInv'
<1>1. CASE CallsOidc(a, forced)
  <2>1. Save(Renewed(a, forced, token))
    BY <1>1 DEF SaveIf
  <2>2. Renewed(a, forced, token) \in [Accounts -> AccountState]
    BY RenewedType DEF TypeOK
  <2>3. \A b \in present' \intersect blocked' : Renewed(a, forced, token)[b].disabled /\ acct'[b].disabled
    BY RenewedKeepsFlags DEF BlockInv, BlockedIsDisabled, TypeOK
  <2> QED
    BY <2>1, <2>2, <2>3, BlockSave, ManagedBlockedPresent
<1>2. CASE ~CallsOidc(a, forced)
  BY <1>2, BlockKeep DEF SaveIf, diskVars
<1> QED
  BY <1>1, <1>2
(* Every step keeps what a block means, as long as saves are durable.      *)
LEMMA BlockStep == Durable /\ TypeInv /\ BlockInv /\ [Next]_vars => BlockInv'
<1> SUFFICES ASSUME Durable, TypeOK, BlockInv, [Next]_vars PROVE BlockInv'
  BY DEF TypeInv
<1>1. CASE Start
  <2>1. PICK L \in SUBSET External : Loadable(L) /\ Load(L)
    BY <1>1 DEF Start
  <2>2. \A a \in External \ L : RowOff(a)'
    BY <2>1, SourceAssumption DEF Load, Loadable, RowOff, Durable, External
  <2>3. \A a \in blocked \ recorded : RowOff(a) /\ a \notin L
    BY <2>1 DEF BlockInv, RowOff, Loadable
  <2>4. \A a \in blocked \ recorded : RowOff(a)'
    BY <2>2, <2>3 DEF RowOff
  <2>5. BlockedIsDisabled'
    BY <1>1, <2>1, <2>3 DEF Start, Load, BlockInv, BlockedIsDisabled, RowOff, External, TypeOK
  <2>6. External \ present' \subseteq External \ L /\ Managed \intersect recorded \subseteq present'
    BY <2>1 DEF Load
  <2> QED
    BY <1>1, <2>2, <2>4, <2>5, <2>6 DEF Start, ReleaseMutex, diskVars, BlockInv
<1>2. CASE Crash
  BY <1>2 DEF Crash, Durable, BlockInv, BlockedIsDisabled, RowOff, diskVars
<1>3. ASSUME NEW r \in Requests, NEW hint \in Accounts \union {NoAccount}, AcquireBegin(r, hint)
      PROVE  BlockInv'
  BY <1>3, ScanKeeps, BlockKeep DEF AcquireBegin, diskVars
<1>4. ASSUME NEW a \in Accounts, NEW token \in Issued, AcquireGrant(a, token) PROVE BlockInv'
  <2> DEFINE A == Renewed(a, FALSE, token)
             B == [A EXCEPT ![a].status = "active"]
  <2>1. A \in [Accounts -> AccountState]
    BY RenewedType DEF TypeOK
  <2>2. B \in [Accounts -> AccountState] /\ \A b \in Accounts : B[b].disabled = A[b].disabled
    BY <2>1, EntryKeepsDisabled
  <2>3. \A b \in Accounts : A[b].disabled = acct[b].disabled
    BY RenewedKeepsFlags DEF TypeOK
  <2>4. acct' = JoinPool(B, a)
    BY <1>4 DEF AcquireGrant
  <2>5. \A b \in Accounts : acct'[b].disabled = acct[b].disabled
    <3> HIDE DEF A, B
    <3> QED
      BY <2>2, <2>3, <2>4, JoinPoolKeepsFlags
  <2> QED
    BY <1>4, <2>5, BlockRenewal DEF AcquireGrant, ReleaseMutex
<1>5. ASSUME NEW a \in Accounts, NEW reason \in FailureReasons, AcquireFails(a, reason)
      PROVE  BlockInv'
  <2>1. a \in present /\ mu # "down" /\ mu' # "down"
    BY <1>5 DEF AcquireFails, AcquireContinues, ReleaseMutex, TypeOK
  <2> QED
    BY <1>5, <2>1, BlockFailure DEF AcquireFails
<1>6. ASSUME NEW r \in Requests, ReportSuccess(r) PROVE BlockInv'
  <2>1. \A b \in Accounts : acct'[b].disabled = acct[b].disabled
    <3>1. CASE lease[r] \in present
      <4> DEFINE A == [acct EXCEPT ![lease[r]] = Succeeded(@)]
      <4>1. A \in [Accounts -> AccountState]
        BY <3>1, AdminType, UpdateType DEF TypeOK
      <4>2. \A b \in Accounts : A[b].disabled = acct[b].disabled
        BY <3>1 DEF Succeeded, TypeOK, AccountState
      <4> QED
        BY <1>6, <3>1, <4>1, <4>2, JoinPoolKeepsFlags DEF ReportSuccess, TypeOK
    <3> QED
      BY <1>6, <3>1 DEF ReportSuccess
  <2> QED
    BY <1>6, <2>1, BlockKeep DEF ReportSuccess, mutexVars, diskVars
<1>7. ASSUME NEW r \in Requests, NEW reason \in FailureReasons, ReportFailure(r, reason)
      PROVE  BlockInv'
  <2>1. mu # "down" /\ mu' # "down" /\ present' = present
    BY <1>7 DEF ReportFailure, mutexVars
  <2>2. CASE lease[r] \in present
    BY <1>7, <2>1, <2>2, BlockFailure DEF ReportFailure
  <2>3. CASE lease[r] \notin present
    BY <1>7, <2>1, <2>3, BlockKeep DEF ReportFailure, diskVars
  <2> QED
    BY <2>2, <2>3
<1>27. ASSUME NEW r \in Requests, LeaseDropped(r) PROVE BlockInv'
  BY <1>27 DEF LeaseDropped, mutexVars, diskVars, BlockInv, BlockedIsDisabled, RowOff
<1>8. ASSUME NEW forced \in BOOLEAN, MaintainBegin(forced) PROVE BlockInv'
  BY <1>8, ScanKeeps, BlockKeep DEF MaintainBegin, diskVars
<1>9. ASSUME NEW a \in Accounts, NEW token \in Issued, RenewMember(a, token) PROVE BlockInv'
  <2>1. mu # "down" /\ mu' # "down" /\ present' = present /\ a \in present
    BY <1>9 DEF RenewMember, TypeOK
  <2>2. CASE /\ acct' = Renewed(a, force, token)
             /\ SaveIf(CallsOidc(a, force), acct')
             /\ UNCHANGED <<csvRow, blocked>>
    BY <2>1, <2>2, BlockRenewal, RenewedKeepsFlags DEF TypeOK
  <2>3. ASSUME NEW reason \in BearerErrors(a, force), ApplyFailure(a, reason),
               acct' = [acct EXCEPT ![a] = [Failed(@, reason) EXCEPT !.inPool = FALSE]]
        PROVE  BlockInv'
    <3>1. reason \in FailureReasons
      BY <2>3, ReasonAssumption DEF BearerErrors, FailureReasons
    <3>2. [Failed(acct[a], reason) EXCEPT !.inPool = FALSE].disabled = Failed(acct[a], reason).disabled
      BY <3>1, FailedType DEF TypeOK, AccountState
    <3>3. \A b \in Accounts :
            acct'[b].disabled = [acct EXCEPT ![a] = Failed(@, reason)][b].disabled
      BY <2>3, <3>2 DEF TypeOK
    <3> QED
      BY <2>1, <2>3, <3>1, <3>3, BlockFailure
  <2> QED
    BY <1>9, <2>2, <2>3 DEF RenewMember
<1>10. ASSUME NEW fetched \in SUBSET External, Refill(fetched) PROVE BlockInv'
  BY <1>10, ScanKeeps, BlockKeep DEF Refill, Added, ApiRefillEnabled, Durable, SaveIf, diskVars
<1>11. ASSUME NEW a \in Accounts, NEW token \in Issued, FillMember(a, token) PROVE BlockInv'
  <2>1. mu # "down" /\ mu' # "down" /\ present' = present /\ a \in present
    BY <1>11 DEF FillMember, TypeOK
  <2> DEFINE A == Renewed(a, FALSE, token)
  <2>2. CASE /\ acct' = [A EXCEPT ![a].inPool = TRUE]
             /\ SaveIf(CallsOidc(a, FALSE), A)
             /\ UNCHANGED <<csvRow, blocked>>
    <3>1. A \in [Accounts -> AccountState]
      BY RenewedType DEF TypeOK
    <3>2. \A b \in Accounts : [A EXCEPT ![a].inPool = TRUE][b].disabled = A[b].disabled
      BY <3>1, EntryKeepsDisabled
    <3>3. \A b \in Accounts : acct'[b].disabled = acct[b].disabled
      BY <2>2, <3>2, RenewedKeepsFlags DEF TypeOK
    <3> QED
      BY <2>1, <2>2, <3>3, BlockRenewal
  <2>3. ASSUME NEW reason \in BearerErrors(a, FALSE), ApplyFailure(a, reason),
               acct' = [acct EXCEPT ![a] = Failed(@, reason)]
        PROVE  BlockInv'
    <3>1. reason \in FailureReasons
      BY <2>3, ReasonAssumption DEF BearerErrors, FailureReasons
    <3> QED
      BY <2>1, <2>3, <3>1, BlockFailure
  <2> QED
    BY <1>11, <2>2, <2>3 DEF FillMember
<1>12. CASE MaintainEnd \/ PoolSnapshot
  BY <1>12, ScanKeeps, BlockKeep
     DEF MaintainEnd, PoolSnapshot, ReleaseMutex, mutexVars, diskVars
<1>13. ASSUME NEW a \in Accounts, DisableAccount(a) PROVE BlockInv'
  <2>1. acct' \in [Accounts -> AccountState]
    BY <1>13, AdminType, UpdateType DEF DisableAccount, TypeOK
  <2>2. \A b \in present \intersect blocked' : acct'[b].disabled
    BY <1>13 DEF DisableAccount, Disabled, BlockInv, BlockedIsDisabled, TypeOK, AccountState
  <2> QED
    BY <1>13, <2>1, <2>2, BlockSave, ManagedBlockedPresent DEF DisableAccount, mutexVars
<1>14. ASSUME NEW a \in Accounts, EnableAccount(a) PROVE BlockInv'
  <2>1. acct' \in [Accounts -> AccountState]
    BY <1>14, AdminType, UpdateType DEF EnableAccount, TypeOK
  <2>2. \A b \in present \intersect blocked' : acct'[b].disabled
    BY <1>14 DEF EnableAccount, BlockInv, BlockedIsDisabled, TypeOK
  <2> QED
    BY <1>14, <2>1, <2>2, BlockSave, ManagedBlockedPresent DEF EnableAccount, mutexVars
<1>15. CASE UpdateWeight
  <2>1. \A b \in present \intersect blocked' : acct[b].disabled
    BY <1>15 DEF UpdateWeight, BlockInv, BlockedIsDisabled
  <2> QED
    BY <1>15, <2>1, BlockSave, ManagedBlockedPresent DEF UpdateWeight, mutexVars, TypeOK
<1>16. ASSUME NEW a \in Accounts, DeleteAccount(a) PROVE BlockInv'
  <2>1. CASE a \notin Managed
    BY <1>13, <1>16, <2>1 DEF DeleteAccount
  <2>2. CASE a \in Managed
    <3>1. acct' \in [Accounts -> AccountState]
      BY <1>16, <2>2, FreshType, UpdateType DEF DeleteAccount, TypeOK
    <3>2. \A b \in present' \intersect blocked' : acct'[b].disabled
      BY <1>16, <2>2 DEF DeleteAccount, BlockInv, BlockedIsDisabled, TypeOK
    <3>3. External \intersect present \subseteq present'
      BY <1>16, <2>2 DEF DeleteAccount, External
    <3>4. Managed \intersect blocked' \subseteq present'
      BY <1>16, <2>2, ManagedBlockedPresent DEF DeleteAccount
    <3> QED
      BY <1>16, <2>2, <3>1, <3>2, <3>3, <3>4, BlockSave DEF DeleteAccount, mutexVars
  <2> QED
    BY <2>1, <2>2
<1>17. ASSUME NEW a \in Accounts, NEW token \in Issued, RefreshAccount(a, token) PROVE BlockInv'
  <2> DEFINE A == [Renewed(a, TRUE, token) EXCEPT ![a] = Enabled(@)]
  <2>1. Renewed(a, TRUE, token) \in [Accounts -> AccountState]
    BY RenewedType DEF TypeOK
  <2>2. A \in [Accounts -> AccountState]
    BY <2>1, AdminType, UpdateType
  <2>3. acct' \in [Accounts -> AccountState]
    BY <1>17, <2>2, JoinPoolType DEF RefreshAccount
  <2>4. \A b \in Accounts \ {a} : A[b].disabled = acct[b].disabled
    BY <2>1, RenewedKeepsFlags DEF TypeOK
  <2>5. \A b \in Accounts : acct'[b].disabled = A[b].disabled
    BY <1>17, <2>2, JoinPoolKeepsFlags DEF RefreshAccount
  <2>6. \A b \in present \intersect blocked' : acct'[b].disabled
    BY <1>17, <2>4, <2>5 DEF RefreshAccount, BlockInv, BlockedIsDisabled, TypeOK
  <2>7. Save(acct')
    BY <1>17 DEF RefreshAccount, SaveTwice, Durable
  <2> QED
    BY <1>17, <2>3, <2>6, <2>7, BlockSave, ManagedBlockedPresent DEF RefreshAccount, mutexVars
<1>18. ASSUME NEW a \in Accounts, NEW token \in {"static"} \union Issued, ImportAccount(a, token)
       PROVE  BlockInv'
  <2>1. acct' \in [Accounts -> AccountState]
    BY <1>18, ImportType DEF ImportAccount
  <2>2. \A b \in present' \intersect blocked' : acct'[b].disabled
    BY <1>18 DEF ImportAccount, BlockInv, BlockedIsDisabled, TypeOK
  <2>3. Save(acct')
    BY <1>18 DEF ImportAccount, SaveTwice, Durable
  <2> QED
    BY <1>18, <2>1, <2>2, <2>3, BlockSave, ManagedBlockedPresent DEF ImportAccount, mutexVars
<1>19. ASSUME NEW a \in Accounts, TokenExpires(a) \/ CooldownElapses(a) PROVE BlockInv'
  <2>1. UNCHANGED <<mu, present, recorded, csvRow, blocked>>
    BY <1>19 DEF TokenExpires, CooldownElapses, mutexVars
  <2>2. \A b \in Accounts : acct'[b].disabled = acct[b].disabled /\ disk'[b].disabled = disk[b].disabled
    BY <1>19, TimeKeepsFlags
  <2> QED
    BY <2>1, <2>2 DEF BlockInv, BlockedIsDisabled, RowOff, TypeOK
<1>20. CASE UNCHANGED vars
  BY <1>20 DEF vars, mutexVars, diskVars, BlockInv, BlockedIsDisabled, RowOff
<1>21. CASE Lifecycle
  BY <1>1, <1>2, <1>21 DEF Lifecycle
<1>22. CASE Acquire
  BY <1>3, <1>4, <1>5, <1>22 DEF Acquire
<1>23. CASE Report
  BY <1>6, <1>7, <1>23, <1>27, ReasonAssumption DEF Report
<1>24. CASE Maintain
  BY <1>8, <1>9, <1>10, <1>11, <1>12, <1>24 DEF Maintain, WarmPool, RefreshPool
<1>25. CASE Administration
  BY <1>13, <1>14, <1>15, <1>16, <1>17, <1>18, <1>25 DEF Administration
<1>26. CASE Time
  BY <1>19, <1>26 DEF Time
<1> QED
  BY <1>20, <1>21, <1>22, <1>23, <1>24, <1>25, <1>26 DEF Next

(* When the state file is reliable and the source is the environment or a  *)
(* CSV file, an account that was disabled or banned is disabled in every   *)
(* later run of the process until an administrator takes it back.          *)
THEOREM BlocksSurvive ==
  ASSUME Durable
  PROVE  Spec => []BlockedIsDisabled
<1>1. Init => BlockInv
  BY DEF Init, BlockInv, BlockedIsDisabled
<1>2. BlockInv => BlockedIsDisabled
  BY DEF BlockInv
<1>3. TypeInv /\ BlockInv /\ [Next]_vars => BlockInv'
  BY BlockStep
<1> QED
  BY <1>1, <1>2, <1>3, InitType, TypeStep, PTL DEF Spec

(* Only Acquire gives a request a lease, and on the account it picked.     *)
LEMMA GrantStep ==
  ASSUME TypeOK, Next, NEW a \in Accounts, Granted(a)
  PROVE  \E token \in Issued : AcquireGrant(a, token)
<1>1. PICK r \in Requests : lease[r] = NoAccount /\ lease'[r] = a
  BY DEF Granted
<1>2. a # NoAccount
  BY NoneAssumption
<1>3. lease' # lease
  BY <1>1, <1>2
<1>4. ASSUME NEW b \in Accounts, NEW token \in Issued, AcquireGrant(b, token) PROVE b = a
  BY <1>1, <1>2, <1>4 DEF AcquireGrant, TypeOK
<1>5. ~Crash
  BY <1>1, <1>2 DEF Crash
<1>6. ~Report
  BY <1>1, <1>2 DEF Report, ReportSuccess, ReportFailure, LeaseDropped, TypeOK
<1>7. ~Start /\ ~Maintain /\ ~Administration /\ ~Time
  BY <1>3 DEF Start, Maintain, WarmPool, RefreshPool, MaintainBegin, RenewMember, FillMember,
              Refill, MaintainEnd, PoolSnapshot, Administration, UpdateWeight, DisableAccount,
              EnableAccount, DeleteAccount, RefreshAccount, ImportAccount, Time, TokenExpires,
              CooldownElapses
<1>8. Acquire
  BY <1>5, <1>6, <1>7 DEF Next, Lifecycle
<1> QED
  BY <1>3, <1>4, <1>8 DEF Acquire, AcquireBegin, AcquireFails

(* What the token of a granted lease can be.                               *)
Lasting(a, t) ==
  \/ t \in {"fresh", "static"}
  \/ t = "stale" /\ a \notin HasCreds
  \/ CallsOidc(a, FALSE)

(* A granted lease carries a token of that kind.                           *)
LEMMA GrantHasToken ==
  ASSUME TypeOK, NEW a \in Accounts, NEW token \in Issued, AcquireGrant(a, token)
  PROVE  Lasting(a, acct'[a].token)
<1> DEFINE A == Renewed(a, FALSE, token)
           B == [A EXCEPT ![a].status = "active"]
<1>1. A \in [Accounts -> AccountState]
  BY RenewedType DEF TypeOK
<1>2. Lasting(a, A[a].token)
  BY DEF Lasting, AcquireGrant, BearerMissing, Renewed, CallsOidc, TypeOK, AccountState
<1>3. B[a].token = A[a].token
  <2> HIDE DEF A
  <2>1. [A[a] EXCEPT !.status = "active"].token = A[a].token
    BY <1>1 DEF AccountState
  <2> QED
    BY <1>1, <2>1
<1>4. B \in [Accounts -> AccountState]
  BY <1>1, EntryKeepsDisabled
<1>5. acct' = JoinPool(B, a)
  BY DEF AcquireGrant
<1>6. acct'[a].token = A[a].token
  <2> HIDE DEF A
  <2> QED
    BY <1>3, <1>4, <1>5, JoinPoolKeepsFlags
<1> QED
  <2> HIDE DEF A
  <2> QED
    BY <1>2, <1>6

(* Under the same assumptions Acquire hands out only accounts that nobody  *)
(* disabled or banned and that are not cooling down, with a lasting token, *)
(* an expired one when it cannot be refreshed, or whatever OIDC has just   *)
(* answered.                                                               *)
THEOREM LeasesUsable ==
  ASSUME Durable
  PROVE  Spec => LeaseOnlyUsable
<1> DEFINE Usable1 == \A a \in Accounts : Granted(a) =>
             /\ a \in present /\ a \notin blocked
             /\ ~acct[a].disabled /\ ~acct[a].cool
             /\ Lasting(a, acct'[a].token)
<1>1. TypeInv /\ AcquireInv /\ BlockInv /\ [Next]_vars => [Usable1]_vars
  <2> SUFFICES ASSUME TypeInv, AcquireInv, BlockInv, Next, NEW a \in Accounts, Granted(a)
               PROVE  /\ a \in present /\ a \notin blocked
                      /\ ~acct[a].disabled /\ ~acct[a].cool
                      /\ Lasting(a, acct'[a].token)
    OBVIOUS
  <2>1. PICK token \in Issued : AcquireGrant(a, token)
    BY GrantStep DEF TypeInv
  <2>2. a \in Usable
    BY <2>1 DEF AcquireGrant, AcquireInv, AcquireNeverRetriesFailed
  <2>3. Lasting(a, acct'[a].token)
    BY <2>1, GrantHasToken DEF TypeInv
  <2> QED
    BY <2>2, <2>3 DEF Usable, BlockInv, BlockedIsDisabled
<1>2. Init => BlockInv /\ AcquireInv
  BY DEF Init, BlockInv, BlockedIsDisabled, AcquireInv, AcquireNeverRetriesFailed
<1>3. TypeInv /\ BlockInv /\ [Next]_vars => BlockInv'
  BY BlockStep
<1> QED
  BY <1>1, <1>2, <1>3, InitType, TypeStep, AcquireStep, PTL DEF Spec, LeaseOnlyUsable, Lasting

-----------------------------------------------------------------------------
(* An enabled account has a status it can be handed out with.              *)

SchedulableState ==
  {s \in AccountState : ~s.disabled => s.status \in {"active", "cooling"}}

SchedulableTables == [Accounts -> SchedulableState]

(* What makes EnabledIsSchedulable inductive: it holds of the records on   *)
(* disk too, which the next start loads, and of accounts that are not in   *)
(* memory at the moment.                                                   *)
ScheduleInv == acct \in SchedulableTables /\ disk \in SchedulableTables

(* The field updates of the methods keep it.                               *)
LEMMA ScheduleFields ==
  \A s \in SchedulableState :
    /\ \A b \in BOOLEAN : /\ [s EXCEPT !.inPool = b] \in SchedulableState
                         /\ [s EXCEPT !.cool = b] \in SchedulableState
    /\ \A t \in {"none", "fresh", "stale", "static"} :
         [s EXCEPT !.token = t] \in SchedulableState
    /\ [s EXCEPT !.status = "active"] \in SchedulableState
    /\ [s EXCEPT !.status = "cooling"] \in SchedulableState
  BY DEF SchedulableState, AccountState

(* A freshly loaded account is schedulable.                                *)
LEMMA ScheduleFresh == \A a \in Accounts : Fresh(a) \in SchedulableState
  BY DEF Fresh, SchedulableState, AccountState

(* A success and the decisions of an administrator keep it: Enabled sets   *)
(* the status with the flag.                                               *)
LEMMA ScheduleAdmin ==
  \A s \in SchedulableState : /\ Succeeded(s) \in SchedulableState
                              /\ Disabled(s) \in SchedulableState
                              /\ Enabled(s) \in SchedulableState
  BY DEF Succeeded, Disabled, Enabled, SchedulableState, AccountState

(* A scan keeps it: only a cooling account gets another status.            *)
LEMMA ScheduleScanned == \A s \in SchedulableState : Scanned(s) \in SchedulableState
<1> SUFFICES ASSUME NEW s \in SchedulableState PROVE Scanned(s) \in SchedulableState
  OBVIOUS
<1>1. CASE s.disabled
  BY <1>1 DEF Scanned, SchedulableState, AccountState
<1>2. CASE ~s.disabled /\ s.cool
  BY <1>2 DEF Scanned, SchedulableState, AccountState
<1>3. CASE ~s.disabled /\ ~s.cool
  BY <1>3 DEF Scanned, SchedulableState, AccountState
<1> QED
  BY <1>1, <1>2, <1>3

(* A failure keeps it: the status of a block comes with the flag.          *)
LEMMA ScheduleFailed ==
  \A s \in SchedulableState, reason \in FailureReasons : Failed(s, reason) \in SchedulableState
<1> SUFFICES ASSUME NEW s \in SchedulableState, NEW reason \in FailureReasons
             PROVE  Failed(s, reason) \in SchedulableState
  OBVIOUS
<1>1. CASE reason = "auth"
  BY <1>1 DEF Failed, SchedulableState, AccountState
<1>2. CASE reason = "ban"
  BY <1>2 DEF Failed, SchedulableState, AccountState
<1>3. CASE reason = "quota"
  BY <1>3 DEF Failed, SchedulableState, AccountState
<1>4. CASE reason = "not_implemented"
  BY <1>4 DEF Failed, SchedulableState, AccountState
<1>5. CASE reason \in {"network", "unknown"}
  BY <1>5 DEF Failed, SchedulableState, AccountState
<1> QED
  BY <1>1, <1>2, <1>3, <1>4, <1>5 DEF FailureReasons

(* A whole table keeps it under an update, a scan, a refresh of a token    *)
(* and a place in the pool.                                                *)
LEMMA ScheduleTables ==
  ASSUME NEW A \in SchedulableTables, NEW a \in Accounts
  PROVE  /\ \A s \in SchedulableState : [A EXCEPT ![a] = s] \in SchedulableTables
         /\ Scan(A) \in SchedulableTables
         /\ JoinPool(A, a) \in SchedulableTables
         /\ [A EXCEPT ![a].status = "active"] \in SchedulableTables
         /\ [A EXCEPT ![a].inPool = TRUE] \in SchedulableTables
<1>1. A[a] \in SchedulableState
  BY DEF SchedulableTables
<1>2. Scan(A) \in SchedulableTables
  BY ScheduleScanned DEF Scan, SchedulableTables
<1>3. [A[a] EXCEPT !.inPool = TRUE] \in SchedulableState
  BY <1>1, ScheduleFields
<1>4. [A EXCEPT ![a].inPool = TRUE] \in SchedulableTables
  BY <1>3 DEF SchedulableTables
<1>5. [A[a] EXCEPT !.status = "active"] \in SchedulableState
  BY <1>1, ScheduleFields
<1>6. [A EXCEPT ![a].status = "active"] \in SchedulableTables
  BY <1>5 DEF SchedulableTables
<1>7. JoinPool(A, a) \in SchedulableTables
  BY <1>4 DEF JoinPool
<1>8. \A s \in SchedulableState : [A EXCEPT ![a] = s] \in SchedulableTables
  BY DEF SchedulableTables
<1> QED
  BY <1>2, <1>4, <1>6, <1>7, <1>8

(* So does ensureBearer.                                                   *)
LEMMA ScheduleRenewed ==
  ASSUME acct \in SchedulableTables, NEW a \in Accounts, NEW forced \in BOOLEAN,
         NEW token \in Issued
  PROVE  Renewed(a, forced, token) \in SchedulableTables
<1>1. [acct[a] EXCEPT !.token = token] \in SchedulableState
  BY ScheduleFields, IssuedAssumption DEF SchedulableTables
<1> QED
  BY <1>1 DEF Renewed, SchedulableTables

(* A save of such a table leaves such records.                             *)
LEMMA ScheduleSave ==
  ASSUME ScheduleInv, NEW A \in SchedulableTables, Save(A) \/ UNCHANGED diskVars
  PROVE  disk' \in SchedulableTables
<1>1. \A a \in Accounts : [A[a] EXCEPT !.inPool = FALSE] \in SchedulableState
  BY ScheduleFields DEF SchedulableTables
<1>2. CASE disk' = [a \in Accounts |-> [A[a] EXCEPT !.inPool = FALSE]]
  BY <1>1, <1>2 DEF SchedulableTables
<1>3. CASE UNCHANGED diskVars
  BY <1>3 DEF diskVars, ScheduleInv
<1> QED
  BY <1>2, <1>3 DEF Save

(* So do two saves.                                                        *)
LEMMA ScheduleSaveTwice ==
  ASSUME ScheduleInv, NEW A \in SchedulableTables, NEW B \in SchedulableTables,
         NEW c, SaveTwice(c, A, B)
  PROVE  disk' \in SchedulableTables
<1>1. \A a \in Accounts : [A[a] EXCEPT !.inPool = FALSE] \in SchedulableState
  BY ScheduleFields DEF SchedulableTables
<1>2. CASE Save(B)
  BY <1>2, ScheduleSave
<1>3. CASE disk' = [a \in Accounts |-> [A[a] EXCEPT !.inPool = FALSE]]
  BY <1>1, <1>3 DEF SchedulableTables
<1> QED
  BY <1>2, <1>3 DEF SaveTwice

(* So does applyFailure.                                                   *)
LEMMA ScheduleFailure ==
  ASSUME ScheduleInv, NEW a \in Accounts, NEW reason \in FailureReasons,
         ApplyFailure(a, reason)
  PROVE  /\ [acct EXCEPT ![a] = Failed(@, reason)] \in SchedulableTables
         /\ disk' \in SchedulableTables
<1>1. Failed(acct[a], reason) \in SchedulableState
  BY ScheduleFailed DEF ScheduleInv, SchedulableTables
<1>2. [acct EXCEPT ![a] = Failed(@, reason)] \in SchedulableTables
  BY <1>1 DEF ScheduleInv, SchedulableTables
<1> QED
  BY <1>2, ScheduleSave DEF ApplyFailure

(* Every step keeps the statuses schedulable, in memory and on disk.       *)
LEMMA ScheduleStep == TypeOK /\ ScheduleInv /\ [Next]_vars => ScheduleInv'
<1> SUFFICES ASSUME TypeOK, ScheduleInv, [Next]_vars PROVE ScheduleInv'
  OBVIOUS
<1>1. CASE Start
  <2>1. PICK L \in SUBSET External : Load(L)
    BY <1>1 DEF Start
  <2>2. acct' \in SchedulableTables
    BY <2>1, ScheduleFresh DEF Load, ScheduleInv, SchedulableTables
  <2> QED
    BY <1>1, <2>2 DEF Start, diskVars, ScheduleInv
<1>2. CASE Crash
  BY <1>2, ScheduleFresh DEF Crash, diskVars, ScheduleInv, SchedulableTables
<1>3. ASSUME acct' = Scan(acct), Save(acct') \/ UNCHANGED diskVars PROVE ScheduleInv'
  <2>1. CASE Accounts = {}
    <3>1. acct' = acct /\ acct \in [Accounts -> AccountState]
      BY <1>3, <2>1 DEF Scan, TypeOK
    <3> QED
      BY <1>3, <3>1, ScheduleSave DEF ScheduleInv
  <2>2. CASE Accounts # {}
    <3>1. acct' \in SchedulableTables
      BY <1>3, <2>2, ScheduleTables DEF ScheduleInv
    <3> QED
      BY <1>3, <3>1, ScheduleSave DEF ScheduleInv
  <2> QED
    BY <2>1, <2>2
<1>4. ASSUME NEW a \in Accounts, NEW token \in Issued, AcquireGrant(a, token) PROVE ScheduleInv'
  <2> DEFINE A == Renewed(a, FALSE, token)
  <2>1. A \in SchedulableTables
    BY ScheduleRenewed DEF ScheduleInv
  <2>2. [A EXCEPT ![a].status = "active"] \in SchedulableTables
    BY <2>1, ScheduleTables
  <2>3. acct' = JoinPool([A EXCEPT ![a].status = "active"], a)
    BY <1>4 DEF AcquireGrant
  <2>4. acct' \in SchedulableTables
    BY <2>2, <2>3, ScheduleTables
  <2>5. Save(A) \/ UNCHANGED diskVars
    BY <1>4 DEF AcquireGrant, SaveIf
  <2> QED
    BY <2>1, <2>4, <2>5, ScheduleSave DEF ScheduleInv
<1>5. ASSUME NEW a \in Accounts, NEW reason \in FailureReasons, AcquireFails(a, reason)
      PROVE  ScheduleInv'
  BY <1>5, ScheduleFailure DEF AcquireFails, ScheduleInv
<1>6. ASSUME NEW r \in Requests, ReportSuccess(r) PROVE ScheduleInv'
  <2>1. CASE lease[r] \in present
    <3> DEFINE A == [acct EXCEPT ![lease[r]] = Succeeded(@)]
    <3>1. lease[r] \in Accounts
      BY <2>1 DEF TypeOK
    <3>2. Succeeded(acct[lease[r]]) \in SchedulableState
      BY <3>1, ScheduleAdmin DEF ScheduleInv, SchedulableTables
    <3>3. A \in SchedulableTables
      BY <3>1, <3>2 DEF ScheduleInv, SchedulableTables
    <3>4. acct' = JoinPool(A, lease[r])
      BY <1>6, <2>1 DEF ReportSuccess
    <3>5. acct' \in SchedulableTables
      BY <3>1, <3>3, <3>4, ScheduleTables
    <3> QED
      BY <1>6, <3>5 DEF ReportSuccess, diskVars, ScheduleInv
  <2>2. CASE lease[r] \notin present
    BY <1>6, <2>2 DEF ReportSuccess, diskVars, ScheduleInv
  <2> QED
    BY <2>1, <2>2
<1>7. ASSUME NEW r \in Requests, NEW reason \in FailureReasons, ReportFailure(r, reason)
      PROVE  ScheduleInv'
  <2>1. CASE lease[r] \in present
    BY <1>7, <2>1, ScheduleFailure DEF ReportFailure, ScheduleInv, TypeOK
  <2>2. CASE lease[r] \notin present
    BY <1>7, <2>2 DEF ReportFailure, diskVars, ScheduleInv
  <2> QED
    BY <2>1, <2>2
<1>8. ASSUME NEW forced \in BOOLEAN, MaintainBegin(forced) PROVE ScheduleInv'
  BY <1>3, <1>8 DEF MaintainBegin
<1>9. ASSUME NEW a \in Accounts, NEW token \in Issued, RenewMember(a, token) PROVE ScheduleInv'
  <2>1. CASE /\ acct' = Renewed(a, force, token)
             /\ SaveIf(CallsOidc(a, force), acct')
    <3>1. acct' \in SchedulableTables
      BY <2>1, ScheduleRenewed DEF ScheduleInv, TypeOK
    <3> QED
      BY <2>1, <3>1, ScheduleSave DEF SaveIf, ScheduleInv
  <2>2. ASSUME NEW reason \in BearerErrors(a, force), ApplyFailure(a, reason),
               acct' = [acct EXCEPT ![a] = [Failed(@, reason) EXCEPT !.inPool = FALSE]]
        PROVE  ScheduleInv'
    <3>1. reason \in FailureReasons
      BY <2>2, ReasonAssumption DEF BearerErrors, FailureReasons
    <3>2. Failed(acct[a], reason) \in SchedulableState
      BY <3>1, ScheduleFailed DEF ScheduleInv, SchedulableTables
    <3>3. [Failed(acct[a], reason) EXCEPT !.inPool = FALSE] \in SchedulableState
      BY <3>2, ScheduleFields
    <3>4. acct' \in SchedulableTables
      BY <2>2, <3>3 DEF ScheduleInv, SchedulableTables
    <3> QED
      BY <2>2, <3>1, <3>4, ScheduleFailure DEF ScheduleInv
  <2> QED
    BY <1>9, <2>1, <2>2 DEF RenewMember
<1>10. ASSUME NEW fetched \in SUBSET External, Refill(fetched) PROVE ScheduleInv'
  <2>1. acct' = Scan(acct)
    BY <1>10 DEF Refill
  <2>2. Save(acct') \/ UNCHANGED diskVars
    BY <1>10 DEF Refill, SaveIf
  <2> QED
    BY <1>3, <2>1, <2>2
<1>11. ASSUME NEW a \in Accounts, NEW token \in Issued, FillMember(a, token) PROVE ScheduleInv'
  <2> DEFINE A == Renewed(a, FALSE, token)
  <2>1. CASE acct' = [A EXCEPT ![a].inPool = TRUE] /\ SaveIf(CallsOidc(a, FALSE), A)
    <3>1. A \in SchedulableTables
      BY ScheduleRenewed DEF ScheduleInv
    <3>2. acct' \in SchedulableTables
      BY <2>1, <3>1, ScheduleTables
    <3>3. Save(A) \/ UNCHANGED diskVars
      BY <2>1 DEF SaveIf
    <3> QED
      BY <3>1, <3>2, <3>3, ScheduleSave DEF ScheduleInv
  <2>2. ASSUME NEW reason \in BearerErrors(a, FALSE), ApplyFailure(a, reason),
               acct' = [acct EXCEPT ![a] = Failed(@, reason)]
        PROVE  ScheduleInv'
    <3>1. reason \in FailureReasons
      BY <2>2, ReasonAssumption DEF BearerErrors, FailureReasons
    <3> QED
      BY <2>2, <3>1, ScheduleFailure DEF ScheduleInv
  <2> QED
    BY <1>11, <2>1, <2>2 DEF FillMember
<1>12. CASE MaintainEnd \/ PoolSnapshot
  BY <1>3, <1>12 DEF MaintainEnd, PoolSnapshot
<1>13. ASSUME NEW a \in Accounts, NEW s \in SchedulableState, acct' = [acct EXCEPT ![a] = s],
              Save(acct')
       PROVE  ScheduleInv'
  BY <1>13, ScheduleTables, ScheduleSave DEF ScheduleInv
<1>14. ASSUME NEW a \in Accounts, DisableAccount(a) PROVE ScheduleInv'
  BY <1>13, <1>14, ScheduleAdmin DEF DisableAccount, ScheduleInv, SchedulableTables
<1>15. ASSUME NEW a \in Accounts, EnableAccount(a) PROVE ScheduleInv'
  BY <1>13, <1>15, ScheduleAdmin DEF EnableAccount, ScheduleInv, SchedulableTables
<1>16. CASE UpdateWeight
  BY <1>16, ScheduleSave DEF UpdateWeight, ScheduleInv
<1>17. ASSUME NEW a \in Accounts, DeleteAccount(a) PROVE ScheduleInv'
  BY <1>13, <1>14, <1>17, ScheduleFresh DEF DeleteAccount
<1>18. ASSUME NEW a \in Accounts, NEW token \in Issued, RefreshAccount(a, token) PROVE ScheduleInv'
  <2> DEFINE A == Renewed(a, TRUE, token)
  <2>1. A \in SchedulableTables
    BY ScheduleRenewed DEF ScheduleInv
  <2>2. Enabled(A[a]) \in SchedulableState
    BY <2>1, ScheduleAdmin DEF SchedulableTables
  <2>3. [A EXCEPT ![a] = Enabled(@)] \in SchedulableTables
    BY <2>1, <2>2 DEF SchedulableTables
  <2>4. acct' \in SchedulableTables
    BY <1>18, <2>3, ScheduleTables DEF RefreshAccount
  <2>5. SaveTwice(CallsOidc(a, TRUE), A, acct')
    BY <1>18 DEF RefreshAccount
  <2> QED
    BY <2>1, <2>4, <2>5, ScheduleSaveTwice DEF ScheduleInv
<1>19. ASSUME NEW a \in Accounts, NEW token \in {"static"} \union Issued, ImportAccount(a, token)
       PROVE  ScheduleInv'
  <2> DEFINE s == [Fresh(a) EXCEPT !.token = token]
             t == [s EXCEPT !.inPool = (Warmed(acct) < PoolSize)]
  <2>1. s \in SchedulableState
    BY ScheduleFresh, ScheduleFields, IssuedAssumption
  <2>2. (Warmed(acct) < PoolSize) \in BOOLEAN
    BY WarmedType, PoolSizeAssumption DEF TypeOK
  <2>3. t \in SchedulableState
    <3> HIDE DEF s
    <3> QED
      BY <2>1, <2>2, ScheduleFields
  <2>4. acct' = [acct EXCEPT ![a] = t]
    BY <1>19 DEF ImportAccount, Fresh
  <2>5. acct' \in SchedulableTables
    BY <2>3, <2>4, ScheduleTables DEF ScheduleInv
  <2> QED
    BY <1>19, <2>5, ScheduleSaveTwice DEF ImportAccount, ScheduleInv
<1>20. ASSUME NEW a \in Accounts, TokenExpires(a) PROVE ScheduleInv'
  BY <1>20 DEF TokenExpires, ScheduleInv, SchedulableTables, SchedulableState, AccountState
<1>21. ASSUME NEW a \in Accounts, CooldownElapses(a) PROVE ScheduleInv'
  BY <1>21, ScheduleFields DEF CooldownElapses, ScheduleInv, SchedulableTables
<1>22. ASSUME NEW r \in Requests, LeaseDropped(r) PROVE ScheduleInv'
  BY <1>22 DEF LeaseDropped, diskVars, ScheduleInv
<1>23. ASSUME NEW r \in Requests, NEW hint, AcquireBegin(r, hint) PROVE ScheduleInv'
  BY <1>3, <1>23 DEF AcquireBegin
<1>24. CASE UNCHANGED vars
  BY <1>24 DEF vars, diskVars, ScheduleInv
<1>25. CASE Lifecycle
  BY <1>1, <1>2, <1>25 DEF Lifecycle
<1>26. CASE Acquire
  BY <1>4, <1>5, <1>23, <1>26 DEF Acquire
<1>27. CASE Report
  BY <1>6, <1>7, <1>22, <1>27, ReasonAssumption DEF Report
<1>28. CASE Maintain
  BY <1>8, <1>9, <1>10, <1>11, <1>12, <1>28 DEF Maintain, WarmPool, RefreshPool
<1>29. CASE Administration
  BY <1>14, <1>15, <1>16, <1>17, <1>18, <1>19, <1>29 DEF Administration
<1>30. CASE Time
  BY <1>20, <1>21, <1>30 DEF Time
<1> QED
  BY <1>24, <1>25, <1>26, <1>27, <1>28, <1>29, <1>30 DEF Next

(* In every running process an account that is enabled has status active   *)
(* or cooling, whatever the source, the failing saves and the restarts.    *)
THEOREM StatusesAgree == Spec => []EnabledIsSchedulable
<1>1. Init => ScheduleInv
  BY ScheduleFresh DEF Init, ScheduleInv, SchedulableTables
<1>2. TypeInv /\ ScheduleInv => EnabledIsSchedulable
  BY DEF TypeInv, TypeOK, ScheduleInv, SchedulableTables, SchedulableState, EnabledIsSchedulable
<1>3. TypeInv /\ ScheduleInv /\ [Next]_vars => ScheduleInv'
  BY ScheduleStep DEF TypeInv
<1> QED
  BY <1>1, <1>2, <1>3, InitType, TypeStep, PTL DEF Spec

-----------------------------------------------------------------------------
(* The state file knows who is disabled.                                   *)

(* There is a state file and no write to it fails.  It may still be lost:  *)
(* a torn write ends the process with it.                                  *)
Saving == Persistent /\ ~SavesMayFail

(* A step that keeps the flags in memory and on disk keeps the agreement.  *)
LEMMA KnownKeep ==
  ASSUME TypeOK, DiskKnowsDisabled, UNCHANGED <<present, recorded>>,
         \A b \in Accounts : /\ acct'[b].disabled = acct[b].disabled
                             /\ disk'[b].disabled = disk[b].disabled
  PROVE  DiskKnowsDisabled'
  BY DEF DiskKnowsDisabled, TypeOK

(* So does one that saves the flags it leaves in memory.                   *)
LEMMA KnownSave ==
  ASSUME Saving, present' \subseteq Accounts, NEW A \in [Accounts -> AccountState], Save(A),
         \A b \in present' : acct'[b].disabled = A[b].disabled
  PROVE  DiskKnowsDisabled'
<1>1. recorded' = present' /\ disk' = [a \in Accounts |-> [A[a] EXCEPT !.inPool = FALSE]]
  BY DEF Saving, Save
<1>2. \A b \in Accounts : [A[b] EXCEPT !.inPool = FALSE].disabled = A[b].disabled
  BY DEF AccountState
<1> QED
  BY <1>1, <1>2 DEF DiskKnowsDisabled

(* So does applyFailure, which saves what it disables.                     *)
LEMMA KnownFailure ==
  ASSUME Saving, TypeOK, present' = present, NEW a \in Accounts, NEW reason \in FailureReasons,
         ApplyFailure(a, reason),
         \A b \in Accounts :
           acct'[b].disabled = [acct EXCEPT ![a] = Failed(@, reason)][b].disabled
  PROVE  DiskKnowsDisabled'
<1> DEFINE A == [acct EXCEPT ![a] = Failed(@, reason)]
<1>1. A \in [Accounts -> AccountState]
  BY FailedType, UpdateType DEF TypeOK
<1>2. Save(A)
  BY DEF ApplyFailure
<1> QED
  BY <1>1, <1>2, KnownSave DEF TypeOK

(* So does ensureBearer, which disables nobody.                            *)
LEMMA KnownRenewal ==
  ASSUME Saving, TypeOK, DiskKnowsDisabled, present' = present,
         NEW a \in Accounts, NEW forced \in BOOLEAN, NEW token \in Issued,
         SaveIf(CallsOidc(a, forced), Renewed(a, forced, token)),
         \A b \in Accounts : acct'[b].disabled = acct[b].disabled
  PROVE  DiskKnowsDisabled'
<1> DEFINE A == Renewed(a, forced, token)
<1>1. A \in [Accounts -> AccountState]
  BY RenewedType DEF TypeOK
<1>2. \A b \in Accounts : A[b].disabled = acct[b].disabled
  BY RenewedKeepsFlags DEF TypeOK
<1>3. CASE Save(A)
  <2> HIDE DEF A
  <2> QED
    BY <1>1, <1>2, <1>3, KnownSave DEF TypeOK
<1>4. CASE UNCHANGED diskVars
  BY <1>4, KnownKeep DEF diskVars
<1> QED
  BY <1>3, <1>4 DEF SaveIf

(* Every step of the pool keeps the agreement.                             *)
LEMMA KnownStep == Saving /\ TypeInv /\ DiskKnowsDisabled /\ [Next]_vars => DiskKnowsDisabled'
<1> SUFFICES ASSUME Saving, TypeInv, TypeOK, DiskKnowsDisabled, [Next]_vars
             PROVE  DiskKnowsDisabled'
  BY DEF TypeInv
<1>0. TypeOK' /\ present' \subseteq Accounts /\ acct' \in [Accounts -> AccountState]
  BY TypeStep DEF TypeInv, TypeOK
<1>1. CASE Start
  <2>1. PICK L \in SUBSET External : Load(L)
    BY <1>1 DEF Start
  <2>2. UNCHANGED diskVars
    BY <1>1 DEF Start
  <2>3. \A a \in Accounts : ~Fresh(a).disabled
    BY DEF Fresh
  <2> QED
    BY <1>0, <2>1, <2>2, <2>3 DEF Load, diskVars, DiskKnowsDisabled
<1>2. CASE Crash
  BY <1>2 DEF Crash, DiskKnowsDisabled
<1>3. ASSUME acct' = Scan(acct), UNCHANGED <<present, diskVars>> PROVE DiskKnowsDisabled'
  BY <1>3, ScanKeeps, KnownKeep DEF diskVars
<1>4. ASSUME NEW a \in Accounts, NEW token \in Issued, AcquireGrant(a, token) PROVE DiskKnowsDisabled'
  <2> DEFINE A == Renewed(a, FALSE, token)
             B == [A EXCEPT ![a].status = "active"]
  <2>1. A \in [Accounts -> AccountState]
    BY RenewedType DEF TypeOK
  <2>2. B \in [Accounts -> AccountState] /\ \A b \in Accounts : B[b].disabled = A[b].disabled
    BY <2>1, EntryKeepsDisabled
  <2>3. \A b \in Accounts : A[b].disabled = acct[b].disabled
    BY RenewedKeepsFlags DEF TypeOK
  <2>4. acct' = JoinPool(B, a)
    BY <1>4 DEF AcquireGrant
  <2>5. \A b \in Accounts : acct'[b].disabled = acct[b].disabled
    <3> HIDE DEF A, B
    <3> QED
      BY <2>2, <2>3, <2>4, JoinPoolKeepsFlags
  <2> QED
    BY <1>4, <2>5, KnownRenewal DEF AcquireGrant
<1>5. ASSUME NEW a \in Accounts, NEW reason \in FailureReasons, AcquireFails(a, reason)
      PROVE  DiskKnowsDisabled'
  BY <1>5, KnownFailure DEF AcquireFails
<1>6. ASSUME NEW r \in Requests, ReportSuccess(r) PROVE DiskKnowsDisabled'
  <2>1. \A b \in Accounts : acct'[b].disabled = acct[b].disabled
    <3>1. CASE lease[r] \in present
      <4> DEFINE A == [acct EXCEPT ![lease[r]] = Succeeded(@)]
      <4>1. A \in [Accounts -> AccountState]
        BY <3>1, AdminType, UpdateType DEF TypeOK
      <4>2. \A b \in Accounts : A[b].disabled = acct[b].disabled
        BY <3>1 DEF Succeeded, TypeOK, AccountState
      <4> QED
        BY <1>6, <3>1, <4>1, <4>2, JoinPoolKeepsFlags DEF ReportSuccess, TypeOK
    <3> QED
      BY <1>6, <3>1 DEF ReportSuccess
  <2> QED
    BY <1>6, <2>1, KnownKeep DEF ReportSuccess, diskVars
<1>7. ASSUME NEW r \in Requests, NEW reason \in FailureReasons, ReportFailure(r, reason)
      PROVE  DiskKnowsDisabled'
  <2>1. CASE lease[r] \in present
    BY <1>7, <2>1, KnownFailure DEF ReportFailure, TypeOK
  <2>2. CASE lease[r] \notin present
    BY <1>7, <2>2, KnownKeep DEF ReportFailure, diskVars
  <2> QED
    BY <2>1, <2>2
<1>8. ASSUME NEW forced \in BOOLEAN, MaintainBegin(forced) PROVE DiskKnowsDisabled'
  BY <1>3, <1>8 DEF MaintainBegin
<1>9. ASSUME NEW a \in Accounts, NEW token \in Issued, RenewMember(a, token) PROVE DiskKnowsDisabled'
  <2>1. CASE acct' = Renewed(a, force, token) /\ SaveIf(CallsOidc(a, force), acct')
    BY <1>9, <2>1, KnownRenewal, RenewedKeepsFlags DEF RenewMember, TypeOK
  <2>2. ASSUME NEW reason \in BearerErrors(a, force), ApplyFailure(a, reason),
               acct' = [acct EXCEPT ![a] = [Failed(@, reason) EXCEPT !.inPool = FALSE]]
        PROVE  DiskKnowsDisabled'
    <3>1. reason \in FailureReasons
      BY <2>2, ReasonAssumption DEF BearerErrors, FailureReasons
    <3>2. [Failed(acct[a], reason) EXCEPT !.inPool = FALSE].disabled = Failed(acct[a], reason).disabled
      BY <3>1, FailedType DEF TypeOK, AccountState
    <3>3. \A b \in Accounts :
            acct'[b].disabled = [acct EXCEPT ![a] = Failed(@, reason)][b].disabled
      BY <2>2, <3>2 DEF TypeOK
    <3> QED
      BY <1>9, <2>2, <3>1, <3>3, KnownFailure DEF RenewMember
  <2> QED
    BY <1>9, <2>1, <2>2 DEF RenewMember
<1>10. ASSUME NEW fetched \in SUBSET External, Refill(fetched) PROVE DiskKnowsDisabled'
  <2>1. PICK added : present' = present \union added /\ SaveIf(added # {}, Scan(acct))
    BY <1>10 DEF Refill
  <2>2. acct' = Scan(acct)
    BY <1>10 DEF Refill
  <2>3. CASE Save(Scan(acct))
    BY <1>0, <2>2, <2>3, KnownSave
  <2>4. CASE added = {} /\ UNCHANGED diskVars
    BY <1>3, <2>1, <2>2, <2>4
  <2> QED
    BY <2>1, <2>3, <2>4 DEF SaveIf
<1>11. ASSUME NEW a \in Accounts, NEW token \in Issued, FillMember(a, token) PROVE DiskKnowsDisabled'
  <2> DEFINE A == Renewed(a, FALSE, token)
  <2>1. CASE acct' = [A EXCEPT ![a].inPool = TRUE] /\ SaveIf(CallsOidc(a, FALSE), A)
    <3>1. A \in [Accounts -> AccountState]
      BY RenewedType DEF TypeOK
    <3>2. \A b \in Accounts : [A EXCEPT ![a].inPool = TRUE][b].disabled = A[b].disabled
      BY <3>1, EntryKeepsDisabled
    <3>3. \A b \in Accounts : acct'[b].disabled = acct[b].disabled
      BY <2>1, <3>2, RenewedKeepsFlags DEF TypeOK
    <3> QED
      BY <1>11, <2>1, <3>3, KnownRenewal DEF FillMember
  <2>2. ASSUME NEW reason \in BearerErrors(a, FALSE), ApplyFailure(a, reason),
               acct' = [acct EXCEPT ![a] = Failed(@, reason)]
        PROVE  DiskKnowsDisabled'
    <3>1. reason \in FailureReasons
      BY <2>2, ReasonAssumption DEF BearerErrors, FailureReasons
    <3> QED
      BY <1>11, <2>2, <3>1, KnownFailure DEF FillMember
  <2> QED
    BY <1>11, <2>1, <2>2 DEF FillMember
<1>12. CASE MaintainEnd \/ PoolSnapshot
  BY <1>3, <1>12 DEF MaintainEnd, PoolSnapshot
<1>13. CASE Save(acct')
  BY <1>0, <1>13, KnownSave
<1>14. CASE Administration
  <2>1. CASE UpdateWeight
    BY <1>13, <2>1 DEF UpdateWeight
  <2>2. ASSUME NEW a \in Accounts,
               DisableAccount(a) \/ EnableAccount(a) \/ DeleteAccount(a)
               \/ \E token \in Issued : RefreshAccount(a, token)
        PROVE  DiskKnowsDisabled'
    BY <1>13, <2>2 DEF DisableAccount, EnableAccount, DeleteAccount, RefreshAccount, SaveTwice, Saving
  <2>3. ASSUME NEW a \in Accounts, NEW token \in {"static"} \union Issued, ImportAccount(a, token)
        PROVE  DiskKnowsDisabled'
    BY <1>13, <2>3 DEF ImportAccount, SaveTwice, Saving
  <2> QED
    BY <1>14, <2>1, <2>2, <2>3 DEF Administration
<1>15. ASSUME NEW a \in Accounts, TokenExpires(a) \/ CooldownElapses(a) PROVE DiskKnowsDisabled'
  <2>1. UNCHANGED <<present, recorded>>
    BY <1>15 DEF TokenExpires, CooldownElapses
  <2> QED
    BY <1>15, <2>1, TimeKeepsFlags, KnownKeep
<1>16. CASE UNCHANGED vars
  BY <1>16, KnownKeep DEF vars, diskVars
<1>17. ASSUME NEW r \in Requests, LeaseDropped(r) PROVE DiskKnowsDisabled'
  BY <1>17, KnownKeep DEF LeaseDropped, diskVars
<1>18. ASSUME NEW r \in Requests, NEW hint, AcquireBegin(r, hint) PROVE DiskKnowsDisabled'
  BY <1>3, <1>18 DEF AcquireBegin
<1>19. CASE Lifecycle
  BY <1>1, <1>2, <1>19 DEF Lifecycle
<1>20. CASE Acquire
  BY <1>4, <1>5, <1>18, <1>20 DEF Acquire
<1>21. CASE Report
  BY <1>6, <1>7, <1>17, <1>21, ReasonAssumption DEF Report
<1>22. CASE Maintain
  BY <1>8, <1>9, <1>10, <1>11, <1>12, <1>22 DEF Maintain, WarmPool, RefreshPool
<1>23. CASE Time
  BY <1>15, <1>23 DEF Time
<1> QED
  BY <1>14, <1>16, <1>19, <1>20, <1>21, <1>22, <1>23 DEF Next

(* With a state file whose writes succeed, file and process agree at every *)
(* moment on which accounts are disabled, from any source, with the file   *)
(* torn by a crash or not: no method disables or enables without saving.   *)
THEOREM DiskAgrees ==
  ASSUME Saving
  PROVE  Spec => []DiskKnowsDisabled
<1>1. Init => DiskKnowsDisabled
  BY DEF Init, DiskKnowsDisabled
<1>2. TypeInv /\ DiskKnowsDisabled /\ [Next]_vars => DiskKnowsDisabled'
  BY KnownStep
<1> QED
  BY <1>1, <1>2, InitType, TypeStep, PTL DEF Spec

-----------------------------------------------------------------------------
(* The loops of maintainPoolLocked fill the pool.                          *)

(* An account that is not in memory is as its source would load it, so the *)
(* ones an API refill adds are neither warmed nor blocked.                 *)
Absent == \A a \in Accounts \ present : acct[a] = Fresh(a)

(* The accounts the second loop has still to try can all be warmed.        *)
Waiting == mu = "fill" => \A a \in todo : a \in Usable /\ ~acct[a].inPool

FillInv == Absent /\ Waiting /\ MaintainFillsPool

(* A step that changes no account outside keeps them fresh.                *)
LEMMA AbsentKeep ==
  ASSUME Absent, present \subseteq present',
         \A b \in Accounts \ present : acct'[b] = acct[b]
  PROVE  Absent'
  BY DEF Absent, Fresh, External

(* A scan changes no account outside.                                      *)
LEMMA AbsentScan ==
  ASSUME Absent, present \subseteq present', acct' = Scan(acct)
  PROVE  Absent'
  BY AbsentKeep DEF Scan

(* ensureBearer changes the account it is called for alone.                *)
LEMMA RenewedElsewhere ==
  ASSUME TypeOK, NEW a \in Accounts, NEW forced, NEW token, NEW b \in Accounts \ {a}
  PROVE  Renewed(a, forced, token)[b] = acct[b]
  BY DEF Renewed, TypeOK

(* So does a place in the pool.                                            *)
LEMMA JoinPoolElsewhere ==
  ASSUME NEW A \in [Accounts -> AccountState], NEW a \in Accounts, NEW b \in Accounts \ {a}
  PROVE  JoinPool(A, a)[b] = A[b]
  BY DEF JoinPool

(* Accounts outside stay as their source loads them.                       *)
LEMMA AbsentStep == TypeOK /\ Absent /\ [Next]_vars => Absent'
<1> SUFFICES ASSUME TypeOK, Absent, [Next]_vars PROVE Absent'
  OBVIOUS
<1>1. CASE Start
  <2>1. PICK L \in SUBSET External : Load(L)
    BY <1>1 DEF Start
  <2> QED
    BY <2>1 DEF Load, Absent, Fresh, External
<1>2. CASE Crash
  BY <1>2 DEF Crash, Absent, Fresh, External
<1>3. CASE acct' = Scan(acct) /\ present' = present
  BY <1>3, AbsentScan
<1>4. ASSUME NEW a \in Accounts, NEW token \in Issued, AcquireGrant(a, token) PROVE Absent'
  <2> DEFINE A == Renewed(a, FALSE, token)
             B == [A EXCEPT ![a].status = "active"]
  <2>1. A \in [Accounts -> AccountState]
    BY RenewedType DEF TypeOK
  <2>2. B \in [Accounts -> AccountState] /\ \A b \in Accounts \ {a} : B[b] = A[b]
    BY <2>1, EntryKeepsDisabled
  <2>3. acct' = JoinPool(B, a) /\ a \in present /\ present' = present
    BY <1>4 DEF AcquireGrant, TypeOK
  <2>4. \A b \in Accounts \ {a} : A[b] = acct[b]
    BY RenewedElsewhere
  <2>5. \A b \in Accounts \ {a} : acct'[b] = acct[b]
    <3> HIDE DEF A, B
    <3> QED
      BY <2>2, <2>3, <2>4, JoinPoolElsewhere
  <2> QED
    BY <2>3, <2>5, AbsentKeep
<1>5. ASSUME NEW a \in present, NEW s, acct' = [acct EXCEPT ![a] = s], present' = present
      PROVE  Absent'
  BY <1>5, AbsentKeep DEF TypeOK
<1>6. ASSUME NEW r \in Requests, ReportSuccess(r) PROVE Absent'
  <2>1. CASE lease[r] \in present
    <3> DEFINE A == [acct EXCEPT ![lease[r]] = Succeeded(@)]
    <3>1. A \in [Accounts -> AccountState]
      BY <2>1, AdminType, UpdateType DEF TypeOK
    <3>2. \A b \in Accounts \ {lease[r]} : A[b] = acct[b]
      BY DEF TypeOK
    <3>3. \A b \in Accounts \ {lease[r]} : JoinPool(A, lease[r])[b] = A[b]
      <4> HIDE DEF A
      <4> QED
        BY <2>1, <3>1, JoinPoolElsewhere DEF TypeOK
    <3> QED
      BY <1>6, <2>1, <3>2, <3>3, AbsentKeep DEF ReportSuccess
  <2>2. CASE lease[r] \notin present
    BY <1>6, <2>2, AbsentKeep DEF ReportSuccess
  <2> QED
    BY <2>1, <2>2
<1>7. ASSUME NEW r \in Requests, NEW reason, ReportFailure(r, reason) PROVE Absent'
  BY <1>5, <1>7, AbsentKeep DEF ReportFailure
<1>8. ASSUME NEW forced, MaintainBegin(forced) PROVE Absent'
  BY <1>3, <1>8 DEF MaintainBegin
<1>9. ASSUME NEW a \in Accounts, NEW token \in Issued, RenewMember(a, token) PROVE Absent'
  <2>1. a \in present /\ present' = present
    BY <1>9 DEF RenewMember, TypeOK
  <2>2. CASE acct' = Renewed(a, force, token)
    BY <2>1, <2>2, RenewedElsewhere, AbsentKeep
  <2>3. ASSUME NEW s, acct' = [acct EXCEPT ![a] = s] PROVE Absent'
    BY <1>5, <2>1, <2>3
  <2> QED
    BY <1>9, <2>2, <2>3 DEF RenewMember
<1>10. ASSUME NEW fetched \in SUBSET External, Refill(fetched) PROVE Absent'
  BY <1>10, AbsentScan DEF Refill
<1>11. ASSUME NEW a \in Accounts, NEW token \in Issued, FillMember(a, token) PROVE Absent'
  <2> DEFINE A == Renewed(a, FALSE, token)
  <2>1. a \in present /\ present' = present
    BY <1>11 DEF FillMember, TypeOK
  <2>2. CASE acct' = [A EXCEPT ![a].inPool = TRUE]
    <3>1. A \in [Accounts -> AccountState] /\ \A b \in Accounts \ {a} : A[b] = acct[b]
      <4>1. A \in [Accounts -> AccountState]
        BY RenewedType DEF TypeOK
      <4> QED
        BY <4>1, RenewedElsewhere
    <3> HIDE DEF A
    <3>2. \A b \in Accounts \ {a} : acct'[b] = acct[b]
      BY <2>2, <3>1
    <3> QED
      BY <2>1, <3>2, AbsentKeep
  <2>3. ASSUME NEW s, acct' = [acct EXCEPT ![a] = s] PROVE Absent'
    BY <1>5, <2>1, <2>3
  <2> QED
    BY <1>11, <2>2, <2>3 DEF FillMember
<1>12. CASE MaintainEnd \/ PoolSnapshot
  BY <1>3, <1>12 DEF MaintainEnd, PoolSnapshot
<1>13. ASSUME NEW a \in Accounts, DisableAccount(a) \/ EnableAccount(a) PROVE Absent'
  BY <1>5, <1>13 DEF DisableAccount, EnableAccount
<1>14. ASSUME NEW a \in Accounts, DeleteAccount(a) PROVE Absent'
  BY <1>13, <1>14 DEF DeleteAccount, Absent, TypeOK, Fresh, External
<1>15. ASSUME NEW a \in Accounts, NEW token \in Issued, RefreshAccount(a, token) PROVE Absent'
  <2> DEFINE A == Renewed(a, TRUE, token)
             B == [A EXCEPT ![a] = Enabled(@)]
  <2>1. A \in [Accounts -> AccountState] /\ \A b \in Accounts \ {a} : A[b] = acct[b]
    <3>1. A \in [Accounts -> AccountState]
      BY RenewedType DEF TypeOK
    <3> QED
      BY <3>1, RenewedElsewhere
  <2>2. B \in [Accounts -> AccountState] /\ \A b \in Accounts \ {a} : B[b] = A[b]
    <3> HIDE DEF A
    <3> QED
      BY <2>1, AdminType, UpdateType
  <2>3. acct' = JoinPool(B, a) /\ a \in present /\ present' = present
    BY <1>15 DEF RefreshAccount
  <2>4. \A b \in Accounts \ {a} : acct'[b] = acct[b]
    <3> HIDE DEF A, B
    <3> QED
      BY <2>1, <2>2, <2>3, JoinPoolElsewhere
  <2> QED
    BY <2>3, <2>4, AbsentKeep
<1>16. ASSUME NEW a \in Accounts, NEW token, ImportAccount(a, token) PROVE Absent'
  BY <1>16 DEF ImportAccount, Absent, TypeOK, Fresh, External
<1>17. ASSUME NEW a \in Accounts, TokenExpires(a) PROVE Absent'
  <2>1. \A b \in Accounts : acct[b].token # "fresh" => acct'[b] = acct[b]
    BY <1>17 DEF TokenExpires, TypeOK, AccountState
  <2>2. \A b \in Accounts : Fresh(b).token # "fresh"
    BY DEF Fresh
  <2>3. present' = present
    BY <1>17 DEF TokenExpires
  <2> QED
    BY <2>1, <2>2, <2>3, AbsentKeep DEF Absent
<1>18. ASSUME NEW a \in Accounts, CooldownElapses(a) PROVE Absent'
  <2>1. \A b \in Accounts : acct[b].cool = FALSE => acct'[b] = acct[b]
    BY <1>18 DEF CooldownElapses, TypeOK, AccountState
  <2>2. \A b \in Accounts : Fresh(b).cool = FALSE
    BY DEF Fresh
  <2>3. present' = present
    BY <1>18 DEF CooldownElapses
  <2> QED
    BY <2>1, <2>2, <2>3, AbsentKeep DEF Absent
<1>19. CASE UNCHANGED <<present, acct>>
  BY <1>19, AbsentKeep
<1>20. CASE Lifecycle
  BY <1>1, <1>2, <1>20 DEF Lifecycle
<1>21. CASE Acquire
  BY <1>3, <1>4, <1>5, <1>21 DEF Acquire, AcquireBegin, AcquireFails, TypeOK
<1>22. CASE Report
  BY <1>6, <1>7, <1>19, <1>22 DEF Report, LeaseDropped
<1>23. CASE Maintain
  BY <1>8, <1>9, <1>10, <1>11, <1>12, <1>23 DEF Maintain, WarmPool, RefreshPool
<1>24. CASE Administration
  BY <1>13, <1>14, <1>15, <1>16, <1>19, <1>24 DEF Administration, UpdateWeight
<1>25. CASE Time
  BY <1>17, <1>18, <1>25 DEF Time
<1> QED
  BY <1>19, <1>20, <1>21, <1>22, <1>23, <1>24, <1>25 DEF Next, vars

(* A scan leaves in the pool what can be handed out, and every account it  *)
(* finds cooling has that status.                                          *)
LEMMA ScannedPool ==
  \A s \in AccountState :
    /\ Scanned(s).inPool <=> s.inPool /\ ~s.disabled /\ ~s.cool
    /\ ~s.disabled /\ s.cool => Scanned(s).status = "cooling"
<1> SUFFICES ASSUME NEW s \in AccountState
             PROVE  /\ Scanned(s).inPool <=> s.inPool /\ ~s.disabled /\ ~s.cool
                    /\ ~s.disabled /\ s.cool => Scanned(s).status = "cooling"
  OBVIOUS
<1>1. CASE s.disabled
  BY <1>1 DEF Scanned, AccountState
<1>2. CASE ~s.disabled /\ s.cool
  BY <1>2 DEF Scanned, AccountState
<1>3. CASE ~s.disabled /\ ~s.cool
  BY <1>3 DEF Scanned, AccountState
<1> QED
  BY <1>1, <1>2, <1>3

(* A freshly loaded account is enabled, and not in the pool.               *)
LEMMA FreshPool ==
  \A a \in Accounts : ~Fresh(a).disabled /\ ~Fresh(a).cool /\ ~Fresh(a).inPool
  BY DEF Fresh

(* The failure of a refresh puts nobody in the pool, and leaves the        *)
(* account disabled or cooling.                                            *)
LEMMA FailedPool ==
  \A s \in AccountState, reason \in FailureReasons :
    /\ Failed(s, reason).inPool => s.inPool
    /\ reason # "not_implemented" =>
         Failed(s, reason).disabled \/ Failed(s, reason).status = "cooling"
<1> SUFFICES ASSUME NEW s \in AccountState, NEW reason \in FailureReasons
             PROVE  /\ Failed(s, reason).inPool => s.inPool
                    /\ reason # "not_implemented" =>
                         Failed(s, reason).disabled \/ Failed(s, reason).status = "cooling"
  OBVIOUS
<1>1. CASE reason = "auth"
  BY <1>1 DEF Failed, AccountState
<1>2. CASE reason = "ban"
  BY <1>2 DEF Failed, AccountState
<1>3. CASE reason = "quota"
  BY <1>3 DEF Failed, AccountState
<1>4. CASE reason = "not_implemented"
  BY <1>4 DEF Failed, AccountState
<1>5. CASE reason \in {"network", "unknown"}
  BY <1>5 DEF Failed, AccountState
<1> QED
  BY <1>1, <1>2, <1>3, <1>4, <1>5 DEF FailureReasons

(* Time moves nobody in or out of the pool and touches no status.          *)
LEMMA TimeKeepsPool ==
  ASSUME TypeOK, NEW a \in Accounts, TokenExpires(a) \/ CooldownElapses(a), NEW b \in Accounts
  PROVE  acct'[b].inPool = acct[b].inPool /\ acct'[b].status = acct[b].status
<1>1. CASE TokenExpires(a)
  BY <1>1 DEF TokenExpires, TypeOK, AccountState
<1>2. CASE CooldownElapses(a)
  BY <1>2 DEF CooldownElapses, TypeOK, AccountState
<1> QED
  BY <1>1, <1>2

(* What is missing from the pool of warmed accounts.                       *)
Lacking(n) == IF n < PoolSize THEN PoolSize - n ELSE 0

(* MaintainFillsPool is about that number.                                 *)
LEMMA FillsMeaning ==
  MaintainFillsPool <=>
    (mu = "fill" =>
       /\ need = Lacking(Warmed(acct))
       /\ \A a \in present : acct[a].inPool => a \in Usable
       /\ need > 0 => \A a \in present \ todo :
            acct[a].inPool \/ acct[a].disabled \/ acct[a].status = "cooling")
  BY DEF MaintainFillsPool, Lacking

(* One account more is one missing less.                                   *)
LEMMA LackingLess ==
  ASSUME NEW n \in Nat, Lacking(n) > 0
  PROVE  n < PoolSize /\ Lacking(n + 1) = Lacking(n) - 1
  BY PoolSizeAssumption DEF Lacking

(* Warming an account that is not in the pool adds one.                    *)
LEMMA WarmOne ==
  ASSUME TypeOK, TypeOK', NEW a \in present, present' = present,
         a \in Usable, ~acct[a].inPool,
         acct'[a].inPool, acct'[a].disabled = acct[a].disabled,
         \A b \in Accounts \ {a} : acct'[b] = acct[b]
  PROVE  Warmed(acct)' = Warmed(acct) + 1
<1>1. WarmedSet(acct)' = WarmedSet(acct) \union {a}
  BY DEF WarmedSet, Usable, TypeOK
<1>2. a \notin WarmedSet(acct)
  BY DEF WarmedSet
<1>3. IsFiniteSet(WarmedSet(acct))
  BY WarmedType DEF TypeOK
<1>4. Cardinality(WarmedSet(acct) \union {a}) = Cardinality(WarmedSet(acct)) + 1
  BY <1>2, <1>3, FS_AddElement
<1> QED
  BY <1>1, <1>4 DEF Warmed

(* The second loop begins with the number right and its accounts waiting.  *)
LEMMA FillBegins ==
  ASSUME TypeOK, TypeOK', Absent, NEW fetched \in SUBSET External, Refill(fetched)
  PROVE  Waiting' /\ MaintainFillsPool'
<1> DEFINE pooled == {a \in Usable : acct[a].inPool}
           added == Added(fetched, Missing(pooled))
<1>1. /\ present' = present \union added /\ acct' = Scan(acct)
      /\ need' = Missing(pooled) /\ mu' = "fill"
      /\ todo' = IF Missing(pooled) > 0 THEN (Usable \ pooled) \union added ELSE {}
  BY DEF Refill
<1>2. added \subseteq Accounts \ present
  BY DEF Added, External
<1>3. \A a \in Accounts \ present : acct'[a] = Fresh(a)
  BY <1>1 DEF Scan, Absent
<1>4. \A a \in present : acct'[a] = Scanned(acct[a])
  BY <1>1 DEF Scan, TypeOK
<1>5. \A a \in present : /\ acct'[a].disabled = acct[a].disabled
                         /\ acct'[a].cool = acct[a].cool
                         /\ acct'[a].inPool <=> a \in pooled
                         /\ ~acct[a].disabled /\ acct[a].cool => acct'[a].status = "cooling"
  BY <1>4, ScannedPool, ScanKeepsFlags DEF TypeOK, Usable
<1>6. \A a \in added : ~acct'[a].disabled /\ ~acct'[a].cool /\ ~acct'[a].inPool
  <2> HIDE DEF added
  <2> QED
    BY <1>2, <1>3, FreshPool
<1>7. /\ Usable' = Usable \union added
      /\ \A a \in present' : acct'[a].inPool <=> a \in pooled
  <2> HIDE DEF added
  <2> QED
    BY <1>1, <1>2, <1>5, <1>6 DEF Usable
<1>8. WarmedSet(acct)' = pooled
  BY <1>1, <1>5, <1>7 DEF WarmedSet, Usable
<1>9. need' = Lacking(Warmed(acct)')
  BY <1>1, <1>8 DEF Missing, Lacking, Warmed
<1>10. Waiting'
  BY <1>1, <1>2, <1>7 DEF Waiting, Usable
<1>11. \A a \in present' \ todo' :
         need' > 0 => acct'[a].inPool \/ acct'[a].disabled \/ acct'[a].status = "cooling"
  BY <1>1, <1>5 DEF Usable
<1>12. \A a \in present' : acct'[a].inPool => a \in Usable'
  BY <1>7
<1>13. MaintainFillsPool'
  BY <1>9, <1>11, <1>12 DEF MaintainFillsPool, Lacking
<1> QED
  BY <1>10, <1>13

(* Putting an account in the pool changes that flag alone.                 *)
LEMMA PooledFields ==
  \A s \in AccountState : /\ [s EXCEPT !.inPool = TRUE].inPool
                          /\ [s EXCEPT !.inPool = TRUE].disabled = s.disabled
                          /\ [s EXCEPT !.inPool = TRUE].cool = s.cool
  BY DEF AccountState

(* An iteration that gets a token warms one account and lacks one less.    *)
LEMMA FillSucceeds ==
  ASSUME TypeOK, TypeOK', Waiting, MaintainFillsPool, NEW a \in Accounts, NEW token \in Issued,
         mu = "fill", mu' = "fill", a \in todo, need > 0, UNCHANGED present,
         acct' = [Renewed(a, FALSE, token) EXCEPT ![a].inPool = TRUE],
         need' = need - 1, todo' = todo \ {a}
  PROVE  Waiting' /\ MaintainFillsPool'
<1> DEFINE A == Renewed(a, FALSE, token)
<1>1. a \in present /\ a \in Usable /\ ~acct[a].inPool
  BY DEF Waiting, TypeOK
<1>2. A \in [Accounts -> AccountState] /\ \A b \in Accounts \ {a} : A[b] = acct[b]
  <2>1. A \in [Accounts -> AccountState]
    BY RenewedType DEF TypeOK
  <2> QED
    BY <2>1, RenewedElsewhere
<1>3. A[a].disabled = acct[a].disabled /\ A[a].cool = acct[a].cool
  <2>1. FALSE \in BOOLEAN /\ acct \in [Accounts -> AccountState]
    BY DEF TypeOK
  <2> QED
    BY <2>1, RenewedKeepsFlags
<1>4. acct'[a] = [A[a] EXCEPT !.inPool = TRUE] /\ \A b \in Accounts \ {a} : acct'[b] = acct[b]
  <2> HIDE DEF A
  <2>1. acct' = [A EXCEPT ![a].inPool = TRUE]
    BY DEF A
  <2> QED
    BY <1>2, <2>1
<1>5. acct'[a].inPool /\ acct'[a].disabled = acct[a].disabled /\ acct'[a].cool = acct[a].cool
  <2> HIDE DEF A
  <2>1. A[a] \in AccountState
    BY <1>2
  <2> QED
    BY <1>3, <1>4, <2>1, PooledFields
<1>6. Warmed(acct)' = Warmed(acct) + 1
  BY <1>1, <1>4, <1>5, WarmOne
<1>7. need = Lacking(Warmed(acct)) /\ Warmed(acct) \in Nat
  BY FillsMeaning, WarmedType DEF TypeOK
<1>8. need' = Lacking(Warmed(acct)')
  BY <1>6, <1>7, LackingLess
<1>9. Usable' = Usable
  BY <1>4, <1>5 DEF Usable, TypeOK
<1>10. \A b \in present : acct'[b].inPool => b \in Usable'
  BY <1>1, <1>4, <1>9 DEF MaintainFillsPool, TypeOK
<1>11. \A b \in present \ todo' :
         acct'[b].inPool \/ acct'[b].disabled \/ acct'[b].status = "cooling"
  <2> SUFFICES ASSUME NEW b \in present \ todo, b # a
               PROVE  acct'[b].inPool \/ acct'[b].disabled \/ acct'[b].status = "cooling"
    BY <1>5
  <2>1. acct'[b] = acct[b]
    BY <1>4 DEF TypeOK
  <2> QED
    BY <2>1 DEF MaintainFillsPool
<1>12. Waiting'
  BY <1>4, <1>9 DEF Waiting, TypeOK
<1>13. MaintainFillsPool'
  BY <1>8, <1>10, <1>11 DEF MaintainFillsPool, Lacking
<1> QED
  BY <1>12, <1>13

(* One that fails leaves the pool as it is and the account unavailable.    *)
LEMMA FillFails ==
  ASSUME TypeOK, TypeOK', Waiting, MaintainFillsPool, NEW a \in Accounts,
         NEW reason \in FailureReasons \ {"not_implemented"},
         mu = "fill", mu' = "fill", a \in todo, UNCHANGED <<present, need>>,
         acct' = [acct EXCEPT ![a] = Failed(@, reason)], todo' = todo \ {a}
  PROVE  Waiting' /\ MaintainFillsPool'
<1>1. a \in present /\ ~acct[a].inPool
  BY DEF Waiting, TypeOK
<1>2. acct'[a] = Failed(acct[a], reason) /\ \A b \in Accounts \ {a} : acct'[b] = acct[b]
  BY DEF TypeOK
<1>3. ~acct'[a].inPool /\ (acct'[a].disabled \/ acct'[a].status = "cooling")
  BY <1>1, <1>2, FailedPool DEF TypeOK
<1>4. WarmedSet(acct)' = WarmedSet(acct)
  BY <1>1, <1>2, <1>3 DEF WarmedSet, TypeOK
<1>5. need' = Lacking(Warmed(acct)')
  BY <1>4, FillsMeaning DEF Warmed
<1>6. \A b \in Usable \ {a} : b \in Usable'
  BY <1>2 DEF Usable, TypeOK
<1>7. \A b \in present : acct'[b].inPool => b \in Usable'
  BY <1>2, <1>3, <1>6 DEF MaintainFillsPool, TypeOK
<1>8. \A b \in present \ todo' :
        need' > 0 => acct'[b].inPool \/ acct'[b].disabled \/ acct'[b].status = "cooling"
  BY <1>2, <1>3 DEF MaintainFillsPool, TypeOK
<1>9. Waiting'
  BY <1>2, <1>6 DEF Waiting, TypeOK
<1>10. MaintainFillsPool'
  BY <1>5, <1>7, <1>8 DEF MaintainFillsPool, Lacking
<1> QED
  BY <1>9, <1>10

(* Deadlines that pass during the loop only make more accounts usable.     *)
LEMMA FillWaits ==
  ASSUME TypeOK, TypeOK', Waiting, MaintainFillsPool,
         NEW a \in Accounts, TokenExpires(a) \/ CooldownElapses(a)
  PROVE  Waiting' /\ MaintainFillsPool'
<1>1. UNCHANGED <<mu, todo, need, present>>
  BY DEF TokenExpires, CooldownElapses, mutexVars
<1>2. \A b \in Accounts : /\ acct'[b].inPool = acct[b].inPool
                          /\ acct'[b].status = acct[b].status
                          /\ acct'[b].disabled = acct[b].disabled
                          /\ acct'[b].cool => acct[b].cool
  BY TimeKeepsPool, TimeKeepsFlags
<1>3. Usable \subseteq Usable'
  BY <1>1, <1>2 DEF Usable, TypeOK
<1>4. WarmedSet(acct)' = WarmedSet(acct)
  BY <1>1, <1>2 DEF WarmedSet, TypeOK
<1>5. mu = "fill" => need' = Lacking(Warmed(acct)')
  BY <1>1, <1>4, FillsMeaning DEF Warmed
<1>6. Waiting'
  BY <1>1, <1>2, <1>3 DEF Waiting, TypeOK
<1>7. mu = "fill" => \A b \in present : acct'[b].inPool => b \in Usable'
  BY <1>2, <1>3 DEF MaintainFillsPool, TypeOK
<1>8. mu = "fill" /\ need > 0 => \A b \in present \ todo :
        acct'[b].inPool \/ acct'[b].disabled \/ acct'[b].status = "cooling"
  BY <1>2 DEF MaintainFillsPool, TypeOK
<1>9. MaintainFillsPool'
  BY <1>1, <1>5, <1>7, <1>8 DEF MaintainFillsPool, Lacking
<1> QED
  BY <1>6, <1>9

(* Every step keeps the count of the second loop right.                    *)
LEMMA FillStep == TypeInv /\ FillInv /\ [Next]_vars => FillInv'
<1> SUFFICES ASSUME TypeInv, TypeOK, FillInv, Absent, Waiting, MaintainFillsPool, [Next]_vars
             PROVE  FillInv'
  BY DEF TypeInv, FillInv
<1>1. TypeOK' /\ Absent'
  BY TypeStep, AbsentStep DEF TypeInv
<1> SUFFICES Waiting' /\ MaintainFillsPool'
  BY <1>1 DEF FillInv
<1>2. CASE mu' # "fill"
  BY <1>2 DEF Waiting, MaintainFillsPool
<1>3. CASE UNCHANGED <<mu, todo, need, present, acct>>
  BY <1>3 DEF Waiting, MaintainFillsPool, Usable, Warmed, WarmedSet
<1>4. ASSUME NEW fetched \in SUBSET External, Refill(fetched)
      PROVE  Waiting' /\ MaintainFillsPool'
  BY <1>1, <1>4, FillBegins
<1>5. ASSUME NEW a \in Accounts, NEW token \in Issued, FillMember(a, token) PROVE Waiting' /\ MaintainFillsPool'
  <2>1. /\ mu = "fill" /\ mu' = "fill" /\ a \in todo /\ need > 0 /\ UNCHANGED present
        /\ todo' = todo \ {a}
    BY <1>5 DEF FillMember
  <2>2. CASE acct' = [Renewed(a, FALSE, token) EXCEPT ![a].inPool = TRUE] /\ need' = need - 1
    BY <1>1, <2>1, <2>2, FillSucceeds
  <2>3. ASSUME NEW reason \in BearerErrors(a, FALSE), UNCHANGED need,
               acct' = [acct EXCEPT ![a] = Failed(@, reason)]
        PROVE  Waiting' /\ MaintainFillsPool'
    <3>1. reason \in FailureReasons \ {"not_implemented"}
      BY <2>3, ReasonAssumption DEF BearerErrors, FailureReasons
    <3> QED
      BY <1>1, <2>1, <2>3, <3>1, FillFails
  <2> QED
    BY <1>5, <2>2, <2>3 DEF FillMember
<1>6. ASSUME NEW a \in Accounts, TokenExpires(a) \/ CooldownElapses(a)
      PROVE  Waiting' /\ MaintainFillsPool'
  BY <1>1, <1>6, FillWaits
<1>7. ASSUME NEW r \in Requests, LeaseDropped(r) PROVE Waiting' /\ MaintainFillsPool'
  BY <1>3, <1>7 DEF LeaseDropped, mutexVars
<1>8. CASE Lifecycle
  BY <1>2, <1>8 DEF Lifecycle, Start, Crash, ReleaseMutex
<1>9. CASE Acquire
  BY <1>2, <1>9 DEF Acquire, AcquireBegin, AcquireGrant, AcquireFails, AcquireContinues, ReleaseMutex
<1>10. CASE Report
  BY <1>2, <1>7, <1>10 DEF Report, ReportSuccess, ReportFailure, mutexVars
<1>11. CASE Maintain
  BY <1>2, <1>4, <1>5, <1>11 DEF Maintain, WarmPool, RefreshPool, MaintainBegin, RenewMember,
                                 MaintainEnd, PoolSnapshot, ReleaseMutex, mutexVars
<1>12. CASE Administration
  BY <1>2, <1>12 DEF Administration, UpdateWeight, DisableAccount, EnableAccount, DeleteAccount,
                     RefreshAccount, ImportAccount, mutexVars
<1>13. CASE Time
  BY <1>6, <1>13 DEF Time
<1>14. CASE UNCHANGED vars
  BY <1>3, <1>14 DEF vars, mutexVars
<1> QED
  BY <1>8, <1>9, <1>10, <1>11, <1>12, <1>13, <1>14 DEF Next

(* The invariant holds before the first start.                             *)
LEMMA FillInit == Init => FillInv
  BY DEF Init, FillInv, Absent, Waiting, MaintainFillsPool, Fresh, External

(* While the second loop runs its count is what the pool lacks, no blocked *)
(* or cooling account is in the pool, and as long as something is missing  *)
(* every account already passed over is in the pool or unavailable: for    *)
(* any number of accounts, whatever fails and whatever deadline passes.    *)
THEOREM PoolIsFilled == Spec => []MaintainFillsPool
<1>1. FillInv => MaintainFillsPool
  BY DEF FillInv
<1> QED
  BY <1>1, FillInit, FillStep, InitType, TypeStep, PTL DEF Spec

-----------------------------------------------------------------------------
(* How the warmed pool grows.                                              *)

(* Membership of the pool is not saved, so no start brings it back.        *)
Unpooled == \A a \in Accounts : ~disk[a].inPool

(* A save leaves no record in the pool.                                    *)
LEMMA SaveUnpools ==
  ASSUME Unpooled, NEW A \in [Accounts -> AccountState],
         \/ Save(A) \/ UNCHANGED disk
         \/ disk' = [a \in Accounts |-> [A[a] EXCEPT !.inPool = FALSE]]
  PROVE  Unpooled'
<1>1. CASE UNCHANGED disk
  BY <1>1 DEF Unpooled
<1>2. CASE disk' = [a \in Accounts |-> [A[a] EXCEPT !.inPool = FALSE]]
  <2>1. \A a \in Accounts : disk'[a] = [A[a] EXCEPT !.inPool = FALSE]
    BY <1>2
  <2>2. \A s \in AccountState : ~[s EXCEPT !.inPool = FALSE].inPool
    BY DEF AccountState
  <2> QED
    BY <2>1, <2>2 DEF Unpooled
<1> QED
  BY <1>1, <1>2 DEF Save, diskVars

(* Every write to the state file is a save, a torn one aside.              *)
LEMMA UnpooledStep == TypeInv /\ Unpooled /\ [Next]_vars => Unpooled'
<1> SUFFICES ASSUME TypeInv, TypeOK, Unpooled, [Next]_vars PROVE Unpooled'
  BY DEF TypeInv
<1>1. acct \in [Accounts -> AccountState] /\ acct' \in [Accounts -> AccountState]
  BY TypeStep DEF TypeInv, TypeOK
<1>2. CASE UNCHANGED disk
  BY <1>2 DEF Unpooled
<1>3. CASE Crash
  BY <1>2, <1>3, FreshPool DEF Crash, Unpooled, diskVars
<1>4. ASSUME NEW a \in Accounts, NEW reason \in FailureReasons, ApplyFailure(a, reason)
      PROVE  Unpooled'
  <2>1. Failed(acct[a], reason) \in AccountState
    BY <1>1, FailedType
  <2>2. [acct EXCEPT ![a] = Failed(@, reason)] \in [Accounts -> AccountState]
    BY <1>1, <2>1
  <2> QED
    BY <1>4, <2>2, SaveUnpools DEF ApplyFailure
<1>5. ASSUME NEW a \in Accounts, NEW forced \in BOOLEAN, NEW token \in Issued,
             SaveIf(CallsOidc(a, forced), Renewed(a, forced, token))
      PROVE  Unpooled'
  <2>1. Renewed(a, forced, token) \in [Accounts -> AccountState]
    BY <1>1, RenewedType
  <2> QED
    BY <1>5, <2>1, SaveUnpools DEF SaveIf, diskVars
<1>6. ASSUME NEW c, SaveIf(c, acct') PROVE Unpooled'
  BY <1>1, <1>6, SaveUnpools DEF SaveIf, diskVars
<1>7. CASE Save(acct')
  BY <1>1, <1>7, SaveUnpools
<1>8. ASSUME NEW c, NEW A \in [Accounts -> AccountState], SaveTwice(c, A, acct') PROVE Unpooled'
  BY <1>1, <1>8, SaveUnpools DEF SaveTwice
<1>9. CASE Acquire
  BY <1>2, <1>4, <1>5, <1>9 DEF Acquire, AcquireBegin, AcquireGrant, AcquireFails, diskVars
<1>10. CASE Report
  BY <1>2, <1>4, <1>10, ReasonAssumption
     DEF Report, ReportSuccess, ReportFailure, LeaseDropped, diskVars, TypeOK
<1>11. ASSUME NEW a \in Accounts, NEW token \in Issued, RenewMember(a, token) \/ FillMember(a, token) PROVE Unpooled'
  <2>1. \A forced \in BOOLEAN : BearerErrors(a, forced) \subseteq FailureReasons
    BY ReasonAssumption DEF BearerErrors, FailureReasons
  <2>2. CASE RenewMember(a, token)
    BY <1>4, <1>6, <2>1, <2>2 DEF RenewMember, TypeOK
  <2>3. CASE FillMember(a, token)
    BY <1>4, <1>5, <2>1, <2>3 DEF FillMember
  <2> QED
    BY <1>11, <2>2, <2>3
<1>12. CASE Maintain
  BY <1>2, <1>6, <1>11, <1>12 DEF Maintain, WarmPool, RefreshPool, MaintainBegin, Refill,
                                  MaintainEnd, PoolSnapshot, diskVars
<1>13. CASE Administration
  <2>1. CASE UpdateWeight
    BY <1>7, <2>1 DEF UpdateWeight
  <2>2. ASSUME NEW a \in Accounts, DisableAccount(a) \/ EnableAccount(a) \/ DeleteAccount(a)
        PROVE  Unpooled'
    BY <1>7, <2>2 DEF DisableAccount, EnableAccount, DeleteAccount
  <2>3. ASSUME NEW a \in Accounts, NEW token \in Issued, RefreshAccount(a, token) PROVE Unpooled'
    <3>1. Renewed(a, TRUE, token) \in [Accounts -> AccountState]
      BY <1>1, RenewedType
    <3> QED
      BY <1>8, <2>3, <3>1 DEF RefreshAccount
  <2>4. ASSUME NEW a \in Accounts, NEW token, ImportAccount(a, token) PROVE Unpooled'
    BY <1>1, <1>8, <2>4 DEF ImportAccount
  <2> QED
    BY <1>13, <2>1, <2>2, <2>3, <2>4 DEF Administration
<1>14. ASSUME NEW a \in Accounts, TokenExpires(a) \/ CooldownElapses(a) PROVE Unpooled'
  <2>1. CASE TokenExpires(a)
    BY <2>1 DEF TokenExpires, Unpooled, TypeOK, AccountState
  <2>2. CASE CooldownElapses(a)
    BY <2>2 DEF CooldownElapses, Unpooled, TypeOK, AccountState
  <2> QED
    BY <1>14, <2>1, <2>2
<1> QED
  BY <1>2, <1>3, <1>9, <1>10, <1>12, <1>13, <1>14
     DEF Next, Lifecycle, Start, Time, vars, diskVars

(* A pool whose members were members before is not larger.                 *)
LEMMA PoolShrinks ==
  ASSUME TypeOK,
         \A b \in present' : acct'[b].inPool /\ ~acct'[b].disabled =>
                               b \in present /\ acct[b].inPool /\ ~acct[b].disabled
  PROVE  Cardinality(WarmedSet(acct)') <= Cardinality(WarmedSet(acct))
<1>1. WarmedSet(acct)' \subseteq WarmedSet(acct)
  BY DEF WarmedSet
<1>2. IsFiniteSet(WarmedSet(acct))
  BY WarmedType DEF TypeOK
<1> QED
  BY <1>1, <1>2, FS_Subset

(* One account more fits while the pool has less than its target.          *)
LEMMA PoolFits ==
  ASSUME TypeOK, NEW W, W \subseteq Accounts, NEW a, Cardinality(W) < PoolSize,
         WarmedSet(acct)' \subseteq W \union {a}
  PROVE  Cardinality(WarmedSet(acct)') <= PoolSize
<1>1. IsFiniteSet(W) /\ Cardinality(W) \in Nat
  BY FiniteAssumption, FS_Subset, FS_CardinalityType
<1>2. /\ IsFiniteSet(W \union {a})
      /\ Cardinality(W \union {a}) \in {Cardinality(W), Cardinality(W) + 1}
  BY <1>1, FS_AddElement
<1>3. /\ Cardinality(WarmedSet(acct)') <= Cardinality(W \union {a})
      /\ Cardinality(WarmedSet(acct)') \in Nat
  BY <1>2, FS_Subset, FS_CardinalityType
<1> QED
  BY <1>1, <1>2, <1>3, PoolSizeAssumption

(* A place is taken only in a pool with less than its target.              *)
LEMMA JoinPoolFits ==
  ASSUME TypeOK, present' = present, NEW A \in [Accounts -> AccountState], NEW a \in Accounts,
         acct' = JoinPool(A, a), WarmedSet(A) \subseteq WarmedSet(acct)
  PROVE  \/ Cardinality(WarmedSet(acct)') <= PoolSize
         \/ Cardinality(WarmedSet(acct)') <= Cardinality(WarmedSet(acct))
<1>1. CASE Warmed(A) < PoolSize
  <2>1. \A b \in Accounts : acct'[b].disabled = A[b].disabled /\ (b # a => acct'[b] = A[b])
    BY JoinPoolKeepsFlags, JoinPoolElsewhere
  <2>2. WarmedSet(acct)' \subseteq WarmedSet(A) \union {a}
    BY <2>1 DEF WarmedSet, TypeOK
  <2>3. WarmedSet(A) \subseteq Accounts
    BY DEF WarmedSet, TypeOK
  <2> QED
    BY <1>1, <2>2, <2>3, PoolFits DEF Warmed
<1>2. CASE ~(Warmed(A) < PoolSize)
  <2>1. WarmedSet(acct)' = WarmedSet(A)
    BY <1>2 DEF JoinPool, WarmedSet
  <2>2. IsFiniteSet(WarmedSet(acct))
    BY WarmedType DEF TypeOK
  <2> QED
    BY <2>1, <2>2, FS_Subset
<1> QED
  BY <1>1, <1>2

(* What the updates of one account do to its place in the pool.            *)
LEMMA PoolFields ==
  \A s \in AccountState :
    /\ [s EXCEPT !.status = "active"].inPool = s.inPool
    /\ [s EXCEPT !.token = "fresh"].inPool = s.inPool
    /\ ~[s EXCEPT !.inPool = FALSE].inPool
    /\ Succeeded(s).inPool = s.inPool /\ Succeeded(s).disabled = s.disabled
    /\ Enabled(s).inPool = s.inPool /\ ~Enabled(s).disabled
    /\ Disabled(s).disabled
  BY DEF Succeeded, Enabled, Disabled, AccountState

(* ensureBearer leaves the pool alone.                                     *)
LEMMA RenewedPool ==
  ASSUME TypeOK, NEW a \in Accounts, NEW forced, NEW token
  PROVE  WarmedSet(Renewed(a, forced, token)) = WarmedSet(acct)
<1> DEFINE A == Renewed(a, forced, token)
<1>1. A[a].inPool = acct[a].inPool /\ A[a].disabled = acct[a].disabled
  BY DEF Renewed, TypeOK, AccountState
<1>2. \A b \in Accounts \ {a} : A[b] = acct[b]
  BY RenewedElsewhere
<1> HIDE DEF A
<1>3. WarmedSet(A) = WarmedSet(acct)
  BY <1>1, <1>2 DEF WarmedSet, TypeOK
<1> QED
  BY <1>3 DEF A

(* Updating one account puts at most that one in the pool.                 *)
LEMMA UpdatePool ==
  ASSUME TypeOK, NEW A \in [Accounts -> AccountState], NEW a \in Accounts, NEW s,
         s.inPool /\ ~s.disabled => A[a].inPool /\ ~A[a].disabled
  PROVE  WarmedSet([A EXCEPT ![a] = s]) \subseteq WarmedSet(A)
  BY DEF WarmedSet, TypeOK

(* What PoolGrowth says of one step.                                       *)
GrowthAllowed ==
  \/ Cardinality(WarmedSet(acct)') <= PoolSize
  \/ Cardinality(WarmedSet(acct)') <= Cardinality(WarmedSet(acct))
  \/ \E a \in present : acct[a].disabled /\ ~acct'[a].disabled

(* The pool shrinks, fits, or grows by an account that is enabled.         *)
LEMMA GrowthStep == TypeInv /\ FillInv /\ Unpooled /\ [Next]_vars => GrowthAllowed
<1> SUFFICES ASSUME TypeInv, TypeOK, FillInv, MaintainFillsPool, Unpooled, [Next]_vars
             PROVE  GrowthAllowed
  BY DEF TypeInv, FillInv
<1>1. TypeOK' /\ acct \in [Accounts -> AccountState] /\ present \subseteq Accounts
  BY TypeStep DEF TypeInv, TypeOK
<1>2. ASSUME \A b \in present' : acct'[b].inPool /\ ~acct'[b].disabled =>
                                   b \in present /\ acct[b].inPool /\ ~acct[b].disabled
      PROVE  GrowthAllowed
  BY <1>2, PoolShrinks DEF GrowthAllowed
<1>3. ASSUME present' = present, WarmedSet(acct') \subseteq WarmedSet(acct) PROVE GrowthAllowed
  BY <1>1, <1>2, <1>3 DEF WarmedSet
<1>4. CASE Start
  <2>1. PICK L \in SUBSET External : Load(L)
    BY <1>4 DEF Start
  <2>2. \A a \in Accounts : ~acct'[a].inPool
    BY <2>1, FreshPool DEF Load, Unpooled
  <2> QED
    BY <1>1, <1>2, <2>2 DEF TypeOK
<1>5. CASE Crash
  BY <1>2, <1>5 DEF Crash
<1>6. CASE acct' = Scan(acct) /\ present' = present
  <2>1. \A b \in present : acct'[b] = Scanned(acct[b])
    BY <1>1, <1>6 DEF Scan
  <2> QED
    BY <1>1, <1>2, <1>6, <2>1, ScannedPool
<1>7. ASSUME NEW a \in Accounts, NEW token \in Issued, AcquireGrant(a, token) PROVE GrowthAllowed
  <2> DEFINE A == Renewed(a, FALSE, token)
             B == [A EXCEPT ![a].status = "active"]
  <2>1. A \in [Accounts -> AccountState] /\ WarmedSet(A) = WarmedSet(acct)
    BY <1>1, RenewedType, RenewedPool
  <2>2. B \in [Accounts -> AccountState] /\ WarmedSet(B) \subseteq WarmedSet(A)
    <3> HIDE DEF A
    <3>1. A[a] \in AccountState
      BY <2>1
    <3>2. [A[a] EXCEPT !.status = "active"].inPool => A[a].inPool
      BY <3>1, PoolFields
    <3>3. [A[a] EXCEPT !.status = "active"].disabled = A[a].disabled
      BY <3>1 DEF AccountState
    <3>4. B = [A EXCEPT ![a] = [A[a] EXCEPT !.status = "active"]]
      OBVIOUS
    <3> QED
      BY <2>1, <3>2, <3>3, <3>4, UpdatePool, EntryKeepsDisabled
  <2>3. acct' = JoinPool(B, a) /\ present' = present
    BY <1>7 DEF AcquireGrant
  <2> HIDE DEF A, B
  <2> QED
    BY <2>1, <2>2, <2>3, JoinPoolFits DEF GrowthAllowed
<1>8. ASSUME NEW a \in Accounts, NEW reason \in FailureReasons, present' = present,
             acct' = [acct EXCEPT ![a] = Failed(@, reason)]
      PROVE  GrowthAllowed
  <2>1. /\ Failed(acct[a], reason).inPool => acct[a].inPool
        /\ ~Failed(acct[a], reason).disabled => ~acct[a].disabled
    BY <1>1, FailedPool, FailedDisables
  <2>2. WarmedSet(acct') \subseteq WarmedSet(acct)
    BY <1>1, <1>8, <2>1, UpdatePool
  <2> QED
    BY <1>3, <1>8, <2>2
<1>9. ASSUME NEW r \in Requests, ReportSuccess(r) PROVE GrowthAllowed
  <2>1. CASE lease[r] \in present
    <3> DEFINE a == lease[r]
               A == [acct EXCEPT ![a] = Succeeded(@)]
    <3>1. acct[a] \in AccountState /\ a \in Accounts
      BY <1>1, <2>1
    <3>2. A \in [Accounts -> AccountState]
      BY <1>1, <3>1, AdminType, UpdateType
    <3>3. Succeeded(acct[a]).inPool = acct[a].inPool /\ Succeeded(acct[a]).disabled = acct[a].disabled
      BY <3>1, PoolFields
    <3>4. WarmedSet(A) \subseteq WarmedSet(acct)
      BY <1>1, <3>1, <3>3, UpdatePool
    <3>5. acct' = JoinPool(A, a) /\ present' = present
      BY <1>9, <2>1 DEF ReportSuccess
    <3> HIDE DEF A
    <3> QED
      BY <3>1, <3>2, <3>4, <3>5, JoinPoolFits DEF GrowthAllowed
  <2>2. CASE lease[r] \notin present
    BY <1>2, <1>9, <2>2 DEF ReportSuccess
  <2> QED
    BY <2>1, <2>2
<1>10. ASSUME NEW r \in Requests, NEW reason \in FailureReasons, ReportFailure(r, reason)
       PROVE  GrowthAllowed
  BY <1>1, <1>2, <1>8, <1>10 DEF ReportFailure
<1>11. ASSUME NEW a \in Accounts, NEW token \in Issued, RenewMember(a, token) PROVE GrowthAllowed
  <2>1. present' = present
    BY <1>11 DEF RenewMember
  <2>2. CASE acct' = Renewed(a, force, token)
    BY <1>3, <2>1, <2>2, RenewedPool
  <2>3. ASSUME NEW s, ~s.inPool, acct' = [acct EXCEPT ![a] = s] PROVE GrowthAllowed
    BY <1>1, <1>3, <2>1, <2>3, UpdatePool
  <2>4. ASSUME NEW reason \in BearerErrors(a, force),
               acct' = [acct EXCEPT ![a] = [Failed(@, reason) EXCEPT !.inPool = FALSE]]
        PROVE  GrowthAllowed
    <3>1. reason \in FailureReasons
      BY <2>4, ReasonAssumption DEF BearerErrors, FailureReasons
    <3>2. ~[Failed(acct[a], reason) EXCEPT !.inPool = FALSE].inPool
      BY <1>1, <3>1, FailedType, PoolFields
    <3> QED
      BY <2>3, <2>4, <3>2
  <2> QED
    BY <1>11, <2>2, <2>4 DEF RenewMember
<1>12. ASSUME NEW fetched \in SUBSET External, Refill(fetched) PROVE GrowthAllowed
  <2>1. acct' = Scan(acct) /\ present' \subseteq Accounts
    BY <1>1, <1>12 DEF Refill, TypeOK
  <2>2. \A b \in present : acct'[b] = Scanned(acct[b])
    BY <1>1, <2>1 DEF Scan
  <2>3. \A b \in Accounts \ present : ~acct'[b].inPool
    BY <2>1, FreshPool DEF Scan, FillInv, Absent
  <2> QED
    BY <1>1, <1>2, <2>1, <2>2, <2>3, ScannedPool
<1>13. ASSUME NEW a \in Accounts, NEW token \in Issued, FillMember(a, token) PROVE GrowthAllowed
  <2> DEFINE A == Renewed(a, FALSE, token)
  <2>1. present' = present /\ Cardinality(WarmedSet(acct)) < PoolSize
    <3>1. need = Lacking(Warmed(acct)) /\ need > 0
      BY <1>13, FillsMeaning DEF FillMember
    <3> QED
      BY <1>13, <3>1, WarmedType, LackingLess DEF FillMember, Warmed, TypeOK
  <2>2. CASE acct' = [A EXCEPT ![a].inPool = TRUE]
    <3>1. A \in [Accounts -> AccountState] /\ WarmedSet(A) = WarmedSet(acct)
      BY <1>1, RenewedType, RenewedPool
    <3> HIDE DEF A
    <3>2. WarmedSet(acct)' \subseteq WarmedSet(acct) \union {a}
      BY <1>1, <2>1, <2>2, <3>1 DEF WarmedSet
    <3>3. WarmedSet(acct) \subseteq Accounts
      BY <1>1 DEF WarmedSet
    <3> QED
      BY <2>1, <3>2, <3>3, PoolFits DEF GrowthAllowed
  <2>3. ASSUME NEW reason \in BearerErrors(a, FALSE),
               acct' = [acct EXCEPT ![a] = Failed(@, reason)]
        PROVE  GrowthAllowed
    <3>1. reason \in FailureReasons
      BY <2>3, ReasonAssumption DEF BearerErrors, FailureReasons
    <3> QED
      BY <1>8, <2>1, <2>3, <3>1
  <2> QED
    BY <1>13, <2>2, <2>3 DEF FillMember
<1>14. ASSUME NEW a \in Accounts, DisableAccount(a) PROVE GrowthAllowed
  <2>1. Disabled(acct[a]).disabled
    BY <1>1, PoolFields
  <2> QED
    BY <1>1, <1>3, <1>14, <2>1, UpdatePool DEF DisableAccount
<1>15. ASSUME NEW a \in Accounts, EnableAccount(a) PROVE GrowthAllowed
  <2>1. Enabled(acct[a]).inPool = acct[a].inPool /\ ~Enabled(acct[a]).disabled
    BY <1>1, PoolFields
  <2>2. a \in present /\ present' = present /\ acct' = [acct EXCEPT ![a] = Enabled(acct[a])]
    BY <1>15 DEF EnableAccount
  <2>3. CASE acct[a].disabled
    BY <1>1, <2>1, <2>2, <2>3 DEF GrowthAllowed
  <2>4. CASE ~acct[a].disabled
    BY <1>1, <1>3, <2>1, <2>2, <2>4, UpdatePool
  <2> QED
    BY <2>3, <2>4
<1>16. ASSUME NEW a \in Accounts, DeleteAccount(a) PROVE GrowthAllowed
  <2>1. CASE a \in Managed
    BY <1>1, <1>2, <1>16, <2>1 DEF DeleteAccount
  <2> QED
    BY <1>14, <1>16, <2>1 DEF DeleteAccount
<1>17. ASSUME NEW a \in Accounts, NEW token \in Issued, RefreshAccount(a, token) PROVE GrowthAllowed
  <2> DEFINE A == Renewed(a, TRUE, token)
             B == [A EXCEPT ![a] = Enabled(@)]
  <2>1. A \in [Accounts -> AccountState] /\ WarmedSet(A) = WarmedSet(acct)
    BY <1>1, RenewedType, RenewedPool
  <2>2. A[a].disabled = acct[a].disabled
    BY <1>1, RenewedKeepsFlags
  <2>3. acct' = JoinPool(B, a) /\ a \in present /\ present' = present
    BY <1>17 DEF RefreshAccount
  <2> HIDE DEF A
  <2>4. Enabled(A[a]).inPool = A[a].inPool /\ ~Enabled(A[a]).disabled
    BY <2>1, PoolFields
  <2>5. B \in [Accounts -> AccountState] /\ B[a] = Enabled(A[a])
    BY <2>1, AdminType, UpdateType
  <2>6. CASE acct[a].disabled
    <3> HIDE DEF B
    <3>1. ~acct'[a].disabled
      BY <2>3, <2>4, <2>5, JoinPoolKeepsFlags
    <3> QED
      BY <2>3, <2>6, <3>1 DEF GrowthAllowed
  <2>7. CASE ~acct[a].disabled
    <3>1. WarmedSet(B) \subseteq WarmedSet(A)
      BY <2>1, <2>2, <2>4, <2>7, UpdatePool
    <3> HIDE DEF B
    <3> QED
      BY <2>1, <2>3, <2>5, <3>1, JoinPoolFits DEF GrowthAllowed
  <2> QED
    BY <2>6, <2>7
<1>18. ASSUME NEW a \in Accounts, NEW token \in {"static"} \union Issued, ImportAccount(a, token)
       PROVE  GrowthAllowed
  <2>1. /\ present' = present \union {a} /\ a \notin present
        /\ acct' = [acct EXCEPT ![a] = [Fresh(a) EXCEPT !.token = token,
                                                       !.inPool = Warmed(acct) < PoolSize]]
    BY <1>18 DEF ImportAccount
  <2>2. \A b \in present : acct'[b] = acct[b]
    BY <1>1, <2>1
  <2>3. CASE Warmed(acct) < PoolSize
    <3>1. WarmedSet(acct)' \subseteq WarmedSet(acct) \union {a}
      BY <2>1, <2>2 DEF WarmedSet
    <3>2. WarmedSet(acct) \subseteq Accounts
      BY <1>1 DEF WarmedSet
    <3> QED
      BY <2>3, <3>1, <3>2, PoolFits DEF GrowthAllowed, Warmed
  <2>4. CASE ~(Warmed(acct) < PoolSize)
    <3>1. ~acct'[a].inPool
      BY <1>1, <2>1, <2>4 DEF Fresh
    <3> QED
      BY <1>2, <2>1, <2>2, <3>1
  <2> QED
    BY <2>3, <2>4
<1>19. ASSUME NEW a \in Accounts, TokenExpires(a) \/ CooldownElapses(a) PROVE GrowthAllowed
  BY <1>1, <1>2, <1>19, TimeKeepsPool, TimeKeepsFlags
<1>20. CASE UNCHANGED <<present, acct>>
  BY <1>2, <1>20
<1>21. CASE Lifecycle
  BY <1>4, <1>5, <1>21 DEF Lifecycle
<1>22. CASE Acquire
  BY <1>6, <1>7, <1>8, <1>22 DEF Acquire, AcquireBegin, AcquireFails
<1>23. CASE Report
  BY <1>9, <1>10, <1>20, <1>23, ReasonAssumption DEF Report, LeaseDropped
<1>24. CASE Maintain
  BY <1>6, <1>11, <1>12, <1>13, <1>24
     DEF Maintain, WarmPool, RefreshPool, MaintainBegin, MaintainEnd, PoolSnapshot
<1>25. CASE Administration
  BY <1>14, <1>15, <1>16, <1>17, <1>18, <1>20, <1>25 DEF Administration, UpdateWeight
<1>26. CASE Time
  BY <1>19, <1>26 DEF Time
<1> QED
  BY <1>20, <1>21, <1>22, <1>23, <1>24, <1>25, <1>26 DEF Next, vars

(* However leases, reports, maintenance, imports and restarts interleave,  *)
(* a step that leaves more warmed accounts than ActivePoolSize, and more   *)
(* than there were, enables a disabled account.                            *)
THEOREM PoolGrowthBounded == Spec => PoolGrowth
<1> DEFINE W == WarmedSet(acct)
           V == WarmedSet(acct)'
           Growth == Cardinality(V) > PoolSize /\ Cardinality(V) > Cardinality(W) =>
                       \E a \in present : acct[a].disabled /\ ~acct'[a].disabled
<1>1. TypeInv /\ FillInv /\ Unpooled /\ [Next]_vars => [Growth]_vars
  <2> SUFFICES ASSUME TypeInv, FillInv, Unpooled, [Next]_vars PROVE Growth
    OBVIOUS
  <2>1. GrowthAllowed
    BY GrowthStep
  <2>2. Cardinality(V) \in Nat /\ Cardinality(W) \in Nat
    <3>1. V \subseteq Accounts /\ W \subseteq Accounts
      BY TypeStep DEF WarmedSet, TypeInv, TypeOK
    <3> QED
      BY <3>1, FiniteAssumption, FS_Subset, FS_CardinalityType
  <2> QED
    BY <2>1, <2>2, PoolSizeAssumption DEF GrowthAllowed
<1>2. Init => Unpooled
  BY FreshPool DEF Init, Unpooled
<1> QED
  BY <1>1, <1>2, FillInit, FillStep, UnpooledStep, InitType, TypeStep, PTL DEF Spec, PoolGrowth
=============================================================================
