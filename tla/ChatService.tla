----------------------------- MODULE ChatService -----------------------------
(***************************************************************************)
(* A chat request from its arrival to its end: Service.Handle of           *)
(* src/internal/application/chat/service.go, with the session manager it   *)
(* calls and the statistics it keeps (stats.Collector).                    *)
(*                                                                         *)
(* Every call into a component that has a lock of its own is a step, so    *)
(* that requests, of the same session too, interleave between two calls.   *)
(* The account pool is seen through its interface: Acquire answers with    *)
(* any account or with an error (AccountPool tells which), and every lease *)
(* should be reported back.                                                *)
(***************************************************************************)
EXTENDS SessionManager

CONSTANTS
  Requests,         \* goroutines that run Handle, one request after another
  NoKey,            \* the key of a request that is not sticky
  MaxSendAttempts,
  MaxRequests,      \* bound: requests ever started
  SlowRequests,     \* a session may expire while its request is handled
  UpstreamRenames   \* the upstream may answer with a conversation ID of its own

ASSUME KeyAssumption == NoKey \notin Keys
ASSUME AttemptAssumption == MaxSendAttempts \in Nat \ {0}
ASSUME RequestsAssumption == IsFiniteSet(Requests) /\ MaxRequests \in Nat
ASSUME SwitchAssumption == SlowRequests \in BOOLEAN /\ UpstreamRenames \in BOOLEAN

VARIABLES
  pc,        \* where each request is
  key,       \* req.Metadata.SessionKey, NoKey unless sticky
  long,      \* the size of its message history
  conv,      \* req.Metadata.ConversationID
  bound,     \* binding.AccountID
  lease,     \* lease.AccountID
  attempt,
  stats,     \* the request counters of the Collector
  owed,      \* history: leases acquired less leases reported, and less
             \* attempts logged
  sent       \* history: what the upstream got: <<session, conversation, account>>

locals == <<key, long, conv, bound, lease, attempt>>
vars == <<sessionVars, pc, locals, stats, owed, sent>>

Places == {"idle", "compact", "get", "clientCompacted", "ensure", "acquire", "changed",
           "bind", "send", "sent", "store", "rotate", "finish"}

TypeOK ==
  /\ SessionTypeOK
  /\ pc \in [Requests -> Places]
  /\ key \in [Requests -> Keys \union {NoKey}]
  /\ long \in [Requests -> BOOLEAN]
  /\ conv \in [Requests -> {0} \union Drawn]
  /\ bound \in [Requests -> Accounts \union {NoAccount}]
  /\ lease \in [Requests -> Accounts \union {NoAccount}]
  /\ attempt \in [Requests -> 1..MaxSendAttempts]
  /\ stats \in [total : 0..MaxRequests, success : Nat, failed : Nat]
  /\ owed \in [Requests -> [reports : {0, 1}, logs : {0, 1}]]
  /\ sent \subseteq (Keys \X Drawn \X Accounts)

Init ==
  /\ SessionInit
  /\ pc = [r \in Requests |-> "idle"]
  /\ key = [r \in Requests |-> NoKey]
  /\ long = [r \in Requests |-> FALSE]
  /\ conv = [r \in Requests |-> 0]
  /\ bound = [r \in Requests |-> NoAccount]
  /\ lease = [r \in Requests |-> NoAccount]
  /\ attempt = [r \in Requests |-> 1]
  /\ stats = [total |-> 0, success |-> 0, failed |-> 0]
  /\ owed = [r \in Requests |-> [reports |-> 0, logs |-> 0]]
  /\ sent = {}

-----------------------------------------------------------------------------
(* Helpers.                                                                *)

Goto(r, from, to) == pc[r] = from /\ pc' = [pc EXCEPT ![r] = to]

(* What is left of a request that has returned.                            *)
Leave(r) ==
  /\ key' = [key EXCEPT ![r] = NoKey]
  /\ long' = [long EXCEPT ![r] = FALSE]
  /\ conv' = [conv EXCEPT ![r] = 0]
  /\ bound' = [bound EXCEPT ![r] = NoAccount]
  /\ lease' = [lease EXCEPT ![r] = NoAccount]
  /\ attempt' = [attempt EXCEPT ![r] = 1]

RecordSuccess == stats' = [stats EXCEPT !.success = @ + 1]
RecordFailure == stats' = [stats EXCEPT !.failed = @ + 1]

(* The binding a method of the manager returned becomes req's.             *)
Take(r, binding) ==
  /\ conv' = [conv EXCEPT ![r] = binding.conv]
  /\ bound' = [bound EXCEPT ![r] = binding.account]

Sticky(r) == key[r] # NoKey

-----------------------------------------------------------------------------
(* Arrival: RecordRequest, and prepareSessionBinding.                      *)

(* A request without a model, or with an unknown one, fails at once.       *)
Rejected ==
  /\ stats.total < MaxRequests
  /\ stats' = [stats EXCEPT !.total = @ + 1, !.failed = @ + 1]
  /\ UNCHANGED <<sessionVars, pc, locals, owed, sent>>

Arrive(r, k, isLong, compactRequested) ==
  /\ stats.total < MaxRequests
  /\ Goto(r, "idle", IF k = NoKey THEN "acquire" ELSE IF compactRequested THEN "compact" ELSE "get")
  /\ key' = [key EXCEPT ![r] = k]
  /\ long' = [long EXCEPT ![r] = isLong]
  /\ stats' = [stats EXCEPT !.total = @ + 1]
  /\ UNCHANGED <<sessionVars, conv, bound, lease, attempt, owed, sent>>

CompactManually(r) ==
  /\ Goto(r, "compact", "acquire")
  /\ Rotate(key[r])
  /\ Take(r, Rotated(key[r]))
  /\ UNCHANGED <<key, long, lease, attempt, stats, owed, sent>>

(* shouldRotateForClientCompact compares the request with the last one.    *)
Lookup(r) ==
  LET found == Found(key[r])
      compacted == found /\ items[key[r]].long /\ ~long[r]
  IN /\ Goto(r, "get", IF compacted THEN "clientCompacted"
                       ELSE IF found THEN "acquire" ELSE "ensure")
     /\ Get(key[r])
     /\ IF found /\ ~compacted THEN Take(r, items[key[r]]) ELSE UNCHANGED <<conv, bound>>
     /\ UNCHANGED <<key, long, lease, attempt, stats, owed, sent>>

CompactForClient(r) ==
  /\ Goto(r, "clientCompacted", "acquire")
  /\ Rotate(key[r])
  /\ Take(r, Rotated(key[r]))
  /\ UNCHANGED <<key, long, lease, attempt, stats, owed, sent>>

Create(r) ==
  /\ Goto(r, "ensure", "acquire")
  /\ Ensure(key[r])
  /\ Take(r, Ensured(key[r]))
  /\ UNCHANGED <<key, long, lease, attempt, stats, owed, sent>>

-----------------------------------------------------------------------------
(* One attempt: Acquire, the sticky binding, Send.                         *)

AcquireFails(r) ==
  /\ Goto(r, "acquire", "idle")
  /\ RecordFailure
  /\ Leave(r)
  /\ UNCHANGED <<sessionVars, owed, sent>>

(* Mutant: an account that changed is not noticed.                         *)
AfterAcquireBinds(r, a) == IF ~Sticky(r) THEN "send" ELSE "bind"

AfterAcquire(r, a) ==
  IF ~Sticky(r) THEN "send"
  ELSE IF bound[r] # NoAccount /\ a # bound[r] THEN "changed" ELSE "bind"

Acquire(r, a) ==
  /\ Goto(r, "acquire", AfterAcquire(r, a))
  /\ lease' = [lease EXCEPT ![r] = a]
  /\ owed' = [owed EXCEPT ![r] = [reports |-> @.reports + 1, logs |-> @.logs + 1]]
  /\ UNCHANGED <<sessionVars, key, long, conv, bound, attempt, stats, sent>>

(* Mutant: the request keeps the conversation it had.                      *)
AccountChangedStale(r) ==
  /\ Goto(r, "changed", "bind")
  /\ Rotate(key[r])
  /\ UNCHANGED <<locals, stats, owed, sent>>

AccountChanged(r) ==
  /\ Goto(r, "changed", "bind")
  /\ Rotate(key[r])
  /\ Take(r, Rotated(key[r]))
  /\ UNCHANGED <<key, long, lease, attempt, stats, owed, sent>>

(* A session that has expired or was evicted is not updated, and the local *)
(* binding stays as it was.                                                *)
Bind(r) ==
  /\ Goto(r, "bind", "send")
  /\ Update(key[r], conv[r], lease[r], long[r])
  /\ bound' = IF Found(key[r]) THEN [bound EXCEPT ![r] = lease[r]] ELSE bound
  /\ UNCHANGED <<nextConv, key, long, conv, lease, attempt, stats, owed, sent>>

Send(r) ==
  /\ Goto(r, "send", "sent")
  /\ sent' = IF Sticky(r) THEN sent \union {<<key[r], conv[r], lease[r]>>} ELSE sent
  /\ UNCHANGED <<sessionVars, locals, stats, owed>>

-----------------------------------------------------------------------------
(* The end of an attempt.                                                  *)

(* Mutant: no report for the attempt that is retried.                      *)
SettleOnlyLogs(r) == owed' = [owed EXCEPT ![r] = [@ EXCEPT !.logs = @ - 1]]

(* ReportFailure or ReportSuccess, and the log entry of the attempt.       *)
Settle(r) == owed' = [owed EXCEPT ![r] = [reports |-> @.reports - 1, logs |-> @.logs - 1]]

(* Mutant: the attempts are not counted.                                   *)
RetryUncounted(r) ==
  /\ Goto(r, "sent", "acquire")
  /\ lease' = [lease EXCEPT ![r] = NoAccount]
  /\ Settle(r)
  /\ UNCHANGED <<sessionVars, key, long, conv, bound, attempt, stats, sent>>

(* Mutant: nor are they limited.                                           *)
RetryUnlimited(r) ==
  /\ Goto(r, "sent", "acquire")
  /\ attempt' = [attempt EXCEPT ![r] = @ + 1]
  /\ lease' = [lease EXCEPT ![r] = NoAccount]
  /\ Settle(r)
  /\ UNCHANGED <<sessionVars, key, long, conv, bound, stats, sent>>

(* Send failed in a way that shouldRetry accepts.                          *)
Retry(r) ==
  /\ attempt[r] < MaxSendAttempts
  /\ Goto(r, "sent", "acquire")
  /\ attempt' = [attempt EXCEPT ![r] = @ + 1]
  /\ lease' = [lease EXCEPT ![r] = NoAccount]
  /\ Settle(r)
  /\ UNCHANGED <<sessionVars, key, long, conv, bound, stats, sent>>

(* Send failed otherwise, or the formatter did, or Close did.              *)
Fails(r) ==
  /\ Goto(r, "sent", "idle")
  /\ Settle(r)
  /\ RecordFailure
  /\ Leave(r)
  /\ UNCHANGED <<sessionVars, sent>>

(* The answer is out: ReportSuccess comes first, the log entry last.       *)
Succeeds(r) ==
  /\ Goto(r, "sent", IF Sticky(r) THEN "store" ELSE "finish")
  /\ owed' = [owed EXCEPT ![r].reports = @ - 1]
  /\ UNCHANGED <<sessionVars, locals, stats, sent>>

(* The binding is updated once more; the context may have grown too large, *)
(* or the answer may be truncated.                                         *)
Store(r) ==
  /\ \E next \in {"rotate", "finish"} : Goto(r, "store", next)
  /\ \/ Update(key[r], conv[r], lease[r], long[r]) /\ UNCHANGED nextConv
     \/ /\ UpstreamRenames
        /\ Update(key[r], nextConv, lease[r], long[r])
        /\ nextConv' = nextConv + 1
  /\ UNCHANGED <<locals, stats, owed, sent>>

CompactAfterwards(r) ==
  /\ Goto(r, "rotate", "finish")
  /\ Rotate(key[r])
  /\ UNCHANGED <<locals, stats, owed, sent>>

(* Mutant: a success is not recorded.                                      *)
FinishUnrecorded(r) ==
  /\ Goto(r, "finish", "idle")
  /\ owed' = [owed EXCEPT ![r].logs = @ - 1]
  /\ Leave(r)
  /\ UNCHANGED <<sessionVars, stats, sent>>

Finish(r) ==
  /\ Goto(r, "finish", "idle")
  /\ RecordSuccess
  /\ owed' = [owed EXCEPT ![r].logs = @ - 1]
  /\ Leave(r)
  /\ UNCHANGED <<sessionVars, sent>>

-----------------------------------------------------------------------------
(* Time, and the sweeper.                                                  *)

InUse == {key[r] : r \in {q \in Requests : pc[q] # "idle"}}

TimePasses ==
  /\ Tick(IF SlowRequests THEN {} ELSE InUse)
  /\ UNCHANGED <<pc, locals, stats, owed, sent>>

SweepSessions ==
  /\ Sweep
  /\ UNCHANGED <<pc, locals, stats, owed, sent>>

-----------------------------------------------------------------------------
Prepare(r) ==
  CompactManually(r) \/ Lookup(r) \/ CompactForClient(r) \/ Create(r)

Attempt(r) ==
  \/ AcquireFails(r)
  \/ \E a \in Accounts : Acquire(r, a)
  \/ AccountChanged(r) \/ Bind(r) \/ Send(r)
  \/ Retry(r) \/ Fails(r) \/ Succeeds(r)

Conclude(r) == Store(r) \/ CompactAfterwards(r) \/ Finish(r)

Handle(r) == Prepare(r) \/ Attempt(r) \/ Conclude(r)

Next ==
  \/ Rejected
  \/ \E r \in Requests :
       \/ \E k \in Keys \union {NoKey}, isLong, compact \in BOOLEAN : Arrive(r, k, isLong, compact)
       \/ Handle(r)
  \/ TimePasses
  \/ SweepSessions

Spec == Init /\ [][Next]_vars

(* A goroutine that handles a request runs; its calls return, as locks are *)
(* released and HTTP calls time out.                                       *)
FairSpec == Spec /\ \A r \in Requests : WF_vars(Handle(r))

-----------------------------------------------------------------------------
(* Every lease is reported exactly once, and every attempt logged exactly  *)
(* once, on every path: nothing is owed when the next account is acquired  *)
(* or the request returns.                                                 *)
AttemptsSettled ==
  \A r \in Requests :
    pc[r] \in {"idle", "acquire"} => owed[r] = [reports |-> 0, logs |-> 0]

Handled == {r \in Requests : pc[r] # "idle"}

(* The counters of /stats add up at any time: what has arrived has         *)
(* succeeded, has failed, or is being handled, each once.                  *)
RequestsAccounted ==
  stats.total = stats.success + stats.failed + Cardinality(Handled)

(* A conversation is only ever sent for one session, even if sessions      *)
(* expire, are evicted and come back, and old requests store old bindings. *)
ConversationsPrivate == \A s, t \in sent : s[2] = t[2] => s[1] = t[1]

(* Every request ends, however often the upstream fails.                   *)
RequestsEnd == \A r \in Requests : pc[r] # "idle" ~> pc[r] = "idle"

-----------------------------------------------------------------------------
(* What the tests of the service say of one request after the other.       *)

(* A change of account rotates the conversation: no conversation is sent   *)
(* with two accounts.                                                      *)
AccountChangeRotates == \A s, t \in sent : s[2] = t[2] => s[3] = t[3]

(* A compaction rotates the conversation: no session goes back to the      *)
(* conversation that it replaced.                                          *)
CompactionRotates == \A k \in DOMAIN items : items[k].conv \notin retired

=============================================================================
