------------------------------ MODULE Statistics ------------------------------
(***************************************************************************)
(* The counters and the log of the requests: stats.Collector, counted by   *)
(* the handlers one number at a time, read one number at a time by the     *)
(* runner that saves them, and lost or found again when the process stops  *)
(* and starts (state_persist.go, jsonfile/state.go, App.Run).              *)
(*                                                                         *)
(* Handlers and the runner are goroutines; each atomic operation on a      *)
(* counter and each system call on the file is a step.  The successes      *)
(* stand for the tokens and credits that are added with them, and retries  *)
(* for failed attempts; the compactions, by reason, are left out.          *)
(***************************************************************************)
EXTENDS RequestLogRing

CONSTANTS
  Requests,         \* requests, each of which comes once
  MaxSendAttempts,
  MaxStarts,        \* bound: how often the process starts
  MaxTicks,         \* bound: how often the ticker fires
  Good, Bad,        \* log entries: Success or not
  NoFile, CutFile   \* the file is missing, or not written to its end

ASSUME EntryAssumption == Good \in Entry /\ Bad \in Entry /\ Good # Bad
ASSUME RequestsAssumption == IsFiniteSet(Requests)
ASSUME AttemptAssumption == MaxSendAttempts \in Nat \ {0}
ASSUME BoundsAssumption == MaxStarts \in Nat \ {0} /\ MaxTicks \in Nat

(* Mutant: the total is read last.                                         *)
OrderTotalLast == <<"success", "failed", "retries", "total">>

(* The order in which Snapshot reads them.                                 *)
Order == <<"total", "success", "failed", "retries">>

Counters == ToSet(Order)

Snapshot == [Counters -> Nat]

ASSUME FileAssumption == NoFile \notin Snapshot /\ CutFile \notin Snapshot

VARIABLES
  phase,     \* of the process: serving, signalled, down
  starts, ticks,
  counters,  \* the fields of the Collector
  pc,        \* of each request: new, sending, recording, ended, lost
  attempt,
  todo,      \* what its RecordSuccess or RecordFailure has yet to add
  outcome,   \* Good or Bad, once it is known; Blank before
  runner,    \* where the runner is
  final,     \* the runner's save is its last
  read,      \* how many counters Snapshot has read
  snapshot,
  file,
  carried,   \* history: the requests not ended in the counters it started with
  unended,   \* history: the requests not ended when the total was read
  quiet      \* history: no request has run since the snapshot was begun, which
             \* has not failed to reach the file

ringVars == <<entries, head, count>>
requestVars == <<pc, attempt, todo, outcome>>
runnerVars == <<runner, final, read, snapshot, file, unended>>
statsVars ==
  <<ringVars, requestVars, runnerVars, phase, starts, ticks, counters, carried, quiet>>

Zero == [k \in Counters |-> 0]

Running == {r \in Requests : pc[r] \in {"sending", "recording"}}

StatsTypeOK ==
  /\ TypeOK
  /\ phase \in {"serving", "signalled", "down"}
  /\ starts \in 1..MaxStarts /\ ticks \in 0..MaxTicks
  /\ counters \in Snapshot /\ carried \in Int /\ snapshot \in Snapshot
  /\ pc \in [Requests -> {"new", "sending", "recording", "ended", "lost"}]
  /\ attempt \in [Requests -> 1..MaxSendAttempts]
  /\ todo \in [Requests -> Seq(Counters \X Nat)]
  /\ outcome \in [Requests -> {Good, Bad, Blank}]
  /\ runner \in {"waiting", "reading", "saving", "stopped"}
  /\ final \in BOOLEAN /\ quiet \in BOOLEAN
  /\ read \in 0..Len(Order) /\ unended \in Int
  /\ file \in Snapshot \union {NoFile, CutFile}

StatsInit ==
  /\ Init
  /\ phase = "serving" /\ starts = 1 /\ ticks = 0
  /\ counters = Zero /\ carried = 0 /\ snapshot = Zero
  /\ pc = [r \in Requests |-> "new"]
  /\ attempt = [r \in Requests |-> 1]
  /\ todo = [r \in Requests |-> <<>>]
  /\ outcome = [r \in Requests |-> Blank]
  /\ runner = "waiting" /\ final = FALSE /\ read = 0 /\ unended = 0
  /\ file = NoFile
  /\ quiet = TRUE

-----------------------------------------------------------------------------
Unended(x) == x["total"] - x["success"] - x["failed"]

(* A request: the counters and the log in Service.Handle.                  *)

Retries(attempts) == IF attempts > 1 THEN <<<<"retries", attempts - 1>>>> ELSE <<>>

SuccessTodo(attempts) == <<<<"success", 1>>>> \o Retries(attempts)

(* Mutant: every attempt is a failed request.                              *)
FailureTodoEach(attempts) == <<<<"failed", attempts>>>> \o Retries(attempts)

FailureTodo(attempts) == <<<<"failed", 1>>>> \o Retries(attempts)

Plus(name, n) == counters' = [counters EXCEPT ![name] = @ + n]

Begin(r) ==
  /\ phase # "down" /\ pc[r] = "new"
  /\ pc' = [pc EXCEPT ![r] = "sending"]
  /\ Plus("total", 1)
  /\ quiet' = FALSE
  /\ UNCHANGED <<ringVars, runnerVars, phase, starts, ticks, attempt, todo, outcome, carried>>

(* The request ends: its result is counted.                                *)
Records(r, result, additions) ==
  /\ pc[r] = "sending" /\ phase # "down"
  /\ pc' = [pc EXCEPT ![r] = "recording"]
  /\ outcome' = [outcome EXCEPT ![r] = result]
  /\ todo' = [todo EXCEPT ![r] = additions]
  /\ UNCHANGED <<runnerVars, phase, starts, ticks, counters, attempt, carried, quiet>>

(* No model, or no account: nothing is logged.                             *)
Refuse(r) == Records(r, Bad, FailureTodo(attempt[r])) /\ UNCHANGED ringVars

(* Send, or the formatter, or Close fails.                                 *)
Fail(r) == Records(r, Bad, FailureTodo(attempt[r])) /\ Add(Bad)

Retry(r) ==
  /\ pc[r] = "sending" /\ phase # "down" /\ attempt[r] < MaxSendAttempts
  /\ attempt' = [attempt EXCEPT ![r] = @ + 1]
  /\ Add(Bad)
  /\ UNCHANGED <<runnerVars, phase, starts, ticks, counters, pc, todo, outcome, carried, quiet>>

Succeed(r) == Records(r, Good, SuccessTodo(attempt[r])) /\ UNCHANGED ringVars

(* One atomic addition of RecordSuccess or RecordFailure.                  *)
Record(r) ==
  /\ pc[r] = "recording" /\ phase # "down" /\ todo[r] # <<>>
  /\ Plus(Head(todo[r])[1], Head(todo[r])[2])
  /\ todo' = [todo EXCEPT ![r] = Tail(@)]
  /\ UNCHANGED <<ringVars, runnerVars, phase, starts, ticks, pc, attempt, outcome, carried, quiet>>

(* A success is logged after it has been counted.                          *)
End(r) ==
  /\ pc[r] = "recording" /\ phase # "down" /\ todo[r] = <<>>
  /\ pc' = [pc EXCEPT ![r] = "ended"]
  /\ IF outcome[r] = Good THEN Add(Good) ELSE UNCHANGED ringVars
  /\ UNCHANGED <<runnerVars, phase, starts, ticks, counters, attempt, todo, outcome, carried, quiet>>

-----------------------------------------------------------------------------
(* The runner.                                                             *)

(* One atomic load of Snapshot.                                            *)
Load(n) ==
  /\ read' = n
  /\ snapshot' = [snapshot EXCEPT ![Order[n]] = counters[Order[n]]]
  /\ unended' = IF Order[n] = "total" THEN Unended(counters) ELSE unended

(* Mutant: the runner stops without a save.                                *)
SaveByTickOnly(last) ==
  /\ phase # "down" /\ runner = "waiting"
  /\ IF last THEN phase # "serving" /\ UNCHANGED ticks ELSE ticks < MaxTicks /\ ticks' = ticks + 1
  /\ runner' = IF last THEN "stopped" ELSE "reading"
  /\ final' = last
  /\ UNCHANGED <<read, snapshot, unended>>
  /\ quiet' = (Running = {})
  /\ UNCHANGED <<ringVars, requestVars, phase, starts, counters, file, carried>>

(* The ticker fires, or the context is done; of both, select takes any.    *)
(* Snapshot loads its first counter.                                       *)
Save(last) ==
  /\ phase # "down" /\ runner = "waiting"
  /\ IF last THEN phase # "serving" /\ UNCHANGED ticks ELSE ticks < MaxTicks /\ ticks' = ticks + 1
  /\ runner' = "reading"
  /\ final' = last
  /\ Load(1)
  /\ quiet' = (Running = {})
  /\ UNCHANGED <<ringVars, requestVars, phase, starts, counters, file, carried>>

Read ==
  /\ phase # "down" /\ runner = "reading" /\ read < Len(Order)
  /\ Load(read + 1)
  /\ UNCHANGED <<ringVars, requestVars, phase, starts, ticks, counters, runner, final, file, carried, quiet>>

(* os.WriteFile truncates the file before it writes.                       *)
Truncate ==
  /\ phase # "down" /\ runner = "reading" /\ read = Len(Order)
  /\ runner' = "saving"
  /\ file' = CutFile
  /\ UNCHANGED <<ringVars, requestVars, phase, starts, ticks, counters, final, read, snapshot, carried, unended, quiet>>

(* The directory or the file cannot be opened.  The error is logged, or    *)
(* dropped.                                                                *)
SaveFails ==
  /\ phase # "down" /\ runner = "reading" /\ read = Len(Order)
  /\ runner' = IF final THEN "stopped" ELSE "waiting"
  /\ read' = 0 /\ snapshot' = Zero /\ unended' = 0
  /\ quiet' = FALSE
  /\ UNCHANGED <<ringVars, requestVars, phase, starts, ticks, counters, final, file, carried>>

(* The write may fail too, and then the file stays cut.                    *)
Write(written) ==
  /\ phase # "down" /\ runner = "saving"
  /\ runner' = IF final THEN "stopped" ELSE "waiting"
  /\ file' = IF written THEN snapshot ELSE file
  /\ read' = 0 /\ snapshot' = Zero /\ unended' = 0
  /\ UNCHANGED <<ringVars, requestVars, phase, starts, ticks, counters, final, carried, quiet>>

-----------------------------------------------------------------------------
(* The process: App.Run and main.                                          *)

Signal ==
  /\ phase = "serving" /\ phase' = "signalled"
  /\ UNCHANGED <<ringVars, requestVars, runnerVars, starts, ticks, counters, carried, quiet>>

(* All that was in memory is gone.                                         *)
Stops ==
  /\ phase' = "down"
  /\ Renew
  /\ counters' = Zero /\ carried' = 0
  /\ runner' = "waiting" /\ final' = FALSE
  /\ read' = 0 /\ snapshot' = Zero /\ unended' = 0 /\ quiet' = TRUE
  /\ UNCHANGED <<attempt, outcome, starts, ticks, file>>

(* Shutdown closes the listener, at a moment that nothing else depends on, *)
(* and waits for the handlers; nothing waits for the runner.               *)
Exit ==
  /\ phase = "signalled" /\ Running = {}
  /\ Stops
  /\ UNCHANGED <<pc, todo>>

Crash ==
  /\ phase # "down"
  /\ Stops
  /\ pc' = [r \in Requests |-> IF r \in Running THEN "lost" ELSE pc[r]]
  /\ todo' = [r \in Requests |-> <<>>]

(* Load: a file that is cut is empty, or its error is logged.              *)
Restored == IF file \in {NoFile, CutFile} THEN Zero ELSE file

Start ==
  /\ phase = "down" /\ starts < MaxStarts
  /\ phase' = "serving" /\ starts' = starts + 1
  /\ counters' = Restored /\ carried' = Unended(Restored)
  /\ UNCHANGED <<ringVars, requestVars, runnerVars, ticks, quiet>>

-----------------------------------------------------------------------------
StatsNext ==
  \/ \E r \in Requests :
       Begin(r) \/ Refuse(r) \/ Fail(r) \/ Retry(r) \/ Succeed(r) \/ Record(r) \/ End(r)
  \/ \E last \in BOOLEAN : Save(last)
  \/ Read \/ Truncate \/ SaveFails
  \/ \E written \in BOOLEAN : Write(written)
  \/ Signal \/ Exit \/ Crash \/ Start

StatsSpec == StatsInit /\ [][StatsNext]_statsVars

-----------------------------------------------------------------------------
(* What has happened of what each counter counts.                          *)
Happened(k) ==
  CASE k = "total" -> {r \in Requests : pc[r] # "new"}
    [] k = "success" -> {r \in Requests : outcome[r] = Good}
    [] k = "failed" -> {r \in Requests : outcome[r] = Bad}
    [] k = "retries" -> {p \in Requests \X (1..MaxSendAttempts) : p[2] < attempt[p[1]]}

(* Nothing is counted twice, by concurrent requests that are retried, by   *)
(* a save that is read in between, or by a process that starts with what   *)
(* another has saved; and in the first process nothing is missed either    *)
(* (Handle, RecordSuccess, RecordFailure, ApplySnapshot).                  *)
NothingCountedTwice ==
  /\ \A k \in Counters : counters[k] <= Cardinality(Happened(k))
  /\ starts = 1 /\ phase # "down" /\ (\A r \in Requests : pc[r] \in {"new", "ended"}) =>
       \A k \in Counters : counters[k] = Cardinality(Happened(k))

SnapshotTaken == runner \in {"reading", "saving"} /\ read = Len(Order)

(* The numbers of a snapshot need not add up, as they are read one by one: *)
(* but what it takes for unended is no more than what was when it read the *)
(* total, and less than that by what has begun since.  Where no request    *)
(* has run meanwhile the numbers add up as those that the process has      *)
(* started with do (Snapshot).                                             *)
SnapshotAddsUp ==
  SnapshotTaken =>
    /\ Unended(snapshot) <= unended
    /\ Unended(snapshot) >= carried - (counters["total"] - snapshot["total"])
    /\ quiet => snapshot = counters

(* An orderly end loses nothing, if no request has run since the last save *)
(* was begun, if that could be written, and if the process did not end     *)
(* before it was (App.Run, StatePersistRunner).                            *)
ShutdownKeepsCounts ==
  runner = "stopped" /\ file # CutFile /\ quiet => Restored = counters

=============================================================================
