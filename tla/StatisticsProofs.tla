--------------------------- MODULE StatisticsProofs ---------------------------
(***************************************************************************)
(* Proofs about Statistics, for any number of requests, attempts, ticks    *)
(* and starts: what a snapshot of counters that move is worth, what an     *)
(* orderly end keeps, and that nothing is counted twice.                   *)
(***************************************************************************)
EXTENDS Statistics, RequestLogRingProofs, FiniteSetTheorems

(* The four counters, and the order in which they are read.                *)
LEMMA CounterNames ==
  /\ Counters = {"total", "success", "failed", "retries"}
  /\ Len(Order) = 4
  /\ Order[1] = "total" /\ Order[2] = "success" /\ Order[3] = "failed" /\ Order[4] = "retries"
<1>1. DOMAIN Order = {1, 2, 3, 4}
  BY DEF Order
<1>2. Len(Order) = 4
  BY DEF Order
<1>3. Order[1] = "total" /\ Order[2] = "success" /\ Order[3] = "failed" /\ Order[4] = "retries"
  BY DEF Order
<1>4. Counters = {Order[i] : i \in {1, 2, 3, 4}}
  BY <1>1 DEF Counters, ToSet
<1> QED
  BY <1>2, <1>3, <1>4

(* One more element in front.                                              *)
LEMMA Joined ==
  ASSUME NEW S, NEW x \in S, NEW t \in Seq(S)
  PROVE  /\ <<x>> \o t \in Seq(S) /\ <<x>> \o t # <<>>
         /\ Head(<<x>> \o t) = x /\ Tail(<<x>> \o t) = t
<1> DEFINE u == <<x>> \o t
<1>1. u \in Seq(S) /\ Len(u) = Len(t) + 1 /\ u[1] = x
  OBVIOUS
<1>2. \A i \in 1..Len(t) : u[i + 1] = t[i]
  OBVIOUS
<1> HIDE DEF u
<1>3. Tail(u) \in Seq(S) /\ Len(Tail(u)) = Len(t) /\ \A i \in 1..Len(t) : Tail(u)[i] = t[i]
  BY <1>1, <1>2
<1>4. Tail(u) = t
  BY <1>3
<1>5. u \in Seq(S) /\ u # <<>> /\ Head(u) = x /\ Tail(u) = t
  BY <1>1, <1>4
<1> QED
  BY <1>5 DEF u

(* What RecordSuccess and RecordFailure add, one after the other.          *)
LEMMA Additions ==
  ASSUME NEW n \in Nat \ {0}
  PROVE  /\ Retries(n) \in Seq(Counters \X Nat)
         /\ Retries(n) # <<>> =>
              Head(Retries(n)) = <<"retries", n - 1>> /\ Tail(Retries(n)) = <<>>
         /\ SuccessTodo(n) \in Seq(Counters \X Nat) /\ SuccessTodo(n) # <<>>
         /\ Head(SuccessTodo(n)) = <<"success", 1>> /\ Tail(SuccessTodo(n)) = Retries(n)
         /\ FailureTodo(n) \in Seq(Counters \X Nat) /\ FailureTodo(n) # <<>>
         /\ Head(FailureTodo(n)) = <<"failed", 1>> /\ Tail(FailureTodo(n)) = Retries(n)
<1>1. <<"success", 1>> \in Counters \X Nat /\ <<"failed", 1>> \in Counters \X Nat
  BY CounterNames
<1>2. /\ Retries(n) \in Seq(Counters \X Nat)
      /\ Retries(n) # <<>> =>
           Head(Retries(n)) = <<"retries", n - 1>> /\ Tail(Retries(n)) = <<>>
  <2>1. CASE n > 1
    <3>1. Retries(n) = <<<<"retries", n - 1>>>>
      BY <2>1 DEF Retries
    <3>2. <<"retries", n - 1>> \in Counters \X Nat
      BY <2>1, CounterNames
    <3> QED
      BY <3>1, <3>2
  <2>2. CASE ~(n > 1)
    BY <2>2 DEF Retries
  <2> QED
    BY <2>1, <2>2
<1> QED
  BY <1>1, <1>2, Joined DEF SuccessTodo, FailureTodo

-----------------------------------------------------------------------------
(* The log: every step of the statistics is one of the ring, or none.      *)
LEMMA RingStep == [StatsNext]_statsVars => [Next]_vars
<1> SUFFICES ASSUME [StatsNext]_statsVars PROVE [Next]_vars
  OBVIOUS
<1> USE EntryAssumption DEF Next, vars, ringVars
<1>1. ASSUME NEW r \in Requests,
             Begin(r) \/ Refuse(r) \/ Fail(r) \/ Retry(r) \/ Succeed(r) \/ Record(r) \/ End(r)
      PROVE  [Next]_vars
  BY <1>1 DEF Begin, Refuse, Fail, Retry, Succeed, Record, End
<1>2. ASSUME NEW last \in BOOLEAN, Save(last) PROVE [Next]_vars
  BY <1>2 DEF Save
<1>3. CASE Read \/ Truncate \/ SaveFails
  BY <1>3 DEF Read, Truncate, SaveFails
<1>4. ASSUME NEW written \in BOOLEAN, Write(written) PROVE [Next]_vars
  BY <1>4 DEF Write
<1>5. CASE Signal \/ Start
  BY <1>5 DEF Signal, Start
<1>6. CASE Exit \/ Crash
  BY <1>6 DEF Exit, Crash, Stops
<1>7. CASE UNCHANGED statsVars
  BY <1>7 DEF statsVars
<1> QED
  BY <1>1, <1>2, <1>3, <1>4, <1>5, <1>6, <1>7 DEF StatsNext

(* The log of a process that counts, saves and is restarted is the bounded *)
(* log, of any size.                                                       *)
THEOREM StatsKeepTheLatest == StatsSpec => KeepsTheLatest
<1>1. StatsInit => Init
  BY DEF StatsInit
<1>2. StatsSpec => Spec
  BY <1>1, RingStep, PTL DEF StatsSpec, Spec
<1> QED
  BY <1>2, RingKeepsTheLatest

-----------------------------------------------------------------------------
(* What a request has yet to add is what is left of one of the two lists;  *)
(* and until it records, and after that, it has nothing to add.            *)
TodoInv ==
  \A r \in Requests :
    /\ pc[r] # "recording" => todo[r] = <<>>
    /\ \/ todo[r] = <<>> \/ todo[r] = Retries(attempt[r])
       \/ todo[r] = SuccessTodo(attempt[r]) \/ todo[r] = FailureTodo(attempt[r])

TypeInv == StatsTypeOK /\ TodoInv /\ RingInv

(* The types at the start.                                                 *)
LEMMA TypeInit == StatsInit => TypeInv
<1> SUFFICES ASSUME StatsInit PROVE TypeInv
  OBVIOUS
<1> USE AttemptAssumption, BoundsAssumption, FileAssumption
<1>1. RingInv
  BY RingInvariant DEF StatsInit
<1>2. Zero \in Snapshot
  BY DEF Zero, Snapshot
<1>3. TodoInv
  BY DEF StatsInit, TodoInv
<1>4. <<>> \in Seq(Counters \X Nat)
  OBVIOUS
<1>5. 0 \in 0..Len(Order)
  BY CounterNames
<1>6. StatsTypeOK
  <2>1. TypeOK
    BY <1>1 DEF RingInv
  <2>2. /\ counters \in Snapshot /\ carried \in Int /\ snapshot \in Snapshot
        /\ file \in Snapshot \union {NoFile, CutFile}
        /\ read \in 0..Len(Order) /\ unended \in Int
    BY <1>2, <1>5 DEF StatsInit
  <2>3. /\ pc \in [Requests -> {"new", "sending", "recording", "ended", "lost"}]
        /\ attempt \in [Requests -> 1..MaxSendAttempts]
        /\ outcome \in [Requests -> {Good, Bad, Blank}]
    BY DEF StatsInit
  <2>4. todo \in [Requests -> Seq(Counters \X Nat)]
    BY <1>4 DEF StatsInit
  <2>5. phase \in {"serving", "signalled", "down"} /\ runner \in {"waiting", "reading", "saving", "stopped"}
    BY DEF StatsInit
  <2>6. starts \in 1..MaxStarts /\ ticks \in 0..MaxTicks
    BY DEF StatsInit
  <2>7. final \in BOOLEAN /\ quiet \in BOOLEAN
    BY Zenon DEF StatsInit
  <2> QED
    BY <2>1, <2>2, <2>3, <2>4, <2>5, <2>6, <2>7 DEF StatsTypeOK
<1> QED
  BY <1>1, <1>3, <1>6 DEF TypeInv

(* A counter has been read.                                                *)
LEMMA LoadTypes ==
  ASSUME TypeInv, NEW n \in 1..4, Load(n)
  PROVE  /\ read' = n /\ snapshot' \in Snapshot /\ unended' \in Int
         /\ snapshot'[Order[n]] = counters[Order[n]]
         /\ \A k \in Counters \ {Order[n]} : snapshot'[k] = snapshot[k]
<1> USE CounterNames DEF TypeInv, StatsTypeOK
<1>1. Order[n] \in Counters
  OBVIOUS
<1>2. counters \in [Counters -> Nat] /\ snapshot \in [Counters -> Nat]
  BY DEF Snapshot
<1>3. /\ snapshot' \in [Counters -> Nat]
      /\ snapshot'[Order[n]] = counters[Order[n]]
      /\ \A k \in Counters \ {Order[n]} : snapshot'[k] = snapshot[k]
  BY <1>1, <1>2 DEF Load
<1>4. Unended(counters) \in Int
  BY <1>2 DEF Unended
<1> QED
  BY <1>3, <1>4 DEF Load, Snapshot

(* One number has been added to one counter.                               *)
LEMMA PlusTypes ==
  ASSUME TypeInv, NEW name \in Counters, NEW n \in Nat, Plus(name, n)
  PROVE  /\ counters' \in Snapshot
         /\ counters'[name] = counters[name] + n
         /\ \A k \in Counters \ {name} : counters'[k] = counters[k]
  BY DEF Plus, TypeInv, StatsTypeOK, Snapshot

(* The first number of the list has been added.                            *)
LEMMA RecordAdds ==
  ASSUME TypeInv, NEW r \in Requests, Record(r)
  PROVE  /\ Head(todo[r]) \in Counters \X Nat
         /\ Plus(Head(todo[r])[1], Head(todo[r])[2])
         /\ \/ /\ Head(todo[r])[1] = "retries" /\ Tail(todo[r]) = <<>>
            \/ /\ Head(todo[r])[1] \in {"success", "failed"} /\ Head(todo[r])[2] = 1
               /\ Tail(todo[r]) = Retries(attempt[r])
         /\ todo' = [todo EXCEPT ![r] = Tail(@)]
         /\ Tail(todo[r]) \in Seq(Counters \X Nat)
<1>1. attempt[r] \in Nat \ {0}
  BY AttemptAssumption DEF TypeInv, StatsTypeOK
<1>2. todo[r] \in Seq(Counters \X Nat) /\ todo[r] # <<>>
  BY DEF TypeInv, StatsTypeOK, Record
<1>3. Head(todo[r]) \in Counters \X Nat /\ Tail(todo[r]) \in Seq(Counters \X Nat)
  BY <1>2
<1>4. PICK n \in Nat \ {0} : n = attempt[r]
  BY <1>1
<1>5. \/ todo[r] = Retries(n) \/ todo[r] = SuccessTodo(n) \/ todo[r] = FailureTodo(n)
  BY <1>2, <1>4 DEF TypeInv, TodoInv
<1>6. \/ Head(todo[r]) = <<"retries", n - 1>> /\ Tail(todo[r]) = <<>>
      \/ Head(todo[r]) = <<"success", 1>> /\ Tail(todo[r]) = Retries(n)
      \/ Head(todo[r]) = <<"failed", 1>> /\ Tail(todo[r]) = Retries(n)
  BY <1>2, <1>5, Additions
<1>7. \/ /\ Head(todo[r])[1] = "retries" /\ Tail(todo[r]) = <<>>
      \/ /\ Head(todo[r])[1] \in {"success", "failed"} /\ Head(todo[r])[2] = 1
         /\ Tail(todo[r]) = Retries(attempt[r])
  BY <1>4, <1>6
<1> QED
  BY <1>3, <1>7 DEF Record

(* The requests' variables keep their types, whatever they do.             *)
LEMMA RequestTypes ==
  ASSUME TypeInv, NEW r \in Requests,
         Begin(r) \/ Refuse(r) \/ Fail(r) \/ Retry(r) \/ Succeed(r) \/ Record(r) \/ End(r)
  PROVE  /\ pc' \in [Requests -> {"new", "sending", "recording", "ended", "lost"}]
         /\ attempt' \in [Requests -> 1..MaxSendAttempts]
         /\ todo' \in [Requests -> Seq(Counters \X Nat)]
         /\ outcome' \in [Requests -> {Good, Bad, Blank}]
         /\ counters' \in Snapshot
         /\ TodoInv'
         /\ UNCHANGED <<runnerVars, phase, starts, ticks, carried>>
         /\ quiet' \in BOOLEAN
<1> USE AttemptAssumption DEF runnerVars
<1>0. /\ pc \in [Requests -> {"new", "sending", "recording", "ended", "lost"}]
      /\ attempt \in [Requests -> 1..MaxSendAttempts]
      /\ todo \in [Requests -> Seq(Counters \X Nat)]
      /\ outcome \in [Requests -> {Good, Bad, Blank}]
      /\ counters \in Snapshot
      /\ quiet \in BOOLEAN
      /\ TodoInv
  BY DEF TypeInv, StatsTypeOK
<1>1. CASE Begin(r)
  <2>1. "total" \in Counters /\ 1 \in Nat
    BY CounterNames
  <2>2. counters' \in Snapshot
    BY <1>1, <2>1, PlusTypes DEF Begin
  <2> QED
    BY <1>0, <1>1, <2>2 DEF Begin, TodoInv
<1>2. ASSUME NEW result \in {Good, Bad}, NEW additions \in {SuccessTodo(attempt[r]), FailureTodo(attempt[r])},
             Records(r, result, additions)
      PROVE  /\ pc' \in [Requests -> {"new", "sending", "recording", "ended", "lost"}]
             /\ todo' \in [Requests -> Seq(Counters \X Nat)]
             /\ outcome' \in [Requests -> {Good, Bad, Blank}]
             /\ attempt' = attempt /\ counters' = counters
             /\ TodoInv'
             /\ UNCHANGED <<runnerVars, phase, starts, ticks, carried>>
             /\ quiet' = quiet
  <2>1. attempt[r] \in Nat \ {0}
    BY <1>0
  <2>2. additions \in Seq(Counters \X Nat)
    BY <2>1, Additions
  <2> QED
    BY <1>0, <1>2, <2>2 DEF Records, TodoInv
<1>3. CASE Refuse(r)
  BY <1>0, <1>2, <1>3 DEF Refuse
<1>4. CASE Fail(r)
  BY <1>0, <1>2, <1>4 DEF Fail
<1>5. CASE Retry(r)
  BY <1>0, <1>5 DEF Retry, TodoInv
<1>6. CASE Succeed(r)
  BY <1>0, <1>2, <1>6 DEF Succeed
<1>7. CASE Record(r)
  <2>1. /\ Head(todo[r])[1] \in Counters /\ Head(todo[r])[2] \in Nat
        /\ Plus(Head(todo[r])[1], Head(todo[r])[2])
        /\ todo' = [todo EXCEPT ![r] = Tail(@)]
        /\ Tail(todo[r]) \in Seq(Counters \X Nat)
        /\ Tail(todo[r]) = <<>> \/ Tail(todo[r]) = Retries(attempt[r])
    BY <1>7, RecordAdds
  <2>2. counters' \in Snapshot
    BY <2>1, PlusTypes
  <2> QED
    BY <1>0, <1>7, <2>1, <2>2 DEF Record, TodoInv
<1>8. CASE End(r)
  BY <1>0, <1>8 DEF End, TodoInv
<1> QED
  BY <1>1, <1>3, <1>4, <1>5, <1>6, <1>7, <1>8

(* What a start restores is a snapshot.                                    *)
LEMMA RestoredTypes == StatsTypeOK => Restored \in Snapshot
<1>1. Zero \in Snapshot
  BY DEF Zero, Snapshot
<1> QED
  BY <1>1 DEF StatsTypeOK, Restored

(* Types are kept by every step.                                           *)
LEMMA TypeStep == TypeInv /\ [StatsNext]_statsVars => TypeInv'
<1> SUFFICES ASSUME TypeInv, [StatsNext]_statsVars PROVE TypeInv'
  OBVIOUS
<1> USE BoundsAssumption
<1>0. RingInv' /\ TypeOK'
  <2>1. RingInv'
    BY RingStep, RingInvariant DEF TypeInv
  <2> QED
    BY <2>1 DEF RingInv
<1>1. StatsTypeOK /\ TodoInv
  BY DEF TypeInv
<1> DEFINE ProcessTypes ==
             /\ phase \in {"serving", "signalled", "down"}
             /\ starts \in 1..MaxStarts /\ ticks \in 0..MaxTicks
             /\ runner \in {"waiting", "reading", "saving", "stopped"}
           RunnerTypes ==
             /\ counters \in Snapshot /\ carried \in Int /\ snapshot \in Snapshot
             /\ read \in 0..4 /\ unended \in Int
             /\ file \in Snapshot \union {NoFile, CutFile}
           FlagTypes == final \in BOOLEAN /\ quiet \in BOOLEAN
           RequestsTypes ==
             /\ pc \in [Requests -> {"new", "sending", "recording", "ended", "lost"}]
             /\ attempt \in [Requests -> 1..MaxSendAttempts]
             /\ todo \in [Requests -> Seq(Counters \X Nat)]
             /\ outcome \in [Requests -> {Good, Bad, Blank}]
             /\ TodoInv
<1>2. ProcessTypes /\ RunnerTypes /\ FlagTypes /\ RequestsTypes
  BY <1>1, CounterNames DEF StatsTypeOK
<1>3. Zero \in Snapshot /\ Unended(Zero) \in Int
  BY CounterNames DEF Zero, Snapshot, Unended
<1>4. SUFFICES (ProcessTypes /\ RunnerTypes /\ FlagTypes /\ RequestsTypes)'
  BY <1>0, CounterNames DEF TypeInv, StatsTypeOK
<1>5. ASSUME NEW r \in Requests,
             Begin(r) \/ Refuse(r) \/ Fail(r) \/ Retry(r) \/ Succeed(r) \/ Record(r) \/ End(r)
      PROVE  (ProcessTypes /\ RunnerTypes /\ FlagTypes /\ RequestsTypes)'
  <2>1. /\ RequestsTypes' /\ counters' \in Snapshot /\ quiet' \in BOOLEAN
        /\ UNCHANGED <<runnerVars, phase, starts, ticks, carried>>
    BY <1>5, RequestTypes
  <2> QED
    BY <1>2, <2>1 DEF runnerVars
<1>6. ASSUME UNCHANGED requestVars PROVE RequestsTypes'
  BY <1>2, <1>6 DEF requestVars, TodoInv
<1>7. ASSUME NEW last \in BOOLEAN, Save(last)
      PROVE  (ProcessTypes /\ RunnerTypes /\ FlagTypes /\ RequestsTypes)'
  <2>1. read' = 1 /\ snapshot' \in Snapshot /\ unended' \in Int
    BY <1>7, LoadTypes DEF Save
  <2>2. quiet' \in BOOLEAN /\ final' \in BOOLEAN
    BY <1>7, Zenon DEF Save
  <2>3. ProcessTypes'
    BY <1>2, <1>7 DEF Save
  <2> QED
    BY <1>2, <1>6, <1>7, <2>1, <2>2, <2>3 DEF Save
<1>8. CASE Read
  <2>1. read + 1 \in 1..4
    BY <1>2, <1>8, CounterNames DEF Read
  <2>2. read' = read + 1 /\ snapshot' \in Snapshot /\ unended' \in Int
    BY <1>8, <2>1, LoadTypes DEF Read
  <2> QED
    BY <1>2, <1>6, <1>8, <2>1, <2>2 DEF Read
<1>9. CASE Truncate
  BY <1>2, <1>6, <1>9 DEF Truncate
<1>10. CASE SaveFails
  <2>1. FlagTypes'
    BY <1>2, <1>10, Zenon DEF SaveFails
  <2>2. ProcessTypes' /\ RunnerTypes'
    BY <1>2, <1>3, <1>10 DEF SaveFails
  <2> QED
    BY <1>6, <1>10, <2>1, <2>2 DEF SaveFails
<1>11. ASSUME NEW written \in BOOLEAN, Write(written)
       PROVE  (ProcessTypes /\ RunnerTypes /\ FlagTypes /\ RequestsTypes)'
  BY <1>2, <1>3, <1>6, <1>11 DEF Write
<1>12. CASE Signal
  BY <1>2, <1>6, <1>12 DEF Signal, runnerVars
<1>13. ASSUME Stops PROVE (ProcessTypes /\ RunnerTypes /\ FlagTypes)'
  <2>1. FlagTypes'
    BY <1>2, <1>13, Zenon DEF Stops
  <2>2. ProcessTypes' /\ RunnerTypes'
    BY <1>2, <1>3, <1>13 DEF Stops
  <2> QED
    BY <2>1, <2>2
<1>14. CASE Exit
  BY <1>2, <1>13, <1>14 DEF Exit, Stops, TodoInv
<1>15. CASE Crash
  <2>1. <<>> \in Seq(Counters \X Nat)
    OBVIOUS
  <2>2. RequestsTypes'
    BY <1>2, <1>15, <2>1 DEF Crash, Stops, TodoInv, Running
  <2> QED
    BY <1>13, <1>15, <2>2 DEF Crash
<1>16. CASE Start
  <2>1. Restored \in Snapshot
    BY <1>1, RestoredTypes
  <2>2. Unended(Restored) \in Int
    BY <2>1, CounterNames DEF Unended, Snapshot
  <2>3. ProcessTypes'
    BY <1>2, <1>16 DEF Start, runnerVars
  <2> QED
    BY <1>2, <1>6, <1>16, <2>1, <2>2, <2>3 DEF Start, runnerVars
<1>17. CASE UNCHANGED statsVars
  BY <1>2, <1>6, <1>17 DEF statsVars, runnerVars
<1> QED
  BY <1>5, <1>7, <1>8, <1>9, <1>10, <1>11, <1>12, <1>14, <1>15, <1>16, <1>17 DEF StatsNext

(* Counters never hold less than nothing, what is yet to be added is       *)
(* always one of the lists, and the log keeps its type, for any number of  *)
(* requests, attempts and starts.                                          *)
THEOREM StatsTypeCorrect == StatsSpec => []StatsTypeOK
<1>1. TypeInv => StatsTypeOK
  BY DEF TypeInv
<1> QED
  BY <1>1, TypeInit, TypeStep, PTL DEF StatsSpec

(* Queries answer with the page they ask for in the running program too,   *)
(* where concurrent requests fill the log and a restart empties it.        *)
THEOREM StatsAnswerPages == StatsSpec => []QueriesAnswerPages
<1>1. TypeInv => QueriesAnswerPages
  BY RingAnswersPages DEF TypeInv
<1> QED
  BY <1>1, TypeInit, TypeStep, PTL DEF StatsSpec

-----------------------------------------------------------------------------
(* The requests whose result no counter knows yet.                         *)
Uncounted ==
  {r \in Requests : \/ pc[r] = "sending"
                    \/ /\ pc[r] = "recording" /\ todo[r] # <<>>
                       /\ Head(todo[r])[1] \in {"success", "failed"}}

(* They are finitely many, and may become one more or one less.            *)
LEMMA UncountedCounts ==
  ASSUME NEW r \in Requests
  PROVE  /\ Cardinality(Uncounted) \in Nat
         /\ Uncounted' = Uncounted \union {r} /\ r \notin Uncounted =>
              Cardinality(Uncounted') = Cardinality(Uncounted) + 1
         /\ Uncounted' = Uncounted \ {r} /\ r \in Uncounted =>
              Cardinality(Uncounted') = Cardinality(Uncounted) - 1
<1>1. IsFiniteSet(Uncounted)
  BY RequestsAssumption, FS_Subset DEF Uncounted
<1>2. Cardinality(Uncounted) \in Nat
  BY <1>1, FS_CardinalityType
<1>3. ASSUME Uncounted' = Uncounted \union {r}, r \notin Uncounted
      PROVE  Cardinality(Uncounted') = Cardinality(Uncounted) + 1
  BY <1>1, <1>3, FS_AddElement
<1>4. ASSUME Uncounted' = Uncounted \ {r}, r \in Uncounted
      PROVE  Cardinality(Uncounted') = Cardinality(Uncounted) - 1
  BY <1>1, <1>4, FS_RemoveElement
<1> QED
  BY <1>2, <1>3, <1>4

(* The counters are behind by the requests that no counter knows.          *)
AccountInv ==
  /\ Cardinality(Uncounted) \in Nat
  /\ Unended(counters) = carried + Cardinality(Uncounted)

(* A step of a request lets counters only grow, and counts what it ends.   *)
LEMMA RequestCounts ==
  ASSUME TypeInv, AccountInv, NEW r \in Requests,
         Begin(r) \/ Refuse(r) \/ Fail(r) \/ Retry(r) \/ Succeed(r) \/ Record(r) \/ End(r)
  PROVE  /\ \A k \in Counters : counters'[k] >= counters[k]
         /\ AccountInv'
         /\ phase # "down"
         /\ quiet' => quiet /\ r \in Running
<1>0. /\ pc \in [Requests -> {"new", "sending", "recording", "ended", "lost"}]
      /\ attempt[r] \in Nat \ {0}
      /\ todo \in [Requests -> Seq(Counters \X Nat)]
      /\ counters \in [Counters -> Nat]
      /\ carried \in Int
  BY AttemptAssumption DEF TypeInv, StatsTypeOK, Snapshot
<1> DEFINE Grows ==
             /\ \A k \in Counters : counters'[k] >= counters[k]
             /\ AccountInv'
             /\ phase # "down"
             /\ quiet' => quiet /\ r \in Running
<1>1. CASE Begin(r)
  <2>1. /\ counters' \in [Counters -> Nat]
        /\ counters'["total"] = counters["total"] + 1
        /\ \A k \in Counters \ {"total"} : counters'[k] = counters[k]
    BY <1>1, CounterNames, PlusTypes DEF Begin, Snapshot
  <2>2. Uncounted' = Uncounted \union {r} /\ r \notin Uncounted
    BY <1>0, <1>1 DEF Begin, Uncounted
  <2>3. Cardinality(Uncounted') = Cardinality(Uncounted) + 1
    BY <2>2, UncountedCounts
  <2>4. Unended(counters') = Unended(counters) + 1
    BY <1>0, <2>1, CounterNames DEF Unended
  <2>5. AccountInv'
    <3>1. carried' = carried
      BY <1>1 DEF Begin
    <3>2. Cardinality(Uncounted) \in Nat /\ Unended(counters) = carried + Cardinality(Uncounted)
      BY DEF AccountInv
    <3>4. Cardinality(Uncounted') \in Nat
      BY <2>3, <3>2
    <3>5. carried \in Int
      BY <1>0
    <3>6. Unended(counters') = carried + Cardinality(Uncounted) + 1
      BY <2>4, <3>2
    <3>7. Unended(counters') = carried + Cardinality(Uncounted')
      BY <2>3, <3>2, <3>5, <3>6
    <3>3. Unended(counters') = carried' + Cardinality(Uncounted') /\ Cardinality(Uncounted') \in Nat
      BY <3>1, <3>4, <3>7
    <3> QED
      BY <3>3 DEF AccountInv
  <2>6. \A k \in Counters : counters'[k] >= counters[k]
    <3>1. SUFFICES ASSUME NEW k \in Counters PROVE counters'[k] >= counters[k]
      OBVIOUS
    <3>2. counters[k] \in Nat
      BY <1>0
    <3>3. counters'[k] = counters[k] \/ counters'[k] = counters[k] + 1
      BY <2>1
    <3> QED
      BY <3>2, <3>3
  <2>7. quiet' => quiet /\ r \in Running
    BY <1>1, Zenon DEF Begin
  <2> QED
    BY <1>1, <2>5, <2>6, <2>7 DEF Begin
<1>2. ASSUME NEW result, NEW additions \in {SuccessTodo(attempt[r]), FailureTodo(attempt[r])},
             Records(r, result, additions)
      PROVE  Grows
  <2>1. additions # <<>> /\ Head(additions)[1] \in {"success", "failed"}
    <3>1. PICK n \in Nat \ {0} : n = attempt[r]
      BY <1>0
    <3>2. additions # <<>> /\ (Head(additions) = <<"success", 1>> \/ Head(additions) = <<"failed", 1>>)
      BY <1>2, <3>1, Additions
    <3> QED
      BY <3>2
  <2>2. Uncounted' = Uncounted
    BY <1>0, <1>2, <2>1 DEF Records, Uncounted
  <2> QED
    BY <1>0, <1>2, <2>2 DEF Records, AccountInv, Running
<1>3. CASE Refuse(r)
  BY <1>2, <1>3 DEF Refuse
<1>4. CASE Fail(r)
  BY <1>2, <1>4 DEF Fail
<1>5. CASE Retry(r)
  <2>1. Uncounted' = Uncounted
    BY <1>5 DEF Retry, Uncounted
  <2> QED
    BY <1>0, <1>5, <2>1 DEF Retry, AccountInv, Running
<1>6. CASE Succeed(r)
  BY <1>2, <1>6 DEF Succeed
<1>7. CASE Record(r)
  <2>1. /\ Head(todo[r])[1] \in Counters /\ Head(todo[r])[2] \in Nat
        /\ Plus(Head(todo[r])[1], Head(todo[r])[2])
        /\ todo'[r] = Tail(todo[r])
        /\ \A q \in Requests \ {r} : todo'[q] = todo[q]
    BY <1>0, <1>7, RecordAdds
  <2>2. /\ counters' \in [Counters -> Nat]
        /\ counters'[Head(todo[r])[1]] = counters[Head(todo[r])[1]] + Head(todo[r])[2]
        /\ \A k \in Counters \ {Head(todo[r])[1]} : counters'[k] = counters[k]
    BY <2>1, PlusTypes DEF Snapshot
  <2>5. \A k \in Counters : counters'[k] >= counters[k]
    <3>1. PICK name \in Counters, n \in Nat :
            /\ counters'[name] = counters[name] + n
            /\ \A k \in Counters \ {name} : counters'[k] = counters[k]
      BY <2>1, <2>2
    <3> QED
      BY <1>0, <3>1
  <2>6. phase # "down" /\ (quiet' => quiet /\ r \in Running)
    BY <1>7 DEF Record, Running
  <2>3. CASE Head(todo[r])[1] = "retries" /\ Tail(todo[r]) = <<>>
    <3>1. Uncounted' = Uncounted
      BY <1>7, <2>1, <2>3 DEF Record, Uncounted
    <3>2. Unended(counters') = Unended(counters)
      BY <2>2, <2>3, CounterNames DEF Unended
    <3>3. AccountInv'
      BY <1>7, <3>1, <3>2 DEF Record, AccountInv
    <3> QED
      BY <2>5, <2>6, <3>3
  <2>4. CASE /\ Head(todo[r])[1] \in {"success", "failed"} /\ Head(todo[r])[2] = 1
             /\ Tail(todo[r]) = Retries(attempt[r])
    <3>1. Uncounted' = Uncounted \ {r} /\ r \in Uncounted
      <4>1. Tail(todo[r]) # <<>> => Head(Tail(todo[r]))[1] = "retries"
        <5>1. PICK n \in Nat \ {0} : n = attempt[r]
          BY <1>0
        <5>2. Retries(n) # <<>> => Head(Retries(n)) = <<"retries", n - 1>>
          BY Additions
        <5>3. <<"retries", n - 1>>[1] = "retries"
          OBVIOUS
        <5> QED
          BY <2>4, <5>1, <5>2, <5>3
      <4> QED
        BY <1>7, <2>1, <2>4, <4>1 DEF Record, Uncounted
    <3>2. Cardinality(Uncounted') = Cardinality(Uncounted) - 1
      BY <3>1, UncountedCounts
    <3>3. Cardinality(Uncounted') \in Nat
      <4>1. IsFiniteSet(Uncounted)
        BY RequestsAssumption, FS_Subset DEF Uncounted
      <4>2. IsFiniteSet(Uncounted')
        BY <3>1, <4>1, FS_RemoveElement
      <4> QED
        BY <4>2, FS_CardinalityType
    <3>4. Unended(counters') = Unended(counters) - 1
      <4>1. /\ counters["total"] \in Nat /\ counters["success"] \in Nat
            /\ counters["failed"] \in Nat
        BY <1>0, CounterNames
      <4>2. /\ counters'["total"] = counters["total"]
            /\ \/ /\ counters'["success"] = counters["success"] + 1
                  /\ counters'["failed"] = counters["failed"]
               \/ /\ counters'["success"] = counters["success"]
                  /\ counters'["failed"] = counters["failed"] + 1
        BY <2>2, <2>4, CounterNames
      <4> QED
        BY <4>1, <4>2 DEF Unended
    <3>5. AccountInv'
      BY <1>0, <1>7, <3>2, <3>3, <3>4 DEF Record, AccountInv
    <3> QED
      BY <2>5, <2>6, <3>5
  <2> QED
    BY <1>7, <2>3, <2>4, RecordAdds
<1>8. CASE End(r)
  <2>1. Uncounted' = Uncounted
    BY <1>0, <1>8 DEF End, Uncounted
  <2> QED
    BY <1>0, <1>8, <2>1 DEF End, AccountInv, Running
<1> QED
  BY <1>1, <1>3, <1>4, <1>5, <1>6, <1>7, <1>8

-----------------------------------------------------------------------------
(* A snapshot that is being taken, or written.  A counter that it has not  *)
(* read yet stands for what it will read at least; and what it reads while *)
(* nothing runs is what there is.                                          *)
Reading == runner \in {"reading", "saving"}

SnapInv ==
  Reading =>
    /\ read \in 1..4
    /\ runner = "saving" => read = 4
    /\ snapshot["success"] <= counters["success"] \/ read < 2
    /\ snapshot["failed"] <= counters["failed"] \/ read < 3
    /\ snapshot["total"]
         - (IF read < 2 THEN counters["success"] ELSE snapshot["success"])
         - (IF read < 3 THEN counters["failed"] ELSE snapshot["failed"]) <= unended

QuietInv ==
  /\ runner = "saving" => file = CutFile
  /\ Reading /\ quiet =>
       Running = {} /\ \A i \in 1..read : snapshot[Order[i]] = counters[Order[i]]
  /\ runner = "stopped" /\ quiet => Running = {} /\ file \in {CutFile, counters}
  /\ phase = "down" => Running = {} /\ runner = "waiting"

StatsInv == TypeInv /\ AccountInv /\ SnapInv /\ QuietInv

(* Nobody runs who is not counted.                                         *)
LEMMA UncountedRun == Uncounted \subseteq Running
  BY DEF Uncounted, Running

(* Without handlers nothing waits to be counted.                           *)
LEMMA NoneUncounted == Running = {} => Uncounted = {} /\ Cardinality(Uncounted) = 0
  BY UncountedRun, FS_EmptySet

(* Everything is counted at the start.                                     *)
LEMMA StatsInitInv == StatsInit => StatsInv
<1> SUFFICES ASSUME StatsInit PROVE StatsInv
  OBVIOUS
<1>1. TypeInv
  BY TypeInit
<1>2. Running = {}
  BY DEF StatsInit, Running
<1>3. Unended(counters) = 0 /\ carried = 0
  BY CounterNames DEF StatsInit, Zero, Unended
<1>4. AccountInv
  BY <1>2, <1>3, NoneUncounted DEF AccountInv
<1>5. runner = "waiting"
  BY DEF StatsInit
<1>6. SnapInv /\ QuietInv
  BY <1>2, <1>5 DEF SnapInv, QuietInv, Reading
<1> QED
  BY <1>1, <1>4, <1>6 DEF StatsInv

(* Requests go on while a snapshot is taken.                               *)
LEMMA RequestKeeps ==
  ASSUME StatsInv, NEW r \in Requests,
         Begin(r) \/ Refuse(r) \/ Fail(r) \/ Retry(r) \/ Succeed(r) \/ Record(r) \/ End(r)
  PROVE  AccountInv' /\ SnapInv' /\ QuietInv'
<1>1. /\ \A k \in Counters : counters'[k] >= counters[k]
      /\ AccountInv' /\ phase # "down" /\ (quiet' => quiet /\ r \in Running)
  BY RequestCounts DEF StatsInv
<1>2. /\ UNCHANGED <<runnerVars, phase>> /\ counters' \in [Counters -> Nat]
  BY RequestTypes DEF StatsInv, Snapshot
<1>3. /\ counters \in [Counters -> Nat] /\ snapshot \in [Counters -> Nat] /\ unended \in Int
      /\ read \in Nat
  BY CounterNames DEF StatsInv, TypeInv, StatsTypeOK, Snapshot
<1>4. SnapInv'
  <2>1. /\ UNCHANGED <<runner, read, snapshot, unended>>
        /\ counters'["success"] >= counters["success"] /\ counters'["failed"] >= counters["failed"]
        /\ counters["success"] \in Nat /\ counters["failed"] \in Nat
        /\ counters'["success"] \in Nat /\ counters'["failed"] \in Nat
        /\ snapshot["total"] \in Nat /\ snapshot["success"] \in Nat /\ snapshot["failed"] \in Nat
    BY <1>1, <1>2, <1>3, CounterNames DEF runnerVars
  <2>2. SnapInv
    BY DEF StatsInv
  <2> QED
    BY <1>3, <2>1, <2>2 DEF SnapInv, Reading
<1>5. QuietInv'
  <2>1. quiet' => quiet /\ Running # {}
    BY <1>1
  <2>2. UNCHANGED <<runner, file, phase>>
    BY <1>2 DEF runnerVars
  <2> QED
    BY <1>1, <2>1, <2>2 DEF StatsInv, QuietInv, Reading
<1> QED
  BY <1>1, <1>4, <1>5

(* The accounts of a step that moves neither requests nor counters.        *)
LEMMA AccountKept ==
  StatsInv /\ UNCHANGED <<requestVars, counters, carried>> =>
    AccountInv' /\ Running' = Running
  BY DEF StatsInv, AccountInv, requestVars, Uncounted, Running

(* The runner: the first counter is read, or another one.                  *)
LEMMA RunnerReads ==
  ASSUME StatsInv, (\E last \in BOOLEAN : Save(last)) \/ Read
  PROVE  SnapInv' /\ QuietInv'
<1>0. /\ counters \in [Counters -> Nat] /\ snapshot \in [Counters -> Nat] /\ unended \in Int
      /\ counters["total"] \in Nat /\ counters["success"] \in Nat /\ counters["failed"] \in Nat
      /\ snapshot["total"] \in Nat /\ snapshot["success"] \in Nat /\ snapshot["failed"] \in Nat
      /\ read \in 0..4
  BY CounterNames DEF StatsInv, TypeInv, StatsTypeOK, Snapshot
<1>1. CASE \E last \in BOOLEAN : Save(last)
  <2>1. /\ Load(1) /\ runner' = "reading" /\ phase # "down" /\ quiet' = (Running = {})
        /\ UNCHANGED <<requestVars, phase, counters, carried>>
    BY <1>1 DEF Save
  <2>2. read' = 1 /\ snapshot' \in Snapshot /\ snapshot'["total"] = counters["total"]
    BY <2>1, CounterNames, LoadTypes DEF StatsInv
  <2>3. unended' = counters["total"] - counters["success"] - counters["failed"]
    BY <2>1, CounterNames DEF Load, Unended
  <2>4. counters' = counters /\ Running' = Running
    BY <2>1, AccountKept
  <2>5. SnapInv'
    BY <1>0, <2>1, <2>2, <2>3, <2>4 DEF SnapInv, Reading
  <2>6. QuietInv'
    <3>1. quiet' => Running' = {}
      BY <2>1, <2>4, Zenon
    <3>2. \A i \in 1..read' : snapshot'[Order[i]] = counters'[Order[i]]
      BY <2>2, <2>4, CounterNames
    <3> QED
      BY <2>1, <3>1, <3>2 DEF QuietInv, Reading
  <2> QED
    BY <2>5, <2>6
<1>2. CASE Read
  <2>1. /\ Load(read + 1) /\ read < 4 /\ runner = "reading" /\ runner' = "reading"
        /\ UNCHANGED <<requestVars, phase, counters, carried, quiet, file>> /\ phase # "down"
    BY <1>2, CounterNames DEF Read
  <2>2. read \in 1..3
    BY <1>0, <2>1 DEF StatsInv, SnapInv, Reading
  <2>3. /\ read' = read + 1 /\ snapshot' \in Snapshot
        /\ snapshot'[Order[read + 1]] = counters[Order[read + 1]]
        /\ \A k \in Counters \ {Order[read + 1]} : snapshot'[k] = snapshot[k]
    <3>1. PICK n \in 1..4 : n = read + 1
      BY <2>2
    <3> QED
      BY <2>1, <3>1, LoadTypes DEF StatsInv
  <2>4. unended' = unended
    BY <2>1, <2>2, CounterNames DEF Load
  <2>5. counters' = counters /\ Running' = Running
    BY <2>1, AccountKept
  <2>6. SnapInv'
    <3>1. CASE read = 1
      BY <1>0, <2>1, <2>3, <2>4, <2>5, <3>1, CounterNames DEF StatsInv, SnapInv, Reading
    <3>2. CASE read = 2
      BY <1>0, <2>1, <2>3, <2>4, <2>5, <3>2, CounterNames DEF StatsInv, SnapInv, Reading
    <3>3. CASE read = 3
      BY <1>0, <2>1, <2>3, <2>4, <2>5, <3>3, CounterNames DEF StatsInv, SnapInv, Reading
    <3> QED
      BY <2>2, <3>1, <3>2, <3>3
  <2>7. ASSUME quiet'
        PROVE  Running' = {} /\ \A i \in 1..read' : snapshot'[Order[i]] = counters'[Order[i]]
    <3>1. Running = {} /\ \A i \in 1..read : snapshot[Order[i]] = counters[Order[i]]
      BY <2>1, <2>7 DEF StatsInv, QuietInv, Reading
    <3>2. \A i \in 1..read : Order[i] \in Counters \ {Order[read + 1]}
      BY <2>2, CounterNames
    <3>3. \A i \in 1..(read + 1) : i \in 1..read \/ i = read + 1
      BY <2>2
    <3> QED
      BY <2>3, <2>5, <3>1, <3>2, <3>3
  <2> QED
    BY <2>1, <2>5, <2>6, <2>7 DEF QuietInv, Reading
<1> QED
  BY <1>1, <1>2

(* The invariant is kept by every step.                                    *)
LEMMA StatsStep == StatsInv /\ [StatsNext]_statsVars => StatsInv'
<1> SUFFICES ASSUME StatsInv, [StatsNext]_statsVars PROVE StatsInv'
  OBVIOUS
<1>0. TypeInv'
  BY TypeStep DEF StatsInv
<1>1. AccountInv /\ SnapInv /\ QuietInv
  BY DEF StatsInv
<1> SUFFICES AccountInv' /\ SnapInv' /\ QuietInv'
  BY <1>0 DEF StatsInv
<1>2. ASSUME NEW r \in Requests,
             Begin(r) \/ Refuse(r) \/ Fail(r) \/ Retry(r) \/ Succeed(r) \/ Record(r) \/ End(r)
      PROVE  AccountInv' /\ SnapInv' /\ QuietInv'
  BY <1>2, RequestKeeps
<1>3. ASSUME NEW last \in BOOLEAN, Save(last) PROVE AccountInv' /\ SnapInv' /\ QuietInv'
  BY <1>3, RunnerReads, AccountKept DEF Save
<1>4. CASE Read
  BY <1>4, RunnerReads, AccountKept DEF Read
<1>5. CASE Truncate
  <2>1. Running' = Running /\ AccountInv'
    BY <1>5, AccountKept DEF Truncate
  <2>2. read = 4
    BY <1>5, CounterNames DEF Truncate
  <2>3. SnapInv'
    BY <1>1, <1>5, <2>2 DEF Truncate, SnapInv, Reading
  <2>4. QuietInv'
    BY <1>1, <1>5, <2>1 DEF Truncate, QuietInv, Reading
  <2> QED
    BY <2>1, <2>3, <2>4
<1>6. CASE SaveFails
  <2>1. Running' = Running /\ AccountInv'
    BY <1>6, AccountKept DEF SaveFails
  <2> QED
    BY <1>6, <2>1 DEF SaveFails, SnapInv, QuietInv, Reading
<1>7. ASSUME NEW written \in BOOLEAN, Write(written) PROVE AccountInv' /\ SnapInv' /\ QuietInv'
  <2>1. Running' = Running /\ AccountInv'
    BY <1>7, AccountKept DEF Write
  <2>2. /\ runner = "saving" /\ phase # "down" /\ phase' = phase
        /\ runner' \in {"stopped", "waiting"} /\ file' \in {file, snapshot}
        /\ UNCHANGED <<counters, quiet>>
    BY <1>7 DEF Write
  <2>3. file = CutFile /\ (quiet => Running = {} /\ snapshot = counters)
    <3>1. read = 4
      BY <1>1, <2>2 DEF SnapInv, Reading
    <3>2. ASSUME quiet PROVE Running = {} /\ snapshot = counters
      <4>1. Running = {} /\ \A i \in 1..4 : snapshot[Order[i]] = counters[Order[i]]
        BY <1>1, <2>2, <3>1, <3>2 DEF QuietInv, Reading
      <4>2. \A k \in Counters : snapshot[k] = counters[k]
        BY <4>1, CounterNames
      <4>3. snapshot \in [Counters -> Nat] /\ counters \in [Counters -> Nat]
        BY DEF StatsInv, TypeInv, StatsTypeOK, Snapshot
      <4> QED
        BY <4>1, <4>2, <4>3
    <3> QED
      BY <1>1, <2>2, <3>2 DEF QuietInv
  <2>4. SnapInv'
    BY <2>2 DEF SnapInv, Reading
  <2>5. QuietInv'
    BY <2>1, <2>2, <2>3 DEF QuietInv, Reading
  <2> QED
    BY <2>1, <2>4, <2>5
<1>8. CASE Signal
  <2>1. Running' = Running /\ AccountInv'
    BY <1>8, AccountKept DEF Signal
  <2> QED
    BY <1>1, <1>8, <2>1 DEF Signal, runnerVars, SnapInv, QuietInv, Reading
<1>9. ASSUME Stops, Running' = {} PROVE AccountInv' /\ SnapInv' /\ QuietInv'
  <2>1. Uncounted' = {} /\ Cardinality(Uncounted') = 0
    <3>1. (Running = {} => Uncounted = {} /\ Cardinality(Uncounted) = 0)'
      BY NoneUncounted, PTL
    <3> QED
      BY <1>9, <3>1
  <2>2. Unended(counters') = 0 /\ carried' = 0
    BY <1>9, CounterNames DEF Stops, Zero, Unended
  <2>3. AccountInv'
    BY <2>1, <2>2 DEF AccountInv
  <2> QED
    BY <1>9, <2>3 DEF Stops, SnapInv, QuietInv, Reading
<1>10. CASE Exit
  BY <1>9, <1>10 DEF Exit, Running
<1>11. CASE Crash
  <2>1. Running' = {}
    BY <1>11 DEF Crash, Running, StatsInv, TypeInv, StatsTypeOK
  <2> QED
    BY <1>9, <1>11, <2>1 DEF Crash
<1>12. CASE Start
  <2>1. /\ Running = {} /\ Running' = {} /\ runner = "waiting" /\ runner' = "waiting"
        /\ phase' = "serving" /\ UNCHANGED quiet
    BY <1>1, <1>12 DEF Start, QuietInv, requestVars, runnerVars, Running
  <2>2. Uncounted' = {} /\ Cardinality(Uncounted') = 0
    <3>1. (Running = {} => Uncounted = {} /\ Cardinality(Uncounted) = 0)'
      BY NoneUncounted, PTL
    <3> QED
      BY <2>1, <3>1
  <2>3. counters' \in [Counters -> Nat] /\ carried' = Unended(counters')
    BY <1>12, RestoredTypes DEF Start, StatsInv, TypeInv, Snapshot
  <2>4. carried' \in Int
    BY <2>3, CounterNames DEF Unended
  <2>5. AccountInv'
    BY <2>2, <2>3, <2>4 DEF AccountInv
  <2> QED
    BY <2>1, <2>5 DEF SnapInv, QuietInv, Reading
<1>13. CASE UNCHANGED statsVars
  <2>1. Running' = Running /\ AccountInv'
    BY <1>13, AccountKept DEF statsVars
  <2> QED
    BY <1>1, <1>13, <2>1 DEF statsVars, runnerVars, SnapInv, QuietInv, Reading
<1> QED
  BY <1>2, <1>3, <1>4, <1>5, <1>6, <1>7, <1>8, <1>10, <1>11, <1>12, <1>13 DEF StatsNext

(* However many requests count while a snapshot is read, its numbers miss  *)
(* adding up by no more than what was running when it began and what has   *)
(* begun since; where nothing has run meanwhile it is exact.               *)
THEOREM SnapshotsAddUp == StatsSpec => []SnapshotAddsUp
<1>1. StatsInv => SnapshotAddsUp
  <2> SUFFICES ASSUME StatsInv, SnapshotTaken
               PROVE  /\ Unended(snapshot) <= unended
                      /\ Unended(snapshot) >= carried - (counters["total"] - snapshot["total"])
                      /\ quiet => snapshot = counters
    BY DEF SnapshotAddsUp
  <2>0. /\ counters \in [Counters -> Nat] /\ snapshot \in [Counters -> Nat] /\ unended \in Int
        /\ counters["total"] \in Nat /\ counters["success"] \in Nat /\ counters["failed"] \in Nat
        /\ snapshot["total"] \in Nat /\ snapshot["success"] \in Nat /\ snapshot["failed"] \in Nat
        /\ carried \in Int
    BY CounterNames DEF StatsInv, TypeInv, StatsTypeOK, Snapshot
  <2>1. Reading /\ read = 4
    BY CounterNames DEF SnapshotTaken, Reading
  <2>2. /\ snapshot["success"] <= counters["success"] /\ snapshot["failed"] <= counters["failed"]
        /\ snapshot["total"] - snapshot["success"] - snapshot["failed"] <= unended
    BY <2>1 DEF StatsInv, SnapInv
  <2>3. counters["total"] - counters["success"] - counters["failed"] >= carried
    <3>1. PICK n \in Nat : n = Cardinality(Uncounted)
      BY DEF StatsInv, AccountInv
    <3>2. counters["total"] - counters["success"] - counters["failed"] = carried + n
      BY <3>1 DEF StatsInv, AccountInv, Unended
    <3> QED
      BY <2>0, <3>2
  <2>4. Unended(snapshot) <= unended
    BY <2>2 DEF Unended
  <2>5. Unended(snapshot) >= carried - (counters["total"] - snapshot["total"])
    BY <2>0, <2>2, <2>3 DEF Unended
  <2>6. ASSUME quiet PROVE snapshot = counters
    <3>1. \A i \in 1..4 : snapshot[Order[i]] = counters[Order[i]]
      BY <2>1, <2>6 DEF StatsInv, QuietInv
    <3>2. \A k \in Counters : snapshot[k] = counters[k]
      BY <3>1, CounterNames
    <3> QED
      BY <2>0, <3>2
  <2> QED
    BY <2>4, <2>5, <2>6
<1> QED
  BY <1>1, StatsInitInv, StatsStep, PTL DEF StatsSpec

(* An orderly end keeps all counts, under the conditions that it names.    *)
THEOREM EndsKeepCounts == StatsSpec => []ShutdownKeepsCounts
<1>1. StatsInv => ShutdownKeepsCounts
  <2> SUFFICES ASSUME StatsInv, runner = "stopped", file # CutFile, quiet
               PROVE  Restored = counters
    BY DEF ShutdownKeepsCounts
  <2>1. file = counters
    BY DEF StatsInv, QuietInv
  <2>2. counters \in Snapshot
    BY DEF StatsInv, TypeInv, StatsTypeOK
  <2> QED
    BY <2>1, <2>2, FileAssumption DEF Restored
<1> QED
  BY <1>1, StatsInitInv, StatsStep, PTL DEF StatsSpec

-----------------------------------------------------------------------------
(* What has happened and been counted: a result once it is no longer first *)
(* in what is left to add, retries when nothing is left.                   *)
ResultCounted(r) == todo[r] = <<>> \/ Head(todo[r])[1] = "retries"

RetriesCounted(r) == pc[r] \notin {"new", "sending"} /\ todo[r] = <<>>

Total == Happened("total")
Success == {r \in Happened("success") : ResultCounted(r)}
Failed == {r \in Happened("failed") : ResultCounted(r)}
Repeated == {p \in Happened("retries") : RetriesCounted(p[1])}

Settled(k) ==
  CASE k = "total" -> Total [] k = "success" -> Success
    [] k = "failed" -> Failed [] k = "retries" -> Repeated

(* Before a request has ended it has no result, and what it then has yet   *)
(* to add begins with the result it has.                                   *)
OweInv ==
  \A r \in Requests :
    /\ pc[r] \in {"new", "sending"} => outcome[r] = Blank
    /\ pc[r] = "new" => attempt[r] = 1
    /\ todo[r] # <<>> =>
         \/ todo[r] = Retries(attempt[r])
         \/ todo[r] = SuccessTodo(attempt[r]) /\ outcome[r] = Good
         \/ todo[r] = FailureTodo(attempt[r]) /\ outcome[r] = Bad

(* Nobody knows more than what is settled, and the first process knows it. *)
CountInv ==
  /\ OweInv
  /\ \A k \in Counters :
       /\ counters[k] <= Cardinality(Settled(k))
       /\ snapshot[k] <= Cardinality(Settled(k))
       /\ file \in Snapshot => file[k] <= Cardinality(Settled(k))
  /\ starts = 1 /\ phase # "down" => \A k \in Counters : counters[k] = Cardinality(Settled(k))

(* The cases of the two definitions.                                       *)
LEMMA HappenedCases ==
  /\ Happened("total") = {r \in Requests : pc[r] # "new"}
  /\ Happened("success") = {r \in Requests : outcome[r] = Good}
  /\ Happened("failed") = {r \in Requests : outcome[r] = Bad}
  /\ Happened("retries") = {p \in Requests \X (1..MaxSendAttempts) : p[2] < attempt[p[1]]}
  /\ Settled("total") = Total /\ Settled("success") = Success
  /\ Settled("failed") = Failed /\ Settled("retries") = Repeated
<1>1. "total" # "success" /\ "total" # "failed" /\ "total" # "retries"
      /\ "success" # "failed" /\ "success" # "retries" /\ "failed" # "retries"
  OBVIOUS
<1>2. /\ Settled("total") = Total /\ Settled("success") = Success
      /\ Settled("failed") = Failed /\ Settled("retries") = Repeated
  BY <1>1, Zenon DEF Settled
<1>3. Happened("total") = {r \in Requests : pc[r] # "new"}
  BY <1>1, Zenon DEF Happened
<1>4. Happened("success") = {r \in Requests : outcome[r] = Good}
  BY <1>1, Zenon DEF Happened
<1>5. Happened("failed") = {r \in Requests : outcome[r] = Bad}
  BY <1>1, Zenon DEF Happened
<1>6. Happened("retries") = {p \in Requests \X (1..MaxSendAttempts) : p[2] < attempt[p[1]]}
  BY <1>1, Zenon DEF Happened
<1> QED
  BY <1>2, <1>3, <1>4, <1>5, <1>6

(* What is settled has happened, and is finitely much.                     *)
LEMMA SettledFinite ==
  ASSUME NEW k \in Counters
  PROVE  /\ IsFiniteSet(Happened(k)) /\ Settled(k) \subseteq Happened(k)
         /\ IsFiniteSet(Settled(k)) /\ Cardinality(Settled(k)) \in Nat
         /\ Cardinality(Settled(k)) <= Cardinality(Happened(k))
<1>1. IsFiniteSet(Requests \X (1..MaxSendAttempts))
  <2>1. IsFiniteSet(1..MaxSendAttempts)
    BY AttemptAssumption, FS_Interval
  <2> QED
    BY <2>1, RequestsAssumption, FS_Product
<1>2. IsFiniteSet(Happened(k)) /\ Settled(k) \subseteq Happened(k)
  <2>1. CASE k = "total"
    BY <2>1, HappenedCases, RequestsAssumption, FS_Subset DEF Total
  <2>2. CASE k = "success"
    BY <2>2, HappenedCases, RequestsAssumption, FS_Subset DEF Success
  <2>3. CASE k = "failed"
    BY <2>3, HappenedCases, RequestsAssumption, FS_Subset DEF Failed
  <2>4. CASE k = "retries"
    BY <1>1, <2>4, HappenedCases, FS_Subset DEF Repeated
  <2> QED
    BY <2>1, <2>2, <2>3, <2>4, CounterNames
<1>3. IsFiniteSet(Settled(k)) /\ Cardinality(Settled(k)) <= Cardinality(Happened(k))
  BY <1>2, FS_Subset
<1> QED
  BY <1>2, <1>3, FS_CardinalityType

(* The same of all counters.                                               *)
LEMMA AllSettledFinite ==
  \A c \in Counters : IsFiniteSet(Settled(c)) /\ Cardinality(Settled(c)) \in Nat
  BY SettledFinite

(* All retries of one request.                                             *)
LEMMA RetriesOfOne ==
  ASSUME NEW r \in Requests, NEW n \in 1..MaxSendAttempts
  PROVE  IsFiniteSet({r} \X (1..(n - 1))) /\ Cardinality({r} \X (1..(n - 1))) = n - 1
<1>1. n \in Nat /\ n >= 1
  BY AttemptAssumption
<1>2. IsFiniteSet(1..(n - 1)) /\ Cardinality(1..(n - 1)) = n - 1
  BY <1>1, FS_Interval
<1>3. IsFiniteSet({r}) /\ Cardinality({r}) = 1
  BY FS_Singleton
<1>4. /\ IsFiniteSet({r} \X (1..(n - 1)))
      /\ Cardinality({r} \X (1..(n - 1))) = Cardinality({r}) * Cardinality(1..(n - 1))
  BY <1>2, <1>3, FS_Product
<1> QED
  BY <1>1, <1>2, <1>3, <1>4

(* One set that has grown by one, or not at all.                           *)
LEMMA SettledGrows ==
  ASSUME NEW k \in Counters, NEW x
  PROVE  /\ Settled(k)' = Settled(k) => Cardinality(Settled(k)') = Cardinality(Settled(k))
         /\ Settled(k)' = Settled(k) \union {x} /\ x \notin Settled(k) =>
              Cardinality(Settled(k)') = Cardinality(Settled(k)) + 1
<1>1. IsFiniteSet(Settled(k))
  BY SettledFinite
<1>2. /\ x \notin Settled(k) =>
           Cardinality(Settled(k) \union {x}) = Cardinality(Settled(k)) + 1
  BY <1>1, FS_AddElement
<1> QED
  BY <1>2, Zenon

(* A step counts what it settles.                                          *)
Counts(k) ==
  \E n \in Nat : /\ counters'[k] = counters[k] + n
                 /\ Cardinality(Settled(k)') = Cardinality(Settled(k)) + n

(* A counter that stays where nothing is settled.                          *)
LEMMA SameCounts ==
  ASSUME NEW k \in Counters, counters'[k] = counters[k], counters[k] \in Nat,
         Settled(k)' = Settled(k)
  PROVE  Counts(k)
<1>1. Cardinality(Settled(k)') = Cardinality(Settled(k)) + 0 /\ counters'[k] = counters[k] + 0
  BY SettledGrows, SettledFinite
<1> QED
  BY <1>1 DEF Counts

(* A counter that counts one.                                              *)
LEMMA OneCounts ==
  ASSUME NEW k \in Counters, NEW x, counters'[k] = counters[k] + 1, x \notin Settled(k),
         Settled(k)' = Settled(k) \union {x}
  PROVE  Counts(k)
  BY SettledGrows DEF Counts

(* The variables of the requests that are settled, by name.                *)
LEMMA SettledMeaning ==
  /\ Settled("total") = {q \in Requests : pc[q] # "new"}
  /\ Settled("success") = {q \in Requests : outcome[q] = Good /\ ResultCounted(q)}
  /\ Settled("failed") = {q \in Requests : outcome[q] = Bad /\ ResultCounted(q)}
  /\ Settled("retries") = {p \in Requests \X (1..MaxSendAttempts) :
                             p[2] < attempt[p[1]] /\ RetriesCounted(p[1])}
<1>1. /\ Success = {q \in Requests : outcome[q] = Good /\ ResultCounted(q)}
      /\ Failed = {q \in Requests : outcome[q] = Bad /\ ResultCounted(q)}
  BY HappenedCases DEF Success, Failed
<1>2. Repeated = {p \in Requests \X (1..MaxSendAttempts) :
                    p[2] < attempt[p[1]] /\ RetriesCounted(p[1])}
  BY HappenedCases DEF Repeated
<1> QED
  BY <1>1, <1>2, HappenedCases DEF Total

(* They say the same of the next state.                                    *)
LEMMA SettledNext ==
  /\ Settled("total")' = {q \in Requests : pc'[q] # "new"}
  /\ Settled("success")' = {q \in Requests : outcome'[q] = Good /\ ResultCounted(q)'}
  /\ Settled("failed")' = {q \in Requests : outcome'[q] = Bad /\ ResultCounted(q)'}
  /\ Settled("retries")' = {p \in Requests \X (1..MaxSendAttempts) :
                              p[2] < attempt'[p[1]] /\ RetriesCounted(p[1])'}
<1>1. (/\ Settled("total") = {q \in Requests : pc[q] # "new"}
       /\ Settled("success") = {q \in Requests : outcome[q] = Good /\ ResultCounted(q)}
       /\ Settled("failed") = {q \in Requests : outcome[q] = Bad /\ ResultCounted(q)}
       /\ Settled("retries") = {p \in Requests \X (1..MaxSendAttempts) :
                                  p[2] < attempt[p[1]] /\ RetriesCounted(p[1])})'
  BY SettledMeaning, PTL
<1> QED
  BY <1>1

(* A request that begins is counted at once.                               *)
LEMMA BeginCounts ==
  ASSUME TypeInv, OweInv, NEW r \in Requests, Begin(r)
  PROVE  OweInv' /\ \A k \in Counters : Counts(k)
<1>0. /\ pc \in [Requests -> {"new", "sending", "recording", "ended", "lost"}]
      /\ counters \in [Counters -> Nat]
  BY DEF TypeInv, StatsTypeOK, Snapshot
<1>1. /\ pc[r] = "new" /\ pc' = [pc EXCEPT ![r] = "sending"] /\ Plus("total", 1)
      /\ UNCHANGED <<attempt, todo, outcome>>
  BY DEF Begin
<1>2. /\ counters'["total"] = counters["total"] + 1
      /\ \A k \in Counters \ {"total"} : counters'[k] = counters[k]
  BY <1>1, CounterNames, PlusTypes
<1>3. \A q \in Requests : /\ ResultCounted(q)' <=> ResultCounted(q)
                          /\ RetriesCounted(q)' <=> RetriesCounted(q)
  BY <1>0, <1>1 DEF ResultCounted, RetriesCounted
<1>4. Settled("total")' = Settled("total") \union {r} /\ r \notin Settled("total")
  BY <1>0, <1>1, SettledMeaning, SettledNext
<1>5. Settled("success")' = Settled("success") /\ Settled("failed")' = Settled("failed")
  BY <1>1, <1>3, SettledMeaning, SettledNext
<1>6. Settled("retries")' = Settled("retries")
  BY <1>1, <1>3, SettledMeaning, SettledNext
<1>7. \A k \in Counters \ {"total"} : counters[k] \in Nat /\ Settled(k)' = Settled(k)
  BY <1>0, <1>5, <1>6, CounterNames
<1>8. OweInv'
  BY <1>0, <1>1 DEF OweInv
<1>9. Counts("total")
  BY <1>2, <1>4, OneCounts, CounterNames
<1> QED
  BY <1>2, <1>7, <1>8, <1>9, SameCounts

(* One that ends has a result, which is not counted yet.                   *)
LEMMA RecordsCounts ==
  ASSUME TypeInv, OweInv, NEW r \in Requests, NEW result, NEW additions,
         \/ result = Good /\ additions = SuccessTodo(attempt[r])
         \/ result = Bad /\ additions = FailureTodo(attempt[r]),
         Records(r, result, additions)
  PROVE  OweInv' /\ \A k \in Counters : Counts(k)
<1>0. /\ pc \in [Requests -> {"new", "sending", "recording", "ended", "lost"}]
      /\ counters \in [Counters -> Nat]
      /\ todo \in [Requests -> Seq(Counters \X Nat)]
      /\ outcome \in [Requests -> {Good, Bad, Blank}]
      /\ attempt[r] \in Nat \ {0}
  BY AttemptAssumption DEF TypeInv, StatsTypeOK, Snapshot
<1>1. /\ pc[r] = "sending" /\ pc' = [pc EXCEPT ![r] = "recording"]
      /\ outcome' = [outcome EXCEPT ![r] = result]
      /\ todo' = [todo EXCEPT ![r] = additions]
      /\ UNCHANGED <<counters, attempt>>
  BY DEF Records
<1>2. outcome[r] = Blank /\ todo[r] = <<>> /\ Blank # Good /\ Blank # Bad
  BY <1>1, BlankAssumption, EntryAssumption DEF OweInv, TypeInv, TodoInv
<1>3. additions # <<>> /\ Head(additions)[1] # "retries"
  <2>1. PICK n \in Nat \ {0} : n = attempt[r]
    BY <1>0
  <2>2. additions # <<>> /\ (Head(additions) = <<"success", 1>> \/ Head(additions) = <<"failed", 1>>)
    BY <2>1, Additions
  <2> QED
    BY <2>2
<1>4. ~ResultCounted(r)' /\ ~RetriesCounted(r) /\ ~RetriesCounted(r)'
  BY <1>0, <1>1, <1>3 DEF ResultCounted, RetriesCounted
<1>5. \A q \in Requests \ {r} : /\ ResultCounted(q)' <=> ResultCounted(q)
                                /\ RetriesCounted(q)' <=> RetriesCounted(q)
                                /\ outcome'[q] = outcome[q] /\ pc'[q] = pc[q]
  BY <1>0, <1>1 DEF ResultCounted, RetriesCounted
<1>6. Settled("total")' = Settled("total")
  BY <1>0, <1>1, SettledMeaning, SettledNext
<1>7. \A q \in Requests : /\ outcome'[q] = Good /\ ResultCounted(q)' <=> outcome[q] = Good /\ ResultCounted(q)
                          /\ outcome'[q] = Bad /\ ResultCounted(q)' <=> outcome[q] = Bad /\ ResultCounted(q)
                          /\ RetriesCounted(q)' <=> RetriesCounted(q)
  BY <1>2, <1>4, <1>5
<1>8. Settled("success")' = Settled("success") /\ Settled("failed")' = Settled("failed")
  BY <1>7, SettledMeaning, SettledNext
<1>9. Settled("retries")' = Settled("retries")
  BY <1>1, <1>7, SettledMeaning, SettledNext
<1>10. \A k \in Counters : counters[k] \in Nat /\ Settled(k)' = Settled(k) /\ counters'[k] = counters[k]
  BY <1>0, <1>1, <1>6, <1>8, <1>9, CounterNames
<1>11. OweInv'
  BY <1>0, <1>1 DEF OweInv
<1> QED
  BY <1>10, <1>11, SameCounts

(* One that is retried adds nothing yet, and neither does one that ends.   *)
LEMMA RetryCounts ==
  ASSUME TypeInv, OweInv, NEW r \in Requests, Retry(r) \/ End(r)
  PROVE  OweInv' /\ \A k \in Counters : Counts(k)
<1>0. /\ pc \in [Requests -> {"new", "sending", "recording", "ended", "lost"}]
      /\ counters \in [Counters -> Nat]
      /\ attempt \in [Requests -> 1..MaxSendAttempts]
  BY DEF TypeInv, StatsTypeOK, Snapshot
<1>1. /\ UNCHANGED <<counters, todo, outcome>>
      /\ \A q \in Requests : pc'[q] = "new" <=> pc[q] = "new"
      /\ \A q \in Requests : pc'[q] \in {"new", "sending"} <=> pc[q] \in {"new", "sending"}
  BY <1>0 DEF Retry, End
<1>2. \A q \in Requests : /\ ResultCounted(q)' <=> ResultCounted(q)
                          /\ RetriesCounted(q)' <=> RetriesCounted(q)
  BY <1>1 DEF ResultCounted, RetriesCounted
<1>3. \A q \in Requests : RetriesCounted(q) => attempt'[q] = attempt[q]
  BY <1>0 DEF Retry, End, RetriesCounted
<1>4. Settled("total")' = Settled("total")
  BY <1>1, SettledMeaning, SettledNext
<1>5. Settled("success")' = Settled("success") /\ Settled("failed")' = Settled("failed")
  BY <1>1, <1>2, SettledMeaning, SettledNext
<1>6. Settled("retries")' = Settled("retries")
  BY <1>2, <1>3, SettledMeaning, SettledNext
<1>7. \A k \in Counters : counters[k] \in Nat /\ Settled(k)' = Settled(k) /\ counters'[k] = counters[k]
  BY <1>0, <1>1, <1>4, <1>5, <1>6, CounterNames
<1>8. OweInv'
  <2>1. \A q \in Requests : todo[q] # <<>> => attempt'[q] = attempt[q]
    BY <1>0 DEF Retry, End, TypeInv, TodoInv
  <2>2. \A q \in Requests : pc'[q] = "new" => attempt'[q] = attempt[q]
    BY <1>0 DEF Retry, End
  <2> QED
    BY <1>1, <2>1, <2>2 DEF OweInv
<1> QED
  BY <1>7, <1>8, SameCounts

(* What is added next fits the result and the attempts.                    *)
LEMMA RecordOwes ==
  ASSUME TypeInv, OweInv, NEW r \in Requests, Record(r)
  PROVE  LET name == Head(todo[r])[1]
             n == Head(todo[r])[2]
         IN \/ name = "retries" /\ n = attempt[r] - 1 /\ Tail(todo[r]) = <<>>
            \/ name = "success" /\ n = 1 /\ Tail(todo[r]) = Retries(attempt[r]) /\ outcome[r] = Good
            \/ name = "failed" /\ n = 1 /\ Tail(todo[r]) = Retries(attempt[r]) /\ outcome[r] = Bad
<1>1. attempt[r] \in Nat \ {0} /\ todo[r] # <<>>
  BY AttemptAssumption DEF TypeInv, StatsTypeOK, Record
<1>2. PICK n \in Nat \ {0} : n = attempt[r]
  BY <1>1
<1>3. \/ todo[r] = Retries(n)
      \/ todo[r] = SuccessTodo(n) /\ outcome[r] = Good
      \/ todo[r] = FailureTodo(n) /\ outcome[r] = Bad
  BY <1>1, <1>2 DEF OweInv
<1>4. \/ Head(todo[r]) = <<"retries", n - 1>> /\ Tail(todo[r]) = <<>>
      \/ Head(todo[r]) = <<"success", 1>> /\ Tail(todo[r]) = Retries(n) /\ outcome[r] = Good
      \/ Head(todo[r]) = <<"failed", 1>> /\ Tail(todo[r]) = Retries(n) /\ outcome[r] = Bad
  BY <1>1, <1>3, Additions
<1> QED
  BY <1>2, <1>4

(* One addition of RecordSuccess or RecordFailure.                         *)
LEMMA RecordCounts ==
  ASSUME TypeInv, OweInv, NEW r \in Requests, Record(r)
  PROVE  OweInv' /\ \A k \in Counters : Counts(k)
<1> DEFINE name == Head(todo[r])[1]
           n == Head(todo[r])[2]
<1>0. /\ counters \in [Counters -> Nat]
      /\ todo \in [Requests -> Seq(Counters \X Nat)]
      /\ attempt[r] \in 1..MaxSendAttempts
      /\ name \in Counters /\ n \in Nat
      /\ \A q \in Requests : attempt[q] \in Nat \ {0}
  <2>1. Head(todo[r]) \in Counters \X Nat
    BY RecordAdds
  <2>2. name \in Counters /\ n \in Nat
    BY <2>1
  <2> HIDE DEF name, n
  <2> QED
    BY <2>2, AttemptAssumption DEF TypeInv, StatsTypeOK, Snapshot
<1>1. /\ pc[r] = "recording" /\ todo[r] # <<>> /\ Plus(name, n)
      /\ todo' = [todo EXCEPT ![r] = Tail(@)]
      /\ UNCHANGED <<pc, attempt, outcome>>
  BY DEF Record
<1>2. /\ counters'[name] = counters[name] + n
      /\ \A k \in Counters \ {name} : counters'[k] = counters[k]
  BY <1>0, <1>1, PlusTypes
<1>3. todo'[r] = Tail(todo[r]) /\ \A q \in Requests \ {r} : todo'[q] = todo[q]
  BY <1>0, <1>1
<1>4. \/ name = "retries" /\ n = attempt[r] - 1 /\ Tail(todo[r]) = <<>>
      \/ name = "success" /\ n = 1 /\ Tail(todo[r]) = Retries(attempt[r]) /\ outcome[r] = Good
      \/ name = "failed" /\ n = 1 /\ Tail(todo[r]) = Retries(attempt[r]) /\ outcome[r] = Bad
  BY RecordOwes
<1>5. ResultCounted(r) <=> name = "retries"
  BY <1>1 DEF ResultCounted
<1> HIDE DEF name, n
<1>6. \A q \in Requests \ {r} : /\ ResultCounted(q)' <=> ResultCounted(q)
                                /\ RetriesCounted(q)' <=> RetriesCounted(q)
  BY <1>1, <1>3 DEF ResultCounted, RetriesCounted
<1>7. ~RetriesCounted(r) /\ Good # Bad
  BY <1>1, EntryAssumption DEF RetriesCounted
<1>8. ResultCounted(r)'
  <2>1. CASE Tail(todo[r]) = <<>>
    BY <1>3, <2>1 DEF ResultCounted
  <2>2. CASE Tail(todo[r]) = Retries(attempt[r]) /\ Retries(attempt[r]) # <<>>
    <3>1. PICK m \in Nat \ {0} : m = attempt[r]
      BY <1>0
    <3>2. Head(Retries(m)) = <<"retries", m - 1>>
      BY <2>2, <3>1, Additions
    <3>3. Head(Retries(m))[1] = "retries" /\ todo'[r] = Retries(m)
      BY <1>3, <2>2, <3>1, <3>2
    <3> QED
      BY <3>3, Zenon DEF ResultCounted
  <2> QED
    BY <1>4, <2>1, <2>2
<1>9. OweInv'
  <2>1. todo'[r] = <<>> \/ todo'[r] = Retries(attempt[r])
    BY <1>3, <1>4
  <2> QED
    BY <1>1, <1>3, <2>1 DEF OweInv
<1>10. Settled("total")' = Settled("total")
  BY <1>1, SettledMeaning, SettledNext
<1>11. ASSUME NEW k \in Counters \ {name}, Settled(k)' = Settled(k) PROVE Counts(k)
  BY <1>0, <1>2, <1>11, SameCounts
<1>12. CASE name = "retries" /\ n = attempt[r] - 1 /\ Tail(todo[r]) = <<>>
  <2>1. \A q \in Requests : ResultCounted(q)' <=> ResultCounted(q)
    BY <1>5, <1>6, <1>8, <1>12
  <2>2. Settled("success")' = Settled("success") /\ Settled("failed")' = Settled("failed")
    BY <1>1, <2>1, SettledMeaning, SettledNext
  <2>3. RetriesCounted(r)'
    BY <1>1, <1>3, <1>12 DEF RetriesCounted
  <2> DEFINE own == {r} \X (1..(attempt[r] - 1))
  <2>4. Settled("retries")' = Settled("retries") \union own /\ Settled("retries") \cap own = {}
    <3>1. \A p \in Requests \X (1..MaxSendAttempts) :
            p \in own <=> p[1] = r /\ p[2] < attempt[r]
      <4>1. PICK m \in Nat \ {0} : m = attempt[r]
        BY <1>0
      <4>2. \A i \in 1..MaxSendAttempts : i \in 1..(m - 1) <=> i < m
        BY AttemptAssumption
      <4> QED
        BY <4>1, <4>2
    <3>2. own \subseteq Requests \X (1..MaxSendAttempts)
      <4>1. PICK m \in 1..MaxSendAttempts : m = attempt[r]
        BY <1>0
      <4>2. 1..(m - 1) \subseteq 1..MaxSendAttempts
        BY AttemptAssumption
      <4> QED
        BY <4>1, <4>2
    <3>3. \A p : p \in Requests \X (1..MaxSendAttempts) =>
                   (p[2] < attempt'[p[1]] /\ RetriesCounted(p[1])'
                      <=> (p[2] < attempt[p[1]] /\ RetriesCounted(p[1])) \/ p \in own)
      BY <1>1, <1>6, <1>7, <2>3, <3>1
    <3>4. \A p \in own : ~RetriesCounted(p[1])
      BY <1>7, <3>1, <3>2
    <3> HIDE DEF own
    <3>5. Settled("retries")' = Settled("retries") \union own
      BY <3>2, <3>3, SettledMeaning, SettledNext
    <3>6. Settled("retries") \cap own = {}
      BY <3>4, SettledMeaning
    <3> QED
      BY <3>5, <3>6
  <2>5. IsFiniteSet(own) /\ Cardinality(own) = n
    BY <1>0, <1>12, RetriesOfOne
  <2> HIDE DEF own
  <2>6. IsFiniteSet(Settled("retries")) /\ Cardinality(Settled("retries")) \in Nat
    BY SettledFinite, CounterNames
  <2>7. Cardinality(Settled("retries") \union own) = Cardinality(Settled("retries")) + n
    <3>1. PICK all : all = Settled("retries")
      OBVIOUS
    <3>2. Cardinality(all \union own) = Cardinality(all) + Cardinality(own) - Cardinality(all \cap own)
      BY <2>5, <2>6, <3>1, FS_Union
    <3>3. Cardinality(all \cap own) = 0
      BY <2>4, <3>1, FS_EmptySet
    <3>4. PICK i \in Nat : i = Cardinality(all)
      BY <2>6, <3>1
    <3> QED
      BY <1>0, <2>5, <3>1, <3>2, <3>3, <3>4
  <2>8. Counts("retries")
    BY <1>0, <1>2, <1>12, <2>4, <2>7, Zenon DEF Counts
  <2> QED
    BY <1>9, <1>10, <1>11, <1>12, <2>2, <2>8, CounterNames
<1>13. ASSUME name \in {"success", "failed"}, n = 1, Tail(todo[r]) = Retries(attempt[r])
       PROVE  Settled("retries")' = Settled("retries")
  <2>1. RetriesCounted(r)' => attempt[r] = 1
    <3>1. PICK m \in Nat \ {0} : m = attempt[r]
      BY <1>0
    <3>2. m # 1 => Retries(m) # <<>>
      BY DEF Retries
    <3> QED
      BY <1>3, <1>13, <3>1, <3>2 DEF RetriesCounted
  <2>2. \A p \in Requests \X (1..MaxSendAttempts) :
          p[2] < attempt'[p[1]] /\ RetriesCounted(p[1])'
            <=> p[2] < attempt[p[1]] /\ RetriesCounted(p[1])
    BY <1>1, <1>6, <1>7, <2>1
  <2> QED
    BY <2>2, SettledMeaning, SettledNext
<1>14. CASE name = "success" /\ n = 1 /\ Tail(todo[r]) = Retries(attempt[r]) /\ outcome[r] = Good
  <2>1. ~ResultCounted(r)
    BY <1>5, <1>14
  <2>2. Settled("success")' = Settled("success") \union {r} /\ r \notin Settled("success")
    BY <1>1, <1>6, <1>8, <1>14, <2>1, SettledMeaning, SettledNext
  <2>3. Settled("failed")' = Settled("failed")
    BY <1>1, <1>6, <1>7, <1>14, SettledMeaning, SettledNext
  <2>4. Counts("success")
    BY <1>2, <1>14, <2>2, OneCounts, CounterNames
  <2> QED
    BY <1>9, <1>10, <1>11, <1>13, <1>14, <2>3, <2>4, CounterNames
<1>15. CASE name = "failed" /\ n = 1 /\ Tail(todo[r]) = Retries(attempt[r]) /\ outcome[r] = Bad
  <2>1. ~ResultCounted(r)
    BY <1>5, <1>15
  <2>2. Settled("failed")' = Settled("failed") \union {r} /\ r \notin Settled("failed")
    BY <1>1, <1>6, <1>8, <1>15, <2>1, SettledMeaning, SettledNext
  <2>3. Settled("success")' = Settled("success")
    BY <1>1, <1>6, <1>7, <1>15, SettledMeaning, SettledNext
  <2>4. Counts("failed")
    BY <1>2, <1>15, <2>2, OneCounts, CounterNames
  <2> QED
    BY <1>9, <1>10, <1>11, <1>13, <1>15, <2>3, <2>4, CounterNames
<1> QED
  BY <1>4, <1>12, <1>14, <1>15

(* No counter is ahead of what is settled, in any step of a request.       *)
LEMMA RequestSettles ==
  ASSUME TypeInv, CountInv, NEW r \in Requests,
         Begin(r) \/ Refuse(r) \/ Fail(r) \/ Retry(r) \/ Succeed(r) \/ Record(r) \/ End(r)
  PROVE  CountInv'
<1>1. OweInv' /\ \A k \in Counters : Counts(k)
  <2>1. OweInv
    BY DEF CountInv
  <2>2. CASE Begin(r)
    BY <2>1, <2>2, BeginCounts
  <2>3. CASE Refuse(r) \/ Fail(r)
    BY <2>1, <2>3, RecordsCounts DEF Refuse, Fail
  <2>4. CASE Succeed(r)
    BY <2>1, <2>4, RecordsCounts DEF Succeed
  <2>5. CASE Retry(r) \/ End(r)
    BY <2>1, <2>5, RetryCounts
  <2>6. CASE Record(r)
    BY <2>1, <2>6, RecordCounts
  <2> QED
    BY <2>2, <2>3, <2>4, <2>5, <2>6
<1>2. UNCHANGED <<snapshot, file, starts, phase>> /\ phase # "down"
  <2>1. UNCHANGED <<runnerVars, starts, phase>>
    BY RequestTypes
  <2>2. phase # "down"
    BY DEF Begin, Refuse, Fail, Retry, Succeed, Record, End, Records
  <2> QED
    BY <2>1, <2>2 DEF runnerVars
<1>3. ASSUME NEW k \in Counters
      PROVE  /\ counters'[k] <= Cardinality(Settled(k)')
             /\ snapshot'[k] <= Cardinality(Settled(k)')
             /\ file' \in Snapshot => file'[k] <= Cardinality(Settled(k)')
             /\ starts' = 1 => counters'[k] = Cardinality(Settled(k)')
  <2>1. PICK n \in Nat : /\ counters'[k] = counters[k] + n
                         /\ Cardinality(Settled(k)') = Cardinality(Settled(k)) + n
    BY <1>1 DEF Counts
  <2>2. PICK settled \in Nat : settled = Cardinality(Settled(k))
    BY SettledFinite
  <2>3. counters[k] \in Nat /\ snapshot[k] \in Nat /\ (file \in Snapshot => file[k] \in Nat)
    BY DEF TypeInv, StatsTypeOK, Snapshot
  <2>4. /\ counters[k] <= settled /\ snapshot[k] <= settled
        /\ file \in Snapshot => file[k] <= settled
        /\ starts = 1 => counters[k] = settled
    BY <1>2, <2>2 DEF CountInv
  <2>5. counters[k] + n <= settled + n /\ snapshot[k] <= settled + n
        /\ (file \in Snapshot => file[k] <= settled + n)
        /\ (starts = 1 => counters[k] + n = settled + n)
    BY <2>3, <2>4
  <2> QED
    BY <1>2, <2>1, <2>2, <2>5
<1> QED
  BY <1>1, <1>3 DEF CountInv

(* The runner passes on what is counted.                                   *)
LEMMA RunnerSettles ==
  ASSUME TypeInv, CountInv, UNCHANGED <<requestVars, counters, starts>>,
         phase' # "down" => phase # "down",
         \A k \in Counters : snapshot'[k] \in {snapshot[k], counters[k], 0},
         file' \in {file, snapshot, CutFile}
  PROVE  CountInv'
<1>1. OweInv'
  BY DEF CountInv, OweInv, requestVars
<1>2. ASSUME NEW k \in Counters PROVE Settled(k)' = Settled(k)
  <2>1. \A q \in Requests : /\ ResultCounted(q)' <=> ResultCounted(q)
                            /\ RetriesCounted(q)' <=> RetriesCounted(q)
    BY DEF ResultCounted, RetriesCounted, requestVars
  <2> QED
    BY <2>1, CounterNames, SettledMeaning, SettledNext DEF requestVars
<1>3. ASSUME NEW k \in Counters
      PROVE  /\ counters'[k] <= Cardinality(Settled(k)')
             /\ snapshot'[k] <= Cardinality(Settled(k)')
             /\ file' \in Snapshot => file'[k] <= Cardinality(Settled(k)')
             /\ starts' = 1 /\ phase' # "down" => counters'[k] = Cardinality(Settled(k)')
  <2>1. PICK settled \in Nat : settled = Cardinality(Settled(k)) /\ settled = Cardinality(Settled(k)')
    BY <1>2, SettledFinite
  <2>2. /\ counters[k] <= settled /\ snapshot[k] <= settled
        /\ file \in Snapshot => file[k] <= settled
        /\ starts = 1 /\ phase # "down" => counters[k] = settled
    BY <2>1 DEF CountInv
  <2>3. CutFile \notin Snapshot
    BY FileAssumption
  <2> QED
    BY <2>1, <2>2, <2>3
<1> QED
  BY <1>1, <1>3 DEF CountInv

(* A process that stops knows nothing any more, and what it had not yet    *)
(* counted never will be.                                                  *)
LEMMA StopSettles ==
  ASSUME TypeInv, CountInv, Exit \/ Crash
  PROVE  CountInv'
<1>0. /\ pc \in [Requests -> {"new", "sending", "recording", "ended", "lost"}]
      /\ todo \in [Requests -> Seq(Counters \X Nat)]
  BY DEF TypeInv, StatsTypeOK
<1>1. /\ phase' = "down" /\ counters' = Zero /\ snapshot' = Zero
      /\ UNCHANGED <<attempt, outcome, file>>
  BY DEF Exit, Crash, Stops
<1>2. \A q \in Requests : /\ pc'[q] = pc[q] \/ (pc[q] \in {"sending", "recording"} /\ pc'[q] = "lost")
                          /\ todo'[q] = todo[q] \/ todo'[q] = <<>>
                          /\ pc'[q] = "lost" => todo'[q] = todo[q] \/ todo'[q] = <<>>
  BY <1>0 DEF Exit, Crash, Running
<1>3. OweInv'
  BY <1>1, <1>2 DEF CountInv, OweInv
<1>4. ASSUME NEW k \in Counters PROVE Settled(k) \subseteq Settled(k)'
  <2>1. \A q \in Requests : /\ ResultCounted(q) => ResultCounted(q)'
                            /\ RetriesCounted(q) => RetriesCounted(q)'
    BY <1>2 DEF ResultCounted, RetriesCounted
  <2> QED
    BY <1>1, <1>2, <2>1, CounterNames, SettledMeaning, SettledNext
<1>5. ASSUME NEW k \in Counters
      PROVE  /\ counters'[k] <= Cardinality(Settled(k)')
             /\ snapshot'[k] <= Cardinality(Settled(k)')
             /\ file' \in Snapshot => file'[k] <= Cardinality(Settled(k)')
  <2>1. IsFiniteSet(Settled(k)') /\ Cardinality(Settled(k)') \in Nat
    <3>1. (\A c \in Counters : IsFiniteSet(Settled(c)) /\ Cardinality(Settled(c)) \in Nat)'
      BY AllSettledFinite, PTL
    <3> QED
      BY <3>1
  <2>2. PICK settled, more \in Nat :
          settled = Cardinality(Settled(k)) /\ more = Cardinality(Settled(k)') /\ settled <= more
    BY <1>4, <2>1, SettledFinite, FS_Subset
  <2>3. file \in Snapshot => file[k] \in Nat /\ file[k] <= settled
    BY <2>2 DEF CountInv, Snapshot
  <2>4. counters'[k] = 0 /\ snapshot'[k] = 0
    BY <1>1 DEF Zero
  <2> QED
    BY <1>1, <2>2, <2>3, <2>4
<1> QED
  BY <1>1, <1>3, <1>5 DEF CountInv

(* Nothing has happened, and nothing is counted.                           *)
LEMMA CountInit == StatsInit => CountInv
<1> SUFFICES ASSUME StatsInit PROVE CountInv
  OBVIOUS
<1>1. /\ \A r \in Requests : pc[r] = "new" /\ todo[r] = <<>> /\ outcome[r] = Blank /\ attempt[r] = 1
      /\ counters = Zero /\ snapshot = Zero /\ file = NoFile
  BY DEF StatsInit
<1>2. OweInv
  BY <1>1 DEF OweInv
<1>3. Blank # Good /\ Blank # Bad /\ NoFile \notin Snapshot
  BY BlankAssumption, EntryAssumption, FileAssumption
<1>4. ASSUME NEW k \in Counters PROVE Settled(k) = {}
  <2>1. \A q \in Requests : ~RetriesCounted(q)
    BY <1>1 DEF RetriesCounted
  <2> QED
    BY <1>1, <1>3, <2>1, CounterNames, SettledMeaning
<1>5. ASSUME NEW k \in Counters
      PROVE  Cardinality(Settled(k)) = 0 /\ counters[k] = 0 /\ snapshot[k] = 0
  BY <1>1, <1>4, <1>5, FS_EmptySet DEF Zero
<1> QED
  BY <1>1, <1>2, <1>3, <1>5 DEF CountInv

(* Every step keeps it.                                                    *)
LEMMA CountStep == TypeInv /\ CountInv /\ [StatsNext]_statsVars => CountInv'
<1> SUFFICES ASSUME TypeInv, CountInv, [StatsNext]_statsVars PROVE CountInv'
  OBVIOUS
<1>1. ASSUME NEW r \in Requests,
             Begin(r) \/ Refuse(r) \/ Fail(r) \/ Retry(r) \/ Succeed(r) \/ Record(r) \/ End(r)
      PROVE  CountInv'
  BY <1>1, RequestSettles
<1>2. ASSUME Load(1) \/ (read + 1 \in 1..4 /\ Load(read + 1))
      PROVE  \A k \in Counters : snapshot'[k] \in {snapshot[k], counters[k], 0}
  <2>1. PICK n \in 1..4 : Load(n)
    BY <1>2
  <2>2. /\ snapshot'[Order[n]] = counters[Order[n]]
        /\ \A k \in Counters \ {Order[n]} : snapshot'[k] = snapshot[k]
    BY <2>1, LoadTypes
  <2> QED
    BY <2>2
<1>3. ASSUME NEW last \in BOOLEAN, Save(last) PROVE CountInv'
  <2>1. /\ Load(1) /\ UNCHANGED <<requestVars, counters, starts, phase, file>>
    BY <1>3 DEF Save
  <2> QED
    BY <1>2, <2>1, RunnerSettles
<1>4. CASE Read
  <2>1. /\ Load(read + 1) /\ UNCHANGED <<requestVars, counters, starts, phase, file>> /\ read < 4
    BY <1>4, CounterNames DEF Read
  <2>2. read + 1 \in 1..4
    BY <2>1, CounterNames DEF TypeInv, StatsTypeOK
  <2> QED
    BY <1>2, <2>1, <2>2, RunnerSettles
<1>5. CASE Truncate
  <2>1. /\ file' = CutFile /\ snapshot' = snapshot
        /\ UNCHANGED <<requestVars, counters, starts, phase>>
    BY <1>5 DEF Truncate
  <2> QED
    BY <2>1, RunnerSettles
<1>6. ASSUME SaveFails \/ \E written \in BOOLEAN : Write(written) PROVE CountInv'
  <2>1. /\ snapshot' = Zero /\ file' \in {file, snapshot}
        /\ UNCHANGED <<requestVars, counters, starts, phase>>
    BY <1>6 DEF SaveFails, Write
  <2>2. \A k \in Counters : snapshot'[k] = 0
    BY <2>1 DEF Zero
  <2> QED
    BY <2>1, <2>2, RunnerSettles
<1>7. CASE Signal
  <2>1. /\ UNCHANGED <<requestVars, counters, starts, snapshot, file>> /\ phase # "down"
    BY <1>7 DEF Signal, runnerVars
  <2> QED
    BY <2>1, RunnerSettles
<1>8. CASE Exit \/ Crash
  BY <1>8, StopSettles
<1>9. CASE Start
  <2>1. /\ starts' = starts + 1 /\ starts \in 1..MaxStarts /\ counters' = Restored
        /\ UNCHANGED <<requestVars, snapshot, file>>
    BY <1>9 DEF Start, runnerVars, TypeInv, StatsTypeOK
  <2>2. starts' # 1
    BY <2>1, BoundsAssumption
  <2>3. OweInv'
    BY <2>1 DEF CountInv, OweInv, requestVars
  <2>4. ASSUME NEW k \in Counters PROVE Settled(k)' = Settled(k)
    <3>1. \A q \in Requests : /\ ResultCounted(q)' <=> ResultCounted(q)
                              /\ RetriesCounted(q)' <=> RetriesCounted(q)
      BY <2>1 DEF ResultCounted, RetriesCounted, requestVars
    <3> QED
      BY <2>1, <3>1, CounterNames, SettledMeaning, SettledNext DEF requestVars
  <2>5. ASSUME NEW k \in Counters PROVE Restored[k] <= Cardinality(Settled(k))
    <3>1. Zero[k] = 0 /\ Cardinality(Settled(k)) \in Nat
      BY SettledFinite DEF Zero
    <3>2. file \in Snapshot \union {NoFile, CutFile}
      BY DEF TypeInv, StatsTypeOK
    <3> QED
      BY <3>1, <3>2 DEF Restored, CountInv
  <2> QED
    BY <2>1, <2>2, <2>3, <2>4, <2>5 DEF CountInv
<1>10. CASE UNCHANGED statsVars
  <2>1. UNCHANGED <<requestVars, counters, starts, phase, snapshot, file>>
    BY <1>10 DEF statsVars, runnerVars
  <2> QED
    BY <2>1, RunnerSettles
<1> QED
  BY <1>1, <1>3, <1>4, <1>5, <1>6, <1>7, <1>8, <1>9, <1>10 DEF StatsNext

(* NothingCountedTwice: no counter is ahead of what has happened, whatever *)
(* order the additions of handlers, the loads of a save and the starts of  *)
(* processes come in; and the first process misses nothing.                *)
THEOREM CountsAreExact == StatsSpec => []NothingCountedTwice
<1>1. ASSUME TypeInv, CountInv PROVE NothingCountedTwice
  <2>1. ASSUME NEW k \in Counters
        PROVE  /\ counters[k] <= Cardinality(Happened(k))
               /\ starts = 1 /\ phase # "down" /\ (\A r \in Requests : pc[r] \in {"new", "ended"}) =>
                    counters[k] = Cardinality(Happened(k))
    <3>1. PICK settled \in Nat, happened \in Nat :
            /\ settled = Cardinality(Settled(k)) /\ happened = Cardinality(Happened(k))
            /\ settled <= happened
      BY SettledFinite, FS_CardinalityType
    <3>2. counters[k] \in Nat /\ counters[k] <= settled
      BY <1>1, <3>1 DEF TypeInv, StatsTypeOK, Snapshot, CountInv
    <3>3. ASSUME \A r \in Requests : pc[r] \in {"new", "ended"} PROVE Settled(k) = Happened(k)
      <4>1. \A r \in Requests : todo[r] = <<>>
        BY <1>1, <3>3 DEF TypeInv, TodoInv
      <4>2. \A r \in Requests : ResultCounted(r)
        BY <4>1 DEF ResultCounted
      <4>3. \A r \in Requests : RetriesCounted(r) \/ attempt[r] = 1
        BY <1>1, <3>3, <4>1 DEF RetriesCounted, CountInv, OweInv
      <4>4. Settled("retries") = Happened("retries")
        BY <4>3, SettledMeaning, HappenedCases
      <4> QED
        BY <4>2, <4>4, CounterNames, SettledMeaning, HappenedCases
    <3>4. starts = 1 /\ phase # "down" => counters[k] = settled
      BY <1>1, <3>1 DEF CountInv
    <3> QED
      BY <3>1, <3>2, <3>3, <3>4
  <2> QED
    BY <2>1 DEF NothingCountedTwice
<1> QED
  BY <1>1, TypeInit, TypeStep, CountInit, CountStep, PTL DEF StatsSpec

=============================================================================
