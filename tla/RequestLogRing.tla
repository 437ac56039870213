--------------------------- MODULE RequestLogRing ---------------------------
(***************************************************************************)
(* The request log: stats.RequestLogRing of                                *)
(* src/internal/application/stats/request_logs.go, a fixed array that      *)
(* wraps around.  Add and Query run under a lock, so each is atomic.       *)
(*                                                                         *)
(* An entry is what one filter field sees of it; the eleven filter fields  *)
(* of a query all work alike, and one stands for them.                     *)
(***************************************************************************)
EXTENDS Integers, Sequences, SequencesExt

CONSTANTS
  Size,      \* slots of the ring
  Entry,     \* what the filter tells apart
  Blank,     \* a slot never written
  Unset,     \* the filter that is not set
  Bounds     \* bound: the offsets and limits of queries

ASSUME SizeAssumption == Size \in Nat \ {0}
ASSUME BlankAssumption == Blank \notin Entry /\ Unset \notin Entry
ASSUME BoundAssumption == Bounds \subseteq Int

VARIABLES
  entries,   \* r.entries
  head,      \* r.head, the slot written next
  count      \* r.count

vars == <<entries, head, count>>

Init ==
  /\ entries = [i \in 0..(Size - 1) |-> Blank]
  /\ head = 0
  /\ count = 0

(* The process has been restarted: NewRequestLogRing.                      *)
Renew ==
  /\ entries' = [i \in 0..(Size - 1) |-> Blank]
  /\ head' = 0
  /\ count' = 0

(* Mutant: the count goes on after the first wrap.                         *)
AddUnbounded(e) ==
  /\ entries' = [entries EXCEPT ![head] = e]
  /\ head' = (head + 1) % Size
  /\ count' = IF head < Size THEN count + 1 ELSE count

(* Mutant: the last slot is written over and over.                         *)
AddUnwrapped(e) ==
  /\ entries' = [entries EXCEPT ![head] = e]
  /\ head' = IF head + 1 < Size THEN head + 1 ELSE head
  /\ count' = IF count < Size THEN count + 1 ELSE count

Add(e) ==
  /\ entries' = [entries EXCEPT ![head] = e]
  /\ head' = (head + 1) % Size
  /\ count' = IF count < Size THEN count + 1 ELSE count

Next == (\E e \in Entry : Add(e)) \/ Renew

Spec == Init /\ [][Next]_vars

-----------------------------------------------------------------------------
(* Query.                                                                  *)

Matches(entry, filter) == filter = Unset \/ entry = filter

(* Mutant: the slot that the next Add overwrites comes first.              *)
SlotAhead(i) == (head - i + Size) % Size

Slot(i) == (head - 1 - i + Size) % Size

(* One turn of the loop, for the slot i back from the newest one.  Full,   *)
(* the result stays as it is: the loop has been left.                      *)
Turn(filter, offset, limit, at, i) ==
  LET entry == entries[Slot(i)]
  IN IF ~Matches(entry, filter) \/ Len(at.result) >= limit THEN at
     ELSE IF at.skipped < offset THEN [at EXCEPT !.skipped = @ + 1]
     ELSE [at EXCEPT !.result = Append(@, entry)]

Query(filter, queryOffset, queryLimit) ==
  LET limit == IF queryLimit <= 0 \/ queryLimit > count THEN count ELSE queryLimit
      offset == IF queryOffset < 0 THEN 0 ELSE queryOffset
      Loop[i \in 0..count] ==
        IF i = 0 THEN [result |-> <<>>, skipped |-> 0]
        ELSE Turn(filter, offset, limit, Loop[i - 1], i - 1)
  IN Loop[count].result

-----------------------------------------------------------------------------
(* The entries kept, oldest first.                                         *)
Kept == [i \in 1..count |-> entries[(head - count + i - 1 + Size) % Size]]

Log == INSTANCE BoundedLog WITH log <- Kept

(* The positions stay inside the array, and a slot is blank exactly when   *)
(* no Add has reached it: until the ring is full, those from head on.      *)
TypeOK ==
  /\ entries \in [0..(Size - 1) -> Entry \union {Blank}]
  /\ head \in 0..(Size - 1)
  /\ count \in 0..Size
  /\ \A i \in 0..(Size - 1) : entries[i] = Blank <=> (count < Size /\ i >= head)

(* The wrapping array behaves like the sequence of the last Size entries:  *)
(* an Add forgets the oldest entry, only once the ring is full, and none   *)
(* other; but a restart forgets them all.                                  *)
KeepsTheLatest == Log!LogSpec

(* Every query, with any filter, offset and limit, negative and oversized  *)
(* ones included, answers with the page it asks for: no blank slot, no     *)
(* entry twice, none left out.                                             *)
QueriesAnswerPages ==
  \A filter \in Entry \union {Unset} :
    LET found == Log!Found({entry \in Entry : Matches(entry, filter)})
    IN \A offset, limit \in Bounds :
         Query(filter, offset, limit) = Log!Page(found, offset, limit)
=============================================================================
