----------------------------- MODULE BoundedLog -----------------------------
(***************************************************************************)
(* What the request log promises: the last Size entries, oldest first.     *)
(***************************************************************************)
EXTENDS Naturals, SequencesExt, Selection

CONSTANTS Size, Entry

VARIABLE log

LogInit == log = <<>>

Append1(e) ==
  log' = IF Len(log) < Size THEN Append(log, e) ELSE Append(Tail(log), e)

(* The log is kept in memory only: a restart forgets it.                   *)
Forget == log' = <<>>

LogNext == (\E e \in Entry : Append1(e)) \/ Forget

LogSpec == LogInit /\ [][LogNext]_log

-----------------------------------------------------------------------------
(* What a query finds of the entries wanted, the newest first; and the     *)
(* page of that.  Limits of zero and less mean no limit, and negative      *)
(* offsets none.                                                           *)
Found(wanted) == Selected(Reverse(log), wanted)

Page(found, offset, limit) ==
  LET first == IF offset < 0 THEN 1 ELSE offset + 1
      last == IF limit <= 0 \/ first + limit - 1 > Len(found)
              THEN Len(found) ELSE first + limit - 1
  IN SubSeq(found, first, last)
=============================================================================
