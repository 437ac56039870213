--------------------------- MODULE ThinkingSplitter ---------------------------
(***************************************************************************)
(* The splitter of src/internal/adapters/formatter/shared/thinking.go,     *)
(* which every formatter feeds the text of the answer to, chunk by chunk:  *)
(* it cuts out what stands between the thinking tags.  A tag may be spread *)
(* over chunks, so the last Hold characters are held back until more text  *)
(* has come or the answer has ended.                                       *)
(*                                                                         *)
(* Text is a sequence of characters.  One step of the loop of Feed is one  *)
(* step here: it finds a tag, or it finds none and lets go of what is safe.*)
(***************************************************************************)
EXTENDS Integers, Sequences

CONSTANTS
  OpenTag,    \* "<thinking>"
  CloseTag,   \* "</thinking>"
  Hold        \* 15 in the code

(* The code holds back 15 characters, and its longer tag has 11.           *)
ASSUME TagAssumption ==
  /\ OpenTag \in Seq(STRING) /\ CloseTag \in Seq(STRING)
  /\ Len(OpenTag) > 0 /\ Len(CloseTag) > 0
  /\ Hold \in Nat /\ Hold + 1 >= Len(OpenTag) /\ Hold + 1 >= Len(CloseTag)

VARIABLES
  buffer,      \* text that is neither out nor known to be a tag
  inThinking   \* the next tag is a closing one

splitterVars == <<buffer, inThinking>>

SplitterTypeOK == buffer \in Seq(STRING) /\ inThinking \in BOOLEAN

SplitterInit == buffer = <<>> /\ inThinking = FALSE

-----------------------------------------------------------------------------
StartsAt(tag, s, i) ==
  /\ i + Len(tag) - 1 <= Len(s)
  /\ \A j \in 1..Len(tag) : s[i + j - 1] = tag[j]

Occurs(tag, s) == \E i \in 1..Len(s) : StartsAt(tag, s, i)

(* strings.Index(s, tag) >= 0: where tag occurs first.                     *)
FirstAt(tag, s, i) ==
  /\ i \in 1..Len(s)
  /\ StartsAt(tag, s, i)
  /\ \A j \in 1..(i - 1) : ~StartsAt(tag, s, j)

Tag == IF inThinking THEN CloseTag ELSE OpenTag

(* Mutant: one character too few is held back.                             *)
KeptOneLess(flush) == IF flush THEN 0 ELSE IF Len(buffer) < Hold THEN Len(buffer) ELSE Hold - 1

(* Mutant: one character too many.                                         *)
KeptOneMore(flush) ==
  IF flush THEN 0 ELSE IF Len(buffer) <= Hold + 1 THEN Len(buffer) ELSE Hold + 1

(* splitSafePrefix: how much of the buffer is kept.                        *)
Kept(flush) == IF flush THEN 0 ELSE IF Len(buffer) <= Hold THEN Len(buffer) ELSE Hold

(* What the chunk of a call of Feed is appended to.                        *)
FeedChunk(chunk) ==
  /\ buffer' = buffer \o chunk
  /\ UNCHANGED inThinking

(* The loop finds the tag it looks for at i, and goes on after it with the *)
(* other one.  The segment before it is SubSeq(buffer, 1, i - 1).          *)
CutTag(i) ==
  /\ FirstAt(Tag, buffer, i)
  /\ buffer' = SubSeq(buffer, i + Len(Tag), Len(buffer))
  /\ inThinking' = ~inThinking

(* The loop finds none, lets go of what is safe, and Feed returns.         *)
KeepRest(flush) ==
  /\ ~Occurs(Tag, buffer)
  /\ buffer' = SubSeq(buffer, Len(buffer) - Kept(flush) + 1, Len(buffer))
  /\ UNCHANGED inThinking

Safe(flush) == SubSeq(buffer, 1, Len(buffer) - Kept(flush))

=============================================================================
