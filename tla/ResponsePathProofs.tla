-------------------------- MODULE ResponsePathProofs ---------------------------
(***************************************************************************)
(* Proofs about ResponsePath, for any tags, scripts of frames and results  *)
(* of a search.                                                            *)
(*                                                                         *)
(* First comes what the formatters write, for every sequence of events, as *)
(* lemmas about the operators of AnthropicFormatter, OpenAIFormatter and   *)
(* WebSearch.  Then PathInv, the inductive invariant: it says, for each    *)
(* place where a request may be, what has been sent, reported and found    *)
(* wrong by then.                                                          *)
(*                                                                         *)
(* The second half is about what is said, not about its form.  Scan reads  *)
(* a text character by character, as the splitter does chunk by chunk; the *)
(* splitter is shown to agree with it, and each form of answer to tell     *)
(* what its formatter was given.  AnswerInv, inductive given PathInv, puts *)
(* the two together: until something goes wrong, the client has been told  *)
(* every call, and the text up to what the splitter keeps.  TaleInv adds   *)
(* how the client tells the calls apart and what names it gets, as the     *)
(* history of the frames has it.                                           *)
(***************************************************************************)
EXTENDS ResponsePath, SequenceLemmas

-----------------------------------------------------------------------------
(* The protocol of content blocks.                                         *)

WellFormed(sent) ==
  \A p \in DOMAIN sent : FollowsProtocol(SubSeq(sent, 1, p - 1), sent[p])

Unanswered(sent) == \A p \in DOMAIN sent : sent[p].type \notin Final

(* BlocksWellFormed is about what has been sent.                           *)
LEMMA BlocksMeaning == BlocksWellFormed <=> (IsBlockStream => WellFormed(f.sent))
  BY DEF BlocksWellFormed, WellFormed

(* What breaks off follows the protocol as far as it came.                 *)
LEMMA PrefixWellFormed ==
  ASSUME NEW s, IsSeq(s), WellFormed(s), NEW n \in 0..Len(s)
  PROVE  WellFormed(SubSeq(s, 1, n))
<1> DEFINE q == SubSeq(s, 1, n)
<1> SUFFICES ASSUME NEW p \in DOMAIN q PROVE FollowsProtocol(SubSeq(q, 1, p - 1), q[p])
  BY DEF WellFormed
<1>1. p \in 1..n /\ p - 1 \in 0..n /\ q[p] = s[p] /\ DOMAIN s = 1..Len(s)
  BY PrefixFacts, AppendFacts
<1>2. SubSeq(q, 1, p - 1) = SubSeq(s, 1, p - 1)
  BY <1>1, PrefixFacts
<1>3. p \in DOMAIN s
  BY <1>1, AppendFacts
<1> HIDE DEF q
<1> QED
  BY <1>1, <1>2, <1>3 DEF WellFormed

(* One event more follows it if it fits what was sent before.              *)
LEMMA AppendWellFormed ==
  ASSUME NEW s, IsSeq(s), WellFormed(s), NEW e, FollowsProtocol(s, e)
  PROVE  WellFormed(Append(s, e))
<1> DEFINE t == Append(s, e)
<1> SUFFICES ASSUME NEW p \in DOMAIN t PROVE FollowsProtocol(SubSeq(t, 1, p - 1), t[p])
  BY DEF WellFormed
<1>1. Len(s) \in Nat /\ DOMAIN s = 1..Len(s) /\ p \in 1..(Len(s) + 1)
  BY AppendFacts
<1>2. p - 1 \in 0..Len(s)
  BY <1>1
<1>3. SubSeq(t, 1, p - 1) = SubSeq(s, 1, p - 1)
  BY <1>2, AppendPrefix
<1>4. CASE p \in 1..Len(s)
  <2>1. t[p] = s[p]
    BY <1>4, AppendFacts
  <2> QED
    BY <1>1, <1>3, <1>4, <2>1 DEF WellFormed
<1>5. CASE p = Len(s) + 1
  <2>1. t[p] = e
    BY <1>5, AppendFacts
  <2>2. SubSeq(s, 1, p - 1) = s
    BY <1>1, <1>5, WholePrefix
  <2> QED
    BY <1>3, <2>1, <2>2
<1> QED
  BY <1>1, <1>4, <1>5

(* The indexes of one event more.                                          *)
LEMMA AppendIndexes ==
  ASSUME NEW s, IsSeq(s), NEW e, NEW type
  PROVE  Indexes(Append(s, e), type)
           = Indexes(s, type) \union (IF e.type = type THEN {e.index} ELSE {})
<1> DEFINE t == Append(s, e)
<1>1. /\ Len(s) \in Nat /\ DOMAIN s = 1..Len(s) /\ DOMAIN t = 1..(Len(s) + 1)
      /\ t[Len(s) + 1] = e /\ \A i \in 1..Len(s) : t[i] = s[i]
  BY AppendFacts
<1> HIDE DEF t
<1>2. Indexes(t, type) = Indexes(s, type) \union (IF e.type = type THEN {e.index} ELSE {})
  <2>1. ASSUME NEW i, i \in Indexes(t, type)
        PROVE  i \in Indexes(s, type) \union (IF e.type = type THEN {e.index} ELSE {})
    <3>1. PICK p \in DOMAIN t : t[p].type = type /\ i = t[p].index
      BY <2>1 DEF Indexes
    <3> QED
      BY <1>1, <3>1 DEF Indexes
  <2>2. ASSUME NEW i, i \in Indexes(s, type) PROVE i \in Indexes(t, type)
    <3>1. PICK p \in DOMAIN s : s[p].type = type /\ i = s[p].index
      BY <2>2 DEF Indexes
    <3>2. p \in DOMAIN t /\ t[p] = s[p]
      BY <1>1, <3>1
    <3> QED
      BY <3>1, <3>2 DEF Indexes
  <2>3. ASSUME e.type = type PROVE e.index \in Indexes(t, type)
    <3>1. Len(s) + 1 \in DOMAIN t
      BY <1>1
    <3> QED
      BY <1>1, <2>3, <3>1 DEF Indexes
  <2> QED
    BY <2>1, <2>2, <2>3
<1> QED
  BY <1>2 DEF t

(* An event counts for its own type only.                                  *)
LEMMA EventIndexes ==
  ASSUME NEW s, IsSeq(s), NEW e, NEW type
  PROVE  /\ e.type = type => Indexes(Append(s, e), type) = Indexes(s, type) \union {e.index}
         /\ e.type # type => Indexes(Append(s, e), type) = Indexes(s, type)
<1>1. Indexes(Append(s, e), type)
        = Indexes(s, type) \union (IF e.type = type THEN {e.index} ELSE {})
  BY AppendIndexes
<1> QED
  BY <1>1

(* Nothing sent, nothing wrong.                                            *)
LEMMA EmptySent == IsSeq(<<>>) /\ WellFormed(<<>>) /\ Unanswered(<<>>) /\ DOMAIN <<>> = {}
  BY DEF IsSeq, WellFormed, Unanswered

(* One event that does not answer.                                         *)
LEMMA AppendUnanswered ==
  ASSUME NEW s, IsSeq(s), Unanswered(s), NEW e, e.type \notin Final
  PROVE  Unanswered(Append(s, e))
<1>1. /\ Len(s) \in Nat /\ DOMAIN s = 1..Len(s) /\ DOMAIN Append(s, e) = 1..(Len(s) + 1)
      /\ Append(s, e)[Len(s) + 1] = e /\ \A i \in 1..Len(s) : Append(s, e)[i] = s[i]
  BY AppendFacts
<1> QED
  BY <1>1 DEF Unanswered

-----------------------------------------------------------------------------
(* What has been sent of a stream of blocks: b is the last index that was  *)
(* used, and the blocks of live are open.                                  *)

Core(sent, b, live) ==
  /\ IsSeq(sent) /\ WellFormed(sent) /\ Unanswered(sent)
  /\ b \in Int /\ b >= -1
  /\ Indexes(sent, "content_block_start") = 0..b
  /\ Indexes(sent, "content_block_stop") \subseteq 0..b
  /\ OpenBlocks(sent) = live

(* The next block is opened.                                               *)
LEMMA CoreStart ==
  ASSUME NEW s, NEW b, NEW live, Core(s, b, live), NEW kind, NEW data
  PROVE  Core(Append(s, A!Event("content_block_start", b + 1, kind, data)),
              b + 1, live \union {b + 1})
<1> DEFINE e == A!Event("content_block_start", b + 1, kind, data)
           g == Append(s, e)
<1>1. e.type = "content_block_start" /\ e.index = b + 1
  BY DEF A!Event
<1> HIDE DEF e
<1>2. /\ Indexes(g, "content_block_start") = (0..b) \union {b + 1}
      /\ Indexes(g, "content_block_stop") = Indexes(s, "content_block_stop")
  <2>1. IsSeq(s)
    BY DEF Core
  <2>2. e.type # "content_block_stop"
    BY <1>1
  <2> QED
    BY <1>1, <2>1, <2>2, EventIndexes DEF Core
<1>3. b \in Int /\ b >= -1 /\ (0..b) \union {b + 1} = 0..(b + 1)
  BY DEF Core
<1>4. OpenBlocks(g) = live \union {b + 1}
  BY <1>2, <1>3 DEF Core, OpenBlocks
<1>5. FollowsProtocol(s, e)
  BY <1>1, <1>3 DEF FollowsProtocol, Core
<1>6. IsSeq(g) /\ WellFormed(g)
  BY <1>5, AppendFacts, AppendWellFormed DEF Core
<1>7. Unanswered(g)
  BY <1>1, AppendUnanswered DEF Core, Final
<1>8. Indexes(g, "content_block_stop") \subseteq 0..(b + 1)
  BY <1>2, <1>3 DEF Core
<1> HIDE DEF g
<1>9. Indexes(g, "content_block_start") = 0..(b + 1)
  BY <1>2, <1>3
<1>10. b + 1 \in Int /\ b + 1 >= -1
  BY <1>3
<1>11. Core(g, b + 1, live \union {b + 1})
  BY <1>4, <1>6, <1>7, <1>8, <1>9, <1>10, Zenon DEF Core
<1> QED
  BY <1>11 DEF g, e

(* An open block is written to.                                            *)
LEMMA CoreDelta ==
  ASSUME NEW s, NEW b, NEW live, Core(s, b, live), NEW i \in live, NEW kind, NEW data
  PROVE  Core(Append(s, A!Event("content_block_delta", i, kind, data)), b, live)
<1> DEFINE e == A!Event("content_block_delta", i, kind, data)
           g == Append(s, e)
<1>1. e.type = "content_block_delta" /\ e.index = i
  BY DEF A!Event
<1> HIDE DEF e
<1>2. /\ Indexes(g, "content_block_start") = Indexes(s, "content_block_start")
      /\ Indexes(g, "content_block_stop") = Indexes(s, "content_block_stop")
  <2>1. IsSeq(s)
    BY DEF Core
  <2>2. e.type # "content_block_start" /\ e.type # "content_block_stop"
    BY <1>1
  <2> QED
    BY <1>1, <2>1, <2>2, EventIndexes DEF Core
<1>3. OpenBlocks(g) = live
  BY <1>2 DEF Core, OpenBlocks
<1>4. FollowsProtocol(s, e)
  BY <1>1 DEF FollowsProtocol, Core
<1>5. IsSeq(g) /\ WellFormed(g)
  BY <1>4, AppendFacts, AppendWellFormed DEF Core
<1>6. Unanswered(g)
  BY <1>1, AppendUnanswered DEF Core, Final
<1> HIDE DEF g
<1>7. Core(g, b, live)
  BY <1>2, <1>3, <1>5, <1>6 DEF Core
<1> QED
  BY <1>7 DEF g, e

(* An open block is closed.                                                *)
LEMMA CoreStop ==
  ASSUME NEW s, NEW b, NEW live, Core(s, b, live), NEW i \in live, NEW kind, NEW data
  PROVE  Core(Append(s, A!Event("content_block_stop", i, kind, data)), b, live \ {i})
<1> DEFINE e == A!Event("content_block_stop", i, kind, data)
           g == Append(s, e)
<1>1. e.type = "content_block_stop" /\ e.index = i
  BY DEF A!Event
<1> HIDE DEF e
<1>2. /\ Indexes(g, "content_block_start") = Indexes(s, "content_block_start")
      /\ Indexes(g, "content_block_stop") = Indexes(s, "content_block_stop") \union {i}
  <2>1. IsSeq(s)
    BY DEF Core
  <2>2. e.type # "content_block_start"
    BY <1>1
  <2> QED
    BY <1>1, <2>1, <2>2, EventIndexes DEF Core
<1>3. OpenBlocks(g) = live \ {i}
  BY <1>2 DEF Core, OpenBlocks
<1>4. FollowsProtocol(s, e)
  BY <1>1 DEF FollowsProtocol, Core
<1>5. IsSeq(g) /\ WellFormed(g)
  BY <1>4, AppendFacts, AppendWellFormed DEF Core
<1>6. Unanswered(g)
  BY <1>1, AppendUnanswered DEF Core, Final
<1>7. i \in 0..b
  BY DEF Core, OpenBlocks
<1> HIDE DEF g
<1>8. Core(g, b, live \ {i})
  BY <1>2, <1>3, <1>5, <1>6, <1>7 DEF Core
<1> QED
  BY <1>8 DEF g, e

(* When no block is open the message can be ended.                         *)
LEMMA CoreEnds ==
  ASSUME NEW s, NEW b, Core(s, b, {}), NEW tokens, NEW reason
  PROVE  LET g == Append(Append(s, A!Event("message_delta", tokens, reason, <<>>)),
                         A!Event("message_stop", -1, "none", <<>>))
         IN IsSeq(g) /\ WellFormed(g) /\ Len(g) > 0 /\ g[Len(g)].type = "message_stop"
<1> DEFINE d == A!Event("message_delta", tokens, reason, <<>>)
           e == A!Event("message_stop", -1, "none", <<>>)
           h == Append(s, d)
           g == Append(h, e)
<1>1. d.type = "message_delta" /\ e.type = "message_stop"
  BY DEF A!Event
<1> HIDE DEF d, e
<1>2. OpenBlocks(s) = {} /\ IsSeq(s) /\ WellFormed(s)
  BY DEF Core
<1>3. FollowsProtocol(s, d)
  BY <1>1, <1>2 DEF FollowsProtocol
<1>4. IsSeq(h) /\ WellFormed(h)
  BY <1>2, <1>3, AppendFacts, AppendWellFormed
<1>5. OpenBlocks(h) = {}
  BY <1>1, <1>2, EventIndexes DEF OpenBlocks
<1> HIDE DEF h
<1>6. FollowsProtocol(h, e)
  BY <1>1, <1>5 DEF FollowsProtocol
<1>7. IsSeq(g) /\ WellFormed(g) /\ Len(h) \in Nat /\ Len(g) = Len(h) + 1 /\ g[Len(h) + 1] = e
  BY <1>4, <1>6, AppendFacts, AppendWellFormed
<1> HIDE DEF g
<1>8. IsSeq(g) /\ WellFormed(g) /\ Len(g) > 0 /\ g[Len(g)].type = "message_stop"
  BY <1>1, <1>7
<1> QED
  BY <1>8 DEF g, h, d, e

-----------------------------------------------------------------------------
(* The variables of the Anthropic FormatStream, as a record.               *)

Rec(s, b, t, k, m, u) ==
  [sent |-> s, blockIndex |-> b, activeText |-> t, activeThinking |-> k,
   toolBlocks |-> m, hasToolUse |-> u]

(* The fields of the record.                                               *)
LEMMA RecFields ==
  ASSUME NEW s, NEW b, NEW t, NEW k, NEW m, NEW u
  PROVE  /\ Rec(s, b, t, k, m, u).sent = s /\ Rec(s, b, t, k, m, u).blockIndex = b
         /\ Rec(s, b, t, k, m, u).activeText = t /\ Rec(s, b, t, k, m, u).activeThinking = k
         /\ Rec(s, b, t, k, m, u).toolBlocks = m /\ Rec(s, b, t, k, m, u).hasToolUse = u
         /\ "sent" \in DOMAIN Rec(s, b, t, k, m, u)
  BY DEF Rec

(* One event more.                                                         *)
LEMMA RecWrite ==
  ASSUME NEW s, NEW b, NEW t, NEW k, NEW m, NEW u, NEW e
  PROVE  A!Write(Rec(s, b, t, k, m, u), e) = Rec(Append(s, e), b, t, k, m, u)
  BY DEF A!Write, Rec

(* The text block is closed, if there is one.                              *)
LEMMA CloseTextEffect ==
  ASSUME NEW s, NEW b, NEW t, NEW k, NEW m, NEW u
  PROVE  A!CloseText(Rec(s, b, t, k, m, u)) =
           IF t < 0 THEN Rec(s, b, t, k, m, u)
           ELSE Rec(Append(s, A!Event("content_block_stop", t, "text", <<>>)), b, -1, k, m, u)
<1> DEFINE r == Rec(s, b, t, k, m, u)
           e == A!Event("content_block_stop", t, "text", <<>>)
           q == Rec(Append(s, e), b, t, k, m, u)
           p == Rec(Append(s, e), b, -1, k, m, u)
<1>1. r.activeText = t
  BY RecFields
<1>2. A!Write(r, e) = q
  BY RecWrite
<1>3. [q EXCEPT !.activeText = -1] = p
  BY DEF Rec
<1> HIDE DEF r, q, p, e
<1>4. A!CloseText(r) = IF t < 0 THEN r ELSE p
  BY <1>1, <1>2, <1>3, Zenon DEF A!CloseText, e
<1> QED
  BY <1>4 DEF r, p, e

(* The thinking block is closed, if there is one.                          *)
LEMMA CloseThinkingEffect ==
  ASSUME NEW s, NEW b, NEW t, NEW k, NEW m, NEW u
  PROVE  A!CloseThinking(Rec(s, b, t, k, m, u)) =
           IF k < 0 THEN Rec(s, b, t, k, m, u)
           ELSE Rec(Append(s, A!Event("content_block_stop", k, "thinking", <<>>)), b, t, -1, m, u)
<1> DEFINE r == Rec(s, b, t, k, m, u)
           e == A!Event("content_block_stop", k, "thinking", <<>>)
           q == Rec(Append(s, e), b, t, k, m, u)
           p == Rec(Append(s, e), b, t, -1, m, u)
<1>1. r.activeThinking = k
  BY RecFields
<1>2. A!Write(r, e) = q
  BY RecWrite
<1>3. [q EXCEPT !.activeThinking = -1] = p
  BY DEF Rec
<1> HIDE DEF r, q, p, e
<1>4. A!CloseThinking(r) = IF k < 0 THEN r ELSE p
  BY <1>1, <1>2, <1>3, Zenon DEF A!CloseThinking, e
<1> QED
  BY <1>4 DEF r, p, e

(* A text block is opened, unless there is one.                            *)
LEMMA OpenTextEffect ==
  ASSUME NEW s, NEW b, NEW t, NEW k, NEW m, NEW u
  PROVE  A!OpenText(Rec(s, b, t, k, m, u)) =
           IF t >= 0 THEN Rec(s, b, t, k, m, u)
           ELSE Rec(Append(s, A!Event("content_block_start", b + 1, "text", <<>>)),
                    b + 1, b + 1, k, m, u)
<1>0. PICK i : i = b + 1
  OBVIOUS
<1> DEFINE r == Rec(s, b, t, k, m, u)
           e == A!Event("content_block_start", i, "text", <<>>)
           q == Rec(Append(s, e), b, t, k, m, u)
           o == Rec(Append(s, e), i, t, k, m, u)
           p == Rec(Append(s, e), i, i, k, m, u)
<1>1. r.activeText = t /\ r.blockIndex = b
  BY RecFields
<1>2. A!Write(r, e) = q
  BY RecWrite
<1>3. q.blockIndex = b
  BY RecFields
<1>4. [q EXCEPT !.blockIndex = i] = o
  BY DEF Rec
<1>5. [o EXCEPT !.activeText = i] = p
  BY SMTT(30) DEF Rec
<1> HIDE DEF r, q, p, o, e
<1>6. [q EXCEPT !.blockIndex = @ + 1, !.activeText = i] = p
  BY <1>0, <1>3, <1>4, <1>5, Zenon
<1>7. A!OpenText(r) = IF t >= 0 THEN r ELSE p
  BY <1>0, <1>1, <1>2, <1>6, Zenon DEF A!OpenText, e
<1> QED
  BY <1>0, <1>7, Zenon DEF r, p, e

(* A thinking block is opened, unless there is one.                        *)
LEMMA OpenThinkingEffect ==
  ASSUME NEW s, NEW b, NEW t, NEW k, NEW m, NEW u
  PROVE  A!OpenThinking(Rec(s, b, t, k, m, u)) =
           IF k >= 0 THEN Rec(s, b, t, k, m, u)
           ELSE Rec(Append(s, A!Event("content_block_start", b + 1, "thinking", <<>>)),
                    b + 1, t, b + 1, m, u)
<1>0. PICK i : i = b + 1
  OBVIOUS
<1> DEFINE r == Rec(s, b, t, k, m, u)
           e == A!Event("content_block_start", i, "thinking", <<>>)
           q == Rec(Append(s, e), b, t, k, m, u)
           o == Rec(Append(s, e), i, t, k, m, u)
           p == Rec(Append(s, e), i, t, i, m, u)
<1>1. r.activeThinking = k /\ r.blockIndex = b
  BY RecFields
<1>2. A!Write(r, e) = q
  BY RecWrite
<1>3. q.blockIndex = b
  BY RecFields
<1>4. [q EXCEPT !.blockIndex = i] = o
  BY DEF Rec
<1>5. [o EXCEPT !.activeThinking = i] = p
  BY DEF Rec
<1> HIDE DEF r, q, p, o, e
<1>6. [q EXCEPT !.blockIndex = @ + 1, !.activeThinking = i] = p
  BY <1>0, <1>3, <1>4, <1>5, Zenon
<1>7. A!OpenThinking(r) = IF k >= 0 THEN r ELSE p
  BY <1>0, <1>1, <1>2, <1>6, Zenon DEF A!OpenThinking, e
<1> QED
  BY <1>0, <1>7, Zenon DEF r, p, e

(* The block of a tool call is opened by its first event e, and n is what  *)
(* is known of the blocks then.                                            *)
OpensTool(s, b, t, k, m, u, c, e, n) ==
  /\ e = A!Event("content_block_start", b + 1, "tool_use", <<c.id, c.name>>)
  /\ n = [id \in DOMAIN m \union {c.id} |-> IF id = c.id THEN b + 1 ELSE m[id]]
  /\ c.id \in DOMAIN m => A!OpenTool(Rec(s, b, t, k, m, u), c) = Rec(s, b, t, k, m, u)
  /\ c.id \notin DOMAIN m =>
       A!OpenTool(Rec(s, b, t, k, m, u), c) = Rec(Append(s, e), b + 1, t, k, n, u)

(* The first event of a call opens its block.                              *)
LEMMA OpenToolEffect ==
  ASSUME NEW s, NEW b, NEW t, NEW k, NEW m, NEW u, NEW c
  PROVE  \E e, n : OpensTool(s, b, t, k, m, u, c, e, n)
<1>0. PICK i : i = b + 1
  OBVIOUS
<1> DEFINE r == Rec(s, b, t, k, m, u)
           e == A!Event("content_block_start", i, "tool_use", <<c.id, c.name>>)
           n == [id \in DOMAIN m \union {c.id} |-> IF id = c.id THEN i ELSE m[id]]
           q == Rec(Append(s, e), b, t, k, m, u)
           o == Rec(Append(s, e), i, t, k, m, u)
           p == Rec(Append(s, e), i, t, k, n, u)
<1>1. r.toolBlocks = m /\ r.blockIndex = b
  BY RecFields
<1>2. A!Write(r, e) = q
  BY RecWrite
<1> HIDE DEF e, n
<1>3. q.blockIndex = b
  BY RecFields
<1>4. [q EXCEPT !.blockIndex = i] = o
  BY DEF Rec
<1>5. o.toolBlocks = m
  BY RecFields
<1>6. [o EXCEPT !.toolBlocks = n] = p
  BY DEF Rec
<1> HIDE DEF r, q, p, o
<1>7. [q EXCEPT !.blockIndex = @ + 1,
                !.toolBlocks = [id \in DOMAIN @ \union {c.id} |->
                                  IF id = c.id THEN i ELSE @[id]]] = p
  <2>1. q.blockIndex + 1 = i
    BY <1>0, <1>3
  <2>2. [[q EXCEPT !.blockIndex = q.blockIndex + 1]
          EXCEPT !.toolBlocks = [id \in DOMAIN @ \union {c.id} |->
                                   IF id = c.id THEN i ELSE @[id]]] = p
    BY <2>1, <1>4, <1>5, <1>6, Zenon DEF n
  <2> QED
    BY <2>2, Zenon
<1>8. /\ c.id \in DOMAIN m => A!OpenTool(r, c) = r
      /\ c.id \notin DOMAIN m => A!OpenTool(r, c) = p
  BY <1>0, <1>1, <1>2, <1>7, Zenon DEF A!OpenTool, e
<1>9. /\ e = A!Event("content_block_start", b + 1, "tool_use", <<c.id, c.name>>)
      /\ n = [id \in DOMAIN m \union {c.id} |-> IF id = c.id THEN b + 1 ELSE m[id]]
      /\ p = Rec(Append(s, e), b + 1, t, k, n, u)
  BY <1>0, Zenon DEF e, n, p
<1> QED
  BY <1>8, <1>9, Zenon DEF r, OpensTool

(* Fragments of the input go to the block of the call.                     *)
LEMMA ToolInputEffect ==
  ASSUME NEW s, NEW b, NEW t, NEW k, NEW m, NEW u, NEW c
  PROVE  A!ToolInput(Rec(s, b, t, k, m, u), c) =
           IF c.arguments = <<>> THEN Rec(s, b, t, k, m, u)
           ELSE Rec(Append(s, A!Event("content_block_delta", m[c.id], "tool_use", c.arguments)),
                    b, t, k, m, u)
<1> DEFINE r == Rec(s, b, t, k, m, u)
           e == A!Event("content_block_delta", m[c.id], "tool_use", c.arguments)
           q == Rec(Append(s, e), b, t, k, m, u)
<1>1. r.toolBlocks = m
  BY RecFields
<1>2. A!Write(r, e) = q
  BY RecWrite
<1> HIDE DEF r, q, e
<1>3. A!ToolInput(r, c) = IF c.arguments = <<>> THEN r ELSE q
  BY <1>1, <1>2, Zenon DEF A!ToolInput, e
<1> QED
  BY <1>3 DEF r, q, e

(* The block of a call is closed by the event e, unless it is not done.    *)
StopsTool(s, b, t, k, m, u, c, e, n) ==
  /\ e = A!Event("content_block_stop", m[c.id], "tool_use", <<>>)
  /\ n = [id \in DOMAIN m \ {c.id} |-> m[id]]
  /\ ~c.done => A!ToolStop(Rec(s, b, t, k, m, u), c) = Rec(s, b, t, k, m, u)
  /\ c.done => A!ToolStop(Rec(s, b, t, k, m, u), c) = Rec(Append(s, e), b, t, k, n, u)

(* The last event of a call closes its block.                              *)
LEMMA ToolStopEffect ==
  ASSUME NEW s, NEW b, NEW t, NEW k, NEW m, NEW u, NEW c
  PROVE  \E e, n : StopsTool(s, b, t, k, m, u, c, e, n)
<1> DEFINE r == Rec(s, b, t, k, m, u)
           e == A!Event("content_block_stop", m[c.id], "tool_use", <<>>)
           n == [id \in DOMAIN m \ {c.id} |-> m[id]]
           q == Rec(Append(s, e), b, t, k, m, u)
           p == Rec(Append(s, e), b, t, k, n, u)
<1>1. r.toolBlocks = m /\ q.toolBlocks = m
  BY RecFields
<1>2. A!Write(r, e) = q
  BY RecWrite
<1> HIDE DEF n, e
<1>3. [q EXCEPT !.toolBlocks = n] = p
  BY DEF Rec
<1> HIDE DEF r, q, p
<1>4. [q EXCEPT !.toolBlocks = [id \in DOMAIN @ \ {c.id} |-> @[id]]] = p
  BY <1>1, <1>3, Zenon DEF n
<1>5. (~c.done => A!ToolStop(r, c) = r) /\ (c.done => A!ToolStop(r, c) = p)
  BY <1>1, <1>2, <1>4, Zenon DEF A!ToolStop, e
<1>6. /\ e = A!Event("content_block_stop", m[c.id], "tool_use", <<>>)
      /\ n = [id \in DOMAIN m \ {c.id} |-> m[id]]
  BY Zenon DEF e, n
<1> QED
  BY <1>5, <1>6, Zenon DEF r, p, StopsTool

-----------------------------------------------------------------------------
(* The blocks that the variables remember are the open ones, each once.    *)

Live(t, k, m) == ({t, k} \ {-1}) \union {m[x] : x \in DOMAIN m}

Apart(t, k, m) ==
  /\ t = k => t = -1
  /\ \A x \in DOMAIN m : m[x] # t /\ m[x] # k
  /\ \A x, y \in DOMAIN m : m[x] = m[y] => x = y

Shape(s, b, t, k, m) ==
  /\ Core(s, b, Live(t, k, m))
  /\ t \in Int /\ t >= -1 /\ k \in Int /\ k >= -1
  /\ Apart(t, k, m)
  /\ IsFiniteSet(DOMAIN m)

Blocks(g, ids) ==
  \E s, b, t, k, m, u : g = Rec(s, b, t, k, m, u) /\ Shape(s, b, t, k, m) /\ DOMAIN m = ids

(* No block that is open has an index that was not used yet.               *)
LEMMA LiveUsed ==
  ASSUME NEW s, NEW b, NEW t, NEW k, NEW m, Shape(s, b, t, k, m)
  PROVE  /\ b \in Int /\ b >= -1 /\ t <= b /\ k <= b
         /\ \A x \in DOMAIN m : m[x] \in 0..b
<1>1. b \in Int /\ b >= -1 /\ Live(t, k, m) \subseteq 0..b
  BY DEF Shape, Core, OpenBlocks
<1>2. \A x \in DOMAIN m : m[x] \in 0..b
  BY <1>1 DEF Live
<1>3. (t = -1 \/ t \in 0..b) /\ (k = -1 \/ k \in 0..b)
  BY <1>1 DEF Live
<1> QED
  BY <1>1, <1>2, <1>3

(* The text block is closed.                                               *)
LEMMA CloseTextShape ==
  ASSUME NEW s, NEW b, NEW t, NEW k, NEW m, NEW u, Shape(s, b, t, k, m)
  PROVE  \E s1 : /\ A!CloseText(Rec(s, b, t, k, m, u)) = Rec(s1, b, -1, k, m, u)
                 /\ Shape(s1, b, -1, k, m)
<1>0. t \in Int /\ t >= -1
  BY DEF Shape
<1>1. CASE t = -1
  BY <1>1, CloseTextEffect
<1>2. CASE t >= 0
  <2> DEFINE g == Append(s, A!Event("content_block_stop", t, "text", <<>>))
  <2>1. t \in Live(t, k, m) /\ Live(-1, k, m) = Live(t, k, m) \ {t}
    BY <1>0, <1>2 DEF Shape, Live, Apart
  <2>2. Core(g, b, Live(t, k, m) \ {t})
    BY <2>1, CoreStop DEF Shape
  <2>3. Core(g, b, Live(-1, k, m))
    BY <2>1, <2>2
  <2>4. Apart(-1, k, m)
    BY LiveUsed DEF Shape, Apart
  <2>5. A!CloseText(Rec(s, b, t, k, m, u)) = Rec(g, b, -1, k, m, u)
    BY <1>0, <1>2, CloseTextEffect
  <2> HIDE DEF g
  <2>6. Shape(g, b, -1, k, m)
    BY <2>3, <2>4 DEF Shape
  <2> QED
    BY <2>5, <2>6
<1> QED
  BY <1>0, <1>1, <1>2

(* The thinking block is closed.                                           *)
LEMMA CloseThinkingShape ==
  ASSUME NEW s, NEW b, NEW t, NEW k, NEW m, NEW u, Shape(s, b, t, k, m)
  PROVE  \E s1 : /\ A!CloseThinking(Rec(s, b, t, k, m, u)) = Rec(s1, b, t, -1, m, u)
                 /\ Shape(s1, b, t, -1, m)
<1>0. k \in Int /\ k >= -1
  BY DEF Shape
<1>1. CASE k = -1
  BY <1>1, CloseThinkingEffect
<1>2. CASE k >= 0
  <2> DEFINE g == Append(s, A!Event("content_block_stop", k, "thinking", <<>>))
  <2>1. k \in Live(t, k, m) /\ Live(t, -1, m) = Live(t, k, m) \ {k}
    BY <1>0, <1>2 DEF Shape, Live, Apart
  <2>2. Core(g, b, Live(t, k, m) \ {k})
    BY <2>1, CoreStop DEF Shape
  <2>3. Core(g, b, Live(t, -1, m))
    BY <2>1, <2>2
  <2>4. Apart(t, -1, m)
    BY LiveUsed DEF Shape, Apart
  <2>5. A!CloseThinking(Rec(s, b, t, k, m, u)) = Rec(g, b, t, -1, m, u)
    BY <1>0, <1>2, CloseThinkingEffect
  <2> HIDE DEF g
  <2>6. Shape(g, b, t, -1, m)
    BY <2>3, <2>4 DEF Shape
  <2> QED
    BY <2>5, <2>6
<1> QED
  BY <1>0, <1>1, <1>2

(* A text block is open, the old one or a new one.                         *)
LEMMA OpenTextShape ==
  ASSUME NEW s, NEW b, NEW t, NEW k, NEW m, NEW u, Shape(s, b, t, k, m)
  PROVE  \E s1, b1, t1 : /\ A!OpenText(Rec(s, b, t, k, m, u)) = Rec(s1, b1, t1, k, m, u)
                         /\ Shape(s1, b1, t1, k, m) /\ t1 >= 0
<1>0. t \in Int /\ t >= -1 /\ b \in Int /\ b >= -1
  BY LiveUsed DEF Shape
<1>1. CASE t >= 0
  BY <1>1, OpenTextEffect
<1>2. CASE t = -1
  <2> DEFINE g == Append(s, A!Event("content_block_start", b + 1, "text", <<>>))
  <2>1. Core(g, b + 1, Live(t, k, m) \union {b + 1})
    BY CoreStart DEF Shape
  <2>2. Live(b + 1, k, m) = Live(t, k, m) \union {b + 1}
    BY <1>0, <1>2 DEF Live
  <2>3. Apart(b + 1, k, m)
    BY <1>0, LiveUsed DEF Shape, Apart
  <2>4. A!OpenText(Rec(s, b, t, k, m, u)) = Rec(g, b + 1, b + 1, k, m, u)
    BY <1>0, <1>2, OpenTextEffect
  <2> HIDE DEF g
  <2>5. Shape(g, b + 1, b + 1, k, m) /\ b + 1 >= 0
    BY <1>0, <2>1, <2>2, <2>3 DEF Shape
  <2> QED
    BY <2>4, <2>5
<1> QED
  BY <1>0, <1>1, <1>2

(* A thinking block is open, the old one or a new one.                     *)
LEMMA OpenThinkingShape ==
  ASSUME NEW s, NEW b, NEW t, NEW k, NEW m, NEW u, Shape(s, b, t, k, m)
  PROVE  \E s1, b1, k1 : /\ A!OpenThinking(Rec(s, b, t, k, m, u)) = Rec(s1, b1, t, k1, m, u)
                         /\ Shape(s1, b1, t, k1, m) /\ k1 >= 0
<1>0. k \in Int /\ k >= -1 /\ b \in Int /\ b >= -1
  BY LiveUsed DEF Shape
<1>1. CASE k >= 0
  BY <1>1, OpenThinkingEffect
<1>2. CASE k = -1
  <2> DEFINE g == Append(s, A!Event("content_block_start", b + 1, "thinking", <<>>))
  <2>1. Core(g, b + 1, Live(t, k, m) \union {b + 1})
    BY CoreStart DEF Shape
  <2>2. Live(t, b + 1, m) = Live(t, k, m) \union {b + 1}
    BY <1>0, <1>2 DEF Live
  <2>3. Apart(t, b + 1, m)
    BY <1>0, LiveUsed DEF Shape, Apart
  <2>4. A!OpenThinking(Rec(s, b, t, k, m, u)) = Rec(g, b + 1, t, b + 1, m, u)
    BY <1>0, <1>2, OpenThinkingEffect
  <2> HIDE DEF g
  <2>5. Shape(g, b + 1, t, b + 1, m) /\ b + 1 >= 0
    BY <1>0, <2>1, <2>2, <2>3 DEF Shape
  <2> QED
    BY <2>4, <2>5
<1> QED
  BY <1>0, <1>1, <1>2

(* A segment of text keeps the blocks in order.                            *)
LEMMA TextBlocks ==
  ASSUME NEW g, NEW ids, Blocks(g, ids), NEW text
  PROVE  Blocks(A!StreamText(g, text), ids)
<1>1. PICK s, b, t, k, m, u : g = Rec(s, b, t, k, m, u) /\ Shape(s, b, t, k, m) /\ DOMAIN m = ids
  BY DEF Blocks
<1>2. PICK s1 : /\ A!CloseThinking(Rec(s, b, t, k, m, u)) = Rec(s1, b, t, -1, m, u)
                /\ Shape(s1, b, t, -1, m)
  BY <1>1, CloseThinkingShape
<1>3. PICK s2, b2, t2 : /\ A!OpenText(Rec(s1, b, t, -1, m, u)) = Rec(s2, b2, t2, -1, m, u)
                        /\ Shape(s2, b2, t2, -1, m) /\ t2 >= 0
  BY <1>2, OpenTextShape
<1> DEFINE h == Rec(s2, b2, t2, -1, m, u)
           e == A!Event("content_block_delta", t2, "text", text)
<1>4. h.activeText = t2
  BY RecFields
<1>5. A!Write(h, e) = Rec(Append(s2, e), b2, t2, -1, m, u)
  BY RecWrite
<1>6. A!StreamText(g, text) = A!Write(h, e)
  <2> HIDE DEF h
  <2>1. A!OpenText(A!CloseThinking(g)) = h
    BY <1>1, <1>2, <1>3, Zenon DEF h
  <2> QED
    BY <1>4, <2>1, Zenon DEF A!StreamText
<1>7. t2 \in Live(t2, -1, m)
  BY <1>3 DEF Live, Shape
<1>8. Core(Append(s2, e), b2, Live(t2, -1, m))
  BY <1>3, <1>7, CoreDelta DEF Shape
<1> HIDE DEF e, h
<1>9. Shape(Append(s2, e), b2, t2, -1, m)
  BY <1>3, <1>8 DEF Shape
<1> QED
  BY <1>1, <1>5, <1>6, <1>9 DEF Blocks

(* A segment of thinking keeps the blocks in order.                        *)
LEMMA ThinkingBlocks ==
  ASSUME NEW g, NEW ids, Blocks(g, ids), NEW text
  PROVE  Blocks(A!StreamThinking(g, text), ids)
<1>1. PICK s, b, t, k, m, u : g = Rec(s, b, t, k, m, u) /\ Shape(s, b, t, k, m) /\ DOMAIN m = ids
  BY DEF Blocks
<1>2. PICK s1 : /\ A!CloseText(Rec(s, b, t, k, m, u)) = Rec(s1, b, -1, k, m, u)
                /\ Shape(s1, b, -1, k, m)
  BY <1>1, CloseTextShape
<1>3. PICK s2, b2, k2 : /\ A!OpenThinking(Rec(s1, b, -1, k, m, u)) = Rec(s2, b2, -1, k2, m, u)
                        /\ Shape(s2, b2, -1, k2, m) /\ k2 >= 0
  BY <1>2, OpenThinkingShape
<1> DEFINE h == Rec(s2, b2, -1, k2, m, u)
           e == A!Event("content_block_delta", k2, "thinking", text)
<1>4. h.activeThinking = k2
  BY RecFields
<1>5. A!Write(h, e) = Rec(Append(s2, e), b2, -1, k2, m, u)
  BY RecWrite
<1>6. A!StreamThinking(g, text) = A!Write(h, e)
  <2> HIDE DEF h
  <2>1. A!OpenThinking(A!CloseText(g)) = h
    BY <1>1, <1>2, <1>3, Zenon DEF h
  <2> QED
    BY <1>4, <2>1, Zenon DEF A!StreamThinking
<1>7. k2 \in Live(-1, k2, m)
  BY <1>3 DEF Live, Shape
<1>8. Core(Append(s2, e), b2, Live(-1, k2, m))
  BY <1>3, <1>7, CoreDelta DEF Shape
<1> HIDE DEF e, h
<1>9. Shape(Append(s2, e), b2, -1, k2, m)
  BY <1>3, <1>8 DEF Shape
<1> QED
  BY <1>1, <1>5, <1>6, <1>9 DEF Blocks

(* A block for a call.                                                     *)
LEMMA OpenToolShape ==
  ASSUME NEW s, NEW b, NEW t, NEW k, NEW m, NEW u, Shape(s, b, t, k, m), NEW c
  PROVE  \E s1, b1, m1 : /\ A!OpenTool(Rec(s, b, t, k, m, u), c) = Rec(s1, b1, t, k, m1, u)
                         /\ Shape(s1, b1, t, k, m1) /\ DOMAIN m1 = DOMAIN m \union {c.id}
<1>0. b \in Int /\ b >= -1 /\ t <= b /\ k <= b /\ (\A x \in DOMAIN m : m[x] \in 0..b)
  BY LiveUsed
<1>d. PICK e, n : OpensTool(s, b, t, k, m, u, c, e, n)
  BY OpenToolEffect, Zenon
<1>e. /\ e = A!Event("content_block_start", b + 1, "tool_use", <<c.id, c.name>>)
      /\ n = [id \in DOMAIN m \union {c.id} |-> IF id = c.id THEN b + 1 ELSE m[id]]
      /\ c.id \in DOMAIN m => A!OpenTool(Rec(s, b, t, k, m, u), c) = Rec(s, b, t, k, m, u)
      /\ c.id \notin DOMAIN m =>
           A!OpenTool(Rec(s, b, t, k, m, u), c) = Rec(Append(s, e), b + 1, t, k, n, u)
  BY <1>d DEF OpensTool
<1>1. CASE c.id \in DOMAIN m
  <2>1. DOMAIN m = DOMAIN m \union {c.id}
    BY <1>1
  <2> QED
    BY <1>1, <1>e, <2>1
<1>2. CASE c.id \notin DOMAIN m
  <2> DEFINE g == Append(s, e)
  <2>1. Core(g, b + 1, Live(t, k, m) \union {b + 1})
    BY <1>e, CoreStart DEF Shape
  <2>2. /\ DOMAIN n = DOMAIN m \union {c.id}
        /\ n[c.id] = b + 1
        /\ \A x \in DOMAIN m : n[x] = m[x]
    BY <1>2, <1>e
  <2>3. A!OpenTool(Rec(s, b, t, k, m, u), c) = Rec(g, b + 1, t, k, n, u)
    BY <1>2, <1>e
  <2> HIDE DEF g
  <2>4. {n[x] : x \in DOMAIN n} = {m[x] : x \in DOMAIN m} \union {b + 1}
    BY <2>2
  <2>5. Live(t, k, n) = Live(t, k, m) \union {b + 1}
    BY <2>4 DEF Live
  <2>6. Apart(t, k, n)
    <3>1. t = k => t = -1
      BY DEF Shape, Apart
    <3>2. \A x \in DOMAIN n : n[x] # t /\ n[x] # k
      BY <1>0, <2>2 DEF Shape, Apart
    <3>3. \A x, y \in DOMAIN n : n[x] = n[y] => x = y
      BY <1>0, <2>2 DEF Shape, Apart
    <3> QED
      BY <3>1, <3>2, <3>3 DEF Apart
  <2>7. IsFiniteSet(DOMAIN n)
    BY <2>2, FS_AddElement DEF Shape
  <2>8. Shape(g, b + 1, t, k, n)
    BY <2>1, <2>5, <2>6, <2>7 DEF Shape
  <2> QED
    BY <2>2, <2>3, <2>8
<1> QED
  BY <1>1, <1>2

(* Input for a call whose block is open.                                   *)
LEMMA ToolInputShape ==
  ASSUME NEW s, NEW b, NEW t, NEW k, NEW m, NEW u, Shape(s, b, t, k, m),
         NEW c, c.id \in DOMAIN m
  PROVE  \E s1 : /\ A!ToolInput(Rec(s, b, t, k, m, u), c) = Rec(s1, b, t, k, m, u)
                 /\ Shape(s1, b, t, k, m)
<1>1. CASE c.arguments = <<>>
  BY <1>1, ToolInputEffect
<1>2. CASE c.arguments # <<>>
  <2> DEFINE g == Append(s, A!Event("content_block_delta", m[c.id], "tool_use", c.arguments))
  <2>1. m[c.id] \in Live(t, k, m)
    BY DEF Live
  <2>2. Core(g, b, Live(t, k, m))
    BY <2>1, CoreDelta DEF Shape
  <2>3. A!ToolInput(Rec(s, b, t, k, m, u), c) = Rec(g, b, t, k, m, u)
    BY <1>2, ToolInputEffect
  <2> HIDE DEF g
  <2>4. Shape(g, b, t, k, m)
    BY <2>2 DEF Shape
  <2> QED
    BY <2>3, <2>4
<1> QED
  BY <1>1, <1>2

(* The end of a call whose block is open.                                  *)
LEMMA ToolStopShape ==
  ASSUME NEW s, NEW b, NEW t, NEW k, NEW m, NEW u, Shape(s, b, t, k, m),
         NEW c, c.id \in DOMAIN m
  PROVE  \E s1, m1 : /\ A!ToolStop(Rec(s, b, t, k, m, u), c) = Rec(s1, b, t, k, m1, u)
                     /\ Shape(s1, b, t, k, m1)
                     /\ c.done => DOMAIN m1 = DOMAIN m \ {c.id}
                     /\ ~c.done => DOMAIN m1 = DOMAIN m
<1>0. b \in Int /\ b >= -1 /\ (\A x \in DOMAIN m : m[x] \in 0..b)
  BY LiveUsed
<1>d. PICK e, n : StopsTool(s, b, t, k, m, u, c, e, n)
  BY ToolStopEffect, Zenon
<1>e. /\ e = A!Event("content_block_stop", m[c.id], "tool_use", <<>>)
      /\ n = [id \in DOMAIN m \ {c.id} |-> m[id]]
      /\ ~c.done => A!ToolStop(Rec(s, b, t, k, m, u), c) = Rec(s, b, t, k, m, u)
      /\ c.done => A!ToolStop(Rec(s, b, t, k, m, u), c) = Rec(Append(s, e), b, t, k, n, u)
  BY <1>d DEF StopsTool
<1>1. CASE ~c.done
  BY <1>1, <1>e
<1>2. CASE c.done
  <2> DEFINE g == Append(s, e)
  <2>1. m[c.id] \in Live(t, k, m)
    BY DEF Live
  <2>2. Core(g, b, Live(t, k, m) \ {m[c.id]})
    BY <1>e, <2>1, CoreStop DEF Shape
  <2>3. DOMAIN n = DOMAIN m \ {c.id} /\ \A x \in DOMAIN n : n[x] = m[x]
    BY <1>e
  <2>4. A!ToolStop(Rec(s, b, t, k, m, u), c) = Rec(g, b, t, k, n, u)
    BY <1>2, <1>e
  <2> HIDE DEF g
  <2>5. {n[x] : x \in DOMAIN n} = {m[x] : x \in DOMAIN m} \ {m[c.id]}
    BY <2>3 DEF Shape, Apart
  <2>6. m[c.id] # t /\ m[c.id] # k
    BY DEF Shape, Apart
  <2>7. Live(t, k, n) = Live(t, k, m) \ {m[c.id]}
    BY <2>5, <2>6 DEF Live
  <2>8. Apart(t, k, n)
    BY <2>3 DEF Shape, Apart
  <2>9. IsFiniteSet(DOMAIN n)
    BY <2>3, FS_RemoveElement DEF Shape
  <2>10. Shape(g, b, t, k, n)
    BY <2>2, <2>7, <2>8, <2>9 DEF Shape
  <2> QED
    BY <1>2, <2>3, <2>4, <2>10
<1> QED
  BY <1>1, <1>2

(* After an event of a call its block is open unless the call is done.     *)
LEMMA ToolBlocks ==
  ASSUME NEW g, NEW ids, Blocks(g, ids), NEW c
  PROVE  /\ c.done => Blocks(A!StreamTool(g, c), ids \ {c.id})
         /\ ~c.done => Blocks(A!StreamTool(g, c), ids \union {c.id})
<1>1. PICK s, b, t, k, m, u : g = Rec(s, b, t, k, m, u) /\ Shape(s, b, t, k, m) /\ DOMAIN m = ids
  BY DEF Blocks
<1>2. PICK v : v = TRUE
  BY Zenon
<1>3. [Rec(s, b, t, k, m, u) EXCEPT !.hasToolUse = v] = Rec(s, b, t, k, m, v)
  BY DEF Rec
<1>4. PICK s1 : /\ A!CloseText(Rec(s, b, t, k, m, v)) = Rec(s1, b, -1, k, m, v)
                /\ Shape(s1, b, -1, k, m)
  BY <1>1, CloseTextShape
<1>5. PICK s2 : /\ A!CloseThinking(Rec(s1, b, -1, k, m, v)) = Rec(s2, b, -1, -1, m, v)
                /\ Shape(s2, b, -1, -1, m)
  BY <1>4, CloseThinkingShape
<1>6. PICK s3, b3, m3 : /\ A!OpenTool(Rec(s2, b, -1, -1, m, v), c) = Rec(s3, b3, -1, -1, m3, v)
                        /\ Shape(s3, b3, -1, -1, m3) /\ DOMAIN m3 = DOMAIN m \union {c.id}
  BY <1>5, OpenToolShape
<1>7. PICK s4 : /\ A!ToolInput(Rec(s3, b3, -1, -1, m3, v), c) = Rec(s4, b3, -1, -1, m3, v)
                /\ Shape(s4, b3, -1, -1, m3)
  BY <1>6, ToolInputShape
<1>8. PICK s5, m5 : /\ A!ToolStop(Rec(s4, b3, -1, -1, m3, v), c) = Rec(s5, b3, -1, -1, m5, v)
                    /\ Shape(s5, b3, -1, -1, m5)
                    /\ c.done => DOMAIN m5 = DOMAIN m3 \ {c.id}
                    /\ ~c.done => DOMAIN m5 = DOMAIN m3
  BY <1>6, <1>7, ToolStopShape
<1>9. A!StreamTool(g, c) = Rec(s5, b3, -1, -1, m5, v)
  <2>1. [g EXCEPT !.hasToolUse = TRUE] = Rec(s, b, t, k, m, v)
    BY <1>1, <1>2, <1>3, Zenon
  <2> QED
    BY <2>1, <1>4, <1>5, <1>6, <1>7, <1>8, Zenon DEF A!StreamTool
<1>10. Blocks(A!StreamTool(g, c), DOMAIN m5)
  BY <1>8, <1>9, Zenon DEF Blocks
<1>11. ASSUME c.done PROVE DOMAIN m5 = ids \ {c.id}
  BY <1>1, <1>6, <1>8, <1>11
<1>12. ASSUME ~c.done PROVE DOMAIN m5 = ids \union {c.id}
  BY <1>1, <1>6, <1>8, <1>12
<1> QED
  BY <1>10, <1>11, <1>12, Zenon

-----------------------------------------------------------------------------
(* The end of the answer.                                                  *)

(* A sequence of a finite set names every member once.                     *)
LEMMA SetToSeqsFacts ==
  ASSUME NEW D, IsFiniteSet(D), NEW ids \in SetToSeqs(D)
  PROVE  /\ Len(ids) \in Nat /\ DOMAIN ids = 1..Len(ids)
         /\ D = {ids[i] : i \in 1..Len(ids)}
         /\ \A i, j \in 1..Len(ids) : ids[i] = ids[j] => i = j
<1> DEFINE n == Cardinality(D)
<1>1. n \in Nat
  BY FS_CardinalityType
<1>2. ids \in [1..n -> D] /\ \A i, j \in 1..n : i # j => ids[i] # ids[j]
  BY DEF SetToSeqs
<1>3. Cardinality(1..n) = n
  BY <1>1, FS_Interval
<1> HIDE DEF n
<1>4. ids \in Injection(1..n, D)
  BY <1>2 DEF Injection, IsInjective
<1>5. ids \in Surjection(1..n, D)
  BY <1>3, <1>4, FS_Injection DEF n
<1>6. \A x \in D : \E i \in 1..n : ids[i] = x
  BY <1>5 DEF Surjection
<1>7. Len(ids) = n
  BY <1>1, <1>2
<1> QED
  BY <1>1, <1>2, <1>6, <1>7

(* What remains open when the block of each id is closed in turn.          *)
LEMMA StopsInTurn ==
  ASSUME NEW s, NEW b, NEW m, Core(s, b, {m[x] : x \in DOMAIN m}),
         \A x, y \in DOMAIN m : m[x] = m[y] => x = y,
         IsFiniteSet(DOMAIN m), NEW ids \in SetToSeqs(DOMAIN m)
  PROVE  Core(s \o [i \in 1..Len(ids) |->
                      A!Event("content_block_stop", m[ids[i]], "tool_use", <<>>)], b, {})
<1> DEFINE n == Len(ids)
           l == Len(s)
           c == [i \in 1..n |-> A!Event("content_block_stop", m[ids[i]], "tool_use", <<>>)]
           q == s \o c
           P(j) == SubSeq(q, 1, l + j)
           live == {m[x] : x \in DOMAIN m}
<1>1. /\ n \in Nat /\ DOMAIN ids = 1..n /\ DOMAIN m = {ids[i] : i \in 1..n}
      /\ \A i, j \in 1..n : ids[i] = ids[j] => i = j
  BY SetToSeqsFacts
<1>2. IsSeq(s) /\ WellFormed(s) /\ Unanswered(s) /\ l \in Nat /\ DOMAIN s = 1..l
  BY AppendFacts DEF Core
<1>3. \A i \in 1..n : c[i].type = "content_block_stop" /\ c[i].index = m[ids[i]]
  BY DEF A!Event
<1>4. IsSeq(c) /\ Len(c) = n
  <2>1. c \in [1..n -> {c[i] : i \in 1..n}]
    OBVIOUS
  <2> HIDE DEF c, n
  <2>2. c \in Seq({c[i] : i \in 1..n}) /\ Len(c) = n
    BY <1>1, <2>1
  <2> QED
    BY <2>2 DEF IsSeq
<1> HIDE DEF c, n, l
<1>5. /\ IsSeq(q) /\ Len(q) = l + n /\ DOMAIN q = 1..(l + n)
      /\ \A i \in 1..l : q[i] = s[i]
      /\ \A i \in 1..n : q[l + i] = c[i]
  <2>1. PICK U : s \in Seq(U)
    BY <1>2 DEF IsSeq
  <2>2. PICK C : c \in Seq(C)
    BY <1>4 DEF IsSeq
  <2>3. s \in Seq(U \union C) /\ c \in Seq(U \union C)
    BY <2>1, <2>2
  <2>4. q \in Seq(U \union C) /\ Len(q) = l + n
    BY <1>4, <2>3 DEF l
  <2>5. /\ \A i \in 1..l : q[i] = s[i]
        /\ \A i \in 1..n : q[l + i] = c[i]
    BY <1>1, <1>2, <1>4, <2>3 DEF l
  <2>6. DOMAIN q = 1..(l + n)
    BY <2>4
  <2> HIDE DEF q
  <2> QED
    BY <2>4, <2>5, <2>6 DEF IsSeq
<1>6. \A i \in (l + 1)..(l + n) : i - l \in 1..n /\ q[i] = c[i - l]
  BY <1>1, <1>2, <1>5
<1> HIDE DEF q
<1>7. ASSUME NEW j \in 0..n
      PROVE  /\ Indexes(P(j), "content_block_start") = Indexes(s, "content_block_start")
             /\ Indexes(P(j), "content_block_stop")
                  = Indexes(s, "content_block_stop") \union {m[ids[i]] : i \in 1..j}
  <2>1. l + j \in 0..Len(q)
    BY <1>1, <1>2, <1>5
  <2>2. DOMAIN P(j) = 1..(l + j) /\ \A i \in 1..(l + j) : P(j)[i] = q[i]
    BY <1>5, <2>1, PrefixFacts
  <2>3. /\ \A i \in 1..l : i \in DOMAIN P(j) /\ P(j)[i] = s[i]
        /\ \A i \in 1..j : /\ l + i \in DOMAIN P(j) /\ P(j)[l + i].type = "content_block_stop"
                           /\ P(j)[l + i].index = m[ids[i]]
        /\ \A i \in DOMAIN P(j) : i \in 1..l \/ i - l \in 1..j
    BY <1>1, <1>2, <1>3, <1>5, <2>2
  <2>4. \A i \in DOMAIN P(j) : i \notin 1..l => /\ i - l \in 1..j
                                                 /\ P(j)[i].type = "content_block_stop"
                                                 /\ P(j)[i].index = m[ids[i - l]]
    <3> SUFFICES ASSUME NEW i \in DOMAIN P(j), i \notin 1..l
                 PROVE  /\ i - l \in 1..j /\ P(j)[i].type = "content_block_stop"
                        /\ P(j)[i].index = m[ids[i - l]]
      OBVIOUS
    <3>1. i \in 1..(l + j) /\ P(j)[i] = q[i]
      BY <2>2
    <3> HIDE DEF P
    <3>2. PICK x : x = i - l
      OBVIOUS
    <3>3. x \in 1..j /\ x \in 1..n /\ i \in (l + 1)..(l + n)
      BY <1>1, <1>2, <3>1, <3>2
    <3>4. q[i] = c[x]
      BY <1>6, <3>2, <3>3
    <3> QED
      BY <1>3, <3>1, <3>2, <3>3, <3>4
  <2> HIDE DEF P
  <2>5. ASSUME NEW type
        PROVE  Indexes(s, type) \subseteq Indexes(P(j), type)
    BY <1>2, <2>3 DEF Indexes
  <2>6. Indexes(P(j), "content_block_start") \subseteq Indexes(s, "content_block_start")
    BY <1>2, <2>3, <2>4 DEF Indexes
  <2>7. {m[ids[i]] : i \in 1..j} \subseteq Indexes(P(j), "content_block_stop")
    BY <2>3 DEF Indexes
  <2>8. Indexes(P(j), "content_block_stop")
          \subseteq Indexes(s, "content_block_stop") \union {m[ids[i]] : i \in 1..j}
    BY <1>2, <2>3, <2>4 DEF Indexes
  <2> QED
    BY <2>5, <2>6, <2>7, <2>8
<1>8. WellFormed(q)
  <2> SUFFICES ASSUME NEW p \in DOMAIN q PROVE FollowsProtocol(SubSeq(q, 1, p - 1), q[p])
    BY DEF WellFormed
  <2>1. CASE p \in 1..l
    <3>1. SubSeq(q, 1, p - 1) = SubSeq(s, 1, p - 1)
      <4>1. p - 1 \in 0..l /\ p - 1 \in 0..Len(q)
        BY <1>1, <1>2, <1>5, <2>1
      <4>2. /\ IsSeq(SubSeq(q, 1, p - 1)) /\ IsSeq(SubSeq(s, 1, p - 1))
            /\ Len(SubSeq(q, 1, p - 1)) = p - 1 /\ Len(SubSeq(s, 1, p - 1)) = p - 1
            /\ \A i \in 1..(p - 1) : SubSeq(q, 1, p - 1)[i] = SubSeq(s, 1, p - 1)[i]
        BY <1>2, <1>5, <4>1, PrefixFacts DEF l
      <4> QED
        BY <4>2, SeqEqual DEF IsSeq
    <3> QED
      BY <1>2, <1>5, <2>1, <3>1 DEF WellFormed
  <2>2. CASE p \notin 1..l
    <3>1. PICK j : j = p - l
      OBVIOUS
    <3>2. /\ j \in 1..n /\ j - 1 \in 0..n /\ p - 1 = l + (j - 1)
          /\ q[p].type = "content_block_stop" /\ q[p].index = m[ids[j]]
      <4>1. p \in (l + 1)..(l + n) /\ j \in 1..n /\ j - 1 \in 0..n /\ p - 1 = l + (j - 1)
        BY <1>1, <1>2, <1>5, <2>2, <3>1
      <4>2. q[p] = c[j]
        BY <1>6, <3>1, <4>1
      <4> QED
        BY <1>3, <4>1, <4>2
    <3>3. SubSeq(q, 1, p - 1) = P(j - 1)
      BY <3>2
    <3> HIDE DEF P
    <3>4. /\ Indexes(P(j - 1), "content_block_start") = Indexes(s, "content_block_start")
          /\ Indexes(P(j - 1), "content_block_stop")
               = Indexes(s, "content_block_stop") \union {m[ids[i]] : i \in 1..(j - 1)}
      BY <1>7, <3>2
    <3>5. m[ids[j]] \in live /\ m[ids[j]] \notin {m[ids[i]] : i \in 1..(j - 1)}
      BY <1>1, <3>2
    <3>6. m[ids[j]] \in OpenBlocks(P(j - 1))
      BY <3>4, <3>5 DEF Core, OpenBlocks
    <3> QED
      BY <3>2, <3>3, <3>6 DEF FollowsProtocol
  <2> QED
    BY <2>1, <2>2
<1>9. Unanswered(q)
  <2> SUFFICES ASSUME NEW p \in DOMAIN q PROVE q[p].type \notin Final
    BY DEF Unanswered
  <2>1. CASE p \in 1..l
    BY <1>2, <1>5, <2>1 DEF Unanswered
  <2>2. CASE p \notin 1..l
    <3>1. q[p].type = "content_block_stop"
      BY <1>1, <1>2, <1>3, <1>5, <1>6, <2>2
    <3> QED
      BY <3>1 DEF Final
  <2> QED
    BY <2>1, <2>2
<1>10. P(n) = q
  BY <1>5, WholePrefix
<1>11. {m[ids[i]] : i \in 1..n} = live
  BY <1>1
<1> HIDE DEF P
<1>12. /\ Indexes(q, "content_block_start") = Indexes(s, "content_block_start")
       /\ Indexes(q, "content_block_stop") = Indexes(s, "content_block_stop") \union live
  BY <1>1, <1>7, <1>10, <1>11
<1>13. Core(q, b, {})
  <2>1. live \subseteq 0..b
    BY DEF Core, OpenBlocks
  <2>2. OpenBlocks(q) = {}
    BY <1>12 DEF Core, OpenBlocks
  <2> QED
    BY <1>5, <1>8, <1>9, <1>12, <2>1, <2>2 DEF Core
<1> QED
  BY <1>13 DEF q, c, n

(* A sequence that ends an answer, with a last event of this type.         *)
EndsWith(sent, type) == IsSeq(sent) /\ Len(sent) > 0 /\ sent[Len(sent)].type = type

(* The last event is the one that was written last.                        *)
LEMMA AppendEnds ==
  ASSUME NEW s, IsSeq(s), NEW e
  PROVE  EndsWith(Append(s, e), e.type)
<1> DEFINE t == Append(s, e)
<1>1. IsSeq(t) /\ Len(s) \in Nat /\ Len(t) = Len(s) + 1 /\ t[Len(s) + 1] = e
  BY AppendFacts
<1> HIDE DEF t
<1>2. Len(t) > 0 /\ t[Len(t)] = e
  BY <1>1
<1>3. EndsWith(t, e.type)
  BY <1>1, <1>2, Zenon DEF EndsWith
<1> QED
  BY <1>3 DEF t

(* The blocks that are open are closed, and then the message.              *)
LEMMA EndBlocks ==
  ASSUME NEW g, NEW D, Blocks(g, D), NEW ids \in SetToSeqs(D), NEW tokens
  PROVE  LET h == A!StreamEnd(g, ids, tokens)
         IN "sent" \in DOMAIN h /\ WellFormed(h.sent) /\ EndsWith(h.sent, "message_stop")
<1>1. PICK s, b, t, k, m, u : g = Rec(s, b, t, k, m, u) /\ Shape(s, b, t, k, m) /\ DOMAIN m = D
  BY DEF Blocks
<1>2. PICK s1 : /\ A!CloseText(Rec(s, b, t, k, m, u)) = Rec(s1, b, -1, k, m, u)
                /\ Shape(s1, b, -1, k, m)
  BY <1>1, CloseTextShape
<1>3. PICK s2 : /\ A!CloseThinking(Rec(s1, b, -1, k, m, u)) = Rec(s2, b, -1, -1, m, u)
                /\ Shape(s2, b, -1, -1, m)
  BY <1>2, CloseThinkingShape
<1> DEFINE c == [i \in 1..Len(ids) |-> A!Event("content_block_stop", m[ids[i]], "tool_use", <<>>)]
           r == Rec(s2, b, -1, -1, m, u)
           q == Rec(s2 \o c, b, -1, -1, m, u)
           reason == A!StopReason(g.hasToolUse)
           d == A!Event("message_delta", tokens, reason, <<>>)
           e == A!Event("message_stop", -1, "none", <<>>)
           p == Rec(Append(s2 \o c, d), b, -1, -1, m, u)
           o == Rec(Append(Append(s2 \o c, d), e), b, -1, -1, m, u)
<1>4. Live(-1, -1, m) = {m[x] : x \in DOMAIN m}
  BY DEF Live
<1>5. Core(s2 \o c, b, {})
  BY <1>1, <1>3, <1>4, StopsInTurn DEF Shape, Apart
<1>6. LET x == Append(Append(s2 \o c, d), e)
      IN IsSeq(x) /\ WellFormed(x) /\ Len(x) > 0 /\ x[Len(x)].type = "message_stop"
  BY <1>5, CoreEnds
<1>7. r.toolBlocks = m /\ r.sent = s2
  BY RecFields
<1> HIDE DEF c, d, e, reason
<1>8. A!Write(q, d) = p /\ A!Write(p, e) = o
  BY RecWrite
<1>9. [r EXCEPT !.sent = s2 \o c] = q
  <2>1. PICK x : x = s2 \o c
    OBVIOUS
  <2>2. [Rec(s2, b, -1, -1, m, u) EXCEPT !.sent = x] = Rec(x, b, -1, -1, m, u)
    BY DEF Rec
  <2> QED
    BY <2>1, <2>2, Zenon
<1>10. o.sent = Append(Append(s2 \o c, d), e) /\ "sent" \in DOMAIN o
  <2>1. PICK x : x = Append(Append(s2 \o c, d), e)
    OBVIOUS
  <2>2. Rec(x, b, -1, -1, m, u).sent = x /\ "sent" \in DOMAIN Rec(x, b, -1, -1, m, u)
    BY RecFields
  <2> QED
    BY <2>1, <2>2, Zenon
<1>11. A!CloseBlocks(g) = r
  BY <1>1, <1>2, <1>3, Zenon DEF A!CloseBlocks
<1> HIDE DEF r, p, q, o
<1>12. A!CloseTools(r, ids) = q
  BY <1>7, <1>9, Zenon DEF A!CloseTools, c
<1>13. A!StreamEnd(g, ids, tokens) = o
  BY <1>8, <1>11, <1>12, Zenon DEF A!StreamEnd, d, e, reason
<1> QED
  BY <1>6, <1>10, <1>13, Zenon DEF EndsWith, c, d, e, reason

(* The first event of a stream opens no block.                             *)
LEMMA CoreFirst ==
  ASSUME NEW e, e.type = "message_start"
  PROVE  Core(<<e>>, -1, {})
<1> DEFINE s == Append(<<>>, e)
<1>1. <<e>> = s
  OBVIOUS
<1>2. FollowsProtocol(<<>>, e)
  BY DEF FollowsProtocol
<1>3. IsSeq(s) /\ WellFormed(s)
  BY <1>2, EmptySent, AppendFacts, AppendWellFormed
<1>4. Unanswered(s)
  BY EmptySent, AppendUnanswered DEF Final
<1>5. Indexes(<<>>, "content_block_start") = {} /\ Indexes(<<>>, "content_block_stop") = {}
  BY DEF Indexes
<1>6. Indexes(s, "content_block_start") = {} /\ Indexes(s, "content_block_stop") = {}
  BY <1>5, EmptySent, EventIndexes
<1> HIDE DEF s
<1>7. Core(s, -1, {})
  BY <1>3, <1>4, <1>6 DEF Core, OpenBlocks
<1> QED
  BY <1>1, <1>7

(* The stream starts without a block.                                      *)
LEMMA StartBlocks == Blocks(A!StreamStart, {})
<1> DEFINE e == A!Event("message_start", -1, "none", <<>>)
<1>1. e.type = "message_start"
  BY DEF A!Event
<1>2. PICK v : v = FALSE
  BY Zenon
<1>3. A!StreamStart = Rec(<<e>>, -1, -1, -1, <<>>, v)
  BY <1>2, Zenon DEF A!StreamStart, Rec
<1> HIDE DEF e
<1>4. Core(<<e>>, -1, {})
  BY <1>1, CoreFirst
<1>5. DOMAIN <<>> = {} /\ Live(-1, -1, <<>>) = {} /\ Apart(-1, -1, <<>>)
  BY DEF Live, Apart
<1>6. Shape(<<e>>, -1, -1, -1, <<>>)
  <2>1. IsFiniteSet(DOMAIN <<>>)
    BY <1>5, FS_EmptySet
  <2>2. -1 \in Int /\ -1 >= -1
    OBVIOUS
  <2> QED
    BY <1>4, <1>5, <2>1, <2>2, Zenon DEF Shape
<1> QED
  BY <1>3, <1>5, <1>6, Zenon DEF Blocks

-----------------------------------------------------------------------------
(* The answer of a web search.                                             *)

(* A block is opened when none is, with the next index.                    *)
LEMMA CoreOpens ==
  ASSUME NEW s, NEW b, Core(s, b, {}), NEW i, i = b + 1, NEW kind, NEW data
  PROVE  Core(Append(s, A!Event("content_block_start", i, kind, data)), i, {i})
<1>1. {} \union {b + 1} = {b + 1}
  OBVIOUS
<1>2. Core(Append(s, A!Event("content_block_start", b + 1, kind, data)), b + 1, {b + 1})
  BY <1>1, CoreStart, Zenon
<1> QED
  BY <1>2, Zenon

(* The only block that is open is closed.                                  *)
LEMMA CoreCloses ==
  ASSUME NEW s, NEW i, Core(s, i, {i}), NEW kind, NEW data
  PROVE  Core(Append(s, A!Event("content_block_stop", i, kind, data)), i, {})
<1>1. {i} \ {i} = {}
  OBVIOUS
<1>2. i \in {i}
  OBVIOUS
<1>3. Core(Append(s, A!Event("content_block_stop", i, kind, data)), i, {i} \ {i})
  BY <1>2, CoreStop, Zenon
<1> QED
  BY <1>1, <1>3, Zenon

(* The stream of a search is three blocks, one after the other.            *)
LEMMA SearchBlocks ==
  ASSUME NEW query, NEW found, NEW maxUses
  PROVE  /\ WellFormed(W!StreamResults(query, found, maxUses))
         /\ EndsWith(W!StreamResults(query, found, maxUses), "message_stop")
<1>1. PICK n : n = <<W!Limit(found, maxUses)>>
  OBVIOUS
<1> DEFINE e1 == A!Event("message_start", -1, "none", <<>>)
           e2 == A!Event("content_block_start", 0, "server_tool_use", <<"web_search">>)
           e3 == A!Event("content_block_delta", 0, "server_tool_use", <<query>>)
           e4 == A!Event("content_block_stop", 0, "server_tool_use", <<>>)
           e5 == A!Event("content_block_start", 1, "web_search_tool_result", n)
           e6 == A!Event("content_block_stop", 1, "web_search_tool_result", <<>>)
           e7 == A!Event("content_block_start", 2, "text", <<>>)
           e8 == A!Event("content_block_delta", 2, "text", n)
           e9 == A!Event("content_block_stop", 2, "text", <<>>)
           e10 == A!Event("message_delta", 0, "end_turn", <<>>)
           e11 == A!Event("message_stop", -1, "none", <<>>)
           s1 == <<e1>>
           s2 == Append(s1, e2)
           s3 == Append(s2, e3)
           s4 == Append(s3, e4)
           s5 == Append(s4, e5)
           s6 == Append(s5, e6)
           s7 == Append(s6, e7)
           s8 == Append(s7, e8)
           s9 == Append(s8, e9)
           s10 == Append(s9, e10)
           s11 == Append(s10, e11)
<1>2. Core(s1, -1, {})
  BY CoreFirst DEF A!Event
<1> HIDE DEF s1
<1>3. Core(s2, 0, {0})
  <2>1. 0 = -1 + 1
    OBVIOUS
  <2> QED
    BY <1>2, <2>1, CoreOpens
<1> HIDE DEF s2
<1>4. Core(s3, 0, {0})
  BY <1>3, CoreDelta
<1> HIDE DEF s3
<1>5. Core(s4, 0, {})
  BY <1>4, CoreCloses
<1> HIDE DEF s4
<1>6. Core(s5, 1, {1})
  <2>1. 1 = 0 + 1
    OBVIOUS
  <2> QED
    BY <1>5, <2>1, CoreOpens
<1> HIDE DEF s5
<1>7. Core(s6, 1, {})
  BY <1>6, CoreCloses
<1> HIDE DEF s6
<1>8. Core(s7, 2, {2})
  <2>1. 2 = 1 + 1
    OBVIOUS
  <2> QED
    BY <1>7, <2>1, CoreOpens
<1> HIDE DEF s7
<1>9. Core(s8, 2, {2})
  BY <1>8, CoreDelta
<1> HIDE DEF s8
<1>10. Core(s9, 2, {})
  BY <1>9, CoreCloses
<1> HIDE DEF s9
<1>11. IsSeq(s11) /\ WellFormed(s11) /\ Len(s11) > 0 /\ s11[Len(s11)].type = "message_stop"
  BY <1>10, CoreEnds
<1> HIDE DEF s10, s11, e1, e2, e3, e4, e5, e6, e7, e8, e9, e10, e11
<1>12. s11 = <<e1, e2, e3, e4, e5, e6, e7, e8, e9, e10, e11>>
  <2> DEFINE E == {e1, e2, e3, e4, e5, e6, e7, e8, e9, e10, e11}
             t == <<e1, e2, e3, e4, e5, e6, e7, e8, e9, e10, e11>>
  <2>1. t \in Seq(E) /\ Len(t) = 11
    OBVIOUS
  <2>2. /\ t[1] = e1 /\ t[2] = e2 /\ t[3] = e3 /\ t[4] = e4 /\ t[5] = e5 /\ t[6] = e6
        /\ t[7] = e7 /\ t[8] = e8 /\ t[9] = e9 /\ t[10] = e10 /\ t[11] = e11
    OBVIOUS
  <2>3. e1 \in E /\ e2 \in E /\ e3 \in E /\ e4 \in E /\ e5 \in E /\ e6 \in E
        /\ e7 \in E /\ e8 \in E /\ e9 \in E /\ e10 \in E /\ e11 \in E
    OBVIOUS
  <2> HIDE DEF E, t
  <2>4. /\ s11 \in Seq(E) /\ Len(s11) = 11
        /\ s11[1] = e1 /\ s11[2] = e2 /\ s11[3] = e3 /\ s11[4] = e4
        /\ s11[5] = e5 /\ s11[6] = e6 /\ s11[7] = e7 /\ s11[8] = e8
        /\ s11[9] = e9 /\ s11[10] = e10 /\ s11[11] = e11
    BY <2>3 DEF s1, s2, s3, s4, s5, s6, s7, s8, s9, s10, s11
  <2>5. \A i \in 1..11 : s11[i] = t[i]
    BY <2>2, <2>4
  <2>6. s11 = t
    BY <2>1, <2>4, <2>5, SeqEqual
  <2> QED
    BY <2>6 DEF t
<1>13. W!StreamResults(query, found, maxUses) = s11
  BY <1>1, <1>12, Zenon
     DEF W!StreamResults, W!Event, A!Event, e1, e2, e3, e4, e5, e6, e7, e8, e9, e10, e11
<1> QED
  BY <1>11, <1>13, Zenon DEF EndsWith

(* The message of a search.                                                *)
LEMMA SearchMessage ==
  ASSUME NEW found, NEW maxUses
  PROVE  EndsWith(W!JsonResults(found, maxUses), "message")
<1> DEFINE n == W!Limit(found, maxUses)
           e == [type |-> "message", text |-> <<n>>, thinking |-> <<>>, tools |-> <<>>,
                 stop |-> "end_turn", tokens |-> 0]
<1>1. e.type = "message"
  OBVIOUS
<1> HIDE DEF n
<1>2. W!JsonResults(found, maxUses) = <<e>>
  BY Zenon DEF W!JsonResults, n
<1> HIDE DEF e
<1>3. <<e>> \in Seq({e}) /\ Len(<<e>>) = 1 /\ <<e>>[1] = e
  OBVIOUS
<1>4. PICK s : s = <<e>>
  OBVIOUS
<1>5. IsSeq(s) /\ Len(s) = 1 /\ s[1] = e
  BY <1>3, <1>4, Zenon DEF IsSeq
<1>6. Len(s) > 0 /\ s[Len(s)].type = "message"
  BY <1>1, <1>5
<1> QED
  BY <1>2, <1>4, <1>5, <1>6, Zenon DEF EndsWith

-----------------------------------------------------------------------------
(* The other forms of an answer: a stream of chunks, and one message.      *)

(* Nothing of an answer has been sent that would end it.                   *)
Begun(g) == "sent" \in DOMAIN g /\ IsSeq(g.sent) /\ Unanswered(g.sent)

(* Nothing has been sent at all.                                           *)
Silent(g) == "sent" \in DOMAIN g /\ g.sent = <<>>

(* A chunk that does not end the answer.                                   *)
LEMMA ChunkBegun ==
  ASSUME NEW g, Begun(g), NEW type, type \notin Final, NEW index, NEW kind, NEW data
  PROVE  Begun(O!Write(g, O!Chunk(type, index, kind, data)))
<1> DEFINE e == O!Chunk(type, index, kind, data)
           h == O!Write(g, e)
<1>1. e.type = type
  BY DEF O!Chunk
<1> HIDE DEF e
<1>2. h.sent = Append(g.sent, e) /\ "sent" \in DOMAIN h
  BY Zenon DEF O!Write, Begun
<1> HIDE DEF h
<1>3. IsSeq(h.sent) /\ Unanswered(h.sent)
  BY <1>1, <1>2, AppendFacts, AppendUnanswered DEF Begun
<1> QED
  BY <1>2, <1>3 DEF Begun, h, e

(* The stream of chunks, event by event.                                   *)
LEMMA ChunksBegun ==
  ASSUME NEW g, Begun(g), NEW text, NEW call
  PROVE  /\ Begun(O!StreamText(g, text)) /\ Begun(O!StreamThinking(g, text))
         /\ Begun(O!StreamTool(g, call))
<1>1. "delta" \notin Final
  BY DEF Final
<1>2. Begun(O!StreamText(g, text)) /\ Begun(O!StreamThinking(g, text))
  BY <1>1, ChunkBegun DEF O!StreamText, O!StreamThinking
<1> DEFINE q == [g EXCEPT !.hasToolCall = TRUE]
           h == O!IndexTool(q, call.id)
<1>3. "sent" \in DOMAIN q /\ q.sent = g.sent
  BY Zenon DEF Begun
<1> HIDE DEF q
<1>4. "sent" \in DOMAIN h /\ h.sent = q.sent
  <2>1. CASE call.id \in DOMAIN q.toolIndexes
    BY <1>3, <2>1, Zenon DEF O!IndexTool
  <2>2. CASE call.id \notin DOMAIN q.toolIndexes
    <3>1. PICK x : x = [y \in DOMAIN q.toolIndexes \union {call.id} |->
                          IF y = call.id THEN q.nextToolIndex ELSE q.toolIndexes[y]]
      BY Zenon
    <3>2. PICK r : r = [q EXCEPT !.nextToolIndex = @ + 1]
      BY Zenon
    <3>3. "sent" \in DOMAIN r /\ r.sent = q.sent
      BY <1>3, <3>2, Zenon
    <3>4. h = [r EXCEPT !.toolIndexes = [y \in DOMAIN @ \union {call.id} |->
                                           IF y = call.id THEN q.nextToolIndex ELSE @[y]]]
      BY <2>2, <3>2, Zenon DEF O!IndexTool
    <3> HIDE DEF h
    <3> QED
      BY <3>3, <3>4, Zenon
  <2> QED
    BY <2>1, <2>2
<1> HIDE DEF h
<1>5. Begun(h)
  BY <1>3, <1>4 DEF Begun
<1>6. Begun(O!Write(h, O!Chunk("delta", h.toolIndexes[call.id], "tool_use",
              [id |-> call.id, name |-> call.name, arguments |-> call.arguments])))
  BY <1>1, <1>5, ChunkBegun
<1>7. Begun(O!StreamTool(g, call))
  BY <1>6, Zenon DEF O!StreamTool, q, h
<1> QED
  BY <1>2, <1>7

(* A stream of chunks begins with the role of the assistant.               *)
LEMMA ChunksStart == Begun(O!StreamStart)
<1> DEFINE e == O!Chunk("role", -1, "none", <<>>)
           s == Append(<<>>, e)
<1>1. e.type = "role"
  BY DEF O!Chunk
<1> HIDE DEF e
<1>2. s = <<e>>
  OBVIOUS
<1>3. IsSeq(s) /\ Unanswered(s)
  BY <1>1, EmptySent, AppendFacts, AppendUnanswered DEF Final
<1>4. "sent" \in DOMAIN O!StreamStart /\ O!StreamStart.sent = <<e>>
  BY Zenon DEF O!StreamStart, e
<1> HIDE DEF s
<1> QED
  BY <1>2, <1>3, <1>4, Zenon DEF Begun

(* The end of a stream of chunks is the last thing that is written.        *)
LEMMA ChunksEnd ==
  ASSUME NEW g, Begun(g), NEW tokens
  PROVE  "sent" \in DOMAIN O!StreamEnd(g, tokens) /\ EndsWith(O!StreamEnd(g, tokens).sent, "[DONE]")
<1> DEFINE d == O!Chunk("finish", tokens, O!FinishReason(g.hasToolCall), <<>>)
           h == O!Write(g, d)
           e == O!Chunk("[DONE]", -1, "none", <<>>)
<1>1. "finish" \notin Final /\ e.type = "[DONE]"
  BY DEF O!Chunk, Final
<1>2. Begun(h)
  BY <1>1, ChunkBegun
<1> HIDE DEF h, e
<1>3. O!StreamEnd(g, tokens) = O!Write(h, e)
  BY Zenon DEF O!StreamEnd, h, e
<1>4. O!Write(h, e).sent = Append(h.sent, e) /\ "sent" \in DOMAIN O!Write(h, e)
  BY <1>2, Zenon DEF O!Write, Begun
<1>5. EndsWith(Append(h.sent, e), "[DONE]")
  BY <1>1, <1>2, AppendFacts DEF EndsWith, Begun
<1> QED
  BY <1>3, <1>4, <1>5, Zenon

(* A message is written at the end and not before.                         *)
LEMMA MessagesSilent ==
  ASSUME NEW g, Silent(g), NEW text, NEW call
  PROVE  /\ Silent(A!JsonText(g, text)) /\ Silent(A!JsonThinking(g, text))
         /\ Silent(A!JsonTool(g, call))
         /\ Silent(O!JsonText(g, text)) /\ Silent(O!JsonThinking(g, text))
         /\ Silent(O!JsonTool(g, call))
<1>1. Silent(A!JsonText(g, text)) /\ Silent(A!JsonThinking(g, text))
  BY Zenon DEF Silent, A!JsonText, A!JsonThinking
<1>2. Silent(O!JsonText(g, text)) /\ Silent(O!JsonThinking(g, text))
  BY Zenon DEF Silent, O!JsonText, O!JsonThinking
<1>3. Silent(A!JsonTool(g, call))
  BY Zenon DEF Silent, A!JsonTool
<1>4. Silent(O!JsonTool(g, call))
  BY Zenon DEF Silent, O!JsonTool
<1> QED
  BY <1>1, <1>2, <1>3, <1>4

(* The message starts empty.                                               *)
LEMMA MessagesStart == Silent(A!JsonStart) /\ Silent(O!JsonStart)
  BY DEF Silent, A!JsonStart, O!JsonStart

(* Its end is the whole of it.                                             *)
LEMMA MessagesEnd ==
  ASSUME NEW g, Silent(g), NEW tokens
  PROVE  /\ "sent" \in DOMAIN A!JsonEnd(g, tokens) /\ EndsWith(A!JsonEnd(g, tokens).sent, "message")
         /\ "sent" \in DOMAIN O!JsonEnd(g, tokens) /\ EndsWith(O!JsonEnd(g, tokens).sent, "completion")
<1> DEFINE d == [type |-> "message", text |-> g.text, thinking |-> g.thinking,
                 tools |-> A!ToolsInOrder(g), stop |-> A!StopReason(g.order # <<>>),
                 tokens |-> tokens]
           e == [type |-> "completion", text |-> g.text, thinking |-> g.thinking,
                 tools |-> O!ToolCalls(g), stop |-> O!FinishReason(g.order # <<>>),
                 tokensAtLeast |-> tokens]
<1>1. d.type = "message" /\ e.type = "completion"
  BY Zenon
<1>2. A!JsonEnd(g, tokens) = A!Write(g, d) /\ O!JsonEnd(g, tokens) = O!Write(g, e)
  BY Zenon DEF A!JsonEnd, O!JsonEnd
<1> HIDE DEF d, e
<1>3. /\ "sent" \in DOMAIN A!Write(g, d) /\ A!Write(g, d).sent = Append(<<>>, d)
      /\ "sent" \in DOMAIN O!Write(g, e) /\ O!Write(g, e).sent = Append(<<>>, e)
  BY Zenon DEF Silent, A!Write, O!Write
<1>4. EndsWith(Append(<<>>, d), "message") /\ EndsWith(Append(<<>>, e), "completion")
  <2>1. EndsWith(Append(<<>>, d), d.type) /\ EndsWith(Append(<<>>, e), e.type)
    BY EmptySent, AppendEnds
  <2> QED
    BY <1>1, <2>1, Zenon
<1> QED
  BY <1>2, <1>3, <1>4, Zenon

-----------------------------------------------------------------------------
(* What a formatter may have written while it waits for the next event.    *)

Forming(g, ids) ==
  /\ IsBlockStream => Blocks(g, ids)
  /\ format # "anthropic" /\ streaming => Begun(g)
  /\ ~streaming => Silent(g)

(* What may have been written at any time.                                 *)
Sound(g) ==
  /\ "sent" \in DOMAIN g /\ IsSeq(g.sent)
  /\ IsBlockStream => WellFormed(g.sent)

(* What has been written when the answer is whole.                         *)
Finished(g) == Sound(g) /\ \E type \in Final : EndsWith(g.sent, type)

(* Formatters that are at work have not answered.                          *)
LEMMA FormingMeans ==
  ASSUME NEW g, NEW ids, Forming(g, ids)
  PROVE  Sound(g) /\ Unanswered(g.sent)
<1>1. CASE IsBlockStream
  <2>1. PICK s, b, t, k, m, u : g = Rec(s, b, t, k, m, u) /\ Shape(s, b, t, k, m)
    BY <1>1 DEF Forming, Blocks
  <2>2. g.sent = s /\ "sent" \in DOMAIN g
    BY <2>1, RecFields
  <2> QED
    BY <2>1, <2>2 DEF Shape, Core, Sound
<1>2. CASE ~IsBlockStream /\ streaming
  BY <1>2 DEF Forming, IsBlockStream, Begun, Sound
<1>3. CASE ~streaming
  BY <1>3, EmptySent DEF Forming, Silent, Sound
<1> QED
  BY <1>1, <1>2, <1>3

(* The four forms of a formatter, as implications.                         *)
LEMMA FormsOf ==
  ASSUME format \in {"anthropic", "openai"}, NEW text, NEW call
  PROVE  /\ IsBlockStream =>
              /\ Start = A!StreamStart
              /\ Text(text) = A!StreamText(f, text)
              /\ Thinking(text) = A!StreamThinking(f, text)
              /\ Tool(call) = A!StreamTool(f, call)
              /\ Ends = {A!StreamEnd(f, ids, usage) : ids \in SetToSeqs(DOMAIN f.toolBlocks)}
         /\ format # "anthropic" /\ streaming =>
              /\ Start = O!StreamStart
              /\ Text(text) = O!StreamText(f, text)
              /\ Thinking(text) = O!StreamThinking(f, text)
              /\ Tool(call) = O!StreamTool(f, call)
              /\ Ends = {O!StreamEnd(f, usage)}
         /\ format = "anthropic" /\ ~streaming =>
              /\ Start = A!JsonStart
              /\ Text(text) = A!JsonText(f, text)
              /\ Thinking(text) = A!JsonThinking(f, text)
              /\ Tool(call) = A!JsonTool(f, call)
              /\ Ends = {A!JsonEnd(f, usage)}
         /\ format # "anthropic" /\ ~streaming =>
              /\ Start = O!JsonStart
              /\ Text(text) = O!JsonText(f, text)
              /\ Thinking(text) = O!JsonThinking(f, text)
              /\ Tool(call) = O!JsonTool(f, call)
              /\ Ends = {O!JsonEnd(f, usage)}
<1>1. CASE format = "anthropic" /\ streaming
  BY <1>1, Zenon DEF IsBlockStream, Start, Text, Thinking, Tool, Ends
<1>2. CASE format = "openai" /\ streaming
  BY <1>2, Zenon DEF IsBlockStream, Start, Text, Thinking, Tool, Ends
<1>3. CASE format = "anthropic" /\ ~streaming
  BY <1>3, Zenon DEF IsBlockStream, Start, Text, Thinking, Tool, Ends
<1>4. CASE format = "openai" /\ ~streaming
  BY <1>4, Zenon DEF IsBlockStream, Start, Text, Thinking, Tool, Ends
<1> QED
  BY <1>1, <1>2, <1>3, <1>4, Zenon

(* A formatter starts without an open tool block.                          *)
LEMMA StartForms ==
  ASSUME format \in {"anthropic", "openai"}
  PROVE  Forming(Start, {})
<1>1. IsBlockStream => Blocks(Start, {})
  BY FormsOf, StartBlocks
<1>2. format # "anthropic" /\ streaming => Begun(Start)
  BY FormsOf, ChunksStart
<1>3. ~streaming => Silent(Start)
  BY FormsOf, MessagesStart
<1> QED
  BY <1>1, <1>2, <1>3 DEF Forming

(* Text and thinking leave the tool blocks open that are.                  *)
LEMMA TextForms ==
  ASSUME format \in {"anthropic", "openai"}, NEW ids, Forming(f, ids), NEW text
  PROVE  Forming(Text(text), ids) /\ Forming(Thinking(text), ids)
<1>1. IsBlockStream => Blocks(Text(text), ids) /\ Blocks(Thinking(text), ids)
  BY FormsOf, TextBlocks, ThinkingBlocks DEF Forming
<1>2. format # "anthropic" /\ streaming => Begun(Text(text)) /\ Begun(Thinking(text))
  BY FormsOf, ChunksBegun DEF Forming
<1>3. ~streaming => Silent(Text(text)) /\ Silent(Thinking(text))
  BY FormsOf, MessagesSilent DEF Forming
<1> QED
  BY <1>1, <1>2, <1>3 DEF Forming

(* A tool event opens its block or closes it.                              *)
LEMMA ToolForms ==
  ASSUME format \in {"anthropic", "openai"}, NEW ids, Forming(f, ids), NEW call
  PROVE  /\ call.done => Forming(Tool(call), ids \ {call.id})
         /\ ~call.done => Forming(Tool(call), ids \union {call.id})
<1>1. IsBlockStream => /\ call.done => Blocks(Tool(call), ids \ {call.id})
                       /\ ~call.done => Blocks(Tool(call), ids \union {call.id})
  <2> SUFFICES ASSUME IsBlockStream
               PROVE  /\ call.done => Blocks(Tool(call), ids \ {call.id})
                      /\ ~call.done => Blocks(Tool(call), ids \union {call.id})
    BY Zenon
  <2>1. Blocks(f, ids) /\ Tool(call) = A!StreamTool(f, call)
    BY FormsOf DEF Forming
  <2>2. /\ call.done => Blocks(A!StreamTool(f, call), ids \ {call.id})
        /\ ~call.done => Blocks(A!StreamTool(f, call), ids \union {call.id})
    BY <2>1, ToolBlocks, Zenon
  <2> QED
    BY <2>1, <2>2, Zenon
<1>2. format # "anthropic" /\ streaming => Begun(Tool(call))
  BY FormsOf, ChunksBegun DEF Forming
<1>3. ~streaming => Silent(Tool(call))
  BY FormsOf, MessagesSilent DEF Forming
<1> QED
  BY <1>1, <1>2, <1>3, Zenon DEF Forming

(* What every formatter writes at the end is a whole answer.               *)
LEMMA EndForms ==
  ASSUME format \in {"anthropic", "openai"}, NEW ids, Forming(f, ids), NEW g \in Ends
  PROVE  Finished(g) /\ (IsBlockStream => DOMAIN f.toolBlocks = ids)
<1>0. "message_stop" \in Final /\ "[DONE]" \in Final /\ "message" \in Final /\ "completion" \in Final
  BY DEF Final
<1>1. ASSUME IsBlockStream PROVE Finished(g) /\ DOMAIN f.toolBlocks = ids
  <2>1. DOMAIN f.toolBlocks = ids
    BY <1>1, RecFields DEF Forming, Blocks
  <2>2. PICK order \in SetToSeqs(ids) : g = A!StreamEnd(f, order, usage)
    BY <1>1, <2>1, FormsOf
  <2>3. "sent" \in DOMAIN g /\ WellFormed(g.sent) /\ EndsWith(g.sent, "message_stop")
    BY <1>1, <2>2, EndBlocks DEF Forming
  <2> QED
    BY <1>0, <2>1, <2>3 DEF Finished, Sound, EndsWith
<1>2. ASSUME format # "anthropic", streaming PROVE Finished(g)
  <2>1. g = O!StreamEnd(f, usage)
    BY <1>2, FormsOf
  <2>2. "sent" \in DOMAIN g /\ EndsWith(g.sent, "[DONE]")
    BY <1>2, <2>1, ChunksEnd DEF Forming
  <2> QED
    BY <1>0, <1>2, <2>2 DEF Finished, Sound, EndsWith, IsBlockStream
<1>3. ASSUME ~streaming PROVE Finished(g)
  <2>1. g = A!JsonEnd(f, usage) \/ g = O!JsonEnd(f, usage)
    BY <1>3, FormsOf
  <2>2. "sent" \in DOMAIN g /\ (EndsWith(g.sent, "message") \/ EndsWith(g.sent, "completion"))
    BY <1>3, <2>1, MessagesEnd DEF Forming
  <2> QED
    BY <1>0, <1>3, <2>2 DEF Finished, Sound, EndsWith, IsBlockStream
<1> QED
  BY <1>1, <1>2, <1>3 DEF IsBlockStream

-----------------------------------------------------------------------------
(* The invariant.                                                          *)

Writing == {"next", "feed", "flush", "end"}

(* The two routes pass different places.                                   *)
Routed ==
  /\ format \in {"anthropic", "openai"} /\ streaming \in BOOLEAN /\ leased \in BOOLEAN
  /\ route \in {"chat", "web_search"}
  /\ pc \in {"start", "close", "search", "call", "failed", "done"} \union Writing
  /\ pc \in {"start", "close"} \union Writing => route = "chat"
  /\ pc \in {"search", "call"} => route = "web_search"

(* What has become of a search.                                            *)
SearchTold ==
  IF leased THEN \/ reports = <<"success">> /\ (cause # "none" <=> gone)
                 \/ reports = <<Reason(cause)>> /\ cause # "none" /\ ~gone
  ELSE reports = <<>> /\ cause # "none" /\ ~gone

(* The pool is told at the end, for a search once the call has ended.      *)
Told ==
  /\ route = "chat" => leased
  /\ pc = "search" => ~leased
  /\ pc = "call" => leased
  /\ pc # "done" /\ route = "chat" => reports = <<>>
  /\ pc \in {"search", "call"} => reports = <<>>
  /\ pc = "done" /\ route = "chat" =>
       reports = <<IF cause = "none" THEN "success" ELSE Reason(cause)>>
  /\ pc \in {"failed", "done"} /\ route = "web_search" => SearchTold
  /\ reports = <<>> \/ \E v : reports = <<v>>

(* Nothing is wrong until a request has failed.                            *)
Blamed ==
  /\ cause \in Categories \union {"none"} /\ gone \in BOOLEAN
  /\ pc \notin {"failed", "done"} => cause = "none" /\ ~gone
  /\ pc = "failed" => cause # "none"
  /\ gone => cause # "none"

(* The status says that an answer was begun.                               *)
StatusTells == status = 200 <=> (Answered \/ (streaming /\ route = "chat"))

(* What has been written, and under which status.                          *)
Written ==
  /\ status \in {0, 200, 400, 401, 502}
  /\ pc \in {"start", "search", "call"} => f = [sent |-> <<>>] /\ status = 0
  /\ pc = "start" => observed.pendingTools = {}
  /\ pc \in Writing => /\ \E ids : Forming(f, ids) /\ observed.pendingTools \subseteq ids
                       /\ status = IF streaming THEN 200 ELSE 0
  /\ pc = "close" => Finished(f) /\ status = 200
  /\ pc = "failed" => Sound(f) /\ (~gone => StatusTells)
  /\ pc = "done" => Sound(f)
  /\ pc = "done" /\ ~gone => StatusTells /\ IF cause = "none" THEN Finished(f)
                                            ELSE EndsWith(f.sent, "error")

(* What has been read.                                                     *)
Heard ==
  /\ received \in Seq(Frames) /\ lost \in {0, 12} /\ usage \in Nat
  /\ "output" \in DOMAIN observed /\ "pendingTools" \in DOMAIN observed
  /\ NoId \notin observed.pendingTools
  /\ usage # 0 => usage = observed.output

PathInv == Routed /\ Told /\ Blamed /\ Written /\ Heard

-----------------------------------------------------------------------------
(* The ways on.                                                            *)

(* A write ends in the state that was meant, or the client is gone.        *)
LEMMA WritesCases ==
  ASSUME Sound(f), NEW g, Sound(g), NEW next, Writes(g, next), UNCHANGED requestVars
  PROVE  \/ /\ f' = g /\ pc' = next /\ gone' = gone /\ cause' = cause
            /\ status' = IF status = 0 /\ Len(g.sent) > Len(f.sent) THEN 200 ELSE status
         \/ /\ Sound(f)' /\ gone' = TRUE /\ pc' = "failed" /\ cause' = "unknown"
            /\ status' = IF status = 0 THEN 200 ELSE status
<1>1. CASE /\ f' = g
           /\ status' = IF status = 0 /\ Len(g.sent) > Len(f.sent) THEN 200 ELSE status
           /\ pc' = next
           /\ UNCHANGED <<gone, cause>>
  BY <1>1
<1>2. ASSUME NEW n \in Len(f.sent)..(Len(g.sent) - 1),
             f' = [f EXCEPT !.sent = SubSeq(g.sent, 1, n)],
             status' = IF status = 0 THEN 200 ELSE status,
             gone' = TRUE,
             Fails("unknown")
      PROVE  Sound(f)'
  <2>1. f'.sent = SubSeq(g.sent, 1, n) /\ "sent" \in DOMAIN f'
    BY <1>2, Zenon DEF Sound
  <2>2. n \in 0..Len(g.sent)
    <3>1. Len(f.sent) \in Nat /\ Len(g.sent) \in Nat
      BY AppendFacts DEF Sound
    <3> QED
      BY <3>1
  <2>3. IsSeq(f'.sent) /\ (IsBlockStream => WellFormed(f'.sent))
    BY <2>1, <2>2, PrefixFacts, PrefixWellFormed DEF Sound
  <2> QED
    BY <2>1, <2>3, Zenon DEF Sound, IsBlockStream, requestVars, WellFormed
<1> QED
  BY <1>1, <1>2, Zenon DEF Writes, Fails

(* The places are different.                                               *)
LEMMA Places ==
  /\ "next" \in Writing /\ "feed" \in Writing /\ "flush" \in Writing /\ "end" \in Writing
  /\ \A p \in Writing : p \notin {"start", "close", "search", "call", "failed", "done"}
  BY DEF Writing

(* A formatter that has written on, or whose client is gone.               *)
LEMMA WriteStep ==
  ASSUME PathInv, pc \in Writing, NEW g, NEW ids, Forming(g, ids), NEW next \in Writing,
         Writes(g, next), UNCHANGED <<requestVars, reports>>, Heard',
         observed'.pendingTools \subseteq ids
  PROVE  PathInv'
<1>1. PICK old : Forming(f, old)
  BY DEF PathInv, Written
<1>2. Sound(f) /\ Sound(g)
  BY <1>1, FormingMeans
<1>3. /\ cause = "none" /\ ~gone /\ route = "chat" /\ leased /\ reports = <<>>
      /\ status = IF streaming THEN 200 ELSE 0
  BY Places DEF PathInv, Routed, Told, Blamed, Written
<1>4. CASE /\ f' = g /\ pc' = next /\ gone' = gone /\ cause' = cause
           /\ status' = IF status = 0 /\ Len(g.sent) > Len(f.sent) THEN 200 ELSE status
  <2>1. status' = status
    <3>1. CASE streaming
      BY <1>3, <1>4, <3>1
    <3>2. CASE ~streaming
      <4>1. f.sent = <<>> /\ g.sent = <<>>
        BY <1>1, <3>2 DEF Forming, Silent
      <4> QED
        BY <1>4, <4>1
    <3> QED
      BY <3>1, <3>2
  <2>2. Forming(f, ids)'
    BY <1>4 DEF Forming, IsBlockStream, requestVars
  <2>3. Routed'
    BY <1>3, <1>4, Places DEF PathInv, Routed, requestVars
  <2>4. Told'
    BY <1>3, <1>4, Places DEF Told, requestVars
  <2>5. Blamed'
    BY <1>3, <1>4, Places DEF PathInv, Blamed
  <2>6. Written'
    BY <1>3, <1>4, <2>1, <2>2, Places DEF PathInv, Written, requestVars
  <2> QED
    BY <2>3, <2>4, <2>5, <2>6 DEF PathInv
<1>5. CASE /\ Sound(f)' /\ gone' = TRUE /\ pc' = "failed" /\ cause' = "unknown"
           /\ status' = IF status = 0 THEN 200 ELSE status
  <2>1. Routed'
    BY <1>3, <1>5, Places DEF PathInv, Routed, requestVars
  <2>2. Told'
    BY <1>3, <1>5 DEF Told, requestVars
  <2>3. Blamed'
    BY <1>3, <1>5 DEF Blamed, Categories
  <2>4. Written'
    BY <1>3, <1>5, Places DEF PathInv, Written, requestVars
  <2> QED
    BY <2>1, <2>2, <2>3, <2>4 DEF PathInv
<1> QED
  BY <1>2, <1>4, <1>5, WritesCases DEF requestVars

(* A step of the formatter that writes nothing.                            *)
LEMMA QuietStep ==
  ASSUME PathInv, pc \in Writing, pc' \in Writing, Heard',
         UNCHANGED <<requestVars, clientVars, cause, reports>>,
         observed'.pendingTools \subseteq observed.pendingTools
  PROVE  PathInv'
<1>1. PICK ids : Forming(f, ids) /\ observed.pendingTools \subseteq ids
  BY DEF PathInv, Written
<1>2. Forming(f, ids)'
  BY <1>1 DEF Forming, IsBlockStream, requestVars, clientVars
<1>3. Routed'
  BY Places DEF PathInv, Routed, requestVars
<1>4. Told'
  BY Places DEF PathInv, Told, requestVars
<1>5. Blamed'
  BY Places DEF PathInv, Blamed, clientVars
<1>6. Written'
  BY <1>1, <1>2, Places DEF PathInv, Written, requestVars, clientVars
<1> QED
  BY <1>3, <1>4, <1>5, <1>6 DEF PathInv

(* Something has gone wrong, and nothing was written since.                *)
LEMMA FailStep ==
  ASSUME PathInv, pc \in Writing \union {"close", "search", "call"}, NEW category \in Categories,
         Fails(category), UNCHANGED <<requestVars, clientVars>>, Heard',
         IF pc = "call" THEN reports' = <<Reason(category)>> ELSE reports' = reports
  PROVE  PathInv'
<1>1. cause = "none" /\ ~gone /\ pc' = "failed" /\ cause' = category /\ category # "none"
  BY Places DEF PathInv, Blamed, Fails, Categories
<1>2. Sound(f) /\ StatusTells
  <2>1. CASE pc \in Writing
    <3>1. PICK ids : Forming(f, ids)
      BY <2>1 DEF PathInv, Written
    <3>2. Sound(f) /\ ~Answered
      BY <3>1, FormingMeans DEF Unanswered, Answered
    <3>3. status = 200 <=> streaming
      BY <2>1 DEF PathInv, Written
    <3>4. route = "chat"
      BY <2>1 DEF PathInv, Routed
    <3> QED
      BY <3>2, <3>3, <3>4 DEF StatusTells
  <2>2. CASE pc = "close"
    <3>1. Finished(f) /\ status = 200
      BY <2>2 DEF PathInv, Written
    <3>2. Len(f.sent) \in DOMAIN f.sent
      BY <3>1, AppendFacts DEF Finished, EndsWith
    <3>3. Answered
      BY <3>1, <3>2 DEF Finished, EndsWith, Answered
    <3> QED
      BY <3>1, <3>3 DEF Finished, StatusTells
  <2>3. CASE pc \in {"search", "call"}
    <3>1. f = [sent |-> <<>>] /\ status = 0 /\ route = "web_search"
      BY <2>3 DEF PathInv, Written, Routed
    <3>2. "sent" \in DOMAIN f /\ f.sent = <<>>
      BY <3>1
    <3> QED
      BY <3>1, <3>2, EmptySent DEF StatusTells, Answered, Sound, Unanswered
  <2> QED
    BY <2>1, <2>2, <2>3
<1>3. Routed'
  BY <1>1, Places DEF PathInv, Routed, requestVars
<1>4. Told'
  <2>1. PICK v : v = Reason(category)
    BY Zenon
  <2>2. gone' = gone /\ UNCHANGED <<route, leased>>
    BY DEF clientVars, requestVars
  <2>3. CASE pc = "call"
    <3>1. route = "web_search" /\ leased /\ ~gone
      BY <2>3, <1>1 DEF PathInv, Told, Routed
    <3>2. reports' = <<v>>
      BY <2>1, <2>3, Zenon
    <3>3. SearchTold'
      BY <1>1, <2>1, <2>2, <3>1, <3>2, Zenon DEF SearchTold
    <3> QED
      BY <1>1, <2>2, <3>1, <3>2, <3>3 DEF Told
  <2>4. CASE pc = "search"
    <3>1. route = "web_search" /\ ~leased /\ reports = <<>>
      BY <2>4 DEF PathInv, Told, Routed
    <3>2. SearchTold'
      BY <1>1, <2>2, <2>4, <3>1 DEF SearchTold
    <3> QED
      BY <1>1, <2>2, <2>4, <3>1, <3>2 DEF Told
  <2>5. CASE pc \in Writing \union {"close"}
    <3>1. route = "chat" /\ leased /\ reports = <<>> /\ pc # "call"
      BY <2>5, Places DEF PathInv, Told, Routed
    <3> QED
      BY <1>1, <2>2, <3>1 DEF Told
  <2> QED
    BY <2>3, <2>4, <2>5
<1>5. Blamed'
  BY <1>1 DEF PathInv, Blamed, clientVars
<1>6. Sound(f)' /\ StatusTells'
  BY <1>2 DEF Sound, StatusTells, Answered, IsBlockStream, requestVars, clientVars
<1>7. Written'
  BY <1>1, <1>6, Places DEF PathInv, Written, clientVars
<1> QED
  BY <1>3, <1>4, <1>5, <1>7 DEF PathInv

-----------------------------------------------------------------------------
(* The frames.                                                             *)

Kinds == {"none", "metadata", "text", "reasoning", "tool_call", "usage", "error"}

(* What Next makes of a frame.                                             *)
LEMMA DecodeFacts ==
  ASSUME NEW frame \in Frames
  PROVE  /\ S!Decode(frame).type \in Kinds
         /\ S!Decode(frame).type = "text" => S!Decode(frame).text \in Seq(STRING)
         /\ S!Decode(frame).type = "usage" => S!Decode(frame).output \in Nat
         /\ S!Decode(frame).type = "error" => S!Decode(frame).category \in Categories
<1> DEFINE e == S!Decode(frame)
           Good(x) == /\ x.type \in Kinds
                      /\ x.type = "text" => x.text \in Seq(STRING)
                      /\ x.type = "usage" => x.output \in Nat
                      /\ x.type = "error" => x.category \in Categories
<1>1. PICK script \in Scripts : frame \in script.frames
  BY DEF Frames
<1>2. /\ frame.type \in {"assistantResponseEvent", "reasoningContentEvent"} =>
           frame.text \in Seq(STRING)
      /\ frame.type = "metadataEvent" => frame.output \in Nat
  BY <1>1, FramesAssumption
<1>3. Good(S!Nothing)
  BY DEF S!Nothing, Kinds
<1>4. CASE frame.type = "initial-response"
  <2>1. \/ e = S!Nothing
        \/ e = [type |-> "metadata", conversation |-> frame.conversation, context |-> 0]
    BY <1>4, Zenon DEF S!Decode
  <2> HIDE DEF e
  <2> QED
    BY <1>3, <2>1 DEF Kinds, e
<1>5. CASE frame.type = "assistantResponseEvent"
  <2>1. e = S!Nothing \/ e = [type |-> "text", text |-> frame.text]
    BY <1>5, Zenon DEF S!Decode
  <2> HIDE DEF e
  <2> QED
    BY <1>2, <1>3, <1>5, <2>1 DEF Kinds, e
<1>6. CASE frame.type = "reasoningContentEvent"
  <2>1. e = S!Nothing \/ e = [type |-> "reasoning", text |-> frame.text]
    BY <1>6, Zenon DEF S!Decode
  <2> HIDE DEF e
  <2> QED
    BY <1>3, <2>1 DEF Kinds, e
<1>7. CASE frame.type = "toolUseEvent"
  <2>1. e = [type |-> "tool_call", call |-> frame.call]
    BY <1>7, Zenon DEF S!Decode
  <2> HIDE DEF e
  <2> QED
    BY <2>1 DEF Kinds, e
<1>8. CASE frame.type = "metadataEvent"
  <2>1. e = [type |-> "usage", output |-> frame.output]
    BY <1>8, Zenon DEF S!Decode
  <2> HIDE DEF e
  <2> QED
    BY <1>2, <1>8, <2>1 DEF Kinds, e
<1>9. CASE frame.type = "contextUsageEvent"
  <2>1. \/ e = S!Nothing
        \/ e = [type |-> "metadata", conversation |-> 0, context |-> frame.percentage]
    BY <1>9, Zenon DEF S!Decode
  <2> HIDE DEF e
  <2> QED
    BY <1>3, <2>1 DEF Kinds, e
<1>10. CASE frame.type = "meteringEvent"
  <2>1. e = [type |-> "usage", output |-> 0]
    BY <1>10, Zenon DEF S!Decode
  <2> HIDE DEF e
  <2> QED
    BY <2>1 DEF Kinds, e
<1>11. CASE frame.type \notin {"initial-response", "assistantResponseEvent", "toolUseEvent",
                               "reasoningContentEvent", "metadataEvent", "contextUsageEvent",
                               "meteringEvent"}
  <2>1. PICK word : word = S!Classified(frame.words)
    OBVIOUS
  <2>2. word \in Categories
    BY <2>1 DEF S!Classified, S!DetectSignal, Categories
  <2>3. e = S!Nothing \/ e = [type |-> "error", category |-> word]
    BY <1>11, <2>1, Zenon DEF S!Decode
  <2> HIDE DEF e
  <2> QED
    BY <1>3, <2>2, <2>3 DEF Kinds, e
<1> QED
  BY <1>4, <1>5, <1>6, <1>7, <1>8, <1>9, <1>10, <1>11, Zenon

(* What observedStream makes of an event.                                  *)
LEMMA ObserveFacts ==
  ASSUME NEW o, "output" \in DOMAIN o, "pendingTools" \in DOMAIN o, NoId \notin o.pendingTools,
         NEW e
  PROVE  /\ "output" \in DOMAIN S!Observe(o, e) /\ "pendingTools" \in DOMAIN S!Observe(o, e)
         /\ NoId \notin S!Observe(o, e).pendingTools
         /\ e.type # "usage" => S!Observe(o, e).output = o.output
         /\ e.type = "usage" =>
              S!Observe(o, e).output = IF e.output > 0 THEN e.output ELSE o.output
         /\ e.type # "tool_call" => S!Observe(o, e).pendingTools = o.pendingTools
         /\ e.type = "tool_call" /\ e.call.done =>
              S!Observe(o, e).pendingTools \subseteq (o.pendingTools \union {e.call.id}) \ {e.call.id}
         /\ e.type = "tool_call" /\ ~e.call.done =>
              S!Observe(o, e).pendingTools \subseteq o.pendingTools \union {e.call.id}
<1> DEFINE p == S!Observe(o, e)
<1>1. CASE e.type = "text"
  <2>1. p = [o EXCEPT !.text = TRUE]
    BY <1>1, Zenon DEF S!Observe
  <2> QED
    BY <1>1, <2>1, Zenon
<1>2. CASE e.type = "usage"
  <2>1. PICK n : n = IF e.output > 0 THEN e.output ELSE o.output
    BY Zenon
  <2>2. p = [o EXCEPT !.output = n, !.hasUsage = TRUE]
    BY <1>2, <2>1, Zenon DEF S!Observe, S!ObserveUsage
  <2> HIDE DEF p
  <2>3. p.output = n /\ p.pendingTools = o.pendingTools
        /\ "output" \in DOMAIN p /\ "pendingTools" \in DOMAIN p
    BY <2>2, Zenon
  <2> QED
    BY <1>2, <2>1, <2>3, Zenon DEF p
<1>3. CASE e.type = "metadata"
  <2>1. PICK c : c = IF e.conversation # 0 THEN e.conversation ELSE o.conversation
    BY Zenon
  <2>2. PICK x : x = IF e.context > 0 THEN e.context ELSE o.context
    BY Zenon
  <2>3. p = S!ObserveMetadata(o, e)
    BY <1>3, Zenon DEF S!Observe
  <2>4. /\ p.output = o.output /\ p.pendingTools = o.pendingTools
        /\ "output" \in DOMAIN p /\ "pendingTools" \in DOMAIN p
    BY <2>3, Zenon DEF S!ObserveMetadata
  <2> QED
    BY <1>3, <2>4, Zenon
<1>4. CASE e.type = "tool_call"
  <2>1. PICK started : /\ started \subseteq {e.call.id} \ {NoId}
                       /\ started = IF e.call.name = NoName THEN {} ELSE {e.call.id} \ {NoId}
    <3>1. CASE e.call.name = NoName
      BY <3>1
    <3>2. CASE e.call.name # NoName
      BY <3>2
    <3> QED
      BY <3>1, <3>2
  <2>2. PICK ended : /\ ended = IF e.call.done THEN {e.call.id} \ {NoId} ELSE {}
                     /\ e.call.done => ended = {e.call.id} \ {NoId}
    BY Zenon
  <2>3. PICK pending : pending = (o.pendingTools \union started) \ ended
    BY Zenon
  <2>4. PICK finished : finished = o.finishedTools \union ended
    BY Zenon
  <2>5. p = [o EXCEPT !.pendingTools = pending, !.finishedTools = finished]
    BY <1>4, <2>1, <2>2, <2>3, <2>4, Zenon DEF S!Observe, S!ObserveTool
  <2> HIDE DEF p
  <2>6. /\ p.output = o.output /\ p.pendingTools = pending
        /\ "output" \in DOMAIN p /\ "pendingTools" \in DOMAIN p
    BY <2>5, Zenon
  <2>7. pending \subseteq o.pendingTools \union {e.call.id} /\ NoId \notin pending
    BY <2>1, <2>3
  <2>8. e.call.done => pending \subseteq (o.pendingTools \union {e.call.id}) \ {e.call.id}
    BY <2>1, <2>2, <2>3, <2>7
  <2> QED
    BY <1>4, <2>6, <2>7, <2>8, Zenon DEF p
<1>5. CASE e.type \notin {"text", "usage", "metadata", "tool_call"}
  <2>1. p = o
    BY <1>5, Zenon DEF S!Observe
  <2> QED
    BY <1>5, <2>1, Zenon
<1> QED
  BY <1>1, <1>2, <1>3, <1>4, <1>5, Zenon

-----------------------------------------------------------------------------
(* Every step keeps the invariant.                                         *)

(* A step that reads nothing.                                              *)
LEMMA HeardStays ==
  ASSUME PathInv, UNCHANGED <<upstreamVars, usage>>
  PROVE  Heard'
  BY DEF PathInv, Heard, upstreamVars

(* The first write.                                                        *)
LEMMA BeginKeeps ==
  ASSUME PathInv, Begin
  PROVE  PathInv'
<1>1. /\ pc = "start" /\ status' = (IF streaming THEN 200 ELSE 0)
      /\ UNCHANGED <<splitterVars, requestVars, upstreamVars, usage, reports, truncations>>
  BY DEF Begin
<1>2. Forming(Start, {}) /\ observed.pendingTools = {}
  BY <1>1, StartForms DEF PathInv, Routed, Written
<1>3. /\ route = "chat" /\ leased /\ reports = <<>> /\ cause = "none" /\ ~gone
      /\ f = [sent |-> <<>>]
  BY <1>1, Places DEF PathInv, Routed, Told, Blamed, Written
<1>4. observed' = observed /\ streaming' = streaming /\ status' \in {0, 200, 400, 401, 502}
      /\ route' = route /\ leased' = leased /\ reports' = reports
  BY <1>1 DEF upstreamVars, requestVars
<1>5. Heard'
  BY <1>1, HeardStays
<1>6. CASE f' = Start /\ pc' = "next" /\ UNCHANGED <<gone, cause>>
  <2>1. Forming(f, {})'
    BY <1>1, <1>2, <1>6 DEF Forming, IsBlockStream, requestVars
  <2>2. Routed'
    BY <1>1, <1>6, Places DEF PathInv, Routed, requestVars
  <2>3. Told'
    BY <1>3, <1>4, <1>6, Places DEF Told
  <2>4. Blamed'
    BY <1>1, <1>6, Places DEF PathInv, Blamed
  <2>5. \E ids : Forming(f, ids)' /\ observed'.pendingTools \subseteq ids
    BY <1>2, <1>4, <2>1
  <2>6. Written'
    BY <1>1, <1>4, <1>6, <2>5, Places DEF Written
  <2> QED
    BY <1>5, <2>2, <2>3, <2>4, <2>6 DEF PathInv
<1>7. CASE gone' = TRUE /\ Fails("unknown") /\ f' = f
  <2>1. Routed'
    BY <1>1, <1>7, Places DEF PathInv, Routed, Fails, requestVars
  <2>2. Told'
    BY <1>3, <1>4, <1>7 DEF Told, Fails
  <2>3. Blamed'
    BY <1>7 DEF Blamed, Fails, Categories
  <2>4. Sound(f)'
    <3>1. "sent" \in DOMAIN f /\ f.sent = <<>>
      BY <1>3
    <3> QED
      BY <1>7, <3>1, EmptySent DEF Sound
  <2>5. Written'
    BY <1>4, <1>7, <2>4, Places DEF Written, Fails
  <2> QED
    BY <1>5, <2>1, <2>2, <2>3, <2>5 DEF PathInv
<1> QED
  BY <1>6, <1>7, Zenon DEF Begin

(* One frame, with all that is made of it.                                 *)
LEMMA ReadKeeps ==
  ASSUME PathInv, NEW frame \in Frames, ReadFrame(frame)
  PROVE  PathInv'
<1> DEFINE e == S!Decode(frame)
<1>1. /\ pc = "next" /\ received' = Append(received, frame)
      /\ observed' = S!Observe(observed, e)
      /\ Handle(e)
      /\ UNCHANGED <<requestVars, lost, reports, truncations>>
  BY DEF ReadFrame
<1>2. /\ e.type \in Kinds
      /\ e.type = "usage" => e.output \in Nat
      /\ e.type = "error" => e.category \in Categories
  BY DecodeFacts
<1> HIDE DEF e
<1>3. PICK ids : Forming(f, ids) /\ observed.pendingTools \subseteq ids
  BY <1>1, Places DEF PathInv, Written
<1>4. format \in {"anthropic", "openai"} /\ UNCHANGED requestVars /\ UNCHANGED reports
  BY <1>1 DEF PathInv, Routed
<1>5. /\ "output" \in DOMAIN observed' /\ "pendingTools" \in DOMAIN observed'
      /\ NoId \notin observed'.pendingTools
      /\ e.type # "usage" => observed'.output = observed.output
      /\ e.type = "usage" =>
           observed'.output = IF e.output > 0 THEN e.output ELSE observed.output
      /\ e.type # "tool_call" => observed'.pendingTools = observed.pendingTools
      /\ e.type = "tool_call" /\ e.call.done =>
           observed'.pendingTools \subseteq (observed.pendingTools \union {e.call.id}) \ {e.call.id}
      /\ e.type = "tool_call" /\ ~e.call.done =>
           observed'.pendingTools \subseteq observed.pendingTools \union {e.call.id}
  BY <1>1, ObserveFacts, Zenon DEF PathInv, Heard
<1>6. received' \in Seq(Frames) /\ lost' \in {0, 12}
  BY <1>1 DEF PathInv, Heard
<1>7. (usage \in Nat) /\ (usage # 0 => usage = observed.output)
  BY DEF PathInv, Heard
<1>8. ASSUME e.type # "usage", UNCHANGED usage PROVE Heard'
  BY <1>5, <1>6, <1>7, <1>8 DEF Heard
<1>9. CASE e.type \in {"none", "metadata"} /\ UNCHANGED <<splitterVars, pc, clientVars, usage, cause>>
  <2>1. Heard'
    BY <1>8, <1>9
  <2> QED
    BY <1>1, <1>4, <1>5, <1>9, <2>1, QuietStep, Places
<1>10. CASE e.type = "text" /\ pc' = "feed" /\ UNCHANGED <<clientVars, usage, cause>>
  <2>1. Heard'
    BY <1>8, <1>10
  <2> QED
    BY <1>1, <1>4, <1>5, <1>10, <2>1, QuietStep, Places
<1>11. CASE e.type = "reasoning" /\ Writes(Thinking(e.text), "next") /\ UNCHANGED usage
  <2>1. Heard'
    BY <1>8, <1>11
  <2>2. Forming(Thinking(e.text), ids)
    BY <1>3, <1>4, TextForms
  <2>3. observed'.pendingTools \subseteq ids
    BY <1>3, <1>5, <1>11
  <2> QED
    BY <1>1, <1>4, <1>11, <2>1, <2>2, <2>3, WriteStep, Places
<1>12. CASE e.type = "tool_call" /\ Writes(Tool(e.call), "next") /\ UNCHANGED usage
  <2>1. Heard'
    BY <1>8, <1>12
  <2>2. PICK left : Forming(Tool(e.call), left) /\ observed'.pendingTools \subseteq left
    <3>1. ASSUME e.call.done
          PROVE  /\ Forming(Tool(e.call), ids \ {e.call.id})
                 /\ observed'.pendingTools \subseteq ids \ {e.call.id}
      <4>1. Forming(Tool(e.call), ids \ {e.call.id})
        BY <1>3, <1>4, <3>1, ToolForms, Zenon
      <4>2. observed'.pendingTools \subseteq (observed.pendingTools \union {e.call.id}) \ {e.call.id}
        BY <1>5, <1>12, <3>1, Zenon
      <4> QED
        BY <1>3, <4>1, <4>2
    <3>2. ASSUME ~e.call.done
          PROVE  /\ Forming(Tool(e.call), ids \union {e.call.id})
                 /\ observed'.pendingTools \subseteq ids \union {e.call.id}
      <4>1. Forming(Tool(e.call), ids \union {e.call.id})
        BY <1>3, <1>4, <3>2, ToolForms, Zenon
      <4>2. observed'.pendingTools \subseteq observed.pendingTools \union {e.call.id}
        BY <1>5, <1>12, <3>2, Zenon
      <4> QED
        BY <1>3, <4>1, <4>2
    <3> QED
      BY <3>1, <3>2, Zenon
  <2> QED
    BY <1>1, <1>4, <1>12, <2>1, <2>2, WriteStep, Places
<1>13. CASE e.type = "usage" /\ usage' = e.output /\ UNCHANGED <<splitterVars, pc, clientVars, cause>>
  <2>1. (usage' \in Nat) /\ (usage' # 0 => usage' = observed'.output)
    BY <1>2, <1>5, <1>13
  <2>2. Heard'
    BY <1>5, <1>6, <2>1 DEF Heard
  <2> QED
    BY <1>1, <1>4, <1>5, <1>13, <2>2, QuietStep, Places
<1>14. CASE e.type = "error" /\ Fails(e.category) /\ UNCHANGED <<splitterVars, clientVars, usage>>
  <2>1. Heard'
    BY <1>8, <1>14
  <2> QED
    BY <1>1, <1>2, <1>4, <1>14, <2>1, FailStep, Places
<1> QED
  BY <1>1, <1>9, <1>10, <1>11, <1>12, <1>13, <1>14, Zenon DEF Handle

(* What an end without an error has cut off.                               *)
LEMMA CleanEnds ==
  ASSUME NEW available \in Nat, NEW totalLength \in Nat, NEW headersLength \in Nat
  PROVE  S!ReadEventMessage(available, totalLength, headersLength) = "EOF" => available \in {0, 12}
  BY DEF S!ReadEventMessage, S!ReadFull, S!PreludeLen, S!ChecksumLen

(* The end of the connection.                                              *)
LEMMA EofKeeps ==
  ASSUME PathInv, NEW available \in Nat, NEW totalLength \in Nat, NEW headersLength \in Nat,
         EndOfStream(available, totalLength, headersLength)
  PROVE  PathInv'
<1> DEFINE outcome == S!ReadEventMessage(available, totalLength, headersLength)
<1>1. /\ pc = "next"
      /\ lost' = IF outcome = "EOF" THEN available ELSE 0
      /\ IF outcome = "EOF" THEN pc' = "flush" /\ UNCHANGED cause ELSE Fails("unknown")
      /\ UNCHANGED <<splitterVars, requestVars, received, observed, clientVars, usage,
                     reports, truncations>>
  BY DEF EndOfStream
<1>2. outcome = "EOF" => available \in {0, 12}
  BY CleanEnds
<1> HIDE DEF outcome
<1>3. Heard'
  BY <1>1, <1>2 DEF PathInv, Heard
<1>4. CASE outcome = "EOF"
  BY <1>1, <1>3, <1>4, QuietStep, Places
<1>5. CASE outcome # "EOF"
  <2>1. "unknown" \in Categories
    BY DEF Categories
  <2> QED
    BY <1>1, <1>3, <1>5, <2>1, FailStep, Places
<1> QED
  BY <1>4, <1>5

(* A segment of the splitter.                                              *)
LEMMA EmitKeeps ==
  ASSUME PathInv, pc \in Writing, NEW text, NEW next \in Writing, Emit(text, next),
         UNCHANGED <<requestVars, upstreamVars, usage, reports>>
  PROVE  PathInv'
<1>1. Heard' /\ observed' = observed
  BY HeardStays DEF upstreamVars
<1>2. PICK ids : Forming(f, ids) /\ observed.pendingTools \subseteq ids
  BY DEF PathInv, Written
<1>3. format \in {"anthropic", "openai"}
  BY DEF PathInv, Routed
<1>4. Forming(Thinking(text), ids) /\ Forming(Text(text), ids)
  BY <1>2, <1>3, TextForms
<1>5. CASE pc' = next /\ UNCHANGED <<clientVars, cause>>
  BY <1>1, <1>5, QuietStep
<1>6. CASE Writes(Thinking(text), next)
  BY <1>1, <1>2, <1>4, <1>6, WriteStep
<1>7. CASE Writes(Text(text), next)
  BY <1>1, <1>2, <1>4, <1>7, WriteStep
<1>8. \/ pc' = next /\ UNCHANGED <<clientVars, cause>>
      \/ Writes(Thinking(text), next) \/ Writes(Text(text), next)
  BY Zenon DEF Emit
<1> QED
  BY <1>5, <1>6, <1>7, <1>8

(* The two steps of the splitter.                                          *)
LEMMA SplitKeeps ==
  ASSUME PathInv, SplitAtTag \/ SplitRest
  PROVE  PathInv'
<1>1. CASE SplitAtTag
  <2>1. PICK i \in 1..Len(buffer) : Emit(SubSeq(buffer, 1, i - 1), pc)
    BY <1>1, Zenon DEF SplitAtTag
  <2>2. pc \in Writing /\ UNCHANGED <<requestVars, upstreamVars, usage, reports>>
    BY <1>1, Places DEF SplitAtTag
  <2> QED
    BY <2>1, <2>2, EmitKeeps
<1>2. CASE SplitRest
  <2>1. PICK flush, next : next \in Writing /\ Emit(Safe(flush), next)
    <3>1. PICK flush : flush = (pc = "flush")
      BY Zenon
    <3>2. PICK next : next = IF flush THEN "end" ELSE "next"
      BY Zenon
    <3>3. Emit(Safe(flush), next)
      BY <1>2, <3>1, <3>2, Zenon DEF SplitRest
    <3>4. next \in Writing
      BY <3>2, Places, Zenon
    <3> QED
      BY <3>3, <3>4
  <2>2. pc \in Writing /\ UNCHANGED <<requestVars, upstreamVars, usage, reports>>
    BY <1>2, Places DEF SplitRest
  <2> QED
    BY <2>1, <2>2, EmitKeeps
<1> QED
  BY <1>1, <1>2

(* An answer that was written to the end, or whose client is gone.         *)
LEMMA EndKeeps ==
  ASSUME PathInv, End
  PROVE  PathInv'
<1>1. PICK g \in Ends : Writes(g, "close")
  BY DEF End
<1>2. pc = "end" /\ UNCHANGED <<requestVars, upstreamVars, usage, reports>>
  BY DEF End
<1>3. PICK ids : Forming(f, ids)
  BY <1>2, Places DEF PathInv, Written
<1>4. Sound(f) /\ Finished(g) /\ Sound(g)
  BY <1>3, FormingMeans, EndForms DEF PathInv, Routed, Finished
<1>5. /\ cause = "none" /\ ~gone /\ route = "chat" /\ leased /\ reports = <<>>
      /\ status = IF streaming THEN 200 ELSE 0
  BY <1>2, Places DEF PathInv, Routed, Told, Blamed, Written
<1>6. Heard'
  BY <1>2, HeardStays
<1>7. CASE /\ f' = g /\ pc' = "close" /\ gone' = gone /\ cause' = cause
           /\ status' = IF status = 0 /\ Len(g.sent) > Len(f.sent) THEN 200 ELSE status
  <2>1. status' = 200
    <3>1. CASE streaming
      BY <1>5, <1>7, <3>1
    <3>2. CASE ~streaming
      <4>1. f.sent = <<>> /\ Len(g.sent) > 0
        BY <1>3, <1>4, <3>2 DEF Forming, Silent, Finished, EndsWith
      <4>2. Len(<<>>) = 0
        OBVIOUS
      <4>3. status = 0
        BY <1>5, <3>2
      <4>4. Len(g.sent) > Len(f.sent)
        BY <4>1, <4>2, Zenon
      <4> QED
        BY <1>7, <4>3, <4>4
    <3> QED
      BY <3>1, <3>2
  <2>2. Finished(f)'
    BY <1>2, <1>4, <1>7 DEF Finished, Sound, IsBlockStream, requestVars
  <2>3. Routed'
    BY <1>2, <1>5, <1>7, Places DEF PathInv, Routed, requestVars
  <2>4. Told'
    BY <1>2, <1>5, <1>7, Places DEF Told, requestVars
  <2>5. Blamed'
    BY <1>5, <1>7, Places DEF PathInv, Blamed
  <2>6. Written'
    BY <1>7, <2>1, <2>2, Places DEF Written
  <2> QED
    BY <1>6, <2>3, <2>4, <2>5, <2>6 DEF PathInv
<1>8. CASE /\ Sound(f)' /\ gone' = TRUE /\ pc' = "failed" /\ cause' = "unknown"
           /\ status' = IF status = 0 THEN 200 ELSE status
  <2>1. Routed'
    BY <1>2, <1>5, <1>8, Places DEF PathInv, Routed, requestVars
  <2>2. Told'
    BY <1>2, <1>5, <1>8 DEF Told, requestVars
  <2>3. Blamed'
    BY <1>5, <1>8 DEF Blamed, Categories
  <2>4. Written'
    BY <1>5, <1>8, Places DEF PathInv, Written, requestVars
  <2> QED
    BY <1>6, <2>1, <2>2, <2>3, <2>4 DEF PathInv
<1> QED
  BY <1>1, <1>2, <1>4, <1>7, <1>8, WritesCases

(* The report of a success, and a stream that cannot be closed.            *)
LEMMA CloseKeeps ==
  ASSUME PathInv, Succeed \/ CloseFails
  PROVE  PathInv'
<1>1. CASE Succeed
  <2>1. /\ pc = "close" /\ pc' = "done" /\ reports' = Append(reports, "success")
        /\ UNCHANGED <<requestVars, upstreamVars, clientVars, usage, cause>>
    BY <1>1 DEF Succeed, Report
  <2>2. /\ cause = "none" /\ ~gone /\ route = "chat" /\ leased /\ reports = <<>>
        /\ Finished(f) /\ status = 200
    BY <2>1, Places DEF PathInv, Routed, Told, Blamed, Written
  <2>3. Answered
    <3>1. Len(f.sent) \in DOMAIN f.sent
      BY <2>2, AppendFacts DEF Finished, EndsWith
    <3> QED
      BY <2>2, <3>1 DEF Finished, EndsWith, Answered
  <2>4. Finished(f)' /\ StatusTells' /\ Sound(f)'
    BY <2>1, <2>2, <2>3
    DEF Finished, Sound, IsBlockStream, StatusTells, Answered, requestVars, clientVars
  <2>5. Routed'
    BY <2>1, <2>2, Places DEF PathInv, Routed, requestVars
  <2>6. Told'
    BY <2>1, <2>2, Places DEF Told, requestVars
  <2>7. Blamed'
    BY <2>1, <2>2, Places DEF PathInv, Blamed, clientVars
  <2>8. Written'
    BY <2>1, <2>2, <2>4, Places DEF PathInv, Written, clientVars
  <2>9. Heard'
    BY <2>1, HeardStays
  <2> QED
    BY <2>5, <2>6, <2>7, <2>8, <2>9 DEF PathInv
<1>2. CASE CloseFails
  <2>1. pc = "close" /\ Fails("unknown") /\ UNCHANGED <<requestVars, upstreamVars, clientVars, usage, reports>>
    BY <1>2 DEF CloseFails
  <2>2. "unknown" \in Categories /\ Heard'
    BY <2>1, HeardStays DEF Categories
  <2> QED
    BY <2>1, <2>2, FailStep
<1> QED
  BY <1>1, <1>2

(* The categories of a search's failures.                                  *)
LEMMA CallCategories ==
  ASSUME NEW statuses, NEW bodies, NEW category \in W!CallErrors(statuses, bodies)
  PROVE  category \in Categories
<1>1. CASE category \in {"network", "unknown"}
  BY <1>1 DEF Categories
<1>2. CASE \E s \in statuses \ {200}, words \in bodies : category = W!McpCategory(s, words)
  <2>1. PICK s, words : category = W!McpCategory(s, words)
    BY <1>2, Zenon
  <2>2. \/ category \in {"ban", "quota", "auth"}
        \/ category = CASE s \in {401, 403} -> "auth"
                        [] s = 429 -> "quota"
                        [] s \in {502, 503, 504} -> "network"
                        [] OTHER -> "unknown"
    BY <2>1, Zenon DEF W!McpCategory, W!DetectSignal
  <2>3. category \in {"ban", "quota", "auth", "network", "unknown"}
    BY <2>2, Zenon
  <2> QED
    BY <2>3 DEF Categories
<1>3. \/ category \in {"network", "unknown"}
      \/ \E s \in statuses \ {200}, words \in bodies : category = W!McpCategory(s, words)
  BY DEF W!CallErrors
<1> QED
  BY <1>1, <1>2, <1>3

(* A search that fails, or that goes to the upstream.                      *)
LEMMA SearchKeeps ==
  ASSUME PathInv,
         \/ \E category \in {"validation", "auth"} : SearchRefused(category)
         \/ SearchAcquires
         \/ \E category \in W!CallErrors({401, 429, 500, 503}, SUBSET Signals) :
              SearchFails(category)
  PROVE  PathInv'
<1>1. ASSUME NEW category \in {"validation", "auth"}, SearchRefused(category) PROVE PathInv'
  <2>1. /\ pc = "search" /\ Fails(category)
        /\ UNCHANGED <<requestVars, upstreamVars, clientVars, usage, reports>>
    BY <1>1 DEF SearchRefused
  <2>2. category \in Categories /\ Heard'
    BY <2>1, HeardStays DEF Categories
  <2> QED
    BY <2>1, <2>2, FailStep
<1>2. ASSUME SearchAcquires PROVE PathInv'
  <2>1. /\ pc = "search" /\ pc' = "call" /\ leased' = TRUE
        /\ UNCHANGED <<route, format, streaming, upstreamVars, clientVars, usage, cause, reports>>
    BY <1>2 DEF SearchAcquires
  <2>2. Heard'
    BY <2>1, HeardStays
  <2>3. Routed' /\ Told'
    BY <2>1, Places DEF PathInv, Routed, Told
  <2>4. Blamed'
    BY <2>1, Places DEF PathInv, Blamed, clientVars
  <2>5. Written'
    BY <2>1, Places DEF PathInv, Written, clientVars
  <2> QED
    BY <2>2, <2>3, <2>4, <2>5 DEF PathInv
<1>3. ASSUME NEW category \in W!CallErrors({401, 429, 500, 503}, SUBSET Signals),
             SearchFails(category)
      PROVE  PathInv'
  <2>1. /\ pc = "call" /\ Fails(category) /\ reports' = Append(reports, Reason(category))
        /\ UNCHANGED <<requestVars, upstreamVars, clientVars, usage>>
    BY <1>3 DEF SearchFails, Report
  <2>2. category \in Categories /\ Heard'
    BY <2>1, HeardStays, CallCategories
  <2>3. route = "web_search" /\ reports = <<>>
    BY <2>1, Places DEF PathInv, Routed, Told
  <2>4. reports' = <<Reason(category)>>
    BY <2>1, <2>3
  <2> QED
    BY <2>1, <2>2, <2>4, FailStep
<1> QED
  BY <1>1, <1>2, <1>3, Zenon

(* The answer of a search is written, or its client is gone.               *)
LEMMA SearchAnswersKeeps ==
  ASSUME PathInv, NEW found, NEW maxUses, SearchAnswers(found, maxUses)
  PROVE  PathInv'
<1> DEFINE sent == IF streaming THEN W!StreamResults("query", found, maxUses)
                   ELSE W!JsonResults(found, maxUses)
           g == [f EXCEPT !.sent = sent]
<1>1. /\ pc = "call" /\ reports' = Append(reports, "success") /\ Writes(g, "done")
      /\ UNCHANGED <<requestVars, upstreamVars, usage, truncations>>
  BY DEF SearchAnswers, Report
<1>2. /\ route = "web_search" /\ reports = <<>> /\ cause = "none" /\ ~gone
      /\ f = [sent |-> <<>>] /\ status = 0
  BY <1>1, Places DEF PathInv, Routed, Told, Blamed, Written
<1>3. \E type \in Final : EndsWith(sent, type)
  BY SearchBlocks, SearchMessage DEF Final
<1>4. IsBlockStream => WellFormed(sent)
  BY SearchBlocks DEF IsBlockStream
<1> HIDE DEF sent
<1>5. g.sent = sent /\ "sent" \in DOMAIN g
  BY <1>2
<1> HIDE DEF g
<1>6. Finished(g) /\ Sound(g)
  BY <1>3, <1>4, <1>5 DEF Finished, Sound, EndsWith
<1>7. Sound(f)
  <2>1. "sent" \in DOMAIN f /\ f.sent = <<>>
    BY <1>2
  <2> QED
    BY <2>1, EmptySent DEF Sound
<1>8. Heard'
  BY <1>1, HeardStays
<1>9. Told'
  <2>1. reports' = <<"success">>
    BY <1>1, <1>2
  <2>2. route' = "web_search" /\ leased' /\ pc' \in {"done", "failed"}
    BY <1>1, <1>2, Zenon DEF requestVars, Writes, Fails, PathInv, Told
  <2>3. cause' # "none" <=> gone'
    <3>1. (gone' = gone /\ cause' = cause) \/ (gone' = TRUE /\ cause' = "unknown")
      BY <1>1, Zenon DEF Writes, Fails
    <3> QED
      BY <1>2, <3>1
  <2>4. SearchTold'
    BY <2>1, <2>2, <2>3 DEF SearchTold
  <2> QED
    BY <2>1, <2>2, <2>4 DEF Told
<1>10. CASE /\ f' = g /\ pc' = "done" /\ gone' = gone /\ cause' = cause
            /\ status' = IF status = 0 /\ Len(g.sent) > Len(f.sent) THEN 200 ELSE status
  <2>1. Len(g.sent) > 0 /\ Len(f.sent) = 0
    BY <1>2, <1>6 DEF Finished, EndsWith
  <2>2. status' = 200
    BY <1>2, <1>10, <2>1
  <2>3. Answered'
    <3>1. Len(g.sent) \in DOMAIN g.sent
      BY <1>6, <2>1, AppendFacts DEF Sound
    <3> QED
      BY <1>6, <1>10, <3>1 DEF Finished, EndsWith, Answered
  <2>4. Finished(f)' /\ Sound(f)' /\ StatusTells'
    BY <1>1, <1>6, <1>10, <2>2, <2>3
    DEF Finished, Sound, IsBlockStream, StatusTells, requestVars
  <2>5. Routed'
    BY <1>1, <1>2, <1>10, Places DEF PathInv, Routed, requestVars
  <2>6. Blamed'
    BY <1>2, <1>10 DEF PathInv, Blamed
  <2>7. Written'
    BY <1>2, <1>10, <2>2, <2>4, Places DEF Written
  <2> QED
    BY <1>8, <1>9, <2>5, <2>6, <2>7 DEF PathInv
<1>11. CASE /\ Sound(f)' /\ gone' = TRUE /\ pc' = "failed" /\ cause' = "unknown"
            /\ status' = IF status = 0 THEN 200 ELSE status
  <2>1. Routed'
    BY <1>1, <1>2, <1>11, Places DEF PathInv, Routed, requestVars
  <2>2. Blamed'
    BY <1>2, <1>11 DEF Blamed, Categories
  <2>3. Written'
    BY <1>2, <1>11, Places DEF PathInv, Written
  <2> QED
    BY <1>8, <1>9, <2>1, <2>2, <2>3 DEF PathInv
<1> QED
  BY <1>1, <1>6, <1>7, <1>10, <1>11, WritesCases

(* The report and the message of a failure.                                *)
LEMMA FailKeeps ==
  ASSUME PathInv, Fail
  PROVE  PathInv'
<1>1. /\ pc = "failed" /\ pc' = "done"
      /\ IF route = "chat" THEN reports' = Append(reports, Reason(cause)) ELSE UNCHANGED reports
      /\ f' = IF gone THEN f
              ELSE [f EXCEPT !.sent = Append(@, [type |-> "error", kind |-> cause])]
      /\ status' = IF status = 0 THEN Code(cause) ELSE status
      /\ UNCHANGED <<requestVars, upstreamVars, gone, usage, cause>>
  BY DEF Fail, Report
<1>2. /\ Sound(f) /\ (~gone => StatusTells) /\ cause \in Categories
      /\ route = "chat" => reports = <<>>
      /\ status \in {0, 200, 400, 401, 502}
  BY <1>1, Places DEF PathInv, Told, Blamed, Written
<1>3. status' \in {0, 200, 400, 401, 502} /\ (status' = 200 <=> status = 200)
  <2>1. Code(cause) \in {400, 401, 502}
    <3>1. cause = "validation" => Code(cause) = 400
      BY Zenon DEF Code
    <3>2. cause = "auth" => Code(cause) = 401
      BY Zenon DEF Code
    <3>3. cause # "validation" /\ cause # "auth" => Code(cause) = 502
      BY Zenon DEF Code
    <3> QED
      BY <3>1, <3>2, <3>3
  <2> QED
    BY <1>1, <1>2, <2>1
<1>4. Heard'
  BY <1>1, HeardStays
<1>5. Routed' /\ Told' /\ Blamed'
  <2>1. Routed' /\ Blamed'
    BY <1>1, Places DEF PathInv, Routed, Blamed, requestVars
  <2>2. Told'
    <3>1. CASE route = "chat"
      <4>1. PICK v : v = Reason(cause)
        BY Zenon
      <4>2. reports' = <<v>>
        BY <1>1, <1>2, <3>1, <4>1
      <4> QED
        BY <1>1, <1>2, <3>1, <4>1, <4>2 DEF Told, requestVars, PathInv, Blamed
    <3>2. CASE route # "chat"
      <4>1. /\ reports' = reports /\ pc' = "done" /\ route' = route /\ leased' = leased
            /\ gone' = gone /\ cause' = cause
        BY <1>1, <3>2 DEF requestVars
      <4>2. SearchTold /\ route = "web_search"
        BY <1>1, <3>2 DEF PathInv, Told, Routed
      <4>3. SearchTold'
        BY <4>1, <4>2, Zenon DEF SearchTold
      <4> QED
        BY <3>2, <4>1, <4>3 DEF Told, PathInv
    <3> QED
      BY <3>1, <3>2
  <2> QED
    BY <2>1, <2>2
<1>6. CASE gone
  BY <1>1, <1>2, <1>3, <1>4, <1>5, <1>6, Places
  DEF PathInv, Written, Sound, IsBlockStream, requestVars
<1>7. CASE ~gone
  <2>1. PICK e : e = [type |-> "error", kind |-> cause]
    BY Zenon
  <2>2. e.type = "error"
    BY <2>1
  <2>3. f'.sent = Append(f.sent, e) /\ "sent" \in DOMAIN f'
    BY <1>1, <1>2, <1>7, <2>1, Zenon DEF Sound
  <2>4. IsSeq(f.sent)
    BY <1>2 DEF Sound
  <2>5. IsSeq(f'.sent) /\ EndsWith(f'.sent, "error")
    <3>1. IsSeq(Append(f.sent, e)) /\ EndsWith(Append(f.sent, e), e.type)
      BY <2>4, AppendFacts, AppendEnds
    <3> QED
      BY <2>2, <2>3, <3>1, Zenon
  <2>6. IsBlockStream => WellFormed(f'.sent)
    <3>1. FollowsProtocol(f.sent, e)
      BY <2>2 DEF FollowsProtocol
    <3> QED
      BY <1>2, <2>3, <2>4, <3>1, AppendWellFormed DEF Sound
  <2>7. Answered' <=> Answered
    <3>1. /\ Len(f.sent) \in Nat /\ DOMAIN f.sent = 1..Len(f.sent)
          /\ DOMAIN f'.sent = 1..(Len(f.sent) + 1)
          /\ f'.sent[Len(f.sent) + 1] = e /\ \A i \in 1..Len(f.sent) : f'.sent[i] = f.sent[i]
      BY <2>3, <2>4, AppendFacts
    <3>2. e.type \notin Final
      BY <2>2 DEF Final
    <3> QED
      BY <3>1, <3>2 DEF Answered
  <2>8. Sound(f)'
    BY <1>1, <2>3, <2>5, <2>6, Zenon DEF Sound, IsBlockStream, requestVars, WellFormed
  <2>9. StatusTells'
    BY <1>1, <1>2, <1>3, <1>7, <2>7 DEF StatusTells, requestVars
  <2>10. cause' # "none"
    BY <1>1, <1>2 DEF Categories
  <2>11. Written'
    BY <1>1, <1>3, <2>5, <2>8, <2>9, <2>10, Places DEF Written
  <2> QED
    BY <1>4, <1>5, <2>11 DEF PathInv
<1> QED
  BY <1>6, <1>7

-----------------------------------------------------------------------------
(* The invariant holds.                                                    *)

(* Nothing has been read, written or reported when a request starts.       *)
LEMMA PathInit == Init => PathInv
<1> SUFFICES ASSUME Init PROVE PathInv
  OBVIOUS
<1>1. /\ \/ route = "chat" /\ pc = "start" /\ format \in {"anthropic", "openai"}
         \/ route = "web_search" /\ pc = "search" /\ format = "anthropic"
      /\ streaming \in BOOLEAN /\ leased = (route = "chat")
      /\ received = <<>> /\ lost = 0 /\ observed = S!NewObserved
      /\ f = [sent |-> <<>>] /\ usage = 0 /\ status = 0 /\ gone = FALSE /\ cause = "none"
      /\ reports = <<>>
  BY DEF Init
<1>2. /\ "output" \in DOMAIN observed /\ "pendingTools" \in DOMAIN observed
      /\ observed.pendingTools = {}
  BY <1>1 DEF S!NewObserved
<1>3. Heard
  BY <1>1, <1>2 DEF Heard
<1>4. Routed
  BY <1>1, Places DEF Routed
<1>5. Told /\ Blamed
  BY <1>1, Places DEF Told, Blamed
<1>6. Written
  BY <1>1, <1>2, Places DEF Written
<1> QED
  BY <1>3, <1>4, <1>5, <1>6 DEF PathInv

(* Every step keeps the invariant.                                         *)
LEMMA PathStep == PathInv /\ [Next]_vars => PathInv'
<1> SUFFICES ASSUME PathInv, [Next]_vars PROVE PathInv'
  OBVIOUS
<1>1. CASE Begin
  BY <1>1, BeginKeeps
<1>2. CASE \E frame \in Frames : ReadFrame(frame)
  BY <1>2, ReadKeeps
<1>3. CASE \E available \in {0, 7, 12, 14, 20}, totalLength \in {8, 20}, headersLength \in {0, 8} :
             EndOfStream(available, totalLength, headersLength)
  <2>1. \A n \in {0, 7, 8, 12, 14, 20} : n \in Nat
    OBVIOUS
  <2> QED
    BY <1>3, <2>1, EofKeeps
<1>4. CASE SplitAtTag \/ SplitRest
  BY <1>4, SplitKeeps
<1>5. CASE End
  BY <1>5, EndKeeps
<1>6. CASE Succeed \/ CloseFails
  BY <1>6, CloseKeeps
<1>7. CASE \/ \E category \in {"validation", "auth"} : SearchRefused(category)
           \/ SearchAcquires
           \/ \E category \in W!CallErrors({401, 429, 500, 503}, SUBSET Signals) :
                SearchFails(category)
  BY <1>7, SearchKeeps
<1>8. CASE \E found, maxUses \in 0..MaxResults : SearchAnswers(found, maxUses)
  BY <1>8, SearchAnswersKeeps
<1>9. CASE Fail
  BY <1>9, FailKeeps
<1>10. CASE UNCHANGED vars
  <2>1. Told'
    <3>1. /\ route' = route /\ leased' = leased /\ pc' = pc /\ reports' = reports
          /\ cause' = cause /\ gone' = gone
      BY <1>10 DEF vars, requestVars, clientVars
    <3>2. Told
      BY DEF PathInv
    <3> QED
      BY <3>1, <3>2, Zenon DEF Told, SearchTold
  <2>2. Routed' /\ Blamed' /\ Heard'
    BY <1>10 DEF vars, requestVars, upstreamVars, clientVars, PathInv, Routed, Blamed, Heard
  <2>3. Written'
    BY <1>10
    DEF vars, requestVars, upstreamVars, clientVars, PathInv, Written, Forming, Sound, Finished,
        IsBlockStream, StatusTells, Answered
  <2> QED
    BY <2>1, <2>2, <2>3 DEF PathInv
<1>11. CASE Answer
  BY <1>1, <1>2, <1>3, <1>4, <1>5, <1>6, <1>11 DEF Answer
<1>12. CASE Search
  BY <1>7, <1>8, <1>12 DEF Search
<1> QED
  BY <1>9, <1>10, <1>11, <1>12, Zenon DEF Next, Done

(* The invariant holds in every reachable state.                           *)
LEMMA PathCorrect == Spec => []PathInv
  BY PathInit, PathStep, PTL DEF Spec

-----------------------------------------------------------------------------
(* The types.                                                              *)

(* The splitter is fed text, and cuts it at positions of its buffer.       *)
LEMMA SplitterStep ==
  ASSUME SplitterTypeOK, [Next]_vars
  PROVE  SplitterTypeOK'
<1>1. ASSUME NEW chunk \in Seq(STRING), FeedChunk(chunk) PROVE SplitterTypeOK'
  BY <1>1 DEF FeedChunk, SplitterTypeOK
<1>2. ASSUME NEW i \in 1..Len(buffer), CutTag(i) PROVE SplitterTypeOK'
  <2>1. Len(Tag) \in Nat
    BY TagAssumption DEF Tag
  <2>2. i + Len(Tag) \in Nat /\ i + Len(Tag) >= 1
    BY <2>1 DEF SplitterTypeOK
  <2>3. buffer' \in Seq(STRING)
    <3>1. PICK m \in Nat : m = i + Len(Tag) /\ m >= 1
      BY <2>2
    <3>2. buffer' = SubSeq(buffer, m, Len(buffer))
      BY <1>2, <3>1, Zenon DEF CutTag
    <3> QED
      BY <3>1, <3>2 DEF SplitterTypeOK
  <2>4. inThinking' \in BOOLEAN
    BY <1>2, Zenon DEF CutTag, SplitterTypeOK
  <2> QED
    BY <2>3, <2>4 DEF SplitterTypeOK
<1>3. ASSUME NEW flush \in BOOLEAN, KeepRest(flush) PROVE SplitterTypeOK'
  <2>1. Kept(flush) \in 0..Len(buffer)
    BY TagAssumption DEF Kept, SplitterTypeOK
  <2>2. PICK m \in Nat : m = Len(buffer) - Kept(flush) + 1 /\ m >= 1
    BY <2>1 DEF SplitterTypeOK
  <2>3. buffer' = SubSeq(buffer, m, Len(buffer)) /\ inThinking' = inThinking
    BY <1>3, <2>2, Zenon DEF KeepRest
  <2> QED
    BY <2>2, <2>3 DEF SplitterTypeOK
<1>4. ASSUME NEW frame \in Frames, ReadFrame(frame) PROVE SplitterTypeOK'
  <2>1. PICK e : e = S!Decode(frame) /\ (e.type = "text" => e.text \in Seq(STRING)) /\ Handle(e)
    BY <1>4, DecodeFacts DEF ReadFrame
  <2>2. (e.type = "text" /\ FeedChunk(e.text)) \/ UNCHANGED splitterVars
    BY <2>1, Zenon DEF Handle
  <2> QED
    BY <1>1, <2>1, <2>2 DEF SplitterTypeOK, splitterVars
<1>5. CASE SplitAtTag
  BY <1>2, <1>5 DEF SplitAtTag
<1>6. CASE SplitRest
  <2>1. PICK flush \in BOOLEAN : flush = (pc = "flush")
    BY Zenon
  <2>2. KeepRest(flush)
    BY <1>6, <2>1, Zenon DEF SplitRest
  <2> QED
    BY <1>3, <2>2
<1>7. CASE UNCHANGED splitterVars
  BY <1>7 DEF SplitterTypeOK, splitterVars
<1>8. CASE Search
  <2>1. UNCHANGED splitterVars
    BY <1>8, Zenon DEF Search, SearchRefused, SearchAcquires, SearchFails, SearchAnswers
  <2> QED
    BY <1>7, <2>1
<1>9. CASE Begin \/ End \/ Succeed \/ CloseFails \/ Fail
  <2>1. UNCHANGED splitterVars
    BY <1>9, Zenon DEF Begin, End, Succeed, CloseFails, Fail
  <2> QED
    BY <1>7, <2>1
<1>10. CASE \E available \in {0, 7, 12, 14, 20}, totalLength \in {8, 20}, headersLength \in {0, 8} :
              EndOfStream(available, totalLength, headersLength)
  <2>1. UNCHANGED splitterVars
    BY <1>10 DEF EndOfStream, splitterVars
  <2> QED
    BY <1>7, <2>1
<1>11. CASE Answer
  BY <1>4, <1>5, <1>6, <1>9, <1>10, <1>11 DEF Answer
<1>12. CASE UNCHANGED vars
  BY <1>7, <1>12, Zenon DEF vars
<1> QED
  BY <1>8, <1>9, <1>11, <1>12, Zenon DEF Next, Done

(* TypeOK: the types of a request, whatever the upstream sends it and      *)
(* wherever the client goes away (Service.Handle and the formatters).      *)
THEOREM ResponsesTypeCorrect == Spec => []TypeOK
<1>1. Init => SplitterTypeOK
  <2>1. SplitterInit => buffer \in Seq(STRING)
    BY DEF SplitterInit
  <2>2. SplitterInit => inThinking \in BOOLEAN
    BY DEF SplitterInit
  <2> QED
    BY <2>1, <2>2, Zenon DEF Init, SplitterTypeOK
<1>2. SplitterTypeOK /\ [Next]_vars => SplitterTypeOK'
  BY SplitterStep
<1>3. ASSUME PathInv, SplitterTypeOK PROVE TypeOK
  <2>1. /\ route \in {"chat", "web_search"} /\ format \in {"anthropic", "openai"}
        /\ streaming \in BOOLEAN /\ leased \in BOOLEAN
        /\ pc \in {"start", "next", "feed", "flush", "end", "close", "search", "call",
                   "failed", "done"}
    BY <1>3 DEF PathInv, Routed, Writing
  <2>2. received \in Seq(Frames) /\ lost \in Nat /\ usage \in Nat
    BY <1>3 DEF PathInv, Heard
  <2>3. Range(received) \subseteq Frames
    BY <2>2 DEF Range
  <2>4. Len(reports) <= 1
    <3>1. CASE reports = <<>>
      BY <3>1
    <3>2. ASSUME NEW v, reports = <<v>> PROVE Len(reports) <= 1
      BY <3>2
    <3> QED
      BY <1>3, <3>1, <3>2, Zenon DEF PathInv, Told
  <2>5. status \in {0, 200, 400, 401, 502} /\ gone \in BOOLEAN /\ cause \in Categories \union {"none"}
    BY <1>3 DEF PathInv, Blamed, Written
  <2> QED
    BY <1>3, <2>1, <2>2, <2>3, <2>4, <2>5 DEF TypeOK
<1> QED
  BY <1>1, <1>2, <1>3, PathCorrect, PTL DEF Spec

-----------------------------------------------------------------------------
(* What follows.                                                           *)

(* Whatever has been written is sound, wherever the request is.            *)
LEMMA SoundAlways ==
  ASSUME PathInv
  PROVE  Sound(f)
<1>1. CASE pc \in {"start", "search", "call"}
  <2>1. "sent" \in DOMAIN f /\ f.sent = <<>>
    BY <1>1 DEF PathInv, Written
  <2> QED
    BY <2>1, EmptySent DEF Sound
<1>2. CASE pc \in Writing
  BY <1>2, FormingMeans DEF PathInv, Written
<1>3. CASE pc \in {"close", "failed", "done"}
  BY <1>3 DEF PathInv, Written, Finished
<1> QED
  BY <1>1, <1>2, <1>3 DEF PathInv, Routed

(* BlocksWellFormed: a streaming Anthropic client sees content blocks that *)
(* are numbered without gaps, opened once, written to while they are open  *)
(* and closed before the message ends, whatever the order of text,         *)
(* thinking and tool events and wherever the answer breaks off.            *)
THEOREM BlocksAreWellFormed == Spec => []BlocksWellFormed
<1>1. PathInv => BlocksWellFormed
  BY SoundAlways, BlocksMeaning DEF Sound
<1> QED
  BY <1>1, PathCorrect, PTL

(* ReportedOnce: by the end of its request every lease, of a chat or of a  *)
(* web search, is reported once, and nothing is reported without a lease.  *)
(* A success means an answer written whole, except that the client of a    *)
(* search may be gone; any other report is the reason of the failure       *)
(* (Service.Handle, HandleAnthropic).                                      *)
THEOREM LeasesAreReportedOnce == Spec => []ReportedOnce
<1>1. ASSUME PathInv PROVE ReportedOnce
  <2>1. PICK r : r = Reason(cause)
    BY Zenon
  <2>2. r # "success"
    BY <2>1, Zenon DEF Reason
  <2>3. /\ <<r>> # <<"success">> /\ Len(<<r>>) = 1 /\ <<r>> # <<>>
        /\ Len(<<"success">>) = 1 /\ <<"success">> # <<>> /\ Len(<<>>) = 0
    BY <2>2
  <2>4. pc = "done" /\ cause = "none" => ~gone /\ Answered
    <3> SUFFICES ASSUME pc = "done", cause = "none" PROVE ~gone /\ Answered
      OBVIOUS
    <3>1. ~gone /\ Finished(f)
      BY <1>1 DEF PathInv, Blamed, Written
    <3>2. Len(f.sent) \in DOMAIN f.sent
      BY <3>1, AppendFacts DEF Finished, EndsWith
    <3> QED
      BY <3>1, <3>2 DEF Finished, EndsWith, Answered
  <2>5. CASE route = "chat"
    <3>1. /\ leased /\ (pc # "done" => reports = <<>>)
          /\ pc = "done" => reports = IF cause = "none" THEN <<"success">> ELSE <<r>>
      <4>1. /\ leased /\ (pc # "done" => reports = <<>>)
            /\ pc = "done" => reports = <<IF cause = "none" THEN "success" ELSE r>>
        BY <1>1, <2>1, <2>5, Zenon DEF PathInv, Told
      <4> QED
        BY <4>1
    <3>2. pc = "done" => Len(reports) = 1
      BY <2>3, <3>1, Zenon
    <3>3. reports = <<"success">> => cause = "none" /\ Answered /\ ~gone
      BY <2>3, <2>4, <3>1, Zenon
    <3>4. reports \notin {<<>>, <<"success">>} => cause # "none" /\ reports = <<r>>
      BY <2>3, <3>1, Zenon
    <3> QED
      BY <2>1, <2>5, <3>1, <3>2, <3>3, <3>4, Zenon DEF ReportedOnce
  <2>6. CASE route = "web_search" /\ pc \in {"search", "call"}
    <3>1. reports = <<>> /\ pc # "done"
      BY <1>1, <2>6 DEF PathInv, Told
    <3> QED
      BY <2>3, <3>1, Zenon DEF ReportedOnce
  <2>7. CASE route = "web_search" /\ pc \in {"failed", "done"}
    <3>1. IF leased THEN \/ reports = <<"success">> /\ (cause # "none" <=> gone)
                         \/ reports = <<r>> /\ cause # "none" /\ ~gone
          ELSE reports = <<>> /\ cause # "none" /\ ~gone
      BY <1>1, <2>1, <2>7, Zenon DEF PathInv, Told, SearchTold
    <3>2. pc = "failed" => cause # "none"
      BY <1>1 DEF PathInv, Blamed
    <3>3. Len(reports) = IF leased THEN 1 ELSE 0
      BY <2>3, <3>1, Zenon
    <3>4. reports # <<>> => leased
      BY <3>1, Zenon
    <3>5. reports = <<"success">> =>
            IF cause = "none" THEN Answered /\ ~gone ELSE route = "web_search" /\ gone
      BY <2>3, <2>4, <2>7, <3>1, <3>2, Zenon
    <3>6. reports \notin {<<>>, <<"success">>} => cause # "none" /\ reports = <<r>> /\ ~gone
      BY <2>3, <3>1, Zenon
    <3> QED
      BY <2>1, <3>3, <3>4, <3>5, <3>6, Zenon DEF ReportedOnce
  <2>8. /\ route \in {"chat", "web_search"}
        /\ route = "web_search" => pc \in {"search", "call", "failed", "done"}
    BY <1>1, Places DEF PathInv, Routed
  <2> QED
    BY <2>5, <2>6, <2>7, <2>8
<1> QED
  BY <1>1, PathCorrect, PTL

(* EndingsAreTold: an answer that is ended was ended by the upstream, and  *)
(* a client that is still there gets an error exactly if something failed, *)
(* after everything else, under the status that fits (Handle, writeError). *)
THEOREM EndingsAreAlwaysTold == Spec => []EndingsAreTold
<1>1. ASSUME PathInv PROVE EndingsAreTold
  <2>1. ASSUME Answered PROVE lost \in {0, 12} /\ Len(f.sent) > 0
    <3>1. IsSeq(f.sent)
      BY <1>1, SoundAlways DEF Sound
    <3>2. Len(f.sent) \in Nat /\ DOMAIN f.sent = 1..Len(f.sent)
      BY <3>1, AppendFacts
    <3> QED
      BY <1>1, <2>1, <3>2 DEF Answered, PathInv, Heard
  <2>2. ASSUME pc = "done", ~gone
        PROVE  /\ f.sent[Len(f.sent)].type = "error" <=> cause # "none"
               /\ f.sent[Len(f.sent)].type # "error" => f.sent[Len(f.sent)].type \in Final
               /\ status = 200 <=> (Answered \/ (streaming /\ route = "chat"))
    <3>1. StatusTells /\ IF cause = "none" THEN Finished(f) ELSE EndsWith(f.sent, "error")
      BY <1>1, <2>2 DEF PathInv, Written
    <3>2. "error" \notin Final
      BY DEF Final
    <3> QED
      BY <3>1, <3>2 DEF StatusTells, Finished, EndsWith
  <2> QED
    BY <2>1, <2>2, Zenon DEF EndingsAreTold
<1> QED
  BY <1>1, PathCorrect, PTL

(* ObserverAgrees: the calls that observedStream takes for unfinished are  *)
(* ones whose block the formatter still has open, and the tokens the       *)
(* formatter reports are the tokens that are logged.                       *)
THEOREM ObserverAndFormatterAgree == Spec => []ObserverAgrees
<1>1. ASSUME PathInv PROVE ObserverAgrees
  <2>1. ASSUME IsBlockStream, pc \in Writing PROVE observed.pendingTools \subseteq DOMAIN f.toolBlocks
    <3>1. PICK ids : Forming(f, ids) /\ observed.pendingTools \subseteq ids
      BY <1>1, <2>1 DEF PathInv, Written
    <3>2. DOMAIN f.toolBlocks = ids
      BY <2>1, <3>1, RecFields DEF Forming, Blocks
    <3> QED
      BY <3>1, <3>2
  <2>2. usage # 0 => usage = S!LoggedTokens(observed)
    BY <1>1 DEF PathInv, Heard, S!LoggedTokens
  <2> QED
    BY <2>1, <2>2 DEF ObserverAgrees, Writing
<1> QED
  BY <1>1, PathCorrect, PTL

-----------------------------------------------------------------------------
(* The pass over a whole text.                                             *)

(* The states of the pass: what the last character was, whether the pass   *)
(* is inside the tags, and how much of a tag is still to be skipped.       *)
ScanState == [kind : {"none", "text", "thinking"}, thinking : BOOLEAN, skip : Nat]

(* One character takes the pass from one state to another.                 *)
LEMMA ScannedType ==
  ASSUME NEW text, NEW i, NEW before \in ScanState
  PROVE  Scanned(text, i, before) \in ScanState
<1>1. Len(Sought(before)) \in Nat /\ Len(Sought(before)) > 0
  BY TagAssumption DEF Sought
<1>2. CASE before.skip > 0
  <2>1. before.skip - 1 \in Nat
    BY <1>2 DEF ScanState
  <2>2. [before EXCEPT !.kind = "none", !.skip = before.skip - 1] \in ScanState
    BY <2>1 DEF ScanState
  <2> QED
    BY <1>2, <2>2, Zenon DEF Scanned
<1>3. CASE ~(before.skip > 0) /\ StartsAt(Sought(before), text, i)
  <2>1. [kind |-> "none", thinking |-> ~before.thinking,
          skip |-> Len(Sought(before)) - 1] \in ScanState
    BY <1>1 DEF ScanState
  <2> QED
    BY <1>3, <2>1 DEF Scanned
<1>4. CASE ~(before.skip > 0) /\ ~StartsAt(Sought(before), text, i)
  <2>1. [before EXCEPT !.kind = IF before.thinking THEN "thinking" ELSE "text"] \in ScanState
    BY DEF ScanState
  <2> QED
    BY <1>4, <2>1 DEF Scanned
<1> QED
  BY <1>2, <1>3, <1>4

(* Scan satisfies the equation that it is chosen by.                       *)
LEMMA ScanDefined ==
  ASSUME NEW text \in Seq(STRING)
  PROVE  /\ Scan(text) \in [0..Len(text) -> ScanState]
         /\ Scan(text)[0] = Unread
         /\ \A i \in 1..Len(text) : Scan(text)[i] = Scanned(text, i, Scan(text)[i - 1])
<1> DEFINE n == Len(text)
           H == [p \in (1..n) \X ScanState |-> Scanned(text, p[1], p[2])]
<1>1. n \in Nat
  OBVIOUS
<1>2. H \in [(1..n) \X ScanState -> ScanState]
      /\ \A i \in 1..n, x \in ScanState : H[<<i, x>>] = Scanned(text, i, x)
  BY ScannedType
<1>3. Unread \in ScanState
  BY DEF Unread, ScanState
<1> HIDE DEF H, n
<1>5. HasRecursion(n, ScanState, Unread, H)
  BY <1>1, <1>2, <1>3, RecursionExists
<1>6. PICK g \in [0..n -> ScanState] : g[0] = Unread
        /\ \A i \in 1..n : g[i] = H[<<i, g[i - 1]>>]
  BY <1>5 DEF HasRecursion
<1>7. ASSUME NEW i \in 1..n PROVE g[i] = Scanned(text, i, g[i - 1])
  <2>1. i - 1 \in 0..n
    BY <1>1
  <2>2. g[i - 1] \in ScanState
    BY <2>1
  <2> QED
    BY <1>2, <1>6, <2>2
<1>8. g = [i \in 0..n |-> IF i = 0 THEN Unread ELSE Scanned(text, i, g[i - 1])]
  <2>1. ASSUME NEW i \in 0..n PROVE g[i] = IF i = 0 THEN Unread ELSE Scanned(text, i, g[i - 1])
    <3>1. CASE i = 0
      BY <3>1, <1>6
    <3>2. CASE i # 0
      <4>1. i \in 1..n
        BY <3>2, <1>1
      <4> QED
        BY <4>1, <3>2, <1>7
    <3> QED
      BY <3>1, <3>2
  <2> QED
    BY <2>1
<1> DEFINE k == Scan(text)
<1>9. k = [i \in 0..n |-> IF i = 0 THEN Unread ELSE Scanned(text, i, k[i - 1])]
  BY <1>8, Zenon DEF Scan, n
<1>10. k = g
  <2> HIDE DEF k
  <2>1. k[0] = g[0]
    BY <1>9, <1>6, <1>1
  <2> DEFINE Same == {i \in 0..n : k[i] = g[i]}
  <2>2. 0 \in Same
    BY <2>1, <1>1
  <2>3. ASSUME NEW i \in 1..n, i - 1 \in Same PROVE i \in Same
    <3>1. i \in 0..n /\ i # 0
      BY <1>1
    <3>2. k[i - 1] = g[i - 1]
      BY <2>3
    <3>3. k[i] = Scanned(text, i, k[i - 1])
      BY <1>9, <3>1
    <3> QED
      BY <1>7, <3>1, <3>2, <3>3
  <2> HIDE DEF Same
  <2>4. \A i \in 0..n : i \in Same
    BY <2>2, <2>3, <1>1, UpTo
  <2>5. \A i \in 0..n : k[i] = g[i]
    BY <2>4 DEF Same
  <2> QED
    BY <1>9, <2>5
<1> HIDE DEF k
<1>11. k \in [0..n -> ScanState] /\ k[0] = Unread
         /\ \A i \in 1..n : k[i] = Scanned(text, i, k[i - 1])
  BY <1>6, <1>7, <1>10
<1> QED
  BY <1>11 DEF k, n

(* What the pass says of a character, by cases.                            *)
LEMMA ScanNext ==
  ASSUME NEW text \in Seq(STRING), NEW i \in 1..Len(text)
  PROVE  LET before == Scan(text)[i - 1]
             after == Scan(text)[i]
         IN  /\ before \in ScanState /\ after \in ScanState
             /\ before.skip > 0 =>
                  /\ after.kind = "none" /\ after.thinking = before.thinking
                  /\ after.skip = before.skip - 1
             /\ before.skip = 0 /\ StartsAt(Sought(before), text, i) =>
                  /\ after.kind = "none" /\ after.thinking = ~before.thinking
                  /\ after.skip = Len(Sought(before)) - 1
             /\ before.skip = 0 /\ ~StartsAt(Sought(before), text, i) =>
                  /\ after.kind = IF before.thinking THEN "thinking" ELSE "text"
                  /\ after.thinking = before.thinking /\ after.skip = 0
<1> DEFINE before == Scan(text)[i - 1]
           after == Scan(text)[i]
<1>1. before \in ScanState /\ after \in ScanState /\ after = Scanned(text, i, before)
  <2>1. i \in 0..Len(text) /\ i - 1 \in 0..Len(text)
    OBVIOUS
  <2> QED
    BY <2>1, ScanDefined
<1> HIDE DEF before, after
<1>2. CASE before.skip > 0
  <2>1. after = [before EXCEPT !.kind = "none", !.skip = before.skip - 1]
    BY <1>1, <1>2 DEF Scanned
  <2>2. after.kind = "none" /\ after.thinking = before.thinking /\ after.skip = before.skip - 1
    BY <1>1, <2>1 DEF ScanState
  <2> QED
    BY <1>1, <1>2, <2>2 DEF before, after, ScanState
<1>3. CASE before.skip = 0 /\ StartsAt(Sought(before), text, i)
  <2>1. after = [kind |-> "none", thinking |-> ~before.thinking,
          skip |-> Len(Sought(before)) - 1]
    BY <1>1, <1>3 DEF Scanned
  <2> QED
    BY <1>1, <1>3, <2>1 DEF before, after
<1>4. CASE before.skip = 0 /\ ~StartsAt(Sought(before), text, i)
  <2>1. after = [before EXCEPT !.kind = IF before.thinking THEN "thinking" ELSE "text"]
    BY <1>1, <1>4 DEF Scanned
  <2>2. /\ after.kind = IF before.thinking THEN "thinking" ELSE "text"
        /\ after.thinking = before.thinking /\ after.skip = 0
    BY <1>1, <1>4, <2>1 DEF ScanState
  <2> QED
    BY <1>1, <1>4, <2>2 DEF before, after
<1>5. before.skip > 0 \/ before.skip = 0
  BY <1>1 DEF ScanState
<1> QED
  BY <1>2, <1>3, <1>4, <1>5

-----------------------------------------------------------------------------
(* What has been passed of a text before the end of it is known.           *)

(* At each of the first p characters a tag that was looked for had room.   *)
Passed(text, p) ==
  \A i \in 1..p : LET before == Scan(text)[i - 1]
                  IN before.skip > 0 \/ i + Len(Sought(before)) - 1 <= Len(text)

(* Then what comes after does not matter.                                  *)
LEMMA PassedStays ==
  ASSUME NEW text \in Seq(STRING), NEW more \in Seq(STRING),
           NEW p \in 0..Len(text), Passed(text, p)
  PROVE  /\ \A i \in 0..p : Scan(text \o more)[i] = Scan(text)[i]
         /\ Passed(text \o more, p)
<1> DEFINE long == text \o more
           k == Scan(text)
           l == Scan(long)
           Same == {i \in 0..p : l[i] = k[i]}
<1>1. /\ long \in Seq(STRING) /\ Len(long) = Len(text) + Len(more)
      /\ \A i \in 1..Len(text) : long[i] = text[i]
      /\ Len(text) \in Nat /\ Len(more) \in Nat /\ p \in Nat /\ p <= Len(text)
  OBVIOUS
<1> HIDE DEF long
<1>2. /\ k \in [0..Len(text) -> ScanState] /\ k[0] = Unread
      /\ \A i \in 1..Len(text) : k[i] = Scanned(text, i, k[i - 1])
      /\ l[0] = Unread
      /\ \A i \in 1..Len(long) : l[i] = Scanned(long, i, l[i - 1])
  BY <1>1, ScanDefined
<1>3. \A i \in 1..p : k[i - 1].skip > 0 \/ i + Len(Sought(k[i - 1])) - 1 <= Len(text)
  BY DEF Passed
<1> HIDE DEF k, l
<1>4. ASSUME NEW i \in 1..p, l[i - 1] = k[i - 1] PROVE l[i] = k[i]
  <2> DEFINE before == k[i - 1]
  <2>1. /\ i \in 1..Len(text) /\ i \in 1..Len(long)
        /\ k[i] = Scanned(text, i, before) /\ l[i] = Scanned(long, i, before)
    BY <1>1, <1>2, <1>4
  <2>2. before.skip > 0 \/ i + Len(Sought(before)) - 1 <= Len(text)
    BY <1>3
  <2>3. Len(Sought(before)) \in Nat
    BY TagAssumption DEF Sought
  <2> HIDE DEF before
  <2>4. CASE before.skip > 0
    BY <2>1, <2>4 DEF Scanned
  <2>5. CASE ~(before.skip > 0)
    <3>1. StartsAt(Sought(before), text, i) <=> StartsAt(Sought(before), long, i)
      <4>1. \A j \in 1..Len(Sought(before)) : i + j - 1 \in 1..Len(text)
        BY <2>1, <2>2, <2>3, <2>5
      <4>2. \A j \in 1..Len(Sought(before)) : long[i + j - 1] = text[i + j - 1]
        BY <4>1, <1>1
      <4>3. i + Len(Sought(before)) - 1 <= Len(text) /\ i + Len(Sought(before)) - 1 <= Len(long)
        BY <1>1, <2>1, <2>2, <2>3, <2>5
      <4> QED
        BY <4>2, <4>3 DEF StartsAt
    <3>2. CASE StartsAt(Sought(before), text, i)
      BY <2>1, <2>5, <3>1, <3>2 DEF Scanned
    <3>3. CASE ~StartsAt(Sought(before), text, i)
      BY <2>1, <2>5, <3>1, <3>3 DEF Scanned
    <3> QED
      BY <3>2, <3>3
  <2> QED
    BY <2>4, <2>5
<1>5. 0 \in Same /\ \A i \in 1..p : i - 1 \in Same => i \in Same
  BY <1>1, <1>2, <1>4
<1> HIDE DEF Same
<1>6. \A i \in 0..p : i \in Same
  BY <1>1, <1>5, UpTo
<1>7. \A i \in 0..p : l[i] = k[i]
  BY <1>6 DEF Same
<1>8. ASSUME NEW i \in 1..p
      PROVE l[i - 1].skip > 0 \/ i + Len(Sought(l[i - 1])) - 1 <= Len(long)
  <2>1. i - 1 \in 0..p
    BY <1>1
  <2>2. l[i - 1] = k[i - 1]
    BY <1>7, <2>1
  <2>3. Len(Sought(k[i - 1])) \in Nat
    BY TagAssumption DEF Sought
  <2> QED
    BY <1>1, <1>3, <2>2, <2>3
<1> QED
  BY <1>7, <1>8 DEF Passed, k, l, long

-----------------------------------------------------------------------------
(* What the pass finds of one kind in the first p characters.              *)

(* What the character at i adds to the text of one kind.                   *)
Piece(text, i, kind) == IF Scan(text)[i].kind = kind THEN <<text[i]>> ELSE <<>>

(* The text of one kind in the first p characters.                         *)
SpokenUpTo(text, p, kind) == FlattenSeq([i \in 1..p |-> Piece(text, i, kind)])

(* A piece is one character or none.                                       *)
LEMMA PieceType ==
  ASSUME NEW text \in Seq(STRING), NEW kind, NEW i \in 1..Len(text)
  PROVE  /\ Piece(text, i, kind) \in Seq(STRING)
         /\ Len(Piece(text, i, kind)) = IF Scan(text)[i].kind = kind THEN 1 ELSE 0
<1>1. text[i] \in STRING
  OBVIOUS
<1>2. PICK x \in STRING : x = text[i]
  BY <1>1
<1>3. <<x>> \in Seq(STRING)
  BY Singleton, Zenon
<1>4. Len(<<x>>) = 1 /\ Len(<<>>) = 0
  OBVIOUS
<1>5. <<>> \in Seq(STRING)
  OBVIOUS
<1>6. CASE Scan(text)[i].kind = kind
  <2>1. Piece(text, i, kind) = <<x>>
    BY <1>2, <1>6 DEF Piece
  <2> QED
    BY <1>3, <1>4, <1>6, <2>1
<1>7. CASE Scan(text)[i].kind # kind
  <2>1. Piece(text, i, kind) = <<>>
    BY <1>7 DEF Piece
  <2> QED
    BY <1>4, <1>5, <1>7, <2>1
<1> QED
  BY <1>6, <1>7

(* It is a sequence of characters, and in the end what is spoken.          *)
LEMMA SpokenType ==
  ASSUME NEW text \in Seq(STRING), NEW kind
  PROVE  /\ \A p \in 0..Len(text) : /\ SpokenUpTo(text, p, kind) \in Seq(STRING)
                                    /\ [i \in 1..p |-> Piece(text, i,
                                         kind)] \in Seq(Seq(STRING))
         /\ SpokenUpTo(text, 0, kind) = <<>>
         /\ Spoken(text, kind) = SpokenUpTo(text, Len(text), kind)
<1>1. ASSUME NEW p \in 0..Len(text)
      PROVE [i \in 1..p |-> Piece(text, i, kind)] \in Seq(Seq(STRING))
  <2>1. \A i \in 1..p : Piece(text, i, kind) \in Seq(STRING)
    BY PieceType
  <2> DEFINE P(i) == Piece(text, i, kind)
  <2> HIDE DEF P
  <2>2. [i \in 1..p |-> P(i)] \in [1..p -> Seq(STRING)]
    BY <2>1 DEF P
  <2>3. p \in Nat
    OBVIOUS
  <2>4. [i \in 1..p |-> P(i)] \in Seq(Seq(STRING))
    BY <2>2, <2>3
  <2> QED
    BY <2>4 DEF P
<1>2. \A p \in 0..Len(text) : SpokenUpTo(text, p, kind) \in Seq(STRING)
  BY <1>1, FlattenType DEF SpokenUpTo
<1>3. SpokenUpTo(text, 0, kind) = <<>>
  <2>1. [i \in 1..0 |-> Piece(text, i, kind)] = <<>>
    OBVIOUS
  <2> QED
    BY <2>1, FlattenEmpty DEF SpokenUpTo
<1>4. Spoken(text, kind) = SpokenUpTo(text, Len(text), kind)
  <2>1. DOMAIN text = 1..Len(text)
    OBVIOUS
  <2> QED
    BY <2>1, Zenon DEF Spoken, SpokenUpTo, Piece
<1> QED
  BY <1>1, <1>2, <1>3, <1>4

(* Each character adds itself, or nothing.                                 *)
LEMMA SpokenNext ==
  ASSUME NEW text \in Seq(STRING), NEW kind, NEW i \in 1..Len(text)
  PROVE  SpokenUpTo(text, i, kind) = SpokenUpTo(text, i - 1, kind) \o Piece(text, i, kind)
<1> DEFINE P(j) == Piece(text, j, kind)
<1>1. i - 1 \in 0..Len(text) /\ i \in 0..Len(text) /\ i - 1 \in Nat /\ i \in Nat
  OBVIOUS
<1>2. [j \in 1..(i - 1) |-> P(j)] \in Seq(Seq(STRING))
        /\ [j \in 1..i |-> P(j)] \in Seq(Seq(STRING))
  BY <1>1, SpokenType
<1> HIDE DEF P
<1>3. PICK a, b : a = [j \in 1..(i - 1) |-> P(j)] /\ b = [j \in 1..i |-> P(j)]
  OBVIOUS
<1>4. /\ Len(a) = i - 1 /\ Len(b) = Len(a) + 1 /\ b[Len(a) + 1] = P(i)
      /\ \A j \in 1..Len(a) : b[j] = a[j]
  BY <1>1, <1>3
<1>5. a \in Seq(Seq(STRING)) /\ b \in Seq(Seq(STRING))
  BY <1>2, <1>3
<1>6. FlattenSeq(b) = FlattenSeq(a) \o b[Len(a) + 1]
  BY <1>4, <1>5, FlattenLast
<1>7. FlattenSeq(b) = FlattenSeq(a) \o P(i)
  BY <1>4, <1>6
<1> QED
  BY <1>3, <1>7 DEF SpokenUpTo, P

(* What has been passed stays, whatever comes after it.                    *)
LEMMA SpokenStays ==
  ASSUME NEW text \in Seq(STRING), NEW more \in Seq(STRING),
           NEW p \in 0..Len(text), Passed(text, p),
         NEW kind
  PROVE  SpokenUpTo(text \o more, p, kind) = SpokenUpTo(text, p, kind)
<1>1. \A i \in 1..p : (text \o more)[i] = text[i]
  OBVIOUS
<1>2. \A i \in 1..p : Scan(text \o more)[i] = Scan(text)[i]
  BY PassedStays
<1>3. \A i \in 1..p : Piece(text \o more, i, kind) = Piece(text, i, kind)
  BY <1>1, <1>2 DEF Piece
<1>4. [i \in 1..p |-> Piece(text \o more, i, kind)] = [i \in 1..p |-> Piece(text, i, kind)]
  BY <1>3
<1> QED
  BY <1>4 DEF SpokenUpTo

(* Text may be grouped as one likes.                                       *)
LEMMA RegroupText ==
  ASSUME NEW s \in Seq(STRING), NEW t \in Seq(STRING), NEW u \in Seq(STRING)
  PROVE  s \o t \in Seq(STRING) /\ (s \o t) \o u = s \o (t \o u)
  BY Regroup

(* What is spoken up to a point is a prefix of what is spoken in all.      *)
LEMMA SpokenPrefix ==
  ASSUME NEW text \in Seq(STRING), NEW kind, NEW p \in 0..Len(text)
  PROVE  IsPrefix(SpokenUpTo(text, p, kind), Spoken(text, kind))
<1> DEFINE U(i) == SpokenUpTo(text, i, kind)
           Longer == {i \in 0..Len(text) : p <= i => \E r \in Seq(STRING) : U(i) = U(p) \o r}
<1>1. \A i \in 0..Len(text) : U(i) \in Seq(STRING)
  BY SpokenType
<1>2. \A i \in 1..Len(text) : U(i) = U(i - 1) \o Piece(text, i, kind)
        /\ Piece(text, i, kind) \in Seq(STRING)
  BY SpokenNext, PieceType
<1> HIDE DEF U
<1>3. U(p) = U(p) \o <<>> /\ <<>> \in Seq(STRING)
  BY <1>1
<1>4. p \in Longer
  BY <1>3 DEF Longer
<1>5. 0 \in Longer
  <2>1. 0 \in 0..Len(text) /\ (p <= 0 => p = 0)
    OBVIOUS
  <2>2. p <= 0 => \E r \in Seq(STRING) : U(0) = U(p) \o r
    BY <1>3, <2>1
  <2> QED
    BY <2>1, <2>2 DEF Longer
<1>6. ASSUME NEW i \in 1..Len(text), i - 1 \in Longer PROVE i \in Longer
  <2>1. CASE p <= i - 1
    <3>1. PICK r \in Seq(STRING) : U(i - 1) = U(p) \o r
      BY <1>6, <2>1
    <3>2. U(i) = (U(p) \o r) \o Piece(text, i, kind)
      BY <1>2, <3>1
    <3>3. PICK u \in Seq(STRING), e \in Seq(STRING) : u = U(p) /\ e = Piece(text, i, kind)
      BY <1>1, <1>2
    <3>4. r \o e \in Seq(STRING)
      OBVIOUS
    <3>6. (u \o r) \o e = u \o (r \o e)
      BY RegroupText
    <3>5. i \in 0..Len(text) /\ U(i) = U(p) \o (r \o e)
      BY <3>2, <3>3, <3>6
    <3> QED
      BY <3>4, <3>5 DEF Longer
  <2>2. CASE ~(p <= i - 1)
    <3>1. i \in 0..Len(text) /\ (p <= i => p = i)
      BY <2>2
    <3> QED
      BY <3>1, <1>3 DEF Longer
  <2> QED
    BY <2>1, <2>2
<1>12. Len(text) \in Nat /\ Len(text) \in 0..Len(text) /\ p <= Len(text)
  OBVIOUS
<1> HIDE DEF Longer
<1>7. \A i \in 0..Len(text) : i \in Longer
  BY <1>5, <1>6, <1>12, UpTo
<1>8. PICK r \in Seq(STRING) : U(Len(text)) = U(p) \o r
  BY <1>7, <1>12 DEF Longer
<1>9. U(p) \in Seq(STRING)
  BY <1>1
<1>10. PICK u \in Seq(STRING) : u = U(p)
  BY <1>9
<1>11. IsPrefix(u, u \o r)
  BY DEF IsPrefix
<1> QED
  BY <1>8, <1>10, <1>11, SpokenType DEF U

(* A character adds one character at most to what is spoken.               *)
LEMMA SpokenGrows ==
  ASSUME NEW text \in Seq(STRING), NEW p \in 0..Len(text)
  PROVE  /\ Len(Spoken(text, "text")) + Len(Spoken(text, "thinking"))
              <= Len(SpokenUpTo(text, p, "text")) + Len(SpokenUpTo(text, p,
                "thinking")) + (Len(text) - p)
<1> DEFINE U(i) == Len(SpokenUpTo(text, i, "text")) + Len(SpokenUpTo(text, i, "thinking"))
           Slow == {i \in 0..Len(text) : p <= i => U(i) <= U(p) + (i - p)}
<1>1. \A i \in 0..Len(text) : U(i) \in Nat
  BY SpokenType
<1>2. ASSUME NEW i \in 1..Len(text) PROVE U(i) <= U(i - 1) + 1
  <2>1. i - 1 \in 0..Len(text)
    OBVIOUS
  <2>2. PICK a \in Seq(STRING), b \in Seq(STRING) :
          a = SpokenUpTo(text, i - 1, "text") /\ b = SpokenUpTo(text, i - 1, "thinking")
    BY <2>1, SpokenType
  <2>3. /\ SpokenUpTo(text, i, "text") = a \o Piece(text, i, "text")
        /\ SpokenUpTo(text, i, "thinking") = b \o Piece(text, i, "thinking")
    BY <2>2, SpokenNext
  <2>4. PICK c \in Seq(STRING), d \in Seq(STRING) :
          c = Piece(text, i, "text") /\ d = Piece(text, i, "thinking")
    BY PieceType
  <2>5. Len(c) + Len(d) <= 1
    <3>1. Len(c) = IF Scan(text)[i].kind = "text" THEN 1 ELSE 0
      BY <2>4, PieceType
    <3>2. Len(d) = IF Scan(text)[i].kind = "thinking" THEN 1 ELSE 0
      BY <2>4, PieceType
    <3>3. Scan(text)[i].kind = "text" => Scan(text)[i].kind # "thinking"
      OBVIOUS
    <3> QED
      BY <3>1, <3>2, <3>3
  <2>6. Len(a \o c) = Len(a) + Len(c) /\ Len(b \o d) = Len(b) + Len(d)
    OBVIOUS
  <2>7. Len(a) \in Nat /\ Len(b) \in Nat /\ Len(c) \in Nat /\ Len(d) \in Nat
    OBVIOUS
  <2> QED
    BY <2>2, <2>3, <2>4, <2>5, <2>6, <2>7
<1> HIDE DEF U
<1>3. p \in Slow /\ 0 \in Slow
  BY <1>1 DEF Slow
<1>4. ASSUME NEW i \in 1..Len(text), i - 1 \in Slow PROVE i \in Slow
  <2>1. U(i) \in Nat /\ U(i - 1) \in Nat /\ U(p) \in Nat /\ i \in Nat /\ p \in Nat
          /\ i \in 0..Len(text)
    BY <1>1
  <2>2. CASE p <= i - 1
    BY <1>2, <1>4, <2>1, <2>2
  <2>3. CASE ~(p <= i - 1)
    BY <1>3, <2>1, <2>3
  <2> QED
    BY <2>2, <2>3
<1>7. Len(text) \in Nat /\ Len(text) \in 0..Len(text) /\ p <= Len(text)
  OBVIOUS
<1> HIDE DEF Slow
<1>5. \A i \in 0..Len(text) : i \in Slow
  BY <1>3, <1>4, <1>7, UpTo
<1>6. U(Len(text)) <= U(p) + (Len(text) - p)
  BY <1>5, <1>7 DEF Slow
<1> QED
  BY <1>6, SpokenType DEF U

-----------------------------------------------------------------------------
(* The pass over a segment between tags, and over a tag.                   *)

(* The kind of what stands where the pass is.                              *)
Between(thinking) == IF thinking THEN "thinking" ELSE "text"

(* Where no tag starts the pass stays as it is.                            *)
LEMMA SegmentPass ==
  ASSUME NEW text \in Seq(STRING), NEW p \in Nat, NEW n \in Nat, p + n <= Len(text),
         Scan(text)[p].skip = 0,
         \A j \in 1..n : ~StartsAt(Sought(Scan(text)[p]), text, p + j)
  PROVE  /\ \A j \in 0..n : /\ Scan(text)[p + j].skip = 0
                            /\ Scan(text)[p + j].thinking = Scan(text)[p].thinking
         /\ \A j \in 1..n : Scan(text)[p + j].kind = Between(Scan(text)[p].thinking)
<1> DEFINE k == Scan(text)
           Calm == {j \in 0..n : k[p + j].skip = 0 /\ k[p + j].thinking = k[p].thinking}
<1>1. 0 \in Calm
  BY DEF Calm
<1>2. ASSUME NEW j \in 1..n, k[p + j - 1].skip = 0, k[p + j - 1].thinking = k[p].thinking
      PROVE  /\ k[p + j].skip = 0 /\ k[p + j].thinking = k[p].thinking
             /\ k[p + j].kind = Between(k[p].thinking)
  <2>1. p + j \in 1..Len(text)
    OBVIOUS
  <2>2. Sought(k[p + j - 1]) = Sought(k[p])
    BY <1>2 DEF Sought
  <2>3. ~StartsAt(Sought(k[p + j - 1]), text, p + j)
    BY <2>2
  <2>4. /\ k[p + j].kind = IF k[p + j - 1].thinking THEN "thinking" ELSE "text"
        /\ k[p + j].thinking = k[p + j - 1].thinking /\ k[p + j].skip = 0
    BY <1>2, <2>1, <2>3, ScanNext
  <2> QED
    BY <1>2, <2>4 DEF Between
<1> HIDE DEF k
<1>3. ASSUME NEW j \in 1..n, j - 1 \in Calm PROVE j \in Calm
  <2>1. p + (j - 1) = p + j - 1 /\ j \in 0..n
    OBVIOUS
  <2> QED
    BY <1>2, <1>3, <2>1
<1> HIDE DEF Calm
<1>4. \A j \in 0..n : j \in Calm
  BY <1>1, <1>3, UpTo
<1>5. \A j \in 0..n : k[p + j].skip = 0 /\ k[p + j].thinking = k[p].thinking
  BY <1>4 DEF Calm
<1>6. ASSUME NEW j \in 1..n PROVE k[p + j].kind = Between(k[p].thinking)
  <2>1. p + (j - 1) = p + j - 1 /\ j - 1 \in 0..n
    OBVIOUS
  <2>2. k[p + j - 1].skip = 0 /\ k[p + j - 1].thinking = k[p].thinking
    BY <1>5, <2>1
  <2> QED
    BY <1>2, <2>2
<1> QED
  BY <1>5, <1>6 DEF k

(* A tag is skipped as a whole.                                            *)
LEMMA TagPass ==
  ASSUME NEW text \in Seq(STRING), NEW p \in Nat, NEW n \in Nat,
         p + n <= Len(text), n = Len(Sought(Scan(text)[p])), n > 0,
         Scan(text)[p].skip = 0, Scan(text)[p].thinking \in BOOLEAN,
         StartsAt(Sought(Scan(text)[p]), text, p + 1)
  PROVE  \A j \in 1..n : /\ Scan(text)[p + j].kind = "none"
                         /\ Scan(text)[p + j].thinking = ~Scan(text)[p].thinking
                         /\ Scan(text)[p + j].skip = n - j
<1> DEFINE k == Scan(text)
           Good(j) == /\ k[p + j].kind = "none" /\ k[p + j].thinking = ~k[p].thinking
                      /\ k[p + j].skip = n - j
           Inside == {j \in 0..n : j # 0 => Good(j)}
<1>1. 0 \in Inside
  BY DEF Inside
<1>2. Good(1)
  <2>1. p + 1 \in 1..Len(text) /\ p + 1 - 1 = p
    OBVIOUS
  <2> QED
    BY <2>1, ScanNext
<1>3. ASSUME NEW j \in 2..n, Good(j - 1) PROVE Good(j)
  <2>1. p + j \in 1..Len(text) /\ p + j - 1 = p + (j - 1) /\ n - (j - 1) > 0
    OBVIOUS
  <2>2. k[p + j - 1].skip = n - (j - 1) /\ k[p + j - 1].thinking = ~k[p].thinking
    BY <1>3, <2>1
  <2>3. /\ k[p + j].kind = "none" /\ k[p + j].thinking = k[p + j - 1].thinking
        /\ k[p + j].skip = k[p + j - 1].skip - 1
    BY <2>1, <2>2, ScanNext
  <2> QED
    BY <2>2, <2>3
<1> HIDE DEF Good
<1>4. ASSUME NEW j \in 1..n, j - 1 \in Inside PROVE j \in Inside
  <2>1. CASE j = 1
    BY <1>2, <2>1
  <2>2. CASE j # 1
    <3>1. j \in 2..n /\ j - 1 # 0
      BY <2>2
    <3> QED
      BY <1>3, <1>4, <3>1
  <2> QED
    BY <2>1, <2>2
<1> HIDE DEF Inside
<1>5. \A j \in 0..n : j \in Inside
  BY <1>1, <1>4, UpTo
<1>6. \A j \in 1..n : Good(j)
  BY <1>5 DEF Inside
<1> QED
  BY <1>6 DEF Good, k

(* Characters of the kind are spoken, others are not.                      *)
LEMMA SegmentSpoken ==
  ASSUME NEW text \in Seq(STRING), NEW p \in Nat, NEW n \in Nat, p + n <= Len(text), NEW kind
  PROVE  /\ (\A j \in 1..n : Scan(text)[p + j].kind = kind) =>
              SpokenUpTo(text, p + n, kind)
                = SpokenUpTo(text, p, kind) \o SubSeq(text, p + 1, p + n)
         /\ (\A j \in 1..n : Scan(text)[p + j].kind # kind) =>
              SpokenUpTo(text, p + n, kind) = SpokenUpTo(text, p, kind)
<1> DEFINE U(j) == SpokenUpTo(text, p + j, kind)
           Q(j) == SubSeq(text, p + 1, p + j)
<1>1. ASSUME NEW j \in 0..n PROVE U(j) \in Seq(STRING)
  <2>1. p + j \in 0..Len(text)
    OBVIOUS
  <2> QED
    BY <2>1, SpokenType
<1>2. ASSUME NEW j \in 1..n
      PROVE  /\ Scan(text)[p + j].kind = kind => U(j) = U(j - 1) \o <<text[p + j]>>
             /\ Scan(text)[p + j].kind # kind => U(j) = U(j - 1) \o <<>>
  <2>1. p + j \in 1..Len(text) /\ p + j - 1 = p + (j - 1)
    OBVIOUS
  <2>2. SpokenUpTo(text, p + j, kind)
          = SpokenUpTo(text, p + j - 1, kind) \o Piece(text, p + j, kind)
    BY <2>1, SpokenNext
  <2>3. U(j) = U(j - 1) \o Piece(text, p + j, kind)
    BY <2>1, <2>2
  <2> QED
    BY <2>3 DEF Piece
<1>3. ASSUME NEW j \in 1..n
      PROVE  /\ Q(j) = Q(j - 1) \o <<text[p + j]>> /\ Q(j - 1) \in Seq(STRING)
             /\ <<text[p + j]>> \in Seq(STRING)
  <2>1. text[p + j] \in STRING
    OBVIOUS
  <2>2. PICK c \in STRING : c = text[p + j]
    BY <2>1
  <2>3. p + (j - 1) = p + j - 1 /\ p + j \in 1..Len(text) /\ p + 1 \in 1..Len(text)
    OBVIOUS
  <2>4. Q(j - 1) \in Seq(STRING) /\ Q(j) = Q(j - 1) \o <<c>>
    BY <2>2, <2>3
  <2> QED
    BY <2>2, <2>4, Singleton, Zenon
<1>4. U(0) = SpokenUpTo(text, p, kind) /\ Q(0) = <<>> /\ U(n) = SpokenUpTo(text, p + n, kind)
  OBVIOUS
<1>5. ASSUME \A j \in 1..n : Scan(text)[p + j].kind = kind PROVE U(n) = U(0) \o Q(n)
  <2> DEFINE Reached == {j \in 0..n : U(j) = U(0) \o Q(j)}
  <2> HIDE DEF U, Q
  <2>1. 0 \in Reached
    BY <1>1, <1>4
  <2>2. ASSUME NEW j \in 1..n, j - 1 \in Reached PROVE j \in Reached
    <3>1. U(j) = (U(0) \o Q(j - 1)) \o <<text[p + j]>>
      BY <1>2, <1>5, <2>2
    <3>5. U(0) \in Seq(STRING)
      BY <1>1
    <3>6. Q(j - 1) \in Seq(STRING) /\ <<text[p + j]>> \in Seq(STRING)
      BY <1>3, Zenon
    <3>2. PICK a \in Seq(STRING), b \in Seq(STRING), c \in Seq(STRING) :
            a = U(0) /\ b = Q(j - 1) /\ c = <<text[p + j]>>
      BY <3>5, <3>6, Zenon
    <3>3. (a \o b) \o c = a \o (b \o c)
      BY RegroupText
    <3>4. U(j) = U(0) \o Q(j)
      BY <1>3, <3>1, <3>2, <3>3, Zenon
    <3> QED
      BY <3>4
  <2> HIDE DEF Reached
  <2>3. \A j \in 0..n : j \in Reached
    BY <2>1, <2>2, UpTo
  <2> QED
    BY <2>3 DEF Reached
<1>6. ASSUME \A j \in 1..n : Scan(text)[p + j].kind # kind PROVE U(n) = U(0)
  <2> DEFINE Reached == {j \in 0..n : U(j) = U(0)}
  <2> HIDE DEF U
  <2>1. 0 \in Reached
    OBVIOUS
  <2>2. ASSUME NEW j \in 1..n, j - 1 \in Reached PROVE j \in Reached
    <3>1. U(j) = U(0) \o <<>>
      BY <1>2, <1>6, <2>2
    <3>2. U(0) \o <<>> = U(0)
      BY <1>1
    <3> QED
      BY <3>1, <3>2
  <2> HIDE DEF Reached
  <2>3. \A j \in 0..n : j \in Reached
    BY <2>1, <2>2, UpTo
  <2> QED
    BY <2>3 DEF Reached
<1> QED
  BY <1>4, <1>5, <1>6

-----------------------------------------------------------------------------
(* The splitter and the pass: the buffer is the end of the text, and the   *)
(* pass stands before it, between tags, where the splitter does.           *)
Splits(text, b, thinking) ==
  /\ Len(b) <= Len(text)
  /\ \A i \in 1..Len(b) : b[i] = text[Len(text) - Len(b) + i]
  /\ Scan(text)[Len(text) - Len(b)].skip = 0
  /\ Scan(text)[Len(text) - Len(b)].thinking = thinking

(* Where the pass stands, and what is left of the buffer from i on.        *)
Place(text, b) == Len(text) - Len(b)

(* What is left of the buffer from i on.                                   *)
After(b, i) == SubSeq(b, i, Len(b))

(* The tag that is looked for.                                             *)
TagOf(thinking) == IF thinking THEN CloseTag ELSE OpenTag

(* A tag starts in the buffer where it starts in the text.                 *)
LEMMA SameStart ==
  ASSUME NEW text \in Seq(STRING), NEW b \in Seq(STRING), NEW p \in Nat, Len(text) = p + Len(b),
         \A i \in 1..Len(b) : b[i] = text[p + i], NEW tag \in Seq(STRING), NEW j \in 1..Len(b)
  PROVE  StartsAt(tag, text, p + j) <=> StartsAt(tag, b, j)
<1>1. p + j + Len(tag) - 1 <= Len(text) <=> j + Len(tag) - 1 <= Len(b)
  OBVIOUS
<1>2. ASSUME j + Len(tag) - 1 <= Len(b), NEW q \in 1..Len(tag)
      PROVE  text[p + j + q - 1] = b[j + q - 1]
  <2>1. j + q - 1 \in 1..Len(b) /\ p + j + q - 1 = p + (j + q - 1)
    BY <1>2
  <2> QED
    BY <2>1
<1> QED
  BY <1>1, <1>2 DEF StartsAt

(* From p to q the pass finds the data, as what it is looking for.         *)
Speaks(text, p, q, thinking, data) ==
  \A kind \in {"text", "thinking"} :
    SpokenUpTo(text, q, kind) =
      IF kind = Between(thinking) THEN SpokenUpTo(text, p, kind) \o data
      ELSE SpokenUpTo(text, p, kind)

(* What the splitter takes off before the n characters that are kept, if   *)
(* no tag starts in it, is spoken as the one kind.                         *)
LEMMA SegmentEffect ==
  ASSUME NEW text \in Seq(STRING), NEW b \in Seq(STRING), NEW thinking \in BOOLEAN,
         Splits(text, b, thinking), NEW m \in 0..Len(b),
         \A j \in 1..m : ~StartsAt(TagOf(thinking), b, j), NEW p, p = Place(text, b)
  PROVE  /\ p \in Nat
         /\ \A j \in 0..m : Scan(text)[p + j].skip = 0 /\ Scan(text)[p + j].thinking = thinking
         /\ \A kind \in {"text", "thinking"} :
              SpokenUpTo(text, p + m, kind) =
                IF kind = Between(thinking) THEN SpokenUpTo(text, p, kind) \o SubSeq(b, 1, m)
                ELSE SpokenUpTo(text, p, kind)
         /\ Passed(text, p) /\ (m = 0 \/ p + m + Len(TagOf(thinking)) - 1 <= Len(text)) =>
              Passed(text, p + m)
<1> DEFINE k == Scan(text)
<1>1. p \in Nat /\ Len(text) = p + Len(b) /\ m \in Nat /\ p + m <= Len(text) /\ m <= Len(b)
  BY DEF Splits, Place
<1>8. \A i \in 1..Len(b) : b[i] = text[p + i]
  BY DEF Splits, Place
<1>9. k[p].skip = 0 /\ k[p].thinking = thinking
  BY DEF Splits, Place
<1>10. TagOf(thinking) \in Seq(STRING)
  BY TagAssumption DEF TagOf
<1>2. Sought(k[p]) = TagOf(thinking)
  BY <1>9 DEF TagOf, Sought
<1> HIDE DEF k
<1>3. \A j \in 1..m : ~StartsAt(Sought(k[p]), text, p + j)
  <2>1. ASSUME NEW j \in 1..m PROVE ~StartsAt(TagOf(thinking), text, p + j)
    <3>1. j \in 1..Len(b)
      OBVIOUS
    <3>2. StartsAt(TagOf(thinking), text, p + j) <=> StartsAt(TagOf(thinking), b, j)
      BY <1>1, <1>8, <1>10, <3>1, SameStart
    <3> QED
      BY <3>2
  <2> QED
    BY <1>2, <2>1
<1>4. /\ \A j \in 0..m : k[p + j].skip = 0 /\ k[p + j].thinking = k[p].thinking
      /\ \A j \in 1..m : k[p + j].kind = Between(k[p].thinking)
  BY <1>1, <1>3, <1>9, SegmentPass DEF k
<1>5. SubSeq(text, p + 1, p + m) = SubSeq(b, 1, m)
  <2>1. \A i \in 1..m : b[i] = text[p + i]
    <3>1. ASSUME NEW i \in 1..m PROVE b[i] = text[p + i]
      <4>1. i \in 1..Len(b)
        BY <1>1
      <4> QED
        BY <1>8, <4>1
    <3> QED
      BY <3>1
  <2> QED
    BY <1>1, <2>1, SameSlice
<1>6. ASSUME NEW kind \in {"text", "thinking"}
      PROVE  SpokenUpTo(text, p + m, kind) =
                IF kind = Between(thinking) THEN SpokenUpTo(text, p, kind) \o SubSeq(b, 1, m)
                ELSE SpokenUpTo(text, p, kind)
  <2>1. CASE kind = Between(thinking)
    <3>1. \A j \in 1..m : Scan(text)[p + j].kind = kind
      BY <1>4, <1>9, <2>1 DEF k
    <3>3. PICK r \in Nat, n \in Nat : r = p /\ n = m
      BY <1>1
    <3>4. r + n <= Len(text) /\ \A j \in 1..n : Scan(text)[r + j].kind = kind
      BY <1>1, <3>1, <3>3
    <3>5. SpokenUpTo(text, r + n, kind)
            = SpokenUpTo(text, r, kind) \o SubSeq(text, r + 1, r + n)
      BY <3>4, SegmentSpoken
    <3>2. SpokenUpTo(text, p + m, kind)
            = SpokenUpTo(text, p, kind) \o SubSeq(text, p + 1, p + m)
      BY <3>3, <3>5
    <3> QED
      BY <1>5, <2>1, <3>2
  <2>2. CASE kind # Between(thinking)
    <3>1. \A j \in 1..m : Scan(text)[p + j].kind # kind
      BY <1>4, <1>9, <2>2 DEF k
    <3>3. PICK r \in Nat, n \in Nat : r = p /\ n = m
      BY <1>1
    <3>4. r + n <= Len(text) /\ \A j \in 1..n : Scan(text)[r + j].kind # kind
      BY <1>1, <3>1, <3>3
    <3>5. SpokenUpTo(text, r + n, kind) = SpokenUpTo(text, r, kind)
      BY <3>4, SegmentSpoken
    <3>2. SpokenUpTo(text, p + m, kind) = SpokenUpTo(text, p, kind)
      BY <3>3, <3>5
    <3> QED
      BY <2>2, <3>2
  <2> QED
    BY <2>1, <2>2
<1>7. ASSUME Passed(text, p), m = 0 \/ p + m + Len(TagOf(thinking)) - 1 <= Len(text)
      PROVE  Passed(text, p + m)
  <2>1. ASSUME NEW i \in 1..(p + m)
        PROVE k[i - 1].skip > 0 \/ i + Len(Sought(k[i - 1])) - 1 <= Len(text)
    <3>1. CASE i <= p
      BY <1>1, <1>7, <3>1 DEF Passed, k
    <3>2. CASE ~(i <= p)
      <4>1. PICK j \in 1..m : i = p + j
        <5>1. i - p \in 1..m /\ i = p + (i - p)
          BY <1>1, <3>2
        <5> QED
          BY <5>1
      <4>2. j - 1 \in 0..m /\ i - 1 = p + (j - 1)
        BY <1>1, <4>1
      <4>3. Sought(k[i - 1]) = TagOf(thinking)
        BY <1>4, <1>9, <4>2 DEF Sought, TagOf
      <4>4. Len(TagOf(thinking)) \in Nat
        BY <1>10
      <4>5. m # 0 /\ i <= p + m
        BY <1>1, <4>1
      <4>6. p + m + Len(TagOf(thinking)) - 1 <= Len(text)
        BY <1>7, <4>5
      <4>7. PICK n \in Nat : n = Len(TagOf(thinking))
        BY <4>4
      <4>8. i + n - 1 <= Len(text)
        BY <1>1, <4>5, <4>6, <4>7
      <4> QED
        BY <4>3, <4>7, <4>8
    <3> QED
      BY <3>1, <3>2
  <2> QED
    BY <2>1 DEF Passed, k
<1> QED
  BY <1>1, <1>4, <1>6, <1>7, <1>9 DEF k

(* Nothing is found: what is not kept is spoken.                           *)
LEMMA RestEffect ==
  ASSUME NEW text \in Seq(STRING), NEW b \in Seq(STRING), NEW thinking \in BOOLEAN,
         Splits(text, b, thinking), ~Occurs(TagOf(thinking), b), NEW kept \in 0..Len(b),
         NEW c, c = After(b, Len(b) - kept + 1), NEW p, p = Place(text, b),
         NEW q, q = Place(text, c)
  PROVE  /\ c \in Seq(STRING) /\ Len(c) = kept
         /\ Splits(text, c, thinking)
         /\ Speaks(text, p, q, thinking, SubSeq(b, 1, Len(b) - kept))
         /\ Passed(text, p) /\ (kept = Len(b) \/ Len(TagOf(thinking)) <= kept + 1)
              => Passed(text, q)
<1> DEFINE m == Len(b) - kept
<1>1. m \in 0..Len(b) /\ \A j \in 1..m : ~StartsAt(TagOf(thinking), b, j)
  BY DEF Occurs
<1>2. p \in Nat /\ Len(text) = p + Len(b) /\ Len(b) \in Nat /\ Len(text) \in Nat
  BY DEF Splits, Place
<1>8. \A i \in 1..Len(b) : b[i] = text[p + i]
  BY DEF Splits, Place
<1>9. kept \in Nat /\ m \in Nat /\ m + kept = Len(b)
  BY <1>2
<1>3. c \in Seq(STRING) /\ Len(c) = kept /\ \A i \in 1..kept : c[i] = b[m + i]
  BY DEF After
<1>10. TagOf(thinking) \in Seq(STRING) /\ Len(TagOf(thinking)) \in Nat
  BY TagAssumption DEF TagOf
<1>11. Len(c) = kept
  BY <1>3
<1>4. q = p + m /\ Len(TagOf(thinking)) \in Nat
  BY <1>2, <1>9, <1>10, <1>11 DEF Place
<1>5. /\ \A j \in 0..m : Scan(text)[p + j].skip = 0 /\ Scan(text)[p + j].thinking = thinking
      /\ \A kind \in {"text", "thinking"} :
              SpokenUpTo(text, p + m, kind) =
                IF kind = Between(thinking) THEN SpokenUpTo(text, p, kind) \o SubSeq(b, 1, m)
                ELSE SpokenUpTo(text, p, kind)
      /\ Passed(text, p) /\ (m = 0 \/ p + m + Len(TagOf(thinking)) - 1 <= Len(text)) =>
              Passed(text, p + m)
  <2> HIDE DEF m
  <2> QED
    BY <1>1, SegmentEffect
<1>6. Splits(text, c, thinking)
  <2>1. \A i \in 1..Len(c) : c[i] = text[q + i]
    <3>1. ASSUME NEW i \in 1..kept PROVE c[i] = text[q + i]
      <4>3. i \in Nat /\ i >= 1 /\ i <= kept
        BY <1>9
      <4>1. m + i \in 1..Len(b) /\ q + i = p + (m + i)
        <5> HIDE DEF m
        <5> QED
          BY <1>2, <1>4, <1>9, <4>3
      <4>2. b[m + i] = text[p + (m + i)]
        BY <1>8, <4>1
      <4> QED
        BY <1>3, <4>1, <4>2
    <3> QED
      BY <1>3, <3>1
  <2>2. Scan(text)[q].skip = 0 /\ Scan(text)[q].thinking = thinking
    <3>1. m \in 0..m
      BY <1>1
    <3> QED
      BY <1>4, <1>5, <3>1
  <2>3. Len(c) <= Len(text)
    BY <1>2, <1>3
  <2> QED
    BY <2>1, <2>2, <2>3 DEF Splits, Place
<1>7. kept = Len(b) \/ Len(TagOf(thinking)) <= kept + 1 =>
        m = 0 \/ p + m + Len(TagOf(thinking)) - 1 <= Len(text)
  BY <1>2, <1>4
<1>12. Speaks(text, p, q, thinking, SubSeq(b, 1, Len(b) - kept))
  BY <1>4, <1>5 DEF Speaks
<1> QED
  BY <1>3, <1>4, <1>5, <1>6, <1>7, <1>12

(* A tag is found: what is before it is spoken, and the tag is not.        *)
LEMMA CutEffect ==
  ASSUME NEW text \in Seq(STRING), NEW b \in Seq(STRING), NEW thinking \in BOOLEAN,
         Splits(text, b, thinking), NEW i, FirstAt(TagOf(thinking), b, i),
         NEW c, c = After(b, i + Len(TagOf(thinking))), NEW p, p = Place(text, b),
         NEW q, q = Place(text, c)
  PROVE  /\ c \in Seq(STRING) /\ Len(c) < Len(b)
         /\ Splits(text, c, ~thinking)
         /\ Speaks(text, p, q, thinking, SubSeq(b, 1, i - 1))
         /\ Passed(text, p) => Passed(text, q)
<1> DEFINE m == i - 1
           n == Len(TagOf(thinking))
           k == Scan(text)
<1>1. /\ i \in 1..Len(b) /\ m \in 0..Len(b) /\ i = m + 1
      /\ \A j \in 1..m : ~StartsAt(TagOf(thinking), b, j)
      /\ StartsAt(TagOf(thinking), b, m + 1)
  BY DEF FirstAt
<1>2. p \in Nat /\ Len(text) = p + Len(b) /\ Len(b) \in Nat /\ Len(text) \in Nat
  BY DEF Splits, Place
<1>15. \A j \in 1..Len(b) : b[j] = text[p + j]
  BY DEF Splits, Place
<1>3. TagOf(thinking) \in Seq(STRING) /\ n \in Nat /\ n > 0
  BY TagAssumption DEF TagOf
<1>4. m + n <= Len(b)
  BY <1>1, <1>3 DEF StartsAt
<1>16. m \in Nat /\ n \in Nat /\ i \in Nat /\ i = m + 1
  BY <1>1, <1>3
<1>5. c \in Seq(STRING) /\ Len(c) = Len(b) - (m + n) /\ \A j \in 1..Len(c) : c[j] = b[m + n + j]
  <2>1. c = SubSeq(b, i + n, Len(b))
    BY DEF After
  <2> HIDE DEF m, n
  <2>7. m + n \in Nat /\ Len(b) - (m + n) \in Nat
    BY <1>2, <1>4, <1>16
  <2>2. PICK a \in Nat, l \in Nat : a = m + n /\ l = Len(b) - (m + n)
    BY <2>7
  <2>4. a = m + n /\ l = Len(b) - (m + n) /\ a + l <= Len(b) /\ i + n = a + 1 /\ Len(b) = a + l
    BY <1>2, <1>16, <2>2
  <2>5. c = SubSeq(b, a + 1, a + l)
    BY <2>1, <2>4, Zenon
  <2>8. a + l <= Len(b)
    BY <2>4
  <2>6. /\ SubSeq(b, a + 1, a + l) \in Seq(STRING) /\ Len(SubSeq(b, a + 1, a + l)) = l
        /\ \A j \in 1..l : SubSeq(b, a + 1, a + l)[j] = b[a + j]
    BY <2>8, Slice
  <2> QED
    BY <2>4, <2>5, <2>6, Zenon
<1>17. Len(c) = Len(b) - (m + n) /\ Len(c) \in Nat
  BY <1>5
<1>6. q = p + m + n /\ q \in Nat
  <2> HIDE DEF m, n
  <2> QED
    BY <1>2, <1>4, <1>16, <1>17 DEF Place
<1>7. /\ \A j \in 0..m : k[p + j].skip = 0 /\ k[p + j].thinking = thinking
      /\ \A kind \in {"text", "thinking"} :
              SpokenUpTo(text, p + m, kind) =
                IF kind = Between(thinking) THEN SpokenUpTo(text, p, kind) \o SubSeq(b, 1, m)
                ELSE SpokenUpTo(text, p, kind)
      /\ Passed(text, p) /\ (m = 0 \/ p + m + n - 1 <= Len(text)) => Passed(text, p + m)
  <2> HIDE DEF m
  <2> QED
    BY <1>1, SegmentEffect
<1>8. k[p + m].skip = 0 /\ k[p + m].thinking = thinking /\ Sought(k[p + m]) = TagOf(thinking)
  <2>1. m \in 0..m
    BY <1>1
  <2> QED
    BY <1>7, <2>1 DEF Sought, TagOf
<1>9. StartsAt(Sought(k[p + m]), text, p + m + 1)
  <2>1. p + m + 1 = p + (m + 1) /\ m + 1 \in 1..Len(b)
    BY <1>1, <1>2
  <2>3. PICK j \in 1..Len(b) : j = m + 1
    BY <2>1
  <2>4. StartsAt(TagOf(thinking), text, p + j) <=> StartsAt(TagOf(thinking), b, j)
    BY <1>2, <1>3, <1>15, SameStart, Zenon
  <2>2. StartsAt(TagOf(thinking), text, p + (m + 1))
    BY <1>1, <2>3, <2>4
  <2> QED
    BY <1>8, <2>1, <2>2
<1>10. p + m \in Nat /\ p + m + n <= Len(text)
  BY <1>1, <1>2, <1>3, <1>4
<1>11. \A j \in 1..n : k[p + m + j].kind = "none" /\ k[p + m + j].thinking = ~thinking
         /\ k[p + m + j].skip = n - j
  <2>1. PICK r \in Nat : r = p + m
    BY <1>10
  <2>2. /\ r + n <= Len(text) /\ n = Len(Sought(k[r])) /\ k[r].skip = 0
             /\ k[r].thinking = thinking
        /\ StartsAt(Sought(k[r]), text, r + 1)
    BY <1>8, <1>9, <1>10, <2>1
  <2>4. n \in Nat /\ n > 0 /\ Scan(text)[r].thinking \in BOOLEAN
    BY <1>3, <2>2
  <2> HIDE DEF n
  <2>5. \A j \in 1..n : /\ Scan(text)[r + j].kind = "none"
                        /\ Scan(text)[r + j].thinking = ~Scan(text)[r].thinking
                        /\ Scan(text)[r + j].skip = n - j
    BY <2>2, <2>4, TagPass
  <2>3. \A j \in 1..n : k[r + j].kind = "none" /\ k[r + j].thinking = ~thinking
          /\ k[r + j].skip = n - j
    BY <2>2, <2>5
  <2> QED
    BY <2>1, <2>3
<1>12. Splits(text, c, ~thinking)
  <2>1. \A j \in 1..Len(c) : c[j] = text[q + j]
    <3>1. ASSUME NEW j \in 1..Len(c) PROVE c[j] = text[q + j]
      <4>1. m + n + j \in 1..Len(b) /\ q + j = p + (m + n + j)
        <5> HIDE DEF m, n
        <5>1. j \in Nat /\ j >= 1 /\ j <= Len(c)
          BY <1>17
        <5>2. PICK a \in Nat : a = m + n
          BY <1>16
        <5>3. j <= Len(b) - a /\ q = p + a
          <6>1. q = p + a
            BY <1>2, <1>6, <1>16, <5>2
          <6>2. Len(c) = Len(b) - a
            BY <1>17, <5>2
          <6>3. j <= Len(b) - a
            BY <5>1, <6>2
          <6> QED
            BY <6>1, <6>3
        <5>4. a + j \in 1..Len(b) /\ q + j = p + (a + j)
          BY <1>2, <5>1, <5>3
        <5> QED
          BY <5>2, <5>4
      <4>2. b[m + n + j] = text[p + (m + n + j)]
        BY <1>15, <4>1
      <4> QED
        BY <1>5, <4>1, <4>2
    <3> QED
      BY <3>1
  <2>2. k[q].skip = 0 /\ k[q].thinking = ~thinking
    <3>1. n \in 1..n /\ n - n = 0
      BY <1>3
    <3> QED
      BY <1>6, <1>11, <3>1
  <2>3. Len(c) <= Len(text)
    <3> HIDE DEF m, n
    <3> QED
      BY <1>2, <1>4, <1>16, <1>17 DEF Place
  <2> QED
    BY <2>1, <2>2, <2>3 DEF Splits, Place
<1>13. ASSUME NEW kind \in {"text", "thinking"}
       PROVE  SpokenUpTo(text, q, kind) = SpokenUpTo(text, p + m, kind)
  <2>1. PICK r \in Nat : r = p + m
    BY <1>10
  <2>2. \A j \in 1..n : Scan(text)[r + j].kind # kind
    BY <1>11, <2>1
  <2>4. n \in Nat /\ r + n <= Len(text)
    BY <1>3, <1>10, <2>1
  <2> HIDE DEF n
  <2>3. SpokenUpTo(text, r + n, kind) = SpokenUpTo(text, r, kind)
    BY <2>2, <2>4, SegmentSpoken
  <2> QED
    BY <1>6, <2>1, <2>3
<1>14. ASSUME Passed(text, p) PROVE Passed(text, q)
  <2>1. Passed(text, p + m)
    BY <1>3, <1>7, <1>10, <1>14
  <2>2. ASSUME NEW h \in 1..q
        PROVE k[h - 1].skip > 0 \/ h + Len(Sought(k[h - 1])) - 1 <= Len(text)
    <3>1. CASE h <= p + m
      BY <1>10, <2>1, <3>1 DEF Passed
    <3>2. CASE h = p + m + 1
      <4>1. h - 1 = p + m
        BY <1>10, <3>2
      <4>2. Len(Sought(k[h - 1])) = n
        BY <1>8, <4>1
      <4> QED
        BY <1>3, <1>10, <3>2, <4>2
    <3>3. CASE h > p + m + 1
      <4>1. PICK j \in 1..n : h - 1 = p + m + j /\ j < n
        <5>1. PICK r \in Nat : r = p + m
          BY <1>10
        <5>2. h \in Nat /\ h <= r + n /\ h > r + 1
          <6> HIDE DEF m, n
          <6>1. h \in Nat /\ h <= q
            BY <1>6
          <6> QED
            BY <1>6, <1>16, <3>3, <5>1, <6>1
        <5>3. h - 1 - r \in 1..n /\ h - 1 - r < n /\ h - 1 = r + (h - 1 - r)
          BY <1>3, <5>2
        <5> QED
          BY <5>1, <5>3
      <4>2. k[h - 1].skip = n - j
        BY <1>11, <4>1
      <4> QED
        BY <1>3, <4>1, <4>2
    <3>4. h \in Nat /\ (h <= p + m \/ h = p + m + 1 \/ h > p + m + 1)
      BY <1>3, <1>6, <1>10
    <3> QED
      BY <3>1, <3>2, <3>3, <3>4
  <2> QED
    BY <2>2 DEF Passed
<1>18. Speaks(text, p, q, thinking, SubSeq(b, 1, i - 1))
  BY <1>7, <1>13 DEF Speaks
<1>19. Len(c) < Len(b)
  BY <1>1, <1>2, <1>3, <1>5
<1> QED
  BY <1>5, <1>12, <1>14, <1>18, <1>19

(* A chunk comes: the pass over the longer text goes on where it was.      *)
LEMMA ChunkEffect ==
  ASSUME NEW text \in Seq(STRING), NEW b \in Seq(STRING), NEW thinking \in BOOLEAN,
         Splits(text, b, thinking), NEW chunk \in Seq(STRING), NEW p, p = Place(text, b),
         Passed(text, p)
  PROVE  /\ Splits(text \o chunk, b \o chunk, thinking)
         /\ Place(text \o chunk, b \o chunk) = p
         /\ Passed(text \o chunk, p)
         /\ \A kind : SpokenUpTo(text \o chunk, p, kind) = SpokenUpTo(text, p, kind)
<1>1. /\ p \in Nat /\ Len(text) = p + Len(b) /\ p \in 0..Len(text) /\ p \in 0..p
      /\ \A j \in 1..Len(b) : b[j] = text[p + j]
      /\ Scan(text)[p].skip = 0 /\ Scan(text)[p].thinking = thinking
  BY DEF Splits, Place
<1>2. Scan(text \o chunk)[p] = Scan(text)[p] /\ Passed(text \o chunk, p)
  BY <1>1, PassedStays
<1>3. \A kind : SpokenUpTo(text \o chunk, p, kind) = SpokenUpTo(text, p, kind)
  BY <1>1, SpokenStays
<1>8. text \o chunk \in Seq(STRING) /\ b \o chunk \in Seq(STRING)
  BY RegroupText
<1>4. PICK long \in Seq(STRING), c \in Seq(STRING) : long = text \o chunk /\ c = b \o chunk
  BY <1>8
<1>5. Len(long) = p + Len(c) /\ Len(c) \in Nat
  BY <1>1, <1>4
<1>9. Place(long, c) = p
  BY <1>1, <1>5 DEF Place
<1>6. ASSUME NEW j \in 1..Len(c) PROVE c[j] = long[p + j]
  <2>1. CASE j <= Len(b)
    BY <1>1, <1>4, <2>1
  <2>2. CASE ~(j <= Len(b))
    <3>1. c[j] = chunk[j - Len(b)]
      BY <1>4, <2>2
    <3>3. p + j > Len(text) /\ p + j <= Len(text) + Len(chunk) /\ p + j - Len(text) = j - Len(b)
      <4>1. Len(c) = Len(b) + Len(chunk) /\ Len(b) \in Nat /\ Len(chunk) \in Nat
              /\ Len(text) = p + Len(b)
        BY <1>1, <1>4
      <4> QED
        BY <1>1, <2>2, <4>1
    <3>4. PICK h \in Nat : h = p + j
      BY <1>1, <1>5
    <3>2. long[p + j] = chunk[h - Len(text)] /\ h - Len(text) = j - Len(b)
      <4>1. h > Len(text) /\ h <= Len(text) + Len(chunk)
        BY <3>3, <3>4
      <4>2. (text \o chunk)[h] = chunk[h - Len(text)]
        BY <4>1, SecondPart
      <4>3. long[h] = chunk[h - Len(text)]
        BY <1>4, <4>2, Zenon
      <4>4. long[p + j] = long[h]
        BY <3>4, Zenon
      <4>5. h - Len(text) = j - Len(b)
        <5>1. PICK x \in Nat, y \in Nat : x = Len(b) /\ y = j
          BY <1>5
        <5>2. Len(text) = p + x /\ h = p + y
          BY <1>1, <3>4, <5>1
        <5>4. p \in Nat
          BY <1>1
        <5>3. h - Len(text) = y - x
          BY <5>2, <5>4
        <5> QED
          BY <5>1, <5>3
      <4> QED
        BY <4>3, <4>4, <4>5, Zenon
    <3> QED
      BY <3>1, <3>2
  <2> QED
    BY <2>1, <2>2
<1>7. Splits(long, c, thinking)
  <2>1. Len(long) - Len(c) = p
    BY <1>1, <1>5
  <2>2. Scan(long)[p].skip = 0 /\ Scan(long)[p].thinking = thinking
    BY <1>1, <1>2, <1>4
  <2> QED
    BY <1>1, <1>5, <1>6, <2>1, <2>2 DEF Splits
<1> QED
  BY <1>2, <1>3, <1>4, <1>7, <1>9

-----------------------------------------------------------------------------
(* What a client reads in a stream: text, thinking, and calls.             *)

(* The text of one kind that the deltas of s carry.                        *)
Deltas(s, kind) == FlattenSeq([p \in DOMAIN s |-> DeltaText(s[p], kind)])

(* What s says: text and thoughts, in sequences of characters.             *)
SaysText(s, text, thoughts) ==
  /\ IsSeq(s)
  /\ \A p \in DOMAIN s : /\ DeltaText(s[p], "text") \in Seq(STRING)
                         /\ DeltaText(s[p], "thinking") \in Seq(STRING)
  /\ Deltas(s, "text") = text /\ Deltas(s, "thinking") = thoughts

(* One more event adds what is its text.                                   *)
LEMMA DeltasAppend ==
  ASSUME NEW s, IsSeq(s), NEW e, NEW kind, DeltaText(e, kind) \in Seq(STRING),
         \A p \in DOMAIN s : DeltaText(s[p], kind) \in Seq(STRING)
  PROVE  /\ Deltas(Append(s, e), kind) = Deltas(s, kind) \o DeltaText(e, kind)
         /\ Deltas(s, kind) \in Seq(STRING)
<1>1. PICK t : t = Append(s, e)
  OBVIOUS
<1>2. PICK n \in Nat : n = Len(s)
  BY AppendFacts
<1>3. /\ DOMAIN s = 1..n /\ DOMAIN t = 1..(n + 1) /\ t[n + 1] = e
      /\ \A i \in 1..n : t[i] = s[i]
  BY <1>1, <1>2, AppendFacts
<1>4. PICK a, b : a = [p \in DOMAIN s |-> DeltaText(s[p], kind)]
        /\ b = [p \in DOMAIN t |-> DeltaText(t[p], kind)]
  OBVIOUS
<1>5. a \in [1..n -> Seq(STRING)]
  BY <1>3, <1>4
<1>6. b \in [1..(n + 1) -> Seq(STRING)]
  <2>1. \A p \in 1..(n + 1) : DeltaText(t[p], kind) \in Seq(STRING)
    BY <1>3
  <2> QED
    BY <1>3, <1>4, <2>1
<1>7. (\A i \in 1..n : b[i] = a[i]) /\ b[n + 1] = DeltaText(e, kind)
  BY <1>3, <1>4
<1>8. FlattenSeq(b) = FlattenSeq(a) \o b[n + 1] /\ FlattenSeq(a) \in Seq(STRING)
  BY <1>5, <1>6, <1>7, FlattenMore
<1> QED
  BY <1>1, <1>4, <1>7, <1>8 DEF Deltas

(* One more event says more by what is its text.                           *)
LEMMA SaysTextAppend ==
  ASSUME NEW s, NEW text, NEW thoughts, SaysText(s, text, thoughts), NEW e,
         DeltaText(e, "text") \in Seq(STRING), DeltaText(e, "thinking") \in Seq(STRING)
  PROVE  /\ text \in Seq(STRING) /\ thoughts \in Seq(STRING)
         /\ SaysText(Append(s, e), text \o DeltaText(e, "text"), thoughts \o DeltaText(e,
              "thinking"))
<1>1. PICK t : t = Append(s, e)
  OBVIOUS
<1>2. IsSeq(s) /\ IsSeq(t)
  BY <1>1, AppendFacts DEF SaysText
<1>3. /\ Deltas(t, "text") = text \o DeltaText(e, "text") /\ text \in Seq(STRING)
      /\ Deltas(t, "thinking") = thoughts \o DeltaText(e, "thinking")
           /\ thoughts \in Seq(STRING)
  BY <1>1, <1>2, DeltasAppend DEF SaysText
<1>4. /\ DOMAIN s = 1..Len(s) /\ DOMAIN t = 1..(Len(s) + 1) /\ t[Len(s) + 1] = e
           /\ Len(s) \in Nat
      /\ \A i \in 1..Len(s) : t[i] = s[i]
  BY <1>1, <1>2, AppendFacts
<1>5. \A p \in DOMAIN t : p \in DOMAIN s \/ p = Len(s) + 1
  BY <1>4
<1>6. \A p \in DOMAIN t : /\ DeltaText(t[p], "text") \in Seq(STRING)
                          /\ DeltaText(t[p], "thinking") \in Seq(STRING)
  BY <1>4, <1>5 DEF SaysText
<1> QED
  BY <1>1, <1>2, <1>3, <1>6 DEF SaysText

(* Events without text change nothing, and deltas add their text.          *)
LEMMA SaysTextEvents ==
  ASSUME NEW s, NEW text, NEW thoughts, SaysText(s, text, thoughts), NEW e
  PROVE  /\ ~IsDelta(e) \/ e.kind = "tool_use" => SaysText(Append(s, e), text, thoughts)
         /\ IsDelta(e) /\ e.kind = "text" /\ e.data \in Seq(STRING) =>
              SaysText(Append(s, e), text \o e.data, thoughts)
         /\ IsDelta(e) /\ e.kind = "thinking" /\ e.data \in Seq(STRING) =>
              SaysText(Append(s, e), text, thoughts \o e.data)
<1>1. <<>> \in Seq(STRING)
  OBVIOUS
<1>2. ASSUME NEW x \in Seq(STRING),
               NEW y \in Seq(STRING), x = DeltaText(e, "text"), y = DeltaText(e, "thinking")
      PROVE  /\ SaysText(Append(s, e), text \o x, thoughts \o y)
             /\ text \o <<>> = text /\ thoughts \o <<>> = thoughts
  <2>1. /\ text \in Seq(STRING) /\ thoughts \in Seq(STRING)
        /\ SaysText(Append(s, e), text \o x, thoughts \o y)
    BY <1>2, SaysTextAppend
  <2>2. text \o <<>> = text /\ thoughts \o <<>> = thoughts
    BY <2>1, ConcatEmptySeq
  <2> QED
    BY <2>1, <2>2
<1>3. ASSUME ~IsDelta(e) \/ e.kind = "tool_use" PROVE SaysText(Append(s, e), text, thoughts)
  <2>1. DeltaText(e, "text") = <<>> /\ DeltaText(e, "thinking") = <<>>
    BY <1>3 DEF DeltaText
  <2> QED
    BY <1>1, <1>2, <2>1
<1>4. ASSUME IsDelta(e), e.kind = "text", e.data \in Seq(STRING)
      PROVE  SaysText(Append(s, e), text \o e.data, thoughts)
  <2>1. DeltaText(e, "text") = e.data /\ DeltaText(e, "thinking") = <<>>
    BY <1>4 DEF DeltaText
  <2> QED
    BY <1>1, <1>2, <1>4, <2>1
<1>5. ASSUME IsDelta(e), e.kind = "thinking", e.data \in Seq(STRING)
      PROVE  SaysText(Append(s, e), text, thoughts \o e.data)
  <2>1. DeltaText(e, "text") = <<>> /\ DeltaText(e, "thinking") = e.data
    BY <1>5 DEF DeltaText
  <2> QED
    BY <1>1, <1>2, <1>5, <2>1
<1> QED
  BY <1>3, <1>4, <1>5

-----------------------------------------------------------------------------
(* The calls that a client reads, calls[id] is the input of the call id.   *)

(* The input of a call, empty if there has been none.                      *)
Had(calls, id) == IF id \in DOMAIN calls THEN calls[id] ELSE <<>>

(* The calls that blocks have been opened for.                             *)
Named(s) == {s[p].data[1] : p \in {q \in DOMAIN s : StartsTool(s[q])}}

(* The input that has been written to some of the blocks.                  *)
Inputs(s, blocks) == FlattenSeq([p \in DOMAIN s |-> BlockInput(s[p], blocks)])

(* The blocks of s name these calls, and carry their input.                *)
SaysCalls(s, calls) ==
  /\ \A p \in DOMAIN s : IsToolDelta(s[p]) => /\ s[p].type = "content_block_delta"
                                              /\ s[p].data \in Seq(STRING)
  /\ Named(s) = DOMAIN calls
  /\ \A id : Inputs(s, BlocksOf(s, id)) = Had(calls, id)

(* A block has one start, and input for it comes later.                    *)
LEMMA CoreUnique ==
  ASSUME NEW s, NEW b, NEW live, Core(s, b, live)
  PROVE  /\ b \in Int /\ b >= -1
         /\ \A p \in DOMAIN s : s[p].type \in {"content_block_start", "content_block_delta"} =>
              s[p].index \in 0..b
         /\ \A p, q \in DOMAIN s :
              /\ s[p].type = "content_block_start" /\ s[q].type = "content_block_start"
              /\ s[p].index = s[q].index
              => p = q
<1>1. /\ IsSeq(s) /\ WellFormed(s) /\ b \in Int /\ b >= -1
      /\ Indexes(s, "content_block_start") = 0..b
  BY DEF Core
<1>2. DOMAIN s = 1..Len(s) /\ Len(s) \in Nat
  BY <1>1, AppendFacts
<1>3. ASSUME NEW p \in DOMAIN s
      PROVE  /\ DOMAIN SubSeq(s, 1, p - 1) = 1..(p - 1)
             /\ \A i \in 1..(p - 1) : i \in DOMAIN s /\ SubSeq(s, 1, p - 1)[i] = s[i]
  <2>1. p - 1 \in 0..Len(s)
    BY <1>2
  <2>2. \A i \in 1..(p - 1) : i \in DOMAIN s
    BY <1>2
  <2> QED
    BY <1>1, <2>1, <2>2, PrefixFacts
<1>4. ASSUME NEW p \in DOMAIN s, s[p].type = "content_block_delta" PROVE s[p].index \in 0..b
  <2>1. s[p].index \in OpenBlocks(SubSeq(s, 1, p - 1))
    BY <1>1, <1>4 DEF WellFormed, FollowsProtocol
  <2>2. s[p].index \in Indexes(SubSeq(s, 1, p - 1), "content_block_start")
    BY <2>1 DEF OpenBlocks
  <2>3. s[p].index \in Indexes(s, "content_block_start")
    BY <1>3, <2>2 DEF Indexes
  <2> QED
    BY <1>1, <2>3
<1>5. ASSUME NEW p \in DOMAIN s, s[p].type = "content_block_start" PROVE s[p].index \in 0..b
  <2>1. s[p].index \in Indexes(s, "content_block_start")
    BY <1>5 DEF Indexes
  <2> QED
    BY <1>1, <2>1
<1>6. ASSUME NEW p \in DOMAIN s, NEW q \in DOMAIN s, p < q,
             s[p].type = "content_block_start", s[q].type = "content_block_start"
      PROVE  s[p].index # s[q].index
  <2>1. Indexes(SubSeq(s, 1, q - 1), "content_block_start") = 0..(s[q].index - 1)
          /\ s[q].index \in Nat
    BY <1>1, <1>6 DEF WellFormed, FollowsProtocol
  <2>2. p \in 1..(q - 1)
    BY <1>2, <1>6
  <2>3. s[p].index \in Indexes(SubSeq(s, 1, q - 1), "content_block_start")
    BY <1>3, <1>6, <2>2 DEF Indexes
  <2>4. s[p].index \in 0..(s[q].index - 1)
    BY <2>1, <2>3
  <2> QED
    BY <2>1, <2>4
<1>7. \A p, q \in DOMAIN s : p < q \/ q < p \/ p = q
  BY <1>2
<1> QED
  BY <1>1, <1>4, <1>5, <1>6, <1>7

(* One more event adds what is input of the blocks.                        *)
LEMMA InputsAppend ==
  ASSUME NEW s, IsSeq(s), NEW e, NEW blocks, BlockInput(e, blocks) \in Seq(STRING),
         \A p \in DOMAIN s : IsToolDelta(s[p]) => s[p].data \in Seq(STRING)
  PROVE  /\ Inputs(Append(s, e), blocks) = Inputs(s, blocks) \o BlockInput(e, blocks)
         /\ Inputs(s, blocks) \in Seq(STRING)
<1>1. PICK t : t = Append(s, e)
  OBVIOUS
<1>2. PICK n \in Nat : n = Len(s)
  BY AppendFacts
<1>3. /\ DOMAIN s = 1..n /\ DOMAIN t = 1..(n + 1) /\ t[n + 1] = e
      /\ \A i \in 1..n : t[i] = s[i]
  BY <1>1, <1>2, AppendFacts
<1>9. \A p \in DOMAIN s : BlockInput(s[p], blocks) \in Seq(STRING)
  <2>1. <<>> \in Seq(STRING)
    OBVIOUS
  <2> QED
    BY <2>1, Zenon DEF BlockInput
<1>4. PICK a, b : a = [p \in DOMAIN s |-> BlockInput(s[p], blocks)]
        /\ b = [p \in DOMAIN t |-> BlockInput(t[p], blocks)]
  OBVIOUS
<1>5. a \in [1..n -> Seq(STRING)]
  BY <1>3, <1>4, <1>9
<1>6. b \in [1..(n + 1) -> Seq(STRING)]
  <2>1. \A p \in 1..(n + 1) : BlockInput(t[p], blocks) \in Seq(STRING)
    BY <1>3, <1>9
  <2> QED
    BY <1>3, <1>4, <2>1
<1>7. (\A i \in 1..n : b[i] = a[i]) /\ b[n + 1] = BlockInput(e, blocks)
  BY <1>3, <1>4
<1>8. FlattenSeq(b) = FlattenSeq(a) \o b[n + 1] /\ FlattenSeq(a) \in Seq(STRING)
  BY <1>5, <1>6, <1>7, FlattenMore
<1> QED
  BY <1>1, <1>4, <1>7, <1>8 DEF Inputs

(* What starts a tool call gives it a block and a name.                    *)
LEMMA AppendStarts ==
  ASSUME NEW s, IsSeq(s), NEW e
  PROVE  /\ ~StartsTool(e) => /\ Named(Append(s, e)) = Named(s)
                              /\ \A id : BlocksOf(Append(s, e), id) = BlocksOf(s, id)
         /\ StartsTool(e) =>
              /\ Named(Append(s, e)) = Named(s) \union {e.data[1]}
              /\ \A id : BlocksOf(Append(s, e), id) =
                           BlocksOf(s, id) \union (IF id = e.data[1] THEN {e.index} ELSE {})
<1>1. PICK t : t = Append(s, e)
  OBVIOUS
<1>2. PICK n \in Nat : n = Len(s)
  BY AppendFacts
<1>3. /\ DOMAIN s = 1..n /\ DOMAIN t = 1..(n + 1) /\ t[n + 1] = e
      /\ \A i \in 1..n : t[i] = s[i]
  BY <1>1, <1>2, AppendFacts
<1>4. DOMAIN t = DOMAIN s \union {n + 1} /\ (\A i \in DOMAIN s : t[i] = s[i]) /\ t[n + 1] = e
  BY <1>3
<1>5. ASSUME ~StartsTool(e)
      PROVE Named(t) = Named(s) /\ \A id : BlocksOf(t, id) = BlocksOf(s, id)
  <2>1. {q \in DOMAIN t : StartsTool(t[q])} = {q \in DOMAIN s : StartsTool(s[q])}
    BY <1>4, <1>5
  <2>2. Named(t) = Named(s)
    BY <1>4, <2>1 DEF Named
  <2>3. ASSUME NEW id PROVE BlocksOf(t, id) = BlocksOf(s, id)
    <3>1. {q \in DOMAIN t : StartsTool(t[q])
            /\ t[q].data[1] = id} = {q \in DOMAIN s : StartsTool(s[q]) /\ s[q].data[1] = id}
      BY <1>4, <1>5
    <3> QED
      BY <1>4, <3>1 DEF BlocksOf
  <2> QED
    BY <2>2, <2>3
<1>6. ASSUME StartsTool(e)
      PROVE  /\ Named(t) = Named(s) \union {e.data[1]}
             /\ \A id : BlocksOf(t, id) = BlocksOf(s, id) \union (IF id = e.data[1]
                  THEN {e.index} ELSE {})
  <2>1. {q \in DOMAIN t : StartsTool(t[q])} = {q \in DOMAIN s : StartsTool(s[q])} \union {n + 1}
    BY <1>4, <1>6
  <2>2. Named(t) = Named(s) \union {e.data[1]}
    BY <1>4, <2>1 DEF Named
  <2>3. ASSUME NEW id
        PROVE  BlocksOf(t, id) = BlocksOf(s, id) \union (IF id = e.data[1]
                 THEN {e.index} ELSE {})
    <3>1. CASE id = e.data[1]
      <4>1. {q \in DOMAIN t : StartsTool(t[q]) /\ t[q].data[1] = id} =
            {q \in DOMAIN s : StartsTool(s[q]) /\ s[q].data[1] = id} \union {n + 1}
        BY <1>4, <1>6, <3>1
      <4> QED
        BY <1>4, <3>1, <4>1 DEF BlocksOf
    <3>2. CASE id # e.data[1]
      <4>1. {q \in DOMAIN t : StartsTool(t[q]) /\ t[q].data[1] = id} =
            {q \in DOMAIN s : StartsTool(s[q]) /\ s[q].data[1] = id}
        BY <1>4, <1>6, <3>2
      <4> QED
        BY <1>4, <3>2, <4>1 DEF BlocksOf
    <3> QED
      BY <3>1, <3>2
  <2> QED
    BY <2>2, <2>3
<1> QED
  BY <1>1, <1>5, <1>6

(* An event that neither starts a call nor carries input changes nothing.  *)
LEMMA SaysCallsQuiet ==
  ASSUME NEW s, IsSeq(s), NEW calls, SaysCalls(s, calls), NEW e, ~IsToolDelta(e), ~StartsTool(e)
  PROVE  SaysCalls(Append(s, e), calls) /\ \A id : BlocksOf(Append(s, e), id) = BlocksOf(s, id)
<1>1. Named(Append(s, e)) = Named(s) /\ \A id : BlocksOf(Append(s, e), id) = BlocksOf(s, id)
  BY AppendStarts
<1>2. ASSUME NEW id PROVE Inputs(Append(s, e), BlocksOf(s, id)) = Inputs(s, BlocksOf(s, id))
  <2>1. BlockInput(e, BlocksOf(s, id)) = <<>>
    BY DEF BlockInput
  <2>2. <<>> \in Seq(STRING)
    OBVIOUS
  <2>3. /\ Inputs(Append(s, e), BlocksOf(s, id)) = Inputs(s, BlocksOf(s, id)) \o <<>>
        /\ Inputs(s, BlocksOf(s, id)) \in Seq(STRING)
    BY <2>1, <2>2, InputsAppend DEF SaysCalls
  <2> QED
    BY <2>3, ConcatEmptySeq
<1>3. \A p \in DOMAIN Append(s, e) : IsToolDelta(Append(s, e)[p]) =>
        /\ Append(s, e)[p].type = "content_block_delta" /\ Append(s, e)[p].data \in Seq(STRING)
  <2>1. ASSUME NEW p \in DOMAIN Append(s, e)
        PROVE  (p \in DOMAIN s /\ Append(s, e)[p] = s[p]) \/ Append(s, e)[p] = e
    BY AppendFacts
  <2> QED
    BY <2>1 DEF SaysCalls
<1> QED
  BY <1>1, <1>2, <1>3 DEF SaysCalls

(* The start of a call that may be known already.                          *)
LEMMA SaysCallsStart ==
  ASSUME NEW s, NEW b, NEW live, Core(s, b, live), NEW calls, SaysCalls(s, calls),
           NEW id, NEW name,
         NEW more, DOMAIN more = DOMAIN calls \union {id}, \A x \in DOMAIN more : more[x]
           = Had(calls, x),
         NEW e, e = A!Event("content_block_start", b + 1, "tool_use", <<id, name>>)
  PROVE  /\ SaysCalls(Append(s, e), more)
         /\ \A x : BlocksOf(s, x) \subseteq BlocksOf(Append(s, e), x)
         /\ b + 1 \in BlocksOf(Append(s, e), id)
<1>1. e.type = "content_block_start" /\ e.index = b + 1 /\ e.kind = "tool_use" /\ e.data[1] = id
  BY DEF A!Event
<1>2. StartsTool(e) /\ ~IsToolDelta(e)
  BY <1>1 DEF StartsTool, IsToolDelta, IsDelta
<1>3. IsSeq(s)
  BY DEF Core
<1>4. /\ Named(Append(s, e)) = Named(s) \union {id}
      /\ \A x : BlocksOf(Append(s, e), x) = BlocksOf(s, x) \union (IF x = id
           THEN {b + 1} ELSE {})
  BY <1>1, <1>2, <1>3, AppendStarts
<1>5. ASSUME NEW x PROVE Inputs(Append(s, e), BlocksOf(Append(s, e), x)) = Had(more, x)
  <2>1. PICK new : new = BlocksOf(Append(s, e), x)
    OBVIOUS
  <2>2. BlockInput(e, new) = <<>>
    BY <1>2 DEF BlockInput
  <2>3. <<>> \in Seq(STRING)
    OBVIOUS
  <2>4. Inputs(Append(s, e), new) = Inputs(s, new) \o <<>> /\ Inputs(s, new) \in Seq(STRING)
    <3>1. BlockInput(e, new) \in Seq(STRING)
      BY <2>2, <2>3
    <3>2. \A p \in DOMAIN s : IsToolDelta(s[p]) => s[p].data \in Seq(STRING)
      BY DEF SaysCalls
    <3>3. /\ Inputs(Append(s, e), new) = Inputs(s, new) \o BlockInput(e, new)
          /\ Inputs(s, new) \in Seq(STRING)
      BY <1>3, <3>1, <3>2, InputsAppend
    <3> QED
      BY <2>2, <3>3, Zenon
  <2>5. ASSUME NEW p \in DOMAIN s PROVE BlockInput(s[p], new) = BlockInput(s[p], BlocksOf(s, x))
    <3>1. CASE IsToolDelta(s[p])
      <4>1. s[p].index \in 0..b /\ b \in Int /\ b >= -1
        BY <3>1, CoreUnique DEF SaysCalls
      <4>2. s[p].index # b + 1
        BY <4>1
      <4>3. s[p].index \in new <=> s[p].index \in BlocksOf(s, x)
        BY <1>4, <2>1, <4>2
      <4> QED
        BY <4>3 DEF BlockInput
    <3>2. CASE ~IsToolDelta(s[p])
      BY <3>2 DEF BlockInput
    <3> QED
      BY <3>1, <3>2
  <2>6. Inputs(s, new) = Inputs(s, BlocksOf(s, x))
    BY <2>5 DEF Inputs
  <2>7. Inputs(Append(s, e), new) = Had(calls, x)
    BY <2>4, <2>6, ConcatEmptySeq DEF SaysCalls
  <2>8. Had(more, x) = Had(calls, x)
    BY DEF Had
  <2> QED
    BY <2>1, <2>7, <2>8
<1>6. \A p \in DOMAIN Append(s, e) : IsToolDelta(Append(s, e)[p]) =>
        /\ Append(s, e)[p].type = "content_block_delta" /\ Append(s, e)[p].data \in Seq(STRING)
  <2>1. ASSUME NEW p \in DOMAIN Append(s, e)
        PROVE  (p \in DOMAIN s /\ Append(s, e)[p] = s[p]) \/ Append(s, e)[p] = e
    BY <1>3, AppendFacts
  <2> QED
    BY <1>2, <2>1 DEF SaysCalls
<1>7. Named(Append(s, e)) = DOMAIN more
  BY <1>4 DEF SaysCalls
<1> QED
  BY <1>4, <1>5, <1>6, <1>7 DEF SaysCalls

(* Input for a block of a call.                                            *)
LEMMA SaysCallsInput ==
  ASSUME NEW s, NEW b, NEW live, Core(s, b, live), NEW calls, SaysCalls(s, calls), NEW id,
         NEW i \in BlocksOf(s, id), NEW args \in Seq(STRING),
         NEW more, DOMAIN more = DOMAIN calls,
         \A x \in DOMAIN more : more[x] = IF x = id THEN calls[x] \o args ELSE calls[x],
         NEW e, e = A!Event("content_block_delta", i, "tool_use", args)
  PROVE  SaysCalls(Append(s, e), more) /\ \A x : BlocksOf(Append(s, e), x) = BlocksOf(s, x)
<1>1. e.type = "content_block_delta" /\ e.index = i /\ e.kind = "tool_use" /\ e.data = args
  BY DEF A!Event
<1>2. ~StartsTool(e) /\ IsToolDelta(e)
  BY <1>1 DEF StartsTool, IsToolDelta, IsDelta
<1>3. IsSeq(s)
  BY DEF Core
<1>4. /\ Named(Append(s, e)) = Named(s)
      /\ \A x : BlocksOf(Append(s, e), x) = BlocksOf(s, x)
  BY <1>2, <1>3, AppendStarts
<1>5. id \in DOMAIN calls
  BY DEF SaysCalls, BlocksOf, Named
<1>6. ASSUME NEW x, i \in BlocksOf(s, x) PROVE x = id
  <2>1. PICK p \in DOMAIN s : StartsTool(s[p]) /\ s[p].data[1] = id /\ s[p].index = i
    BY DEF BlocksOf
  <2>2. PICK q \in DOMAIN s : StartsTool(s[q]) /\ s[q].data[1] = x /\ s[q].index = i
    BY <1>6 DEF BlocksOf
  <2>3. p = q
    BY <2>1, <2>2, CoreUnique DEF StartsTool
  <2> QED
    BY <2>1, <2>2, <2>3
<1>7. ASSUME NEW x PROVE Inputs(Append(s, e), BlocksOf(s, x)) = Had(more, x)
  <2>1. <<>> \in Seq(STRING)
    OBVIOUS
  <2>2. BlockInput(e, BlocksOf(s, x)) = IF x = id THEN args ELSE <<>>
    BY <1>1, <1>2, <1>6 DEF BlockInput
  <2>3. /\ Inputs(Append(s, e), BlocksOf(s, x))
             = Inputs(s, BlocksOf(s, x)) \o BlockInput(e, BlocksOf(s, x))
        /\ Inputs(s, BlocksOf(s, x)) \in Seq(STRING)
    BY <1>3, <2>1, <2>2, InputsAppend DEF SaysCalls
  <2>4. Inputs(s, BlocksOf(s, x)) = Had(calls, x)
    BY DEF SaysCalls
  <2>5. CASE x = id
    BY <1>5, <2>2, <2>3, <2>4, <2>5 DEF Had
  <2>6. CASE x # id
    <3>1. Inputs(s, BlocksOf(s, x)) \o <<>> = Inputs(s, BlocksOf(s, x))
      BY <2>3, ConcatEmptySeq
    <3> QED
      BY <2>2, <2>3, <2>4, <2>6, <3>1 DEF Had
  <2> QED
    BY <2>5, <2>6
<1>8. \A p \in DOMAIN Append(s, e) : IsToolDelta(Append(s, e)[p]) =>
        /\ Append(s, e)[p].type = "content_block_delta" /\ Append(s, e)[p].data \in Seq(STRING)
  <2>1. ASSUME NEW p \in DOMAIN Append(s, e)
        PROVE  (p \in DOMAIN s /\ Append(s, e)[p] = s[p]) \/ Append(s, e)[p] = e
    BY <1>3, AppendFacts
  <2> QED
    BY <1>1, <2>1 DEF SaysCalls
<1> QED
  BY <1>4, <1>7, <1>8 DEF SaysCalls

-----------------------------------------------------------------------------
(* What a client has been told by a stream of blocks.                      *)

(* Events that neither carry text or input nor name a call.                *)
Quiet(e) == ~IsDelta(e) /\ ~StartsTool(e)

(* All that a stream of blocks has told.                                   *)
Says(s, text, thoughts, calls) == SaysText(s, text, thoughts) /\ SaysCalls(s, calls)

(* The formatter remembers the blocks that belong to the calls.            *)
Hosts(s, m) == \A x \in DOMAIN m : m[x] \in BlocksOf(s, x)

(* A formatter that has told it, and will find the blocks of its calls.    *)
Tells(g, text, thoughts, calls) ==
  \E s, b, t, k, m, u : /\ g = Rec(s, b, t, k, m, u) /\ Shape(s, b, t, k, m)
                        /\ Says(s, text, thoughts, calls) /\ Hosts(s, m)

(* A block that is opened or closed says nothing, but of a tool.           *)
LEMMA QuietEvents ==
  ASSUME NEW i, NEW data
  PROVE  /\ \A kind : Quiet(A!Event("content_block_stop", i, kind, data))
         /\ \A kind : kind # "tool_use" => Quiet(A!Event("content_block_start", i, kind, data))
         /\ \A kind : /\ Quiet(A!Event("message_start", i, kind, data))
                      /\ Quiet(A!Event("message_delta", i, kind, data))
                      /\ Quiet(A!Event("message_stop", i, kind, data))
  BY DEF Quiet, IsDelta, StartsTool, A!Event

(* What says nothing changes nothing.                                      *)
LEMMA SaysQuiet ==
  ASSUME NEW s, NEW text, NEW thoughts, NEW calls, Says(s, text, thoughts, calls),
         NEW e, Quiet(e)
  PROVE  /\ Says(Append(s, e), text, thoughts, calls)
         /\ \A x : BlocksOf(Append(s, e), x) = BlocksOf(s, x)
         /\ \A m : Hosts(s, m) => Hosts(Append(s, e), m)
<1>1. IsSeq(s) /\ ~IsDelta(e) /\ ~IsToolDelta(e) /\ ~StartsTool(e)
  BY DEF Says, SaysText, Quiet, IsToolDelta
<1>2. SaysText(Append(s, e), text, thoughts)
  BY <1>1, SaysTextEvents DEF Says
<1>3. SaysCalls(Append(s, e), calls) /\ \A x : BlocksOf(Append(s, e), x) = BlocksOf(s, x)
  BY <1>1, SaysCallsQuiet DEF Says
<1> QED
  BY <1>2, <1>3 DEF Says, Hosts

(* The text block is closed.                                               *)
LEMMA CloseTextSays ==
  ASSUME NEW s, NEW b, NEW t, NEW k, NEW m, NEW u, Shape(s, b, t, k, m),
         NEW text, NEW thoughts, NEW calls, Says(s, text, thoughts, calls), Hosts(s, m)
  PROVE  \E s1 : /\ A!CloseText(Rec(s, b, t, k, m, u)) = Rec(s1, b, -1, k, m, u)
                 /\ Shape(s1, b, -1, k, m) /\ Says(s1, text, thoughts, calls) /\ Hosts(s1, m)
<1>1. PICK s1 : /\ A!CloseText(Rec(s, b, t, k, m, u)) = Rec(s1, b, -1, k, m, u)
                /\ Shape(s1, b, -1, k, m)
  BY CloseTextShape
<1>2. PICK e : e = A!Event("content_block_stop", t, "text", <<>>) /\ Quiet(e)
  BY QuietEvents
<1>3. s1 = s \/ s1 = Append(s, e)
  <2>1. A!CloseText(Rec(s, b, t, k, m, u)) = IF t < 0 THEN Rec(s, b, t, k, m, u)
          ELSE Rec(Append(s, e), b, -1, k, m, u)
    BY <1>2, CloseTextEffect
  <2>2. Rec(s1, b, -1, k, m, u) = Rec(s, b, t, k, m, u)
          \/ Rec(s1, b, -1, k, m, u) = Rec(Append(s, e), b, -1, k, m, u)
    BY <1>1, <2>1
  <2>3. /\ Rec(s1, b, -1, k, m, u).sent = s1 /\ Rec(s, b, t, k, m, u).sent = s
        /\ Rec(Append(s, e), b, -1, k, m, u).sent = Append(s, e)
    BY DEF Rec
  <2> QED
    BY <2>2, <2>3
<1> QED
  BY <1>1, <1>2, <1>3, SaysQuiet

(* The thinking block is closed.                                           *)
LEMMA CloseThinkingSays ==
  ASSUME NEW s, NEW b, NEW t, NEW k, NEW m, NEW u, Shape(s, b, t, k, m),
         NEW text, NEW thoughts, NEW calls, Says(s, text, thoughts, calls), Hosts(s, m)
  PROVE  \E s1 : /\ A!CloseThinking(Rec(s, b, t, k, m, u)) = Rec(s1, b, t, -1, m, u)
                 /\ Shape(s1, b, t, -1, m) /\ Says(s1, text, thoughts, calls) /\ Hosts(s1, m)
<1>1. PICK s1 : /\ A!CloseThinking(Rec(s, b, t, k, m, u)) = Rec(s1, b, t, -1, m, u)
                /\ Shape(s1, b, t, -1, m)
  BY CloseThinkingShape
<1>2. PICK e : e = A!Event("content_block_stop", k, "thinking", <<>>) /\ Quiet(e)
  BY QuietEvents
<1>3. s1 = s \/ s1 = Append(s, e)
  <2>1. A!CloseThinking(Rec(s, b, t, k, m, u)) = IF k < 0 THEN Rec(s, b, t, k, m, u)
          ELSE Rec(Append(s, e), b, t, -1, m, u)
    BY <1>2, CloseThinkingEffect
  <2>2. Rec(s1, b, t, -1, m, u) = Rec(s, b, t, k, m, u)
          \/ Rec(s1, b, t, -1, m, u) = Rec(Append(s, e), b, t, -1, m, u)
    BY <1>1, <2>1
  <2>3. /\ Rec(s1, b, t, -1, m, u).sent = s1 /\ Rec(s, b, t, k, m, u).sent = s
        /\ Rec(Append(s, e), b, t, -1, m, u).sent = Append(s, e)
    BY DEF Rec
  <2> QED
    BY <2>2, <2>3
<1> QED
  BY <1>1, <1>2, <1>3, SaysQuiet

(* A text block is opened.                                                 *)
LEMMA OpenTextSays ==
  ASSUME NEW s, NEW b, NEW t, NEW k, NEW m, NEW u, Shape(s, b, t, k, m),
         NEW text, NEW thoughts, NEW calls, Says(s, text, thoughts, calls), Hosts(s, m)
  PROVE  \E s1, b1, t1 : /\ A!OpenText(Rec(s, b, t, k, m, u)) = Rec(s1, b1, t1, k, m, u)
                         /\ Shape(s1, b1, t1, k, m) /\ t1 >= 0
                         /\ Says(s1, text, thoughts, calls) /\ Hosts(s1, m)
<1>1. PICK s1, b1, t1 : /\ A!OpenText(Rec(s, b, t, k, m, u)) = Rec(s1, b1, t1, k, m, u)
                        /\ Shape(s1, b1, t1, k, m) /\ t1 >= 0
  BY OpenTextShape
<1>2. PICK e : e = A!Event("content_block_start", b + 1, "text", <<>>) /\ Quiet(e)
  BY QuietEvents
<1>3. s1 = s \/ s1 = Append(s, e)
  <2>1. A!OpenText(Rec(s, b, t, k, m, u)) = IF t >= 0 THEN Rec(s, b, t, k, m, u)
          ELSE Rec(Append(s, e), b + 1, b + 1, k, m, u)
    BY <1>2, OpenTextEffect
  <2>2. Rec(s1, b1, t1, k, m, u) = Rec(s, b, t, k, m, u)
          \/ Rec(s1, b1, t1, k, m, u) = Rec(Append(s, e), b + 1, b + 1, k, m, u)
    BY <1>1, <2>1
  <2>3. /\ Rec(s1, b1, t1, k, m, u).sent = s1 /\ Rec(s, b, t, k, m, u).sent = s
        /\ Rec(Append(s, e), b + 1, b + 1, k, m, u).sent = Append(s, e)
    BY DEF Rec
  <2> QED
    BY <2>2, <2>3
<1> QED
  BY <1>1, <1>2, <1>3, SaysQuiet

(* A thinking block is opened.                                             *)
LEMMA OpenThinkingSays ==
  ASSUME NEW s, NEW b, NEW t, NEW k, NEW m, NEW u, Shape(s, b, t, k, m),
         NEW text, NEW thoughts, NEW calls, Says(s, text, thoughts, calls), Hosts(s, m)
  PROVE  \E s1, b1, k1 : /\ A!OpenThinking(Rec(s, b, t, k, m, u)) = Rec(s1, b1, t, k1, m, u)
                         /\ Shape(s1, b1, t, k1, m) /\ k1 >= 0
                         /\ Says(s1, text, thoughts, calls) /\ Hosts(s1, m)
<1>1. PICK s1, b1, k1 : /\ A!OpenThinking(Rec(s, b, t, k, m, u)) = Rec(s1, b1, t, k1, m, u)
                        /\ Shape(s1, b1, t, k1, m) /\ k1 >= 0
  BY OpenThinkingShape
<1>2. PICK e : e = A!Event("content_block_start", b + 1, "thinking", <<>>) /\ Quiet(e)
  BY QuietEvents
<1>3. s1 = s \/ s1 = Append(s, e)
  <2>1. A!OpenThinking(Rec(s, b, t, k, m, u)) = IF k >= 0 THEN Rec(s, b, t, k, m, u)
          ELSE Rec(Append(s, e), b + 1, t, b + 1, m, u)
    BY <1>2, OpenThinkingEffect
  <2>2. Rec(s1, b1, t, k1, m, u) = Rec(s, b, t, k, m, u)
          \/ Rec(s1, b1, t, k1, m, u) = Rec(Append(s, e), b + 1, t, b + 1, m, u)
    BY <1>1, <2>1
  <2>3. /\ Rec(s1, b1, t, k1, m, u).sent = s1 /\ Rec(s, b, t, k, m, u).sent = s
        /\ Rec(Append(s, e), b + 1, t, b + 1, m, u).sent = Append(s, e)
    BY DEF Rec
  <2> QED
    BY <2>2, <2>3
<1> QED
  BY <1>1, <1>2, <1>3, SaysQuiet

(* What is written to the text block or the thinking block.                *)
LEMMA SaysDelta ==
  ASSUME NEW s, NEW b, NEW live, Core(s, b, live),
         NEW text, NEW thoughts, NEW calls, Says(s, text, thoughts, calls),
         NEW i, NEW data \in Seq(STRING)
  PROVE  /\ \A e : e = A!Event("content_block_delta", i, "text", data) =>
              /\ Says(Append(s, e), text \o data, thoughts, calls)
              /\ \A m : Hosts(s, m) => Hosts(Append(s, e), m)
         /\ \A e : e = A!Event("content_block_delta", i, "thinking", data) =>
              /\ Says(Append(s, e), text, thoughts \o data, calls)
              /\ \A m : Hosts(s, m) => Hosts(Append(s, e), m)
<1>1. ASSUME NEW e, NEW kind \in {"text", "thinking"}, e
               = A!Event("content_block_delta", i, kind, data)
      PROVE  /\ IsDelta(e) /\ e.kind = kind /\ e.data = data
             /\ SaysCalls(Append(s, e), calls)
             /\ \A m : Hosts(s, m) => Hosts(Append(s, e), m)
  <2>1. IsDelta(e) /\ e.kind = kind /\ e.data = data /\ ~IsToolDelta(e) /\ ~StartsTool(e)
    BY <1>1 DEF A!Event, IsDelta, IsToolDelta, StartsTool
  <2>2. IsSeq(s)
    BY DEF Core
  <2>3. SaysCalls(Append(s, e), calls) /\ \A x : BlocksOf(Append(s, e), x) = BlocksOf(s, x)
    BY <2>1, <2>2, SaysCallsQuiet DEF Says
  <2> QED
    BY <2>1, <2>3 DEF Hosts
<1> QED
  BY <1>1, SaysTextEvents DEF Says

(* A segment of text is told.                                              *)
LEMMA TextTells ==
  ASSUME NEW g, NEW text, NEW thoughts, NEW calls, Tells(g, text, thoughts, calls),
         NEW data \in Seq(STRING)
  PROVE  Tells(A!StreamText(g, data), text \o data, thoughts, calls)
<1>1. PICK s, b, t, k, m, u : /\ g = Rec(s, b, t, k, m, u) /\ Shape(s, b, t, k, m)
                              /\ Says(s, text, thoughts, calls) /\ Hosts(s, m)
  BY DEF Tells
<1>2. PICK s1 : /\ A!CloseThinking(Rec(s, b, t, k, m, u)) = Rec(s1, b, t, -1, m, u)
                /\ Shape(s1, b, t, -1, m) /\ Says(s1, text, thoughts, calls) /\ Hosts(s1, m)
  BY <1>1, CloseThinkingSays
<1>3. PICK s2, b2, t2 : /\ A!OpenText(Rec(s1, b, t, -1, m, u)) = Rec(s2, b2, t2, -1, m, u)
                        /\ Shape(s2, b2, t2, -1, m) /\ t2 >= 0
                        /\ Says(s2, text, thoughts, calls) /\ Hosts(s2, m)
  BY <1>2, OpenTextSays
<1> DEFINE h == Rec(s2, b2, t2, -1, m, u)
           e == A!Event("content_block_delta", t2, "text", data)
<1>4. h.activeText = t2
  BY RecFields
<1>5. A!Write(h, e) = Rec(Append(s2, e), b2, t2, -1, m, u)
  BY RecWrite
<1>6. A!StreamText(g, data) = A!Write(h, e)
  <2> HIDE DEF h
  <2>1. A!OpenText(A!CloseThinking(g)) = h
    BY <1>1, <1>2, <1>3, Zenon DEF h
  <2> QED
    BY <1>4, <2>1, Zenon DEF A!StreamText
<1>7. t2 \in Live(t2, -1, m)
  BY <1>3 DEF Live, Shape
<1>8. Core(Append(s2, e), b2, Live(t2, -1, m)) /\ Core(s2, b2, Live(t2, -1, m))
  BY <1>3, <1>7, CoreDelta DEF Shape
<1>9. Says(Append(s2, e), text \o data, thoughts, calls) /\ Hosts(Append(s2, e), m)
  BY <1>3, <1>8, SaysDelta
<1> HIDE DEF e, h
<1>10. Shape(Append(s2, e), b2, t2, -1, m)
  BY <1>3, <1>8 DEF Shape
<1> QED
  BY <1>5, <1>6, <1>9, <1>10, Zenon DEF Tells

(* A segment of thinking is told.                                          *)
LEMMA ThinkingTells ==
  ASSUME NEW g, NEW text, NEW thoughts, NEW calls, Tells(g, text, thoughts, calls),
         NEW data \in Seq(STRING)
  PROVE  Tells(A!StreamThinking(g, data), text, thoughts \o data, calls)
<1>1. PICK s, b, t, k, m, u : /\ g = Rec(s, b, t, k, m, u) /\ Shape(s, b, t, k, m)
                              /\ Says(s, text, thoughts, calls) /\ Hosts(s, m)
  BY DEF Tells
<1>2. PICK s1 : /\ A!CloseText(Rec(s, b, t, k, m, u)) = Rec(s1, b, -1, k, m, u)
                /\ Shape(s1, b, -1, k, m) /\ Says(s1, text, thoughts, calls) /\ Hosts(s1, m)
  BY <1>1, CloseTextSays
<1>3. PICK s2, b2, k2 : /\ A!OpenThinking(Rec(s1, b, -1, k, m, u)) = Rec(s2, b2, -1, k2, m, u)
                        /\ Shape(s2, b2, -1, k2, m) /\ k2 >= 0
                        /\ Says(s2, text, thoughts, calls) /\ Hosts(s2, m)
  BY <1>2, OpenThinkingSays
<1> DEFINE h == Rec(s2, b2, -1, k2, m, u)
           e == A!Event("content_block_delta", k2, "thinking", data)
<1>4. h.activeThinking = k2
  BY RecFields
<1>5. A!Write(h, e) = Rec(Append(s2, e), b2, -1, k2, m, u)
  BY RecWrite
<1>6. A!StreamThinking(g, data) = A!Write(h, e)
  <2> HIDE DEF h
  <2>1. A!OpenThinking(A!CloseText(g)) = h
    BY <1>1, <1>2, <1>3, Zenon DEF h
  <2> QED
    BY <1>4, <2>1, Zenon DEF A!StreamThinking
<1>7. k2 \in Live(-1, k2, m)
  BY <1>3 DEF Live, Shape
<1>8. Core(Append(s2, e), b2, Live(-1, k2, m)) /\ Core(s2, b2, Live(-1, k2, m))
  BY <1>3, <1>7, CoreDelta DEF Shape
<1>9. Says(Append(s2, e), text, thoughts \o data, calls) /\ Hosts(Append(s2, e), m)
  BY <1>3, <1>8, SaysDelta
<1> HIDE DEF e, h
<1>10. Shape(Append(s2, e), b2, -1, k2, m)
  BY <1>3, <1>8 DEF Shape
<1> QED
  BY <1>5, <1>6, <1>9, <1>10, Zenon DEF Tells

(* A call whose event has come: its input grows, and it is known.          *)
Adds(calls, id, args, more) ==
  /\ DOMAIN more = DOMAIN calls \union {id}
  /\ \A x \in DOMAIN more : more[x] = IF x = id THEN Had(calls, x) \o args ELSE calls[x]

(* A call is known before its input comes.                                 *)
Knows(calls, id, more) ==
  DOMAIN more = DOMAIN calls \union {id} /\ \A x \in DOMAIN more : more[x] = Had(calls, x)

(* The input of a known call grows.                                        *)
Extends(calls, id, args, more) ==
  /\ DOMAIN more = DOMAIN calls
  /\ \A x \in DOMAIN more : more[x] = IF x = id THEN calls[x] \o args ELSE calls[x]

(* What calls say is their names and their input.                          *)
LEMMA SaysCallsSame ==
  ASSUME NEW s, NEW calls, SaysCalls(s, calls), NEW more, DOMAIN more = DOMAIN calls,
         \A x \in DOMAIN more : more[x] = calls[x]
  PROVE  SaysCalls(s, more)
<1>1. \A x : Had(more, x) = Had(calls, x)
  BY DEF Had
<1> QED
  BY <1>1 DEF SaysCalls

(* What was said of a call is input.                                       *)
LEMMA HadType ==
  ASSUME NEW s, IsSeq(s), NEW calls, SaysCalls(s, calls), NEW x
  PROVE  Had(calls, x) \in Seq(STRING)
<1>1. PICK e : e = A!Event("message_start", 0, "none", <<>>)
  OBVIOUS
<1>2. ~IsToolDelta(e)
  BY <1>1 DEF A!Event, IsToolDelta, IsDelta
<1>3. <<>> \in Seq(STRING)
  OBVIOUS
<1>4. BlockInput(e, BlocksOf(s, x)) \in Seq(STRING)
  BY <1>2, <1>3 DEF BlockInput
<1>5. Inputs(s, BlocksOf(s, x)) \in Seq(STRING)
  BY <1>4, InputsAppend DEF SaysCalls
<1> QED
  BY <1>5 DEF SaysCalls

(* What is in a record that is equal to one of these.                      *)
LEMMA RecParts ==
  ASSUME NEW h, NEW s, NEW b, NEW t, NEW k, NEW m, NEW u, h = Rec(s, b, t, k, m, u)
  PROVE  h.sent = s /\ h.toolBlocks = m
<1>1. Rec(s, b, t, k, m, u).sent = s /\ Rec(s, b, t, k, m, u).toolBlocks = m
  BY DEF Rec
<1> QED
  BY <1>1, Zenon

(* A formatter between the blocks of text: those of ids are open.          *)
Holding(g, ids, u, text, thoughts, calls) ==
  \E s, b, m : /\ g = Rec(s, b, -1, -1, m, u) /\ DOMAIN m = ids /\ Shape(s, b, -1, -1, m)
               /\ Says(s, text, thoughts, calls) /\ Hosts(s, m)

(* A block for a call, which is known from then on.                        *)
LEMMA OpenToolSays ==
  ASSUME NEW g, NEW ids, NEW u, NEW text, NEW thoughts, NEW calls,
         Holding(g, ids, u, text, thoughts, calls), NEW c, NEW more, Knows(calls, c.id, more)
  PROVE  Holding(A!OpenTool(g, c), ids \union {c.id}, u, text, thoughts, more)
<1>1. PICK s, b, m : /\ g = Rec(s, b, -1, -1, m, u) /\ DOMAIN m = ids /\ Shape(s, b, -1, -1, m)
                     /\ Says(s, text, thoughts, calls) /\ Hosts(s, m)
  BY DEF Holding
<1>2. PICK h : h = A!OpenTool(Rec(s, b, -1, -1, m, u), c)
  OBVIOUS
<1>3. PICK s1, b1, m1 : /\ h = Rec(s1, b1, -1, -1, m1, u)
                        /\ Shape(s1, b1, -1, -1, m1) /\ DOMAIN m1 = DOMAIN m \union {c.id}
  BY <1>1, <1>2, OpenToolShape
<1>4. PICK e, n : OpensTool(s, b, -1, -1, m, u, c, e, n)
  BY OpenToolEffect, Zenon
<1>5. /\ e = A!Event("content_block_start", b + 1, "tool_use", <<c.id, c.name>>)
      /\ n = [id \in DOMAIN m \union {c.id} |-> IF id = c.id THEN b + 1 ELSE m[id]]
  BY <1>4 DEF OpensTool
<1>6. Says(s1, text, thoughts, more) /\ Hosts(s1, m1)
  <2>1. CASE c.id \in DOMAIN m
    <3>1. s1 = s /\ m1 = m
      <4>1. Rec(s1, b1, -1, -1, m1, u) = Rec(s, b, -1, -1, m, u)
        BY <1>2, <1>3, <1>4, <2>1, Zenon DEF OpensTool
      <4>2. h.sent = s1 /\ h.toolBlocks = m1
        BY <1>3, RecParts
      <4>3. h = Rec(s, b, -1, -1, m, u)
        BY <1>3, <4>1, Zenon
      <4>4. h.sent = s /\ h.toolBlocks = m
        BY <4>3, RecParts
      <4> QED
        BY <4>2, <4>4
    <3>2. c.id \in DOMAIN calls
      BY <1>1, <2>1 DEF Hosts, BlocksOf, Named, Says, SaysCalls
    <3>3. DOMAIN more = DOMAIN calls /\ \A x \in DOMAIN more : more[x] = calls[x]
      BY <3>2 DEF Had, Knows
    <3>4. SaysCalls(s, more)
      BY <1>1, <3>3, SaysCallsSame DEF Says
    <3> QED
      BY <1>1, <3>1, <3>4 DEF Says
  <2>2. CASE c.id \notin DOMAIN m
    <3>1. s1 = Append(s, e) /\ m1 = n
      <4>1. Rec(s1, b1, -1, -1, m1, u) = Rec(Append(s, e), b + 1, -1, -1, n, u)
        BY <1>2, <1>3, <1>4, <2>2, Zenon DEF OpensTool
      <4>2. h.sent = s1 /\ h.toolBlocks = m1
        BY <1>3, RecParts
      <4>3. h = Rec(Append(s, e), b + 1, -1, -1, n, u)
        BY <1>3, <4>1, Zenon
      <4>4. PICK x, i : x = Append(s, e) /\ i = b + 1
        OBVIOUS
      <4>5. h = Rec(x, i, -1, -1, n, u)
        BY <4>3, <4>4
      <4>6. h.sent = x /\ h.toolBlocks = n
        BY <4>5, RecParts
      <4> QED
        BY <4>2, <4>4, <4>6
    <3>2. ~IsDelta(e)
      BY <1>5 DEF A!Event, IsDelta
    <3>3. SaysText(s1, text, thoughts)
      BY <1>1, <3>1, <3>2, SaysTextEvents DEF Says
    <3>4. /\ SaysCalls(s1, more)
          /\ \A x : BlocksOf(s, x) \subseteq BlocksOf(s1, x)
          /\ b + 1 \in BlocksOf(s1, c.id)
      <4>1. PICK live : Core(s, b, live) /\ SaysCalls(s, calls)
        BY <1>1 DEF Shape, Says
      <4> QED
        BY <1>5, <3>1, <4>1, SaysCallsStart DEF Knows
    <3>5. Hosts(s1, m1)
      BY <1>1, <1>5, <3>1, <3>4 DEF Hosts
    <3> QED
      BY <3>3, <3>4, <3>5 DEF Says
  <2> QED
    BY <2>1, <2>2
<1> QED
  BY <1>1, <1>2, <1>3, <1>6, Zenon DEF Holding

(* Input for a call whose block is open.                                   *)
LEMMA ToolInputSays ==
  ASSUME NEW g, NEW ids, NEW u, NEW text, NEW thoughts, NEW calls,
         Holding(g, ids, u, text, thoughts, calls),
           NEW c, c.id \in ids, c.arguments \in Seq(STRING),
         NEW more, Extends(calls, c.id, c.arguments, more)
  PROVE  Holding(A!ToolInput(g, c), ids, u, text, thoughts, more)
<1>1. PICK s, b, m : /\ g = Rec(s, b, -1, -1, m, u) /\ DOMAIN m = ids /\ Shape(s, b, -1, -1, m)
                     /\ Says(s, text, thoughts, calls) /\ Hosts(s, m)
  BY DEF Holding
<1>2. PICK id, args, i : id = c.id /\ args = c.arguments /\ i = m[c.id]
  OBVIOUS
<1>3. PICK e : e = A!Event("content_block_delta", i, "tool_use", args)
  OBVIOUS
<1>4. A!ToolInput(g, c) = IF args = <<>> THEN g ELSE Rec(Append(s, e), b, -1, -1, m, u)
  <2>1. A!ToolInput(Rec(s, b, -1, -1, m, u), c) =
          IF c.arguments = <<>> THEN Rec(s, b, -1, -1, m, u)
          ELSE Rec(Append(s, A!Event("content_block_delta", m[c.id], "tool_use", c.arguments)),
                   b, -1, -1, m, u)
    BY ToolInputEffect
  <2> QED
    BY <1>1, <1>2, <1>3, <2>1, Zenon
<1>5. CASE args = <<>>
  <2>1. ASSUME NEW x \in DOMAIN calls PROVE calls[x] \o <<>> = calls[x]
    <3>1. calls[x] \in Seq(STRING)
      BY <1>1, HadType DEF Says, SaysText, Had
    <3> QED
      BY <3>1, ConcatEmptySeq
  <2>2. DOMAIN more = DOMAIN calls /\ \A x \in DOMAIN more : more[x] = calls[x]
    BY <1>2, <1>5, <2>1 DEF Extends
  <2>3. SaysCalls(s, more)
    BY <1>1, <2>2, SaysCallsSame DEF Says
  <2>4. Says(s, text, thoughts, more)
    BY <1>1, <2>3 DEF Says
  <2> QED
    BY <1>1, <1>4, <1>5, <2>4, Zenon DEF Holding
<1>6. CASE args # <<>>
  <2>1. e.kind = "tool_use"
    BY <1>3 DEF A!Event
  <2>2. SaysText(Append(s, e), text, thoughts)
    BY <1>1, <2>1, SaysTextEvents DEF Says
  <2>3. i \in BlocksOf(s, id) /\ args \in Seq(STRING)
    BY <1>1, <1>2 DEF Hosts
  <2>4. SaysCalls(Append(s, e), more) /\ \A x : BlocksOf(Append(s, e), x) = BlocksOf(s, x)
    <3>1. PICK live : Core(s, b, live) /\ SaysCalls(s, calls)
      BY <1>1 DEF Shape, Says
    <3>2. /\ DOMAIN more = DOMAIN calls
          /\ \A x \in DOMAIN more : more[x] = IF x = id THEN calls[x] \o args ELSE calls[x]
      BY <1>2 DEF Extends
    <3> QED
      BY <1>3, <2>3, <3>1, <3>2, SaysCallsInput
  <2>5. Says(Append(s, e), text, thoughts, more) /\ Hosts(Append(s, e), m)
    BY <1>1, <2>2, <2>4 DEF Says, Hosts
  <2>6. Shape(Append(s, e), b, -1, -1, m)
    <3>1. i \in Live(-1, -1, m)
      BY <1>1, <1>2 DEF Live
    <3>2. Core(Append(s, e), b, Live(-1, -1, m))
      BY <1>1, <1>3, <3>1, CoreDelta DEF Shape
    <3> QED
      BY <1>1, <3>2 DEF Shape
  <2>7. A!ToolInput(g, c) = Rec(Append(s, e), b, -1, -1, m, u)
    BY <1>4, <1>6
  <2> QED
    BY <1>1, <2>5, <2>6, <2>7, Zenon DEF Holding
<1> QED
  BY <1>5, <1>6

(* The end of a call whose block is open.                                  *)
LEMMA ToolStopSays ==
  ASSUME NEW g, NEW ids, NEW u, NEW text, NEW thoughts, NEW calls,
         Holding(g, ids, u, text, thoughts, calls), NEW c, c.id \in ids
  PROVE  \E left : Holding(A!ToolStop(g, c), left, u, text, thoughts, calls)
<1>1. PICK s, b, m : /\ g = Rec(s, b, -1, -1, m, u) /\ DOMAIN m = ids /\ Shape(s, b, -1, -1, m)
                     /\ Says(s, text, thoughts, calls) /\ Hosts(s, m)
  BY DEF Holding
<1>2. PICK h : h = A!ToolStop(Rec(s, b, -1, -1, m, u), c)
  OBVIOUS
<1>3. PICK s1, m1 : /\ h = Rec(s1, b, -1, -1, m1, u)
                    /\ Shape(s1, b, -1, -1, m1)
                    /\ c.done => DOMAIN m1 = DOMAIN m \ {c.id}
                    /\ ~c.done => DOMAIN m1 = DOMAIN m
  BY <1>1, <1>2, ToolStopShape
<1>4. PICK e, n : StopsTool(s, b, -1, -1, m, u, c, e, n)
  BY ToolStopEffect, Zenon
<1>5. /\ e = A!Event("content_block_stop", m[c.id], "tool_use", <<>>)
      /\ n = [id \in DOMAIN m \ {c.id} |-> m[id]]
  BY <1>4 DEF StopsTool
<1>6. \/ s1 = s /\ m1 = m
      \/ s1 = Append(s, e) /\ m1 = n
  <2>1. h.sent = s1 /\ h.toolBlocks = m1
    BY <1>3, RecParts
  <2>2. CASE h = Rec(s, b, -1, -1, m, u)
    <3>1. h.sent = s /\ h.toolBlocks = m
      BY <2>2, RecParts
    <3> QED
      BY <2>1, <3>1
  <2>3. CASE h = Rec(Append(s, e), b, -1, -1, n, u)
    <3>1. PICK x : x = Append(s, e)
      OBVIOUS
    <3>2. h = Rec(x, b, -1, -1, n, u)
      BY <2>3, <3>1
    <3>3. h.sent = x /\ h.toolBlocks = n
      BY <3>2, RecParts
    <3> QED
      BY <2>1, <3>1, <3>3
  <2> QED
    BY <1>2, <1>4, <2>2, <2>3, Zenon DEF StopsTool
<1>7. Quiet(e)
  BY <1>5, QuietEvents
<1>8. Says(Append(s, e), text, thoughts, calls) /\ Hosts(Append(s, e), m)
  BY <1>1, <1>7, SaysQuiet
<1>9. Hosts(Append(s, e), n)
  BY <1>5, <1>8 DEF Hosts
<1>10. Says(s1, text, thoughts, calls) /\ Hosts(s1, m1)
  BY <1>1, <1>6, <1>8, <1>9
<1> QED
  BY <1>1, <1>2, <1>3, <1>10, Zenon DEF Holding

(* An event of a call is told.                                             *)
LEMMA ToolTells ==
  ASSUME NEW g, NEW text, NEW thoughts, NEW calls, Tells(g, text, thoughts, calls),
         NEW c, c.arguments \in Seq(STRING), NEW more, Adds(calls, c.id, c.arguments, more)
  PROVE  Tells(A!StreamTool(g, c), text, thoughts, more)
<1>1. PICK s, b, t, k, m, u : /\ g = Rec(s, b, t, k, m, u) /\ Shape(s, b, t, k, m)
                              /\ Says(s, text, thoughts, calls) /\ Hosts(s, m)
  BY DEF Tells
<1>2. PICK v : v = TRUE
  BY Zenon
<1>3. [Rec(s, b, t, k, m, u) EXCEPT !.hasToolUse = v] = Rec(s, b, t, k, m, v)
  BY DEF Rec
<1>4. PICK s1 : /\ A!CloseText(Rec(s, b, t, k, m, v)) = Rec(s1, b, -1, k, m, v)
                /\ Shape(s1, b, -1, k, m) /\ Says(s1, text, thoughts, calls) /\ Hosts(s1, m)
  BY <1>1, CloseTextSays
<1>5. PICK s2 : /\ A!CloseThinking(Rec(s1, b, -1, k, m, v)) = Rec(s2, b, -1, -1, m, v)
                /\ Shape(s2, b, -1, -1, m) /\ Says(s2, text, thoughts, calls) /\ Hosts(s2, m)
  BY <1>4, CloseThinkingSays
<1>6. PICK known : Knows(calls, c.id, known)
  <2>1. PICK known : known = [x \in DOMAIN calls \union {c.id} |-> Had(calls, x)]
    OBVIOUS
  <2> QED
    BY <2>1 DEF Knows
<1>7. Extends(known, c.id, c.arguments, more)
  <2>1. \A x \in DOMAIN calls : Had(calls, x) = calls[x]
    BY DEF Had
  <2>2. DOMAIN more = DOMAIN known /\ DOMAIN known = DOMAIN calls \union {c.id}
    BY <1>6 DEF Adds, Knows
  <2>3. ASSUME NEW x \in DOMAIN more
        PROVE  more[x] = IF x = c.id THEN known[x] \o c.arguments ELSE known[x]
    <3>1. more[x] = IF x = c.id THEN Had(calls, x) \o c.arguments ELSE calls[x]
      BY DEF Adds
    <3>2. known[x] = Had(calls, x)
      BY <1>6, <2>2 DEF Knows
    <3>3. x # c.id => calls[x] = Had(calls, x)
      BY <2>1, <2>2
    <3> QED
      BY <3>1, <3>2, <3>3
  <2> QED
    BY <2>2, <2>3 DEF Extends
<1>8. PICK g2, ids : /\ g2 = A!CloseThinking(A!CloseText([g EXCEPT !.hasToolUse = TRUE]))
                     /\ Holding(g2, ids, v, text, thoughts, calls)
  <2>1. [g EXCEPT !.hasToolUse = TRUE] = Rec(s, b, t, k, m, v)
    BY <1>1, <1>2, <1>3, Zenon
  <2>2. A!CloseThinking(A!CloseText([g EXCEPT !.hasToolUse = TRUE])) = Rec(s2, b, -1, -1, m, v)
    BY <2>1, <1>4, <1>5, Zenon
  <2>3. Holding(Rec(s2, b, -1, -1, m, v), DOMAIN m, v, text, thoughts, calls)
    BY <1>5, Zenon DEF Holding
  <2> QED
    BY <2>2, <2>3, Zenon
<1>9. PICK g3 : g3 = A!OpenTool(g2, c)
        /\ Holding(g3, ids \union {c.id}, v, text, thoughts, known)
  BY <1>6, <1>8, OpenToolSays
<1>10. PICK g4 : g4 = A!ToolInput(g3, c)
         /\ Holding(g4, ids \union {c.id}, v, text, thoughts, more)
  <2>1. c.id \in ids \union {c.id}
    OBVIOUS
  <2> QED
    BY <1>7, <1>9, <2>1, ToolInputSays
<1>11. PICK left : Holding(A!ToolStop(g4, c), left, v, text, thoughts, more)
  <2>1. c.id \in ids \union {c.id}
    OBVIOUS
  <2> QED
    BY <1>10, <2>1, ToolStopSays
<1>12. A!StreamTool(g, c) = A!ToolStop(g4, c)
  BY <1>8, <1>9, <1>10, Zenon DEF A!StreamTool
<1>13. Tells(A!ToolStop(g4, c), text, thoughts, more)
  BY <1>11, Zenon DEF Tells, Holding
<1> QED
  BY <1>12, <1>13, Zenon

(* However many events say nothing, they change nothing.                   *)
LEMMA SaysTail ==
  ASSUME NEW s, NEW text, NEW thoughts, NEW calls, Says(s, text, thoughts, calls),
         NEW n \in Nat,
           NEW c, DOMAIN c = 1..n, c = [i \in 1..n |-> c[i]], \A i \in 1..n : Quiet(c[i])
  PROVE  Says(s \o c, text, thoughts, calls)
<1>1. IsSeq(s)
  BY DEF Says, SaysText
<1>2. PICK U : s \in Seq(U)
  BY <1>1 DEF IsSeq
<1>3. PICK V : V = U \union {c[i] : i \in 1..n}
  OBVIOUS
<1>4. s \in Seq(V)
  BY <1>2, <1>3
<1>5. c \in Seq(V) /\ Len(c) = n
  <2>1. \A i \in 1..n : c[i] \in V
    BY <1>3
  <2>2. [i \in 1..n |-> c[i]] \in [1..n -> V]
    BY <2>1
  <2>3. c \in [1..n -> V]
    BY <2>2, Zenon
  <2> QED
    BY <2>3
<1>6. PICK l \in Nat : l = Len(s)
  <2>1. Len(s) \in Nat
    BY <1>4
  <2> QED
    BY <2>1, Zenon
<1>7. PICK q \in Seq(V) : q = s \o c
  <2>1. s \o c \in Seq(V)
    BY <1>4, <1>5
  <2> QED
    BY <2>1, Zenon
<1>8. Len(q) = l + n /\ \A i \in 1..n : q[l + i] = c[i]
  BY <1>4, <1>5, <1>6, <1>7
<1>9. SubSeq(q, 1, l) = s
  <2>1. SubSeq(q, 1, l) \in Seq(V) /\ Len(SubSeq(q, 1, l)) = l
    BY <1>6, <1>8
  <2>2. \A i \in 1..l : SubSeq(q, 1, l)[i] = s[i]
    BY <1>4, <1>5, <1>6, <1>7, <1>8
  <2> QED
    BY <1>4, <1>6, <2>1, <2>2, SeqEqual
<1>10. SubSeq(q, 1, l + n) = q
  BY <1>8, SubSeqFull
<1> DEFINE Said(j) == Says(SubSeq(q, 1, l + j), text, thoughts, calls)
           Reached == {j \in 0..n : Said(j)}
<1>11. 0 \in Reached
  <2>1. l + 0 = l /\ 0 \in 0..n
    BY <1>6
  <2>2. Says(SubSeq(q, 1, l), text, thoughts, calls)
    BY <1>9
  <2>3. Said(0)
    BY <2>1, <2>2
  <2> QED
    BY <2>1, <2>3
<1>12. ASSUME NEW j \in 1..n, j - 1 \in Reached PROVE j \in Reached
  <2>1. PICK i : i = l + j
    OBVIOUS
  <2>2. i \in 1..Len(q) /\ l + (j - 1) = i - 1 /\ j \in 0..n
    BY <1>8, <2>1
  <2>3. SubSeq(q, 1, i) = Append(SubSeq(q, 1, i - 1), q[i])
    BY <2>2, NextPrefix
  <2>4. Quiet(q[i])
    BY <1>8, <2>1
  <2>5. Says(SubSeq(q, 1, i - 1), text, thoughts, calls)
    BY <1>12, <2>2
  <2>6. Says(Append(SubSeq(q, 1, i - 1), q[i]), text, thoughts, calls)
    BY <2>4, <2>5, SaysQuiet
  <2> QED
    BY <2>1, <2>2, <2>3, <2>6
<1> HIDE DEF Reached
<1>13. \A j \in 0..n : j \in Reached
  BY <1>11, <1>12, UpTo
<1>14. n \in Reached
  BY <1>13
<1>15. Says(SubSeq(q, 1, l + n), text, thoughts, calls)
  BY <1>14 DEF Reached
<1> QED
  BY <1>7, <1>10, <1>15

(* The end of a stream of blocks says nothing more.                        *)
LEMMA EndTells ==
  ASSUME NEW g, NEW text, NEW thoughts, NEW calls, Tells(g, text, thoughts, calls),
         NEW ids \in SetToSeqs(DOMAIN g.toolBlocks), NEW tokens
  PROVE  Says(A!StreamEnd(g, ids, tokens).sent, text, thoughts, calls)
<1>1. PICK s, b, t, k, m, u : /\ g = Rec(s, b, t, k, m, u) /\ Shape(s, b, t, k, m)
                              /\ Says(s, text, thoughts, calls) /\ Hosts(s, m)
  BY DEF Tells
<1>2. PICK s1 : /\ A!CloseText(Rec(s, b, t, k, m, u)) = Rec(s1, b, -1, k, m, u)
                /\ Shape(s1, b, -1, k, m) /\ Says(s1, text, thoughts, calls) /\ Hosts(s1, m)
  BY <1>1, CloseTextSays
<1>3. PICK s2 : /\ A!CloseThinking(Rec(s1, b, -1, k, m, u)) = Rec(s2, b, -1, -1, m, u)
                /\ Shape(s2, b, -1, -1, m) /\ Says(s2, text, thoughts, calls) /\ Hosts(s2, m)
  BY <1>2, CloseThinkingSays
<1> DEFINE c == [i \in 1..Len(ids) |-> A!Event("content_block_stop", m[ids[i]], "tool_use",
  <<>>)]
           r == Rec(s2, b, -1, -1, m, u)
           q == Rec(s2 \o c, b, -1, -1, m, u)
           reason == A!StopReason(g.hasToolUse)
           d == A!Event("message_delta", tokens, reason, <<>>)
           e == A!Event("message_stop", -1, "none", <<>>)
           p == Rec(Append(s2 \o c, d), b, -1, -1, m, u)
           o == Rec(Append(Append(s2 \o c, d), e), b, -1, -1, m, u)
<1>4. Len(ids) \in Nat
  <2>1. g.toolBlocks = m
    BY <1>1, RecParts
  <2> QED
    BY <1>1, <2>1, SetToSeqsFacts DEF Shape
<1>5. Says(s2 \o c, text, thoughts, calls)
  <2>1. \A i \in 1..Len(ids) : Quiet(c[i])
    BY QuietEvents
  <2>2. DOMAIN c = 1..Len(ids) /\ c = [i \in 1..Len(ids) |-> c[i]]
    OBVIOUS
  <2> HIDE DEF c
  <2> QED
    BY <1>3, <1>4, <2>1, <2>2, SaysTail
<1>6. Quiet(d) /\ Quiet(e)
  BY QuietEvents
<1>7. r.toolBlocks = m /\ r.sent = s2
  BY RecFields
<1> HIDE DEF c, d, e, reason
<1>8. Says(Append(Append(s2 \o c, d), e), text, thoughts, calls)
  <2>1. Says(Append(s2 \o c, d), text, thoughts, calls)
    BY <1>5, <1>6, SaysQuiet
  <2> QED
    BY <1>6, <2>1, SaysQuiet
<1>9. A!Write(q, d) = p /\ A!Write(p, e) = o
  BY RecWrite
<1>10. [r EXCEPT !.sent = s2 \o c] = q
  <2>1. PICK x : x = s2 \o c
    OBVIOUS
  <2>2. [Rec(s2, b, -1, -1, m, u) EXCEPT !.sent = x] = Rec(x, b, -1, -1, m, u)
    BY DEF Rec
  <2> QED
    BY <2>1, <2>2, Zenon
<1>11. o.sent = Append(Append(s2 \o c, d), e)
  <2>1. PICK x : x = Append(Append(s2 \o c, d), e)
    OBVIOUS
  <2>2. Rec(x, b, -1, -1, m, u).sent = x
    BY RecFields
  <2> QED
    BY <2>1, <2>2, Zenon
<1>12. A!CloseBlocks(g) = r
  BY <1>1, <1>2, <1>3, Zenon DEF A!CloseBlocks
<1> HIDE DEF r, p, q, o
<1>13. A!CloseTools(r, ids) = q
  BY <1>7, <1>10, Zenon DEF A!CloseTools, c
<1>14. A!StreamEnd(g, ids, tokens) = o
  BY <1>9, <1>12, <1>13, Zenon DEF A!StreamEnd, d, e, reason
<1> QED
  BY <1>8, <1>11, <1>14, Zenon

(* Nothing has been said before the first event.                           *)
LEMMA NothingSaid ==
  ASSUME NEW calls, DOMAIN calls = {}
  PROVE  Says(<<>>, <<>>, <<>>, calls)
<1>1. PICK s : s = <<>>
  OBVIOUS
<1>2. IsSeq(s) /\ DOMAIN s = {}
  BY <1>1, EmptySent
<1>3. ASSUME NEW x PROVE [p \in DOMAIN s |-> x] = <<>>
  BY <1>1
<1>4. Deltas(s, "text") = <<>> /\ Deltas(s, "thinking") = <<>>
  BY <1>1, <1>2, FlattenEmpty DEF Deltas
<1>5. ASSUME NEW id PROVE Inputs(s, BlocksOf(s, id)) = Had(calls, id)
  BY <1>1, <1>2, FlattenEmpty DEF Inputs, Had
<1>6. Named(s) = {}
  BY <1>2 DEF Named
<1>7. SaysText(s, <<>>, <<>>)
  BY <1>2, <1>4 DEF SaysText
<1>8. SaysCalls(s, calls)
  BY <1>2, <1>5, <1>6 DEF SaysCalls
<1> QED
  BY <1>1, <1>7, <1>8 DEF Says

(* The stream of blocks starts with nothing said.                          *)
LEMMA StartTells ==
  ASSUME NEW calls, DOMAIN calls = {}
  PROVE  Tells(A!StreamStart, <<>>, <<>>, calls)
<1>1. PICK e : e = A!Event("message_start", -1, "none", <<>>) /\ Quiet(e)
  BY QuietEvents
<1>2. PICK v : v = FALSE
  BY Zenon
<1>3. PICK s : s = <<e>>
  OBVIOUS
<1>4. A!StreamStart = Rec(s, -1, -1, -1, <<>>, v)
  BY <1>1, <1>2, <1>3, Zenon DEF A!StreamStart, Rec
<1>5. s = Append(<<>>, e)
  BY <1>3
<1>6. Says(s, <<>>, <<>>, calls)
  BY <1>1, <1>5, NothingSaid, SaysQuiet
<1>7. Core(s, -1, {})
  <2>1. e.type = "message_start"
    BY <1>1 DEF A!Event
  <2> QED
    BY <1>3, <2>1, CoreFirst
<1>8. DOMAIN <<>> = {} /\ Live(-1, -1, <<>>) = {} /\ Apart(-1, -1, <<>>)
  BY DEF Live, Apart
<1>9. Shape(s, -1, -1, -1, <<>>)
  <2>1. IsFiniteSet(DOMAIN <<>>)
    BY <1>8, FS_EmptySet
  <2>2. -1 \in Int /\ -1 >= -1
    OBVIOUS
  <2> QED
    BY <1>7, <1>8, <2>1, <2>2, Zenon DEF Shape
<1>10. Hosts(s, <<>>)
  BY <1>8 DEF Hosts
<1> QED
  BY <1>4, <1>6, <1>9, <1>10, Zenon DEF Tells

-----------------------------------------------------------------------------
(* What a client has been told by a stream of chunks.                      *)

(* The calls that chunks have named.                                       *)
Listed(s) == {s[p].data.id : p \in {q \in DOMAIN s : IsToolDelta(s[q])}}

(* The input of a call that chunks have carried.                           *)
Chunked(s, id) == FlattenSeq([p \in DOMAIN s |-> ChunkInput(s[p], id)])

(* The chunks of s name these calls, and carry their input.                *)
ListsCalls(s, calls) ==
  /\ \A p \in DOMAIN s : IsToolDelta(s[p]) => s[p].data.arguments \in Seq(STRING)
  /\ Listed(s) = DOMAIN calls
  /\ \A id : Chunked(s, id) = Had(calls, id)

(* All that a stream of chunks has told.                                   *)
Lists(s, text, thoughts, calls) == SaysText(s, text, thoughts) /\ ListsCalls(s, calls)

(* One more chunk adds what is input of the call.                          *)
LEMMA ChunkedAppend ==
  ASSUME NEW s, IsSeq(s), NEW e, NEW id, ChunkInput(e, id) \in Seq(STRING),
         \A p \in DOMAIN s : IsToolDelta(s[p]) => s[p].data.arguments \in Seq(STRING)
  PROVE  /\ Chunked(Append(s, e), id) = Chunked(s, id) \o ChunkInput(e, id)
         /\ Chunked(s, id) \in Seq(STRING)
<1>1. PICK t : t = Append(s, e)
  OBVIOUS
<1>2. PICK n \in Nat : n = Len(s)
  BY AppendFacts
<1>3. /\ DOMAIN s = 1..n /\ DOMAIN t = 1..(n + 1) /\ t[n + 1] = e
      /\ \A i \in 1..n : t[i] = s[i]
  BY <1>1, <1>2, AppendFacts
<1>4. \A p \in DOMAIN s : ChunkInput(s[p], id) \in Seq(STRING)
  <2>1. <<>> \in Seq(STRING)
    OBVIOUS
  <2> QED
    BY <2>1, Zenon DEF ChunkInput
<1>5. PICK a, b : /\ a = [p \in DOMAIN s |-> ChunkInput(s[p], id)]
                  /\ b = [p \in DOMAIN t |-> ChunkInput(t[p], id)]
  OBVIOUS
<1>6. a \in [1..n -> Seq(STRING)]
  BY <1>3, <1>4, <1>5
<1>7. b \in [1..(n + 1) -> Seq(STRING)]
  <2>1. \A p \in 1..(n + 1) : ChunkInput(t[p], id) \in Seq(STRING)
    BY <1>3, <1>4
  <2> QED
    BY <1>3, <1>5, <2>1
<1>8. (\A i \in 1..n : b[i] = a[i]) /\ b[n + 1] = ChunkInput(e, id)
  BY <1>3, <1>5
<1>9. FlattenSeq(b) = FlattenSeq(a) \o b[n + 1] /\ FlattenSeq(a) \in Seq(STRING)
  BY <1>6, <1>7, <1>8, FlattenMore
<1> QED
  BY <1>1, <1>5, <1>8, <1>9 DEF Chunked

(* A chunk that is not of a call changes none.                             *)
LEMMA ListsCallsQuiet ==
  ASSUME NEW s, IsSeq(s), NEW calls, ListsCalls(s, calls), NEW e, ~IsToolDelta(e)
  PROVE  ListsCalls(Append(s, e), calls)
<1>1. PICK t : t = Append(s, e)
  OBVIOUS
<1>2. PICK n \in Nat : n = Len(s)
  BY AppendFacts
<1>3. DOMAIN t = DOMAIN s \union {n + 1} /\ (\A i \in DOMAIN s : t[i] = s[i]) /\ t[n + 1] = e
  BY <1>1, <1>2, AppendFacts
<1>4. Listed(t) = Listed(s)
  <2>1. {q \in DOMAIN t : IsToolDelta(t[q])} = {q \in DOMAIN s : IsToolDelta(s[q])}
    BY <1>3
  <2> QED
    BY <1>3, <2>1 DEF Listed
<1>5. \A p \in DOMAIN t : IsToolDelta(t[p]) => t[p].data.arguments \in Seq(STRING)
  BY <1>3 DEF ListsCalls
<1>6. ASSUME NEW id PROVE Chunked(t, id) = Had(calls, id)
  <2>1. ChunkInput(e, id) = <<>>
    BY DEF ChunkInput
  <2>2. <<>> \in Seq(STRING)
    OBVIOUS
  <2>3. Chunked(t, id) = Chunked(s, id) \o <<>> /\ Chunked(s, id) \in Seq(STRING)
    BY <1>1, <2>1, <2>2, ChunkedAppend DEF ListsCalls
  <2> QED
    BY <2>3, ConcatEmptySeq DEF ListsCalls
<1> QED
  BY <1>1, <1>4, <1>5, <1>6 DEF ListsCalls

(* A chunk of a call adds to it.                                           *)
LEMMA ListsCallsTool ==
  ASSUME NEW s, IsSeq(s), NEW calls, ListsCalls(s, calls), NEW e, IsToolDelta(e),
         NEW id, id = e.data.id, NEW args \in Seq(STRING), args = e.data.arguments,
         NEW more, Adds(calls, id, args, more)
  PROVE  ListsCalls(Append(s, e), more)
<1>1. PICK t : t = Append(s, e)
  OBVIOUS
<1>2. PICK n \in Nat : n = Len(s)
  BY AppendFacts
<1>3. DOMAIN t = DOMAIN s \union {n + 1} /\ (\A i \in DOMAIN s : t[i] = s[i]) /\ t[n + 1] = e
  BY <1>1, <1>2, AppendFacts
<1>4. Listed(t) = Listed(s) \union {id}
  <2>1. {q \in DOMAIN t : IsToolDelta(t[q])}
          = {q \in DOMAIN s : IsToolDelta(s[q])} \union {n + 1}
    BY <1>3
  <2> QED
    BY <1>3, <2>1 DEF Listed
<1>5. \A p \in DOMAIN t : IsToolDelta(t[p]) => t[p].data.arguments \in Seq(STRING)
  BY <1>3 DEF ListsCalls
<1>6. ASSUME NEW x PROVE Chunked(t, x) = Had(more, x)
  <2>1. <<>> \in Seq(STRING)
    OBVIOUS
  <2>2. ChunkInput(e, x) = IF x = id THEN args ELSE <<>>
    BY DEF ChunkInput
  <2>3. Chunked(t, x) = Chunked(s, x) \o ChunkInput(e, x) /\ Chunked(s, x) \in Seq(STRING)
    BY <1>1, <2>1, <2>2, ChunkedAppend DEF ListsCalls
  <2>4. Chunked(s, x) = Had(calls, x)
    BY DEF ListsCalls
  <2>5. CASE x = id
    <3>1. Had(more, x) = Had(calls, x) \o args
      BY <2>5 DEF Adds, Had
    <3> QED
      BY <2>2, <2>3, <2>4, <2>5, <3>1
  <2>6. CASE x # id
    <3>1. Had(more, x) = Had(calls, x)
      BY <2>6 DEF Adds, Had
    <3>2. Had(calls, x) \o <<>> = Had(calls, x)
      BY <2>3, <2>4, ConcatEmptySeq
    <3> QED
      BY <2>2, <2>3, <2>4, <2>6, <3>1, <3>2
  <2> QED
    BY <2>5, <2>6
<1>7. Listed(t) = DOMAIN more
  BY <1>4 DEF Adds, ListsCalls
<1> QED
  BY <1>1, <1>5, <1>6, <1>7 DEF ListsCalls

(* The formatter of chunks.                                                *)
Chunks(g, text, thoughts, calls) == "sent" \in DOMAIN g /\ Lists(g.sent, text, thoughts, calls)

(* One chunk more.                                                         *)
LEMMA ChunkWritten ==
  ASSUME NEW g, "sent" \in DOMAIN g, NEW e
  PROVE  "sent" \in DOMAIN O!Write(g, e) /\ O!Write(g, e).sent = Append(g.sent, e)
  BY Zenon DEF O!Write

(* A chunk that is no delta changes nothing.                               *)
LEMMA ChunksQuiet ==
  ASSUME NEW g, NEW text, NEW thoughts, NEW calls, Chunks(g, text, thoughts, calls),
         NEW e, ~IsDelta(e)
  PROVE  Chunks(O!Write(g, e), text, thoughts, calls)
<1>1. ~IsToolDelta(e) /\ IsSeq(g.sent)
  BY DEF IsToolDelta, Chunks, Lists, SaysText
<1>2. SaysText(Append(g.sent, e), text, thoughts)
  BY SaysTextEvents DEF Chunks, Lists
<1>3. ListsCalls(Append(g.sent, e), calls)
  BY <1>1, ListsCallsQuiet DEF Chunks, Lists
<1> QED
  BY <1>2, <1>3, ChunkWritten DEF Chunks, Lists

(* A segment of text or of thinking.                                       *)
LEMMA ChunksText ==
  ASSUME NEW g, NEW text, NEW thoughts, NEW calls, Chunks(g, text, thoughts, calls),
         NEW data \in Seq(STRING)
  PROVE  /\ Chunks(O!StreamText(g, data), text \o data, thoughts, calls)
         /\ Chunks(O!StreamThinking(g, data), text, thoughts \o data, calls)
<1>1. PICK d, e : d = O!Chunk("delta", -1, "text", data)
        /\ e = O!Chunk("delta", -1, "thinking", data)
  OBVIOUS
<1>2. /\ IsDelta(d) /\ d.kind = "text" /\ d.data = data /\ ~IsToolDelta(d)
      /\ IsDelta(e) /\ e.kind = "thinking" /\ e.data = data /\ ~IsToolDelta(e)
  BY <1>1 DEF O!Chunk, IsDelta, IsToolDelta
<1>3. IsSeq(g.sent)
  BY DEF Chunks, Lists, SaysText
<1>4. /\ SaysText(Append(g.sent, d), text \o data, thoughts)
      /\ SaysText(Append(g.sent, e), text, thoughts \o data)
  BY <1>2, SaysTextEvents DEF Chunks, Lists
<1>5. ListsCalls(Append(g.sent, d), calls) /\ ListsCalls(Append(g.sent, e), calls)
  BY <1>2, <1>3, ListsCallsQuiet DEF Chunks, Lists
<1>6. /\ Chunks(O!Write(g, d), text \o data, thoughts, calls)
      /\ Chunks(O!Write(g, e), text, thoughts \o data, calls)
  BY <1>4, <1>5, ChunkWritten DEF Chunks, Lists
<1> QED
  BY <1>1, <1>6, Zenon DEF O!StreamText, O!StreamThinking

(* An event of a call.                                                     *)
LEMMA ChunksTool ==
  ASSUME NEW g, NEW text, NEW thoughts, NEW calls, Chunks(g, text, thoughts, calls),
         NEW c, c.arguments \in Seq(STRING), NEW more, Adds(calls, c.id, c.arguments, more)
  PROVE  Chunks(O!StreamTool(g, c), text, thoughts, more)
<1> DEFINE q == [g EXCEPT !.hasToolCall = TRUE]
           h == O!IndexTool(q, c.id)
<1>1. "sent" \in DOMAIN q /\ q.sent = g.sent
  BY Zenon DEF Chunks
<1> HIDE DEF q
<1>2. "sent" \in DOMAIN h /\ h.sent = q.sent
  <2>1. CASE c.id \in DOMAIN q.toolIndexes
    BY <1>1, <2>1, Zenon DEF O!IndexTool
  <2>2. CASE c.id \notin DOMAIN q.toolIndexes
    <3>1. PICK r : r = [q EXCEPT !.nextToolIndex = @ + 1]
      BY Zenon
    <3>2. "sent" \in DOMAIN r /\ r.sent = q.sent
      BY <1>1, <3>1, Zenon
    <3>3. h = [r EXCEPT !.toolIndexes = [y \in DOMAIN @ \union {c.id} |->
                                           IF y = c.id THEN q.nextToolIndex ELSE @[y]]]
      BY <2>2, <3>1, Zenon DEF O!IndexTool
    <3> HIDE DEF h
    <3> QED
      BY <3>2, <3>3, Zenon
  <2> QED
    BY <2>1, <2>2
<1> HIDE DEF h
<1>3. PICK d : d = [id |-> c.id, name |-> c.name, arguments |-> c.arguments]
  OBVIOUS
<1>4. d.id = c.id /\ d.arguments = c.arguments
  BY <1>3
<1>5. PICK e : e = O!Chunk("delta", h.toolIndexes[c.id], "tool_use", d)
  OBVIOUS
<1>6. IsToolDelta(e) /\ e.kind = "tool_use" /\ e.data = d
  BY <1>5 DEF O!Chunk, IsDelta, IsToolDelta
<1>7. IsSeq(g.sent)
  BY DEF Chunks, Lists, SaysText
<1>8. SaysText(Append(g.sent, e), text, thoughts)
  BY <1>6, SaysTextEvents DEF Chunks, Lists
<1>9. ListsCalls(Append(g.sent, e), more)
  <2>1. PICK id, args : id = c.id /\ args = c.arguments
    OBVIOUS
  <2>2. id = e.data.id /\ args = e.data.arguments /\ args \in Seq(STRING)
          /\ Adds(calls, id, args, more)
    BY <1>4, <1>6, <2>1
  <2>3. ListsCalls(g.sent, calls)
    BY DEF Chunks, Lists
  <2> QED
    BY <1>6, <1>7, <2>2, <2>3, ListsCallsTool
<1>10. Chunks(O!Write(h, e), text, thoughts, more)
  <2>1. "sent" \in DOMAIN O!Write(h, e) /\ O!Write(h, e).sent = Append(g.sent, e)
    BY <1>1, <1>2, ChunkWritten
  <2> QED
    BY <1>8, <1>9, <2>1 DEF Chunks, Lists
<1>11. O!StreamTool(g, c) = O!Write(h, e)
  BY <1>3, <1>5, Zenon DEF O!StreamTool, q, h
<1> QED
  BY <1>10, <1>11

(* The first chunk and the last ones say nothing.                          *)
LEMMA ChunksQuietEnds ==
  ASSUME NEW calls
  PROVE  /\ DOMAIN calls = {} => Chunks(O!StreamStart, <<>>, <<>>, calls)
         /\ \A g, text, thoughts, tokens : Chunks(g, text, thoughts, calls) =>
              Chunks(O!StreamEnd(g, tokens), text, thoughts, calls)
<1>1. ASSUME DOMAIN calls = {} PROVE Chunks(O!StreamStart, <<>>, <<>>, calls)
  <2>1. PICK e : e = O!Chunk("role", -1, "none", <<>>)
    OBVIOUS
  <2>2. ~IsDelta(e) /\ ~IsToolDelta(e)
    BY <2>1 DEF O!Chunk, IsDelta, IsToolDelta
  <2>3. PICK r : r = <<>>
    OBVIOUS
  <2>4. IsSeq(r) /\ DOMAIN r = {}
    BY <2>3, EmptySent
  <2>5. SaysText(r, <<>>, <<>>)
    BY <1>1, <2>3, NothingSaid DEF Says
  <2>6. Listed(r) = {} /\ \A id : Chunked(r, id) = Had(calls, id)
    BY <1>1, <2>3, <2>4, FlattenEmpty DEF Listed, Chunked, Had
  <2>7. ListsCalls(r, calls)
    BY <1>1, <2>4, <2>6 DEF ListsCalls
  <2>8. SaysText(Append(r, e), <<>>, <<>>)
    BY <2>2, <2>5, SaysTextEvents
  <2>9. ListsCalls(Append(r, e), calls)
    BY <2>2, <2>4, <2>7, ListsCallsQuiet
  <2>10. Append(r, e) = <<e>>
    BY <2>3
  <2>11. "sent" \in DOMAIN O!StreamStart /\ O!StreamStart.sent = <<e>>
    BY <2>1, Zenon DEF O!StreamStart
  <2> QED
    BY <2>8, <2>9, <2>10, <2>11, Zenon DEF Chunks, Lists
<1>2. ASSUME NEW g, NEW text, NEW thoughts, NEW tokens, Chunks(g, text, thoughts, calls)
      PROVE  Chunks(O!StreamEnd(g, tokens), text, thoughts, calls)
  <2>1. PICK d, e : /\ d = O!Chunk("finish", tokens, O!FinishReason(g.hasToolCall), <<>>)
                    /\ e = O!Chunk("[DONE]", -1, "none", <<>>)
    OBVIOUS
  <2>2. ~IsDelta(d) /\ ~IsDelta(e)
    BY <2>1 DEF O!Chunk, IsDelta
  <2>3. PICK h : h = O!Write(g, d) /\ Chunks(h, text, thoughts, calls)
    BY <1>2, <2>2, ChunksQuiet
  <2>4. Chunks(O!Write(h, e), text, thoughts, calls)
    BY <2>2, <2>3, ChunksQuiet
  <2> QED
    BY <2>1, <2>3, <2>4, Zenon DEF O!StreamEnd
<1> QED
  BY <1>1, <1>2

-----------------------------------------------------------------------------
(* What a message will tell a client.                                      *)

(* The fields of the message hold the text, the thoughts and the calls.    *)
Message(g, text, thoughts, calls) ==
  /\ "sent" \in DOMAIN g /\ "text" \in DOMAIN g /\ "thinking" \in DOMAIN g
  /\ "order" \in DOMAIN g /\ "tools" \in DOMAIN g
  /\ g.text = text /\ g.thinking = thoughts
  /\ IsSeq(g.order) /\ Range(g.order) = DOMAIN calls
  /\ DOMAIN g.tools = DOMAIN calls
  /\ \A id \in DOMAIN calls : g.tools[id].arguments = calls[id]

(* The message starts empty.                                               *)
LEMMA MessageStarts ==
  ASSUME NEW calls, DOMAIN calls = {}
  PROVE  Message(A!JsonStart, <<>>, <<>>, calls) /\ Message(O!JsonStart, <<>>, <<>>, calls)
<1>1. PICK g : g = [sent |-> <<>>, text |-> <<>>, thinking |-> <<>>, order |-> <<>>,
        tools |-> <<>>]
  OBVIOUS
<1>2. IsSeq(<<>>) /\ DOMAIN <<>> = {}
  BY EmptySent
<1>3. Range(<<>>) = {}
  BY <1>2 DEF Range
<1>4. /\ "sent" \in DOMAIN g /\ "text" \in DOMAIN g /\ "thinking" \in DOMAIN g
      /\ "order" \in DOMAIN g /\ "tools" \in DOMAIN g
      /\ g.text = <<>> /\ g.thinking = <<>> /\ g.order = <<>> /\ g.tools = <<>>
  BY <1>1
<1>5. Message(g, <<>>, <<>>, calls)
  BY <1>2, <1>3, <1>4 DEF Message
<1> QED
  BY <1>1, <1>5, Zenon DEF A!JsonStart, O!JsonStart

(* Fields that are set, and those that are not.                            *)
LEMMA MessageText ==
  ASSUME NEW g, NEW text, NEW thoughts, NEW calls, Message(g, text, thoughts, calls), NEW data
  PROVE  /\ Message(A!JsonText(g, data), text \o data, thoughts, calls)
         /\ Message(O!JsonText(g, data), text \o data, thoughts, calls)
         /\ Message(A!JsonThinking(g, data), text, thoughts \o data, calls)
         /\ Message(O!JsonThinking(g, data), text, thoughts \o data, calls)
<1>1. PICK g1 : g1 = [g EXCEPT !.text = @ \o data]
  OBVIOUS
<1>2. /\ DOMAIN g1 = DOMAIN g /\ g1.text = g.text \o data /\ g1.thinking = g.thinking
      /\ g1.order = g.order /\ g1.tools = g.tools
  BY <1>1, Zenon DEF Message
<1>3. Message(g1, text \o data, thoughts, calls)
  BY <1>2, Zenon DEF Message
<1>4. PICK g2 : g2 = [g EXCEPT !.thinking = @ \o data]
  OBVIOUS
<1>5. /\ DOMAIN g2 = DOMAIN g /\ g2.text = g.text /\ g2.thinking = g.thinking \o data
      /\ g2.order = g.order /\ g2.tools = g.tools
  BY <1>4, Zenon DEF Message
<1>6. Message(g2, text, thoughts \o data, calls)
  BY <1>5, Zenon DEF Message
<1>7. A!JsonText(g, data) = g1 /\ O!JsonText(g, data) = g1
  BY <1>1, Zenon DEF A!JsonText, O!JsonText
<1>8. A!JsonThinking(g, data) = g2 /\ O!JsonThinking(g, data) = g2
  BY <1>4, Zenon DEF A!JsonThinking, O!JsonThinking
<1> QED
  BY <1>3, <1>6, <1>7, <1>8, Zenon

(* What the message is in the end.                                         *)
LEMMA MessageEnd ==
  ASSUME NEW g, NEW text, NEW thoughts, NEW calls, Message(g, text, thoughts, calls), NEW tokens
  PROVE  /\ Message(A!JsonEnd(g, tokens), text, thoughts, calls)
         /\ Message(O!JsonEnd(g, tokens), text, thoughts, calls)
<1>1. ASSUME NEW e, NEW h, h = [g EXCEPT !.sent = Append(@, e)]
      PROVE Message(h, text, thoughts, calls)
  <2>1. /\ DOMAIN h = DOMAIN g /\ h.text = g.text /\ h.thinking = g.thinking
        /\ h.order = g.order /\ h.tools = g.tools
    BY <1>1, Zenon DEF Message
  <2> QED
    BY <2>1, Zenon DEF Message
<1> QED
  BY <1>1, Zenon DEF A!JsonEnd, O!JsonEnd, A!Write, O!Write

(* The message h has the tool id, and is the same as g otherwise.          *)
Takes(g, h, id, tool) ==
  /\ DOMAIN h = DOMAIN g /\ h.text = g.text /\ h.thinking = g.thinking
  /\ h.order = IF id \in DOMAIN g.tools THEN g.order ELSE Append(g.order, id)
  /\ h.tools = [x \in DOMAIN g.tools \union {id} |-> IF x = id THEN tool ELSE g.tools[x]]

(* A call gets a place in the order, and more input.                       *)
LEMMA MessageGrows ==
  ASSUME NEW g, NEW text, NEW thoughts, NEW calls, Message(g, text, thoughts, calls),
         NEW id, NEW args \in Seq(STRING), NEW more, Adds(calls, id, args, more),
         NEW tool, tool.arguments = Had(calls, id) \o args, NEW h, Takes(g, h, id, tool)
  PROVE  Message(h, text, thoughts, more)
<1>0. PICK o, m : /\ o = IF id \in DOMAIN g.tools THEN g.order ELSE Append(g.order, id)
                  /\ m = [x \in DOMAIN g.tools \union {id} |-> IF x = id THEN tool
                       ELSE g.tools[x]]
                  /\ DOMAIN h = DOMAIN g /\ h.text = g.text /\ h.thinking = g.thinking
                  /\ h.order = o /\ h.tools = m
  BY DEF Takes
<1>1. IsSeq(g.order) /\ Range(g.order) = DOMAIN calls /\ DOMAIN g.tools = DOMAIN calls
  BY DEF Message
<1>2. IsSeq(o) /\ Range(o) = DOMAIN calls \union {id}
  <2>1. CASE id \in DOMAIN g.tools
    BY <1>0, <1>1, <2>1
  <2>2. CASE id \notin DOMAIN g.tools
    <3>1. PICK s, t : s = g.order /\ t = Append(s, id) /\ o = t
      BY <1>0, <2>2
    <3>2. PICK n \in Nat : n = Len(s)
      BY <1>1, <3>1, AppendFacts
    <3>3. IsSeq(t) /\ DOMAIN t = DOMAIN s \union {n + 1}
            /\ (\A i \in DOMAIN s : t[i] = s[i]) /\ t[n + 1] = id
      BY <1>1, <3>1, <3>2, AppendFacts
    <3>4. Range(t) = Range(s) \union {id}
      BY <3>3 DEF Range
    <3> QED
      BY <1>1, <3>1, <3>3, <3>4
  <2> QED
    BY <2>1, <2>2
<1>3. DOMAIN m = DOMAIN calls \union {id} /\ m[id] = tool
        /\ \A x \in DOMAIN calls : x # id => m[x] = g.tools[x]
  BY <1>0, <1>1
<1>4. DOMAIN more = DOMAIN calls \union {id}
  BY DEF Adds
<1>5. ASSUME NEW x \in DOMAIN more PROVE m[x].arguments = more[x]
  <2>1. CASE x = id
    BY <1>3, <2>1 DEF Adds
  <2>2. CASE x # id
    <3>1. x \in DOMAIN calls /\ more[x] = calls[x]
      BY <1>4, <2>2 DEF Adds
    <3>2. g.tools[x].arguments = calls[x]
      BY <3>1 DEF Message
    <3> QED
      BY <1>3, <2>2, <3>1, <3>2
  <2> QED
    BY <2>1, <2>2
<1>6. /\ "sent" \in DOMAIN h /\ "text" \in DOMAIN h /\ "thinking" \in DOMAIN h
      /\ "order" \in DOMAIN h /\ "tools" \in DOMAIN h /\ h.text = text /\ h.thinking = thoughts
  BY <1>0 DEF Message
<1> QED
  BY <1>0, <1>2, <1>3, <1>4, <1>5, <1>6 DEF Message

(* An event of a call, in each of the two formatters.                      *)
LEMMA MessageTool ==
  ASSUME NEW g, NEW text, NEW thoughts, NEW calls, Message(g, text, thoughts, calls),
         \A x \in DOMAIN calls : calls[x] \in Seq(STRING),
         NEW c, c.arguments \in Seq(STRING), NEW more, Adds(calls, c.id, c.arguments, more)
  PROVE  /\ Message(A!JsonTool(g, c), text, thoughts, more)
         /\ Message(O!JsonTool(g, c), text, thoughts, more)
<1>1. PICK id, args : id = c.id /\ args = c.arguments
  OBVIOUS
<1>2. args \in Seq(STRING) /\ Adds(calls, id, args, more)
  BY <1>1
<1>3. DOMAIN g.tools = DOMAIN calls /\ \A x \in DOMAIN calls : g.tools[x].arguments = calls[x]
  BY DEF Message
<1>4. PICK o : o = IF id \in DOMAIN g.tools THEN g.order ELSE Append(g.order, id)
  OBVIOUS
<1>5. ASSUME NEW tool, tool.arguments = Had(calls, id) \o args,
             NEW r, r = [g EXCEPT !.order = o],
             NEW h, h = [r EXCEPT !.tools = [x \in DOMAIN g.tools \union {id} |-> IF x
               = id THEN tool ELSE g.tools[x]]]
      PROVE  Message(h, text, thoughts, more)
  <2>1. PICK m : m = [x \in DOMAIN g.tools \union {id} |-> IF x = id THEN tool ELSE g.tools[x]]
    OBVIOUS
  <2>2. /\ DOMAIN r = DOMAIN g /\ r.text = g.text /\ r.thinking = g.thinking /\ r.order = o
    BY <1>5, Zenon DEF Message
  <2>3. h = [r EXCEPT !.tools = m]
    BY <1>5, <2>1, Zenon
  <2>4. /\ "tools" \in DOMAIN r /\ "text" \in DOMAIN r /\ "thinking" \in DOMAIN r
        /\ "order" \in DOMAIN r
    BY <2>2, Zenon DEF Message
  <2>5. DOMAIN h = DOMAIN g /\ h.text = g.text /\ h.thinking = g.thinking /\ h.order = o
          /\ h.tools = m
    BY <2>2, <2>3, <2>4, Zenon
  <2>6. Takes(g, h, id, tool)
    BY <1>4, <2>1, <2>5 DEF Takes
  <2> QED
    BY <1>2, <1>5, <2>6, MessageGrows
<1>6. PICK r : r = [g EXCEPT !.order = o]
  OBVIOUS
<1>7. r.tools = g.tools
  BY <1>6, Zenon DEF Message
<1>8. PICK input : input = IF id \in DOMAIN g.tools THEN g.tools[id].arguments ELSE <<>>
  OBVIOUS
<1>9. input = Had(calls, id)
  BY <1>3, <1>8 DEF Had
<1>10. Message(A!JsonTool(g, c), text, thoughts, more)
  <2>1. PICK tool : tool = [name |-> c.name, arguments |-> input \o args]
    OBVIOUS
  <2>2. tool.arguments = Had(calls, id) \o args
    BY <1>9, <2>1
  <2>3. A!JsonTool(g, c) = [r EXCEPT !.tools = [x \in DOMAIN g.tools \union {id} |-> IF x
          = id THEN tool ELSE g.tools[x]]]
    BY <1>1, <1>4, <1>6, <1>7, <1>8, <2>1, Zenon DEF A!JsonTool
  <2> QED
    BY <1>5, <1>6, <2>2, <2>3
<1>11. Message(O!JsonTool(g, c), text, thoughts, more)
  <2>1. PICK acc : acc = IF id \in DOMAIN g.tools THEN g.tools[id]
          ELSE [name |-> c.name, arguments |-> <<>>]
    OBVIOUS
  <2>2. PICK tool : tool = [name |-> IF c.name = NoName THEN acc.name ELSE c.name,
                            arguments |-> acc.arguments \o args]
    OBVIOUS
  <2>3. acc.arguments = Had(calls, id)
    BY <1>8, <1>9, <2>1
  <2>4. tool.arguments = Had(calls, id) \o args
    BY <2>2, <2>3
  <2>5. O!JsonTool(g, c) = [r EXCEPT !.tools = [x \in DOMAIN g.tools \union {id} |-> IF x
          = id THEN tool ELSE g.tools[x]]]
    BY <1>1, <1>4, <1>6, <1>7, <2>1, <2>2, Zenon DEF O!JsonTool
  <2> QED
    BY <1>5, <1>6, <2>4, <2>5
<1> QED
  BY <1>10, <1>11

-----------------------------------------------------------------------------
(* What a client has been told, in the form that it asked for: while the   *)
(* answer is being written, and once it has been.                          *)

(* What a formatter at work has told, and can add to.                      *)
Composes(g, text, thoughts, calls) ==
  /\ IsBlockStream => Tells(g, text, thoughts, calls)
  /\ format # "anthropic" /\ streaming => Chunks(g, text, thoughts, calls)
  /\ ~streaming => Message(g, text, thoughts, calls)

(* What has been told in a whole answer.                                   *)
Delivers(g, text, thoughts, calls) ==
  /\ IsBlockStream => Says(g.sent, text, thoughts, calls)
  /\ format # "anthropic" /\ streaming => Chunks(g, text, thoughts, calls)
  /\ ~streaming => Message(g, text, thoughts, calls)

(* What is being written is what the client has.                           *)
LEMMA ComposesDelivers ==
  ASSUME NEW g, NEW text, NEW thoughts, NEW calls, Composes(g, text, thoughts, calls)
  PROVE  Delivers(g, text, thoughts, calls)
<1>1. ASSUME IsBlockStream PROVE Says(g.sent, text, thoughts, calls)
  <2>1. PICK s, b, t, k, m, u : g = Rec(s, b, t, k, m, u) /\ Says(s, text, thoughts, calls)
    BY <1>1, Zenon DEF Composes, Tells
  <2>2. g.sent = s
    BY <2>1, RecFields
  <2> QED
    BY <2>1, <2>2
<1> QED
  BY <1>1 DEF Composes, Delivers

(* The answer starts with nothing told.                                    *)
LEMMA StartComposes ==
  ASSUME format \in {"anthropic", "openai"}, NEW calls, DOMAIN calls = {}
  PROVE  Composes(Start, <<>>, <<>>, calls)
<1>1. IsBlockStream => Tells(Start, <<>>, <<>>, calls)
  BY FormsOf, StartTells
<1>2. format # "anthropic" /\ streaming => Chunks(Start, <<>>, <<>>, calls)
  BY FormsOf, ChunksQuietEnds
<1>3. ~streaming => Message(Start, <<>>, <<>>, calls)
  BY FormsOf, MessageStarts
<1> QED
  BY <1>1, <1>2, <1>3 DEF Composes

(* A segment of text is told.                                              *)
LEMMA TextComposes ==
  ASSUME format \in {"anthropic", "openai"}, NEW text, NEW thoughts, NEW calls,
         Composes(f, text, thoughts, calls), NEW data \in Seq(STRING)
  PROVE  Composes(Text(data), text \o data, thoughts, calls)
<1>1. IsBlockStream => Tells(Text(data), text \o data, thoughts, calls)
  BY FormsOf, TextTells DEF Composes
<1>2. format # "anthropic" /\ streaming => Chunks(Text(data), text \o data, thoughts, calls)
  BY FormsOf, ChunksText DEF Composes
<1>3. ~streaming => Message(Text(data), text \o data, thoughts, calls)
  BY FormsOf, MessageText DEF Composes
<1> QED
  BY <1>1, <1>2, <1>3 DEF Composes

(* A segment of thinking is told.                                          *)
LEMMA ThinkingComposes ==
  ASSUME format \in {"anthropic", "openai"}, NEW text, NEW thoughts, NEW calls,
         Composes(f, text, thoughts, calls), NEW data \in Seq(STRING)
  PROVE  Composes(Thinking(data), text, thoughts \o data, calls)
<1>1. IsBlockStream => Tells(Thinking(data), text, thoughts \o data, calls)
  BY FormsOf, ThinkingTells DEF Composes
<1>2. format # "anthropic" /\ streaming => Chunks(Thinking(data), text, thoughts \o data, calls)
  BY FormsOf, ChunksText DEF Composes
<1>3. ~streaming => Message(Thinking(data), text, thoughts \o data, calls)
  BY FormsOf, MessageText DEF Composes
<1> QED
  BY <1>1, <1>2, <1>3 DEF Composes

(* An event of a call is told.                                             *)
LEMMA ToolComposes ==
  ASSUME format \in {"anthropic", "openai"}, NEW text, NEW thoughts, NEW calls,
         Composes(f, text, thoughts, calls), \A x \in DOMAIN calls : calls[x] \in Seq(STRING),
         NEW c, c.arguments \in Seq(STRING), NEW more, Adds(calls, c.id, c.arguments, more)
  PROVE  Composes(Tool(c), text, thoughts, more)
<1>1. ASSUME IsBlockStream PROVE Tells(Tool(c), text, thoughts, more)
  <2>1. Tells(A!StreamTool(f, c), text, thoughts, more)
    BY <1>1, ToolTells DEF Composes
  <2> QED
    BY <1>1, <2>1, FormsOf
<1>2. ASSUME format # "anthropic", streaming PROVE Chunks(Tool(c), text, thoughts, more)
  <2>1. Chunks(O!StreamTool(f, c), text, thoughts, more)
    BY <1>2, ChunksTool DEF Composes
  <2> QED
    BY <1>2, <2>1, FormsOf
<1>3. ASSUME ~streaming PROVE Message(Tool(c), text, thoughts, more)
  <2>1. Message(A!JsonTool(f, c), text, thoughts, more)
          /\ Message(O!JsonTool(f, c), text, thoughts, more)
    BY <1>3, MessageTool DEF Composes
  <2> QED
    BY <1>3, <2>1, FormsOf
<1> QED
  BY <1>1, <1>2, <1>3 DEF Composes

(* The end of the answer says nothing more.                                *)
LEMMA EndDelivers ==
  ASSUME format \in {"anthropic", "openai"}, NEW text, NEW thoughts, NEW calls,
         Composes(f, text, thoughts, calls), NEW g \in Ends
  PROVE  Delivers(g, text, thoughts, calls)
<1>1. ASSUME IsBlockStream PROVE Says(g.sent, text, thoughts, calls)
  <2>1. PICK ids \in SetToSeqs(DOMAIN f.toolBlocks) : g = A!StreamEnd(f, ids, usage)
    BY <1>1, FormsOf
  <2>2. Says(A!StreamEnd(f, ids, usage).sent, text, thoughts, calls)
    BY <1>1, EndTells DEF Composes
  <2> QED
    BY <2>1, <2>2, Zenon
<1>2. ASSUME format # "anthropic", streaming PROVE Chunks(g, text, thoughts, calls)
  <2>1. Chunks(O!StreamEnd(f, usage), text, thoughts, calls)
    BY <1>2, ChunksQuietEnds DEF Composes
  <2> QED
    BY <1>2, <2>1, FormsOf
<1>3. ASSUME ~streaming PROVE Message(g, text, thoughts, calls)
  <2>1. Message(A!JsonEnd(f, usage), text, thoughts, calls)
          /\ Message(O!JsonEnd(f, usage), text, thoughts, calls)
    BY <1>3, MessageEnd DEF Composes
  <2>2. g = A!JsonEnd(f, usage) \/ g = O!JsonEnd(f, usage)
    BY <1>3, FormsOf
  <2> QED
    BY <2>1, <2>2, Zenon
<1> QED
  BY <1>1, <1>2, <1>3 DEF Delivers

(* What the client has is what it has got.                                 *)
LEMMA DeliversGot ==
  ASSUME format \in {"anthropic", "openai"}, streaming \in BOOLEAN,
         NEW text, NEW thoughts, NEW calls, Delivers(f, text, thoughts, calls)
  PROVE  /\ Got("text") = text /\ Got("thinking") = thoughts
         /\ GotIds = DOMAIN calls
         /\ \A id \in DOMAIN calls : GotInput(id) = calls[id]
<1>1. ASSUME streaming, SaysText(f.sent, text, thoughts)
      PROVE  Got("text") = text /\ Got("thinking") = thoughts
  <2>1. Got("text") = Deltas(f.sent, "text") /\ Got("thinking") = Deltas(f.sent, "thinking")
    BY <1>1, Zenon DEF Got, Deltas
  <2> QED
    BY <1>1, <2>1 DEF SaysText
<1>2. CASE IsBlockStream
  <2>1. SaysText(f.sent, text, thoughts) /\ SaysCalls(f.sent, calls) /\ streaming
    BY <1>2 DEF Delivers, Says, IsBlockStream
  <2>2. GotIds = Named(f.sent)
    BY <1>2, <2>1, Zenon DEF GotIds, Named
  <2>3. ASSUME NEW id \in DOMAIN calls PROVE GotInput(id) = calls[id]
    <3>1. GotInput(id) = Inputs(f.sent, BlocksOf(f.sent, id))
      BY <1>2, <2>1, Zenon DEF GotInput, Inputs
    <3> QED
      BY <2>1, <3>1 DEF SaysCalls, Had
  <2> QED
    BY <1>1, <2>1, <2>2, <2>3 DEF SaysCalls
<1>3. CASE ~IsBlockStream /\ streaming
  <2>1. SaysText(f.sent, text, thoughts) /\ ListsCalls(f.sent, calls)
    BY <1>3 DEF Delivers, Chunks, Lists, IsBlockStream
  <2>2. GotIds = Listed(f.sent)
    BY <1>3, <2>1, Zenon DEF GotIds, Listed
  <2>3. ASSUME NEW id \in DOMAIN calls PROVE GotInput(id) = calls[id]
    <3>1. GotInput(id) = Chunked(f.sent, id)
      BY <1>3, <2>1, Zenon DEF GotInput, Chunked
    <3> QED
      BY <2>1, <3>1 DEF ListsCalls, Had
  <2> QED
    BY <1>1, <1>3, <2>1, <2>2, <2>3 DEF ListsCalls
<1>4. CASE ~streaming
  <2>1. Message(f, text, thoughts, calls)
    BY <1>4 DEF Delivers
  <2>2. Got("text") = f.text /\ Got("thinking") = f.thinking
    BY <1>4 DEF Got
  <2>3. GotIds = Range(f.order)
    BY <1>4, Zenon DEF GotIds, IsBlockStream
  <2>4. ASSUME NEW id \in DOMAIN calls PROVE GotInput(id) = f.tools[id].arguments
    BY <1>4, Zenon DEF GotInput, IsBlockStream
  <2> QED
    BY <2>1, <2>2, <2>3, <2>4 DEF Message
<1> QED
  BY <1>2, <1>3, <1>4

-----------------------------------------------------------------------------
(* What the upstream has said, as functions of the frames.                 *)

(* The text that the frames of s carry.                                    *)
TextIn(s) == FlattenSeq([i \in DOMAIN s |-> FrameText(s[i])])

(* The input of a call that they carry.                                    *)
InputIn(s, id) == FlattenSeq([i \in DOMAIN s |-> FrameInput(s[i], id)])

(* The calls that they name.                                               *)
IdsIn(s) == {s[i].call.id : i \in {j \in DOMAIN s : s[j].type = "toolUseEvent"}}

(* The calls with their input.                                             *)
CallsIn(s) == [id \in IdsIn(s) |-> InputIn(s, id)]

(* Some of the thinking comes from a reasoning frame.                      *)
ReasonedIn(s) == \E i \in DOMAIN s : s[i].type = "reasoningContentEvent"

(* A frame carries sequences of characters.                                *)
LEMMA FrameTypes ==
  ASSUME NEW frame \in Frames
  PROVE  /\ FrameText(frame) \in Seq(STRING)
         /\ \A id : FrameInput(frame, id) \in Seq(STRING)
<1>1. <<>> \in Seq(STRING)
  OBVIOUS
<1>2. PICK script \in Scripts : frame \in script.frames
  BY DEF Frames
<1>3. /\ frame.type \in {"assistantResponseEvent", "reasoningContentEvent"} =>
           frame.text \in Seq(STRING)
      /\ frame.type = "toolUseEvent" => frame.call.arguments \in Seq(STRING)
  BY <1>2, FramesAssumption
<1>4. FrameText(frame) \in Seq(STRING)
  BY <1>1, <1>3, Zenon DEF FrameText
<1>5. ASSUME NEW id PROVE FrameInput(frame, id) \in Seq(STRING)
  BY <1>1, <1>3, Zenon DEF FrameInput
<1> QED
  BY <1>4, <1>5

(* One frame more adds what it carries.                                    *)
LEMMA TextGrows ==
  ASSUME NEW s \in Seq(Frames), NEW frame \in Frames
  PROVE  /\ TextIn(s) \in Seq(STRING)
         /\ TextIn(Append(s, frame)) = TextIn(s) \o FrameText(frame)
<1>1. PICK n \in Nat : n = Len(s)
  OBVIOUS
<1>2. PICK t : t = Append(s, frame)
  OBVIOUS
<1>3. /\ DOMAIN s = 1..n /\ DOMAIN t = 1..(n + 1) /\ t[n + 1] = frame
      /\ \A i \in 1..n : t[i] = s[i] /\ s[i] \in Frames
  BY <1>1, <1>2
<1>4. PICK a : a = [i \in DOMAIN s |-> FrameText(s[i])]
  OBVIOUS
<1>5. PICK b : b = [i \in DOMAIN t |-> FrameText(t[i])]
  OBVIOUS
<1>6. a \in [1..n -> Seq(STRING)]
  BY <1>3, <1>4, FrameTypes
<1>7. b \in [1..(n + 1) -> Seq(STRING)]
  <2>1. ASSUME NEW i \in 1..(n + 1) PROVE FrameText(t[i]) \in Seq(STRING)
    <3>1. t[i] \in Frames
      BY <1>3
    <3> QED
      BY <3>1, FrameTypes
  <2> QED
    BY <1>3, <1>5, <2>1
<1>8. \A i \in 1..n : b[i] = a[i]
  BY <1>3, <1>4, <1>5
<1>9. b[n + 1] = FrameText(frame)
  BY <1>3, <1>5
<1>10. FlattenSeq(b) = FlattenSeq(a) \o b[n + 1] /\ FlattenSeq(a) \in Seq(STRING)
  BY <1>6, <1>7, <1>8, FlattenMore
<1>11. TextIn(s) = FlattenSeq(a) /\ TextIn(t) = FlattenSeq(b)
  BY <1>4, <1>5, Zenon DEF TextIn
<1> QED
  BY <1>2, <1>9, <1>10, <1>11, Zenon

(* The same of the input of a call.                                        *)
LEMMA InputGrows ==
  ASSUME NEW s \in Seq(Frames), NEW frame \in Frames, NEW id
  PROVE  /\ InputIn(s, id) \in Seq(STRING)
         /\ InputIn(Append(s, frame), id) = InputIn(s, id) \o FrameInput(frame, id)
<1>1. PICK n \in Nat : n = Len(s)
  OBVIOUS
<1>2. PICK t : t = Append(s, frame)
  OBVIOUS
<1>3. /\ DOMAIN s = 1..n /\ DOMAIN t = 1..(n + 1) /\ t[n + 1] = frame
      /\ \A i \in 1..n : t[i] = s[i] /\ s[i] \in Frames
  BY <1>1, <1>2
<1>4. PICK a : a = [i \in DOMAIN s |-> FrameInput(s[i], id)]
  OBVIOUS
<1>5. PICK b : b = [i \in DOMAIN t |-> FrameInput(t[i], id)]
  OBVIOUS
<1>6. a \in [1..n -> Seq(STRING)]
  BY <1>3, <1>4, FrameTypes
<1>7. b \in [1..(n + 1) -> Seq(STRING)]
  <2>1. ASSUME NEW i \in 1..(n + 1) PROVE FrameInput(t[i], id) \in Seq(STRING)
    <3>1. t[i] \in Frames
      BY <1>3
    <3> QED
      BY <3>1, FrameTypes
  <2> QED
    BY <1>3, <1>5, <2>1
<1>8. \A i \in 1..n : b[i] = a[i]
  BY <1>3, <1>4, <1>5
<1>9. b[n + 1] = FrameInput(frame, id)
  BY <1>3, <1>5
<1>10. FlattenSeq(b) = FlattenSeq(a) \o b[n + 1] /\ FlattenSeq(a) \in Seq(STRING)
  BY <1>6, <1>7, <1>8, FlattenMore
<1>11. InputIn(s, id) = FlattenSeq(a) /\ InputIn(t, id) = FlattenSeq(b)
  BY <1>4, <1>5, Zenon DEF InputIn
<1> QED
  BY <1>2, <1>9, <1>10, <1>11, Zenon

(* No input without a frame of the call, and nothing without a frame.      *)
LEMMA InputNone ==
  ASSUME NEW s \in Seq(Frames), NEW id, id \notin IdsIn(s)
  PROVE  InputIn(s, id) = <<>>
<1>1. PICK a : a = [i \in DOMAIN s |-> FrameInput(s[i], id)]
  OBVIOUS
<1>2. DOMAIN s = 1..Len(s) /\ Len(s) \in Nat /\ \A i \in 1..Len(s) : s[i] \in Frames
  OBVIOUS
<1>3. ASSUME NEW i \in 1..Len(s) PROVE FrameInput(s[i], id) = <<>>
  BY <1>2 DEF FrameInput, IdsIn
<1>4. \A i \in 1..Len(s) : a[i] = <<>>
  BY <1>1, <1>2, <1>3
<1>5. <<>> \in Seq(STRING)
  OBVIOUS
<1>6. a = [i \in 1..Len(s) |-> <<>>]
  BY <1>1, <1>2, <1>3
<1>7. a \in Seq(Seq(STRING)) /\ Len(a) = Len(s)
  BY <1>2, <1>5, <1>6
<1>8. FlattenSeq(a) = <<>>
  BY <1>4, <1>7, FlattenNone
<1> QED
  BY <1>1, <1>8, Zenon DEF InputIn

(* No frames carry nothing.                                                *)
LEMMA NothingIn ==
  TextIn(<<>>) = <<>> /\ IdsIn(<<>>) = {} /\ ~ReasonedIn(<<>>)
<1>1. DOMAIN <<>> = {}
  BY EmptySent
<1>2. [i \in DOMAIN <<>> |-> FrameText(<<>>[i])] = <<>>
  BY <1>1
<1>3. TextIn(<<>>) = <<>>
  BY <1>2, FlattenEmpty DEF TextIn
<1>4. IdsIn(<<>>) = {} /\ ~ReasonedIn(<<>>)
  BY <1>1 DEF IdsIn, ReasonedIn
<1> QED
  BY <1>3, <1>4

(* The calls after one frame more.                                         *)
LEMMA CallsGrow ==
  ASSUME NEW s \in Seq(Frames), NEW frame \in Frames
  PROVE  /\ frame.type # "toolUseEvent" => CallsIn(Append(s, frame)) = CallsIn(s)
         /\ frame.type = "toolUseEvent" =>
              Adds(CallsIn(s), frame.call.id, frame.call.arguments, CallsIn(Append(s, frame)))
         /\ \A x \in DOMAIN CallsIn(s) : CallsIn(s)[x] \in Seq(STRING)
         /\ ReasonedIn(Append(s, frame)) <=>
              ReasonedIn(s) \/ frame.type = "reasoningContentEvent"
<1>1. PICK t : t = Append(s, frame)
  OBVIOUS
<1>2. /\ Len(s) \in Nat /\ DOMAIN s = 1..Len(s) /\ DOMAIN t = 1..(Len(s) + 1)
      /\ t[Len(s) + 1] = frame /\ \A i \in 1..Len(s) : t[i] = s[i]
  BY <1>1
<1>3. ReasonedIn(t) <=> ReasonedIn(s) \/ frame.type = "reasoningContentEvent"
  BY <1>2 DEF ReasonedIn
<1>4. IdsIn(t) = IdsIn(s) \union (IF frame.type = "toolUseEvent" THEN {frame.call.id} ELSE {})
  <2>1. ASSUME NEW x \in IdsIn(t)
        PROVE  x \in IdsIn(s) \union (IF frame.type = "toolUseEvent"
                 THEN {frame.call.id} ELSE {})
    <3>1. PICK j \in DOMAIN t : t[j].type = "toolUseEvent" /\ x = t[j].call.id
      BY <2>1 DEF IdsIn
    <3> QED
      BY <1>2, <3>1 DEF IdsIn
  <2>2. ASSUME NEW x \in IdsIn(s) PROVE x \in IdsIn(t)
    <3>1. PICK j \in DOMAIN s : s[j].type = "toolUseEvent" /\ x = s[j].call.id
      BY <2>2 DEF IdsIn
    <3>2. j \in DOMAIN t /\ t[j] = s[j]
      BY <1>2, <3>1
    <3> QED
      BY <3>1, <3>2 DEF IdsIn
  <2>3. ASSUME frame.type = "toolUseEvent" PROVE frame.call.id \in IdsIn(t)
    <3>1. Len(s) + 1 \in DOMAIN t
      BY <1>2
    <3> QED
      BY <1>2, <2>3, <3>1 DEF IdsIn
  <2> QED
    BY <2>1, <2>2, <2>3
<1>5. ASSUME NEW x
      PROVE  /\ InputIn(s, x) \in Seq(STRING)
             /\ InputIn(t, x) = InputIn(s, x) \o FrameInput(frame, x)
  BY <1>1, InputGrows
<1>6. ASSUME NEW x, FrameInput(frame, x) = <<>> PROVE InputIn(t, x) = InputIn(s, x)
  <2>1. InputIn(s, x) \o <<>> = InputIn(s, x)
    BY <1>5, ConcatEmptySeq
  <2> QED
    BY <1>5, <1>6, <2>1, Zenon
<1>7. ASSUME frame.type # "toolUseEvent" PROVE CallsIn(t) = CallsIn(s)
  <2>1. \A x : FrameInput(frame, x) = <<>>
    BY <1>7, Zenon DEF FrameInput
  <2>2. IdsIn(t) = IdsIn(s)
    BY <1>4, <1>7
  <2>3. \A x : InputIn(t, x) = InputIn(s, x)
    BY <1>6, <2>1
  <2> QED
    BY <2>2, <2>3, Zenon DEF CallsIn
<1>8. ASSUME frame.type = "toolUseEvent"
      PROVE  Adds(CallsIn(s), frame.call.id, frame.call.arguments, CallsIn(t))
  <2>1. PICK id, args : id = frame.call.id /\ args = frame.call.arguments
    OBVIOUS
  <2>2. FrameInput(frame, id) = args /\ \A x : x # id => FrameInput(frame, x) = <<>>
    BY <1>8, <2>1, Zenon DEF FrameInput
  <2>3. IdsIn(t) = IdsIn(s) \union {id}
    BY <1>4, <1>8, <2>1
  <2>4. \A x : Had(CallsIn(s), x) = InputIn(s, x)
    BY InputNone DEF Had, CallsIn
  <2>5. ASSUME NEW x \in IdsIn(t)
        PROVE  InputIn(t, x) = IF x = id THEN Had(CallsIn(s), x) \o args ELSE CallsIn(s)[x]
    <3>1. CASE x = id
      BY <1>5, <2>2, <2>4, <3>1, Zenon
    <3>2. CASE x # id
      <4>1. InputIn(t, x) = InputIn(s, x) /\ x \in IdsIn(s)
        BY <1>6, <2>2, <2>3, <3>2
      <4>2. CallsIn(s)[x] = InputIn(s, x)
        BY <4>1, Zenon DEF CallsIn
      <4> QED
        BY <3>2, <4>1, <4>2, Zenon
    <3> QED
      BY <3>1, <3>2
  <2>6. /\ DOMAIN CallsIn(t) = IdsIn(t) /\ DOMAIN CallsIn(s) = IdsIn(s)
        /\ \A x \in IdsIn(t) : CallsIn(t)[x] = InputIn(t, x)
    BY Zenon DEF CallsIn
  <2>7. Adds(CallsIn(s), id, args, CallsIn(t))
    BY <2>3, <2>5, <2>6, Zenon DEF Adds
  <2> QED
    BY <2>1, <2>7, Zenon
<1>9. \A x \in DOMAIN CallsIn(s) : CallsIn(s)[x] \in Seq(STRING)
  BY <1>5 DEF CallsIn
<1> QED
  BY <1>1, <1>3, <1>7, <1>8, <1>9, Zenon

-----------------------------------------------------------------------------
(* The invariant of an answer.                                             *)

(* The places where more text may come to the splitter.                    *)
Splitting == {"next", "feed", "flush"}

(* Nothing has gone wrong since the formatter started.                     *)
Lively == \/ pc \in Writing \/ pc = "close"
          \/ pc = "done" /\ route = "chat" /\ cause = "none"

(* The buffer is the part of the text that is still to be passed.          *)
Parting(text, b, thinking, at) ==
  /\ Splits(text, b, thinking)
  /\ at \in Splitting => Passed(text, Place(text, b))
  /\ at = "next" => Len(b) <= Hold
  /\ at \notin Splitting => b = <<>>

(* The client has been told all calls, and the text up to the buffer.      *)
Upto(s, b, kind) == SpokenUpTo(TextIn(s), Place(TextIn(s), b), kind)

(* The formatter g has told all of it, at the place "at"; what it has told *)
(* as thinking is the thinking of the text, unless reasoning frames have   *)
(* added to it.                                                            *)
Conveys(g, s, b, at) ==
  \E thoughts :
    /\ ~ReasonedIn(s) => thoughts = Upto(s, b, "thinking")
    /\ at \in Writing => Composes(g, Upto(s, b, "text"), thoughts, CallsIn(s))
    /\ at \notin Writing => Delivers(g, Upto(s, b, "text"), thoughts, CallsIn(s))

(* The invariant.                                                          *)
AnswerInv ==
  /\ pc = "start" => buffer = <<>> /\ received = <<>> /\ inThinking = FALSE
  /\ Lively => /\ Parting(TextIn(received), buffer, inThinking, pc)
               /\ Conveys(f, received, buffer, pc)

(* What a frame is decoded to.                                             *)
LEMMA DecodeMeans ==
  ASSUME NEW frame \in Frames, NEW e, e = S!Decode(frame)
  PROVE  /\ e.type = "text" => FrameText(frame) = e.text
         /\ e.type # "text" => FrameText(frame) = <<>>
         /\ e.type = "reasoning" =>
              frame.type = "reasoningContentEvent" /\ e.text \in Seq(STRING)
         /\ e.type = "tool_call" <=> frame.type = "toolUseEvent"
         /\ e.type = "tool_call" => e.call = frame.call /\ e.call.arguments \in Seq(STRING)
<1>1. S!Nothing.type = "none"
  BY DEF S!Nothing
<1>2. PICK script \in Scripts : frame \in script.frames
  BY DEF Frames
<1>3. /\ frame.type \in {"assistantResponseEvent", "reasoningContentEvent"} =>
           frame.text \in Seq(STRING)
      /\ frame.type = "toolUseEvent" => frame.call.arguments \in Seq(STRING)
  BY <1>2, FramesAssumption
<1>4. CASE frame.type = "initial-response"
  <2>1. e = S!Nothing \/ e.type = "metadata"
    BY <1>4, Zenon DEF S!Decode
  <2> QED
    BY <1>1, <1>4, <2>1 DEF FrameText
<1>5. CASE frame.type = "assistantResponseEvent"
  <2>1. e = IF frame.text = <<>> THEN S!Nothing ELSE [type |-> "text", text |-> frame.text]
    BY <1>5, Zenon DEF S!Decode
  <2>2. FrameText(frame) = frame.text
    BY <1>5, Zenon DEF FrameText
  <2> QED
    BY <1>1, <1>5, <2>1, <2>2
<1>6. CASE frame.type = "reasoningContentEvent"
  <2>1. e = IF frame.text = <<>> THEN S!Nothing ELSE [type |-> "reasoning", text |-> frame.text]
    BY <1>6, Zenon DEF S!Decode
  <2>2. FrameText(frame) = <<>>
    BY <1>6, Zenon DEF FrameText
  <2> QED
    BY <1>1, <1>3, <1>6, <2>1, <2>2
<1>7. CASE frame.type = "toolUseEvent"
  <2>1. e = [type |-> "tool_call", call |-> frame.call]
    BY <1>7, Zenon DEF S!Decode
  <2>2. FrameText(frame) = <<>>
    BY <1>7, Zenon DEF FrameText
  <2>3. e.type = "tool_call" /\ e.call = frame.call
    BY <2>1
  <2> QED
    BY <1>3, <1>7, <2>2, <2>3
<1>8. CASE frame.type = "metadataEvent"
  <2>1. e.type = "usage"
    BY <1>8, Zenon DEF S!Decode
  <2> QED
    BY <1>8, <2>1 DEF FrameText
<1>9. CASE frame.type = "contextUsageEvent"
  <2>1. e = S!Nothing \/ e.type = "metadata"
    BY <1>9, Zenon DEF S!Decode
  <2> QED
    BY <1>1, <1>9, <2>1 DEF FrameText
<1>10. CASE frame.type = "meteringEvent"
  <2>1. e.type = "usage"
    BY <1>10, Zenon DEF S!Decode
  <2> QED
    BY <1>10, <2>1 DEF FrameText
<1>11. CASE frame.type \notin {"initial-response", "assistantResponseEvent", "toolUseEvent",
                               "reasoningContentEvent", "metadataEvent", "contextUsageEvent",
                               "meteringEvent"}
  <2>1. e = S!Nothing \/ e.type = "error"
    BY <1>11, Zenon DEF S!Decode
  <2> QED
    BY <1>1, <1>11, <2>1 DEF FrameText
<1> QED
  BY <1>4, <1>5, <1>6, <1>7, <1>8, <1>9, <1>10, <1>11, Zenon

(* What the formatters make while they work is sound.                      *)
LEMMA SoundNext ==
  ASSUME PathInv, pc \in Writing
  PROVE  /\ format \in {"anthropic", "openai"}
         /\ \A data : Sound(Text(data)) /\ Sound(Thinking(data)) /\ Sound(Tool(data))
         /\ \A g \in Ends : Sound(g)
<1>1. PICK ids : Forming(f, ids)
  BY DEF PathInv, Written
<1>2. format \in {"anthropic", "openai"}
  BY DEF PathInv, Routed
<1>3. ASSUME NEW data PROVE Sound(Text(data)) /\ Sound(Thinking(data)) /\ Sound(Tool(data))
  <2>1. Forming(Text(data), ids) /\ Forming(Thinking(data), ids)
    BY <1>1, <1>2, TextForms
  <2>2. Forming(Tool(data), ids \ {data.id}) \/ Forming(Tool(data), ids \union {data.id})
    BY <1>1, <1>2, ToolForms, Zenon
  <2> QED
    BY <2>1, <2>2, FormingMeans
<1>4. ASSUME NEW g \in Ends PROVE Sound(g)
  BY <1>1, <1>2, EndForms DEF Finished
<1> QED
  BY <1>2, <1>3, <1>4

(* It is written, or the request has failed.                               *)
LEMMA WrittenOn ==
  ASSUME PathInv, NEW g, Sound(g), NEW next, Writes(g, next), UNCHANGED requestVars
  PROVE  (f' = g /\ pc' = next /\ cause' = cause) \/ pc' = "failed"
<1>1. Sound(f)
  BY SoundAlways
<1> QED
  BY <1>1, WritesCases, Zenon

(* What is to be shown of a step.                                          *)
LEMMA AnswerStep ==
  ASSUME UNCHANGED requestVars, pc' # "start",
         Lively' => /\ Parting(TextIn(received'), buffer', inThinking', pc')
                    /\ Conveys(f', received', buffer', pc')
  PROVE  AnswerInv'
<1>1. Conveys(f', received', buffer', pc') => Conveys(f, received, buffer, pc)'
  BY Zenon DEF Conveys, Upto, Composes, Delivers, IsBlockStream, requestVars
<1> QED
  BY <1>1 DEF AnswerInv

(* A request that has failed has nothing to show.                          *)
LEMMA FailedStep ==
  ASSUME UNCHANGED requestVars, pc' = "failed"
  PROVE  AnswerInv'
<1>1. ~Lively'
  BY Places DEF Lively
<1> QED
  BY <1>1, AnswerStep

(* A segment of the splitter, which is written unless empty.               *)
LEMMA EmitConveys ==
  ASSUME PathInv, pc \in Writing, NEW s, NEW b, NEW c, Conveys(f, s, b, pc),
         NEW data \in Seq(STRING),
           NEW next \in Writing, Emit(data, next), UNCHANGED requestVars,
         \A kind \in {"text", "thinking"} : Upto(s, b, kind) \in Seq(STRING),
         \A kind \in {"text", "thinking"} :
           Upto(s, c, kind) = IF kind = Between(inThinking) THEN Upto(s, b, kind) \o data
                              ELSE Upto(s, b, kind)
  PROVE  pc' = "failed" \/ (pc' = next /\ Conveys(f', s, c, next))
<1>1. PICK thoughts : /\ ~ReasonedIn(s) => thoughts = Upto(s, b, "thinking")
                      /\ Composes(f, Upto(s, b, "text"), thoughts, CallsIn(s))
  BY DEF Conveys
<1>2. format \in {"anthropic", "openai"} /\ Sound(Text(data)) /\ Sound(Thinking(data))
  BY SoundNext
<1>3. CASE data = <<>>
  <2>1. pc' = next /\ f' = f
    BY <1>3 DEF Emit, clientVars
  <2>2. ASSUME NEW kind \in {"text", "thinking"} PROVE Upto(s, c, kind) = Upto(s, b, kind)
    <3>1. Upto(s, b, kind) \o <<>> = Upto(s, b, kind)
      BY ConcatEmptySeq
    <3> QED
      BY <1>3, <3>1, Zenon
  <2>3. Upto(s, c, "text") = Upto(s, b, "text")
          /\ Upto(s, c, "thinking") = Upto(s, b, "thinking")
    BY <2>2
  <2>4. Conveys(f, s, c, next)
    BY <1>1, <2>3, Zenon DEF Conveys
  <2> QED
    BY <2>1, <2>4, Zenon
<1>4. CASE data # <<>> /\ inThinking
  <2>1. Writes(Thinking(data), next)
    BY <1>4, Zenon DEF Emit
  <2>2. Composes(Thinking(data), Upto(s, b, "text"), thoughts \o data, CallsIn(s))
    BY <1>1, <1>2, ThinkingComposes
  <2>3. /\ Upto(s, c, "text") = Upto(s, b, "text")
        /\ Upto(s, c, "thinking") = Upto(s, b, "thinking") \o data
    BY <1>4 DEF Between
  <2>4. Conveys(Thinking(data), s, c, next)
    <3>1. ~ReasonedIn(s) => thoughts \o data = Upto(s, c, "thinking")
      BY <1>1, <2>3, Zenon
    <3> QED
      BY <2>2, <2>3, <3>1, Zenon DEF Conveys
  <2>5. (f' = Thinking(data) /\ pc' = next) \/ pc' = "failed"
    BY <1>2, <2>1, WrittenOn, Zenon
  <2> QED
    BY <2>4, <2>5, Zenon
<1>5. CASE data # <<>> /\ ~inThinking
  <2>1. Writes(Text(data), next)
    BY <1>5, Zenon DEF Emit
  <2>2. Composes(Text(data), Upto(s, b, "text") \o data, thoughts, CallsIn(s))
    BY <1>1, <1>2, TextComposes
  <2>3. /\ Upto(s, c, "text") = Upto(s, b, "text") \o data
        /\ Upto(s, c, "thinking") = Upto(s, b, "thinking")
    BY <1>5 DEF Between
  <2>4. Conveys(Text(data), s, c, next)
    <3>1. ~ReasonedIn(s) => thoughts = Upto(s, c, "thinking")
      BY <1>1, <2>3, Zenon
    <3> QED
      BY <2>2, <2>3, <3>1, Zenon DEF Conveys
  <2>5. (f' = Text(data) /\ pc' = next) \/ pc' = "failed"
    BY <1>2, <2>1, WrittenOn, Zenon
  <2> QED
    BY <2>4, <2>5, Zenon
<1> QED
  BY <1>3, <1>4, <1>5

(* Where the pass stands.                                                  *)
LEMMA UptoType ==
  ASSUME NEW s \in Seq(Frames), NEW b \in Seq(STRING), Len(b) <= Len(TextIn(s))
  PROVE  /\ TextIn(s) \in Seq(STRING) /\ Place(TextIn(s), b) \in 0..Len(TextIn(s))
         /\ \A kind : Upto(s, b, kind) \in Seq(STRING)
<1>1. PICK text \in Seq(STRING) : text = TextIn(s)
  <2>1. s \in Seq(Frames) => TextIn(s) \in Seq(STRING)
    <3>1. CASE Frames = {}
      <4>1. s = <<>>
        BY <3>1
      <4>2. <<>> \in Seq(STRING)
        OBVIOUS
      <4> QED
        BY <4>1, <4>2, NothingIn
    <3>2. CASE Frames # {}
      BY <3>2, TextGrows
    <3> QED
      BY <3>1, <3>2
  <2> QED
    BY <2>1
<1>2. Place(text, b) \in 0..Len(text)
  BY <1>1 DEF Place
<1>3. ASSUME NEW kind PROVE SpokenUpTo(text, Place(text, b), kind) \in Seq(STRING)
  BY <1>2, SpokenType
<1> QED
  BY <1>1, <1>2, <1>3, Zenon DEF Upto

-----------------------------------------------------------------------------
(* Every step keeps the invariant of an answer.                            *)

(* The start: nothing has been said, and nothing is told.                  *)
LEMMA BeginAnswers ==
  ASSUME PathInv, AnswerInv, Begin
  PROVE  AnswerInv'
<1>1. /\ pc = "start" /\ UNCHANGED requestVars
      /\ buffer' = <<>> /\ inThinking' = FALSE /\ received' = <<>>
      /\ (f' = Start /\ pc' = "next") \/ pc' = "failed"
  BY Zenon DEF Begin, Fails, AnswerInv, splitterVars, upstreamVars
<1>2. <<>> \in Seq(STRING)
  OBVIOUS
<1>3. Len(<<>>) = 0
  OBVIOUS
<1>4. Scan(<<>>)[0] = Unread
  BY <1>2, ScanDefined
<1>5. Unread.skip = 0 /\ Unread.thinking = FALSE
  BY DEF Unread
<1>6. Place(<<>>, <<>>) = 0
  BY <1>3 DEF Place
<1>7. Splits(<<>>, <<>>, FALSE) /\ Passed(<<>>, 0)
  BY <1>3, <1>4, <1>5 DEF Splits, Passed
<1>8. Parting(<<>>, <<>>, FALSE, "next")
  <2>1. "next" \in Splitting
    BY DEF Splitting
  <2>2. Len(<<>>) <= Hold
    BY <1>3, TagAssumption
  <2> QED
    BY <1>6, <1>7, <2>1, <2>2, Zenon DEF Parting
<1>9. TextIn(<<>>) = <<>> /\ DOMAIN CallsIn(<<>>) = {}
  BY NothingIn DEF CallsIn
<1>10. \A kind : Upto(<<>>, <<>>, kind) = <<>>
  BY <1>2, <1>6, <1>9, SpokenType DEF Upto
<1>11. format \in {"anthropic", "openai"}
  BY DEF PathInv, Routed
<1>12. Composes(Start, <<>>, <<>>, CallsIn(<<>>))
  BY <1>9, <1>11, StartComposes
<1>13. Conveys(Start, <<>>, <<>>, "next")
  <2>1. Upto(<<>>, <<>>, "text") = <<>> /\ Upto(<<>>, <<>>, "thinking") = <<>>
    BY <1>10
  <2>2. Composes(Start, Upto(<<>>, <<>>, "text"), <<>>, CallsIn(<<>>))
    BY <1>12, <2>1, Zenon
  <2> QED
    BY <2>1, <2>2, Places, Zenon DEF Conveys
<1>14. CASE f' = Start /\ pc' = "next"
  <2>1. /\ Parting(TextIn(received'), buffer', inThinking', pc')
        /\ Conveys(f', received', buffer', pc')
    BY <1>1, <1>8, <1>9, <1>13, <1>14, Zenon
  <2> QED
    BY <1>1, <1>14, <2>1, AnswerStep
<1> QED
  BY <1>1, <1>14, FailedStep

(* A frame is read: the text and the calls that it carries are what the    *)
(* splitter and the formatter get of it.                                   *)
LEMMA ReadAnswers ==
  ASSUME PathInv, AnswerInv, SplitterTypeOK, NEW frame \in Frames, ReadFrame(frame)
  PROVE  AnswerInv'
<1>1. PICK e : e = S!Decode(frame)
  OBVIOUS
<1>2. /\ pc = "next" /\ received' = Append(received, frame) /\ Handle(e)
           /\ UNCHANGED requestVars
  BY <1>1 DEF ReadFrame
<1>3. /\ e.type = "text" => FrameText(frame) = e.text
      /\ e.type # "text" => FrameText(frame) = <<>>
      /\ e.type = "reasoning" => frame.type = "reasoningContentEvent" /\ e.text \in Seq(STRING)
      /\ e.type = "tool_call" <=> frame.type = "toolUseEvent"
      /\ e.type = "tool_call" => e.call = frame.call /\ e.call.arguments \in Seq(STRING)
  BY <1>1, DecodeMeans
<1>4. received \in Seq(Frames) /\ buffer \in Seq(STRING) /\ inThinking \in BOOLEAN
  BY DEF PathInv, Heard, SplitterTypeOK
<1>5. PICK s, r : s = received /\ r = received'
  OBVIOUS
<1>6. PICK text, more : text = TextIn(s) /\ more = TextIn(r)
  OBVIOUS
<1>7. /\ Parting(text, buffer, inThinking, "next") /\ Conveys(f, s, buffer, "next")
  BY <1>2, <1>5, <1>6, Places DEF AnswerInv, Lively
<1>8. /\ Splits(text, buffer, inThinking) /\ Passed(text, Place(text, buffer))
      /\ Len(buffer) <= Hold /\ Len(buffer) <= Len(text)
  BY <1>7 DEF Parting, Splitting, Splits
<1>9. /\ text \in Seq(STRING) /\ FrameText(frame) \in Seq(STRING)
      /\ more = text \o FrameText(frame)
  BY <1>2, <1>4, <1>5, <1>6, TextGrows, FrameTypes
<1>10. /\ frame.type # "toolUseEvent" => CallsIn(r) = CallsIn(s)
       /\ frame.type = "toolUseEvent"
            => Adds(CallsIn(s), frame.call.id, frame.call.arguments, CallsIn(r))
       /\ \A x \in DOMAIN CallsIn(s) : CallsIn(s)[x] \in Seq(STRING)
       /\ ReasonedIn(r) <=> ReasonedIn(s) \/ frame.type = "reasoningContentEvent"
  BY <1>2, <1>4, <1>5, CallsGrow
<1>11. PICK thoughts : /\ ~ReasonedIn(s) => thoughts = Upto(s, buffer, "thinking")
                       /\ Composes(f, Upto(s, buffer, "text"), thoughts, CallsIn(s))
  BY <1>7, Places DEF Conveys
<1>12. format \in {"anthropic", "openai"} /\ \A data : Sound(Thinking(data))
         /\ Sound(Tool(data))
  BY <1>2, Places, SoundNext
<1>13. ASSUME e.type # "text" PROVE more = text
  <2>1. text \o <<>> = text
    BY <1>9, ConcatEmptySeq
  <2> QED
    BY <1>3, <1>9, <1>13, <2>1, Zenon
<1>14. ASSUME e.type # "text" PROVE \A kind : Upto(r, buffer, kind) = Upto(s, buffer, kind)
  BY <1>6, <1>13, <1>14, Zenon DEF Upto
<1>15. ASSUME e.type # "text", UNCHANGED splitterVars, pc' = "next",
              Conveys(f', r, buffer, "next")
       PROVE  AnswerInv'
  <2>1. more = text /\ buffer' = buffer /\ inThinking' = inThinking
    BY <1>13, <1>15 DEF splitterVars
  <2>2. Parting(TextIn(received'), buffer', inThinking', pc')
    BY <1>5, <1>6, <1>7, <1>15, <2>1, Zenon
  <2>3. Conveys(f', received', buffer', pc')
    BY <1>5, <1>15, <2>1, Zenon
  <2> QED
    BY <1>2, <1>15, <2>2, <2>3, AnswerStep
<1>16. ASSUME e.type # "text", e.type # "tool_call", UNCHANGED <<splitterVars, pc, clientVars>>
       PROVE  AnswerInv'
  <2>1. CallsIn(r) = CallsIn(s) /\ (~ReasonedIn(r) => ~ReasonedIn(s))
    BY <1>3, <1>10, <1>16
  <2>2. Conveys(f, r, buffer, "next")
    BY <1>11, <1>14, <1>16, <2>1, Places, Zenon DEF Conveys
  <2>3. f' = f /\ pc' = "next" /\ UNCHANGED splitterVars
    BY <1>2, <1>16 DEF clientVars
  <2>4. Conveys(f', r, buffer, "next")
    BY <2>2, <2>3, Zenon
  <2> QED
    BY <1>15, <1>16, <2>3, <2>4
<1>17. CASE e.type \in {"none", "metadata"}
         /\ UNCHANGED <<splitterVars, pc, clientVars, usage, cause>>
  BY <1>16, <1>17
<1>18. CASE e.type = "text" /\ FeedChunk(e.text) /\ pc' = "feed"
         /\ UNCHANGED <<clientVars, usage, cause>>
  <2>1. PICK chunk \in Seq(STRING) : chunk = e.text /\ more = text \o chunk
    BY <1>3, <1>9, <1>18
  <2>2. buffer' = buffer \o chunk /\ inThinking' = inThinking /\ f' = f
    BY <1>18, <2>1, Zenon DEF FeedChunk, clientVars
  <2>3. PICK p : p = Place(text, buffer)
    OBVIOUS
  <2>4. /\ Splits(text \o chunk, buffer \o chunk, inThinking)
        /\ Place(text \o chunk, buffer \o chunk) = p /\ Passed(text \o chunk, p)
        /\ \A kind : SpokenUpTo(text \o chunk, p, kind) = SpokenUpTo(text, p, kind)
    BY <1>4, <1>8, <1>9, <2>3, ChunkEffect
  <2>5. \A kind : Upto(r, buffer', kind) = Upto(s, buffer, kind)
    BY <1>6, <2>1, <2>2, <2>3, <2>4, Zenon DEF Upto
  <2>6. "feed" \in Splitting /\ "feed" # "next"
    BY DEF Splitting
  <2>7. Parting(more, buffer', inThinking', "feed")
    BY <2>1, <2>2, <2>4, <2>6, Zenon DEF Parting
  <2>8. CallsIn(r) = CallsIn(s) /\ (~ReasonedIn(r) => ~ReasonedIn(s))
    BY <1>3, <1>10, <1>18
  <2>9. Conveys(f, r, buffer', "feed")
    BY <1>11, <2>5, <2>8, Places, Zenon DEF Conveys
  <2>10. /\ Parting(TextIn(received'), buffer', inThinking', pc')
         /\ Conveys(f', received', buffer', pc')
    BY <1>5, <1>6, <1>18, <2>2, <2>7, <2>9, Zenon
  <2> QED
    BY <1>2, <1>18, <2>10, AnswerStep
<1>19. CASE e.type = "reasoning" /\ Writes(Thinking(e.text), "next")
         /\ UNCHANGED <<splitterVars, usage>>
  <2>1. PICK data \in Seq(STRING) : data = e.text
    BY <1>3, <1>19
  <2>2. Composes(Thinking(data), Upto(s, buffer, "text"), thoughts \o data, CallsIn(s))
    BY <1>11, <1>12, ThinkingComposes
  <2>3. CallsIn(r) = CallsIn(s) /\ ReasonedIn(r)
    BY <1>3, <1>10, <1>19
  <2>4. Conveys(Thinking(data), r, buffer, "next")
    BY <1>14, <1>19, <2>2, <2>3, Places, Zenon DEF Conveys
  <2>5. (f' = Thinking(data) /\ pc' = "next") \/ pc' = "failed"
    BY <1>2, <1>12, <1>19, <2>1, WrittenOn, Zenon
  <2>6. CASE f' = Thinking(data) /\ pc' = "next"
    <3>1. Conveys(f', r, buffer, "next")
      BY <2>4, <2>6, Zenon
    <3> QED
      BY <1>15, <1>19, <2>6, <3>1
  <2> QED
    BY <1>2, <2>5, <2>6, FailedStep
<1>20. CASE e.type = "tool_call" /\ Writes(Tool(e.call), "next")
         /\ UNCHANGED <<splitterVars, usage>>
  <2>1. PICK c : c = e.call /\ c = frame.call /\ c.arguments \in Seq(STRING)
    BY <1>3, <1>20
  <2>2. Adds(CallsIn(s), c.id, c.arguments, CallsIn(r))
    BY <1>3, <1>10, <1>20, <2>1
  <2>3. Composes(Tool(c), Upto(s, buffer, "text"), thoughts, CallsIn(r))
    BY <1>10, <1>11, <1>12, <2>1, <2>2, ToolComposes
  <2>4. ~ReasonedIn(r) => ~ReasonedIn(s)
    BY <1>10
  <2>5. Conveys(Tool(c), r, buffer, "next")
    BY <1>11, <1>14, <1>20, <2>3, <2>4, Places, Zenon DEF Conveys
  <2>6. (f' = Tool(c) /\ pc' = "next") \/ pc' = "failed"
    BY <1>2, <1>12, <1>20, <2>1, WrittenOn, Zenon
  <2>7. CASE f' = Tool(c) /\ pc' = "next"
    <3>1. Conveys(f', r, buffer, "next")
      BY <2>5, <2>7, Zenon
    <3> QED
      BY <1>15, <1>20, <2>7, <3>1
  <2> QED
    BY <1>2, <2>6, <2>7, FailedStep
<1>21. CASE e.type = "usage" /\ usage' = e.output
         /\ UNCHANGED <<splitterVars, pc, clientVars, cause>>
  BY <1>16, <1>21
<1>22. CASE e.type = "error" /\ Fails(e.category)
         /\ UNCHANGED <<splitterVars, clientVars, usage>>
  BY <1>2, <1>22, FailedStep DEF Fails
<1> QED
  BY <1>2, <1>17, <1>18, <1>19, <1>20, <1>21, <1>22, Zenon DEF Handle

(* The end of the connection: all that is held back is to be flushed.      *)
LEMMA EofAnswers ==
  ASSUME AnswerInv, NEW available, NEW totalLength, NEW headersLength,
         EndOfStream(available, totalLength, headersLength)
  PROVE  AnswerInv'
<1>1. /\ pc = "next" /\ (pc' = "flush" \/ pc' = "failed")
      /\ UNCHANGED <<splitterVars, requestVars, received, clientVars>>
  BY Zenon DEF EndOfStream, Fails
<1>2. CASE pc' = "flush"
  <2>1. Parting(TextIn(received), buffer, inThinking, "next")
          /\ Conveys(f, received, buffer, "next")
    BY <1>1, Places DEF AnswerInv, Lively
  <2>2. Parting(TextIn(received), buffer, inThinking, "flush")
    BY <2>1 DEF Parting, Splitting
  <2>3. Conveys(f, received, buffer, "flush")
    BY <2>1, Places, Zenon DEF Conveys
  <2>4. buffer' = buffer /\ inThinking' = inThinking /\ f' = f /\ received' = received
    BY <1>1 DEF splitterVars, clientVars
  <2>5. /\ Parting(TextIn(received'), buffer', inThinking', pc')
        /\ Conveys(f', received', buffer', pc')
    BY <1>2, <2>2, <2>3, <2>4, Zenon
  <2> QED
    BY <1>1, <1>2, <2>5, AnswerStep
<1> QED
  BY <1>1, <1>2, FailedStep

(* A tag is cut out.                                                       *)
LEMMA CutAnswers ==
  ASSUME PathInv, AnswerInv, SplitterTypeOK, SplitAtTag
  PROVE  AnswerInv'
<1>1. PICK i \in 1..Len(buffer) : CutTag(i) /\ Emit(SubSeq(buffer, 1, i - 1), pc)
  BY Zenon DEF SplitAtTag
<1>2. pc \in {"feed", "flush"} /\ UNCHANGED requestVars /\ received' = received
  BY Zenon DEF SplitAtTag, upstreamVars
<1>3. pc \in Writing /\ pc \in Splitting /\ pc # "next" /\ pc # "start"
  BY <1>2, Places DEF Splitting
<1>4. received \in Seq(Frames) /\ buffer \in Seq(STRING) /\ inThinking \in BOOLEAN
  BY DEF PathInv, Heard, SplitterTypeOK
<1>5. PICK s, text : s = received /\ text = TextIn(s)
  OBVIOUS
<1>6. Parting(text, buffer, inThinking, pc) /\ Conveys(f, s, buffer, pc)
  BY <1>3, <1>5, Zenon DEF AnswerInv, Lively
<1>7. Splits(text, buffer, inThinking) /\ Passed(text, Place(text, buffer))
        /\ Len(buffer) <= Len(text)
  BY <1>3, <1>6 DEF Parting, Splits
<1>8. /\ text \in Seq(STRING)
      /\ \A kind : Upto(s, buffer, kind) \in Seq(STRING)
  BY <1>4, <1>5, <1>7, UptoType
<1>9. PICK c : c = After(buffer, i + Len(TagOf(inThinking)))
  OBVIOUS
<1>10. FirstAt(TagOf(inThinking), buffer, i) /\ buffer' = c /\ inThinking' = ~inThinking
  BY <1>1, <1>9, Zenon DEF CutTag, Tag, TagOf, After
<1>11. PICK p, q : p = Place(text, buffer) /\ q = Place(text, c)
  OBVIOUS
<1>12. /\ c \in Seq(STRING) /\ Len(c) < Len(buffer)
       /\ Splits(text, c, ~inThinking)
       /\ Speaks(text, p, q, inThinking, SubSeq(buffer, 1, i - 1))
       /\ Passed(text, p) => Passed(text, q)
  BY <1>4, <1>7, <1>8, <1>9, <1>10, <1>11, CutEffect
<1>13. PICK data \in Seq(STRING) : data = SubSeq(buffer, 1, i - 1)
  <2>1. i - 1 \in 0..Len(buffer)
    BY <1>4
  <2> QED
    BY <1>4, <2>1, Prefix
<1>14. \A kind \in {"text", "thinking"} :
         Upto(s, c, kind) = IF kind = Between(inThinking) THEN Upto(s, buffer, kind) \o data
                            ELSE Upto(s, buffer, kind)
  BY <1>5, <1>11, <1>12, <1>13, Zenon DEF Upto, Speaks
<1>15. pc' = "failed" \/ (pc' = pc /\ Conveys(f', s, c, pc))
  <2>1. Emit(data, pc)
    BY <1>1, <1>13, Zenon
  <2> QED
    BY <1>2, <1>3, <1>6, <1>8, <1>14, <2>1, EmitConveys
<1>16. CASE pc' = pc /\ Conveys(f', s, c, pc)
  <2>1. Parting(text, c, ~inThinking, pc)
    BY <1>3, <1>7, <1>11, <1>12, Zenon DEF Parting
  <2>2. /\ Parting(TextIn(received'), buffer', inThinking', pc')
        /\ Conveys(f', received', buffer', pc')
    BY <1>2, <1>5, <1>10, <1>16, <2>1, Zenon
  <2> QED
    BY <1>2, <1>3, <1>16, <2>2, AnswerStep
<1> QED
  BY <1>2, <1>15, <1>16, FailedStep

(* No tag is left: what is safe is let go.                                 *)
LEMMA RestAnswers ==
  ASSUME PathInv, AnswerInv, SplitterTypeOK, SplitRest
  PROVE  AnswerInv'
<1>1. PICK flush \in BOOLEAN : flush = (pc = "flush")
  BY Zenon
<1>2. PICK next : next = IF flush THEN "end" ELSE "next"
  BY Zenon
<1>3. /\ KeepRest(flush) /\ Emit(Safe(flush), next)
      /\ pc \in {"feed", "flush"} /\ UNCHANGED requestVars /\ received' = received
  BY <1>1, <1>2, Zenon DEF SplitRest, upstreamVars
<1>4. /\ pc \in Writing /\ pc \in Splitting
      /\ next \in Writing /\ next # "start" /\ (flush => next \notin Splitting /\ next # "next")
  BY <1>2, <1>3, Places DEF Splitting
<1>5. received \in Seq(Frames) /\ buffer \in Seq(STRING) /\ inThinking \in BOOLEAN
  BY DEF PathInv, Heard, SplitterTypeOK
<1>6. PICK s, text : s = received /\ text = TextIn(s)
  OBVIOUS
<1>7. Parting(text, buffer, inThinking, pc) /\ Conveys(f, s, buffer, pc)
  BY <1>4, <1>6, Zenon DEF AnswerInv, Lively
<1>8. Splits(text, buffer, inThinking) /\ Passed(text, Place(text, buffer))
        /\ Len(buffer) <= Len(text)
  BY <1>4, <1>7 DEF Parting, Splits
<1>9. /\ text \in Seq(STRING)
      /\ \A kind : Upto(s, buffer, kind) \in Seq(STRING)
  BY <1>5, <1>6, <1>8, UptoType
<1>10. PICK kept \in 0..Len(buffer) :
         /\ kept = Kept(flush) /\ kept <= Hold /\ (flush => kept = 0)
         /\ ~flush => kept = Len(buffer) \/ Len(TagOf(inThinking)) <= kept + 1
  <2>1. Len(buffer) \in Nat /\ Hold \in Nat
    BY <1>5, TagAssumption
  <2>2. Len(TagOf(inThinking)) <= Hold + 1
    <3>1. CASE inThinking
      BY <3>1, TagAssumption DEF TagOf
    <3>2. CASE ~inThinking
      BY <3>2, TagAssumption DEF TagOf
    <3> QED
      BY <3>1, <3>2
  <2>3. CASE flush
    BY <2>1, <2>3 DEF Kept
  <2>4. CASE ~flush /\ Len(buffer) <= Hold
    BY <2>1, <2>4 DEF Kept
  <2>5. CASE ~flush /\ ~(Len(buffer) <= Hold)
    BY <2>1, <2>2, <2>5 DEF Kept
  <2> QED
    BY <2>3, <2>4, <2>5
<1>11. PICK c : c = After(buffer, Len(buffer) - kept + 1)
  OBVIOUS
<1>12. ~Occurs(TagOf(inThinking), buffer) /\ buffer' = c /\ inThinking' = inThinking
  BY <1>3, <1>10, <1>11, Zenon DEF KeepRest, Tag, TagOf, After
<1>13. PICK p, q : p = Place(text, buffer) /\ q = Place(text, c)
  OBVIOUS
<1>14. /\ c \in Seq(STRING) /\ Len(c) = kept
       /\ Splits(text, c, inThinking)
       /\ Speaks(text, p, q, inThinking, SubSeq(buffer, 1, Len(buffer) - kept))
       /\ Passed(text, p) /\ (kept = Len(buffer) \/ Len(TagOf(inThinking)) <= kept + 1) =>
            Passed(text, q)
  BY <1>5, <1>8, <1>9, <1>10, <1>11, <1>12, <1>13, RestEffect
<1>15. PICK data \in Seq(STRING) : data = SubSeq(buffer, 1, Len(buffer) - kept)
  <2>1. Len(buffer) - kept \in 0..Len(buffer)
    BY <1>5
  <2> QED
    BY <1>5, <2>1, Prefix
<1>16. \A kind \in {"text", "thinking"} :
         Upto(s, c, kind) = IF kind = Between(inThinking) THEN Upto(s, buffer, kind) \o data
                            ELSE Upto(s, buffer, kind)
  BY <1>6, <1>13, <1>14, <1>15, Zenon DEF Upto, Speaks
<1>17. pc' = "failed" \/ (pc' = next /\ Conveys(f', s, c, next))
  <2>1. Emit(data, next)
    BY <1>3, <1>10, <1>15, Zenon DEF Safe
  <2> QED
    BY <1>3, <1>4, <1>7, <1>9, <1>16, <2>1, EmitConveys
<1>18. CASE pc' = next /\ Conveys(f', s, c, next)
  <2>1. next \in Splitting => Passed(text, q)
    BY <1>4, <1>8, <1>10, <1>13, <1>14
  <2>2. next \notin Splitting => c = <<>>
    <3>1. "next" \in Splitting
      BY DEF Splitting
    <3>2. next \notin Splitting => flush
      BY <1>2, <3>1, Zenon
    <3>3. flush => Len(c) = 0
      BY <1>10, <1>14
    <3>4. Len(c) = 0 => c = <<>>
      BY <1>14
    <3> QED
      BY <3>2, <3>3, <3>4
  <2>3. Len(c) <= Hold
    BY <1>10, <1>14
  <2>4. Parting(text, c, inThinking, next)
    BY <1>13, <1>14, <2>1, <2>2, <2>3, Zenon DEF Parting
  <2>5. /\ Parting(TextIn(received'), buffer', inThinking', pc')
        /\ Conveys(f', received', buffer', pc')
    BY <1>3, <1>6, <1>12, <1>18, <2>4, Zenon
  <2> QED
    BY <1>3, <1>4, <1>18, <2>5, AnswerStep
<1> QED
  BY <1>3, <1>17, <1>18, FailedStep

(* The end is written.                                                     *)
LEMMA EndAnswers ==
  ASSUME PathInv, AnswerInv, End
  PROVE  AnswerInv'
<1>1. PICK g \in Ends : Writes(g, "close")
  BY Zenon DEF End
<1>2. /\ pc = "end" /\ UNCHANGED requestVars
      /\ received' = received /\ buffer' = buffer /\ inThinking' = inThinking
  BY DEF End, splitterVars, upstreamVars
<1>3. Parting(TextIn(received), buffer, inThinking, "end")
        /\ Conveys(f, received, buffer, "end")
  BY <1>2, Places DEF AnswerInv, Lively
<1>4. format \in {"anthropic", "openai"} /\ Sound(g)
  BY <1>2, Places, SoundNext
<1>5. PICK thoughts : /\ ~ReasonedIn(received) => thoughts = Upto(received, buffer, "thinking")
                      /\ Composes(f, Upto(received, buffer, "text"), thoughts,
                           CallsIn(received))
  BY <1>3, Places DEF Conveys
<1>6. Delivers(g, Upto(received, buffer, "text"), thoughts, CallsIn(received))
  BY <1>4, <1>5, EndDelivers
<1>7. Conveys(g, received, buffer, "close")
  BY <1>5, <1>6, Places, Zenon DEF Conveys
<1>8. Parting(TextIn(received), buffer, inThinking, "close")
  BY <1>3 DEF Parting, Splitting
<1>9. (f' = g /\ pc' = "close") \/ pc' = "failed"
  BY <1>1, <1>2, <1>4, WrittenOn, Zenon
<1>10. CASE f' = g /\ pc' = "close"
  <2>1. /\ Parting(TextIn(received'), buffer', inThinking', pc')
        /\ Conveys(f', received', buffer', pc')
    BY <1>2, <1>7, <1>8, <1>10, Zenon
  <2> QED
    BY <1>2, <1>10, <2>1, AnswerStep
<1> QED
  BY <1>2, <1>9, <1>10, FailedStep

(* The answer is there, and the request is done.                           *)
LEMMA SucceedAnswers ==
  ASSUME AnswerInv, Succeed
  PROVE  AnswerInv'
<1>1. /\ pc = "close" /\ pc' = "done" /\ UNCHANGED requestVars /\ f' = f
      /\ received' = received /\ buffer' = buffer /\ inThinking' = inThinking
  BY DEF Succeed, splitterVars, upstreamVars, clientVars
<1>2. Parting(TextIn(received), buffer, inThinking, "close")
        /\ Conveys(f, received, buffer, "close")
  BY <1>1 DEF AnswerInv, Lively
<1>3. Parting(TextIn(received), buffer, inThinking, "done")
  BY <1>2 DEF Parting, Splitting
<1>4. Conveys(f, received, buffer, "done")
  BY <1>2, Places, Zenon DEF Conveys
<1>5. /\ Parting(TextIn(received'), buffer', inThinking', pc')
      /\ Conveys(f', received', buffer', pc')
  BY <1>1, <1>3, <1>4, Zenon
<1> QED
  BY <1>1, <1>5, AnswerStep

(* A step to an end that is no answer to a chat.                           *)
LEMMA OtherAnswers ==
  ASSUME PathInv, CloseFails \/ Fail \/ Search
  PROVE  AnswerInv'
<1>1. CASE CloseFails
  BY <1>1, FailedStep DEF CloseFails, Fails
<1>2. CASE Fail
  <2>1. pc = "failed" /\ pc' = "done" /\ cause' = cause /\ UNCHANGED requestVars
    BY <1>2, Zenon DEF Fail
  <2>2. cause # "none"
    BY <2>1 DEF PathInv, Blamed
  <2>3. ~Lively'
    BY <2>1, <2>2, Places DEF Lively
  <2> QED
    BY <2>1, <2>3, AnswerStep
<1>3. CASE Search
  <2>1. pc \in {"search", "call"} /\ route' = route
    BY <1>3, Zenon DEF Search, SearchRefused, SearchAcquires, SearchFails, SearchAnswers,
      requestVars
  <2>2. route = "web_search" /\ route' = "web_search"
    BY <2>1 DEF PathInv, Routed
  <2>3. pc' \in {"call", "failed", "done"}
    BY <1>3, Zenon DEF Search, SearchRefused, SearchAcquires, SearchFails, SearchAnswers,
      Fails, Writes
  <2>4. ~Lively' /\ pc' # "start"
    BY <2>2, <2>3, Places DEF Lively
  <2> QED
    BY <2>4 DEF AnswerInv
<1> QED
  BY <1>1, <1>2, <1>3

(* The invariant of an answer is inductive.                                *)
LEMMA AnswerNext == PathInv /\ SplitterTypeOK /\ AnswerInv /\ [Next]_vars => AnswerInv'
<1> SUFFICES ASSUME PathInv, SplitterTypeOK, AnswerInv, [Next]_vars PROVE AnswerInv'
  OBVIOUS
<1>1. CASE Begin
  BY <1>1, BeginAnswers
<1>2. CASE \E frame \in Frames : ReadFrame(frame)
  BY <1>2, ReadAnswers
<1>3. CASE \E available \in {0, 7, 12, 14, 20}, totalLength \in {8, 20},
        headersLength \in {0, 8} :
             EndOfStream(available, totalLength, headersLength)
  BY <1>3, EofAnswers
<1>4. CASE SplitAtTag
  BY <1>4, CutAnswers
<1>5. CASE SplitRest
  BY <1>5, RestAnswers
<1>6. CASE End
  BY <1>6, EndAnswers
<1>7. CASE Succeed
  BY <1>7, SucceedAnswers
<1>8. CASE CloseFails \/ Fail \/ Search
  BY <1>8, OtherAnswers
<1>9. CASE UNCHANGED vars
  <2>1. /\ UNCHANGED requestVars /\ UNCHANGED <<pc, cause>> /\ f' = f /\ received' = received
        /\ buffer' = buffer /\ inThinking' = inThinking
    BY <1>9 DEF vars, splitterVars, upstreamVars, clientVars
  <2>2. Lively' => Lively
    BY <2>1 DEF Lively, requestVars
  <2>3. Lively' => /\ Parting(TextIn(received'), buffer', inThinking', pc')
                   /\ Conveys(f', received', buffer', pc')
    BY <2>1, <2>2, Zenon DEF AnswerInv
  <2>4. pc' # "start" => AnswerInv'
    BY <2>1, <2>3, AnswerStep
  <2>5. CASE pc' = "start"
    <3>1. ~Lively'
      BY <2>5, Places DEF Lively
    <3> QED
      BY <2>1, <2>5, <3>1 DEF AnswerInv
  <2> QED
    BY <2>4, <2>5
<1>10. CASE Answer
  BY <1>1, <1>2, <1>3, <1>4, <1>5, <1>6, <1>7, <1>8, <1>10 DEF Answer
<1> QED
  BY <1>8, <1>9, <1>10, Zenon DEF Next, Done

(* It holds in every reachable state.                                      *)
LEMMA AnswerCorrect == Spec => [](PathInv /\ SplitterTypeOK /\ AnswerInv)
<1>1. Init => SplitterTypeOK
  <2>1. SplitterInit => buffer \in Seq(STRING)
    BY DEF SplitterInit
  <2>2. SplitterInit => inThinking \in BOOLEAN
    BY DEF SplitterInit
  <2> QED
    BY <2>1, <2>2, Zenon DEF Init, SplitterTypeOK
<1>2. Init => AnswerInv
  BY Places DEF Init, SplitterInit, AnswerInv, Lively
<1>3. SplitterTypeOK /\ [Next]_vars => SplitterTypeOK'
  BY SplitterStep
<1> QED
  BY <1>1, <1>2, <1>3, AnswerNext, PathCorrect, PTL DEF Spec

(* What has been written, and what has been said.                          *)
LEMMA AnswerMeans ==
  ASSUME PathInv, SplitterTypeOK, AnswerInv, WasWritten, cause = "none"
  PROVE  /\ Fed = TextIn(received) /\ Fed \in Seq(STRING) /\ (Reasoned <=> ReasonedIn(received))
         /\ Place(Fed, buffer) \in 0..Len(Fed)
         /\ Got("text") = SpokenUpTo(Fed, Place(Fed, buffer), "text")
         /\ ~Reasoned => Got("thinking") = SpokenUpTo(Fed, Place(Fed, buffer), "thinking")
         /\ pc = "next" => Len(buffer) <= Hold
         /\ pc \in {"end", "close"} => Place(Fed, buffer) = Len(Fed)
         /\ GotIds = CallIds /\ \A id \in CallIds : GotInput(id) = Input(id)
<1>1. Fed = TextIn(received) /\ (Reasoned <=> ReasonedIn(received))
  BY Zenon DEF Fed, TextIn, Reasoned, ReasonedIn
<1>2. Lively
  BY DEF WasWritten, PathInv, Routed, Lively, Writing
<1>3. Parting(Fed, buffer, inThinking, pc) /\ Conveys(f, received, buffer, pc)
  BY <1>1, <1>2, Zenon DEF AnswerInv
<1>4. received \in Seq(Frames) /\ buffer \in Seq(STRING) /\ Len(buffer) <= Len(Fed)
  BY <1>3 DEF PathInv, Heard, SplitterTypeOK, Parting, Splits
<1>5. Fed \in Seq(STRING) /\ Place(Fed, buffer) \in 0..Len(Fed)
  BY <1>1, <1>4, UptoType
<1>6. format \in {"anthropic", "openai"} /\ streaming \in BOOLEAN
  BY DEF PathInv, Routed
<1>7. PICK thoughts : /\ ~ReasonedIn(received) => thoughts = Upto(received, buffer, "thinking")
                      /\ Delivers(f, Upto(received, buffer, "text"), thoughts,
                           CallsIn(received))
  BY <1>3, ComposesDelivers, Zenon DEF Conveys
<1>8. /\ Got("text") = Upto(received, buffer, "text") /\ Got("thinking") = thoughts
      /\ GotIds = DOMAIN CallsIn(received)
      /\ \A id \in DOMAIN CallsIn(received) : GotInput(id) = CallsIn(received)[id]
  BY <1>6, <1>7, DeliversGot
<1>9. /\ DOMAIN CallsIn(received) = CallIds
      /\ \A id \in CallIds : CallsIn(received)[id] = Input(id)
  BY Zenon DEF CallsIn, IdsIn, InputIn, CallIds, Input
<1>10. pc = "next" => Len(buffer) <= Hold
  BY <1>3 DEF Parting
<1>11. pc \in {"end", "close"} => Place(Fed, buffer) = Len(Fed)
  <2>1. ASSUME pc \in {"end", "close"} PROVE Len(buffer) = 0
    <3>1. buffer = <<>>
      BY <1>3, <2>1 DEF Parting, Splitting
    <3>2. Len(<<>>) = 0
      OBVIOUS
    <3> QED
      BY <3>1, <3>2, Zenon
  <2>2. Len(Fed) \in Nat
    BY <1>5
  <2> QED
    BY <2>1, <2>2 DEF Place
<1>12. \A kind : Upto(received, buffer, kind) = SpokenUpTo(Fed, Place(Fed, buffer), kind)
  BY <1>1, Zenon DEF Upto
<1> QED
  BY <1>1, <1>5, <1>7, <1>8, <1>9, <1>10, <1>11, <1>12

-----------------------------------------------------------------------------
(* What the upstream has said of its calls besides their input.            *)

(* The frames of s that tell of a call.                                    *)
Of(s, id) == {i \in DOMAIN s : s[i].type = "toolUseEvent" /\ s[i].call.id = id}

(* The calls with the names that they were given, and those that have      *)
(* ended, that have gone on after that, and that had a name in the first   *)
(* or in the last of their events.                                         *)
History(s) ==
  [ids     |-> IdsIn(s),
   names   |-> {<<s[i].call.id, s[i].call.name>> :
                  i \in {j \in DOMAIN s : s[j].type = "toolUseEvent"}},
   ended   |-> {id \in IdsIn(s) : \E i \in Of(s, id) : s[i].call.done},
   resumed |-> {id \in IdsIn(s) : \E i, j \in Of(s, id) : i < j /\ s[i].call.done},
   first   |-> {id \in IdsIn(s) : \E i \in Of(s, id) :
                  s[i].call.name # NoName /\ \A j \in Of(s, id) : i <= j},
   last    |-> {id \in IdsIn(s) : \E i \in Of(s, id) :
                  s[i].call.name # NoName /\ \A j \in Of(s, id) : j <= i}]

(* What one more event c adds.                                             *)
Gains(h, g, c) ==
  /\ g.ids = h.ids \union {c.id}
  /\ g.names = h.names \union {<<c.id, c.name>>}
  /\ g.ended = h.ended \union (IF c.done THEN {c.id} ELSE {})
  /\ g.resumed = h.resumed \union ({c.id} \intersect h.ended)
  /\ g.first \subseteq h.first \union (IF c.name = NoName THEN {} ELSE {c.id} \ h.ids)
  /\ g.last \subseteq (h.last \ {c.id}) \union (IF c.name = NoName THEN {} ELSE {c.id})

(* The frame n of t is one more than s has.                                *)
Longer(s, t, frame, n) ==
  /\ n \in Nat /\ t[n] = frame
  /\ \A i \in DOMAIN s : i \in Nat /\ i < n /\ t[i] = s[i]
  /\ DOMAIN t = DOMAIN s \union {n}
  /\ frame.type # "toolUseEvent" => \A id : Of(t, id) = Of(s, id)
  /\ frame.type = "toolUseEvent" =>
       \A id : Of(t, id) = Of(s, id) \union (IF id = frame.call.id THEN {n} ELSE {})

(* One frame more, if it tells of a call.                                  *)
LEMMA OfGrows ==
  ASSUME NEW s, IsSeq(s), NEW frame, NEW t, t = Append(s, frame)
  PROVE  \E n : Longer(s, t, frame, n)
<1>1. PICK l \in Nat : l = Len(s)
  BY AppendFacts
<1>2. PICK n \in Nat : n = l + 1
  BY <1>1
<1>3. /\ DOMAIN s = 1..l /\ DOMAIN t = 1..n /\ t[n] = frame
      /\ \A i \in 1..l : t[i] = s[i]
  BY <1>1, <1>2, AppendFacts
<1>4. DOMAIN t = DOMAIN s \union {n} /\ \A i \in DOMAIN s : i \in Nat /\ i < n /\ t[i] = s[i]
  BY <1>2, <1>3
<1>5. ASSUME frame.type # "toolUseEvent", NEW id PROVE Of(t, id) = Of(s, id)
  BY <1>3, <1>4, <1>5 DEF Of
<1>6. ASSUME frame.type = "toolUseEvent", NEW id
      PROVE  Of(t, id) = Of(s, id) \union (IF id = frame.call.id THEN {n} ELSE {})
  <2>1. CASE id = frame.call.id
    BY <1>3, <1>4, <1>6, <2>1 DEF Of
  <2>2. CASE id # frame.call.id
    BY <1>3, <1>4, <1>6, <2>2 DEF Of
  <2> QED
    BY <2>1, <2>2
<1> QED
  BY <1>3, <1>4, <1>5, <1>6, Zenon DEF Longer

(* A call is known by its frames.                                          *)
LEMMA KnownByFrames ==
  ASSUME NEW s, NEW id
  PROVE  id \in IdsIn(s) <=> Of(s, id) # {}
  BY DEF IdsIn, Of

(* A frame that is not of a call adds nothing.                             *)
LEMMA HistoryStays ==
  ASSUME NEW s, IsSeq(s), NEW frame, frame.type # "toolUseEvent"
  PROVE  History(Append(s, frame)) = History(s)
<1>1. PICK t : t = Append(s, frame)
  OBVIOUS
<1>0. PICK n : Longer(s, t, frame, n)
  BY <1>1, OfGrows
<1>2. /\ t[n] = frame /\ \A i \in DOMAIN s : i \in Nat /\ i < n /\ t[i] = s[i]
      /\ DOMAIN t = DOMAIN s \union {n}
      /\ \A id : Of(t, id) = Of(s, id)
  BY <1>0, Zenon DEF Longer
<1>3. \A id : \A i \in Of(s, id) : t[i] = s[i]
  BY <1>2 DEF Of
<1>4. {j \in DOMAIN t : t[j].type = "toolUseEvent"} = {j \in DOMAIN s : s[j].type = "toolUseEvent"}
  BY <1>2
<1>5. IdsIn(t) = IdsIn(s)
  BY <1>2, <1>4 DEF IdsIn
<1>6. {<<t[i].call.id, t[i].call.name>> : i \in {j \in DOMAIN t : t[j].type = "toolUseEvent"}} =
      {<<s[i].call.id, s[i].call.name>> : i \in {j \in DOMAIN s : s[j].type = "toolUseEvent"}}
  BY <1>2, <1>4
<1>7. {id \in IdsIn(t) : \E i \in Of(t, id) : t[i].call.done} =
      {id \in IdsIn(s) : \E i \in Of(s, id) : s[i].call.done}
  BY <1>2, <1>3, <1>5
<1>8. {id \in IdsIn(t) : \E i, j \in Of(t, id) : i < j /\ t[i].call.done} =
      {id \in IdsIn(s) : \E i, j \in Of(s, id) : i < j /\ s[i].call.done}
  BY <1>2, <1>3, <1>5
<1>9. {id \in IdsIn(t) : \E i \in Of(t, id) :
         t[i].call.name # NoName /\ \A j \in Of(t, id) : i <= j} =
      {id \in IdsIn(s) : \E i \in Of(s, id) :
         s[i].call.name # NoName /\ \A j \in Of(s, id) : i <= j}
  BY <1>2, <1>3, <1>5
<1>10. {id \in IdsIn(t) : \E i \in Of(t, id) :
          t[i].call.name # NoName /\ \A j \in Of(t, id) : j <= i} =
       {id \in IdsIn(s) : \E i \in Of(s, id) :
          s[i].call.name # NoName /\ \A j \in Of(s, id) : j <= i}
  BY <1>2, <1>3, <1>5
<1> QED
  BY <1>1, <1>5, <1>6, <1>7, <1>8, <1>9, <1>10, Zenon DEF History

(* An event of a call adds to it.                                          *)
LEMMA HistoryGrows ==
  ASSUME NEW s, IsSeq(s), NEW frame, frame.type = "toolUseEvent"
  PROVE  Gains(History(s), History(Append(s, frame)), frame.call)
<1>1. PICK t, c : t = Append(s, frame) /\ c = frame.call
  OBVIOUS
<1>0. PICK n : Longer(s, t, frame, n)
  BY <1>1, OfGrows
<1>2. /\ n \in Nat /\ t[n] = frame
      /\ \A i \in DOMAIN s : i \in Nat /\ i < n /\ t[i] = s[i]
      /\ DOMAIN t = DOMAIN s \union {n}
      /\ \A id : Of(t, id) = Of(s, id) \union (IF id = c.id THEN {n} ELSE {})
  BY <1>0, <1>1, Zenon DEF Longer
<1>3. \A id : \A i \in Of(s, id) : i \in Nat /\ i < n /\ t[i] = s[i]
  BY <1>2 DEF Of
<1>4. {j \in DOMAIN t : t[j].type = "toolUseEvent"} =
        {j \in DOMAIN s : s[j].type = "toolUseEvent"} \union {n}
  BY <1>2
<1>5. IdsIn(t) = IdsIn(s) \union {c.id}
  BY <1>1, <1>2, <1>4 DEF IdsIn
<1>6. {<<t[i].call.id, t[i].call.name>> : i \in {j \in DOMAIN t : t[j].type = "toolUseEvent"}} =
      {<<s[i].call.id, s[i].call.name>> : i \in {j \in DOMAIN s : s[j].type = "toolUseEvent"}}
        \union {<<c.id, c.name>>}
  BY <1>1, <1>2, <1>4
<1>7. ASSUME NEW id
      PROVE  id \in IdsIn(s) <=> Of(s, id) # {}
  BY KnownByFrames
<1>8. History(t).ended = History(s).ended \union (IF c.done THEN {c.id} ELSE {})
  <2>1. ASSUME NEW id
        PROVE  id \in History(t).ended <=> id \in History(s).ended \/ (c.done /\ id = c.id)
    <3>1. id \in History(t).ended <=> \E i \in Of(t, id) : t[i].call.done
      BY KnownByFrames DEF History
    <3>2. id \in History(s).ended <=> \E i \in Of(s, id) : s[i].call.done
      BY KnownByFrames DEF History
    <3>3. (\E i \in Of(t, id) : t[i].call.done) <=>
            (\E i \in Of(s, id) : s[i].call.done) \/ (c.done /\ id = c.id)
      <4>1. CASE id = c.id
        <5>1. Of(t, id) = Of(s, id) \union {n}
          BY <1>2, <4>1
        <5>2. t[n].call.done <=> c.done
          BY <1>1, <1>2
        <5> QED
          BY <1>3, <4>1, <5>1, <5>2
      <4>2. CASE id # c.id
        <5>1. Of(t, id) = Of(s, id)
          BY <1>2, <4>2
        <5> QED
          BY <1>3, <4>2, <5>1
      <4> QED
        BY <4>1, <4>2
    <3> QED
      BY <3>1, <3>2, <3>3
  <2> QED
    BY <2>1
<1>9. History(t).resumed = History(s).resumed \union ({c.id} \intersect History(s).ended)
  <2>1. ASSUME NEW id
        PROVE  id \in History(t).resumed <=>
                 id \in History(s).resumed \/ (id = c.id /\ id \in History(s).ended)
    <3>1. id \in History(t).resumed <=> \E i, j \in Of(t, id) : i < j /\ t[i].call.done
      BY KnownByFrames DEF History
    <3>2. id \in History(s).resumed <=> \E i, j \in Of(s, id) : i < j /\ s[i].call.done
      BY KnownByFrames DEF History
    <3>3. id \in History(s).ended <=> \E i \in Of(s, id) : s[i].call.done
      BY KnownByFrames DEF History
    <3>4. (\E i, j \in Of(t, id) : i < j /\ t[i].call.done) <=>
            (\E i, j \in Of(s, id) : i < j /\ s[i].call.done)
              \/ (id = c.id /\ \E i \in Of(s, id) : s[i].call.done)
      <4>1. CASE id = c.id
        BY <1>2, <1>3, <4>1
      <4>2. CASE id # c.id
        BY <1>2, <1>3, <4>2
      <4> QED
        BY <4>1, <4>2
    <3> QED
      BY <3>1, <3>2, <3>3, <3>4
  <2> QED
    BY <2>1
<1>10. ASSUME NEW id \in History(t).first
       PROVE  id \in History(s).first \/ (c.name # NoName /\ id = c.id /\ id \notin IdsIn(s))
  <2>1. PICK i \in Of(t, id) : t[i].call.name # NoName /\ \A j \in Of(t, id) : i <= j
    BY DEF History
  <2>2. CASE i \in Of(s, id)
    <3>1. s[i].call.name # NoName /\ \A j \in Of(s, id) : i <= j
      BY <1>2, <1>3, <2>1, <2>2
    <3> QED
      BY <2>2, <3>1, KnownByFrames DEF History
  <2>3. CASE i \notin Of(s, id)
    <3>1. i = n /\ id = c.id
      BY <1>2, <2>3
    <3>2. ASSUME NEW j \in Of(s, id) PROVE FALSE
      BY <1>2, <1>3, <2>1, <3>1
    <3>3. id \notin IdsIn(s)
      BY <3>2, KnownByFrames
    <3> QED
      BY <1>1, <1>2, <2>1, <3>1, <3>3
  <2> QED
    BY <2>2, <2>3
<1>11. ASSUME NEW id \in History(t).last
       PROVE  IF id = c.id THEN c.name # NoName ELSE id \in History(s).last
  <2>1. PICK i \in Of(t, id) : t[i].call.name # NoName /\ \A j \in Of(t, id) : j <= i
    BY DEF History
  <2>2. CASE id = c.id
    <3>1. n \in Of(t, id)
      BY <1>2, <2>2
    <3>2. n <= i /\ (i = n \/ i \in Of(s, id))
      BY <1>2, <2>1, <3>1
    <3>3. i = n
      BY <1>2, <1>3, <3>2
    <3> QED
      BY <1>1, <1>2, <2>1, <2>2, <3>3
  <2>3. CASE id # c.id
    <3>1. Of(t, id) = Of(s, id)
      BY <1>2, <2>3
    <3>2. s[i].call.name # NoName /\ \A j \in Of(s, id) : j <= i
      BY <1>3, <2>1, <3>1
    <3> QED
      BY <2>1, <2>3, <3>1, <3>2, KnownByFrames DEF History
  <2> QED
    BY <2>2, <2>3
<1>12. /\ History(t).ids = History(s).ids \union {c.id}
       /\ History(t).names = History(s).names \union {<<c.id, c.name>>}
       /\ History(s).ids = IdsIn(s)
  BY <1>5, <1>6, Zenon DEF History
<1> QED
  BY <1>1, <1>8, <1>9, <1>10, <1>11, <1>12 DEF Gains

-----------------------------------------------------------------------------
(* What a client can tell of the calls, in each form of answer: h is the   *)
(* history of the calls.                                                   *)

(* The calls of C have the ids and the names that they were given.         *)
Given(C, h) ==
  /\ \A c \in C : <<c.id, c.name>> \in h.names
  /\ \A c, d \in C : c.index = d.index => c.id = d.id

(* Two calls that the client cannot take for one have the same id.         *)
Twice(C, id) == \E c, d \in C : c.id = id /\ d.id = id /\ c.index # d.index

(* What has a name can be told by it.                                      *)
Titled(C, ids) == \A id \in ids : \E c \in C : c.id = id /\ c.name # NoName

(* A stream of blocks: the calls of C have blocks, those of M an open one. *)
BlockTale(C, M, h) ==
  /\ Given(C, h) /\ Titled(C, h.first)
  /\ M \subseteq h.ids /\ \A id \in h.ids : \E c \in C : c.id = id
  /\ \A c \in C : c.id \in h.ids
  /\ \A id \in h.ids \ M : id \in h.ended
  /\ \A id \in M : id \in h.ended => id \in h.resumed
  /\ h.ended \subseteq h.ids /\ h.resumed \subseteq h.ended
  /\ \A id \in h.ids : Twice(C, id) <=> id \in h.resumed

(* An event of a call opens a block unless there is an open one, and       *)
(* closes it if it is the last.                                            *)
LEMMA BlockTaleGrows ==
  ASSUME NEW C, NEW M, NEW h, BlockTale(C, M, h), NEW c, NEW g, Gains(h, g, c),
         NEW i, \A d \in C : d.index # i,
         NEW D, D = IF c.id \in M THEN C ELSE C \union {Call(c.id, c.name, i)},
         NEW N, N = (M \union {c.id}) \ (IF c.done THEN {c.id} ELSE {})
  PROVE  BlockTale(D, N, g)
<1>1. PICK e : e = Call(c.id, c.name, i)
  OBVIOUS
<1>2. e.id = c.id /\ e.name = c.name /\ e.index = i
  BY <1>1 DEF Call
<1>3. CASE c.id \in M
  <2>1. D = C /\ c.id \in h.ids
    BY <1>3 DEF BlockTale
  <2>2. g.ids = h.ids /\ h.names \subseteq g.names /\ g.first \subseteq h.first
    BY <2>1 DEF Gains
  <2>3. g.resumed = h.resumed
    BY <1>3 DEF Gains, BlockTale
  <2>4. Given(D, g) /\ Titled(D, g.first)
    BY <2>1, <2>2 DEF BlockTale, Given, Titled
  <2>5. /\ N \subseteq g.ids /\ \A id \in g.ids : \E d \in D : d.id = id
        /\ \A d \in D : d.id \in g.ids
    BY <2>1, <2>2 DEF BlockTale
  <2>6. /\ \A id \in g.ids \ N : id \in g.ended
        /\ \A id \in N : id \in g.ended => id \in g.resumed
        /\ g.ended \subseteq g.ids /\ g.resumed \subseteq g.ended
    BY <2>1, <2>2, <2>3 DEF BlockTale, Gains
  <2>7. \A id \in g.ids : Twice(D, id) <=> id \in g.resumed
    BY <2>1, <2>2, <2>3 DEF BlockTale
  <2> QED
    BY <2>4, <2>5, <2>6, <2>7 DEF BlockTale
<1>4. CASE c.id \notin M
  <2>1. D = C \union {e}
    BY <1>1, <1>4
  <2>2. g.ids = h.ids \union {c.id} /\ g.names = h.names \union {<<c.id, c.name>>}
    BY DEF Gains
  <2>3. Given(D, g)
    <3>1. \A d \in D : <<d.id, d.name>> \in g.names
      BY <1>2, <2>1, <2>2 DEF BlockTale, Given
    <3>2. \A d, k \in D : d.index = k.index => d.id = k.id
      BY <1>2, <2>1 DEF BlockTale, Given
    <3> QED
      BY <3>1, <3>2 DEF Given
  <2>4. Titled(D, g.first)
    <3>1. ASSUME NEW id \in g.first PROVE \E d \in D : d.id = id /\ d.name # NoName
      <4>1. CASE id \in h.first
        BY <2>1, <4>1 DEF BlockTale, Titled
      <4>2. CASE id \notin h.first
        BY <1>2, <2>1, <4>2 DEF Gains
      <4> QED
        BY <4>1, <4>2
    <3> QED
      BY <3>1 DEF Titled
  <2>5. /\ N \subseteq g.ids /\ \A id \in g.ids : \E d \in D : d.id = id
        /\ \A d \in D : d.id \in g.ids
    BY <1>2, <2>1, <2>2 DEF BlockTale
  <2>6. c.id \in h.ids => c.id \in h.ended
    BY <1>4 DEF BlockTale
  <2>7. /\ \A id \in g.ids \ N : id \in g.ended
        /\ \A id \in N : id \in g.ended => id \in g.resumed
        /\ g.ended \subseteq g.ids /\ g.resumed \subseteq g.ended
    BY <2>2, <2>6 DEF BlockTale, Gains
  <2>8. ASSUME NEW id \in g.ids PROVE Twice(D, id) <=> id \in g.resumed
    <3>1. CASE id # c.id
      <4>1. Twice(D, id) <=> Twice(C, id)
        BY <1>2, <2>1, <3>1 DEF Twice
      <4>2. id \in h.ids /\ (id \in g.resumed <=> id \in h.resumed)
        BY <2>2, <3>1 DEF Gains
      <4> QED
        BY <4>1, <4>2 DEF BlockTale
    <3>2. CASE id = c.id /\ c.id \in h.ids
      <4>1. PICK d \in C : d.id = c.id
        BY <3>2 DEF BlockTale
      <4>2. Twice(D, id)
        BY <1>2, <2>1, <3>2, <4>1 DEF Twice
      <4>3. id \in g.resumed
        BY <2>6, <3>2 DEF Gains
      <4> QED
        BY <4>2, <4>3
    <3>3. CASE id = c.id /\ c.id \notin h.ids
      <4>1. \A d \in C : d.id # c.id
        BY <3>3 DEF BlockTale
      <4>2. ~Twice(D, id)
        BY <1>2, <2>1, <3>3, <4>1 DEF Twice
      <4>3. id \notin g.resumed
        BY <3>3 DEF Gains, BlockTale
      <4> QED
        BY <4>2, <4>3
    <3> QED
      BY <3>1, <3>2, <3>3
  <2> QED
    BY <2>3, <2>4, <2>5, <2>7, <2>8 DEF BlockTale
<1> QED
  BY <1>3, <1>4

(* A stream of chunks: x has the indexes of the calls, all below n.        *)
ChunkTale(C, x, n, h) ==
  /\ Given(C, h) /\ Titled(C, h.first)
  /\ n \in Nat /\ \A id \in DOMAIN x : x[id] \in Nat /\ x[id] < n
  /\ \A id, other \in DOMAIN x : x[id] = x[other] => id = other
  /\ \A c \in C : c.id \in DOMAIN x /\ c.index = x[c.id]
  /\ h.first \subseteq h.ids /\ DOMAIN x = h.ids

(* The indexes, and the next of them, with one for the call id.            *)
Indexed(x, n, id, y, m) ==
  /\ y = IF id \in DOMAIN x THEN x
         ELSE [other \in DOMAIN x \union {id} |-> IF other = id THEN n ELSE x[other]]
  /\ m = IF id \in DOMAIN x THEN n ELSE n + 1

(* Every event of a call is a chunk, with the index that the first of them *)
(* got.                                                                    *)
LEMMA ChunkTaleGrows ==
  ASSUME NEW C, NEW x, NEW n, NEW h, ChunkTale(C, x, n, h), NEW c, NEW g, Gains(h, g, c),
         NEW y, NEW m, Indexed(x, n, c.id, y, m), NEW D, D = C \union {Call(c.id, c.name, y[c.id])}
  PROVE  ChunkTale(D, y, m, g)
<1>1. PICK e : e = Call(c.id, c.name, y[c.id])
  OBVIOUS
<1>2. e.id = c.id /\ e.name = c.name /\ e.index = y[c.id]
  BY <1>1 DEF Call
<1>3. D = C \union {e}
  BY <1>1
<1>4. /\ DOMAIN y = DOMAIN x \union {c.id} /\ \A id \in DOMAIN x : y[id] = x[id]
      /\ c.id \notin DOMAIN x => y[c.id] = n
  BY DEF Indexed
<1>5. m \in Nat /\ n \in Nat /\ n <= m /\ (c.id \notin DOMAIN x => m = n + 1)
  BY DEF Indexed, ChunkTale
<1>6. \A id \in DOMAIN y : y[id] \in Nat /\ y[id] < m
  BY <1>4, <1>5 DEF ChunkTale
<1>7. \A id, other \in DOMAIN y : y[id] = y[other] => id = other
  BY <1>4, <1>5 DEF ChunkTale
<1>8. \A d \in D : d.id \in DOMAIN y /\ d.index = y[d.id]
  BY <1>2, <1>3, <1>4 DEF ChunkTale
<1>9. ASSUME NEW d \in D, NEW k \in D, d.index = k.index PROVE d.id = k.id
  <2>1. d.id \in DOMAIN y /\ k.id \in DOMAIN y /\ y[d.id] = y[k.id]
    BY <1>8, <1>9
  <2> QED
    BY <1>7, <2>1
<1>10. \A d \in D : <<d.id, d.name>> \in g.names
  <2>1. g.names = h.names \union {<<c.id, c.name>>}
    BY DEF Gains
  <2> QED
    BY <1>2, <1>3, <2>1 DEF ChunkTale, Given
<1>11. Titled(D, g.first)
  <2>1. ASSUME NEW id \in g.first PROVE \E d \in D : d.id = id /\ d.name # NoName
    <3>1. CASE id \in h.first
      BY <1>3, <3>1 DEF ChunkTale, Titled
    <3>2. CASE id \notin h.first
      BY <1>2, <1>3, <3>2 DEF Gains
    <3> QED
      BY <3>1, <3>2
  <2> QED
    BY <2>1 DEF Titled
<1>12. g.first \subseteq g.ids /\ DOMAIN y = g.ids
  BY <1>4 DEF ChunkTale, Gains
<1> QED
  BY <1>5, <1>6, <1>7, <1>8, <1>9, <1>10, <1>11, <1>12 DEF ChunkTale, Given

(* A message: every call has one place in the order, and the name that its *)
(* formatter keeps.                                                        *)
MessageTale(order, tools, h) ==
  /\ IsSeq(order) /\ \A i, j \in DOMAIN order : order[i] = order[j] => i = j
  /\ DOMAIN tools = h.ids /\ \A i \in DOMAIN order : order[i] \in h.ids
  /\ \A id \in h.ids : \E i \in DOMAIN order : order[i] = id
  /\ \A id \in h.ids : <<id, tools[id].name>> \in h.names
  /\ h.first \union h.last \subseteq h.ids
  /\ \A id \in IF format = "anthropic" THEN h.last ELSE h.first : tools[id].name # NoName

(* The name that a message has for a call after its event c: an Anthropic  *)
(* message keeps the last one, a completion the last that is a name.       *)
NameAfter(c, m, anthropic) ==
  IF anthropic \/ c.name # NoName \/ c.id \notin DOMAIN m THEN c.name ELSE m[c.id].name

(* The calls after it.                                                     *)
CallsAfter(c, m, name, args) ==
  [id \in DOMAIN m \union {c.id} |->
     IF id = c.id THEN [name |-> name, arguments |-> args] ELSE m[id]]

(* It keeps every call in its place.                                       *)
LEMMA MessageTaleGrows ==
  ASSUME NEW order, NEW tools, NEW h, MessageTale(order, tools, h),
         NEW c, NEW g, Gains(h, g, c),
         NEW name, name = NameAfter(c, tools, format = "anthropic"), NEW args,
         NEW o, o = IF c.id \in DOMAIN tools THEN order ELSE Append(order, c.id),
         NEW m, m = CallsAfter(c, tools, name, args)
  PROVE  MessageTale(o, m, g)
<1>1. /\ g.ids = h.ids \union {c.id} /\ g.names = h.names \union {<<c.id, c.name>>}
      /\ DOMAIN tools = h.ids
  BY DEF Gains, MessageTale
<1>2. DOMAIN m = g.ids /\ m[c.id].name = name /\ \A id \in h.ids : id # c.id => m[id] = tools[id]
  BY <1>1 DEF CallsAfter
<1>7. name = IF format = "anthropic" \/ c.name # NoName \/ c.id \notin h.ids
             THEN c.name ELSE tools[c.id].name
  BY <1>1, Zenon DEF NameAfter
<1>3. /\ IsSeq(o) /\ \A i, j \in DOMAIN o : o[i] = o[j] => i = j
      /\ \A i \in DOMAIN o : o[i] \in g.ids
      /\ \A id \in g.ids : \E i \in DOMAIN o : o[i] = id
  <2>1. CASE c.id \in h.ids
    BY <1>1, <2>1 DEF MessageTale
  <2>2. CASE c.id \notin h.ids
    <3>1. PICK l \in Nat : l = Len(order)
      BY AppendFacts DEF MessageTale
    <3>2. /\ IsSeq(o) /\ DOMAIN order = 1..l /\ DOMAIN o = 1..(l + 1)
          /\ o[l + 1] = c.id /\ \A i \in 1..l : o[i] = order[i]
      BY <1>1, <2>2, <3>1, AppendFacts DEF MessageTale
    <3>3. /\ DOMAIN o = DOMAIN order \union {l + 1} /\ l + 1 \notin DOMAIN order
          /\ \A i \in DOMAIN order : o[i] = order[i] /\ o[i] # c.id
      BY <2>2, <3>2 DEF MessageTale
    <3> QED
      BY <1>1, <3>2, <3>3 DEF MessageTale
  <2> QED
    BY <2>1, <2>2
<1>4. \A id \in g.ids : <<id, m[id].name>> \in g.names
  <2>1. <<c.id, name>> \in g.names
    BY <1>1, <1>7 DEF MessageTale
  <2> QED
    BY <1>1, <1>2, <2>1 DEF MessageTale
<1>5. g.first \union g.last \subseteq g.ids
  BY DEF Gains, MessageTale
<1>6. \A id \in IF format = "anthropic" THEN g.last ELSE g.first : m[id].name # NoName
  <2>1. ASSUME format = "anthropic", NEW id \in g.last PROVE m[id].name # NoName
    BY <1>1, <1>2, <1>7, <2>1 DEF Gains, MessageTale
  <2>2. ASSUME format # "anthropic", NEW id \in g.first PROVE m[id].name # NoName
    <3>1. CASE id # c.id
      BY <1>1, <1>2, <2>2, <3>1 DEF Gains, MessageTale
    <3>2. CASE id = c.id
      BY <1>1, <1>2, <1>7, <2>2, <3>2 DEF Gains, MessageTale
    <3> QED
      BY <3>1, <3>2
  <2> QED
    BY <2>1, <2>2
<1> QED
  BY <1>2, <1>3, <1>4, <1>5, <1>6 DEF MessageTale

-----------------------------------------------------------------------------
(* What the formatter of blocks adds to it.                                *)

(* The blocks of s belong to the calls of C, and have indexes up to b.     *)
Numbered(s, b, C) ==
  /\ IsSeq(s) /\ b \in Int /\ BlockCalls(s) = C
  /\ \A c \in C : c.index \in Int /\ c.index <= b

(* What opens no block of a call adds none.                                *)
LEMMA NumberedStays ==
  ASSUME NEW s, NEW b, NEW C, Numbered(s, b, C), NEW e, ~StartsTool(e)
  PROVE  Numbered(Append(s, e), b, C) /\ Numbered(Append(s, e), b + 1, C)
<1>1. PICK t : t = Append(s, e)
  OBVIOUS
<1>2. PICK n \in Nat : n = Len(s)
  BY AppendFacts DEF Numbered
<1>3. /\ IsSeq(t) /\ DOMAIN t = DOMAIN s \union {n + 1} /\ t[n + 1] = e
      /\ \A i \in DOMAIN s : t[i] = s[i]
  BY <1>1, <1>2, AppendFacts DEF Numbered
<1>4. {q \in DOMAIN t : StartsTool(t[q])} = {q \in DOMAIN s : StartsTool(s[q])}
  BY <1>3
<1>5. BlockCalls(t) = BlockCalls(s)
  BY <1>3, <1>4 DEF BlockCalls
<1> QED
  BY <1>1, <1>3, <1>5 DEF Numbered

(* The block of a call is a new one.                                       *)
LEMMA NumberedGrows ==
  ASSUME NEW s, NEW b, NEW C, Numbered(s, b, C), NEW id, NEW name, NEW e,
         e = A!Event("content_block_start", b + 1, "tool_use", <<id, name>>)
  PROVE  /\ Numbered(Append(s, e), b + 1, C \union {Call(id, name, b + 1)})
         /\ \A c \in C : c.index # b + 1
<1>1. PICK t, h : t = Append(s, e) /\ h = Call(id, name, b + 1)
  OBVIOUS
<1>2. PICK n \in Nat : n = Len(s)
  BY AppendFacts DEF Numbered
<1>3. /\ IsSeq(t) /\ DOMAIN t = DOMAIN s \union {n + 1} /\ t[n + 1] = e
      /\ \A i \in DOMAIN s : t[i] = s[i]
  BY <1>1, <1>2, AppendFacts DEF Numbered
<1>4. StartsTool(e) /\ e.index = b + 1 /\ e.data = <<id, name>>
  BY DEF A!Event, StartsTool
<1>5. e.data[1] = id /\ e.data[2] = name
  BY <1>4
<1>6. {q \in DOMAIN t : StartsTool(t[q])} = {q \in DOMAIN s : StartsTool(s[q])} \union {n + 1}
  BY <1>3, <1>4
<1>7. Call(t[n + 1].data[1], t[n + 1].data[2], t[n + 1].index) = h
  BY <1>1, <1>3, <1>4, <1>5, Zenon
<1>8. BlockCalls(t) = BlockCalls(s) \union {h}
  <2> DEFINE K(q) == Call(q.data[1], q.data[2], q.index)
             P == {q \in DOMAIN s : StartsTool(s[q])}
  <2>1. \A i \in P : K(t[i]) = K(s[i])
    BY <1>3
  <2>2. K(t[n + 1]) = h
    BY <1>7
  <2>3. BlockCalls(t) = {K(t[i]) : i \in P \union {n + 1}}
    BY <1>6, Zenon DEF BlockCalls
  <2>4. BlockCalls(s) = {K(s[i]) : i \in P}
    BY Zenon DEF BlockCalls
  <2> HIDE DEF K, P
  <2> QED
    BY <2>1, <2>2, <2>3, <2>4
<1>9. h.index = b + 1
  BY <1>1 DEF Call
<1>10. \A c \in C : c.index \in Int /\ c.index <= b
  BY DEF Numbered
<1>11. \A c \in C \union {h} : c.index \in Int /\ c.index <= b + 1
  BY <1>9, <1>10 DEF Numbered
<1>12. Numbered(t, b + 1, C \union {h})
  BY <1>3, <1>8, <1>11 DEF Numbered
<1>13. \A c \in C : c.index # b + 1
  BY <1>10 DEF Numbered
<1> QED
  BY <1>1, <1>12, <1>13

(* The formatter g has written blocks for the calls of C, those of m are   *)
(* open.                                                                   *)
Hands(g, m, C) == \E s, b, t, k, u : g = Rec(s, b, t, k, m, u) /\ Numbered(s, b, C)

(* They can be seen in its variables.                                      *)
LEMMA HandsAre ==
  ASSUME NEW s, NEW b, NEW t, NEW k, NEW m, NEW u, NEW C, Numbered(s, b, C)
  PROVE  Hands(Rec(s, b, t, k, m, u), m, C)
  BY Zenon DEF Hands

(* Blocks of text and of thinking are none of a call.                      *)
LEMMA HandsStay ==
  ASSUME NEW g, NEW m, NEW C, Hands(g, m, C)
  PROVE  /\ Hands(A!CloseText(g), m, C) /\ Hands(A!CloseThinking(g), m, C)
         /\ Hands(A!OpenText(g), m, C) /\ Hands(A!OpenThinking(g), m, C)
         /\ \A e : ~StartsTool(e) => Hands(A!Write(g, e), m, C)
<1>1. PICK s, b, t, k, u : g = Rec(s, b, t, k, m, u) /\ Numbered(s, b, C)
  BY DEF Hands
<1>2. ASSUME NEW type, NEW i, NEW kind, NEW e, e = A!Event(type, i, kind, <<>>),
             kind # "tool_use"
      PROVE  Numbered(Append(s, e), b, C) /\ Numbered(Append(s, e), b + 1, C)
  <2>1. ~StartsTool(e)
    BY <1>2 DEF A!Event, StartsTool
  <2> QED
    BY <1>1, <2>1, NumberedStays
<1>3. Hands(A!CloseText(g), m, C)
  <2>1. Numbered(Append(s, A!Event("content_block_stop", t, "text", <<>>)), b, C)
    BY <1>2
  <2>2. A!CloseText(g) = IF t < 0 THEN Rec(s, b, t, k, m, u)
                       ELSE Rec(Append(s, A!Event("content_block_stop", t, "text", <<>>)),
                                b, -1, k, m, u)
    BY <1>1, CloseTextEffect
  <2> QED
    BY <1>1, <2>1, <2>2, HandsAre, Zenon
<1>4. Hands(A!CloseThinking(g), m, C)
  <2>1. Numbered(Append(s, A!Event("content_block_stop", k, "thinking", <<>>)), b, C)
    BY <1>2
  <2>2. A!CloseThinking(g) = IF k < 0 THEN Rec(s, b, t, k, m, u)
                       ELSE Rec(Append(s, A!Event("content_block_stop", k, "thinking", <<>>)),
                                b, t, -1, m, u)
    BY <1>1, CloseThinkingEffect
  <2> QED
    BY <1>1, <2>1, <2>2, HandsAre, Zenon
<1>5. Hands(A!OpenText(g), m, C)
  <2>1. Numbered(Append(s, A!Event("content_block_start", b + 1, "text", <<>>)), b + 1, C)
    BY <1>2
  <2>2. A!OpenText(g) = IF t >= 0 THEN Rec(s, b, t, k, m, u)
                       ELSE Rec(Append(s, A!Event("content_block_start", b + 1, "text", <<>>)),
                                b + 1, b + 1, k, m, u)
    BY <1>1, OpenTextEffect
  <2> QED
    BY <1>1, <2>1, <2>2, HandsAre, Zenon
<1>6. Hands(A!OpenThinking(g), m, C)
  <2>1. Numbered(Append(s, A!Event("content_block_start", b + 1, "thinking", <<>>)), b + 1, C)
    BY <1>2
  <2>2. A!OpenThinking(g) = IF k >= 0 THEN Rec(s, b, t, k, m, u)
                       ELSE Rec(Append(s, A!Event("content_block_start", b + 1, "thinking", <<>>)),
                                b + 1, t, b + 1, m, u)
    BY <1>1, OpenThinkingEffect
  <2> QED
    BY <1>1, <2>1, <2>2, HandsAre, Zenon
<1>7. ASSUME NEW e, ~StartsTool(e) PROVE Hands(A!Write(g, e), m, C)
  <2>1. A!Write(g, e) = Rec(Append(s, e), b, t, k, m, u)
    <3>1. A!Write(Rec(s, b, t, k, m, u), e) = Rec(Append(s, e), b, t, k, m, u)
      BY RecWrite
    <3> QED
      BY <1>1, <3>1
  <2>2. Numbered(Append(s, e), b, C)
    BY <1>1, <1>7, NumberedStays
  <2> QED
    BY <2>1, <2>2, HandsAre
<1> QED
  BY <1>3, <1>4, <1>5, <1>6, <1>7

(* Text and thinking are told in blocks of their own.                      *)
LEMMA TextHands ==
  ASSUME NEW g, NEW m, NEW C, Hands(g, m, C), NEW data
  PROVE  Hands(A!StreamText(g, data), m, C) /\ Hands(A!StreamThinking(g, data), m, C)
<1>1. \A i, kind : ~StartsTool(A!Event("content_block_delta", i, kind, data))
  BY DEF A!Event, StartsTool
<1>2. Hands(A!OpenText(A!CloseThinking(g)), m, C)
  <2>1. Hands(A!CloseThinking(g), m, C)
    BY HandsStay
  <2> QED
    BY <2>1, HandsStay
<1>3. Hands(A!OpenThinking(A!CloseText(g)), m, C)
  <2>1. Hands(A!CloseText(g), m, C)
    BY HandsStay
  <2> QED
    BY <2>1, HandsStay
<1>4. Hands(A!StreamText(g, data), m, C)
  <2>1. PICK h : h = A!OpenText(A!CloseThinking(g))
    OBVIOUS
  <2>2. Hands(A!Write(h, A!Event("content_block_delta", h.activeText, "text", data)), m, C)
    BY <1>1, <1>2, <2>1, HandsStay
  <2> QED
    BY <2>1, <2>2, Zenon DEF A!StreamText
<1>5. Hands(A!StreamThinking(g, data), m, C)
  <2>1. PICK h : h = A!OpenThinking(A!CloseText(g))
    OBVIOUS
  <2>2. Hands(A!Write(h, A!Event("content_block_delta", h.activeThinking, "thinking", data)), m, C)
    BY <1>1, <1>3, <2>1, HandsStay
  <2> QED
    BY <2>1, <2>2, Zenon DEF A!StreamThinking
<1> QED
  BY <1>4, <1>5

(* An event of a call opens a block with a new index, unless one is open,  *)
(* and closes it if it is the last.                                        *)
LEMMA ToolHands ==
  ASSUME NEW g, NEW m, NEW C, Hands(g, m, C), NEW c
  PROVE  \E i, n : /\ \A d \in C : d.index # i
                   /\ DOMAIN n = (DOMAIN m \union {c.id}) \ (IF c.done THEN {c.id} ELSE {})
                   /\ Hands(A!StreamTool(g, c), n,
                            IF c.id \in DOMAIN m THEN C ELSE C \union {Call(c.id, c.name, i)})
<1>1. PICK g1 : g1 = [g EXCEPT !.hasToolUse = TRUE] /\ Hands(g1, m, C)
  <2>1. PICK s, b, t, k, u : g = Rec(s, b, t, k, m, u) /\ Numbered(s, b, C)
    BY DEF Hands
  <2>2. PICK v : v = TRUE
    BY Zenon
  <2>3. [Rec(s, b, t, k, m, u) EXCEPT !.hasToolUse = v] = Rec(s, b, t, k, m, v)
    BY DEF Rec
  <2> QED
    BY <2>1, <2>2, <2>3, Zenon DEF Hands
<1>2. PICK g2 : g2 = A!CloseThinking(A!CloseText(g1)) /\ Hands(g2, m, C)
  <2>1. Hands(A!CloseText(g1), m, C)
    BY <1>1, HandsStay
  <2> QED
    BY <2>1, HandsStay
<1>3. PICK s, b, t, k, u : g2 = Rec(s, b, t, k, m, u) /\ Numbered(s, b, C)
  BY <1>2 DEF Hands
<1>4. PICK D : D = IF c.id \in DOMAIN m THEN C ELSE C \union {Call(c.id, c.name, b + 1)}
  OBVIOUS
<1>5. PICK g3, l : /\ g3 = A!OpenTool(g2, c) /\ Hands(g3, l, D)
                   /\ DOMAIN l = DOMAIN m \union {c.id}
  <2>1. PICK e, n : OpensTool(s, b, t, k, m, u, c, e, n)
    BY OpenToolEffect
  <2>2. CASE c.id \in DOMAIN m
    <3>1. A!OpenTool(g2, c) = Rec(s, b, t, k, m, u) /\ DOMAIN m = DOMAIN m \union {c.id}
      BY <1>3, <2>1, <2>2 DEF OpensTool
    <3>2. Hands(A!OpenTool(g2, c), m, D)
      BY <1>3, <1>4, <2>2, <3>1, Zenon DEF Hands
    <3> QED
      BY <3>1, <3>2
  <2>3. CASE c.id \notin DOMAIN m
    <3>1. A!OpenTool(g2, c) = Rec(Append(s, e), b + 1, t, k, n, u)
            /\ DOMAIN n = DOMAIN m \union {c.id}
      BY <1>3, <2>1, <2>3 DEF OpensTool
    <3>2. Numbered(Append(s, e), b + 1, D)
      <4>1. e = A!Event("content_block_start", b + 1, "tool_use", <<c.id, c.name>>)
        BY <2>1 DEF OpensTool
      <4> QED
        BY <1>3, <1>4, <2>3, <4>1, NumberedGrows, Zenon
    <3>3. Hands(A!OpenTool(g2, c), n, D)
      BY <3>1, <3>2, Zenon DEF Hands
    <3> QED
      BY <3>1, <3>3
  <2> QED
    BY <2>2, <2>3
<1>6. PICK g4 : g4 = A!ToolInput(g3, c) /\ Hands(g4, l, D)
  <2>1. CASE c.arguments = <<>>
    BY <1>5, <2>1, Zenon DEF A!ToolInput
  <2>2. CASE c.arguments # <<>>
    <3>1. PICK e : e = A!Event("content_block_delta", g3.toolBlocks[c.id], "tool_use", c.arguments)
      OBVIOUS
    <3>2. ~StartsTool(e)
      BY <3>1 DEF A!Event, StartsTool
    <3>3. Hands(A!Write(g3, e), l, D)
      BY <1>5, <3>2, HandsStay
    <3> QED
      BY <2>2, <3>1, <3>3, Zenon DEF A!ToolInput
  <2> QED
    BY <2>1, <2>2
<1>7. PICK n : /\ Hands(A!ToolStop(g4, c), n, D)
               /\ DOMAIN n = DOMAIN l \ (IF c.done THEN {c.id} ELSE {})
  <2>1. PICK s4, b4, t4, k4, u4 : g4 = Rec(s4, b4, t4, k4, l, u4) /\ Numbered(s4, b4, D)
    BY <1>6 DEF Hands
  <2>2. PICK e, n : StopsTool(s4, b4, t4, k4, l, u4, c, e, n)
    BY ToolStopEffect
  <2>3. CASE ~c.done
    <3>1. A!ToolStop(g4, c) = g4
      BY <2>3, Zenon DEF A!ToolStop
    <3> QED
      BY <1>6, <2>3, <3>1
  <2>4. CASE c.done
    <3>1. A!ToolStop(g4, c) = Rec(Append(s4, e), b4, t4, k4, n, u4)
            /\ DOMAIN n = DOMAIN l \ {c.id}
      BY <2>1, <2>2, <2>4 DEF StopsTool
    <3>2. ~StartsTool(e)
      BY <2>2 DEF StopsTool, A!Event, StartsTool
    <3>3. Numbered(Append(s4, e), b4, D)
      BY <2>1, <3>2, NumberedStays
    <3>4. Hands(A!ToolStop(g4, c), n, D)
      BY <3>1, <3>3, Zenon DEF Hands
    <3> QED
      BY <2>4, <3>1, <3>4
  <2> QED
    BY <2>3, <2>4
<1>8. A!StreamTool(g, c) = A!ToolStop(g4, c)
  BY <1>1, <1>2, <1>5, <1>6, Zenon DEF A!StreamTool
<1>9. \A d \in C : d.index # b + 1
  BY <1>3, NumberedGrows
<1>10. /\ Hands(A!StreamTool(g, c), n, D)
       /\ DOMAIN n = (DOMAIN m \union {c.id}) \ (IF c.done THEN {c.id} ELSE {})
  BY <1>5, <1>7, <1>8, Zenon
<1> QED
  BY <1>4, <1>9, <1>10, Zenon

(* However many events open no block of a call, they add none.             *)
LEMMA NumberedTail ==
  ASSUME NEW s, NEW b, NEW C, Numbered(s, b, C), NEW n \in Nat, NEW e,
         \A i \in 1..n : ~StartsTool(e[i])
  PROVE  Numbered(s \o [i \in 1..n |-> e[i]], b, C)
<1>1. PICK U : s \in Seq(U)
  BY DEF Numbered, IsSeq
<1>2. PICK V, c : V = U \union {e[i] : i \in 1..n} /\ c = [i \in 1..n |-> e[i]]
  OBVIOUS
<1>3. s \in Seq(V) /\ c \in Seq(V) /\ Len(c) = n /\ \A i \in 1..n : c[i] = e[i]
  <2>1. s \in Seq(V)
    BY <1>1, <1>2
  <2>2. c \in [1..n -> V]
    BY <1>2
  <2>3. c \in Seq(V) /\ Len(c) = n
    BY <2>2
  <2> QED
    BY <1>2, <2>1, <2>3
<1>4. PICK t : t = s \o c
  OBVIOUS
<1>5. PICK l \in Nat : l = Len(s)
  BY <1>1
<1>6. /\ t \in Seq(V) /\ DOMAIN s = 1..l /\ DOMAIN t = 1..(l + n)
      /\ \A i \in 1..l : t[i] = s[i]
      /\ \A i \in 1..n : t[l + i] = c[i]
  <2>1. t \in Seq(V) /\ Len(t) = l + n
    <3>1. s \o c \in Seq(V)
      BY <1>3
    <3>2. Len(s \o c) = Len(s) + Len(c)
      BY <1>3
    <3> QED
      BY <1>3, <1>4, <1>5, <3>1, <3>2
  <2>2. \A i \in 1..l : t[i] = s[i]
    BY <1>3, <1>4, <1>5
  <2>3. \A i \in 1..n : t[l + i] = c[i]
    BY <1>3, <1>4, <1>5
  <2>4. DOMAIN t = 1..Len(t) /\ DOMAIN s = 1..l
    BY <1>3, <1>5, <2>1
  <2> QED
    BY <2>1, <2>2, <2>3, <2>4
<1>7. ASSUME NEW q \in DOMAIN t, q \notin DOMAIN s PROVE ~StartsTool(t[q])
  <2>1. q - l \in 1..n /\ q = l + (q - l)
    BY <1>6, <1>7
  <2>2. t[q] = c[q - l]
    BY <1>6, <2>1
  <2> QED
    BY <1>3, <2>1, <2>2
<1>8. {q \in DOMAIN t : StartsTool(t[q])} = {q \in DOMAIN s : StartsTool(s[q])}
  <2>1. \A q \in DOMAIN s : q \in DOMAIN t /\ t[q] = s[q]
    BY <1>6
  <2> QED
    BY <1>7, <2>1
<1>9. BlockCalls(t) = BlockCalls(s)
  BY <1>6, <1>8 DEF BlockCalls
<1>10. IsSeq(t)
  BY <1>6 DEF IsSeq
<1> QED
  BY <1>2, <1>4, <1>9, <1>10 DEF Numbered

(* The end of the answer opens none.                                       *)
LEMMA EndHands ==
  ASSUME NEW g, NEW m, NEW C, Hands(g, m, C), IsFiniteSet(DOMAIN m),
         NEW ids \in SetToSeqs(DOMAIN g.toolBlocks), NEW tokens
  PROVE  Hands(A!StreamEnd(g, ids, tokens), m, C)
<1>1. PICK g1 : g1 = A!CloseBlocks(g) /\ Hands(g1, m, C)
  <2>1. Hands(A!CloseText(g), m, C)
    BY HandsStay
  <2>2. Hands(A!CloseThinking(A!CloseText(g)), m, C)
    BY <2>1, HandsStay
  <2> QED
    BY <2>2 DEF A!CloseBlocks
<1>2. Len(ids) \in Nat
  <2>1. g.toolBlocks = m
    BY RecParts DEF Hands
  <2> QED
    BY <2>1, SetToSeqsFacts
<1>3. PICK g2 : g2 = A!CloseTools(g1, ids) /\ Hands(g2, m, C)
  <2>1. PICK s, b, t, k, u : g1 = Rec(s, b, t, k, m, u) /\ Numbered(s, b, C)
    BY <1>1 DEF Hands
  <2>2. PICK e : e = [i \in 1..Len(ids) |->
                        A!Event("content_block_stop", g1.toolBlocks[ids[i]], "tool_use", <<>>)]
    OBVIOUS
  <2>3. \A i \in 1..Len(ids) : ~StartsTool(e[i])
    BY <2>2 DEF A!Event, StartsTool
  <2>4. [i \in 1..Len(ids) |-> e[i]] = e
    BY <2>2
  <2>5. PICK x : x = s \o e
    OBVIOUS
  <2>6. Numbered(x, b, C)
    <3>1. Numbered(s \o [i \in 1..Len(ids) |-> e[i]], b, C)
      BY <1>2, <2>1, <2>3, NumberedTail
    <3> QED
      BY <2>4, <2>5, <3>1, Zenon
  <2>7. [Rec(s, b, t, k, m, u) EXCEPT !.sent = x] = Rec(x, b, t, k, m, u)
    BY DEF Rec
  <2>8. g1.sent = s
    BY <2>1, RecParts
  <2>9. A!CloseTools(g1, ids) = [g1 EXCEPT !.sent = x]
    BY <2>2, <2>5, <2>8, Zenon DEF A!CloseTools
  <2>10. A!CloseTools(g1, ids) = Rec(x, b, t, k, m, u)
    BY <2>1, <2>7, <2>9, Zenon
  <2> QED
    BY <2>6, <2>10, Zenon DEF Hands
<1>4. \A type, i, kind : type # "content_block_start" => ~StartsTool(A!Event(type, i, kind, <<>>))
  BY DEF A!Event, StartsTool
<1>5. PICK d, e : /\ d = A!Event("message_delta", tokens, A!StopReason(g.hasToolUse), <<>>)
                  /\ e = A!Event("message_stop", -1, "none", <<>>)
  OBVIOUS
<1>6. Hands(A!Write(g2, d), m, C)
  BY <1>3, <1>4, <1>5, HandsStay
<1>7. Hands(A!Write(A!Write(g2, d), e), m, C)
  BY <1>4, <1>5, <1>6, HandsStay
<1>8. A!StreamEnd(g, ids, tokens) = A!Write(A!Write(g2, d), e)
  BY <1>1, <1>3, <1>5, Zenon DEF A!StreamEnd
<1> QED
  BY <1>7, <1>8

(* At the start there is none.                                             *)
LEMMA StartHands == Hands(A!StreamStart, <<>>, {})
<1>1. PICK e : e = A!Event("message_start", -1, "none", <<>>)
  OBVIOUS
<1>2. ~StartsTool(e)
  BY <1>1 DEF A!Event, StartsTool
<1>3. PICK v : v = FALSE
  BY Zenon
<1>4. PICK s : s = Append(<<>>, e)
  OBVIOUS
<1>5. s = <<e>>
  BY <1>4
<1>6. A!StreamStart = Rec(s, -1, -1, -1, <<>>, v)
  BY <1>1, <1>3, <1>5, Zenon DEF A!StreamStart, Rec
<1>7. Numbered(<<>>, -1, {})
  <2>1. IsSeq(<<>>) /\ DOMAIN <<>> = {}
    BY EmptySent
  <2>2. BlockCalls(<<>>) = {}
    BY <2>1 DEF BlockCalls
  <2> QED
    BY <2>1, <2>2 DEF Numbered
<1>8. Numbered(s, -1, {})
  BY <1>2, <1>4, <1>7, NumberedStays
<1> QED
  BY <1>6, <1>8, Zenon DEF Hands

-----------------------------------------------------------------------------
(* What the other formatters add to it.                                    *)

(* The variables of the OpenAI FormatStream, as a record.                  *)
Chk(s, x, n, u) == [sent |-> s, toolIndexes |-> x, nextToolIndex |-> n, hasToolCall |-> u]

(* The formatter has written chunks of the calls of C, and knows their     *)
(* indexes.                                                                *)
Counts(g, x, n, C) == \E s, u : g = Chk(s, x, n, u) /\ IsSeq(s) /\ ChunkCalls(s) = C

(* One chunk more.                                                         *)
LEMMA ChunkCallsAppend ==
  ASSUME NEW s, IsSeq(s), NEW e
  PROVE  /\ IsSeq(Append(s, e))
         /\ ~IsToolDelta(e) => ChunkCalls(Append(s, e)) = ChunkCalls(s)
         /\ IsToolDelta(e) => ChunkCalls(Append(s, e)) =
                                ChunkCalls(s) \union {Call(e.data.id, e.data.name, e.index)}
<1>1. PICK t : t = Append(s, e)
  OBVIOUS
<1>2. PICK n \in Nat : n = Len(s)
  BY AppendFacts
<1>3. /\ IsSeq(t) /\ DOMAIN t = DOMAIN s \union {n + 1} /\ t[n + 1] = e
      /\ \A i \in DOMAIN s : t[i] = s[i]
  BY <1>1, <1>2, AppendFacts
<1> DEFINE K(q) == Call(q.data.id, q.data.name, q.index)
           P == {q \in DOMAIN s : IsToolDelta(s[q])}
           Q == {q \in DOMAIN t : IsToolDelta(t[q])}
<1>4. ChunkCalls(t) = {K(t[i]) : i \in Q} /\ ChunkCalls(s) = {K(s[i]) : i \in P}
  BY Zenon DEF ChunkCalls
<1>5. (\A i \in P : K(t[i]) = K(s[i])) /\ K(t[n + 1]) = K(e)
  BY <1>3
<1>6. (~IsToolDelta(e) => Q = P) /\ (IsToolDelta(e) => Q = P \union {n + 1})
  BY <1>3
<1>7. IsToolDelta(e) => ChunkCalls(t) = ChunkCalls(s) \union {K(e)}
  <2> HIDE DEF K, P, Q
  <2> QED
    BY <1>4, <1>5, <1>6
<1>8. ~IsToolDelta(e) => ChunkCalls(t) = ChunkCalls(s)
  <2> HIDE DEF K, P, Q
  <2> QED
    BY <1>4, <1>5, <1>6
<1> QED
  BY <1>1, <1>3, <1>7, <1>8

(* Chunks that are not of a call.                                          *)
LEMMA CountsStay ==
  ASSUME NEW g, NEW x, NEW n, NEW C, Counts(g, x, n, C), NEW e, ~IsToolDelta(e)
  PROVE  Counts(O!Write(g, e), x, n, C)
<1>1. PICK s, u : g = Chk(s, x, n, u) /\ IsSeq(s) /\ ChunkCalls(s) = C
  BY DEF Counts
<1>2. O!Write(Chk(s, x, n, u), e) = Chk(Append(s, e), x, n, u)
  BY DEF O!Write, Chk
<1>3. IsSeq(Append(s, e)) /\ ChunkCalls(Append(s, e)) = C
  BY <1>1, ChunkCallsAppend
<1> QED
  BY <1>1, <1>2, <1>3, Zenon DEF Counts

(* Text, thinking and the end are told in such chunks.                     *)
LEMMA TextCounts ==
  ASSUME NEW g, NEW x, NEW n, NEW C, Counts(g, x, n, C), NEW data
  PROVE  /\ Counts(O!StreamText(g, data), x, n, C)
         /\ Counts(O!StreamThinking(g, data), x, n, C)
         /\ Counts(O!StreamEnd(g, data), x, n, C)
<1>1. \A type, i, kind, d :
        kind \in {"text", "thinking"} \/ type \notin {"delta", "content_block_delta"} =>
        ~IsToolDelta(O!Chunk(type, i, kind, d))
  BY DEF O!Chunk, IsToolDelta, IsDelta
<1>2. Counts(O!StreamText(g, data), x, n, C) /\ Counts(O!StreamThinking(g, data), x, n, C)
  BY <1>1, CountsStay DEF O!StreamText, O!StreamThinking
<1>3. PICK d, e : /\ d = O!Chunk("finish", data, O!FinishReason(g.hasToolCall), <<>>)
                  /\ e = O!Chunk("[DONE]", -1, "none", <<>>)
  OBVIOUS
<1>4. Counts(O!Write(g, d), x, n, C)
  BY <1>1, <1>3, CountsStay
<1>5. Counts(O!Write(O!Write(g, d), e), x, n, C)
  BY <1>1, <1>3, <1>4, CountsStay
<1>6. O!StreamEnd(g, data) = O!Write(O!Write(g, d), e)
  BY <1>3, Zenon DEF O!StreamEnd
<1> QED
  BY <1>2, <1>5, <1>6

(* An event of a call is a chunk with its index.                           *)
LEMMA ToolCounts ==
  ASSUME NEW g, NEW x, NEW n, NEW C, Counts(g, x, n, C), NEW c
  PROVE  \E y, m : /\ Indexed(x, n, c.id, y, m)
                   /\ Counts(O!StreamTool(g, c), y, m, C \union {Call(c.id, c.name, y[c.id])})
<1>1. PICK s, u : g = Chk(s, x, n, u) /\ IsSeq(s) /\ ChunkCalls(s) = C
  BY DEF Counts
<1>2. PICK v : v = TRUE
  BY Zenon
<1>3. PICK y, m, z : /\ z = [id \in DOMAIN x \union {c.id} |-> IF id = c.id THEN n ELSE x[id]]
                     /\ y = IF c.id \in DOMAIN x THEN x ELSE z
                     /\ m = IF c.id \in DOMAIN x THEN n ELSE n + 1
  OBVIOUS
<1>4. PICK g1 : g1 = [g EXCEPT !.hasToolCall = TRUE] /\ g1 = Chk(s, x, n, v)
  <2>1. [Chk(s, x, n, u) EXCEPT !.hasToolCall = v] = Chk(s, x, n, v)
    BY DEF Chk
  <2> QED
    BY <1>1, <1>2, <2>1, Zenon
<1>5. g1.toolIndexes = x /\ g1.nextToolIndex = n
  BY <1>4 DEF Chk
<1>6. O!IndexTool(g1, c.id) = Chk(s, y, m, v)
  <2>1. CASE c.id \in DOMAIN x
    BY <1>3, <1>4, <1>5, <2>1, Zenon DEF O!IndexTool
  <2>2. CASE c.id \notin DOMAIN x
    <3>1. PICK l, q, r : l = n + 1 /\ q = Chk(s, x, l, v) /\ r = Chk(s, z, l, v)
      OBVIOUS
    <3>2. [g1 EXCEPT !.nextToolIndex = l] = q
      <4>1. [Chk(s, x, n, v) EXCEPT !.nextToolIndex = l] = Chk(s, x, l, v)
        BY DEF Chk
      <4> QED
        BY <1>4, <3>1, <4>1, Zenon
    <3>3. q.toolIndexes = x /\ [q EXCEPT !.toolIndexes = z] = r
      BY <3>1 DEF Chk
    <3>4. g1.nextToolIndex + 1 = l
      BY <1>5, <3>1
    <3>5. [[g1 EXCEPT !.nextToolIndex = g1.nextToolIndex + 1]
            EXCEPT !.toolIndexes = [y1 \in DOMAIN @ \union {c.id} |->
                                      IF y1 = c.id THEN n ELSE @[y1]]] = r
      BY <1>3, <3>2, <3>3, <3>4, Zenon
    <3>6. O!IndexTool(g1, c.id) = r
      BY <1>5, <2>2, <3>5, Zenon DEF O!IndexTool
    <3> QED
      BY <1>3, <2>2, <3>1, <3>6, Zenon
  <2> QED
    BY <2>1, <2>2
<1>7. PICK d : d = [id |-> c.id, name |-> c.name, arguments |-> c.arguments]
  OBVIOUS
<1>8. PICK e : e = O!Chunk("delta", y[c.id], "tool_use", d)
  OBVIOUS
<1>9. IsToolDelta(e) /\ e.index = y[c.id] /\ e.data = d /\ d.id = c.id /\ d.name = c.name
  BY <1>7, <1>8 DEF O!Chunk, IsDelta, IsToolDelta
<1>10. IsSeq(Append(s, e)) /\ ChunkCalls(Append(s, e)) = C \union {Call(c.id, c.name, y[c.id])}
  <2>1. Call(e.data.id, e.data.name, e.index) = Call(c.id, c.name, y[c.id])
    BY <1>9, Zenon
  <2> QED
    BY <1>1, <1>9, <2>1, ChunkCallsAppend
<1>11. O!StreamTool(g, c) = Chk(Append(s, e), y, m, v)
  <2>1. Chk(s, y, m, v).toolIndexes = y /\ O!Write(Chk(s, y, m, v), e) = Chk(Append(s, e), y, m, v)
    BY DEF Chk, O!Write
  <2> QED
    BY <1>4, <1>6, <1>7, <1>8, <2>1, Zenon DEF O!StreamTool
<1>12. Counts(O!StreamTool(g, c), y, m, C \union {Call(c.id, c.name, y[c.id])})
  BY <1>10, <1>11, Zenon DEF Counts
<1>13. Indexed(x, n, c.id, y, m)
  BY <1>3, Zenon DEF Indexed
<1> QED
  BY <1>12, <1>13, Zenon

(* At the start there is none.                                             *)
LEMMA StartCounts == Counts(O!StreamStart, <<>>, 0, {})
<1>1. PICK e : e = O!Chunk("role", -1, "none", <<>>)
  OBVIOUS
<1>2. ~IsToolDelta(e)
  BY <1>1 DEF O!Chunk, IsToolDelta, IsDelta
<1>3. PICK v : v = FALSE
  BY Zenon
<1>4. PICK s : s = Append(<<>>, e)
  OBVIOUS
<1>5. s = <<e>>
  BY <1>4
<1>6. O!StreamStart = Chk(s, <<>>, 0, v)
  BY <1>1, <1>3, <1>5, Zenon DEF O!StreamStart, Chk
<1>7. IsSeq(<<>>) /\ ChunkCalls(<<>>) = {}
  BY EmptySent DEF ChunkCalls
<1>8. IsSeq(s) /\ ChunkCalls(s) = {}
  BY <1>2, <1>4, <1>7, ChunkCallsAppend
<1> QED
  BY <1>6, <1>8, Zenon DEF Counts

-----------------------------------------------------------------------------
(* The variables of both FormatJSON, as a record.                          *)
Msg(s, t, k, o, m) == [sent |-> s, text |-> t, thinking |-> k, order |-> o, tools |-> m]

(* One of them is set.                                                     *)
LEMMA MsgWith ==
  ASSUME NEW s, NEW t, NEW k, NEW o, NEW m, NEW x
  PROVE  /\ [Msg(s, t, k, o, m) EXCEPT !.sent = x] = Msg(x, t, k, o, m)
         /\ [Msg(s, t, k, o, m) EXCEPT !.text = x] = Msg(s, x, k, o, m)
         /\ [Msg(s, t, k, o, m) EXCEPT !.thinking = x] = Msg(s, t, x, o, m)
<1>1. [Msg(s, t, k, o, m) EXCEPT !.sent = x] = Msg(x, t, k, o, m)
  BY DEF Msg
<1>2. [Msg(s, t, k, o, m) EXCEPT !.text = x] = Msg(s, x, k, o, m)
  BY DEF Msg
<1>3. [Msg(s, t, k, o, m) EXCEPT !.thinking = x] = Msg(s, t, x, o, m)
  BY DEF Msg
<1> QED
  BY <1>1, <1>2, <1>3

(* The message has these calls, in this order.                             *)
Orders(g, o, m) == \E s, t, k : g = Msg(s, t, k, o, m)

(* Text, thinking and the end change none of them.                         *)
LEMMA TextOrders ==
  ASSUME NEW g, NEW o, NEW m, Orders(g, o, m), NEW data
  PROVE  /\ Orders(A!JsonText(g, data), o, m) /\ Orders(A!JsonThinking(g, data), o, m)
         /\ Orders(O!JsonText(g, data), o, m) /\ Orders(O!JsonThinking(g, data), o, m)
         /\ Orders(A!JsonEnd(g, data), o, m) /\ Orders(O!JsonEnd(g, data), o, m)
<1>1. PICK s, t, k : g = Msg(s, t, k, o, m)
  BY DEF Orders
<1>2. g.text = t /\ g.thinking = k /\ g.sent = s
  BY <1>1 DEF Msg
<1>3. ASSUME NEW x
      PROVE  /\ Orders([g EXCEPT !.text = x], o, m) /\ Orders([g EXCEPT !.thinking = x], o, m)
             /\ Orders([g EXCEPT !.sent = x], o, m)
  <2>1. /\ [Msg(s, t, k, o, m) EXCEPT !.sent = x] = Msg(x, t, k, o, m)
        /\ [Msg(s, t, k, o, m) EXCEPT !.text = x] = Msg(s, x, k, o, m)
        /\ [Msg(s, t, k, o, m) EXCEPT !.thinking = x] = Msg(s, t, x, o, m)
    BY MsgWith
  <2> QED
    BY <1>1, <2>1, Zenon DEF Orders
<1>4. \A x : /\ Orders([g EXCEPT !.text = @ \o x], o, m)
            /\ Orders([g EXCEPT !.thinking = @ \o x], o, m)
  BY <1>3, Zenon
<1>5. \A x : Orders([g EXCEPT !.sent = Append(@, x)], o, m)
  BY <1>3, Zenon
<1> QED
  BY <1>4, <1>5, Zenon DEF A!JsonText, A!JsonThinking, O!JsonText, O!JsonThinking,
       A!JsonEnd, O!JsonEnd, A!Write, O!Write

(* An event of a call gives it a place and a name.                         *)
LEMMA ToolOrders ==
  ASSUME NEW g, NEW o, NEW m, Orders(g, o, m), NEW c,
         NEW p, p = IF c.id \in DOMAIN m THEN o ELSE Append(o, c.id)
  PROVE  \E args : /\ Orders(A!JsonTool(g, c), p, CallsAfter(c, m, NameAfter(c, m, TRUE), args))
                   /\ Orders(O!JsonTool(g, c), p, CallsAfter(c, m, NameAfter(c, m, FALSE), args))
<1>1. PICK s, t, k : g = Msg(s, t, k, o, m)
  BY DEF Orders
<1>2. PICK q : q = Msg(s, t, k, p, m)
  OBVIOUS
<1>3. g.order = o /\ g.tools = m /\ q.tools = m
  BY <1>1, <1>2 DEF Msg
<1>4. [g EXCEPT !.order = p] = q
  <2>1. [Msg(s, t, k, o, m) EXCEPT !.order = p] = Msg(s, t, k, p, m)
    BY SMTT(60) DEF Msg
  <2> QED
    BY <1>1, <1>2, <2>1, Zenon
<1>5. ASSUME NEW n PROVE Orders([q EXCEPT !.tools = n], p, n)
  <2>1. [Msg(s, t, k, p, m) EXCEPT !.tools = n] = Msg(s, t, k, p, n)
    BY DEF Msg
  <2> QED
    BY <1>2, <2>1, Zenon DEF Orders
<1>6. PICK old, args : /\ old = IF c.id \in DOMAIN m THEN m[c.id].arguments ELSE <<>>
                       /\ args = old \o c.arguments
  OBVIOUS
<1>7. PICK n : n = CallsAfter(c, m, NameAfter(c, m, TRUE), args)
  OBVIOUS
<1>8. A!JsonTool(g, c) = [q EXCEPT !.tools = n]
  <2>1. n = [id \in DOMAIN m \union {c.id} |->
               IF id = c.id THEN [name |-> c.name, arguments |-> old \o c.arguments] ELSE m[id]]
    BY <1>6, <1>7 DEF CallsAfter, NameAfter
  <2>2. PICK r : r = IF c.id \in DOMAIN g.tools THEN g.order ELSE Append(g.order, c.id)
    OBVIOUS
  <2>3. r = p /\ [g EXCEPT !.order = r] = q
    BY <1>3, <1>4, <2>2
  <2> QED
    BY <1>3, <1>6, <2>1, <2>2, <2>3, Zenon DEF A!JsonTool
<1>9. PICK l : l = CallsAfter(c, m, NameAfter(c, m, FALSE), args)
  OBVIOUS
<1>10. O!JsonTool(g, c) = [q EXCEPT !.tools = l]
  <2>1. PICK acc : acc = IF c.id \in DOMAIN m THEN m[c.id]
                         ELSE [name |-> c.name, arguments |-> <<>>]
    OBVIOUS
  <2>2. acc.arguments = old /\ NameAfter(c, m, FALSE) = IF c.name = NoName THEN acc.name ELSE c.name
    BY <1>6, <2>1 DEF NameAfter
  <2>3. l = [id \in DOMAIN m \union {c.id} |->
               IF id = c.id THEN [name |-> IF c.name = NoName THEN acc.name ELSE c.name,
                                  arguments |-> acc.arguments \o c.arguments] ELSE m[id]]
    BY <1>6, <1>9, <2>2, Zenon DEF CallsAfter
  <2>4. PICK r : r = IF c.id \in DOMAIN g.tools THEN g.order ELSE Append(g.order, c.id)
    OBVIOUS
  <2>5. r = p /\ [g EXCEPT !.order = r] = q
    BY <1>3, <1>4, <2>4
  <2> QED
    BY <1>3, <2>1, <2>3, <2>4, <2>5, Zenon DEF O!JsonTool
<1> QED
  BY <1>5, <1>7, <1>8, <1>9, <1>10, Zenon

(* At the start there is none.                                             *)
LEMMA StartOrders == Orders(A!JsonStart, <<>>, <<>>) /\ Orders(O!JsonStart, <<>>, <<>>)
  BY Zenon DEF A!JsonStart, O!JsonStart, Orders, Msg

-----------------------------------------------------------------------------
(* What a client can tell of the calls, in the form that it asked for.     *)

(* The formatter g has told of the calls what the history h has.           *)
Tale(g, h) ==
  /\ IsBlockStream => \E m, C : Hands(g, m, C) /\ BlockTale(C, DOMAIN m, h)
  /\ format # "anthropic" /\ streaming =>
       \E x, n, C : Counts(g, x, n, C) /\ ChunkTale(C, x, n, h)
  /\ ~streaming => \E o, m : Orders(g, o, m) /\ MessageTale(o, m, h)

(* The history of nothing.                                                 *)
LEMMA NoHistory ==
  ASSUME NEW h, h = History(<<>>)
  PROVE  h.ids = {} /\ h.ended = {} /\ h.resumed = {} /\ h.first = {} /\ h.last = {}
<1>1. DOMAIN <<>> = {}
  OBVIOUS
<1>2. IdsIn(<<>>) = {}
  BY <1>1 DEF IdsIn
<1> QED
  BY <1>2 DEF History

(* At the start there is nothing to tell.                                  *)
LEMMA StartTale ==
  ASSUME format \in {"anthropic", "openai"}
  PROVE  Tale(Start, History(<<>>))
<1>1. PICK h : h = History(<<>>)
  OBVIOUS
<1>2. h.ids = {} /\ h.ended = {} /\ h.resumed = {} /\ h.first = {} /\ h.last = {}
  BY <1>1, NoHistory
<1>3. DOMAIN <<>> = {} /\ IsSeq(<<>>)
  BY EmptySent
<1>4. BlockTale({}, DOMAIN <<>>, h)
  BY <1>2, <1>3 DEF BlockTale, Given, Titled
<1>5. ChunkTale({}, <<>>, 0, h)
  BY <1>2, <1>3 DEF ChunkTale, Given, Titled
<1>6. MessageTale(<<>>, <<>>, h)
  BY <1>2, <1>3 DEF MessageTale
<1>7. CASE format = "anthropic" /\ streaming
  <2>1. Start = A!StreamStart
    BY <1>7, Zenon DEF Start
  <2> QED
    BY <1>1, <1>4, <1>7, <2>1, StartHands, Zenon DEF Tale
<1>8. CASE format = "openai" /\ streaming
  <2>1. Start = O!StreamStart /\ format # "anthropic"
    BY <1>8 DEF Start
  <2> QED
    BY <1>1, <1>5, <1>8, <2>1, StartCounts, Zenon DEF Tale, IsBlockStream
<1>9. CASE ~streaming
  <2>1. Start = A!JsonStart \/ Start = O!JsonStart
    BY <1>9, Zenon DEF Start
  <2> QED
    BY <1>1, <1>6, <1>9, <2>1, StartOrders, Zenon DEF Tale, IsBlockStream
<1> QED
  BY <1>7, <1>8, <1>9

(* Text and thinking do not tell of calls.                                 *)
LEMMA TextTale ==
  ASSUME format \in {"anthropic", "openai"}, NEW h, Tale(f, h), NEW data
  PROVE  Tale(Text(data), h) /\ Tale(Thinking(data), h)
<1>1. CASE format = "anthropic" /\ streaming
  <2>1. Text(data) = A!StreamText(f, data) /\ Thinking(data) = A!StreamThinking(f, data)
    BY <1>1, FormsOf DEF IsBlockStream
  <2>2. PICK m, C : Hands(f, m, C) /\ BlockTale(C, DOMAIN m, h)
    BY <1>1 DEF Tale, IsBlockStream
  <2>3. Hands(Text(data), m, C) /\ Hands(Thinking(data), m, C)
    BY <2>1, <2>2, TextHands
  <2> QED
    BY <1>1, <2>2, <2>3, Zenon DEF Tale
<1>2. CASE format = "openai" /\ streaming
  <2>1. /\ Text(data) = O!StreamText(f, data) /\ Thinking(data) = O!StreamThinking(f, data)
        /\ format # "anthropic"
    BY <1>2, FormsOf
  <2>2. PICK x, n, C : Counts(f, x, n, C) /\ ChunkTale(C, x, n, h)
    BY <1>2, <2>1 DEF Tale
  <2>3. Counts(Text(data), x, n, C) /\ Counts(Thinking(data), x, n, C)
    BY <2>1, <2>2, TextCounts
  <2> QED
    BY <1>2, <2>1, <2>2, <2>3, Zenon DEF Tale, IsBlockStream
<1>3. CASE ~streaming
  <2>1. /\ Text(data) = A!JsonText(f, data) \/ Text(data) = O!JsonText(f, data)
        /\ Thinking(data) = A!JsonThinking(f, data) \/ Thinking(data) = O!JsonThinking(f, data)
    BY <1>3, FormsOf
  <2>2. PICK o, m : Orders(f, o, m) /\ MessageTale(o, m, h)
    BY <1>3 DEF Tale
  <2>3. Orders(Text(data), o, m) /\ Orders(Thinking(data), o, m)
    BY <2>1, <2>2, TextOrders
  <2> QED
    BY <1>3, <2>2, <2>3, Zenon DEF Tale, IsBlockStream
<1> QED
  BY <1>1, <1>2, <1>3

(* An event of a call is told.                                             *)
LEMMA ToolTale ==
  ASSUME format \in {"anthropic", "openai"}, NEW h, Tale(f, h), NEW c, NEW g, Gains(h, g, c)
  PROVE  Tale(Tool(c), g)
<1>1. CASE format = "anthropic" /\ streaming
  <2>1. Tool(c) = A!StreamTool(f, c)
    BY <1>1, FormsOf DEF IsBlockStream
  <2>2. PICK m, C : Hands(f, m, C) /\ BlockTale(C, DOMAIN m, h)
    BY <1>1 DEF Tale, IsBlockStream
  <2>3. PICK i, n : /\ \A d \in C : d.index # i
                    /\ DOMAIN n = (DOMAIN m \union {c.id}) \ (IF c.done THEN {c.id} ELSE {})
                    /\ Hands(A!StreamTool(f, c), n,
                             IF c.id \in DOMAIN m THEN C ELSE C \union {Call(c.id, c.name, i)})
    BY <2>2, ToolHands, Zenon
  <2>4. BlockTale(IF c.id \in DOMAIN m THEN C ELSE C \union {Call(c.id, c.name, i)}, DOMAIN n, g)
    BY <2>2, <2>3, BlockTaleGrows
  <2> QED
    BY <1>1, <2>1, <2>3, <2>4, Zenon DEF Tale
<1>2. CASE format = "openai" /\ streaming
  <2>1. Tool(c) = O!StreamTool(f, c) /\ format # "anthropic"
    BY <1>2, FormsOf
  <2>2. PICK x, n, C : Counts(f, x, n, C) /\ ChunkTale(C, x, n, h)
    BY <1>2, <2>1 DEF Tale
  <2>3. PICK y, m : /\ Indexed(x, n, c.id, y, m)
                    /\ Counts(O!StreamTool(f, c), y, m, C \union {Call(c.id, c.name, y[c.id])})
    BY <2>2, ToolCounts, Zenon
  <2>4. ChunkTale(C \union {Call(c.id, c.name, y[c.id])}, y, m, g)
    BY <2>2, <2>3, ChunkTaleGrows
  <2> QED
    BY <1>2, <2>1, <2>3, <2>4, Zenon DEF Tale, IsBlockStream
<1>3. CASE ~streaming
  <2>1. Tool(c) = IF format = "anthropic" THEN A!JsonTool(f, c) ELSE O!JsonTool(f, c)
    BY <1>3, FormsOf
  <2>2. PICK o, m : Orders(f, o, m) /\ MessageTale(o, m, h)
    BY <1>3 DEF Tale
  <2>3. PICK p : p = IF c.id \in DOMAIN m THEN o ELSE Append(o, c.id)
    OBVIOUS
  <2>4. PICK args : /\ Orders(A!JsonTool(f, c), p, CallsAfter(c, m, NameAfter(c, m, TRUE), args))
                    /\ Orders(O!JsonTool(f, c), p, CallsAfter(c, m, NameAfter(c, m, FALSE), args))
    BY <2>2, <2>3, ToolOrders
  <2>5. PICK n : n = CallsAfter(c, m, NameAfter(c, m, format = "anthropic"), args)
    OBVIOUS
  <2>6. Orders(Tool(c), p, n)
    <3>1. CASE format = "anthropic"
      <4>1. NameAfter(c, m, format = "anthropic") = NameAfter(c, m, TRUE)
        BY <3>1, Zenon DEF NameAfter
      <4> QED
        BY <2>1, <2>4, <2>5, <3>1, <4>1, Zenon
    <3>2. CASE format # "anthropic"
      <4>1. NameAfter(c, m, format = "anthropic") = NameAfter(c, m, FALSE)
        BY <3>2, Zenon DEF NameAfter
      <4> QED
        BY <2>1, <2>4, <2>5, <3>2, <4>1, Zenon
    <3> QED
      BY <3>1, <3>2
  <2>7. MessageTale(p, n, g)
    BY <2>2, <2>3, <2>5, MessageTaleGrows
  <2> QED
    BY <1>3, <2>6, <2>7, Zenon DEF Tale, IsBlockStream
<1> QED
  BY <1>1, <1>2, <1>3

(* The end of the answer tells of no more.                                 *)
LEMMA EndTale ==
  ASSUME PathInv, pc \in Writing, NEW h, Tale(f, h), NEW g \in Ends
  PROVE  Tale(g, h)
<1>1. format \in {"anthropic", "openai"}
  BY DEF PathInv, Routed
<1>2. CASE format = "anthropic" /\ streaming
  <2>1. PICK ids \in SetToSeqs(DOMAIN f.toolBlocks) : g = A!StreamEnd(f, ids, usage)
    <3>1. Ends = {A!StreamEnd(f, ids, usage) : ids \in SetToSeqs(DOMAIN f.toolBlocks)}
      BY <1>2, Zenon DEF Ends
    <3> QED
      BY <3>1
  <2>2. PICK m, C : Hands(f, m, C) /\ BlockTale(C, DOMAIN m, h)
    BY <1>2 DEF Tale, IsBlockStream
  <2>3. IsFiniteSet(DOMAIN m)
    <3>1. PICK ids2 : Blocks(f, ids2)
      BY <1>2 DEF PathInv, Written, Forming, IsBlockStream
    <3>2. PICK s, b, t, k, m2, u : f = Rec(s, b, t, k, m2, u) /\ Shape(s, b, t, k, m2)
      BY <3>1 DEF Blocks
    <3>3. m = m2
      <4>1. f.toolBlocks = m
        BY <2>2, RecParts DEF Hands
      <4>2. f.toolBlocks = m2
        BY <3>2, RecParts
      <4> QED
        BY <4>1, <4>2
    <3> QED
      BY <3>2, <3>3 DEF Shape
  <2>4. Hands(g, m, C)
    BY <2>1, <2>2, <2>3, EndHands
  <2> QED
    BY <1>2, <2>2, <2>4, Zenon DEF Tale
<1>3. CASE format = "openai" /\ streaming
  <2>1. g = O!StreamEnd(f, usage) /\ format # "anthropic"
    BY <1>3, FormsOf
  <2>2. PICK x, n, C : Counts(f, x, n, C) /\ ChunkTale(C, x, n, h)
    BY <1>3, <2>1 DEF Tale
  <2>3. Counts(g, x, n, C)
    BY <2>1, <2>2, TextCounts
  <2> QED
    BY <1>3, <2>1, <2>2, <2>3, Zenon DEF Tale, IsBlockStream
<1>4. CASE ~streaming
  <2>1. g = A!JsonEnd(f, usage) \/ g = O!JsonEnd(f, usage)
    BY <1>1, <1>4, FormsOf
  <2>2. PICK o, m : Orders(f, o, m) /\ MessageTale(o, m, h)
    BY <1>4 DEF Tale
  <2>3. Orders(g, o, m)
    BY <2>1, <2>2, TextOrders
  <2> QED
    BY <1>4, <2>2, <2>3, Zenon DEF Tale, IsBlockStream
<1> QED
  BY <1>1, <1>2, <1>3, <1>4

-----------------------------------------------------------------------------
(* The invariant of the calls.                                             *)

(* The client has been told of the calls all that has been received.       *)
TaleInv == Lively => Tale(f, History(received))

(* What is to be shown of a step.                                          *)
LEMMA TaleStep ==
  ASSUME UNCHANGED requestVars, Lively' => Tale(f', History(received'))
  PROVE  TaleInv'
<1>1. format' = format /\ streaming' = streaming /\ (IsBlockStream' <=> IsBlockStream)
  BY DEF IsBlockStream, requestVars
<1>2. ASSUME NEW o, NEW m, NEW h PROVE MessageTale(o, m, h)' <=> MessageTale(o, m, h)
  BY <1>1, Zenon DEF MessageTale
<1>3. Tale(f', History(received')) => Tale(f, History(received))'
  BY <1>1, <1>2, Zenon DEF Tale
<1> QED
  BY <1>3 DEF TaleInv

(* A request that has failed has nothing to tell.                          *)
LEMMA FailedTale ==
  ASSUME UNCHANGED requestVars, pc' = "failed"
  PROVE  TaleInv'
<1>1. ~Lively'
  BY Places DEF Lively
<1> QED
  BY <1>1, TaleStep

(* The start.                                                              *)
LEMMA BeginTale ==
  ASSUME PathInv, AnswerInv, Begin
  PROVE  TaleInv'
<1>1. /\ pc = "start" /\ UNCHANGED requestVars /\ received' = <<>>
      /\ f' = Start \/ pc' = "failed"
  BY Zenon DEF Begin, Fails, AnswerInv, upstreamVars
<1>2. Tale(Start, History(<<>>))
  BY StartTale DEF PathInv, Routed
<1>3. CASE f' = Start
  <2>1. Tale(f', History(received'))
    BY <1>1, <1>2, <1>3, Zenon
  <2> QED
    BY <1>1, <2>1, TaleStep
<1> QED
  BY <1>1, <1>3, FailedTale

(* A frame is read.                                                        *)
LEMMA ReadTale ==
  ASSUME PathInv, TaleInv, NEW frame \in Frames, ReadFrame(frame)
  PROVE  TaleInv'
<1>1. PICK e : e = S!Decode(frame)
  OBVIOUS
<1>2. /\ pc = "next" /\ received' = Append(received, frame) /\ Handle(e)
      /\ UNCHANGED requestVars
  BY <1>1 DEF ReadFrame
<1>3. /\ e.type = "tool_call" <=> frame.type = "toolUseEvent"
      /\ e.type = "tool_call" => e.call = frame.call
  BY <1>1, DecodeMeans
<1>4. IsSeq(received)
  BY DEF PathInv, Heard, IsSeq
<1>5. PICK h, g : h = History(received) /\ g = History(received')
  OBVIOUS
<1>6. Tale(f, h)
  BY <1>2, <1>5, Places DEF TaleInv, Lively
<1>7. format \in {"anthropic", "openai"}
      /\ \A data : Sound(Thinking(data)) /\ Sound(Tool(data))
  BY <1>2, Places, SoundNext
<1>8. e.type # "tool_call" => g = h
  BY <1>2, <1>3, <1>4, <1>5, HistoryStays, Zenon
<1>9. ASSUME Tale(f', g) PROVE TaleInv'
  BY <1>2, <1>5, <1>9, TaleStep
<1>10. CASE e.type # "tool_call" /\ f' = f
  <2>1. Tale(f', g)
    BY <1>6, <1>8, <1>10, Zenon
  <2> QED
    BY <1>9, <2>1
<1>11. CASE e.type = "reasoning" /\ Writes(Thinking(e.text), "next")
  <2>1. Tale(Thinking(e.text), h)
    BY <1>6, <1>7, TextTale
  <2>2. f' = Thinking(e.text) \/ pc' = "failed"
    BY <1>2, <1>7, <1>11, WrittenOn, Zenon
  <2>3. CASE f' = Thinking(e.text)
    <3>1. Tale(f', g)
      BY <1>8, <1>11, <2>1, <2>3, Zenon
    <3> QED
      BY <1>9, <3>1
  <2> QED
    BY <1>2, <2>2, <2>3, FailedTale
<1>12. CASE e.type = "tool_call" /\ Writes(Tool(e.call), "next")
  <2>1. Gains(h, g, e.call)
    BY <1>2, <1>3, <1>4, <1>5, <1>12, HistoryGrows, Zenon
  <2>2. Tale(Tool(e.call), g)
    BY <1>6, <1>7, <2>1, ToolTale
  <2>3. f' = Tool(e.call) \/ pc' = "failed"
    BY <1>2, <1>7, <1>12, WrittenOn, Zenon
  <2>4. CASE f' = Tool(e.call)
    <3>1. Tale(f', g)
      BY <2>2, <2>4, Zenon
    <3> QED
      BY <1>9, <3>1
  <2> QED
    BY <1>2, <2>3, <2>4, FailedTale
<1>13. CASE pc' = "failed"
  BY <1>2, <1>13, FailedTale
<1>14. \/ e.type # "tool_call" /\ f' = f
       \/ e.type = "reasoning" /\ Writes(Thinking(e.text), "next")
       \/ e.type = "tool_call" /\ Writes(Tool(e.call), "next")
       \/ pc' = "failed"
  BY <1>2 DEF Handle, clientVars, Fails
<1> QED
  BY <1>10, <1>11, <1>12, <1>13, <1>14

(* A segment of the splitter.                                              *)
LEMMA EmitTale ==
  ASSUME PathInv, TaleInv, pc \in Writing, NEW data, NEW next, Emit(data, next),
         UNCHANGED requestVars, received' = received
  PROVE  TaleInv'
<1>1. PICK h : h = History(received) /\ h = History(received')
  OBVIOUS
<1>2. Tale(f, h)
  BY <1>1 DEF TaleInv, Lively
<1>3. /\ format \in {"anthropic", "openai"}
      /\ Sound(Thinking(data)) /\ Sound(Text(data))
  BY SoundNext
<1>4. Tale(Text(data), h) /\ Tale(Thinking(data), h)
  BY <1>2, <1>3, TextTale
<1>5. \/ f' = f
      \/ Writes(Thinking(data), next) \/ Writes(Text(data), next)
  BY Zenon DEF Emit, clientVars
<1>6. f' \in {f, Thinking(data), Text(data)} \/ pc' = "failed"
  BY <1>3, <1>5, WrittenOn, Zenon
<1>7. CASE f' \in {f, Thinking(data), Text(data)}
  <2>1. Tale(f', h)
    BY <1>2, <1>4, <1>7, Zenon
  <2>2. Tale(f', History(received'))
    BY <1>1, <2>1, Zenon
  <2> QED
    BY <2>2, TaleStep
<1> QED
  BY <1>6, <1>7, FailedTale

(* The end is written.                                                     *)
LEMMA EndsTale ==
  ASSUME PathInv, TaleInv, End
  PROVE  TaleInv'
<1>1. PICK g \in Ends : Writes(g, "close")
  BY Zenon DEF End
<1>2. pc = "end" /\ UNCHANGED requestVars /\ received' = received
  BY DEF End, upstreamVars
<1>3. pc \in Writing
  BY <1>2, Places
<1>4. PICK h : h = History(received) /\ h = History(received')
  BY <1>2
<1>5. Tale(f, h)
  BY <1>3, <1>4 DEF TaleInv, Lively
<1>6. Tale(g, h) /\ Sound(g)
  BY <1>3, <1>5, EndTale, SoundNext
<1>7. f' = g \/ pc' = "failed"
  BY <1>1, <1>2, <1>6, WrittenOn, Zenon
<1>8. CASE f' = g
  <2>1. Tale(f', History(received'))
    BY <1>4, <1>6, <1>8, Zenon
  <2> QED
    BY <1>2, <2>1, TaleStep
<1> QED
  BY <1>2, <1>7, <1>8, FailedTale

(* A step that reads no frame and writes nothing.                          *)
LEMMA QuietTale ==
  ASSUME TaleInv, UNCHANGED requestVars, f' = f, received' = received, Lively' => Lively
  PROVE  TaleInv'
<1>1. Lively' => Tale(f', History(received'))
  BY Zenon DEF TaleInv
<1> QED
  BY <1>1, TaleStep

(* The invariant of the calls is inductive.                                *)
LEMMA TaleNext == PathInv /\ AnswerInv /\ TaleInv /\ [Next]_vars => TaleInv'
<1> SUFFICES ASSUME PathInv, AnswerInv, TaleInv, [Next]_vars PROVE TaleInv'
  OBVIOUS
<1>1. CASE Begin
  BY <1>1, BeginTale
<1>2. CASE \E frame \in Frames : ReadFrame(frame)
  BY <1>2, ReadTale
<1>3. CASE \E available \in {0, 7, 12, 14, 20}, totalLength \in {8, 20},
        headersLength \in {0, 8} :
             EndOfStream(available, totalLength, headersLength)
  <2>1. /\ pc = "next" /\ UNCHANGED requestVars /\ f' = f /\ received' = received
    BY <1>3, Zenon DEF EndOfStream, clientVars
  <2>2. Lively
    BY <2>1, Places DEF Lively
  <2> QED
    BY <2>1, <2>2, QuietTale
<1>4. CASE SplitAtTag
  <2>1. PICK i \in 1..Len(buffer) : Emit(SubSeq(buffer, 1, i - 1), pc)
    BY <1>4, Zenon DEF SplitAtTag
  <2>2. pc \in Writing /\ UNCHANGED requestVars /\ received' = received
    BY <1>4, Places DEF SplitAtTag, upstreamVars
  <2> QED
    BY <2>1, <2>2, EmitTale, Zenon
<1>5. CASE SplitRest
  <2>1. PICK data, next : Emit(data, next)
    BY <1>5, Zenon DEF SplitRest
  <2>2. pc \in Writing /\ UNCHANGED requestVars /\ received' = received
    BY <1>5, Places DEF SplitRest, upstreamVars
  <2> QED
    BY <2>1, <2>2, EmitTale, Zenon
<1>6. CASE End
  BY <1>6, EndsTale
<1>7. CASE Succeed
  <2>1. pc = "close" /\ UNCHANGED requestVars /\ f' = f /\ received' = received
    BY <1>7 DEF Succeed, upstreamVars, clientVars
  <2> QED
    BY <2>1, QuietTale DEF Lively
<1>8. CASE CloseFails
  BY <1>8, FailedTale DEF CloseFails, Fails
<1>9. CASE Fail
  <2>1. pc = "failed" /\ pc' = "done" /\ cause' = cause /\ UNCHANGED requestVars
    BY <1>9, Zenon DEF Fail
  <2>2. cause # "none"
    BY <2>1 DEF PathInv, Blamed
  <2>3. ~Lively'
    BY <2>1, <2>2, Places DEF Lively
  <2> QED
    BY <2>1, <2>3, TaleStep
<1>10. CASE Search
  <2>1. pc \in {"search", "call"} /\ route' = route
    BY <1>10, Zenon DEF Search, SearchRefused, SearchAcquires, SearchFails, SearchAnswers,
      requestVars
  <2>2. route = "web_search" /\ route' = "web_search"
    BY <2>1 DEF PathInv, Routed
  <2>3. pc' \in {"call", "failed", "done"}
    BY <1>10, Zenon DEF Search, SearchRefused, SearchAcquires, SearchFails, SearchAnswers,
      Fails, Writes
  <2>4. ~Lively'
    BY <2>2, <2>3, Places DEF Lively
  <2> QED
    BY <2>4 DEF TaleInv
<1>11. CASE UNCHANGED vars
  <2>1. UNCHANGED requestVars /\ UNCHANGED <<pc, cause>> /\ f' = f /\ received' = received
    BY <1>11 DEF vars, upstreamVars, clientVars
  <2>2. Lively' => Lively
    BY <2>1 DEF Lively, requestVars
  <2> QED
    BY <2>1, <2>2, QuietTale
<1>12. CASE Answer
  BY <1>1, <1>2, <1>3, <1>4, <1>5, <1>6, <1>7, <1>8, <1>12 DEF Answer
<1> QED
  BY <1>9, <1>10, <1>11, <1>12, Zenon DEF Next, Done

(* It holds in every reachable state.                                      *)
LEMMA TaleCorrect == Spec => [](PathInv /\ SplitterTypeOK /\ AnswerInv /\ TaleInv)
<1>1. Init => TaleInv
  BY Places DEF Init, TaleInv, Lively
<1> QED
  BY <1>1, TaleNext, AnswerCorrect, PTL DEF Spec

-----------------------------------------------------------------------------
(* What it means for the calls that the client gets.                       *)

(* The calls of C are told apart, named and told twice as the history h    *)
(* has it.                                                                 *)
Reads(C, h) ==
  /\ Given(C, h)
  /\ \A id \in h.ids : Twice(C, id) <=> IsBlockStream /\ id \in h.resumed
  /\ Titled(C, IF format = "anthropic" /\ ~streaming THEN h.last ELSE h.first)

(* The client gets them from blocks.                                       *)
LEMMA BlocksTell ==
  ASSUME NEW h, IsBlockStream, Tale(f, h)
  PROVE  Reads(GotCalls, h)
<1>1. PICK m, C : Hands(f, m, C) /\ BlockTale(C, DOMAIN m, h)
  BY DEF Tale
<1>2. PICK s, b, t, k, u : f = Rec(s, b, t, k, m, u) /\ Numbered(s, b, C)
  BY <1>1, Zenon DEF Hands
<1>3. f.sent = s
  BY <1>2, RecParts
<1>4. BlockCalls(f.sent) = C
  BY <1>2, <1>3, Zenon DEF Numbered
<1>5. GotCalls = BlockCalls(f.sent)
  BY DEF GotCalls, IsBlockStream
<1>6. ~(format = "anthropic" /\ ~streaming)
  BY DEF IsBlockStream
<1>7. Reads(C, h)
  BY <1>1, <1>6 DEF Reads, BlockTale
<1> QED
  BY <1>4, <1>5, <1>7, Zenon

(* The client gets them from chunks.                                       *)
LEMMA ChunksTell ==
  ASSUME NEW h, format # "anthropic", streaming, Tale(f, h)
  PROVE  Reads(GotCalls, h)
<1>1. PICK x, n, C : Counts(f, x, n, C) /\ ChunkTale(C, x, n, h)
  BY DEF Tale
<1>2. PICK s, u : f = Chk(s, x, n, u) /\ ChunkCalls(s) = C
  BY <1>1, Zenon DEF Counts
<1>3. f.sent = s
  BY <1>2 DEF Chk
<1>4. ChunkCalls(f.sent) = C
  BY <1>2, <1>3, Zenon
<1>5. GotCalls = ChunkCalls(f.sent)
  BY DEF GotCalls, IsBlockStream
<1>6. ~IsBlockStream /\ ~(format = "anthropic" /\ ~streaming)
  BY DEF IsBlockStream
<1>7. \A c \in C : c.index = x[c.id]
  BY <1>1 DEF ChunkTale
<1>8. \A id : ~Twice(C, id)
  BY <1>7 DEF Twice
<1>9. Given(C, h) /\ Titled(C, h.first)
  BY <1>1 DEF ChunkTale
<1>10. Reads(C, h)
  BY <1>6, <1>8, <1>9, Zenon DEF Reads
<1> QED
  BY <1>4, <1>5, <1>10, Zenon

(* The client gets them in one message.                                    *)
LEMMA MessageTells ==
  ASSUME NEW h, ~streaming, Tale(f, h)
  PROVE  Reads(GotCalls, h)
<1>1. PICK o, m : Orders(f, o, m) /\ MessageTale(o, m, h)
  BY DEF Tale
<1>2. PICK s, t, k : f = Msg(s, t, k, o, m)
  BY <1>1, Zenon DEF Orders
<1>3. f.order = o /\ f.tools = m
  BY <1>2 DEF Msg
<1>4. PICK C : C = {Call(o[i], m[o[i]].name, i) : i \in DOMAIN o}
  OBVIOUS
<1>5. GotCalls = C
  <2>1. GotCalls = MessageCalls(f)
    BY DEF GotCalls, IsBlockStream
  <2>2. MessageCalls(f) = C
    BY <1>3, <1>4, Zenon DEF MessageCalls
  <2> QED
    BY <2>1, <2>2
<1>6. /\ \A i, j \in DOMAIN o : o[i] = o[j] => i = j
      /\ \A i \in DOMAIN o : o[i] \in h.ids
      /\ \A id \in h.ids : \E i \in DOMAIN o : o[i] = id
      /\ \A id \in h.ids : <<id, m[id].name>> \in h.names
      /\ h.first \union h.last \subseteq h.ids
      /\ \A id \in IF format = "anthropic" THEN h.last ELSE h.first : m[id].name # NoName
  BY <1>1, Zenon DEF MessageTale
<1>7. \A i \in DOMAIN o : LET c == Call(o[i], m[o[i]].name, i)
                         IN c \in C /\ c.id = o[i] /\ c.name = m[o[i]].name /\ c.index = i
  BY <1>4 DEF Call
<1>8. \A c \in C : \E i \in DOMAIN o : c.id = o[i] /\ c.name = m[o[i]].name /\ c.index = i
  BY <1>4, <1>7
<1>9. Given(C, h)
  BY <1>6, <1>8 DEF Given
<1>10. \A id : ~Twice(C, id)
  BY <1>6, <1>8 DEF Twice
<1>11. Titled(C, IF format = "anthropic" THEN h.last ELSE h.first)
  <2>1. ASSUME NEW id \in IF format = "anthropic" THEN h.last ELSE h.first
        PROVE  \E c \in C : c.id = id /\ c.name # NoName
    <3>1. id \in h.ids /\ m[id].name # NoName
      BY <1>6, <2>1
    <3>2. PICK i \in DOMAIN o : o[i] = id
      BY <1>6, <3>1
    <3> QED
      BY <1>7, <3>1, <3>2
  <2> QED
    BY <2>1, Zenon DEF Titled
<1>12. ~IsBlockStream /\ (format = "anthropic" /\ ~streaming <=> format = "anthropic")
  BY DEF IsBlockStream
<1>13. Reads(C, h)
  <2>1. CASE format = "anthropic"
    BY <1>9, <1>10, <1>11, <1>12, <2>1, Zenon DEF Reads
  <2>2. CASE format # "anthropic"
    BY <1>9, <1>10, <1>11, <1>12, <2>2, Zenon DEF Reads
  <2> QED
    BY <2>1, <2>2
<1> QED
  BY <1>5, <1>13, Zenon

(* The calls of an answer that was written are the calls that were made.   *)
LEMMA TaleMeans ==
  ASSUME PathInv, TaleInv, WasWritten, cause = "none"
  PROVE  /\ \A c, d \in GotCalls : c.index = d.index => c.id = d.id
         /\ \A c \in GotCalls : c.name \in Names(c.id)
         /\ \A id \in CallIds :
              /\ (\A c, d \in GotCalls : c.id = id /\ d.id = id => c.index = d.index)
                   <=> ~(IsBlockStream /\ Resumed(id))
              /\ \A i \in EventsOf(id) :
                   received[i].call.name # NoName /\ Decides(i, id) =>
                     \E c \in GotCalls : c.id = id /\ c.name # NoName
<1>1. Lively
  BY DEF WasWritten, PathInv, Routed, Lively, Writing
<1>2. PICK h : h = History(received)
  OBVIOUS
<1>3. Tale(f, h)
  BY <1>1, <1>2 DEF TaleInv
<1>4. PICK C : C = GotCalls
  OBVIOUS
<1>5. format \in {"anthropic", "openai"} /\ streaming \in BOOLEAN
  BY DEF PathInv, Routed
<1>6. Reads(C, h)
  <2>1. CASE IsBlockStream
    BY <1>3, <1>4, <2>1, BlocksTell, Zenon
  <2>2. CASE format # "anthropic" /\ streaming
    BY <1>3, <1>4, <2>2, ChunksTell, Zenon
  <2>3. CASE ~streaming
    BY <1>3, <1>4, <2>3, MessageTells, Zenon
  <2> QED
    BY <1>5, <2>1, <2>2, <2>3 DEF IsBlockStream
<1>7. \A id : EventsOf(id) = Of(received, id)
  BY Zenon DEF EventsOf, Of
<1>8. CallIds = IdsIn(received)
  BY Zenon DEF CallIds, IdsIn
<1>9. /\ h.ids = CallIds
      /\ h.names = {<<received[i].call.id, received[i].call.name>> :
                      i \in {j \in DOMAIN received : received[j].type = "toolUseEvent"}}
      /\ h.resumed = {id \in CallIds : Resumed(id)}
      /\ h.first = {id \in CallIds : \E i \in EventsOf(id) :
                      received[i].call.name # NoName /\ \A j \in EventsOf(id) : i <= j}
      /\ h.last = {id \in CallIds : \E i \in EventsOf(id) :
                     received[i].call.name # NoName /\ \A j \in EventsOf(id) : j <= i}
  BY <1>2, <1>7, <1>8 DEF History, Resumed
<1>10. \A c, d \in C : c.index = d.index => c.id = d.id
  BY <1>6 DEF Reads, Given
<1>11. ASSUME NEW c \in C PROVE c.name \in Names(c.id)
  <2>1. <<c.id, c.name>> \in h.names
    BY <1>6 DEF Reads, Given
  <2>2. PICK i \in {j \in DOMAIN received : received[j].type = "toolUseEvent"} :
          <<c.id, c.name>> = <<received[i].call.id, received[i].call.name>>
    BY <1>9, <2>1
  <2>3. c.id = received[i].call.id /\ c.name = received[i].call.name
    BY <2>2
  <2>4. i \in EventsOf(c.id)
    BY <2>2, <2>3 DEF EventsOf
  <2> QED
    BY <2>3, <2>4 DEF Names
<1>12. ASSUME NEW id \in CallIds
       PROVE  (\A c, d \in C : c.id = id /\ d.id = id => c.index = d.index)
                <=> ~(IsBlockStream /\ Resumed(id))
  <2>1. Twice(C, id) <=> IsBlockStream /\ id \in h.resumed
    BY <1>6, <1>9 DEF Reads
  <2>2. id \in h.resumed <=> Resumed(id)
    BY <1>9
  <2>3. Twice(C, id) <=> ~(\A c, d \in C : c.id = id /\ d.id = id => c.index = d.index)
    BY DEF Twice
  <2> QED
    BY <2>1, <2>2, <2>3
<1>13. ASSUME NEW id \in CallIds, NEW i \in EventsOf(id),
              received[i].call.name # NoName, Decides(i, id)
       PROVE  \E c \in C : c.id = id /\ c.name # NoName
  <2>1. CASE format = "anthropic" /\ ~streaming
    <3>1. id \in h.last
      BY <1>9, <1>13, <2>1 DEF Decides
    <3> QED
      BY <1>6, <2>1, <3>1 DEF Reads, Titled
  <2>2. CASE ~(format = "anthropic" /\ ~streaming)
    <3>1. id \in h.first
      BY <1>9, <1>13, <2>2 DEF Decides
    <3> QED
      BY <1>6, <2>2, <3>1 DEF Reads, Titled
  <2> QED
    BY <2>1, <2>2
<1> QED
  BY <1>4, <1>10, <1>11, <1>12, <1>13, Zenon

-----------------------------------------------------------------------------
(* What follows of it.                                                     *)

(* ToolCallsAgree: all four forms of an answer tell the client the calls   *)
(* that the upstream has made, each with the whole of its input, apart     *)
(* from the others and under a name that it was given, however the frames  *)
(* of several calls are interleaved with text.  Only a call that goes on   *)
(* after its stop event is two blocks to a streaming Anthropic client, and *)
(* the name is the one of the first event that tells of it, in an          *)
(* Anthropic message that of the last (writeStream, FormatJSON).           *)
THEOREM ToolCallsAlwaysAgree == Spec => []ToolCallsAgree
<1>1. PathInv /\ SplitterTypeOK /\ AnswerInv /\ TaleInv => ToolCallsAgree
  BY AnswerMeans, TaleMeans, Zenon DEF ToolCallsAgree
<1> QED
  BY <1>1, TaleCorrect, PTL

(* ChunksDoNotMatter: wherever the chunks of the text are cut, through the *)
(* tags too, the client gets a prefix of what one pass over the whole text *)
(* finds, and all of it in the end (Feed, splitSafePrefix).                *)
THEOREM ChunksNeverMatter == Spec => []ChunksDoNotMatter
<1>1. ASSUME PathInv, SplitterTypeOK, AnswerInv, WasWritten, ~Reasoned,
             NEW kind \in {"text", "thinking"}
      PROVE  IF pc \in {"end", "close"} THEN Got(kind) = Spoken(Fed, kind)
             ELSE cause = "none" => IsPrefix(Got(kind), Spoken(Fed, kind))
  <2>1. pc \in {"end", "close"} => cause = "none"
    BY <1>1 DEF PathInv, Blamed
  <2>2. ASSUME cause = "none"
        PROVE  /\ Fed \in Seq(STRING) /\ Place(Fed, buffer) \in 0..Len(Fed)
               /\ Got(kind) = SpokenUpTo(Fed, Place(Fed, buffer), kind)
               /\ pc \in {"end", "close"} => Place(Fed, buffer) = Len(Fed)
    BY <1>1, <2>2, AnswerMeans
  <2>3. ASSUME cause = "none" PROVE IsPrefix(Got(kind), Spoken(Fed, kind))
    <3>1. PICK text, p : text = Fed /\ p = Place(Fed, buffer)
      OBVIOUS
    <3>2. text \in Seq(STRING) /\ p \in 0..Len(text)
      BY <2>2, <2>3, <3>1, Zenon
    <3>3. IsPrefix(SpokenUpTo(text, p, kind), Spoken(text, kind))
      BY <3>2, SpokenPrefix
    <3> QED
      BY <2>2, <2>3, <3>1, <3>3, Zenon
  <2>4. ASSUME pc \in {"end", "close"} PROVE Got(kind) = Spoken(Fed, kind)
    <3>1. Spoken(Fed, kind) = SpokenUpTo(Fed, Len(Fed), kind)
      BY <2>1, <2>2, <2>4, SpokenType
    <3> QED
      BY <2>1, <2>2, <2>4, <3>1, Zenon
  <2> QED
    BY <2>3, <2>4
<1>2. PathInv /\ SplitterTypeOK /\ AnswerInv => ChunksDoNotMatter
  BY <1>1 DEF ChunksDoNotMatter
<1> QED
  BY <1>2, AnswerCorrect, PTL

(* TextLagsLittle: when the formatter waits for the next event, no more    *)
(* than Hold characters that have come are not yet written                 *)
(* (splitSafePrefix).                                                      *)
THEOREM TextNeverLags == Spec => []TextLagsLittle
<1>1. ASSUME PathInv, SplitterTypeOK, AnswerInv, WasWritten, ~Reasoned, pc = "next"
      PROVE  Len(Spoken(Fed, "text")) + Len(Spoken(Fed, "thinking"))
               <= Len(Got("text")) + Len(Got("thinking")) + Hold
  <2>1. cause = "none"
    BY <1>1 DEF PathInv, Blamed
  <2>2. PICK text \in Seq(STRING), p \in Nat :
          /\ text = Fed /\ p = Place(text, buffer) /\ p \in 0..Len(text)
          /\ Got("text") = SpokenUpTo(text, p, "text")
          /\ Got("thinking") = SpokenUpTo(text, p, "thinking")
          /\ Len(buffer) <= Hold
    BY <1>1, <2>1, AnswerMeans
  <2>3. Len(Spoken(text, "text")) + Len(Spoken(text, "thinking"))
          <= Len(SpokenUpTo(text, p, "text")) + Len(SpokenUpTo(text, p,
            "thinking")) + (Len(text) - p)
    BY <2>2, SpokenGrows
  <2>4. Len(text) - p <= Hold
    <3>1. Len(buffer) \in Nat /\ Len(text) \in Nat
      BY <1>1 DEF SplitterTypeOK
    <3> QED
      BY <2>2, <3>1 DEF Place
  <2>5. PICK a, b \in Nat : a = Len(SpokenUpTo(text, p, "text"))
          /\ b = Len(SpokenUpTo(text, p, "thinking"))
    <3>1. /\ SpokenUpTo(text, p, "text") \in Seq(STRING)
          /\ SpokenUpTo(text, p, "thinking") \in Seq(STRING)
      BY <2>2, SpokenType
    <3> QED
      BY <3>1
  <2>6. PICK m, n \in Nat : m = Len(Spoken(text, "text")) /\ n = Len(Spoken(text, "thinking"))
    <3>1. Len(text) \in 0..Len(text)
      BY <2>2
    <3>2. /\ Spoken(text, "text") \in Seq(STRING)
          /\ Spoken(text, "thinking") \in Seq(STRING)
      BY <2>2, <3>1, SpokenType
    <3> QED
      BY <3>2
  <2>7. m + n <= a + b + Hold
    BY <2>3, <2>4, <2>5, <2>6, TagAssumption
  <2> QED
    BY <2>2, <2>5, <2>6, <2>7, Zenon
<1>2. PathInv /\ SplitterTypeOK /\ AnswerInv => TextLagsLittle
  BY <1>1 DEF TextLagsLittle
<1> QED
  BY <1>2, AnswerCorrect, PTL

=============================================================================
