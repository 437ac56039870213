----------------------------- MODULE ResponsePath -----------------------------
(***************************************************************************)
(* An answer on its way to the client, from the moment the upstream has    *)
(* accepted the request: Service.Handle reads the event stream through     *)
(* observedStream, a formatter writes it in one of four forms, and the     *)
(* HTTP handler adds an error if that fails.  A request with the           *)
(* web_search tool goes to the web search client instead.                  *)
(*                                                                         *)
(* One request has one goroutine; what is unforeseeable is the upstream:   *)
(* its frames, how its text is cut into chunks and where its connection    *)
(* ends, and the client, which may be gone at any write.                   *)
(***************************************************************************)
EXTENDS ThinkingSplitter, UpstreamErrors, FiniteSets, SequencesExt

CONSTANTS
  NoName,       \* a tool event without the name of its tool
  NoId,         \* a tool event without the id of its call
  Scripts,      \* bounds: an answer has frames of one script, and as many at most
  MaxResults    \* bound: results of a web search

(* What frames carry: text is text, and a count of tokens is not negative. *)
ASSUME FramesAssumption ==
  /\ \A script \in Scripts :
       /\ script.length \in Nat
       /\ \A frame \in script.frames :
            /\ frame.type \in {"assistantResponseEvent", "reasoningContentEvent"} =>
                 frame.text \in Seq(STRING)
            /\ frame.type = "metadataEvent" => frame.output \in Nat
            /\ frame.type = "toolUseEvent" => frame.call.arguments \in Seq(STRING)
  /\ MaxResults \in Nat

A == INSTANCE AnthropicFormatter
O == INSTANCE OpenAIFormatter
S == INSTANCE EventStream
W == INSTANCE WebSearch

VARIABLES
  route,      \* "chat" or "web_search"
  format,     \* the protocol of the client
  streaming,  \* req.Stream
  leased,     \* history: an account has been acquired for the request
  pc,         \* where the request is
  received,   \* history: the frames that have been read
  lost,       \* history: bytes read of a frame that a clean end cuts off
  observed,   \* the observed stream
  f,          \* the local variables of the formatter, and what it has written
  usage,      \* output tokens of the last usage event, 0 without
  status,     \* the status code the client got, 0 before the header
  gone,       \* a write has failed
  cause,      \* the category of the error that Handle returns
  reports,    \* what the pool has been told about the lease
  truncations \* tool calls saved in truncation.GlobalCache

requestVars == <<route, format, streaming, leased>>
upstreamVars == <<received, lost, observed>>
clientVars == <<f, status, gone>>
vars == <<splitterVars, requestVars, pc, upstreamVars, clientVars, usage, cause,
          reports, truncations>>

Frames == UNION {script.frames : script \in Scripts}

TypeOK ==
  /\ SplitterTypeOK
  /\ route \in {"chat", "web_search"}
  /\ format \in {"anthropic", "openai"} /\ streaming \in BOOLEAN /\ leased \in BOOLEAN
  /\ pc \in {"start", "next", "feed", "flush", "end", "close", "search", "call",
             "failed", "done"}
  /\ Range(received) \subseteq Frames
  /\ lost \in Nat
  /\ status \in {0, 200, 400, 401, 502}
  /\ usage \in Nat
  /\ gone \in BOOLEAN
  /\ cause \in Categories \union {"none"}
  /\ Len(reports) <= 1

Init ==
  /\ SplitterInit
  /\ \/ route = "chat" /\ pc = "start" /\ format \in {"anthropic", "openai"}
     \/ route = "web_search" /\ pc = "search" /\ format = "anthropic"
  /\ streaming \in BOOLEAN /\ leased = (route = "chat")
  /\ received = <<>> /\ lost = 0 /\ observed = S!NewObserved
  /\ f = [sent |-> <<>>]
  /\ usage = 0 /\ status = 0 /\ gone = FALSE /\ cause = "none"
  /\ reports = <<>> /\ truncations = {}

-----------------------------------------------------------------------------
(* The formatter that format and streaming choose.                         *)

Start ==
  IF streaming THEN (IF format = "anthropic" THEN A!StreamStart ELSE O!StreamStart)
  ELSE (IF format = "anthropic" THEN A!JsonStart ELSE O!JsonStart)

Text(text) ==
  CASE format = "anthropic" /\ streaming -> A!StreamText(f, text)
    [] format = "anthropic" /\ ~streaming -> A!JsonText(f, text)
    [] format = "openai" /\ streaming -> O!StreamText(f, text)
    [] OTHER -> O!JsonText(f, text)

Thinking(text) ==
  CASE format = "anthropic" /\ streaming -> A!StreamThinking(f, text)
    [] format = "anthropic" /\ ~streaming -> A!JsonThinking(f, text)
    [] format = "openai" /\ streaming -> O!StreamThinking(f, text)
    [] OTHER -> O!JsonThinking(f, text)

Tool(call) ==
  CASE format = "anthropic" /\ streaming -> A!StreamTool(f, call)
    [] format = "anthropic" /\ ~streaming -> A!JsonTool(f, call)
    [] format = "openai" /\ streaming -> O!StreamTool(f, call)
    [] OTHER -> O!JsonTool(f, call)

(* Tool blocks that are still open are closed in any order.                *)
Ends ==
  CASE format = "anthropic" /\ streaming ->
         {A!StreamEnd(f, ids, usage) : ids \in SetToSeqs(DOMAIN f.toolBlocks)}
    [] format = "anthropic" /\ ~streaming -> {A!JsonEnd(f, usage)}
    [] format = "openai" /\ streaming -> {O!StreamEnd(f, usage)}
    [] OTHER -> {O!JsonEnd(f, usage)}

-----------------------------------------------------------------------------
(* Writing.  The header goes out with the first write.                     *)

Fails(category) == pc' = "failed" /\ cause' = category

(* What g has written more than f reaches the client, or a write fails.    *)
Writes(g, next) ==
  \/ /\ f' = g
     /\ status' = IF status = 0 /\ Len(g.sent) > Len(f.sent) THEN 200 ELSE status
     /\ pc' = next
     /\ UNCHANGED <<gone, cause>>
  \/ \E n \in Len(f.sent)..(Len(g.sent) - 1) :
       /\ f' = [f EXCEPT !.sent = SubSeq(g.sent, 1, n)]
       /\ status' = IF status = 0 THEN 200 ELSE status
       /\ gone' = TRUE
       /\ Fails("unknown")

(* The first write of a stream.  The OpenAI formatter gives up if it       *)
(* fails; the Anthropic one does not look at its result, and a client that *)
(* is gone by then is found out at a later write.                          *)
Begin ==
  /\ pc = "start"
  /\ status' = IF streaming THEN 200 ELSE 0
  /\ \/ f' = Start /\ pc' = "next" /\ UNCHANGED <<gone, cause>>
     \/ /\ format = "openai" /\ streaming
        /\ gone' = TRUE /\ Fails("unknown")
        /\ UNCHANGED f
  /\ UNCHANGED <<splitterVars, requestVars, upstreamVars, usage, reports, truncations>>

-----------------------------------------------------------------------------
(* The loop of the formatter: one frame is read, observed and formatted.   *)

Handle(e) ==
  \/ /\ e.type \in {"none", "metadata"}
     /\ UNCHANGED <<splitterVars, pc, clientVars, usage, cause>>
  \/ /\ e.type = "text"
     /\ FeedChunk(e.text)
     /\ pc' = "feed"
     /\ UNCHANGED <<clientVars, usage, cause>>
  \/ /\ e.type = "reasoning"
     /\ Writes(Thinking(e.text), "next")
     /\ UNCHANGED <<splitterVars, usage>>
  \/ /\ e.type = "tool_call"
     /\ Writes(Tool(e.call), "next")
     /\ UNCHANGED <<splitterVars, usage>>
  \/ /\ e.type = "usage"
     /\ usage' = e.output
     /\ UNCHANGED <<splitterVars, pc, clientVars, cause>>
  \/ /\ e.type = "error"
     /\ Fails(e.category)
     /\ UNCHANGED <<splitterVars, clientVars, usage>>

ReadFrame(frame) ==
  /\ pc = "next"
  /\ \E script \in Scripts : /\ Range(received) \union {frame} \subseteq script.frames
                             /\ Len(received) < script.length
  /\ received' = Append(received, frame)
  /\ observed' = S!Observe(observed, S!Decode(frame))
  /\ Handle(S!Decode(frame))
  /\ UNCHANGED <<requestVars, lost, reports, truncations>>

(* The connection ends with some bytes of a frame, or the frame is wrong.  *)
EndOfStream(available, totalLength, headersLength) ==
  LET outcome == S!ReadEventMessage(available, totalLength, headersLength)
  IN /\ pc = "next" /\ outcome # "ok"
     /\ lost' = IF outcome = "EOF" THEN available ELSE 0
     /\ IF outcome = "EOF" THEN pc' = "flush" /\ UNCHANGED cause ELSE Fails("unknown")
     /\ UNCHANGED <<splitterVars, requestVars, received, observed, clientVars, usage,
                    reports, truncations>>

(* One step of the loop of Feed, whose segment is written unless empty.    *)
Emit(text, next) ==
  IF text = <<>> THEN pc' = next /\ UNCHANGED <<clientVars, cause>>
  ELSE Writes(IF inThinking THEN Thinking(text) ELSE Text(text), next)

SplitAtTag ==
  /\ pc \in {"feed", "flush"}
  /\ \E i \in 1..Len(buffer) : CutTag(i) /\ Emit(SubSeq(buffer, 1, i - 1), pc)
  /\ UNCHANGED <<requestVars, upstreamVars, usage, reports, truncations>>

SplitRest ==
  LET flush == pc = "flush"
  IN /\ pc \in {"feed", "flush"}
     /\ KeepRest(flush)
     /\ Emit(Safe(flush), IF flush THEN "end" ELSE "next")
     /\ UNCHANGED <<requestVars, upstreamVars, usage, reports, truncations>>

End ==
  /\ pc = "end"
  /\ \E g \in Ends : Writes(g, "close")
  /\ UNCHANGED <<splitterVars, requestVars, upstreamVars, usage, reports, truncations>>

-----------------------------------------------------------------------------
(* After the formatter: Close, the report, and the handler's error.        *)

Report(verdict) == reports' = Append(reports, verdict)

Succeed ==
  /\ pc = "close" /\ pc' = "done"
  /\ Report("success")
  /\ truncations' = IF S!WasTruncated(observed) THEN observed.pendingTools ELSE {}
  /\ UNCHANGED <<splitterVars, requestVars, upstreamVars, clientVars, usage, cause>>

CloseFails ==
  /\ pc = "close" /\ Fails("unknown")
  /\ UNCHANGED <<splitterVars, requestVars, upstreamVars, clientVars, usage, reports, truncations>>

(* Mutant: a client that went away is not the fault of the account.        *)
FailUnlessGone ==
  /\ pc = "failed" /\ pc' = "done"
  /\ IF route = "chat" /\ ~gone THEN Report(Reason(cause)) ELSE UNCHANGED reports
  /\ f' = IF gone THEN f
          ELSE [f EXCEPT !.sent = Append(@, [type |-> "error", kind |-> cause])]
  /\ status' = IF status = 0 THEN Code(cause) ELSE status
  /\ UNCHANGED <<splitterVars, requestVars, upstreamVars, gone, usage, cause, truncations>>

Fail ==
  /\ pc = "failed" /\ pc' = "done"
  /\ IF route = "chat" THEN Report(Reason(cause)) ELSE UNCHANGED reports
  /\ f' = IF gone THEN f
          ELSE [f EXCEPT !.sent = Append(@, [type |-> "error", kind |-> cause])]
  /\ status' = IF status = 0 THEN Code(cause) ELSE status
  /\ UNCHANGED <<splitterVars, requestVars, upstreamVars, gone, usage, cause, truncations>>

-----------------------------------------------------------------------------
(* The web search: no query, no account, or one call.                      *)

SearchRefused(category) ==
  /\ pc = "search" /\ Fails(category)
  /\ UNCHANGED <<splitterVars, requestVars, upstreamVars, clientVars, usage, reports, truncations>>

SearchAcquires ==
  /\ pc = "search" /\ pc' = "call"
  /\ leased' = TRUE
  /\ UNCHANGED <<splitterVars, route, format, streaming, upstreamVars, clientVars, usage, cause,
                 reports, truncations>>

SearchFails(category) ==
  /\ pc = "call" /\ Fails(category)
  /\ Report(Reason(category))
  /\ UNCHANGED <<splitterVars, requestVars, upstreamVars, clientVars, usage, truncations>>

(* The success is reported before the answer is written.                   *)
SearchAnswers(found, maxUses) ==
  /\ pc = "call"
  /\ Report("success")
  /\ Writes([f EXCEPT !.sent = IF streaming THEN W!StreamResults("query", found, maxUses)
                               ELSE W!JsonResults(found, maxUses)], "done")
  /\ UNCHANGED <<splitterVars, requestVars, upstreamVars, usage, truncations>>

Done == pc = "done" /\ UNCHANGED vars

-----------------------------------------------------------------------------
Answer ==
  \/ Begin
  \/ \E frame \in Frames : ReadFrame(frame)
  \/ \E available \in {0, 7, 12, 14, 20}, totalLength \in {8, 20}, headersLength \in {0, 8} :
       EndOfStream(available, totalLength, headersLength)
  \/ SplitAtTag \/ SplitRest
  \/ End
  \/ Succeed \/ CloseFails

Search ==
  \/ \E category \in {"validation", "auth"} : SearchRefused(category)
  \/ SearchAcquires
  \/ \E category \in W!CallErrors({401, 429, 500, 503}, SUBSET Signals) :
       SearchFails(category)
  \/ \E found, maxUses \in 0..MaxResults : SearchAnswers(found, maxUses)

Next == Answer \/ Search \/ Fail \/ Done

Spec == Init /\ [][Next]_vars

-----------------------------------------------------------------------------
(* What the upstream has said, read off the frames that were received.     *)

FrameText(frame) == IF frame.type = "assistantResponseEvent" THEN frame.text ELSE <<>>

Fed == FlattenSeq([i \in DOMAIN received |-> FrameText(received[i])])

(* Some of the thinking has come from reasoning frames, not from the text. *)
Reasoned == \E i \in DOMAIN received : received[i].type = "reasoningContentEvent"

(* One pass over a whole text, character by character: which are part of   *)
(* a tag, and which of the others stand between tags.                      *)
Unread == [kind |-> "none", thinking |-> FALSE, skip |-> 0]

Sought(before) == IF before.thinking THEN CloseTag ELSE OpenTag

Scanned(text, i, before) ==
  IF before.skip > 0 THEN [before EXCEPT !.kind = "none", !.skip = @ - 1]
  ELSE IF StartsAt(Sought(before), text, i)
       THEN [kind |-> "none", thinking |-> ~before.thinking, skip |-> Len(Sought(before)) - 1]
  ELSE [before EXCEPT !.kind = IF before.thinking THEN "thinking" ELSE "text"]

Scan(text) ==
  LET at[i \in 0..Len(text)] == IF i = 0 THEN Unread ELSE Scanned(text, i, at[i - 1])
  IN at

Spoken(text, kind) ==
  LET at == Scan(text)
  IN FlattenSeq([i \in DOMAIN text |-> IF at[i].kind = kind THEN <<text[i]>> ELSE <<>>])

(* What the client has got of one kind of text.                            *)
IsDelta(e) == e.type \in {"content_block_delta", "delta"}

DeltaText(e, kind) == IF IsDelta(e) /\ e.kind = kind THEN e.data ELSE <<>>

Got(kind) ==
  IF streaming THEN FlattenSeq([p \in DOMAIN f.sent |-> DeltaText(f.sent[p], kind)])
  ELSE IF kind = "text" THEN f.text ELSE f.thinking

WasWritten == route = "chat" /\ ~gone /\ pc \notin {"start", "failed"}

(* However the text is cut into chunks, the client gets what one pass over *)
(* the whole text would give, a prefix of it until the end: no tag is      *)
(* missed and no character lost or doubled (Feed, splitSafePrefix).        *)
ChunksDoNotMatter ==
  WasWritten /\ ~Reasoned =>
    \A kind \in {"text", "thinking"} :
      IF pc \in {"end", "close"} THEN Got(kind) = Spoken(Fed, kind)
      ELSE cause = "none" => IsPrefix(Got(kind), Spoken(Fed, kind))

(* Text that is held back comes out after a tool call or a reasoning event *)
(* that came after it, so whenever the formatter waits for the next event  *)
(* at most Hold characters are still to be written (splitSafePrefix).      *)
TextLagsLittle ==
  WasWritten /\ ~Reasoned /\ pc = "next" =>
    Len(Spoken(Fed, "text")) + Len(Spoken(Fed, "thinking"))
      <= Len(Got("text")) + Len(Got("thinking")) + Hold

-----------------------------------------------------------------------------
(* The protocol of a streaming Anthropic client.                           *)

Indexes(sent, type) == {sent[p].index : p \in {q \in DOMAIN sent : sent[q].type = type}}

OpenBlocks(sent) ==
  Indexes(sent, "content_block_start") \ Indexes(sent, "content_block_stop")

IsBlockStream == format = "anthropic" /\ streaming

FollowsProtocol(before, e) ==
  /\ e.type = "content_block_start" =>
       /\ Indexes(before, "content_block_start") = 0..(e.index - 1)
       /\ e.index \in Nat
  /\ e.type \in {"content_block_delta", "content_block_stop"} => e.index \in OpenBlocks(before)
  /\ e.type \in {"message_delta", "message_stop"} => OpenBlocks(before) = {}

(* Blocks are numbered without gaps, opened once, written to only while    *)
(* they are open, and all closed before the message is, with text,         *)
(* thinking and several tool calls interleaved (FormatStream, writeStream).*)
BlocksWellFormed ==
  IsBlockStream =>
    \A p \in DOMAIN f.sent : FollowsProtocol(SubSeq(f.sent, 1, p - 1), f.sent[p])

-----------------------------------------------------------------------------
(* The answer as a whole.                                                  *)

CallIds == {received[i].call.id : i \in {j \in DOMAIN received : received[j].type = "toolUseEvent"}}

FrameInput(frame, id) ==
  IF frame.type = "toolUseEvent" /\ frame.call.id = id THEN frame.call.arguments ELSE <<>>

Input(id) == FlattenSeq([i \in DOMAIN received |-> FrameInput(received[i], id)])

(* The blocks of a call, and its input as the client puts it together from *)
(* them or from the chunks that name it.                                   *)
StartsTool(e) == e.type = "content_block_start" /\ e.kind = "tool_use"

BlocksOf(sent, id) ==
  {sent[p].index : p \in {q \in DOMAIN sent : StartsTool(sent[q]) /\ sent[q].data[1] = id}}

IsToolDelta(e) == IsDelta(e) /\ e.kind = "tool_use"

BlockInput(e, blocks) == IF IsToolDelta(e) /\ e.index \in blocks THEN e.data ELSE <<>>

ChunkInput(e, id) == IF IsToolDelta(e) /\ e.data.id = id THEN e.data.arguments ELSE <<>>

GotInput(id) ==
  CASE ~streaming -> f.tools[id].arguments
    [] IsBlockStream ->
         FlattenSeq([p \in DOMAIN f.sent |-> BlockInput(f.sent[p], BlocksOf(f.sent, id))])
    [] OTHER -> FlattenSeq([p \in DOMAIN f.sent |-> ChunkInput(f.sent[p], id)])

GotIds ==
  CASE ~streaming -> Range(f.order)
    [] IsBlockStream ->
         {f.sent[p].data[1] : p \in {q \in DOMAIN f.sent : StartsTool(f.sent[q])}}
    [] OTHER -> {f.sent[p].data.id : p \in {q \in DOMAIN f.sent : IsToolDelta(f.sent[q])}}

(* The calls as the client tells them apart: by the block, by the index of *)
(* the chunk, by the place in the message.                                 *)
Call(id, name, index) == [id |-> id, name |-> name, index |-> index]

BlockCalls(sent) ==
  {Call(sent[p].data[1], sent[p].data[2], sent[p].index) :
     p \in {q \in DOMAIN sent : StartsTool(sent[q])}}

ChunkCalls(sent) ==
  {Call(sent[p].data.id, sent[p].data.name, sent[p].index) :
     p \in {q \in DOMAIN sent : IsToolDelta(sent[q])}}

MessageCalls(g) == {Call(g.order[i], g.tools[g.order[i]].name, i) : i \in DOMAIN g.order}

GotCalls ==
  CASE ~streaming -> MessageCalls(f)
    [] IsBlockStream -> BlockCalls(f.sent)
    [] OTHER -> ChunkCalls(f.sent)

(* What the upstream has said of a call besides its input.                 *)
EventsOf(id) ==
  {i \in DOMAIN received : received[i].type = "toolUseEvent" /\ received[i].call.id = id}

Names(id) == {received[i].call.name : i \in EventsOf(id)}

Resumed(id) == \E i, j \in EventsOf(id) : i < j /\ received[i].call.done

(* The event that a form takes the name from: the last one for an          *)
(* Anthropic message, otherwise the first.                                 *)
Decides(i, id) ==
  \A j \in EventsOf(id) : IF format = "anthropic" /\ ~streaming THEN j <= i ELSE i <= j

(* All four forms of an answer tell the client the calls that were made,   *)
(* each with its whole input, apart from the others and under a name that  *)
(* it was given, however the frames of several calls are interleaved.      *)
(* They differ in two cases.  A call that goes on after its stop event is  *)
(* one call, but to a streaming Anthropic client it is two tool_use        *)
(* blocks, which share the input.  A name that not every event repeats is  *)
(* told if the first event has it, but an Anthropic message tells it only  *)
(* if the last event has it.                                               *)
ToolCallsAgree ==
  WasWritten /\ cause = "none" =>
    /\ GotIds = CallIds
    /\ \A c, d \in GotCalls : c.index = d.index => c.id = d.id
    /\ \A c \in GotCalls : c.name \in Names(c.id)
    /\ \A id \in CallIds :
         /\ GotInput(id) = Input(id)
         /\ (\A c, d \in GotCalls : c.id = id /\ d.id = id => c.index = d.index)
              <=> ~(IsBlockStream /\ Resumed(id))
         /\ \A i \in EventsOf(id) :
              received[i].call.name # NoName /\ Decides(i, id) =>
                \E c \in GotCalls : c.id = id /\ c.name # NoName

Final == {"message_stop", "[DONE]", "message", "completion"}

Answered == \E p \in DOMAIN f.sent : f.sent[p].type \in Final

(* The client can tell a whole answer from one that broke off: the answer  *)
(* is ended only if the upstream ended it, an error comes last, and comes  *)
(* whenever something failed.  One exception: a connection cut right after *)
(* a prelude looks like an end (readEventMessage).                         *)
EndingsAreTold ==
  /\ route = "chat" /\ Answered => lost \in {0, 12} /\ Len(f.sent) > 0
  /\ pc = "done" /\ ~gone =>
       LET failed == f.sent[Len(f.sent)].type = "error"
       IN /\ failed <=> cause # "none"
          /\ ~failed => f.sent[Len(f.sent)].type \in Final
          /\ status = 200 <=> (Answered \/ (streaming /\ route = "chat"))

(* By the end of its request every lease is reported once, and nothing is  *)
(* reported without one, wherever the upstream breaks off and the client   *)
(* goes away, before the first byte too.  A success means an answer that   *)
(* was written whole; for a web search, whose success is reported before   *)
(* the answer is written, the client may be gone.  Any other report names  *)
(* what went wrong, and a search never blames the account for a client     *)
(* that went away (Service.Handle, HandleAnthropic).                       *)
ReportedOnce ==
  /\ pc = "done" => Len(reports) = IF leased THEN 1 ELSE 0
  /\ reports # <<>> => leased
  /\ reports = <<"success">> =>
       IF cause = "none" THEN Answered /\ ~gone ELSE route = "web_search" /\ gone
  /\ reports \notin {<<>>, <<"success">>} =>
       /\ cause # "none" /\ reports = <<Reason(cause)>>
       /\ gone => route = "chat"

(* Every tool call that is saved as truncated is one whose block the       *)
(* formatter has to close itself, and output tokens that the formatter     *)
(* takes from a usage event are the ones that are logged (observedStream). *)
ObserverAgrees ==
  /\ IsBlockStream /\ route = "chat" /\ pc \in {"next", "feed", "flush", "end"} =>
       observed.pendingTools \subseteq DOMAIN f.toolBlocks
  /\ usage # 0 => usage = S!LoggedTokens(observed)

=============================================================================
