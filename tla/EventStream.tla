----------------------------- MODULE EventStream ------------------------------
(***************************************************************************)
(* The answer of the upstream as the transport reads it, eventStream.Next  *)
(* of src/internal/adapters/upstream/clihttp/transport.go, and as the chat *)
(* service observes it on its way to the formatter, observedStream of      *)
(* src/internal/application/chat/observed_stream.go.                       *)
(***************************************************************************)
LOCAL INSTANCE Integers
LOCAL INSTANCE Sequences
INSTANCE UpstreamErrors

CONSTANTS
  NoName,   \* the empty name of a tool event
  NoId      \* the empty id of a tool event

-----------------------------------------------------------------------------
(* readEventMessage: a prelude of 12 bytes, then the rest of the frame,    *)
(* with a checksum of 4 bytes at its end.                                  *)

PreludeLen == 12
ChecksumLen == 4

(* Mutant: an unexpected end is an end.                                    *)
ReadAtMost(available, wanted) == IF available >= wanted THEN "ok" ELSE "EOF"

(* io.ReadFull: EOF only if there was nothing to read at all.              *)
ReadFull(available, wanted) ==
  IF available >= wanted THEN "ok" ELSE IF available = 0 THEN "EOF" ELSE "error"

ReadEventMessage(available, totalLength, headersLength) ==
  IF available < PreludeLen THEN ReadFull(available, PreludeLen)
  ELSE IF totalLength < PreludeLen + ChecksumLen THEN "error"
  ELSE IF available < totalLength
       THEN ReadFull(available - PreludeLen, totalLength - PreludeLen)
  ELSE IF headersLength > totalLength - PreludeLen - ChecksumLen THEN "error"
  ELSE "ok"

-----------------------------------------------------------------------------
(* What Next makes of a frame: an event, or nothing, and it reads on.  A   *)
(* frame of another type is an error if it has a reason or a message.      *)

Nothing == [type |-> "none"]

Decode(frame) ==
  CASE frame.type = "initial-response" ->
         IF frame.conversation = 0 THEN Nothing
         ELSE [type |-> "metadata", conversation |-> frame.conversation, context |-> 0]
    [] frame.type = "assistantResponseEvent" ->
         IF frame.text = <<>> THEN Nothing ELSE [type |-> "text", text |-> frame.text]
    [] frame.type = "reasoningContentEvent" ->
         IF frame.text = <<>> THEN Nothing ELSE [type |-> "reasoning", text |-> frame.text]
    [] frame.type = "toolUseEvent" -> [type |-> "tool_call", call |-> frame.call]
    [] frame.type = "metadataEvent" -> [type |-> "usage", output |-> frame.output]
    [] frame.type = "contextUsageEvent" ->
         IF frame.percentage = 0 THEN Nothing
         ELSE [type |-> "metadata", conversation |-> 0, context |-> frame.percentage]
    [] frame.type = "meteringEvent" -> [type |-> "usage", output |-> 0]
    [] OTHER ->
         IF ~frame.explained THEN Nothing
         ELSE [type |-> "error", category |-> Classified(frame.words)]

-----------------------------------------------------------------------------
(* observedStream.                                                         *)

NewObserved ==
  [output |-> 0, hasUsage |-> FALSE, conversation |-> 0, context |-> 0,
   pendingTools |-> {}, finishedTools |-> {}, text |-> FALSE]

(* Mutant: a call that ends stays pending.                                 *)
ObserveToolStart(o, call) ==
  LET known == {call.id} \ {NoId}
  IN [o EXCEPT !.pendingTools = @ \union (IF call.name = NoName THEN {} ELSE known),
               !.finishedTools = @ \union (IF call.done THEN known ELSE {})]

ObserveTool(o, call) ==
  LET known == {call.id} \ {NoId}
      started == IF call.name = NoName THEN {} ELSE known
      ended == IF call.done THEN known ELSE {}
  IN [o EXCEPT !.pendingTools = (@ \union started) \ ended,
               !.finishedTools = @ \union ended]

(* A count that is missing keeps its old value.                            *)
ObserveUsage(o, output) ==
  [o EXCEPT !.output = IF output > 0 THEN output ELSE @, !.hasUsage = TRUE]

ObserveMetadata(o, e) ==
  [o EXCEPT !.conversation = IF e.conversation # 0 THEN e.conversation ELSE @,
            !.context = IF e.context > 0 THEN e.context ELSE @]

Observe(o, e) ==
  CASE e.type = "text" -> [o EXCEPT !.text = TRUE]
    [] e.type = "tool_call" -> ObserveTool(o, e.call)
    [] e.type = "usage" -> ObserveUsage(o, e.output)
    [] e.type = "metadata" -> ObserveMetadata(o, e)
    [] OTHER -> o

WasTruncated(o) == o.pendingTools # {}

(* SuccessMeta: the output tokens that the log and the statistics get, 0   *)
(* for an estimate.                                                        *)
LoggedTokens(o) == o.output

=============================================================================
