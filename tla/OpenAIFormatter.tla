--------------------------- MODULE OpenAIFormatter ----------------------------
(***************************************************************************)
(* The OpenAI formatter, src/internal/adapters/formatter/openai/           *)
(* formatter.go: an answer as a stream of completion chunks, or as one     *)
(* completion, with the local variables of FormatStream and FormatJSON as  *)
(* the fields of a record f, as in AnthropicFormatter.                     *)
(***************************************************************************)
LOCAL INSTANCE Integers
LOCAL INSTANCE Sequences

CONSTANTS NoName

(* writeSSE: one chunk; its index is that of a tool call.                  *)
Chunk(type, index, kind, data) ==
  [type |-> type, index |-> index, kind |-> kind, data |-> data]

Write(f, chunk) == [f EXCEPT !.sent = Append(@, chunk)]

-----------------------------------------------------------------------------
(* FormatStream.                                                           *)

StreamStart ==
  [sent |-> <<Chunk("role", -1, "none", <<>>)>>,
   toolIndexes |-> <<>>, nextToolIndex |-> 0, hasToolCall |-> FALSE]

StreamText(f, text) == Write(f, Chunk("delta", -1, "text", text))

StreamThinking(f, text) == Write(f, Chunk("delta", -1, "thinking", text))

IndexTool(f, id) ==
  IF id \in DOMAIN f.toolIndexes THEN f
  ELSE [f EXCEPT !.nextToolIndex = @ + 1,
                 !.toolIndexes = [x \in DOMAIN @ \union {id} |->
                                    IF x = id THEN f.nextToolIndex ELSE @[x]]]

(* Every tool event is a chunk, and carries the identity of its call.      *)
StreamTool(f, call) ==
  LET g == IndexTool([f EXCEPT !.hasToolCall = TRUE], call.id)
  IN Write(g, Chunk("delta", g.toolIndexes[call.id], "tool_use",
                    [id |-> call.id, name |-> call.name, arguments |-> call.arguments]))

FinishReason(used) == IF used THEN "tool_calls" ELSE "stop"

StreamEnd(f, tokens) ==
  Write(Write(f, Chunk("finish", tokens, FinishReason(f.hasToolCall), <<>>)),
        Chunk("[DONE]", -1, "none", <<>>))

-----------------------------------------------------------------------------
(* FormatJSON.                                                             *)

JsonStart ==
  [sent |-> <<>>, text |-> <<>>, thinking |-> <<>>, order |-> <<>>, tools |-> <<>>]

JsonText(f, text) == [f EXCEPT !.text = @ \o text]

JsonThinking(f, text) == [f EXCEPT !.thinking = @ \o text]

(* Mutant: the last event of a call is the whole call.                     *)
JsonToolReplaced(f, call) ==
  [f EXCEPT !.order = IF call.id \in DOMAIN f.tools THEN @ ELSE Append(@, call.id),
            !.tools = [id \in DOMAIN @ \union {call.id} |->
              IF id = call.id THEN [name |-> call.name, arguments |-> call.arguments] ELSE @[id]]]

(* The accumulator keeps the last name that is not empty.                  *)
JsonTool(f, call) ==
  LET known == call.id \in DOMAIN f.tools
      acc == IF known THEN f.tools[call.id] ELSE [name |-> call.name, arguments |-> <<>>]
  IN [f EXCEPT !.order = IF known THEN @ ELSE Append(@, call.id),
               !.tools = [id \in DOMAIN @ \union {call.id} |->
                 IF id = call.id
                 THEN [name |-> IF call.name = NoName THEN acc.name ELSE call.name,
                       arguments |-> acc.arguments \o call.arguments]
                 ELSE @[id]]]

ToolCalls(f) ==
  [i \in 1..Len(f.order) |->
     [id |-> f.order[i], name |-> f.tools[f.order[i]].name,
      arguments |-> f.tools[f.order[i]].arguments]]

(* With tool calls, an estimate replaces a count that is smaller.          *)
JsonEnd(f, tokens) ==
  Write(f, [type |-> "completion", text |-> f.text, thinking |-> f.thinking,
            tools |-> ToolCalls(f), stop |-> FinishReason(f.order # <<>>),
            tokensAtLeast |-> tokens])

=============================================================================
