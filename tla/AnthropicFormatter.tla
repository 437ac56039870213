-------------------------- MODULE AnthropicFormatter --------------------------
(***************************************************************************)
(* The Anthropic formatter, src/internal/adapters/formatter/anthropic/     *)
(* formatter.go: an answer as a stream of content blocks, or as one        *)
(* message.  FormatStream and FormatJSON keep what they know in local      *)
(* variables: here they are the fields of a record f, with what has been   *)
(* written to the client in f.sent.  Each operator is what one branch of   *)
(* the loop, or the code after it, makes of f.                             *)
(*                                                                         *)
(* Text is a sequence of characters, arguments a sequence of fragments.    *)
(***************************************************************************)
LOCAL INSTANCE Integers
LOCAL INSTANCE Sequences

CONSTANTS NoName   \* a tool event that does not repeat the name

(* writeEvent: one server-sent event.                                      *)
Event(type, index, kind, data) ==
  [type |-> type, index |-> index, kind |-> kind, data |-> data]

Write(f, event) == [f EXCEPT !.sent = Append(@, event)]

-----------------------------------------------------------------------------
(* FormatStream.                                                           *)

StreamStart ==
  [sent |-> <<Event("message_start", -1, "none", <<>>)>>,
   blockIndex |-> -1, activeText |-> -1, activeThinking |-> -1,
   toolBlocks |-> <<>>, hasToolUse |-> FALSE]

(* Mutant: the text block stays active.                                    *)
CloseTextOnly(f) ==
  IF f.activeText < 0 THEN f
  ELSE Write(f, Event("content_block_stop", f.activeText, "text", <<>>))

CloseText(f) ==
  IF f.activeText < 0 THEN f
  ELSE [Write(f, Event("content_block_stop", f.activeText, "text", <<>>))
        EXCEPT !.activeText = -1]

CloseThinking(f) ==
  IF f.activeThinking < 0 THEN f
  ELSE [Write(f, Event("content_block_stop", f.activeThinking, "thinking", <<>>))
        EXCEPT !.activeThinking = -1]

OpenText(f) ==
  IF f.activeText >= 0 THEN f
  ELSE [Write(f, Event("content_block_start", f.blockIndex + 1, "text", <<>>))
        EXCEPT !.blockIndex = @ + 1, !.activeText = f.blockIndex + 1]

OpenThinking(f) ==
  IF f.activeThinking >= 0 THEN f
  ELSE [Write(f, Event("content_block_start", f.blockIndex + 1, "thinking", <<>>))
        EXCEPT !.blockIndex = @ + 1, !.activeThinking = f.blockIndex + 1]

(* A segment of the splitter that is text.                                 *)
StreamText(f, text) ==
  LET g == OpenText(CloseThinking(f))
  IN Write(g, Event("content_block_delta", g.activeText, "text", text))

(* A segment that is thinking, or a reasoning event.                       *)
StreamThinking(f, text) ==
  LET g == OpenThinking(CloseText(f))
  IN Write(g, Event("content_block_delta", g.activeThinking, "thinking", text))

OpenTool(f, call) ==
  IF call.id \in DOMAIN f.toolBlocks THEN f
  ELSE [Write(f, Event("content_block_start", f.blockIndex + 1, "tool_use", <<call.id, call.name>>))
        EXCEPT !.blockIndex = @ + 1,
               !.toolBlocks = [id \in DOMAIN @ \union {call.id} |->
                                 IF id = call.id THEN f.blockIndex + 1 ELSE @[id]]]

ToolInput(f, call) ==
  IF call.arguments = <<>> THEN f
  ELSE Write(f, Event("content_block_delta", f.toolBlocks[call.id], "tool_use", call.arguments))

ToolStop(f, call) ==
  IF ~call.done THEN f
  ELSE [Write(f, Event("content_block_stop", f.toolBlocks[call.id], "tool_use", <<>>))
        EXCEPT !.toolBlocks = [id \in DOMAIN @ \ {call.id} |-> @[id]]]

(* A tool call event.                                                      *)
StreamTool(f, call) ==
  LET g == CloseThinking(CloseText([f EXCEPT !.hasToolUse = TRUE]))
  IN ToolStop(ToolInput(OpenTool(g, call), call), call)

(* The end of the answer: the active block is closed, then the tool blocks *)
(* that are left, in the order in which a Go map is ranged over.           *)
CloseBlocks(f) == CloseThinking(CloseText(f))

CloseTools(f, ids) ==
  [f EXCEPT !.sent = @ \o [i \in 1..Len(ids) |->
     Event("content_block_stop", f.toolBlocks[ids[i]], "tool_use", <<>>)]]

StopReason(used) == IF used THEN "tool_use" ELSE "end_turn"

StreamEnd(f, ids, tokens) ==
  LET g == CloseTools(CloseBlocks(f), ids)
  IN Write(Write(g, Event("message_delta", tokens, StopReason(f.hasToolUse), <<>>)),
           Event("message_stop", -1, "none", <<>>))

-----------------------------------------------------------------------------
(* FormatJSON.                                                             *)

JsonStart ==
  [sent |-> <<>>, text |-> <<>>, thinking |-> <<>>, order |-> <<>>, tools |-> <<>>]

JsonText(f, text) == [f EXCEPT !.text = @ \o text]

JsonThinking(f, text) == [f EXCEPT !.thinking = @ \o text]

(* The last event of a call gives the call its name.                       *)
JsonTool(f, call) ==
  LET known == call.id \in DOMAIN f.tools
      input == IF known THEN f.tools[call.id].arguments ELSE <<>>
  IN [f EXCEPT !.order = IF known THEN @ ELSE Append(@, call.id),
               !.tools = [id \in DOMAIN @ \union {call.id} |->
                 IF id = call.id
                 THEN [name |-> call.name, arguments |-> input \o call.arguments]
                 ELSE @[id]]]

ToolsInOrder(f) ==
  [i \in 1..Len(f.order) |->
     [id |-> f.order[i], name |-> f.tools[f.order[i]].name,
      arguments |-> f.tools[f.order[i]].arguments]]

JsonEnd(f, tokens) ==
  Write(f, [type |-> "message", text |-> f.text, thinking |-> f.thinking,
            tools |-> ToolsInOrder(f), stop |-> StopReason(f.order # <<>>),
            tokens |-> tokens])

=============================================================================
