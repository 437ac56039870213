------------------------------ MODULE WebSearch -------------------------------
(***************************************************************************)
(* The web search client, src/internal/adapters/mcp/websearch/client.go:   *)
(* what a call of the MCP endpoint may come to, and the answer written     *)
(* from its results.                                                       *)
(***************************************************************************)
LOCAL INSTANCE Integers
LOCAL INSTANCE Sequences

CONSTANTS NoName

INSTANCE AnthropicFormatter
INSTANCE UpstreamErrors

(* call: no answer; an answer that breaks off, has another status, is not  *)
(* JSON, or carries an error; or results.                                  *)
CallErrors(statuses, bodies) ==
  {"network", "unknown"} \union {McpCategory(s, words) : s \in statuses \ {200}, words \in bodies}

(* buildSearchContent and buildSummary take at most maxUses results.       *)
Limit(found, maxUses) == IF maxUses > 0 /\ maxUses < found THEN maxUses ELSE found

(* writeStream: three blocks, one after the other.                         *)
StreamResults(query, found, maxUses) ==
  <<Event("message_start", -1, "none", <<>>),
    Event("content_block_start", 0, "server_tool_use", <<"web_search">>),
    Event("content_block_delta", 0, "server_tool_use", <<query>>),
    Event("content_block_stop", 0, "server_tool_use", <<>>),
    Event("content_block_start", 1, "web_search_tool_result", <<Limit(found, maxUses)>>),
    Event("content_block_stop", 1, "web_search_tool_result", <<>>),
    Event("content_block_start", 2, "text", <<>>),
    Event("content_block_delta", 2, "text", <<Limit(found, maxUses)>>),
    Event("content_block_stop", 2, "text", <<>>),
    Event("message_delta", 0, "end_turn", <<>>),
    Event("message_stop", -1, "none", <<>>)>>

(* writeJSON.                                                              *)
JsonResults(found, maxUses) ==
  <<[type |-> "message", text |-> <<Limit(found, maxUses)>>, thinking |-> <<>>,
     tools |-> <<>>, stop |-> "end_turn", tokens |-> 0]>>

=============================================================================
