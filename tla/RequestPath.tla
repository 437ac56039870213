------------------------------ MODULE RequestPath ------------------------------
(***************************************************************************)
(* A request on its way to the upstream: the two HTTP handlers decode and  *)
(* parse what the client sent into unified messages, Service.Handle takes  *)
(* an account and chooses a payload strategy, and the CLI transport turns  *)
(* the messages into a history and a current message, once per attempt.    *)
(*                                                                         *)
(* One request is one goroutine.  What is unforeseeable is the client's    *)
(* messages, the account that Acquire gives, the session that may be gone, *)
(* and how the upstream refuses.  An answer is the beginning of            *)
(* ResponsePath.                                                           *)
(*                                                                         *)
(* A text is one value; the text of a history item is the sequence of      *)
(* those that joinTextParts puts together.                                 *)
(***************************************************************************)
EXTENDS UpstreamErrors, Integers, FiniteSets, SequencesExt, Selection

CONSTANTS
  Accounts, NoAccount,
  Texts, Ids,       \* of messages, and of tool calls
  Dash,             \* "-", the text of a message that has none
  Blank,            \* a text of white space only
  Requests,         \* bound: what the clients send
  Refusals,         \* bound: <<status, words>> of the answers that are not 200
  MaxSendAttempts

(* The client's messages.  Content that is not absent is "plain" JSON, or  *)
(* JSON that is encoded in base64: RawContent and RawSystem are byte       *)
(* slices to the JSON decoder, as a defined type has not the methods of    *)
(* json.RawMessage.  "odd" is encoded too, but neither a string nor a list *)
(* of blocks.                                                              *)
Encodings == {"none", "plain", "base64", "odd"}

(* A block that is no text, call or result: an image, one that is not well *)
(* encoded, one without inline data, and a block of a type that the        *)
(* handler does not know.                                                  *)
Blocks == {"image", "bad", "empty", "other"}

(* (The content of a result that is "odd" is passed on as one value, here  *)
(* a text.)                                                                *)
ClientResult == [id : Ids, texts : Seq(Texts), blocks : Seq(Blocks)]

Message ==
  [role : STRING, encoding : Encodings, texts : Seq(Texts), blocks : Seq(Blocks),
   calls : Seq(Ids), results : Seq(ClientResult), id : Ids]

Request ==
  [protocol : {"anthropic", "openai"}, named : BOOLEAN,   \* has a model's name
   sticky : BOOLEAN,
   system : [encoding : Encodings, texts : Seq(Texts)], messages : Seq(Message)]

ToolResult == [id : Ids, texts : Seq(Texts)]

ASSUME TextsAssumption == Dash \in Texts /\ Blank \in Texts
ASSUME RequestsAssumption == Requests \subseteq Request
ASSUME RefusalsAssumption == Refusals \subseteq (Nat \ {0}) \X SUBSET Signals
ASSUME AttemptAssumption == MaxSendAttempts \in Nat \ {0}

VARIABLES
  req,       \* what the client has sent
  pc,        \* where the request is
  index,     \* how many messages have been parsed, or converted
  system,    \* the texts of UnifiedRequest.SystemPrompt
  messages,  \* UnifiedRequest.Messages
  bound,     \* binding.AccountID
  strategy,  \* Metadata.PayloadStrategy
  conv,      \* Metadata.ConversationID: how often it was rotated
  lease,     \* lease.AccountID
  attempt,
  items,     \* the items of buildPayload
  repaired,  \* the result of ensureAlternating
  sent,      \* history: the payloads of the attempts
  refused,   \* history: how they failed
  status     \* the status code the client got, 0 before

requestVars == <<req, index, system, messages>>
sessionVars == <<bound, strategy, conv>>
payloadVars == <<items, repaired, sent>>
vars == <<requestVars, pc, sessionVars, lease, attempt, payloadVars, refused, status>>

-----------------------------------------------------------------------------
(* Parsing: toUnifiedRequest of the two handlers.                          *)

(* What the JSON decoder takes.                                            *)
Decodes(content) == content # "plain"

(* parseContent and parseAnthropicMessage refuse the whole request.        *)
HasBadImage(m) == \E i \in DOMAIN m.blocks : m.blocks[i] = "bad"

Unsupported(m) == m.encoding = "odd" \/ HasBadImage(m)

(* They pass over an image without data and a block of another type.       *)
Images(m) == Selected(m.blocks, {"image"})

(* parseToolResultContent takes the texts alone, and checks no image.      *)
ToolResultTexts(results) ==
  [i \in DOMAIN results |-> [id |-> results[i].id, texts |-> results[i].texts]]

HasText(texts) == \E i \in DOMAIN texts : texts[i] # Blank

(* parseAnthropicMessage.                                                  *)
AnthropicRole(m) == IF m.role = "assistant" THEN "assistant" ELSE "user"

AnthropicMessage(m) ==
  [role |-> AnthropicRole(m), texts |-> m.texts, images |-> Images(m),
   calls |-> m.calls, results |-> ToolResultTexts(m.results)]

(* toUnifiedRequest of OpenAI: only an assistant has calls, only a tool a  *)
(* result, which takes the parts.                                          *)
OpenAIRole(m) ==
  IF m.role \in {"system", "developer", "assistant", "tool"} THEN m.role ELSE "user"

(* Mutant: an assistant with calls has no text.                            *)
OpenAICallsOnly(m) ==
  LET tool == m.role = "tool"
  IN [role |-> OpenAIRole(m),
      texts |-> IF tool \/ m.calls # <<>> THEN <<>> ELSE m.texts,
      images |-> IF tool THEN <<>> ELSE Images(m),
      calls |-> IF m.role = "assistant" THEN m.calls ELSE <<>>,
      results |-> IF tool THEN <<[id |-> m.id, texts |-> m.texts]>> ELSE <<>>]

OpenAIMessage(m) ==
  LET tool == m.role = "tool"
  IN [role |-> OpenAIRole(m),
      texts |-> IF tool THEN <<>> ELSE m.texts,
      images |-> IF tool THEN <<>> ELSE Images(m),
      calls |-> IF m.role = "assistant" THEN m.calls ELSE <<>>,
      results |-> IF tool THEN <<[id |-> m.id, texts |-> m.texts]>> ELSE <<>>]

Unified(m) == IF req.protocol = "anthropic" THEN AnthropicMessage(m) ELSE OpenAIMessage(m)

IsSystem(m) == req.protocol = "openai" /\ OpenAIRole(m) \in {"system", "developer"}

-----------------------------------------------------------------------------
(* The items of the history.                                               *)

(* joinTextParts and ensureNonEmpty.                                       *)
NonEmpty(texts) == IF HasText(texts) THEN texts ELSE <<Dash>>

(* convertToolResults: images are left out, and nothing becomes "-".       *)
ToolResults(results) ==
  [i \in DOMAIN results |->
    [id |-> results[i].id,
     texts |-> IF results[i].texts = <<>> THEN <<Dash>>
               ELSE [k \in DOMAIN results[i].texts |->
                      IF results[i].texts[k] = Blank THEN Dash ELSE results[i].texts[k]]]]

UserItem(texts, images, results) ==
  [role |-> "user", text |-> NonEmpty(texts), images |-> images,
   results |-> ToolResults(results), uses |-> <<>>]

AssistantItem(texts, calls) ==
  [role |-> "assistant", text |-> NonEmpty(texts), images |-> <<>>, results |-> <<>>,
   uses |-> calls]

(* convertMessage: an assistant loses its images and a user its calls.     *)
ConvertMessage(m) ==
  CASE m.role = "assistant" -> AssistantItem(m.texts, m.calls)
    [] m.role = "tool" -> UserItem(<<>>, m.images, m.results)
    [] OTHER -> UserItem(m.texts, m.images, m.results)

HasSystem == HasText(system)

SystemItems ==
  IF HasSystem THEN <<UserItem(system, <<>>, <<>>), AssistantItem(<<>>, <<>>)>> ELSE <<>>

(* Mutant: only users are kept apart.                                      *)
SeparatorOfUsers(previous, item) ==
  IF previous.role # item.role \/ item.role = "assistant" THEN <<>>
  ELSE <<AssistantItem(<<>>, <<>>)>>

(* ensureAlternating puts an empty item of the other role between two      *)
(* neighbours of one role.                                                 *)
Separator(previous, item) ==
  IF previous.role # item.role THEN <<>>
  ELSE IF item.role = "user" THEN <<AssistantItem(<<>>, <<>>)>>
  ELSE <<UserItem(<<>>, <<>>, <<>>)>>

Repaired(s, item) ==
  IF s = <<>> THEN <<item>> ELSE s \o Separator(Last(s), item) \o <<item>>

(* applyPayloadStrategy: a compacted history is the system prompt.         *)
Trimmed(history) ==
  IF strategy # "sticky_compact" THEN history
  ELSE IF HasSystem /\ Len(history) >= 2 THEN SubSeq(history, 1, 2) ELSE <<>>

EndsWithUser == repaired # <<>> /\ Last(repaired).role = "user"

(* The current message is the last item, if it is the user's.  The tool    *)
(* documentation and the thinking mode are put around its text.            *)
Current == IF EndsWithUser THEN Last(repaired) ELSE UserItem(<<>>, <<>>, <<>>)

Payload ==
  [conv |-> conv, account |-> lease, compacted |-> strategy = "sticky_compact",
   history |-> Trimmed(IF EndsWithUser THEN Front(repaired) ELSE repaired),
   current |-> Current]

-----------------------------------------------------------------------------
Contents == {req.system.encoding} \union {req.messages[i].encoding : i \in DOMAIN req.messages}

UnifiedMessage ==
  [role : {"user", "assistant", "system", "developer", "tool"}, texts : Seq(Texts),
   images : Seq({"image"}), calls : Seq(Ids), results : Seq(ToolResult)]

Item ==
  [role : {"user", "assistant"}, text : Seq(Texts), images : Seq({"image"}),
   results : Seq(ToolResult), uses : Seq(Ids)]

PayloadType ==
  [conv : Nat, account : Accounts \union {NoAccount}, compacted : BOOLEAN,
   history : Seq(Item), current : Item]

Refusal == [code : Nat, words : SUBSET Signals, category : Categories]

TypeOK ==
  /\ req \in Requests
  /\ pc \in {"decode", "parse", "handle", "acquire", "convert", "repair", "sent", "done"}
  /\ index \in Nat
  /\ system \in Seq(Texts)
  /\ messages \in Seq(UnifiedMessage)
  /\ bound \in Accounts \union {NoAccount}
  /\ strategy \in {"none", "replay", "replay_seed", "sticky_full", "sticky_compact"}
  /\ conv \in Nat
  /\ lease \in Accounts \union {NoAccount}
  /\ attempt \in 1..MaxSendAttempts
  /\ items \in Seq(Item) /\ repaired \in Seq(Item)
  /\ sent \in Seq(PayloadType)
  /\ refused \in Seq(Refusal)
  /\ status \in {0, 200, 400, 401, 502}

(* A sticky request finds a session with an account, or one without.       *)
Init ==
  /\ req \in Requests
  /\ pc = "decode" /\ index = 0 /\ system = <<>> /\ messages = <<>>
  /\ bound = NoAccount /\ strategy = "none" /\ conv = 0
  /\ lease = NoAccount /\ attempt = 1
  /\ items = <<>> /\ repaired = <<>>
  /\ sent = <<>> /\ refused = <<>> /\ status = 0

Goto(from, to) == pc = from /\ pc' = to

(* The request ends with a status code: http.Error, or writeError.         *)
Fails(code) == pc' = "done" /\ status' = code

-----------------------------------------------------------------------------
(* The HTTP handler: ServeHTTP and toUnifiedRequest, which parses the      *)
(* system prompt first.                                                    *)

Decode ==
  /\ pc = "decode"
  /\ IF \A content \in Contents : Decodes(content)
     THEN IF req.system.encoding = "odd" THEN Fails(Code("validation"))
          ELSE pc' = "parse" /\ UNCHANGED status
     ELSE Fails(400)
  /\ system' = req.system.texts
  /\ UNCHANGED <<req, index, messages, sessionVars, lease, attempt, payloadVars, refused>>

(* Of a system message of OpenAI the text is kept, unless it is blank.     *)
Parse ==
  LET m == req.messages[index + 1]
  IN /\ pc = "parse" /\ index < Len(req.messages)
     /\ IF Unsupported(m)
        THEN Fails(Code("validation")) /\ UNCHANGED <<index, system, messages>>
        ELSE /\ index' = index + 1
             /\ system' = IF IsSystem(m) /\ HasText(m.texts) THEN system \o m.texts ELSE system
             /\ messages' = IF IsSystem(m) THEN messages ELSE Append(messages, Unified(m))
             /\ UNCHANGED <<pc, status>>
     /\ UNCHANGED <<req, sessionVars, lease, attempt, payloadVars, refused>>

Parsed ==
  /\ index = Len(req.messages) /\ Goto("parse", "handle")
  /\ UNCHANGED <<requestVars, sessionVars, lease, attempt, payloadVars, refused, status>>

-----------------------------------------------------------------------------
(* Service.Handle: the session, the account, the payload of an attempt.    *)

(* A request without a model ends before anything else.                    *)
Unnamed ==
  /\ pc = "handle" /\ ~req.named
  /\ Fails(Code("validation"))
  /\ UNCHANGED <<requestVars, sessionVars, lease, attempt, payloadVars, refused>>

(* prepareSessionBinding and determinePayloadStrategy.  A conversation is  *)
(* rotated when the client asks for it or has compacted its messages.      *)
Prepare(account, compact) ==
  /\ req.named /\ Goto("handle", "acquire")
  /\ IF req.sticky
     THEN /\ bound' = account
          /\ conv' = IF compact THEN conv + 1 ELSE conv
          /\ strategy' = IF compact THEN "sticky_compact"
                         ELSE IF account = NoAccount THEN "replay_seed" ELSE "sticky_full"
     ELSE strategy' = "replay" /\ UNCHANGED <<bound, conv>>
  /\ UNCHANGED <<requestVars, lease, attempt, payloadVars, refused, status>>

(* The error of the last attempt comes before that of Acquire.             *)
AcquireFails ==
  /\ pc = "acquire"
  /\ Fails(IF refused = <<>> THEN Code("auth") ELSE Code(refused[Len(refused)].category))
  /\ UNCHANGED <<requestVars, sessionVars, lease, attempt, payloadVars, refused>>

(* Mutant: the strategy stays when the account changes.                    *)
ChangedOnlyRotates == conv' = conv + 1 /\ UNCHANGED strategy

Changed == conv' = conv + 1 /\ strategy' = "sticky_compact"

(* An account that is not the session's rotates the conversation.  Update  *)
(* binds the account, unless the session is gone.                          *)
Acquire(account, alive) ==
  /\ Goto("acquire", "convert")
  /\ lease' = account
  /\ IF req.sticky /\ bound # NoAccount /\ bound # account
     THEN Changed ELSE UNCHANGED <<conv, strategy>>
  /\ bound' = IF req.sticky /\ alive THEN account ELSE bound
  /\ items' = SystemItems
  /\ repaired' = <<>>
  /\ index' = 0
  /\ UNCHANGED <<req, system, messages, attempt, sent, refused, status>>

-----------------------------------------------------------------------------
(* buildPayload, item by item.                                             *)

Convert ==
  /\ pc = "convert" /\ index < Len(messages)
  /\ index' = index + 1
  /\ items' = Append(items, ConvertMessage(messages[index + 1]))
  /\ UNCHANGED <<req, pc, system, messages, sessionVars, lease, attempt, repaired, sent, refused, status>>

Converted ==
  /\ index = Len(messages) /\ Goto("convert", "repair")
  /\ UNCHANGED <<requestVars, sessionVars, lease, attempt, payloadVars, refused, status>>

(* One step of the loop of ensureAlternating.                              *)
Repair ==
  /\ pc = "repair" /\ items # <<>>
  /\ repaired' = Repaired(repaired, Head(items))
  /\ items' = Tail(items)
  /\ UNCHANGED <<requestVars, pc, sessionVars, lease, attempt, sent, refused, status>>

Send ==
  /\ items = <<>> /\ Goto("repair", "sent")
  /\ sent' = Append(sent, Payload)
  /\ UNCHANGED <<requestVars, sessionVars, lease, attempt, items, repaired, refused, status>>

-----------------------------------------------------------------------------
(* The outcome of an attempt.                                              *)

Accepted ==
  /\ Goto("sent", "done")
  /\ status' = 200
  /\ UNCHANGED <<requestVars, sessionVars, lease, attempt, payloadVars, refused>>

(* ReportFailure, and shouldRetry.                                         *)
Failed(failure, retryable) ==
  /\ pc = "sent"
  /\ refused' = Append(refused, failure)
  /\ IF attempt < MaxSendAttempts /\ ShouldRetry(failure.category, retryable)
     THEN pc' = "acquire" /\ attempt' = attempt + 1 /\ UNCHANGED status
     ELSE Fails(Code(failure.category)) /\ UNCHANGED attempt
  /\ UNCHANGED <<requestVars, sessionVars, lease, payloadVars>>

Refused(code, words) ==
  Failed([code |-> code, words |-> words, category |-> HttpCategory(code, words)],
         HttpRetryable(code, words))

NoAnswer == Failed([code |-> 0, words |-> {}, category |-> "network"], TRUE)

Done == pc = "done" /\ UNCHANGED vars

-----------------------------------------------------------------------------
Next ==
  \/ Decode \/ Parse \/ Parsed \/ Unnamed
  \/ \E account \in Accounts \union {NoAccount}, compact \in BOOLEAN : Prepare(account, compact)
  \/ AcquireFails
  \/ \E account \in Accounts, alive \in BOOLEAN : Acquire(account, alive)
  \/ Convert \/ Converted \/ Repair \/ Send
  \/ Accepted \/ NoAnswer
  \/ \E refusal \in Refusals : Refused(refusal[1], refusal[2])
  \/ Done

Spec == Init /\ [][Next]_vars

-----------------------------------------------------------------------------
Whole(payload) == Append(payload.history, payload.current)

Alternates(s) == \A i \in 1..(Len(s) - 1) : s[i].role # s[i + 1].role

(* The upstream gets users and assistants in turns and the user last,      *)
(* whatever roles the client's messages have, with a system prompt, with a *)
(* history that is compacted, and with placeholders in between             *)
(* (ensureAlternating, applyPayloadStrategy, buildPayload).                *)
HistoryAlternates ==
  \A n \in DOMAIN sent : Alternates(Whole(sent[n])) /\ sent[n].current.role = "user"

-----------------------------------------------------------------------------
(* What the client has said of one kind, in the roles that may say it.     *)

Kinds == {"texts", "images", "calls", "results"}

Words(texts) == Selected(texts, Texts \ {Blank, Dash})

Results(results) ==
  [i \in DOMAIN results |-> [id |-> results[i].id, texts |-> Words(results[i].texts)]]

IsTool(m) == req.protocol = "openai" /\ m.role = "tool"

(* Tool messages are OpenAI's results, it has no others.                   *)
MessageSays(m, kind) ==
  CASE kind = "texts" /\ ~IsTool(m) -> Words(m.texts)
    [] kind = "images" /\ ~IsTool(m) /\ m.role # "assistant" -> Images(m)
    [] kind = "calls" /\ m.role = "assistant" -> m.calls
    [] kind = "results" /\ IsTool(m) -> Results(<<m>>)
    [] kind = "results" /\ req.protocol = "anthropic" /\ m.role # "assistant" -> Results(m.results)
    [] OTHER -> <<>>

Say(said, kind) == FlattenSeq([i \in DOMAIN said |-> MessageSays(said[i], kind)])

SystemMessages == {m \in ToSet(req.messages) : IsSystem(m)}

SystemSays(kind) ==
  IF kind # "texts" THEN <<>>
  ELSE Words(req.system.texts) \o Say(Selected(req.messages, SystemMessages), kind)

Spoken == Selected(req.messages, ToSet(req.messages) \ SystemMessages)

(* A compacted payload has but the last message, if it is not the          *)
(* assistant's.                                                            *)
Kept(payload) ==
  IF ~payload.compacted THEN Spoken
  ELSE IF Spoken = <<>> \/ Last(Spoken).role = "assistant" THEN <<>>
  ELSE <<Last(Spoken)>>

ItemSays(item, kind) ==
  CASE kind = "texts" -> Words(item.text)
    [] kind = "images" -> item.images
    [] kind = "calls" -> item.uses
    [] kind = "results" -> Results(item.results)

Carry(s, kind) == FlattenSeq([i \in DOMAIN s |-> ItemSays(s[i], kind)])

(* What the handlers understand reaches the upstream, once and in order,   *)
(* with every attempt: the texts that are not blank, the images with data  *)
(* of other messages than the assistant's, the assistant's tool calls, the *)
(* texts of tool results; and if the history is compacted, the system      *)
(* prompt and the last message do.  The handlers drop the rest without a   *)
(* word: images without inline data, blocks of other types, all but the    *)
(* texts of a tool result, and what a role does not have.                  *)
NothingLost ==
  \A n \in DOMAIN sent, kind \in Kinds :
    Carry(Whole(sent[n]), kind) = SystemSays(kind) \o Say(Kept(sent[n]), kind)

(* The history is left out exactly where the conversation is new: one that *)
(* this request has rotated gets no history of the one before, and one     *)
(* that it has not is not cut, however often the account changes between   *)
(* attempts (prepareSessionBinding, determinePayloadStrategy, Handle).     *)
CompactedIffRotated == \A n \in DOMAIN sent : sent[n].compacted <=> sent[n].conv > 0

-----------------------------------------------------------------------------
IsUnderstood ==
  /\ req.named /\ req.system.encoding # "odd"
  /\ \A content \in Contents : Decodes(content)
  /\ \A i \in DOMAIN req.messages : ~Unsupported(req.messages[i])

MayPass(refusal) ==
  refusal.code = 0 \/ refusal.code = 429 \/ refusal.code >= 500 \/ "quota" \in refusal.words

(* The blame is the client's only for what it has sent: of a request that  *)
(* is not understood nothing is sent, the client is told 400 only for that *)
(* or if the upstream says it and gives no other reason, and 401 only if   *)
(* an account was refused or there is none.  The next account is not       *)
(* burdened with what cannot pass (classifyHTTPError, shouldRetry).        *)
BlameIsFair ==
  /\ sent # <<>> => IsUnderstood
  /\ status = 400 => \/ sent = <<>> /\ ~IsUnderstood
                     \/ refused # <<>> /\ Last(refused).code = 400 /\ Last(refused).words = {}
  /\ status = 401 => \/ refused = <<>>
                     \/ Last(refused).code \in {401, 403} \/ "auth" \in Last(refused).words
  /\ \A n \in 1..(Len(sent) - 1) : MayPass(refused[n])

(* What a test takes for a request: content that is a plain string.        *)
PlainContentIsUnderstood == pc = "done" /\ sent = <<>> /\ status = 400 => "plain" \notin Contents

=============================================================================
