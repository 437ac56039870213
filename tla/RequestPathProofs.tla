--------------------------- MODULE RequestPathProofs ---------------------------
(***************************************************************************)
(* Proofs about RequestPath, for all requests, all refusals and any number *)
(* of accounts and attempts: its type invariant, and that the history of   *)
(* every payload alternates, that it is left out exactly when the          *)
(* conversation is new, that the blame is fair, and that nothing of what   *)
(* the client says is lost.                                                *)
(***************************************************************************)
EXTENDS RequestPath, SequenceLemmas

-----------------------------------------------------------------------------
(* The items are typed.                                                    *)

(* joinTextParts and ensureNonEmpty return a text.                         *)
LEMMA NonEmptyType == ASSUME NEW texts \in Seq(Texts) PROVE NonEmpty(texts) \in Seq(Texts)
  BY TextsAssumption DEF NonEmpty

(* convertToolResults returns one result for each.                         *)
LEMMA ToolResultsType ==
  ASSUME NEW results \in Seq(ToolResult) PROVE ToolResults(results) \in Seq(ToolResult)
<1> DEFINE Converted1(i) ==
      IF results[i].texts = <<>> THEN <<Dash>>
      ELSE [k \in DOMAIN results[i].texts |->
             IF results[i].texts[k] = Blank THEN Dash ELSE results[i].texts[k]]
<1>1. ASSUME NEW i \in DOMAIN results PROVE Converted1(i) \in Seq(Texts)
  <2> results[i] \in ToolResult  BY <1>1
  <2>1. results[i].texts \in Seq(Texts)  BY DEF ToolResult
  <2>2. DOMAIN results[i].texts = 1..Len(results[i].texts) /\ Len(results[i].texts) \in Nat  BY <2>1
  <2>3. \A k \in DOMAIN results[i].texts : results[i].texts[k] \in Texts  BY <2>1
  <2> QED  BY <2>1, <2>2, <2>3, TextsAssumption
<1> HIDE DEF Converted1
<1>2. ASSUME NEW i \in DOMAIN results
      PROVE  [id |-> results[i].id, texts |-> Converted1(i)] \in ToolResult
  <2> results[i] \in ToolResult  OBVIOUS
  <2> QED  BY <1>1 DEF ToolResult
<1>3. ToolResults(results) = [i \in DOMAIN results |-> [id |-> results[i].id, texts |-> Converted1(i)]]
  BY DEF ToolResults, Converted1
<1> QED  BY <1>2, <1>3

(* What a user item is.                                                    *)
LEMMA UserItemType ==
  ASSUME NEW texts \in Seq(Texts), NEW images \in Seq({"image"}),
         NEW results \in Seq(ToolResult)
  PROVE  UserItem(texts, images, results) \in Item /\ UserItem(texts, images, results).role = "user"
BY NonEmptyType, ToolResultsType DEF UserItem, Item

(* What an assistant item is.                                              *)
LEMMA AssistantItemType ==
  ASSUME NEW texts \in Seq(Texts), NEW calls \in Seq(Ids)
  PROVE  AssistantItem(texts, calls) \in Item /\ AssistantItem(texts, calls).role = "assistant"
BY NonEmptyType DEF AssistantItem, Item

(* Every message becomes an item.                                          *)
LEMMA ConvertMessageType ==
  ASSUME NEW m \in UnifiedMessage PROVE ConvertMessage(m) \in Item
<1>1. /\ m.texts \in Seq(Texts) /\ m.images \in Seq({"image"}) /\ m.calls \in Seq(Ids)
      /\ m.results \in Seq(ToolResult) /\ <<>> \in Seq(Texts)
  BY DEF UnifiedMessage
<1> QED  BY <1>1, UserItemType, AssistantItemType DEF ConvertMessage

(* What the parsers take of a message has its type.                        *)
LEMMA ParsedTypes ==
  ASSUME NEW m \in Message
  PROVE  /\ m.texts \in Seq(Texts) /\ Images(m) \in Seq({"image"}) /\ m.calls \in Seq(Ids)
         /\ m.id \in Ids /\ m.results \in Seq(ClientResult)
         /\ ToolResultTexts(m.results) \in Seq(ToolResult)
<1>1. /\ m.texts \in Seq(Texts) /\ m.blocks \in Seq(Blocks) /\ m.calls \in Seq(Ids)
      /\ m.id \in Ids /\ m.results \in Seq(ClientResult)
  BY DEF Message
<1>2. Images(m) \in Seq({"image"})
  <2>1. Images(m) \in Seq(Blocks \intersect {"image"})
    BY <1>1, SelectedMembers DEF Images
  <2>2. Blocks \intersect {"image"} = {"image"}
    BY DEF Blocks
  <2> QED
    BY <2>1, <2>2
<1>3. ToolResultTexts(m.results) \in Seq(ToolResult)
  <2>1. PICK r \in Seq(ClientResult) : r = m.results
    BY <1>1
  <2>2. \A i \in 1..Len(r) : [id |-> r[i].id, texts |-> r[i].texts] \in ToolResult
    <3> SUFFICES ASSUME NEW i \in 1..Len(r)
                 PROVE  [id |-> r[i].id, texts |-> r[i].texts] \in ToolResult
      OBVIOUS
    <3>1. r[i] \in ClientResult
      OBVIOUS
    <3> QED
      BY <3>1 DEF ClientResult, ToolResult
  <2>3. ToolResultTexts(r) = [i \in 1..Len(r) |-> [id |-> r[i].id, texts |-> r[i].texts]]
    BY DEF ToolResultTexts
  <2>4. ToolResultTexts(r) \in Seq(ToolResult)
    BY <2>2, <2>3
  <2> QED
    BY <2>1, <2>4
<1> QED
  BY <1>1, <1>2, <1>3

(* toUnifiedRequest returns unified messages.                              *)
LEMMA UnifiedType ==
  ASSUME NEW m \in Message PROVE Unified(m) \in UnifiedMessage
<1>0. /\ m.texts \in Seq(Texts) /\ Images(m) \in Seq({"image"}) /\ m.calls \in Seq(Ids)
      /\ m.id \in Ids /\ ToolResultTexts(m.results) \in Seq(ToolResult)
  BY ParsedTypes
<1>1. AnthropicMessage(m) \in UnifiedMessage
  BY <1>0 DEF AnthropicMessage, AnthropicRole, UnifiedMessage
<1>2. OpenAIMessage(m) \in UnifiedMessage
  <2>1. /\ m.texts \in Seq(Texts) /\ Images(m) \in Seq({"image"}) /\ m.calls \in Seq(Ids)
        /\ m.id \in Ids
    BY <1>0
  <2>2. [id |-> m.id, texts |-> m.texts] \in ToolResult  BY <2>1 DEF ToolResult
  <2>3. <<[id |-> m.id, texts |-> m.texts]>> \in Seq(ToolResult)  BY <2>2
  <2> QED  BY <2>1, <2>3 DEF OpenAIMessage, OpenAIRole, UnifiedMessage
<1> QED  BY <1>1, <1>2 DEF Unified

(* A system prompt becomes items that begin with the user.                 *)
LEMMA SystemItemsType ==
  ASSUME system \in Seq(Texts)
  PROVE  /\ SystemItems \in Seq(Item)
         /\ HasSystem => SystemItems # <<>> /\ SystemItems[1].role = "user"
<1> /\ <<>> \in Seq(Texts) /\ <<>> \in Seq({"image"})
    /\ <<>> \in Seq(ToolResult) /\ <<>> \in Seq(Ids)
  OBVIOUS
<1>1. UserItem(system, <<>>, <<>>) \in Item /\ UserItem(system, <<>>, <<>>).role = "user"
  BY UserItemType
<1>2. AssistantItem(<<>>, <<>>) \in Item  BY AssistantItemType
<1> QED  BY <1>1, <1>2 DEF SystemItems

-----------------------------------------------------------------------------
(* The repair of the history, and the payload.                             *)

(* What ensureAlternating puts between two items separates them.           *)
LEMMA SeparatorType ==
  ASSUME NEW previous \in Item, NEW item \in Item
  PROVE  \/ Separator(previous, item) = <<>> /\ previous.role # item.role
         \/ \E x \in Item : /\ Separator(previous, item) = <<x>>
                           /\ x.role # previous.role /\ x.role # item.role
<1> /\ <<>> \in Seq(Texts) /\ <<>> \in Seq({"image"})
    /\ <<>> \in Seq(ToolResult) /\ <<>> \in Seq(Ids)
  OBVIOUS
<1>1. UserItem(<<>>, <<>>, <<>>) \in Item /\ UserItem(<<>>, <<>>, <<>>).role = "user"
  BY UserItemType
<1>2. AssistantItem(<<>>, <<>>) \in Item /\ AssistantItem(<<>>, <<>>).role = "assistant"
  BY AssistantItemType
<1>3. item.role \in {"user", "assistant"}  BY DEF Item
<1> QED  BY <1>1, <1>2, <1>3 DEF Separator

(* An item of the other role may follow.                                   *)
LEMMA AppendAlternates ==
  ASSUME NEW s \in Seq(Item), NEW item \in Item, Alternates(s),
         s # <<>> => Last(s).role # item.role
  PROVE  /\ Append(s, item) \in Seq(Item) /\ Append(s, item) # <<>>
         /\ Alternates(Append(s, item)) /\ Last(Append(s, item)) = item
<1>1. Len(Append(s, item)) = Len(s) + 1 /\ Len(s) \in Nat  OBVIOUS
<1>2. \A i \in 1..Len(s) : Append(s, item)[i] = s[i]  OBVIOUS
<1>3. Append(s, item)[Len(s) + 1] = item  OBVIOUS
<1>4. ASSUME NEW i \in 1..(Len(Append(s, item)) - 1)
      PROVE  Append(s, item)[i].role # Append(s, item)[i + 1].role
  <2>1. CASE i = Len(s)
    <3>1. s # <<>> /\ Last(s) = s[i]  BY <2>1, <1>1 DEF Last
    <3> QED  BY <2>1, <3>1, <1>1, <1>2, <1>3
  <2>2. CASE i # Len(s)
    <3>1. i \in 1..(Len(s) - 1) /\ i \in 1..Len(s) /\ i + 1 \in 1..Len(s)  BY <2>2, <1>1
    <3> QED  BY <3>1, <1>2 DEF Alternates
  <2> QED  BY <2>1, <2>2
<1>5. Alternates(Append(s, item))  BY <1>4 DEF Alternates
<1>6. Last(Append(s, item)) = item  BY <1>1, <1>3 DEF Last
<1> QED  BY <1>1, <1>5, <1>6

(* One step of ensureAlternating keeps the result alternating, and its     *)
(* first item.                                                             *)
LEMMA RepairedAlternates ==
  ASSUME NEW s \in Seq(Item), NEW item \in Item, Alternates(s)
  PROVE  /\ Repaired(s, item) \in Seq(Item) /\ Repaired(s, item) # <<>>
         /\ Alternates(Repaired(s, item))
         /\ Repaired(s, item)[1] = IF s = <<>> THEN item ELSE s[1]
<1>1. CASE s = <<>>
  BY <1>1 DEF Repaired, Alternates
<1>2. CASE s # <<>>
  <2>1. Last(s) \in Item  BY <1>2 DEF Last
  <2>2. CASE Separator(Last(s), item) = <<>> /\ Last(s).role # item.role
    <3>1. Repaired(s, item) = Append(s, item)  BY <1>2, <2>2 DEF Repaired
    <3> QED  BY <3>1, <1>2, <2>2, AppendAlternates
  <2>3. ASSUME NEW x \in Item, Separator(Last(s), item) = <<x>>,
               x.role # Last(s).role, x.role # item.role
        PROVE  /\ Repaired(s, item) \in Seq(Item) /\ Repaired(s, item) # <<>>
               /\ Alternates(Repaired(s, item)) /\ Repaired(s, item)[1] = s[1]
    <3> DEFINE t == Append(s, x)
    <3>1. Repaired(s, item) = Append(t, item)  BY <1>2, <2>3 DEF Repaired
    <3>2. /\ t \in Seq(Item) /\ t # <<>> /\ Alternates(t) /\ Last(t) = x
      BY <2>3, <1>2, AppendAlternates
    <3>3. t[1] = s[1]  BY <1>2
    <3> HIDE DEF t
    <3>4. /\ Append(t, item) \in Seq(Item) /\ Append(t, item) # <<>>
          /\ Alternates(Append(t, item))
      BY <3>2, <2>3, AppendAlternates
    <3>5. Append(t, item)[1] = t[1]  BY <3>2
    <3> QED  BY <3>1, <3>3, <3>4, <3>5
  <2>4. \/ Separator(Last(s), item) = <<>> /\ Last(s).role # item.role
        \/ \E x \in Item : /\ Separator(Last(s), item) = <<x>>
                          /\ x.role # Last(s).role /\ x.role # item.role
    BY <2>1, SeparatorType
  <2> QED  BY <1>2, <2>2, <2>3, <2>4
<1> QED  BY <1>1, <1>2

(* The same without the alternation.                                       *)
LEMMA RepairedType ==
  ASSUME NEW s \in Seq(Item), NEW item \in Item PROVE Repaired(s, item) \in Seq(Item)
<1>1. CASE s = <<>>  BY <1>1 DEF Repaired
<1>2. CASE s # <<>>
  <2>1. Last(s) \in Item  BY <1>2 DEF Last
  <2>2. \/ Separator(Last(s), item) = <<>>
        \/ \E x \in Item : Separator(Last(s), item) = <<x>>
    BY <2>1, SeparatorType
  <2>4. <<>> \in Seq(Item) /\ \A x \in Item : <<x>> \in Seq(Item)  OBVIOUS
  <2>3. Separator(Last(s), item) \in Seq(Item)  BY <2>2, <2>4, Zenon
  <2> QED  BY <1>2, <2>3 DEF Repaired
<1> QED  BY <1>1, <1>2

(* The last item may be taken away.                                        *)
LEMMA FrontAlternates ==
  ASSUME NEW s \in Seq(Item), s # <<>>, Alternates(s)
  PROVE  /\ Front(s) \in Seq(Item) /\ Len(Front(s)) = Len(s) - 1
         /\ \A i \in 1..Len(Front(s)) : Front(s)[i] = s[i]
         /\ Alternates(Front(s))
         /\ Front(s) # <<>> => Last(Front(s)).role # Last(s).role
<1>1. Len(s) \in Nat /\ Len(s) > 0  OBVIOUS
<1>2. Front(s) = SubSeq(s, 1, Len(s) - 1)  BY DEF Front
<1>3. Front(s) \in Seq(Item) /\ Len(Front(s)) = Len(s) - 1
  <2> DEFINE n == Len(s) - 1
  <2>1. n \in Nat /\ 1 \in Int /\ n \in Int /\ \A k \in 1..n : s[k] \in Item  BY <1>1
  <2>2. Front(s) = SubSeq(s, 1, n)  BY <1>2
  <2> HIDE DEF n
  <2>3. SubSeq(s, 1, n) \in Seq(Item)  BY <2>1
  <2>5. Len(SubSeq(s, 1, n)) = n  BY <2>1
  <2>4. Len(Front(s)) = n  BY <2>2, <2>5
  <2> QED  BY <2>2, <2>3, <2>4 DEF n
<1>4. \A i \in 1..Len(Front(s)) : Front(s)[i] = s[i]  BY <1>1, <1>2, <1>3
<1>5. Alternates(Front(s))
  <2> SUFFICES ASSUME NEW i \in 1..(Len(Front(s)) - 1)
               PROVE  Front(s)[i].role # Front(s)[i + 1].role
    BY DEF Alternates
  <2>1. i \in 1..(Len(s) - 1) /\ i \in 1..Len(Front(s)) /\ i + 1 \in 1..Len(Front(s))
    BY <1>1, <1>3
  <2> QED  BY <2>1, <1>4 DEF Alternates
<1>6. ASSUME Front(s) # <<>> PROVE Last(Front(s)).role # Last(s).role
  <2>1. Len(s) - 1 \in 1..(Len(s) - 1) /\ Len(s) - 1 \in 1..Len(Front(s))  BY <1>1, <1>3, <1>6
  <2>2. s[Len(s) - 1].role # s[Len(s) - 1 + 1].role  BY <2>1 DEF Alternates
  <2> QED  BY <2>1, <2>2, <1>1, <1>3, <1>4 DEF Last
<1> QED  BY <1>3, <1>4, <1>5, <1>6

(* A history that is cut to its first two items still alternates and ends  *)
(* with an assistant, as it begins with the user's system prompt.          *)
LEMMA TrimmedAlternates ==
  ASSUME NEW s \in Seq(Item), Alternates(s),
         s # <<>> => Last(s).role = "assistant",
         HasSystem /\ s # <<>> => s[1].role = "user"
  PROVE  /\ Trimmed(s) \in Seq(Item) /\ Alternates(Trimmed(s))
         /\ Trimmed(s) # <<>> => Last(Trimmed(s)).role = "assistant"
<1>1. CASE strategy # "sticky_compact"  BY <1>1 DEF Trimmed
<1>2. CASE strategy = "sticky_compact" /\ ~(HasSystem /\ Len(s) >= 2)
  BY <1>2 DEF Trimmed, Alternates
<1>3. CASE strategy = "sticky_compact" /\ HasSystem /\ Len(s) >= 2
  <2> DEFINE t == SubSeq(s, 1, 2)
  <2>1. Trimmed(s) = t  BY <1>3 DEF Trimmed
  <2>2. t \in Seq(Item) /\ Len(t) = 2 /\ t[1] = s[1] /\ t[2] = s[2]  BY <1>3
  <2>3. s # <<>> /\ s[1].role = "user"  BY <1>3
  <2>4. s[1].role # s[2].role
    <3>1. Len(s) \in Nat /\ 1 \in 1..(Len(s) - 1)  BY <1>3
    <3> QED  BY <3>1 DEF Alternates
  <2>5. s[2] \in Item  BY <1>3
  <2>6. t[2].role = "assistant"  BY <2>2, <2>3, <2>4, <2>5 DEF Item
  <2> HIDE DEF t
  <2>7. Alternates(t)  BY <2>2, <2>3, <2>6 DEF Alternates
  <2> QED  BY <2>1, <2>2, <2>6, <2>7 DEF Last
<1> QED  BY <1>1, <1>2, <1>3

RepairDone ==
  /\ repaired \in Seq(Item) /\ Alternates(repaired)
  /\ HasSystem /\ repaired # <<>> => repaired[1].role = "user"

(* Every payload that buildPayload makes of an alternating history         *)
(* alternates, with the current message of the user at its end.            *)
LEMMA PayloadAlternates ==
  ASSUME RepairDone
  PROVE  /\ Payload.history \in Seq(Item) /\ Payload.current \in Item
         /\ Alternates(Whole(Payload)) /\ Payload.current.role = "user"
<1> DEFINE h == IF EndsWithUser THEN Front(repaired) ELSE repaired
<1> /\ <<>> \in Seq(Texts) /\ <<>> \in Seq({"image"})
    /\ <<>> \in Seq(ToolResult) /\ <<>> \in Seq(Ids)
  OBVIOUS
<1>1. Current \in Item /\ Current.role = "user"
  <2>1. repaired # <<>> => Last(repaired) \in Item  BY DEF RepairDone, Last
  <2> QED  BY <2>1, UserItemType DEF Current, EndsWithUser
<1>2. /\ h \in Seq(Item) /\ Alternates(h)
      /\ h # <<>> => Last(h).role = "assistant"
      /\ HasSystem /\ h # <<>> => h[1].role = "user"
  <2>1. CASE EndsWithUser
    <3>1. repaired # <<>> /\ Last(repaired).role = "user"  BY <2>1 DEF EndsWithUser
    <3>2. /\ Front(repaired) \in Seq(Item) /\ Alternates(Front(repaired))
          /\ Front(repaired) # <<>> => Last(Front(repaired)).role # Last(repaired).role
          /\ \A i \in 1..Len(Front(repaired)) : Front(repaired)[i] = repaired[i]
      BY <3>1, FrontAlternates DEF RepairDone
    <3>3. Front(repaired) # <<>> => Last(Front(repaired)) \in Item /\ 1 \in 1..Len(Front(repaired))
      BY <3>2 DEF Last
    <3>4. h = Front(repaired)  BY <2>1
    <3> HIDE DEF h
    <3> QED  BY <3>1, <3>2, <3>3, <3>4 DEF RepairDone, Item
  <2>2. CASE ~EndsWithUser
    <3>1. repaired # <<>> => Last(repaired) \in Item  BY DEF RepairDone, Last
    <3> QED  BY <2>2, <3>1 DEF RepairDone, EndsWithUser, Item
  <2> QED  BY <2>1, <2>2
<1>3. Payload.history = Trimmed(h) /\ Payload.current = Current  BY DEF Payload
<1> HIDE DEF h
<1>4. /\ Trimmed(h) \in Seq(Item) /\ Alternates(Trimmed(h))
      /\ Trimmed(h) # <<>> => Last(Trimmed(h)).role = "assistant"
  BY <1>2, TrimmedAlternates
<1>5. Alternates(Append(Trimmed(h), Current))  BY <1>1, <1>4, AppendAlternates
<1> QED  BY <1>1, <1>3, <1>4, <1>5 DEF Whole

(* The payload has its type.                                               *)
LEMMA PayloadTyped ==
  ASSUME repaired \in Seq(Item), conv \in Nat, lease \in Accounts \union {NoAccount}
  PROVE  Payload \in PayloadType
<1> DEFINE h == IF EndsWithUser THEN Front(repaired) ELSE repaired
<1> /\ <<>> \in Seq(Texts) /\ <<>> \in Seq({"image"})
    /\ <<>> \in Seq(ToolResult) /\ <<>> \in Seq(Ids)
  OBVIOUS
<1>1. Current \in Item
  <2>1. repaired # <<>> => Last(repaired) \in Item  BY DEF Last
  <2> QED  BY <2>1, UserItemType DEF Current, EndsWithUser
<1>2. h \in Seq(Item)
  <2>1. repaired # <<>> => SubSeq(repaired, 1, Len(repaired) - 1) \in Seq(Item)  OBVIOUS
  <2> QED  BY <2>1 DEF EndsWithUser, Front
<1> HIDE DEF h
<1>3. Trimmed(h) \in Seq(Item)  BY <1>2 DEF Trimmed
<1>4. Payload = [conv |-> conv, account |-> lease, compacted |-> strategy = "sticky_compact",
                 history |-> Trimmed(h), current |-> Current]
  BY DEF Payload, h
<1> QED  BY <1>1, <1>3, <1>4 DEF PayloadType

-----------------------------------------------------------------------------
(* What is made of a refusal.                                              *)

(* The status code of a category.                                          *)
LEMMA CodeCases ==
  \A c : /\ Code(c) \in {400, 401, 502}
         /\ Code(c) = 400 <=> c = "validation"
         /\ Code(c) = 401 <=> c = "auth"
<1> TAKE c
<1>1. CASE c = "validation"
  <2>1. Code(c) = 400  BY <1>1, Zenon DEF Code
  <2> QED  BY <1>1, <2>1
<1>2. CASE c = "auth"
  <2>1. "auth" # "validation"  OBVIOUS
  <2>2. Code(c) = 401  BY <1>2, <2>1, Zenon DEF Code
  <2> QED  BY <1>2, <2>2
<1>3. CASE c # "validation" /\ c # "auth"
  <2>1. Code(c) = 502  BY <1>3, Zenon DEF Code
  <2> QED  BY <1>3, <2>1
<1> QED  BY <1>1, <1>2, <1>3

(* The signal that words give.                                             *)
LEMMA SignalCases ==
  ASSUME NEW words \in SUBSET Signals
  PROVE  /\ DetectSignal(words) \in {"ban", "quota", "auth", "none"}
         /\ DetectSignal(words) # "none" => DetectSignal(words) \in words
         /\ DetectSignal(words) = "none" <=> words = {}
BY DEF DetectSignal, Signals

(* The category of a refusal: that of a signal in it, or else that of its  *)
(* status.                                                                 *)
LEMMA CategoryCases ==
  ASSUME NEW code \in Nat, NEW words \in SUBSET Signals
  PROVE  /\ HttpCategory(code, words) \in Categories
         /\ HttpCategory(code, words) = "validation" => code = 400 /\ words = {}
         /\ HttpCategory(code, words) = "auth" => code \in {401, 403} \/ "auth" \in words
         /\ HttpCategory(code, words) = "quota" => code = 429 \/ "quota" \in words
         /\ HttpCategory(code, words) = "network" => code >= 500
<1>1. CASE DetectSignal(words) # "none"
  BY <1>1, SignalCases DEF HttpCategory, Categories
<1>2. CASE DetectSignal(words) = "none"
  <2>1. words = {}  BY <1>2, SignalCases
  <2> QED  BY <1>2, <2>1 DEF HttpCategory, Categories
<1> QED  BY <1>1, <1>2

(* What shouldRetry accepts may pass.                                      *)
LEMMA RetryMayPass ==
  ASSUME NEW code \in Nat, NEW words \in SUBSET Signals,
         ShouldRetry(HttpCategory(code, words), HttpRetryable(code, words))
  PROVE  code = 429 \/ code >= 500 \/ "quota" \in words
BY CategoryCases, SignalCases DEF ShouldRetry, HttpRetryable

-----------------------------------------------------------------------------
(* Type correctness.                                                       *)

(* The types at the start.                                                 *)
LEMMA InitType == Init => TypeOK
BY AttemptAssumption DEF Init, TypeOK

(* A refusal keeps the types.                                              *)
LEMMA FailedType ==
  ASSUME TypeOK, NEW failure \in Refusal, NEW retryable \in BOOLEAN, Failed(failure, retryable)
  PROVE  TypeOK'
<1>1. refused' \in Seq(Refusal)  BY DEF Failed, TypeOK
<1>2. pc' \in {"acquire", "done"} /\ status' \in {0, 200, 400, 401, 502}
  BY CodeCases DEF Failed, Fails, TypeOK
<1>3. attempt' \in 1..MaxSendAttempts  BY AttemptAssumption DEF Failed, TypeOK
<1> QED
  BY <1>1, <1>2, <1>3 DEF Failed, TypeOK, requestVars, sessionVars, payloadVars

(* Every step keeps the types.                                             *)
LEMMA TypeStep == TypeOK /\ [Next]_vars => TypeOK'
<1> SUFFICES ASSUME TypeOK, [Next]_vars PROVE TypeOK'
  OBVIOUS
<1>1. CASE Decode
  <2>1. system' \in Seq(Texts)  BY <1>1, RequestsAssumption DEF Decode, TypeOK, Request
  <2>2. Code("validation") \in {400, 401, 502}  BY CodeCases
  <2> QED  BY <1>1, <2>1, <2>2 DEF Decode, Fails, TypeOK, sessionVars, payloadVars
<1>2. CASE Parse
  <2> DEFINE m == req.messages[index + 1]
  <2>1. req.messages \in Seq(Message)  BY RequestsAssumption DEF TypeOK, Request
  <2>2. m \in Message  BY <1>2, <2>1 DEF Parse, TypeOK
  <2>3. Unified(m) \in UnifiedMessage /\ m.texts \in Seq(Texts)
    BY <2>2, UnifiedType DEF Message
  <2> HIDE DEF m
  <2>4. Append(messages, Unified(m)) \in Seq(UnifiedMessage) /\ system \o m.texts \in Seq(Texts)
    BY <2>3 DEF TypeOK
  <2>5. messages' \in Seq(UnifiedMessage) /\ system' \in Seq(Texts)
    BY <1>2, <2>4 DEF Parse, TypeOK, m
  <2>7. Code("validation") \in {400, 401, 502}  BY CodeCases
  <2>6. index' \in Nat /\ status' \in {0, 200, 400, 401, 502} /\ pc' \in {"parse", "done"}
    <3>1. CASE Unsupported(req.messages[index + 1])
      BY <1>2, <2>7, <3>1 DEF Parse, Fails, TypeOK
    <3>2. CASE ~Unsupported(req.messages[index + 1])
      BY <1>2, <3>2 DEF Parse, TypeOK
    <3> QED  BY <3>1, <3>2
  <2> QED  BY <1>2, <2>5, <2>6 DEF Parse, TypeOK, sessionVars, payloadVars
<1>3. CASE Parsed
  BY <1>3 DEF Parsed, Goto, TypeOK, requestVars, sessionVars, payloadVars
<1>0. CASE Unnamed
  <2>1. status' \in {400, 401, 502}  BY <1>0, CodeCases DEF Unnamed, Fails
  <2> QED  BY <1>0, <2>1 DEF Unnamed, Fails, TypeOK, requestVars, sessionVars, payloadVars
<1>4. ASSUME NEW account \in Accounts \union {NoAccount}, NEW compact \in BOOLEAN,
             Prepare(account, compact)
      PROVE  TypeOK'
  <2>1. /\ bound' \in Accounts \union {NoAccount} /\ conv' \in Nat
        /\ strategy' \in {"none", "replay", "replay_seed", "sticky_full", "sticky_compact"}
    BY <1>4 DEF Prepare, TypeOK
  <2> QED  BY <1>4, <2>1 DEF Prepare, Goto, TypeOK, requestVars, payloadVars
<1>5. CASE AcquireFails
  <2>1. status' \in {400, 401, 502}  BY <1>5, CodeCases DEF AcquireFails, Fails
  <2> QED  BY <1>5, <2>1 DEF AcquireFails, Fails, TypeOK, requestVars, sessionVars, payloadVars
<1>6. ASSUME NEW account \in Accounts, NEW alive \in BOOLEAN, Acquire(account, alive)
      PROVE  TypeOK'
  <2>1. items' \in Seq(Item)  BY <1>6, SystemItemsType DEF Acquire, TypeOK
  <2>2. /\ bound' \in Accounts \union {NoAccount} /\ conv' \in Nat
        /\ strategy' \in {"none", "replay", "replay_seed", "sticky_full", "sticky_compact"}
    BY <1>6 DEF Acquire, Changed, TypeOK
  <2> QED  BY <1>6, <2>1, <2>2 DEF Acquire, Goto, TypeOK
<1>7. CASE Convert
  <2>1. messages[index + 1] \in UnifiedMessage  BY <1>7 DEF Convert, TypeOK
  <2>2. ConvertMessage(messages[index + 1]) \in Item  BY <2>1, ConvertMessageType
  <2>3. items' \in Seq(Item) /\ index' \in Nat  BY <1>7, <2>2 DEF Convert, TypeOK
  <2> QED  BY <1>7, <2>3 DEF Convert, TypeOK, sessionVars
<1>8. CASE Converted
  BY <1>8 DEF Converted, Goto, TypeOK, requestVars, sessionVars, payloadVars
<1>9. CASE Repair
  <2>1. items # <<>> /\ Head(items) \in Item /\ Tail(items) \in Seq(Item)
    BY <1>9 DEF Repair, TypeOK
  <2>2. Repaired(repaired, Head(items)) \in Seq(Item)  BY <2>1, RepairedType DEF TypeOK
  <2>3. items' \in Seq(Item) /\ repaired' \in Seq(Item)  BY <1>9, <2>1, <2>2 DEF Repair
  <2> QED  BY <1>9, <2>3 DEF Repair, TypeOK, requestVars, sessionVars
<1>10. CASE Send
  <2>1. Payload \in PayloadType  BY PayloadTyped DEF TypeOK
  <2>2. sent' \in Seq(PayloadType)  BY <1>10, <2>1 DEF Send, TypeOK
  <2> QED  BY <1>10, <2>2 DEF Send, Goto, TypeOK, requestVars, sessionVars
<1>11. CASE Accepted
  BY <1>11 DEF Accepted, Goto, TypeOK, requestVars, sessionVars, payloadVars
<1>12. CASE NoAnswer
  <2>1. [code |-> 0, words |-> {}, category |-> "network"] \in Refusal
    BY DEF Refusal, Categories
  <2> QED  BY <1>12, <2>1, FailedType DEF NoAnswer
<1>13. ASSUME NEW refusal \in Refusals, Refused(refusal[1], refusal[2]) PROVE TypeOK'
  <2>1. refusal[1] \in Nat /\ refusal[2] \in SUBSET Signals  BY RefusalsAssumption
  <2>2. [code |-> refusal[1], words |-> refusal[2],
         category |-> HttpCategory(refusal[1], refusal[2])] \in Refusal
    BY <2>1, CategoryCases DEF Refusal
  <2>3. HttpRetryable(refusal[1], refusal[2]) \in BOOLEAN  BY DEF HttpRetryable
  <2> QED  BY <1>13, <2>2, <2>3, FailedType DEF Refused
<1>14. CASE UNCHANGED vars
  BY <1>14 DEF TypeOK, vars, requestVars, sessionVars, payloadVars
<1> QED
  BY <1>0, <1>1, <1>2, <1>3, <1>4, <1>5, <1>6, <1>7, <1>8, <1>9, <1>10, <1>11, <1>12, <1>13, <1>14
     DEF Next, Done

(* The variables keep their types: parsing, conversion and repair return   *)
(* messages and items whatever the client sends.                           *)
THEOREM TypeCorrect == Spec => []TypeOK
BY InitType, TypeStep, PTL DEF Spec

-----------------------------------------------------------------------------
(* The history alternates.                                                 *)

(* The result of ensureAlternating alternates after every step; a system   *)
(* prompt is its first item, or the first that is still to come.           *)
RepairInv ==
  /\ Alternates(repaired)
  /\ HasSystem /\ repaired # <<>> => repaired[1].role = "user"
  /\ pc \in {"decode", "parse", "convert"} => repaired = <<>>
  /\ HasSystem /\ pc \in {"convert", "repair"} /\ repaired = <<>> =>
       items # <<>> /\ items[1].role = "user"

(* The part of the step that does not depend on what is sent.              *)
LEMMA RepairStep == TypeOK /\ RepairInv /\ [Next]_vars => RepairInv'
<1> SUFFICES ASSUME TypeOK, RepairInv, [Next]_vars PROVE RepairInv'
  OBVIOUS
<1>1. CASE Decode
  <2>1. repaired' = <<>> /\ pc' \in {"parse", "done"}
    BY <1>1 DEF Decode, Fails, RepairInv, payloadVars
  <2> QED  BY <2>1 DEF RepairInv, Alternates
<1>2. CASE Parse
  <2>1. repaired' = <<>> /\ pc' \in {"parse", "done"}
    <3>1. CASE Unsupported(req.messages[index + 1])
      BY <1>2, <3>1 DEF Parse, Fails, RepairInv, payloadVars
    <3>2. CASE ~Unsupported(req.messages[index + 1])
      BY <1>2, <3>2 DEF Parse, RepairInv, payloadVars
    <3> QED  BY <3>1, <3>2
  <2> QED  BY <2>1 DEF RepairInv, Alternates
<1>3. CASE Parsed
  BY <1>3 DEF Parsed, Goto, RepairInv, requestVars, payloadVars, HasSystem, Alternates
<1>0. CASE Unnamed
  BY <1>0 DEF Unnamed, Fails, RepairInv, requestVars, payloadVars, HasSystem, Alternates
<1>4. ASSUME NEW account \in Accounts \union {NoAccount}, NEW compact \in BOOLEAN,
             Prepare(account, compact)
      PROVE  RepairInv'
  BY <1>4 DEF Prepare, Goto, RepairInv, requestVars, payloadVars, HasSystem, Alternates
<1>5. CASE AcquireFails
  BY <1>5 DEF AcquireFails, Fails, RepairInv, requestVars, payloadVars, HasSystem, Alternates
<1>6. ASSUME NEW account \in Accounts, NEW alive \in BOOLEAN, Acquire(account, alive)
      PROVE  RepairInv'
  <2>1. repaired' = <<>> /\ items' = SystemItems /\ system' = system
    BY <1>6 DEF Acquire
  <2>2. HasSystem' = HasSystem  BY <2>1 DEF HasSystem
  <2> QED  BY <2>1, <2>2, SystemItemsType DEF RepairInv, Alternates, TypeOK
<1>7. CASE Convert
  <2>1. /\ pc = "convert" /\ pc' = pc /\ repaired' = repaired /\ system' = system
        /\ items' = Append(items, ConvertMessage(messages[index + 1]))
    BY <1>7 DEF Convert, sessionVars
  <2>3. messages[index + 1] \in UnifiedMessage  BY <1>7 DEF Convert, TypeOK
  <2>4. ConvertMessage(messages[index + 1]) \in Item  BY <2>3, ConvertMessageType
  <2>5. \A item \in Item : items # <<>> =>
          Append(items, item) # <<>> /\ Append(items, item)[1] = items[1]
    BY DEF TypeOK
  <2>2. items # <<>> => items' # <<>> /\ items'[1] = items[1]  BY <2>1, <2>4, <2>5
  <2> QED  BY <2>1, <2>2 DEF RepairInv, HasSystem, Alternates
<1>8. CASE Converted
  BY <1>8 DEF Converted, Goto, RepairInv, requestVars, payloadVars, HasSystem, Alternates
<1>9. CASE Repair
  <2>1. /\ pc = "repair" /\ pc' = pc /\ items # <<>> /\ system' = system
        /\ repaired' = Repaired(repaired, Head(items))
    BY <1>9 DEF Repair, requestVars
  <2>2. Head(items) \in Item /\ Head(items) = items[1]  BY <2>1 DEF TypeOK
  <2>3. /\ repaired' # <<>> /\ Alternates(repaired')
        /\ repaired'[1] = IF repaired = <<>> THEN Head(items) ELSE repaired[1]
    <3> DEFINE t == Repaired(repaired, Head(items))
    <3>1. repaired \in Seq(Item) /\ Alternates(repaired)  BY DEF TypeOK, RepairInv
    <3>2. /\ t # <<>> /\ Alternates(t)
          /\ t[1] = IF repaired = <<>> THEN Head(items) ELSE repaired[1]
      BY <2>2, <3>1, RepairedAlternates
    <3>3. repaired' = t  BY <2>1
    <3> HIDE DEF t
    <3> QED  BY <3>2, <3>3
  <2>4. HasSystem' = HasSystem  BY <2>1 DEF HasSystem
  <2> HIDE DEF HasSystem
  <2> QED  BY <2>1, <2>2, <2>3, <2>4 DEF RepairInv, Alternates
<1>10. CASE Send
  BY <1>10 DEF Send, Goto, RepairInv, requestVars, HasSystem, Alternates
<1>11. CASE Accepted
  BY <1>11 DEF Accepted, Goto, RepairInv, requestVars, payloadVars, HasSystem, Alternates
<1>12. ASSUME NEW failure, NEW retryable, Failed(failure, retryable) PROVE RepairInv'
  <2>1. pc' \in {"acquire", "done"} /\ UNCHANGED <<items, repaired, system>>
    BY <1>12 DEF Failed, Fails, requestVars, payloadVars
  <2> QED  BY <2>1 DEF RepairInv, HasSystem, Alternates
<1>13. CASE UNCHANGED vars
  BY <1>13 DEF vars, RepairInv, requestVars, payloadVars, HasSystem, Alternates
<1> QED
  BY <1>0, <1>1, <1>2, <1>3, <1>4, <1>5, <1>6, <1>7, <1>8, <1>9, <1>10, <1>11, <1>12, <1>13
     DEF Next, Done, NoAnswer, Refused

(* No step but Send says anything to the upstream.                         *)
LEMMA SentStep == [Next]_vars => (Send \/ UNCHANGED sent)
<1> SUFFICES ASSUME [Next]_vars PROVE Send \/ UNCHANGED sent
  OBVIOUS
<1>1. CASE Decode \/ Parse \/ Parsed \/ Unnamed
  BY <1>1 DEF Decode, Parse, Parsed, Unnamed, payloadVars
<1>2. CASE \E account \in Accounts \union {NoAccount}, compact \in BOOLEAN : Prepare(account, compact)
  BY <1>2 DEF Prepare, payloadVars
<1>3. CASE AcquireFails \/ \E account \in Accounts, alive \in BOOLEAN : Acquire(account, alive)
  BY <1>3 DEF AcquireFails, Acquire, payloadVars
<1>4. CASE Convert \/ Converted \/ Repair
  BY <1>4 DEF Convert, Converted, Repair, payloadVars
<1>5. CASE Accepted \/ NoAnswer \/ \E refusal \in Refusals : Refused(refusal[1], refusal[2])
  BY <1>5 DEF Accepted, NoAnswer, Refused, Failed, payloadVars
<1>6. CASE UNCHANGED vars
  BY <1>6 DEF vars, payloadVars
<1> QED  BY <1>1, <1>2, <1>3, <1>4, <1>5, <1>6 DEF Next, Done

(* Users and assistants take turns in every payload, whatever the client's *)
(* messages are and however the history is cut.                            *)
THEOREM AlternationCorrect == Spec => []HistoryAlternates
<1>1. Init => RepairInv /\ HistoryAlternates
  BY DEF Init, RepairInv, HistoryAlternates, Alternates
<1>2. TypeOK /\ RepairInv /\ HistoryAlternates /\ [Next]_vars => HistoryAlternates'
  <2> SUFFICES ASSUME TypeOK, RepairInv, HistoryAlternates, [Next]_vars PROVE HistoryAlternates'
    OBVIOUS
  <2>1. CASE UNCHANGED sent  BY <2>1 DEF HistoryAlternates
  <2>2. CASE Send
    <3>1. sent' = Append(sent, Payload) /\ sent \in Seq(PayloadType)
      BY <2>2 DEF Send, TypeOK
    <3>2. Alternates(Whole(Payload)) /\ Payload.current.role = "user"
      BY PayloadAlternates DEF RepairDone, TypeOK, RepairInv
    <3> HIDE DEF Payload, Alternates, Whole
    <3> SUFFICES ASSUME NEW n \in DOMAIN sent'
                 PROVE  Alternates(Whole(sent'[n])) /\ sent'[n].current.role = "user"
      BY DEF HistoryAlternates
    <3>3. CASE n = Len(sent) + 1
      <4>1. sent'[n] = Payload  BY <3>1, <3>3
      <4> QED  BY <4>1, <3>2
    <3>4. CASE n # Len(sent) + 1
      <4>1. n \in DOMAIN sent /\ sent'[n] = sent[n]  BY <3>1, <3>4
      <4> QED  BY <4>1 DEF HistoryAlternates
    <3> QED  BY <3>3, <3>4
  <2> QED  BY <2>1, <2>2, SentStep
<1> QED  BY <1>1, <1>2, InitType, TypeStep, RepairStep, PTL DEF Spec

-----------------------------------------------------------------------------
(* The history is left out only with a new conversation.                   *)

RotateInv ==
  /\ strategy = "sticky_compact" <=> conv > 0
  /\ pc \in {"decode", "parse", "handle"} => conv = 0

(* Every step keeps history and conversation together.                     *)
LEMMA RotateStep == TypeOK /\ RotateInv /\ [Next]_vars => RotateInv'
<1> SUFFICES ASSUME TypeOK, RotateInv, [Next]_vars PROVE RotateInv'
  OBVIOUS
<1>0. CASE Unnamed
  <2>1. UNCHANGED <<strategy, conv>> /\ pc' = "done"
    BY <1>0 DEF Unnamed, Fails, sessionVars
  <2> QED  BY <2>1 DEF RotateInv
<1>1. CASE Decode \/ Parse \/ Parsed
  <2>1. UNCHANGED <<strategy, conv>> /\ pc \in {"decode", "parse", "handle"}
    BY <1>1 DEF Decode, Parse, Parsed, Goto, sessionVars
  <2> QED  BY <2>1 DEF RotateInv
<1>2. ASSUME NEW account \in Accounts \union {NoAccount}, NEW compact \in BOOLEAN,
             Prepare(account, compact)
      PROVE  RotateInv'
  <2>1. pc' = "acquire" /\ conv = 0  BY <1>2 DEF Prepare, Goto, RotateInv
  <2>2. CASE req.sticky /\ compact
    BY <1>2, <2>1, <2>2 DEF Prepare, RotateInv
  <2>3. CASE req.sticky /\ ~compact
    BY <1>2, <2>1, <2>3 DEF Prepare, RotateInv
  <2>4. CASE ~req.sticky
    BY <1>2, <2>1, <2>4 DEF Prepare, RotateInv
  <2> QED  BY <2>2, <2>3, <2>4
<1>3. ASSUME NEW account \in Accounts, NEW alive \in BOOLEAN, Acquire(account, alive)
      PROVE  RotateInv'
  BY <1>3 DEF Acquire, Changed, Goto, RotateInv, TypeOK
<1>4. CASE AcquireFails \/ Convert \/ Converted \/ Repair \/ Send \/ Accepted
  <2>1. /\ UNCHANGED <<strategy, conv>>
        /\ pc' \in {"done", "convert", "repair", "sent"}
    BY <1>4 DEF AcquireFails, Fails, Convert, Converted, Repair, Send, Accepted, Goto, sessionVars
  <2> QED  BY <2>1 DEF RotateInv
<1>5. ASSUME NEW failure, NEW retryable, Failed(failure, retryable) PROVE RotateInv'
  <2>1. UNCHANGED <<strategy, conv>> /\ pc' \in {"acquire", "done"}
    BY <1>5 DEF Failed, Fails, sessionVars
  <2> QED  BY <2>1 DEF RotateInv
<1>6. CASE UNCHANGED vars
  BY <1>6 DEF vars, sessionVars, RotateInv
<1> QED
  BY <1>0, <1>1, <1>2, <1>3, <1>4, <1>5, <1>6 DEF Next, Done, NoAnswer, Refused

(* A payload without its history belongs to a conversation that this very  *)
(* request has begun, and the other way round.                             *)
THEOREM CompactionCorrect == Spec => []CompactedIffRotated
<1>1. Init => RotateInv /\ CompactedIffRotated
  BY DEF Init, RotateInv, CompactedIffRotated
<1>2. TypeOK /\ RotateInv /\ CompactedIffRotated /\ [Next]_vars => CompactedIffRotated'
  <2> SUFFICES ASSUME TypeOK, RotateInv, CompactedIffRotated, [Next]_vars
               PROVE  CompactedIffRotated'
    OBVIOUS
  <2>1. CASE UNCHANGED sent  BY <2>1 DEF CompactedIffRotated
  <2>2. CASE Send
    <3>1. sent' = Append(sent, Payload) /\ sent \in Seq(PayloadType)
      BY <2>2 DEF Send, TypeOK
    <3>2. Payload.compacted <=> Payload.conv > 0  BY DEF Payload, RotateInv
    <3> HIDE DEF Payload
    <3> SUFFICES ASSUME NEW n \in DOMAIN sent'
                 PROVE  sent'[n].compacted <=> sent'[n].conv > 0
      BY DEF CompactedIffRotated
    <3>3. CASE n = Len(sent) + 1
      <4>1. sent'[n] = Payload  BY <3>1, <3>3
      <4> QED  BY <4>1, <3>2
    <3>4. CASE n # Len(sent) + 1
      <4>1. n \in DOMAIN sent /\ sent'[n] = sent[n]  BY <3>1, <3>4
      <4> QED  BY <4>1 DEF CompactedIffRotated
    <3> QED  BY <3>3, <3>4
  <2> QED  BY <2>1, <2>2, SentStep
<1> QED  BY <1>1, <1>2, InitType, TypeStep, RotateStep, PTL DEF Spec

-----------------------------------------------------------------------------
(* The blame is fair.                                                      *)

Explained(refusal) ==
  /\ refusal.category = "validation" => refusal.code = 400 /\ refusal.words = {}
  /\ refusal.category = "auth" => refusal.code \in {401, 403} \/ "auth" \in refusal.words

(* What is known of a request at every place of its way.                   *)
Understanding ==
  /\ pc = "decode" => index = 0
  /\ pc = "parse" =>
       /\ req.system.encoding # "odd"
       /\ \A content \in Contents : Decodes(content)
       /\ \A i \in DOMAIN req.messages : i <= index => ~Unsupported(req.messages[i])
  /\ pc = "handle" /\ req.named => IsUnderstood
  /\ pc \in {"acquire", "convert", "repair", "sent"} => IsUnderstood

Attempts ==
  /\ pc \in {"decode", "parse", "handle"} => sent = <<>> /\ refused = <<>>
  /\ pc \in {"acquire", "convert", "repair"} => Len(sent) = Len(refused)
  /\ pc = "sent" => Len(sent) = Len(refused) + 1
  /\ pc # "done" => status = 0 /\ \A n \in DOMAIN refused : MayPass(refused[n])
  /\ \A n \in DOMAIN refused : Explained(refused[n])

BlameInv == Understanding /\ Attempts /\ BlameIsFair

(* Steps that neither send nor end the request.                            *)
LEMMA QuietStep ==
  ASSUME TypeOK, BlameInv, UNCHANGED <<req, sent, refused, status>>,
         pc # "done", pc' # "done"
  PROVE  /\ BlameIsFair'
         /\ (/\ pc' \in {"decode", "parse", "handle"} => sent = <<>> /\ refused = <<>>
             /\ pc' \in {"acquire", "convert", "repair"} => Len(sent) = Len(refused)
             /\ pc' = "sent" => Len(sent) = Len(refused) + 1)
            => Attempts'
<1>1. BlameIsFair'
  BY DEF BlameInv, BlameIsFair, IsUnderstood, Contents
<1>2. /\ status' = 0 /\ \A n \in DOMAIN refused' : MayPass(refused'[n])
      /\ \A n \in DOMAIN refused' : Explained(refused'[n])
  BY DEF BlameInv, Attempts
<1> HIDE DEF MayPass, Explained
<1> QED  BY <1>1, <1>2 DEF Attempts

(* A refusal that is explained.                                            *)
LEMMA FailedBlame ==
  ASSUME TypeOK, BlameInv, NEW failure \in Refusal, NEW retryable \in BOOLEAN,
         Failed(failure, retryable), Explained(failure),
         ShouldRetry(failure.category, retryable) => MayPass(failure)
  PROVE  BlameInv'
<1>1. /\ pc = "sent" /\ refused' = Append(refused, failure) /\ UNCHANGED <<req, sent>>
      /\ refused \in Seq(Refusal) /\ sent \in Seq(PayloadType)
  BY DEF Failed, requestVars, payloadVars, TypeOK
<1>2. /\ DOMAIN refused' = 1..(Len(refused) + 1) /\ Len(refused') = Len(refused) + 1
      /\ Len(refused) \in Nat /\ Len(sent) = Len(refused) + 1
      /\ refused' # <<>> /\ Last(refused') = failure
      /\ \A n \in 1..Len(refused) : refused'[n] = refused[n]
      /\ refused'[Len(refused) + 1] = failure
  BY <1>1 DEF BlameInv, Attempts, Last
<1>3. /\ \A n \in 1..Len(refused) : MayPass(refused[n]) /\ Explained(refused[n])
      /\ IsUnderstood
  BY <1>1 DEF BlameInv, Attempts, Understanding
<1>4. IsUnderstood'  BY <1>1, <1>3 DEF IsUnderstood, Contents
<1> HIDE DEF MayPass, Explained
<1>5. \A n \in DOMAIN refused' : Explained(refused'[n])
  BY <1>2, <1>3 DEF Explained
<1>6. \A n \in 1..(Len(sent') - 1) : MayPass(refused'[n])
  BY <1>1, <1>2, <1>3 DEF MayPass
<1>7. CASE pc' = "acquire" /\ status' = status /\ ShouldRetry(failure.category, retryable)
  <2>1. \A n \in DOMAIN refused' : MayPass(refused'[n])  BY <1>2, <1>3, <1>7 DEF MayPass
  <2>2. status' = 0  BY <1>1, <1>7 DEF BlameInv, Attempts
  <2>3. BlameIsFair'  BY <1>4, <1>6, <2>2 DEF BlameIsFair
  <2> QED  BY <1>1, <1>2, <1>4, <1>5, <1>7, <2>1, <2>2, <2>3 DEF BlameInv, Attempts, Understanding
<1>8. CASE pc' = "done" /\ status' = Code(failure.category)
  <2>4. /\ Code(failure.category) = 400 <=> failure.category = "validation"
        /\ Code(failure.category) = 401 <=> failure.category = "auth"
    BY CodeCases
  <2>1. status' = 400 => failure.category = "validation"  BY <1>8, <2>4, Zenon
  <2>2. status' = 401 => failure.category = "auth"  BY <1>8, <2>4, Zenon
  <2>3. BlameIsFair'  BY <1>2, <1>4, <1>6, <2>1, <2>2 DEF BlameIsFair, Explained
  <2> QED  BY <1>5, <1>8, <2>3 DEF BlameInv, Attempts, Understanding
<1> QED  BY <1>7, <1>8 DEF Failed, Fails

(* Every step keeps the refusals explained.                                *)
LEMMA BlameStep == TypeOK /\ BlameInv /\ [Next]_vars => BlameInv'
<1> SUFFICES ASSUME TypeOK, BlameInv, [Next]_vars PROVE BlameInv'
  OBVIOUS
<1>1. CASE Decode
  <2>1. /\ pc = "decode" /\ UNCHANGED <<req, index, sent, refused>> /\ sent = <<>> /\ refused = <<>>
    BY <1>1 DEF Decode, payloadVars, BlameInv, Attempts
  <2>2. CASE (\A content \in Contents : Decodes(content)) /\ req.system.encoding # "odd"
    <3>1. pc' = "parse" /\ UNCHANGED status  BY <1>1, <2>2 DEF Decode
    <3>2. Attempts' /\ BlameIsFair'  BY <2>1, <3>1, QuietStep
    <3>3. index = 0  BY <2>1 DEF BlameInv, Understanding
    <3>4. \A i \in DOMAIN req.messages : ~(i <= index)
      <4>1. req.messages \in Seq(Message)  BY RequestsAssumption DEF TypeOK, Request
      <4> QED  BY <3>3, <4>1
    <3>5. (\A content \in Contents : Decodes(content))'  BY <2>1, <2>2 DEF Contents, Decodes
    <3>6. \A i \in DOMAIN req'.messages : ~(i <= index')  BY <2>1, <3>4
    <3>7. (req.system.encoding # "odd")'  BY <2>1, <2>2
    <3>8. Understanding'
      BY <3>1, <3>5, <3>6, <3>7 DEF Understanding
    <3> QED  BY <3>2, <3>8 DEF BlameInv
  <2>3. CASE ~((\A content \in Contents : Decodes(content)) /\ req.system.encoding # "odd")
    <3>0. Code("validation") = 400  BY CodeCases
    <3>1. pc' = "done" /\ status' = 400  BY <1>1, <2>3, <3>0 DEF Decode, Fails
    <3> QED
      BY <2>1, <2>3, <3>1 DEF BlameInv, Understanding, Attempts, BlameIsFair, IsUnderstood, Contents
  <2> QED  BY <2>2, <2>3
<1>2. CASE Parse
  <2>1. /\ pc = "parse" /\ UNCHANGED <<req, sent, refused>> /\ sent = <<>> /\ refused = <<>>
        /\ index < Len(req.messages) /\ index \in Nat /\ req.messages \in Seq(Message)
    BY <1>2, RequestsAssumption DEF Parse, payloadVars, BlameInv, Attempts, TypeOK, Request
  <2>2. CASE Unsupported(req.messages[index + 1])
    <3>1. pc' = "done" /\ status' = 400
      <4>1. Code("validation") = 400  BY CodeCases
      <4> QED  BY <1>2, <2>2, <4>1 DEF Parse, Fails
    <3>2. ~IsUnderstood  BY <2>1, <2>2 DEF IsUnderstood
    <3>3. ~IsUnderstood'  BY <2>1, <3>2 DEF IsUnderstood, Contents
    <3> QED  BY <2>1, <3>1, <3>3 DEF BlameInv, Understanding, Attempts, BlameIsFair
  <2>3. CASE ~Unsupported(req.messages[index + 1])
    <3>1. pc' = "parse" /\ UNCHANGED status /\ index' = index + 1  BY <1>2, <2>1, <2>3 DEF Parse
    <3>2. Attempts' /\ BlameIsFair'  BY <2>1, <3>1, QuietStep
    <3>3. \A i \in DOMAIN req.messages : i <= index + 1 => ~Unsupported(req.messages[i])
      <4> SUFFICES ASSUME NEW i \in DOMAIN req.messages, i <= index + 1
                   PROVE  ~Unsupported(req.messages[i])
        OBVIOUS
      <4>1. i \in Nat /\ (i <= index \/ i = index + 1)  BY <2>1
      <4> QED  BY <2>1, <2>3, <4>1 DEF BlameInv, Understanding
    <3> QED  BY <2>1, <3>1, <3>2, <3>3 DEF BlameInv, Understanding, Contents
  <2> QED  BY <2>2, <2>3
<1>3. CASE Parsed
  <2>1. /\ pc = "parse" /\ pc' = "handle" /\ UNCHANGED <<req, sent, refused, status>>
        /\ index = Len(req.messages) /\ req.messages \in Seq(Message)
    BY <1>3, RequestsAssumption DEF Parsed, Goto, requestVars, payloadVars, TypeOK, Request
  <2>2. Attempts' /\ BlameIsFair'
    <3>1. sent = <<>> /\ refused = <<>>  BY <2>1 DEF BlameInv, Attempts
    <3> QED  BY <2>1, <3>1, QuietStep
  <2>3. req.named => IsUnderstood
    <3>1. \A i \in DOMAIN req.messages : i <= index  BY <2>1
    <3> QED  BY <2>1, <3>1 DEF BlameInv, Understanding, IsUnderstood
  <2>4. (req.named => IsUnderstood)'  BY <2>1, <2>3 DEF IsUnderstood, Contents
  <2> QED  BY <2>1, <2>2, <2>4 DEF BlameInv, Understanding
<1>0. CASE Unnamed
  <2>1. /\ pc = "handle" /\ pc' = "done" /\ UNCHANGED <<req, sent, refused>> /\ ~req.named
        /\ status' = 400 /\ sent = <<>> /\ refused = <<>>
    BY <1>0, CodeCases DEF Unnamed, Fails, requestVars, payloadVars, BlameInv, Attempts
  <2>2. ~IsUnderstood'  BY <2>1 DEF IsUnderstood
  <2> QED  BY <2>1, <2>2 DEF BlameInv, Understanding, Attempts, BlameIsFair
<1>4. ASSUME pc \in {"handle", "acquire", "convert", "repair"}, req.named,
             pc' \in {"acquire", "convert", "repair"}, UNCHANGED <<req, sent, refused, status>>
      PROVE  BlameInv'
  <2>1. Len(sent) = Len(refused)  BY <1>4 DEF BlameInv, Attempts
  <2>2. Attempts' /\ BlameIsFair'  BY <1>4, <2>1, QuietStep
  <2>3. IsUnderstood'  BY <1>4 DEF BlameInv, Understanding, IsUnderstood, Contents
  <2> QED  BY <1>4, <2>2, <2>3 DEF BlameInv, Understanding
<1>5. ASSUME NEW account \in Accounts \union {NoAccount}, NEW compact \in BOOLEAN,
             Prepare(account, compact)
      PROVE  BlameInv'
  BY <1>4, <1>5 DEF Prepare, Goto, requestVars, payloadVars
<1>6. ASSUME NEW account \in Accounts, NEW alive \in BOOLEAN, Acquire(account, alive)
      PROVE  BlameInv'
  <2>1. req.named  BY <1>6 DEF Acquire, Goto, BlameInv, Understanding, IsUnderstood
  <2> QED  BY <1>4, <1>6, <2>1 DEF Acquire, Goto
<1>7. CASE Convert \/ Converted \/ Repair
  <2>1. req.named
    BY <1>7 DEF Convert, Converted, Repair, Goto, BlameInv, Understanding, IsUnderstood
  <2> QED
    BY <1>4, <1>7, <2>1 DEF Convert, Converted, Repair, Goto, requestVars, payloadVars
<1>8. CASE AcquireFails
  <2>1. /\ pc = "acquire" /\ pc' = "done" /\ UNCHANGED <<req, sent, refused>>
        /\ refused \in Seq(Refusal) /\ sent \in Seq(PayloadType)
        /\ Len(sent) = Len(refused) /\ Len(refused) \in Nat /\ IsUnderstood
    BY <1>8 DEF AcquireFails, Fails, requestVars, payloadVars, TypeOK, BlameInv, Attempts, Understanding
  <2>2. IsUnderstood'  BY <2>1 DEF IsUnderstood, Contents
  <2>3. \A n \in DOMAIN refused : MayPass(refused[n]) /\ Explained(refused[n])
    BY <2>1 DEF BlameInv, Attempts
  <2> HIDE DEF MayPass
  <2>4. \A n \in 1..(Len(sent') - 1) : MayPass(refused'[n])  BY <2>1, <2>3 DEF MayPass
  <2>5. \A n \in DOMAIN refused' : Explained(refused'[n])  BY <2>1, <2>3 DEF Explained
  <2>6. CASE refused = <<>>
    <3>1. Code("auth") = 401  BY CodeCases
    <3>2. status' = 401  BY <1>8, <2>6, <3>1 DEF AcquireFails, Fails
    <3>3. BlameIsFair'  BY <2>1, <2>2, <2>4, <2>6, <3>2 DEF BlameIsFair
    <3> QED  BY <2>1, <2>5, <3>3 DEF BlameInv, Attempts, Understanding
  <2>7. CASE refused # <<>>
    <3> DEFINE last == refused[Len(refused)]
    <3>1. status' = Code(last.category)  BY <1>8, <2>7 DEF AcquireFails, Fails
    <3>2. /\ Code(last.category) = 400 <=> last.category = "validation"
          /\ Code(last.category) = 401 <=> last.category = "auth"
      BY CodeCases
    <3>3. Explained(last) /\ Last(refused') = last  BY <2>1, <2>3, <2>7 DEF Last
    <3>4. /\ status' = 400 => last.category = "validation"
          /\ status' = 401 => last.category = "auth"
      BY <3>1, <3>2, Zenon
    <3> HIDE DEF last
    <3>5. /\ status' = 400 => last.code = 400 /\ last.words = {}
          /\ status' = 401 => last.code \in {401, 403} \/ "auth" \in last.words
      BY <3>3, <3>4 DEF Explained
    <3>6. BlameIsFair'  BY <2>1, <2>2, <2>4, <2>7, <3>3, <3>5 DEF BlameIsFair
    <3> QED  BY <2>1, <2>5, <3>6 DEF BlameInv, Attempts, Understanding
  <2> QED  BY <2>6, <2>7
<1>9. CASE Send
  <2>1. /\ pc = "repair" /\ pc' = "sent" /\ UNCHANGED <<req, refused, status>>
        /\ sent' = Append(sent, Payload) /\ sent \in Seq(PayloadType) /\ refused \in Seq(Refusal)
        /\ Len(sent) = Len(refused) /\ IsUnderstood /\ status = 0
    BY <1>9 DEF Send, Goto, requestVars, TypeOK, BlameInv, Attempts, Understanding
  <2>2. Len(sent') = Len(refused') + 1  BY <2>1
  <2>3. IsUnderstood'  BY <2>1 DEF IsUnderstood, Contents
  <2>4. \A n \in DOMAIN refused : MayPass(refused[n]) /\ Explained(refused[n])
    BY <2>1 DEF BlameInv, Attempts
  <2> HIDE DEF MayPass
  <2>5. \A n \in DOMAIN refused' : MayPass(refused'[n]) /\ Explained(refused'[n])
    BY <2>1, <2>4 DEF MayPass, Explained
  <2>6. \A n \in 1..(Len(sent') - 1) : n \in DOMAIN refused'  BY <2>1, <2>2
  <2>7. BlameIsFair'  BY <2>1, <2>3, <2>5, <2>6 DEF BlameIsFair
  <2> QED  BY <2>1, <2>2, <2>3, <2>5, <2>7 DEF BlameInv, Attempts, Understanding
<1>10. CASE Accepted
  <2>1. /\ pc = "sent" /\ pc' = "done" /\ status' = 200 /\ UNCHANGED <<req, sent, refused>>
        /\ refused \in Seq(Refusal) /\ sent \in Seq(PayloadType)
        /\ Len(sent) = Len(refused) + 1 /\ IsUnderstood
    BY <1>10 DEF Accepted, Goto, requestVars, payloadVars, TypeOK, BlameInv, Attempts, Understanding
  <2>2. IsUnderstood'  BY <2>1 DEF IsUnderstood, Contents
  <2>3. \A n \in DOMAIN refused : MayPass(refused[n]) /\ Explained(refused[n])
    BY <2>1 DEF BlameInv, Attempts
  <2> HIDE DEF MayPass
  <2>4. \A n \in 1..(Len(sent') - 1) : MayPass(refused'[n])  BY <2>1, <2>3 DEF MayPass
  <2>5. \A n \in DOMAIN refused' : Explained(refused'[n])  BY <2>1, <2>3 DEF Explained
  <2>6. BlameIsFair'  BY <2>1, <2>2, <2>4 DEF BlameIsFair
  <2> QED  BY <2>1, <2>5, <2>6 DEF BlameInv, Attempts, Understanding
<1>11. CASE NoAnswer
  <2> DEFINE failure == [code |-> 0, words |-> {}, category |-> "network"]
  <2>1. failure \in Refusal  BY DEF Refusal, Categories
  <2>2. Explained(failure) /\ MayPass(failure)  BY DEF Explained, MayPass
  <2>3. Failed(failure, TRUE)  BY <1>11 DEF NoAnswer
  <2> HIDE DEF failure
  <2> QED  BY <2>1, <2>2, <2>3, FailedBlame
<1>12. ASSUME NEW refusal \in Refusals, Refused(refusal[1], refusal[2]) PROVE BlameInv'
  <2> DEFINE code == refusal[1]
             words == refusal[2]
             category == HttpCategory(code, words)
             retryable == HttpRetryable(code, words)
             failure == [code |-> code, words |-> words, category |-> category]
  <2>1. code \in Nat /\ words \in SUBSET Signals  BY RefusalsAssumption
  <2>2. Failed(failure, retryable) /\ retryable \in BOOLEAN  BY <1>12 DEF Refused, HttpRetryable
  <2> HIDE DEF code, words
  <2>3. /\ category \in Categories
        /\ category = "validation" => code = 400 /\ words = {}
        /\ category = "auth" => code \in {401, 403} \/ "auth" \in words
    BY <2>1, CategoryCases
  <2>4. ShouldRetry(category, retryable) => code = 429 \/ code >= 500 \/ "quota" \in words
    BY <2>1, RetryMayPass
  <2> HIDE DEF category, retryable
  <2>5. failure \in Refusal /\ Explained(failure)  BY <2>1, <2>3 DEF Refusal, Explained
  <2>6. ShouldRetry(failure.category, retryable) => MayPass(failure)  BY <2>4 DEF MayPass
  <2> HIDE DEF failure
  <2> QED  BY <2>2, <2>5, <2>6, FailedBlame
<1>13. CASE UNCHANGED vars
  BY <1>13 DEF vars, requestVars, payloadVars, BlameInv, Understanding, Attempts, BlameIsFair,
               IsUnderstood, Contents, MayPass, Explained
<1> QED
  BY <1>0, <1>1, <1>2, <1>3, <1>5, <1>6, <1>7, <1>8, <1>9, <1>10, <1>11, <1>12, <1>13 DEF Next, Done

(* The client is blamed only for its own faults, and only what may pass is *)
(* sent again: the classification of errors, the loop of attempts and the  *)
(* status code together (classifyHTTPError, Service.Handle, writeError).   *)
THEOREM BlameCorrect == Spec => []BlameIsFair
<1>1. Init => BlameInv
  BY DEF Init, BlameInv, Understanding, Attempts, BlameIsFair
<1>2. BlameInv => BlameIsFair  BY DEF BlameInv
<1> QED  BY <1>1, <1>2, InitType, TypeStep, BlameStep, PTL DEF Spec

-----------------------------------------------------------------------------
(* What items and messages say.                                           *)

(* What of a text, a result, an image or a call can be said.               *)
Utterance == Texts \union {"image"} \union Ids \union ToolResult

(* Words are texts.                                                        *)
LEMMA WordsType ==
  ASSUME NEW texts \in Seq(Texts)
  PROVE  Words(texts) \in Seq(Texts)
BY SelectedType DEF Words

(* White space and placeholders are no words.                              *)
LEMMA NoWords ==
  /\ Words(<<>>) = <<>> /\ Words(<<Dash>>) = <<>>
  /\ \A texts \in Seq(Texts) : ~HasText(texts) => Words(texts) = <<>>
<1> DEFINE K == Texts \ {Blank, Dash}
<1>1. Words(<<>>) = <<>>
  BY SelectedEmpty DEF Words
<1>2. Words(<<Dash>>) = <<>>
  <2>1. PICK s : s = <<Dash>>
    OBVIOUS
  <2>2. s \in Seq(Texts) /\ \A i \in 1..Len(s) : s[i] \notin K
    BY <2>1, TextsAssumption
  <2> HIDE DEF K
  <2>3. Selected(s, K) = <<>>
    BY <2>2, SelectedNone
  <2> QED
    BY <2>1, <2>3 DEF Words, K
<1>3. ASSUME NEW texts \in Seq(Texts), ~HasText(texts) PROVE Words(texts) = <<>>
  <2>1. \A i \in 1..Len(texts) : texts[i] \notin K
    BY <1>3 DEF HasText
  <2> HIDE DEF K
  <2>2. Selected(texts, K) = <<>>
    BY <2>1, SelectedNone
  <2> QED
    BY <2>2 DEF Words, K
<1> QED
  BY <1>1, <1>2, <1>3

(* A placeholder takes no words away and adds none.                        *)
LEMMA NonEmptySays ==
  ASSUME NEW texts \in Seq(Texts)
  PROVE  Words(NonEmpty(texts)) = Words(texts)
BY NoWords DEF NonEmpty

(* Nor does convertToolResults.                                            *)
LEMMA ResultsSay ==
  ASSUME NEW results \in Seq(ToolResult)
  PROVE  /\ Results(results) \in Seq(ToolResult)
         /\ Results(ToolResults(results)) = Results(results)
<1> DEFINE n == Len(results)
           T(i) == IF results[i].texts = <<>> THEN <<Dash>>
                   ELSE [k \in DOMAIN results[i].texts |->
                          IF results[i].texts[k] = Blank THEN Dash ELSE results[i].texts[k]]
           K == Texts \ {Blank, Dash}
<1>1. DOMAIN results = 1..n /\ n \in Nat
  OBVIOUS
<1>2. ASSUME NEW i \in 1..n
      PROVE  /\ results[i].id \in Ids /\ Words(results[i].texts) \in Seq(Texts)
             /\ Words(T(i)) = Words(results[i].texts)
  <2>1. results[i].id \in Ids /\ results[i].texts \in Seq(Texts)
    <3>1. results[i] \in ToolResult
      BY <1>2
    <3> QED
      BY <3>1 DEF ToolResult
  <2>2. PICK t \in Seq(Texts) : t = results[i].texts
    BY <2>1
  <2>3. CASE t = <<>>
    BY <2>1, <2>2, <2>3, NoWords, WordsType
  <2>4. CASE t # <<>>
    <3> DEFINE u == [k \in DOMAIN t |-> IF t[k] = Blank THEN Dash ELSE t[k]]
    <3>1. T(i) = u
      BY <2>2, <2>4
    <3>2. u \in Seq(Texts) /\ Len(u) = Len(t)
      BY TextsAssumption
    <3>3. \A k \in 1..Len(u) : u[k] = t[k] \/ (u[k] \notin K /\ t[k] \notin K)
      OBVIOUS
    <3> HIDE DEF u, K, T
    <3>4. Selected(u, K) = Selected(t, K)
      BY <3>2, <3>3, SelectedSame
    <3>5. Words(u) = Words(t)
      BY <3>4 DEF Words, K
    <3> QED
      BY <2>1, <2>2, <3>1, <3>5, WordsType
  <2> QED
    BY <2>3, <2>4
<1> HIDE DEF T
<1>3. Results(results) = [i \in 1..n |-> [id |-> results[i].id, texts |-> Words(results[i].texts)]]
  BY <1>1 DEF Results
<1>4. Results(results) \in Seq(ToolResult)
  <2>1. \A i \in 1..n : [id |-> results[i].id, texts |-> Words(results[i].texts)] \in ToolResult
    BY <1>2 DEF ToolResult
  <2> QED
    BY <1>1, <1>3, <2>1
<1>5. ToolResults(results) = [i \in 1..n |-> [id |-> results[i].id, texts |-> T(i)]]
  BY <1>1 DEF ToolResults, T
<1>6. Results(ToolResults(results)) = [i \in 1..n |-> [id |-> results[i].id, texts |-> Words(T(i))]]
  <2>1. PICK r : r = ToolResults(results)
    OBVIOUS
  <2>2. DOMAIN r = 1..n /\ \A i \in 1..n : r[i].id = results[i].id /\ r[i].texts = T(i)
    BY <1>5, <2>1
  <2>3. Results(r) = [i \in 1..n |-> [id |-> results[i].id, texts |-> Words(T(i))]]
    BY <2>2 DEF Results
  <2> QED
    BY <2>1, <2>3
<1> QED
  BY <1>2, <1>3, <1>4, <1>6

-----------------------------------------------------------------------------
(* Nor does parseToolResultContent.                                        *)
LEMMA ParsedResultsSay ==
  ASSUME NEW results \in Seq(ClientResult)
  PROVE  /\ ToolResultTexts(results) \in Seq(ToolResult)
         /\ Results(ToolResultTexts(results)) = Results(results)
         /\ Results(results) \in Seq(ToolResult)
<1> DEFINE r == ToolResultTexts(results)
<1>1. DOMAIN r = DOMAIN results /\ \A i \in DOMAIN results : r[i].id = results[i].id /\ r[i].texts = results[i].texts
  BY DEF ToolResultTexts
<1>2. r \in Seq(ToolResult)
  <2>1. \A i \in 1..Len(results) : [id |-> results[i].id, texts |-> results[i].texts] \in ToolResult
    <3> SUFFICES ASSUME NEW i \in 1..Len(results)
                 PROVE  [id |-> results[i].id, texts |-> results[i].texts] \in ToolResult
      OBVIOUS
    <3>1. results[i] \in ClientResult
      OBVIOUS
    <3> QED
      BY <3>1 DEF ClientResult, ToolResult
  <2>2. r = [i \in 1..Len(results) |-> [id |-> results[i].id, texts |-> results[i].texts]]
    BY DEF ToolResultTexts
  <2> HIDE DEF r
  <2> QED
    BY <2>1, <2>2
<1> HIDE DEF r
<1>3. Results(r) = Results(results)
  BY <1>1 DEF Results
<1>4. Results(r) \in Seq(ToolResult)
  BY <1>2, ResultsSay
<1> QED
  BY <1>2, <1>3, <1>4 DEF r

(* What a message says, kind by kind.                                      *)
LEMMA MessageSaysCases ==
  ASSUME NEW m
  PROVE  /\ MessageSays(m, "texts") = IF IsTool(m) THEN <<>> ELSE Words(m.texts)
         /\ MessageSays(m, "images") =
              IF IsTool(m) \/ m.role = "assistant" THEN <<>> ELSE Images(m)
         /\ MessageSays(m, "calls") = IF m.role = "assistant" THEN m.calls ELSE <<>>
         /\ MessageSays(m, "results") =
              IF IsTool(m) THEN Results(<<m>>)
              ELSE IF req.protocol = "anthropic" /\ m.role # "assistant" THEN Results(m.results)
              ELSE <<>>
<1>0. /\ "texts" # "images" /\ "texts" # "calls" /\ "texts" # "results"
      /\ "images" # "calls" /\ "images" # "results" /\ "calls" # "results"
      /\ "openai" # "anthropic" /\ "tool" # "assistant"
  OBVIOUS
<1>1. ASSUME IsTool(m) PROVE MessageSays(m, "texts") = <<>>
  BY <1>0, <1>1, Zenon DEF MessageSays
<1>2. ASSUME ~IsTool(m) PROVE MessageSays(m, "texts") = Words(m.texts)
  BY <1>0, <1>2, Zenon DEF MessageSays
<1>3. ASSUME IsTool(m) PROVE MessageSays(m, "images") = <<>>
  BY <1>0, <1>3, Zenon DEF MessageSays
<1>4. ASSUME m.role = "assistant" PROVE MessageSays(m, "images") = <<>>
  BY <1>0, <1>4, Zenon DEF MessageSays
<1>5. ASSUME ~IsTool(m), m.role # "assistant" PROVE MessageSays(m, "images") = Images(m)
  BY <1>0, <1>5, Zenon DEF MessageSays
<1>6. ASSUME m.role = "assistant" PROVE MessageSays(m, "calls") = m.calls
  BY <1>0, <1>6, Zenon DEF MessageSays
<1>7. ASSUME m.role # "assistant" PROVE MessageSays(m, "calls") = <<>>
  BY <1>0, <1>7, Zenon DEF MessageSays
<1>8. ASSUME IsTool(m) PROVE MessageSays(m, "results") = Results(<<m>>)
  <2>1. ~(req.protocol = "anthropic")
    BY <1>0, <1>8 DEF IsTool
  <2> QED
    BY <1>0, <1>8, <2>1, Zenon DEF MessageSays
<1>9. ASSUME ~IsTool(m), req.protocol = "anthropic", m.role # "assistant"
      PROVE  MessageSays(m, "results") = Results(m.results)
  BY <1>0, <1>9, Zenon DEF MessageSays
<1>10. ASSUME ~IsTool(m), ~(req.protocol = "anthropic" /\ m.role # "assistant")
       PROVE  MessageSays(m, "results") = <<>>
  BY <1>0, <1>10, Zenon DEF MessageSays
<1> QED
  BY <1>1, <1>2, <1>3, <1>4, <1>5, <1>6, <1>7, <1>8, <1>9, <1>10, Zenon

(* What an item says, kind by kind.                                        *)
LEMMA ItemSaysCases ==
  ASSUME NEW item
  PROVE  /\ ItemSays(item, "texts") = Words(item.text)
         /\ ItemSays(item, "images") = item.images
         /\ ItemSays(item, "calls") = item.uses
         /\ ItemSays(item, "results") = Results(item.results)
<1>0. /\ "texts" # "images" /\ "texts" # "calls" /\ "texts" # "results"
      /\ "images" # "calls" /\ "images" # "results" /\ "calls" # "results"
  OBVIOUS
<1>1. ItemSays(item, "texts") = Words(item.text)
  BY <1>0, Zenon DEF ItemSays
<1>2. ItemSays(item, "images") = item.images
  BY <1>0, Zenon DEF ItemSays
<1>3. ItemSays(item, "calls") = item.uses
  BY <1>0, Zenon DEF ItemSays
<1>4. ItemSays(item, "results") = Results(item.results)
  BY <1>0, Zenon DEF ItemSays
<1> QED
  BY <1>1, <1>2, <1>3, <1>4

(* All of it can be said.                                                  *)
LEMMA SaysType ==
  /\ \A m \in Message, kind \in Kinds : MessageSays(m, kind) \in Seq(Utterance)
  /\ \A item \in Item, kind \in Kinds : ItemSays(item, kind) \in Seq(Utterance)
<1>0. /\ Seq(Texts) \subseteq Seq(Utterance) /\ Seq({"image"}) \subseteq Seq(Utterance)
      /\ Seq(Ids) \subseteq Seq(Utterance) /\ Seq(ToolResult) \subseteq Seq(Utterance)
      /\ <<>> \in Seq(Utterance)
  BY DEF Utterance
<1>1. ASSUME NEW m \in Message, NEW kind \in Kinds PROVE MessageSays(m, kind) \in Seq(Utterance)
  <2>1. /\ m.texts \in Seq(Texts) /\ Images(m) \in Seq({"image"}) /\ m.calls \in Seq(Ids)
        /\ m.results \in Seq(ClientResult) /\ m.id \in Ids
    BY ParsedTypes
  <2>2. Words(m.texts) \in Seq(Texts) /\ Results(m.results) \in Seq(ToolResult)
    BY <2>1, WordsType, ParsedResultsSay
  <2>3. Results(<<m>>) \in Seq(ToolResult)
    <3>1. PICK s : s = <<m>>
      OBVIOUS
    <3>2. DOMAIN s = 1..1 /\ s[1] = m
      BY <3>1
    <3>3. Results(s) = [i \in 1..1 |-> [id |-> s[i].id, texts |-> Words(s[i].texts)]]
      BY <3>2 DEF Results
    <3>4. [id |-> m.id, texts |-> Words(m.texts)] \in ToolResult
      BY <2>1, <2>2 DEF ToolResult
    <3>5. PICK r \in ToolResult : r = [id |-> s[1].id, texts |-> Words(s[1].texts)]
      BY <3>2, <3>4
    <3>6. Results(s) = [i \in 1..1 |-> r]
      BY <3>3, <3>5
    <3>7. [i \in 1..1 |-> r] \in Seq(ToolResult)
      OBVIOUS
    <3> QED
      BY <3>1, <3>6, <3>7
  <2>4. /\ MessageSays(m, "texts") \in Seq(Utterance) /\ MessageSays(m, "images") \in Seq(Utterance)
        /\ MessageSays(m, "calls") \in Seq(Utterance) /\ MessageSays(m, "results") \in Seq(Utterance)
    BY <1>0, <2>1, <2>2, <2>3, MessageSaysCases, Zenon
  <2> QED
    BY <2>4 DEF Kinds
<1>2. ASSUME NEW item \in Item, NEW kind \in Kinds PROVE ItemSays(item, kind) \in Seq(Utterance)
  <2>1. /\ item.text \in Seq(Texts) /\ item.images \in Seq({"image"}) /\ item.uses \in Seq(Ids)
        /\ item.results \in Seq(ToolResult)
    BY DEF Item
  <2>2. Words(item.text) \in Seq(Texts) /\ Results(item.results) \in Seq(ToolResult)
    BY <2>1, WordsType, ResultsSay
  <2>4. /\ ItemSays(item, "texts") \in Seq(Utterance) /\ ItemSays(item, "images") \in Seq(Utterance)
        /\ ItemSays(item, "calls") \in Seq(Utterance) /\ ItemSays(item, "results") \in Seq(Utterance)
    BY <1>0, <2>1, <2>2, ItemSaysCases, Zenon
  <2> QED
    BY <2>4 DEF Kinds
<1> QED
  BY <1>1, <1>2

(* What the two kinds of items say.                                        *)
LEMMA UserSays ==
  ASSUME NEW texts \in Seq(Texts), NEW images \in Seq({"image"}),
         NEW results \in Seq(ToolResult)
  PROVE  LET item == UserItem(texts, images, results)
         IN /\ ItemSays(item, "texts") = Words(texts) /\ ItemSays(item, "images") = images
            /\ ItemSays(item, "calls") = <<>> /\ ItemSays(item, "results") = Results(results)
<1> DEFINE item == UserItem(texts, images, results)
<1>1. /\ item.text = NonEmpty(texts) /\ item.images = images /\ item.uses = <<>>
      /\ item.results = ToolResults(results)
  BY DEF UserItem
<1> HIDE DEF item
<1>2. /\ ItemSays(item, "texts") = Words(texts) /\ ItemSays(item, "images") = images
      /\ ItemSays(item, "calls") = <<>> /\ ItemSays(item, "results") = Results(results)
  BY <1>1, ItemSaysCases, NonEmptySays, ResultsSay
<1> QED
  BY <1>2 DEF item

(* The assistant's.                                                        *)
LEMMA AssistantSays ==
  ASSUME NEW texts \in Seq(Texts), NEW calls \in Seq(Ids)
  PROVE  LET item == AssistantItem(texts, calls)
         IN /\ ItemSays(item, "texts") = Words(texts) /\ ItemSays(item, "images") = <<>>
            /\ ItemSays(item, "calls") = calls /\ ItemSays(item, "results") = <<>>
<1> DEFINE item == AssistantItem(texts, calls)
<1>1. /\ item.text = NonEmpty(texts) /\ item.images = <<>> /\ item.uses = calls
      /\ item.results = <<>>
  BY DEF AssistantItem
<1> HIDE DEF item
<1>2. Results(<<>>) = <<>>
  BY DEF Results
<1>3. /\ ItemSays(item, "texts") = Words(texts) /\ ItemSays(item, "images") = <<>>
      /\ ItemSays(item, "calls") = calls /\ ItemSays(item, "results") = <<>>
  BY <1>1, <1>2, ItemSaysCases, NonEmptySays
<1> QED
  BY <1>3 DEF item

(* Placeholders say nothing.                                               *)
LEMMA PlaceholdersSayNothing ==
  \A kind \in Kinds : /\ ItemSays(UserItem(<<>>, <<>>, <<>>), kind) = <<>>
                      /\ ItemSays(AssistantItem(<<>>, <<>>), kind) = <<>>
<1>1. /\ <<>> \in Seq(Texts) /\ <<>> \in Seq({"image"})
      /\ <<>> \in Seq(ToolResult) /\ <<>> \in Seq(Ids)
  OBVIOUS
<1>2. Results(<<>>) = <<>> /\ Words(<<>>) = <<>>
  BY NoWords DEF Results
<1>3. LET item == UserItem(<<>>, <<>>, <<>>)
      IN /\ ItemSays(item, "texts") = <<>> /\ ItemSays(item, "images") = <<>>
         /\ ItemSays(item, "calls") = <<>> /\ ItemSays(item, "results") = <<>>
  BY <1>1, <1>2, UserSays
<1>4. LET item == AssistantItem(<<>>, <<>>)
      IN /\ ItemSays(item, "texts") = <<>> /\ ItemSays(item, "images") = <<>>
         /\ ItemSays(item, "calls") = <<>> /\ ItemSays(item, "results") = <<>>
  BY <1>1, <1>2, AssistantSays
<1> QED
  BY <1>3, <1>4 DEF Kinds

(* A message that is parsed and converted says what it said, and an item   *)
(* of the assistant is made of the assistant's messages.                   *)
LEMMA ConvertSays ==
  ASSUME NEW m \in Message, ~IsSystem(m), req.protocol \in {"anthropic", "openai"}
  PROVE  /\ \A kind \in Kinds : ItemSays(ConvertMessage(Unified(m)), kind) = MessageSays(m, kind)
         /\ ConvertMessage(Unified(m)).role = "assistant" <=> m.role = "assistant"
<1>1. /\ m.texts \in Seq(Texts) /\ Images(m) \in Seq({"image"}) /\ m.calls \in Seq(Ids)
      /\ m.results \in Seq(ClientResult) /\ m.id \in Ids
      /\ ToolResultTexts(m.results) \in Seq(ToolResult)
      /\ Results(ToolResultTexts(m.results)) = Results(m.results)
  BY ParsedTypes, ParsedResultsSay
<1>2. /\ <<>> \in Seq(Texts) /\ <<>> \in Seq({"image"})
      /\ <<>> \in Seq(ToolResult) /\ <<>> \in Seq(Ids)
  OBVIOUS
<1>3. Results(<<>>) = <<>> /\ Words(<<>>) = <<>>
  BY NoWords DEF Results
<1>4. CASE m.role = "assistant"
  <2>1. ConvertMessage(Unified(m)) = AssistantItem(m.texts, m.calls)
    <3>1. Unified(m).role = "assistant" /\ Unified(m).texts = m.texts /\ Unified(m).calls = m.calls
      BY <1>4 DEF Unified, AnthropicMessage, AnthropicRole, OpenAIMessage, OpenAIRole
    <3> QED
      BY <3>1, Zenon DEF ConvertMessage
  <2>2. ~IsTool(m)
    BY <1>4 DEF IsTool
  <2>3. LET item == AssistantItem(m.texts, m.calls)
        IN /\ ItemSays(item, "texts") = MessageSays(m, "texts")
           /\ ItemSays(item, "images") = MessageSays(m, "images")
           /\ ItemSays(item, "calls") = MessageSays(m, "calls")
           /\ ItemSays(item, "results") = MessageSays(m, "results")
    BY <1>1, <1>4, <2>2, AssistantSays, MessageSaysCases
  <2>4. AssistantItem(m.texts, m.calls).role = "assistant"
    BY DEF AssistantItem
  <2> QED
    BY <1>4, <2>1, <2>3, <2>4 DEF Kinds
<1>5. CASE m.role # "assistant" /\ req.protocol = "anthropic"
  <2>1. ConvertMessage(Unified(m)) = UserItem(m.texts, Images(m), ToolResultTexts(m.results))
    <3>1. /\ Unified(m).role = "user" /\ Unified(m).texts = m.texts /\ Unified(m).images = Images(m)
          /\ Unified(m).results = ToolResultTexts(m.results)
      BY <1>5 DEF Unified, AnthropicMessage, AnthropicRole
    <3>2. "user" # "assistant" /\ "user" # "tool"
      OBVIOUS
    <3> QED
      BY <3>1, <3>2, Zenon DEF ConvertMessage
  <2>2. ~IsTool(m)
    BY <1>5 DEF IsTool
  <2>3. LET item == UserItem(m.texts, Images(m), ToolResultTexts(m.results))
        IN /\ ItemSays(item, "texts") = MessageSays(m, "texts")
           /\ ItemSays(item, "images") = MessageSays(m, "images")
           /\ ItemSays(item, "calls") = MessageSays(m, "calls")
           /\ ItemSays(item, "results") = MessageSays(m, "results")
    <3>1. LET item == UserItem(m.texts, Images(m), ToolResultTexts(m.results))
          IN /\ ItemSays(item, "texts") = Words(m.texts) /\ ItemSays(item, "images") = Images(m)
             /\ ItemSays(item, "calls") = <<>> /\ ItemSays(item, "results") = Results(m.results)
      BY <1>1, UserSays
    <3>2. /\ MessageSays(m, "texts") = Words(m.texts) /\ MessageSays(m, "images") = Images(m)
          /\ MessageSays(m, "calls") = <<>> /\ MessageSays(m, "results") = Results(m.results)
      BY <1>5, <2>2, MessageSaysCases, Zenon
    <3> QED
      BY <3>1, <3>2
  <2>4. UserItem(m.texts, Images(m), ToolResultTexts(m.results)).role # "assistant"
    BY DEF UserItem
  <2> QED
    BY <1>5, <2>1, <2>3, <2>4 DEF Kinds
<1>6. CASE req.protocol = "openai" /\ m.role = "tool"
  <2> DEFINE r == <<[id |-> m.id, texts |-> m.texts]>>
  <2>1. ConvertMessage(Unified(m)) = UserItem(<<>>, <<>>, r)
    <3>1. Unified(m).role = "tool" /\ Unified(m).images = <<>> /\ Unified(m).results = r
      BY <1>6 DEF Unified, OpenAIMessage, OpenAIRole
    <3>2. "tool" # "assistant"
      OBVIOUS
    <3> HIDE DEF r
    <3> QED
      BY <3>1, <3>2, Zenon DEF ConvertMessage
  <2>2. IsTool(m)
    BY <1>6 DEF IsTool
  <2>3. r \in Seq(ToolResult)
    <3>1. [id |-> m.id, texts |-> m.texts] \in ToolResult
      BY <1>1 DEF ToolResult
    <3> QED
      BY <3>1
  <2>4. Results(r) = Results(<<m>>)
    <3>1. PICK s : s = <<m>>
      OBVIOUS
    <3>2. PICK q : q = r
      OBVIOUS
    <3>3. /\ DOMAIN s = {1} /\ s[1].id = m.id /\ s[1].texts = m.texts
          /\ DOMAIN q = {1} /\ q[1].id = m.id /\ q[1].texts = m.texts
      BY <3>1, <3>2
    <3>4. /\ Results(s) = [i \in {1} |-> [id |-> s[i].id, texts |-> Words(s[i].texts)]]
          /\ Results(q) = [i \in {1} |-> [id |-> q[i].id, texts |-> Words(q[i].texts)]]
      BY <3>3 DEF Results
    <3>5. Results(s) = Results(q)
      BY <3>3, <3>4
    <3> QED
      BY <3>1, <3>2, <3>5
  <2> HIDE DEF r
  <2>5. m.role # "assistant"
    BY <1>6
  <2>6. LET item == UserItem(<<>>, <<>>, r)
        IN /\ ItemSays(item, "texts") = MessageSays(m, "texts")
           /\ ItemSays(item, "images") = MessageSays(m, "images")
           /\ ItemSays(item, "calls") = MessageSays(m, "calls")
           /\ ItemSays(item, "results") = MessageSays(m, "results")
    <3>1. LET item == UserItem(<<>>, <<>>, r)
          IN /\ ItemSays(item, "texts") = <<>> /\ ItemSays(item, "images") = <<>>
             /\ ItemSays(item, "calls") = <<>> /\ ItemSays(item, "results") = Results(r)
      BY <1>2, <1>3, <2>3, UserSays
    <3>2. /\ MessageSays(m, "texts") = <<>> /\ MessageSays(m, "images") = <<>>
          /\ MessageSays(m, "calls") = <<>> /\ MessageSays(m, "results") = Results(<<m>>)
      BY <1>2, <1>3, <2>2, <2>3, <2>4, <2>5, MessageSaysCases, Zenon
    <3> QED
      BY <3>1, <3>2, <2>4
  <2>7. UserItem(<<>>, <<>>, r).role # "assistant"
    BY DEF UserItem
  <2> QED
    BY <2>1, <2>5, <2>6, <2>7 DEF Kinds
<1>7. CASE req.protocol = "openai" /\ m.role \notin {"tool", "assistant"}
  <2>1. ConvertMessage(Unified(m)) = UserItem(m.texts, Images(m), <<>>)
    <3>0. OpenAIRole(m) = "user"
      BY <1>7 DEF IsSystem, OpenAIRole
    <3>1. /\ Unified(m).role = "user" /\ Unified(m).texts = m.texts /\ Unified(m).images = Images(m)
          /\ Unified(m).results = <<>>
      BY <1>7, <3>0 DEF Unified, OpenAIMessage
    <3>2. "user" # "assistant" /\ "user" # "tool"
      OBVIOUS
    <3> QED
      BY <3>1, <3>2, Zenon DEF ConvertMessage
  <2>2. ~IsTool(m) /\ req.protocol # "anthropic" /\ m.role # "assistant"
    BY <1>7 DEF IsTool
  <2>3. LET item == UserItem(m.texts, Images(m), <<>>)
        IN /\ ItemSays(item, "texts") = MessageSays(m, "texts")
           /\ ItemSays(item, "images") = MessageSays(m, "images")
           /\ ItemSays(item, "calls") = MessageSays(m, "calls")
           /\ ItemSays(item, "results") = MessageSays(m, "results")
    <3>1. LET item == UserItem(m.texts, Images(m), <<>>)
          IN /\ ItemSays(item, "texts") = Words(m.texts) /\ ItemSays(item, "images") = Images(m)
             /\ ItemSays(item, "calls") = <<>> /\ ItemSays(item, "results") = <<>>
      <4>1. LET item == UserItem(m.texts, Images(m), <<>>)
            IN /\ ItemSays(item, "texts") = Words(m.texts) /\ ItemSays(item, "images") = Images(m)
               /\ ItemSays(item, "calls") = <<>> /\ ItemSays(item, "results") = Results(<<>>)
        BY <1>1, <1>2, UserSays
      <4> QED
        BY <4>1, <1>3
    <3>2. /\ MessageSays(m, "texts") = Words(m.texts) /\ MessageSays(m, "images") = Images(m)
          /\ MessageSays(m, "calls") = <<>> /\ MessageSays(m, "results") = <<>>
      BY <1>2, <1>3, <2>2, MessageSaysCases, Zenon
    <3> QED
      BY <3>1, <3>2
  <2>4. UserItem(m.texts, Images(m), <<>>).role # "assistant"
    BY DEF UserItem
  <2> QED
    BY <2>1, <2>2, <2>3, <2>4 DEF Kinds
<1> QED
  BY <1>4, <1>5, <1>6, <1>7

-----------------------------------------------------------------------------
(* What sequences of them say.                                             *)

(* What a sequence of messages says is what each of them says in turn.     *)
LEMMA SayFacts ==
  ASSUME NEW kind \in Kinds
  PROVE  /\ Say(<<>>, kind) = <<>>
         /\ \A said \in Seq(Message) : Say(said, kind) \in Seq(Utterance)
         /\ \A said \in Seq(Message), m \in Message :
              Say(Append(said, m), kind) = Say(said, kind) \o MessageSays(m, kind)
<1> DEFINE Each(said) == [i \in DOMAIN said |-> MessageSays(said[i], kind)]
<1>1. Say(<<>>, kind) = <<>>
  <2>1. [i \in DOMAIN <<>> |-> MessageSays(<<>>[i], kind)] = <<>>
    OBVIOUS
  <2> QED
    BY <2>1, FlattenEmpty DEF Say
<1>2. ASSUME NEW said \in Seq(Message)
      PROVE  Each(said) \in Seq(Seq(Utterance)) /\ Say(said, kind) = FlattenSeq(Each(said))
  <2>1. \A i \in 1..Len(said) : MessageSays(said[i], kind) \in Seq(Utterance)
    <3>1. \A i \in 1..Len(said) : said[i] \in Message
      OBVIOUS
    <3> QED
      BY <3>1, SaysType
  <2>2. DOMAIN said = 1..Len(said) /\ Len(said) \in Nat
    OBVIOUS
  <2>3. PICK U : U = Seq(Utterance)
    OBVIOUS
  <2>4. Each(said) \in Seq(U)
    BY <2>1, <2>2, <2>3
  <2> QED
    BY <2>3, <2>4 DEF Say
<1>3. ASSUME NEW said \in Seq(Message) PROVE Say(said, kind) \in Seq(Utterance)
  <2>1. PICK e \in Seq(Seq(Utterance)) : Say(said, kind) = FlattenSeq(e)
    BY <1>2
  <2> QED
    BY <2>1, FlattenType
<1>4. ASSUME NEW said \in Seq(Message), NEW m \in Message
      PROVE  Say(Append(said, m), kind) = Say(said, kind) \o MessageSays(m, kind)
  <2> DEFINE more == Append(said, m)
             says == MessageSays(m, kind)
  <2>1. /\ more \in Seq(Message) /\ DOMAIN more = 1..(Len(said) + 1) /\ Len(said) \in Nat
        /\ DOMAIN said = 1..Len(said)
        /\ \A i \in 1..Len(said) : more[i] = said[i]
        /\ more[Len(said) + 1] = m
    OBVIOUS
  <2>2. says \in Seq(Utterance)
    BY SaysType
  <2> HIDE DEF more, says
  <2>3. PICK U : U = Seq(Utterance)
    OBVIOUS
  <2>4. PICK e \in Seq(U) : e = Each(said)
    BY <1>2, <2>3
  <2>5. PICK f \in Seq(U) : f = Each(more)
    BY <1>2, <2>1, <2>3
  <2>6. /\ DOMAIN e = DOMAIN said /\ \A i \in DOMAIN said : e[i] = MessageSays(said[i], kind)
        /\ DOMAIN f = DOMAIN more /\ \A i \in DOMAIN more : f[i] = MessageSays(more[i], kind)
    BY <2>4, <2>5
  <2>7. f = Append(e, says)
    <3>1. Len(e) = Len(said) /\ Len(f) = Len(said) + 1
      BY <2>1, <2>6
    <3>2. says \in U
      BY <2>2, <2>3
    <3>3. Append(e, says) \in Seq(U) /\ Len(Append(e, says)) = Len(said) + 1
      BY <3>1, <3>2
    <3>4. \A i \in 1..Len(said) : Append(e, says)[i] = e[i] /\ e[i] = f[i]
      BY <2>1, <2>6, <3>1, <3>2
    <3>5. Append(e, says)[Len(said) + 1] = says /\ f[Len(said) + 1] = says
      BY <2>1, <2>6, <3>1, <3>2 DEF says
    <3>6. \A i \in 1..Len(f) : f[i] = Append(e, says)[i]
      BY <3>1, <3>4, <3>5, <2>1
    <3> QED
      BY <3>1, <3>3, <3>6, SeqEqual
  <2>8. e \in Seq(Seq(Utterance))
    BY <2>3
  <2>9. FlattenSeq(Append(e, says)) = FlattenSeq(e) \o says
    BY <2>2, <2>8, FlattenAppend
  <2>10. Say(said, kind) = FlattenSeq(e) /\ Say(more, kind) = FlattenSeq(f)
    BY <1>2, <2>1, <2>4, <2>5
  <2> QED
    BY <2>7, <2>9, <2>10 DEF more, says
<1> QED
  BY <1>1, <1>3, <1>4

(* What items say, one after the other.                                    *)
LEMMA CarryFacts ==
  ASSUME NEW kind \in Kinds
  PROVE  /\ Carry(<<>>, kind) = <<>>
         /\ \A s \in Seq(Item) : Carry(s, kind) \in Seq(Utterance)
         /\ \A item \in Item : Carry(<<item>>, kind) = ItemSays(item, kind)
         /\ \A s, t \in Seq(Item) : Carry(s \o t, kind) = Carry(s, kind) \o Carry(t, kind)
<1> DEFINE Each(s) == [i \in DOMAIN s |-> ItemSays(s[i], kind)]
<1>1. Carry(<<>>, kind) = <<>>
  <2>1. [i \in DOMAIN <<>> |-> ItemSays(<<>>[i], kind)] = <<>>
    OBVIOUS
  <2> QED
    BY <2>1, FlattenEmpty DEF Carry
<1>2. ASSUME NEW s \in Seq(Item)
      PROVE  Each(s) \in Seq(Seq(Utterance)) /\ Carry(s, kind) = FlattenSeq(Each(s))
  <2>1. \A i \in 1..Len(s) : ItemSays(s[i], kind) \in Seq(Utterance)
    <3>1. \A i \in 1..Len(s) : s[i] \in Item
      OBVIOUS
    <3> QED
      BY <3>1, SaysType
  <2>2. DOMAIN s = 1..Len(s) /\ Len(s) \in Nat
    OBVIOUS
  <2>3. PICK U : U = Seq(Utterance)
    OBVIOUS
  <2>4. Each(s) \in Seq(U)
    BY <2>1, <2>2, <2>3
  <2> QED
    BY <2>3, <2>4 DEF Carry
<1>3. ASSUME NEW s \in Seq(Item) PROVE Carry(s, kind) \in Seq(Utterance)
  <2>1. PICK e \in Seq(Seq(Utterance)) : Carry(s, kind) = FlattenSeq(e)
    BY <1>2
  <2> QED
    BY <2>1, FlattenType
<1>4. ASSUME NEW item \in Item PROVE Carry(<<item>>, kind) = ItemSays(item, kind)
  <2>1. PICK s \in Seq(Item) : s = <<item>>
    <3> HIDE DEF Each
    <3>1. <<item>> \in Seq(Item)
      OBVIOUS
    <3> QED
      BY <3>1
  <2>2. DOMAIN s = 1..1 /\ s[1] = item
    BY <2>1
  <2>3. PICK says \in Seq(Utterance) : says = ItemSays(item, kind)
    BY SaysType
  <2>4. PICK none \in Seq(Seq(Utterance)) : none = <<>>
    <3>1. \A U : <<>> \in Seq(U)
      OBVIOUS
    <3> QED
      BY <3>1, Zenon
  <2>5. Each(s) = [i \in 1..1 |-> says]
    BY <2>2, <2>3
  <2>6. Append(none, says) = [i \in 1..1 |-> says]
    BY <2>4
  <2>7. FlattenSeq(Append(none, says)) = FlattenSeq(none) \o says
    BY FlattenAppend
  <2>8. FlattenSeq(none) \o says = says
    BY <2>4, FlattenEmpty, ConcatEmptySeq
  <2>9. Carry(s, kind) = FlattenSeq(Each(s))
    BY <1>2
  <2> QED
    BY <2>1, <2>3, <2>5, <2>6, <2>7, <2>8, <2>9
<1>5. ASSUME NEW s \in Seq(Item), NEW t \in Seq(Item)
      PROVE  Carry(s \o t, kind) = Carry(s, kind) \o Carry(t, kind)
  <2> DEFINE n == Len(s)
             m == Len(t)
  <2>1. PICK u \in Seq(Item) : u = s \o t
    BY ConcatProperties
  <2>2. /\ n \in Nat /\ m \in Nat /\ DOMAIN u = 1..(n + m) /\ DOMAIN s = 1..n /\ DOMAIN t = 1..m
        /\ \A i \in 1..n : u[i] = s[i]
        /\ \A i \in 1..m : u[n + i] = t[i]
    BY <2>1
  <2> HIDE DEF n, m
  <2>3. PICK U : U = Seq(Utterance)
    OBVIOUS
  <2>4. PICK e \in Seq(U) : e = Each(s)
    BY <1>2, <2>3
  <2>5. PICK f \in Seq(U) : f = Each(t)
    BY <1>2, <2>3
  <2>6. PICK g \in Seq(U) : g = Each(u)
    BY <1>2, <2>3
  <2>7. /\ DOMAIN e = 1..n /\ \A i \in 1..n : e[i] = ItemSays(s[i], kind)
        /\ DOMAIN f = 1..m /\ \A i \in 1..m : f[i] = ItemSays(t[i], kind)
        /\ DOMAIN g = 1..(n + m) /\ \A i \in 1..(n + m) : g[i] = ItemSays(u[i], kind)
    BY <2>2, <2>4, <2>5, <2>6
  <2>8. g = e \o f
    <3>1. Len(e) = n /\ Len(f) = m /\ Len(g) = n + m
      BY <2>2, <2>7
    <3>2. e \o f \in Seq(U) /\ Len(e \o f) = n + m
      BY <3>1
    <3>3. ASSUME NEW i \in 1..(n + m) PROVE g[i] = (e \o f)[i]
      <4>1. CASE i <= n
        <5>1. (e \o f)[i] = e[i]
          BY <2>2, <3>1, <4>1
        <5> QED
          BY <2>2, <2>7, <4>1, <5>1
      <4>2. CASE i > n
        <5>1. PICK j \in 1..m : i = n + j
          <6>1. i - n \in 1..m /\ i = n + (i - n)
            BY <2>2, <4>2
          <6> QED
            BY <6>1
        <5>2. (e \o f)[i] = f[j]
          BY <2>2, <3>1, <5>1
        <5>3. u[i] = t[j]
          BY <2>2, <5>1
        <5> QED
          BY <2>7, <5>2, <5>3
      <4>3. n + m \in Int
        BY <2>2
      <4>4. i <= n \/ i > n
        BY <2>2, <4>3
      <4> QED
        BY <4>1, <4>2, <4>4
    <3> QED
      BY <3>1, <3>2, <3>3, SeqEqual
  <2>9. e \in Seq(Seq(Utterance)) /\ f \in Seq(Seq(Utterance))
    BY <2>3
  <2>10. FlattenSeq(e \o f) = FlattenSeq(e) \o FlattenSeq(f)
    BY <2>9, FlattenConcat
  <2>11. Carry(s, kind) = FlattenSeq(e) /\ Carry(t, kind) = FlattenSeq(f) /\ Carry(u, kind) = FlattenSeq(g)
    BY <1>2, <2>4, <2>5, <2>6
  <2> QED
    BY <2>1, <2>8, <2>10, <2>11
<1> QED
  BY <1>1, <1>3, <1>4, <1>5

(* The items that are put into a history.                                  *)
LEMMA ItemTypes ==
  /\ UserItem(<<>>, <<>>, <<>>) \in Item /\ UserItem(<<>>, <<>>, <<>>).role = "user"
  /\ AssistantItem(<<>>, <<>>) \in Item /\ AssistantItem(<<>>, <<>>).role = "assistant"
<1>1. /\ <<>> \in Seq(Texts) /\ <<>> \in Seq({"image"})
      /\ <<>> \in Seq(ToolResult) /\ <<>> \in Seq(Ids)
  OBVIOUS
<1> QED
  BY <1>1, UserItemType, AssistantItemType

(* A repair says the item, and nothing else, and the item is the last.     *)
LEMMA RepairedSays ==
  ASSUME NEW s \in Seq(Item), NEW item \in Item
  PROVE  /\ \A kind \in Kinds :
              Carry(Repaired(s, item), kind) = Carry(s, kind) \o ItemSays(item, kind)
         /\ Repaired(s, item) # <<>> /\ Last(Repaired(s, item)) = item
<1> DEFINE t == Repaired(s, item)
<1>1. CASE s = <<>>
  <2>1. t = <<item>>
    BY <1>1 DEF Repaired
  <2>2. t # <<>> /\ Last(t) = item
    BY <2>1 DEF Last
  <2>3. ASSUME NEW kind \in Kinds PROVE Carry(t, kind) = Carry(s, kind) \o ItemSays(item, kind)
    <3>1. Carry(s, kind) = <<>> /\ Carry(t, kind) = ItemSays(item, kind)
      BY <1>1, <2>1, CarryFacts
    <3>2. ItemSays(item, kind) \in Seq(Utterance)
      BY SaysType
    <3> QED
      BY <3>1, <3>2, ConcatEmptySeq
  <2> QED
    BY <2>2, <2>3
<1>2. CASE s # <<>>
  <2>1. Last(s) \in Item
    BY <1>2 DEF Last
  <2>2. t = s \o Separator(Last(s), item) \o <<item>>
    BY <1>2 DEF Repaired
  <2>3. \/ Separator(Last(s), item) = <<>>
        \/ Separator(Last(s), item) = <<UserItem(<<>>, <<>>, <<>>)>>
        \/ Separator(Last(s), item) = <<AssistantItem(<<>>, <<>>)>>
    BY DEF Separator
  <2>4. PICK p \in Seq(Item) : /\ p = Separator(Last(s), item)
                              /\ \A kind \in Kinds : Carry(p, kind) = <<>>
    <3>1. CASE Separator(Last(s), item) = <<>>
      <4>1. <<>> \in Seq(Item)
        OBVIOUS
      <4> QED
        BY <3>1, <4>1, CarryFacts
    <3>2. ASSUME NEW x \in Item, \A kind \in Kinds : ItemSays(x, kind) = <<>>,
                 Separator(Last(s), item) = <<x>>
          PROVE  /\ Separator(Last(s), item) \in Seq(Item)
                 /\ \A kind \in Kinds : Carry(Separator(Last(s), item), kind) = <<>>
      <4>1. <<x>> \in Seq(Item)
        OBVIOUS
      <4> QED
        BY <3>2, <4>1, CarryFacts
    <3> QED
      BY <2>3, <3>1, <3>2, ItemTypes, PlaceholdersSayNothing
  <2>5. PICK q \in Seq(Item) : q = s \o p
    BY ConcatProperties
  <2>6. PICK one \in Seq(Item) : one = <<item>>
    <3>1. <<item>> \in Seq(Item)
      OBVIOUS
    <3> QED
      BY <3>1
  <2>7. t = q \o one
    BY <2>2, <2>4, <2>5, <2>6
  <2> HIDE DEF t
  <2>8. t # <<>> /\ Last(t) = item
    <3>1. Len(one) = 1 /\ one[1] = item
      BY <2>6
    <3>2. Len(t) = Len(q) + 1 /\ t[Len(q) + 1] = item /\ Len(q) \in Nat
      <4> HIDE DEF Item
      <4>1. /\ Len(q) \in Nat /\ Len(q \o one) = Len(q) + Len(one)
            /\ (q \o one)[Len(q) + 1] = one[1]
        <5> DEFINE n == Len(q) + 1
        <5>1. /\ Len(q) \in Nat /\ Len(q \o one) = Len(q) + Len(one)
              /\ \A i \in 1..(Len(q) + Len(one)) :
                   (q \o one)[i] = IF i <= Len(q) THEN q[i] ELSE one[i - Len(q)]
          BY ConcatProperties
        <5>2. n \in 1..(Len(q) + Len(one)) /\ ~(n <= Len(q)) /\ n - Len(q) = 1
          BY <3>1, <5>1
        <5> HIDE DEF n
        <5>3. (q \o one)[n] = one[n - Len(q)]
          BY <5>1, <5>2
        <5> QED
          BY <5>1, <5>2, <5>3 DEF n
      <4> QED
        BY <2>7, <3>1, <4>1
    <3> QED
      BY <3>2 DEF Last
  <2>9. ASSUME NEW kind \in Kinds PROVE Carry(t, kind) = Carry(s, kind) \o ItemSays(item, kind)
    <3>1. Carry(t, kind) = Carry(q, kind) \o Carry(one, kind)
      BY <2>7, CarryFacts
    <3>2. Carry(one, kind) = ItemSays(item, kind)
      BY <2>6, CarryFacts
    <3>3. Carry(q, kind) = Carry(s, kind) \o Carry(p, kind)
      BY <2>5, CarryFacts
    <3>4. Carry(p, kind) = <<>> /\ Carry(s, kind) \in Seq(Utterance)
      BY <2>4, CarryFacts
    <3>5. Carry(s, kind) \o <<>> = Carry(s, kind)
      BY <3>4, ConcatEmptySeq
    <3> QED
      BY <3>1, <3>2, <3>3, <3>4, <3>5
  <2> QED
    BY <2>8, <2>9 DEF t
<1> QED
  BY <1>1, <1>2

(* Texts one after the other are words one after the other.                *)
LEMMA WordsConcat ==
  ASSUME NEW s \in Seq(Texts), NEW t \in Seq(Texts)
  PROVE  Words(s \o t) = Words(s) \o Words(t)
BY SelectedConcat DEF Words

(* What is said can be put together in any order.                          *)
LEMMA SaysAssociate ==
  \A a, b, c \in Seq(Utterance) : (a \o b) \o c = a \o (b \o c)
BY ConcatAssociative

-----------------------------------------------------------------------------
(* What the client has said.                                               *)

(* Who has spoken.                                                         *)
LEMMA SpokenFacts ==
  ASSUME TypeOK
  PROVE  /\ req.messages \in Seq(Message) /\ req.protocol \in {"anthropic", "openai"}
         /\ req.system.texts \in Seq(Texts)
         /\ Spoken \in Seq(Message)
         /\ \A i \in 1..Len(Spoken) : Spoken[i] \in Message /\ ~IsSystem(Spoken[i])
<1>1. /\ req.messages \in Seq(Message) /\ req.protocol \in {"anthropic", "openai"}
      /\ req.system.texts \in Seq(Texts)
  BY RequestsAssumption DEF TypeOK, Request
<1> DEFINE K == ToSet(req.messages) \ SystemMessages
<1>2. Selected(req.messages, K) \in Seq(Message \intersect K)
  BY <1>1, SelectedMembers
<1>3. PICK s \in Seq(Message \intersect K) : s = Spoken
  BY <1>2 DEF Spoken
<1>4. \A i \in 1..Len(s) : s[i] \in Message \intersect K
  OBVIOUS
<1>5. \A m \in K : ~IsSystem(m)
  BY DEF SystemMessages
<1>6. s \in Seq(Message)
  <2> HIDE DEF K
  <2> QED
    OBVIOUS
<1> QED
  BY <1>1, <1>3, <1>4, <1>5, <1>6

(* The system prompt is made of words.                                     *)
LEMMA SystemSaysType ==
  ASSUME TypeOK, NEW kind \in Kinds
  PROVE  SystemSays(kind) \in Seq(Utterance)
<1>1. <<>> \in Seq(Utterance) /\ Seq(Texts) \subseteq Seq(Utterance)
  BY DEF Utterance
<1>2. req.messages \in Seq(Message) /\ req.system.texts \in Seq(Texts)
  BY SpokenFacts
<1>3. Selected(req.messages, SystemMessages) \in Seq(Message)
  BY <1>2, SelectedType
<1>4. Say(Selected(req.messages, SystemMessages), kind) \in Seq(Utterance)
  BY <1>3, SayFacts
<1>5. Words(req.system.texts) \in Seq(Utterance)
  BY <1>1, <1>2, WordsType
<1>6. Words(req.system.texts) \o Say(Selected(req.messages, SystemMessages), kind) \in Seq(Utterance)
  BY <1>4, <1>5, ConcatProperties
<1> QED
  BY <1>1, <1>6 DEF SystemSays

-----------------------------------------------------------------------------
(* Nothing is lost: what has been heard, and what has been built of it.    *)

PlainMessages == ToSet(req.messages) \ SystemMessages

Unify(said) == [i \in DOMAIN said |-> Unified(said[i])]

(* What has been parsed, and then what all of it was.                      *)
HeardInv ==
  /\ pc = "decode" => index = 0 /\ messages = <<>>
  /\ pc = "parse" =>
       LET past == SubSeq(req.messages, 1, index)
       IN /\ index <= Len(req.messages)
          /\ messages = Unify(Selected(past, PlainMessages))
          /\ Words(system) = Words(req.system.texts) \o Say(Selected(past, SystemMessages), "texts")
  /\ pc \in {"handle", "acquire", "convert", "repair", "sent"} =>
       messages = Unify(Spoken) /\ Words(system) = SystemSays("texts")

Prompt == UserItem(system, <<>>, <<>>)

Answer == AssistantItem(<<>>, <<>>)

FinalItem == IF messages = <<>> THEN Answer ELSE ConvertMessage(messages[Len(messages)])

(* With a system prompt, it and its answer are the first two items.        *)
Prompted ==
  \/ repaired = <<>> /\ Len(items) >= 2 /\ items[1] = Prompt /\ items[2] = Answer
  \/ Len(repaired) = 1 /\ repaired[1] = Prompt /\ items # <<>> /\ items[1] = Answer
  \/ Len(repaired) >= 2 /\ repaired[1] = Prompt /\ repaired[2] = Answer

ConvertInv ==
  /\ index <= Len(messages) /\ repaired = <<>>
  /\ \A kind \in Kinds : Carry(items, kind) = SystemSays(kind) \o Say(SubSeq(Spoken, 1, index), kind)
  /\ HasSystem => Len(items) >= 2 /\ items[1] = Prompt /\ items[2] = Answer
  /\ index > 0 => items # <<>>
  /\ items # <<>> => Last(items) = IF index = 0 THEN Answer ELSE ConvertMessage(messages[index])

AlternateInv ==
  /\ \A kind \in Kinds :
       Carry(repaired, kind) \o Carry(items, kind) = SystemSays(kind) \o Say(Spoken, kind)
  /\ HasSystem => Prompted
  /\ messages # <<>> => items # <<>> \/ repaired # <<>>
  /\ items # <<>> => Last(items) = FinalItem
  /\ items = <<>> /\ repaired # <<>> => Last(repaired) = FinalItem

BuildInv == (pc = "convert" => ConvertInv) /\ (pc = "repair" => AlternateInv)

(* Messages are unified one by one.                                        *)
LEMMA UnifyFacts ==
  ASSUME NEW said \in Seq(Message)
  PROVE  /\ Unify(said) \in Seq(UnifiedMessage) /\ Len(Unify(said)) = Len(said)
         /\ \A i \in 1..Len(said) : Unify(said)[i] = Unified(said[i])
         /\ \A m \in Message : Unify(Append(said, m)) = Append(Unify(said), Unified(m))
<1>1. DOMAIN said = 1..Len(said) /\ Len(said) \in Nat /\ \A i \in 1..Len(said) : said[i] \in Message
  OBVIOUS
<1>2. \A i \in 1..Len(said) : Unified(said[i]) \in UnifiedMessage
  BY <1>1, UnifiedType
<1> HIDE DEF Message, UnifiedMessage
<1>3. PICK u : u = Unify(said)
  OBVIOUS
<1>4. /\ u \in Seq(UnifiedMessage) /\ Len(u) = Len(said) /\ DOMAIN u = 1..Len(said)
      /\ \A i \in 1..Len(said) : u[i] = Unified(said[i])
  <2>1. u = [i \in 1..Len(said) |-> Unified(said[i])]
    BY <1>1, <1>3 DEF Unify
  <2> QED
    BY <1>1, <1>2, <2>1
<1>5. ASSUME NEW m \in Message PROVE Unify(Append(said, m)) = Append(u, Unified(m))
  <2> DEFINE more == Append(said, m)
  <2>1. /\ DOMAIN more = 1..(Len(said) + 1) /\ more[Len(said) + 1] = m
        /\ \A i \in 1..Len(said) : more[i] = said[i]
    BY <1>1
  <2> HIDE DEF more
  <2>2. PICK x \in UnifiedMessage : x = Unified(m)
    BY UnifiedType
  <2>3. Unify(more) = [i \in 1..(Len(said) + 1) |-> Unified(more[i])]
    BY <2>1 DEF Unify
  <2>4. PICK v \in Seq(UnifiedMessage) : v = Append(u, x)
    <3>1. u \in Seq(UnifiedMessage) /\ x \in UnifiedMessage
      BY <1>4
    <3>2. Append(u, x) \in Seq(UnifiedMessage)
      BY <3>1
    <3> QED
      BY <3>2
  <2>5. /\ Len(v) = Len(said) + 1
        /\ \A i \in 1..(Len(said) + 1) : Unified(more[i]) = v[i]
    BY <1>1, <1>4, <2>1, <2>2, <2>4
  <2>6. v = [i \in 1..Len(v) |-> v[i]]
    OBVIOUS
  <2> QED
    BY <2>2, <2>3, <2>4, <2>5, <2>6 DEF more
<1> QED
  BY <1>3, <1>4, <1>5

(* The next message is parsed.                                             *)
LEMMA HeardNext ==
  ASSUME TypeOK, NEW past \in Seq(Message), NEW m \in Message, m \in ToSet(req.messages)
  PROVE  /\ Unify(Selected(Append(past, m), PlainMessages)) =
              IF IsSystem(m) THEN Unify(Selected(past, PlainMessages))
              ELSE Append(Unify(Selected(past, PlainMessages)), Unified(m))
         /\ Say(Selected(Append(past, m), SystemMessages), "texts") =
              IF IsSystem(m) THEN Say(Selected(past, SystemMessages), "texts") \o Words(m.texts)
              ELSE Say(Selected(past, SystemMessages), "texts")
<1>1. m \in SystemMessages <=> IsSystem(m)
  BY DEF SystemMessages
<1>2. m \in PlainMessages <=> ~IsSystem(m)
  BY <1>1 DEF PlainMessages
<1>3. Selected(past, PlainMessages) \in Seq(Message) /\ Selected(past, SystemMessages) \in Seq(Message)
  BY SelectedType
<1>4. /\ Selected(Append(past, m), PlainMessages) =
           IF IsSystem(m) THEN Selected(past, PlainMessages)
           ELSE Append(Selected(past, PlainMessages), m)
      /\ Selected(Append(past, m), SystemMessages) =
           IF IsSystem(m) THEN Append(Selected(past, SystemMessages), m)
           ELSE Selected(past, SystemMessages)
  BY <1>1, <1>2, SelectedAppend
<1>5. ASSUME IsSystem(m) PROVE MessageSays(m, "texts") = Words(m.texts)
  <2>1. ~IsTool(m)
    BY <1>5 DEF IsSystem, IsTool, OpenAIRole
  <2> QED
    BY <2>1, MessageSaysCases
<1>6. "texts" \in Kinds
  BY DEF Kinds
<1>7. Say(Append(Selected(past, SystemMessages), m), "texts") =
        Say(Selected(past, SystemMessages), "texts") \o MessageSays(m, "texts")
  BY <1>3, <1>6, SayFacts
<1>8. Unify(Append(Selected(past, PlainMessages), m)) =
        Append(Unify(Selected(past, PlainMessages)), Unified(m))
  BY <1>3, UnifyFacts
<1> QED
  BY <1>4, <1>5, <1>7, <1>8

(* The request is what it was.                                             *)
LEMMA SameRequest ==
  ASSUME req' = req
  PROVE  /\ PlainMessages' = PlainMessages /\ SystemMessages' = SystemMessages
         /\ Spoken' = Spoken
         /\ \A kind \in Kinds : SystemSays(kind)' = SystemSays(kind)
<1>1. SystemMessages' = SystemMessages /\ PlainMessages' = PlainMessages
  BY DEF SystemMessages, PlainMessages, IsSystem
<1>2. Spoken' = Spoken
  BY <1>1 DEF Spoken
<1>3. \A kind \in Kinds : SystemSays(kind)' = SystemSays(kind)
  BY <1>1 DEF SystemSays, Say, MessageSays, IsTool
<1> QED
  BY <1>1, <1>2, <1>3

(* Every step keeps what has been heard.                                   *)
LEMMA HeardStep == TypeOK /\ HeardInv /\ [Next]_vars => HeardInv'
<1> SUFFICES ASSUME TypeOK, HeardInv, [Next]_vars PROVE HeardInv'
  OBVIOUS
<1>0. req.messages \in Seq(Message) /\ req.system.texts \in Seq(Texts)
  BY SpokenFacts
<1>1. CASE Decode
  <2>1. /\ pc' \in {"parse", "done"} /\ req' = req /\ index' = 0 /\ messages' = <<>>
        /\ system' = req.system.texts
    BY <1>1 DEF Decode, Fails, HeardInv
  <2>2. SubSeq(req.messages, 1, 0) = <<>>
    BY <1>0, EmptyPrefix
  <2>3. \A K : Selected(<<>>, K) = <<>>
    BY SelectedEmpty
  <2>4. Unify(<<>>) = <<>>
    BY DEF Unify
  <2>5. Say(<<>>, "texts") = <<>>
    BY SayFacts DEF Kinds
  <2>6. Words(req.system.texts) \o <<>> = Words(req.system.texts)
    BY <1>0, WordsType, ConcatEmptySeq
  <2>7. 0 <= Len(req.messages)
    BY <1>0
  <2>8. Unify(Selected(SubSeq(req.messages, 1, 0), PlainMessages)) = <<>>
    BY <2>2, <2>3, <2>4
  <2>9. Say(Selected(SubSeq(req.messages, 1, 0), SystemMessages), "texts") = <<>>
    BY <2>2, <2>3, <2>5
  <2> QED
    <3>1. messages' = Unify(Selected(SubSeq(req.messages, 1, 0), PlainMessages))
      BY <2>1, <2>8
    <3>2. Words(system') = Words(req.system.texts)
            \o Say(Selected(SubSeq(req.messages, 1, 0), SystemMessages), "texts")
      BY <2>1, <2>6, <2>9
    <3>3. pc' \in {"parse", "done"} /\ req' = req /\ index' = 0
      BY <2>1
    <3>4. (messages = Unify(Selected(SubSeq(req.messages, 1, index), PlainMessages)))'
      BY <3>1, <3>3 DEF Unify, Unified, IsSystem, PlainMessages, SystemMessages
    <3>5. (Words(system) = Words(req.system.texts)
            \o Say(Selected(SubSeq(req.messages, 1, index), SystemMessages), "texts"))'
      BY <3>2, <3>3 DEF Say, MessageSays, IsTool, IsSystem, Words, SystemMessages
    <3> QED
      BY <2>7, <3>3, <3>4, <3>5 DEF HeardInv
<1>2. CASE Parse
  <2> DEFINE m == req.messages[index + 1]
             past == SubSeq(req.messages, 1, index)
  <2>1. /\ pc = "parse" /\ req' = req /\ index < Len(req.messages) /\ index \in Nat
        /\ messages = Unify(Selected(past, PlainMessages))
        /\ Words(system) = Words(req.system.texts) \o Say(Selected(past, SystemMessages), "texts")
        /\ system \in Seq(Texts)
    BY <1>2 DEF Parse, HeardInv, TypeOK
  <2>2. CASE Unsupported(m)
    <3>1. pc' = "done"
      BY <1>2, <2>2 DEF Parse, Fails
    <3> QED
      BY <3>1 DEF HeardInv
  <2>3. CASE ~Unsupported(m)
    <3>1. /\ pc' = "parse" /\ index' = index + 1
          /\ system' = IF IsSystem(m) /\ HasText(m.texts) THEN system \o m.texts ELSE system
          /\ messages' = IF IsSystem(m) THEN messages ELSE Append(messages, Unified(m))
      BY <1>2, <2>1, <2>3 DEF Parse
    <3>2. /\ SubSeq(req.messages, 1, index + 1) = Append(past, m)
          /\ past \in Seq(Message) /\ m \in Message
      <4>1. index + 1 \in 1..Len(req.messages) /\ (index + 1) - 1 = index
        BY <2>1, <1>0
      <4> QED
        BY <1>0, <4>1, NextPrefix
    <3>3. m \in ToSet(req.messages)
      BY <1>0, <2>1 DEF ToSet
    <3>4. m.texts \in Seq(Texts)
      BY <3>2 DEF Message
    <3> HIDE DEF m, past
    <3>5. messages' = Unify(Selected(Append(past, m), PlainMessages))
      BY <2>1, <3>1, <3>2, <3>3, HeardNext
    <3>6. Words(system') =
            Words(req.system.texts) \o Say(Selected(Append(past, m), SystemMessages), "texts")
      <4>1. CASE ~IsSystem(m)
        BY <2>1, <3>1, <3>2, <3>3, <4>1, HeardNext
      <4>2. CASE IsSystem(m)
        <5> DEFINE a == Words(req.system.texts)
                   b == Say(Selected(past, SystemMessages), "texts")
                   c == Words(m.texts)
        <5>1. Say(Selected(Append(past, m), SystemMessages), "texts") = b \o c
          BY <3>2, <3>3, <4>2, HeardNext
        <5>2. Words(system') = Words(system) \o c
          <6>1. CASE HasText(m.texts)
            BY <2>1, <3>1, <3>4, <4>2, <6>1, WordsConcat
          <6>2. CASE ~HasText(m.texts)
            <7>1. c = <<>>
              BY <3>4, <6>2, NoWords
            <7>2. Words(system) \o <<>> = Words(system)
              BY <2>1, WordsType, ConcatEmptySeq
            <7> QED
              BY <3>1, <6>2, <7>1, <7>2
          <6> QED
            BY <6>1, <6>2
        <5>3. a \in Seq(Utterance) /\ b \in Seq(Utterance) /\ c \in Seq(Utterance)
          <6>1. Seq(Texts) \subseteq Seq(Utterance)
            BY DEF Utterance
          <6>2. Selected(past, SystemMessages) \in Seq(Message)
            BY <3>2, SelectedType
          <6>3. b \in Seq(Utterance)
            BY <6>2, SayFacts DEF Kinds
          <6>4. a \in Seq(Texts) /\ c \in Seq(Texts)
            BY <1>0, <3>4, WordsType
          <6> QED
            BY <6>1, <6>3, <6>4
        <5> HIDE DEF a, b, c
        <5>4. (a \o b) \o c = a \o (b \o c)
          BY <5>3, SaysAssociate
        <5>5. Words(system) = a \o b
          BY <2>1 DEF a, b
        <5> QED
          BY <5>1, <5>2, <5>4, <5>5 DEF a
      <4> QED
        BY <4>1, <4>2
    <3>7. index + 1 <= Len(req.messages)
      BY <1>0, <2>1
    <3> QED
      <4>1. PICK n : n = index + 1
        OBVIOUS
      <4>2. messages' = Unify(Selected(SubSeq(req.messages, 1, n), PlainMessages))
        BY <3>2, <3>5, <4>1
      <4>3. Words(system') = Words(req.system.texts)
              \o Say(Selected(SubSeq(req.messages, 1, n), SystemMessages), "texts")
        BY <3>2, <3>6, <4>1
      <4>4. pc' = "parse" /\ req' = req /\ index' = n /\ n <= Len(req.messages)
        BY <2>1, <3>1, <3>7, <4>1
      <4>5. (messages = Unify(Selected(SubSeq(req.messages, 1, index), PlainMessages)))'
        BY <4>2, <4>4 DEF Unify, Unified, IsSystem, PlainMessages, SystemMessages
      <4>6. (Words(system) = Words(req.system.texts)
              \o Say(Selected(SubSeq(req.messages, 1, index), SystemMessages), "texts"))'
        BY <4>3, <4>4 DEF Say, MessageSays, IsTool, IsSystem, Words, SystemMessages
      <4> QED
        BY <4>4, <4>5, <4>6 DEF HeardInv
  <2> QED
    BY <2>2, <2>3
<1>3. CASE Parsed
  <2>1. /\ pc = "parse" /\ pc' = "handle" /\ req' = req /\ messages' = messages /\ system' = system
        /\ index = Len(req.messages)
    BY <1>3 DEF Parsed, Goto, requestVars
  <2>2. SubSeq(req.messages, 1, index) = req.messages
    BY <1>0, <2>1, SubSeqFull
  <2>3. messages = Unify(Spoken)
    BY <2>1, <2>2 DEF HeardInv, Spoken, PlainMessages
  <2>4. Words(system) = SystemSays("texts")
    BY <2>1, <2>2 DEF HeardInv, SystemSays
  <2> QED
    BY <2>1, <2>3, <2>4, SameRequest DEF HeardInv, Unify, Unified, Words, Kinds
<1>4. ASSUME UNCHANGED <<req, system, messages>>,
             \/ pc' = "done"
             \/ /\ pc \in {"handle", "acquire", "convert", "repair", "sent"}
                /\ pc' \in {"handle", "acquire", "convert", "repair", "sent"}
      PROVE  HeardInv'
  <2>1. CASE pc' = "done"
    BY <2>1 DEF HeardInv
  <2>2. CASE pc' # "done"
    <3>1. messages = Unify(Spoken) /\ Words(system) = SystemSays("texts")
      BY <1>4, <2>2 DEF HeardInv
    <3> QED
      BY <1>4, <2>2, <3>1, SameRequest DEF HeardInv, Unify, Unified, Words, Kinds
  <2> QED
    BY <2>1, <2>2
<1>12. CASE Unnamed
  BY <1>4, <1>12 DEF Unnamed, Fails, requestVars
<1>5. ASSUME NEW account \in Accounts \union {NoAccount}, NEW compact \in BOOLEAN,
             Prepare(account, compact)
      PROVE  HeardInv'
  BY <1>4, <1>5 DEF Prepare, Goto, requestVars
<1>6. CASE AcquireFails
  BY <1>4, <1>6 DEF AcquireFails, Fails, requestVars
<1>7. ASSUME NEW account \in Accounts, NEW alive \in BOOLEAN, Acquire(account, alive)
      PROVE  HeardInv'
  BY <1>4, <1>7 DEF Acquire, Goto
<1>8. CASE Convert \/ Converted \/ Repair \/ Send
  BY <1>4, <1>8 DEF Convert, Converted, Repair, Send, Goto, requestVars
<1>9. CASE Accepted
  BY <1>4, <1>9 DEF Accepted, Goto, requestVars
<1>10. ASSUME NEW failure, NEW retryable, Failed(failure, retryable) PROVE HeardInv'
  BY <1>4, <1>10 DEF Failed, Fails, requestVars
<1>11. CASE UNCHANGED vars
  <2>1. UNCHANGED <<req, pc, index, system, messages>>
    BY <1>11 DEF vars, requestVars
  <2> QED
    BY <2>1, SameRequest DEF HeardInv, Unify, Unified, Say, MessageSays, IsTool, Words, Kinds
<1> QED
  BY <1>1, <1>2, <1>3, <1>5, <1>6, <1>7, <1>8, <1>9, <1>10, <1>11, <1>12 DEF Next, Done, NoAnswer, Refused

(* The items of the system prompt say the system prompt.                   *)
LEMMA SystemItemsSay ==
  ASSUME TypeOK, Words(system) = SystemSays("texts")
  PROVE  /\ \A kind \in Kinds : Carry(SystemItems, kind) = SystemSays(kind)
         /\ SystemItems \in Seq(Item)
         /\ IF HasSystem
            THEN /\ Len(SystemItems) = 2 /\ SystemItems[1] = Prompt /\ SystemItems[2] = Answer
                 /\ SystemItems = <<Prompt, Answer>>
            ELSE SystemItems = <<>>
         /\ Prompt \in Item /\ Answer \in Item
<1>1. /\ <<>> \in Seq(Texts) /\ <<>> \in Seq({"image"})
      /\ <<>> \in Seq(ToolResult) /\ <<>> \in Seq(Ids) /\ system \in Seq(Texts)
  BY DEF TypeOK
<1>2. Prompt \in Item /\ Answer \in Item
  BY <1>1, ItemTypes, UserItemType DEF Prompt, Answer
<1>3. SystemItems = IF HasSystem THEN <<Prompt, Answer>> ELSE <<>>
  BY DEF SystemItems, Prompt, Answer
<1>4. ASSUME NEW kind \in Kinds PROVE Carry(SystemItems, kind) = SystemSays(kind)
  <2>1. CASE HasSystem
    <3>1. PICK one \in Seq(Item) : one = <<Prompt>>
      <4>1. <<Prompt>> \in Seq(Item)
        BY <1>2
      <4> QED
        BY <4>1
    <3>2. PICK two \in Seq(Item) : two = <<Answer>>
      <4>1. <<Answer>> \in Seq(Item)
        BY <1>2
      <4> QED
        BY <4>1
    <3>3. SystemItems = one \o two
      <4>1. one \o <<Answer>> = Append(one, Answer)
        BY <1>2
      <4>2. Append(one, Answer) = <<Prompt, Answer>>
        <5> DEFINE v == <<Prompt, Answer>>
                   w == Append(one, Answer)
        <5>1. v \in Seq(Item) /\ Len(v) = 2 /\ v[1] = Prompt /\ v[2] = Answer
          BY <1>2
        <5>2. w \in Seq(Item) /\ Len(w) = 2 /\ w[1] = Prompt /\ w[2] = Answer
          BY <1>2, <3>1
        <5> HIDE DEF v, w
        <5>3. w = v
          BY <5>1, <5>2, SeqEqual
        <5> QED
          BY <5>3 DEF v, w
      <4> QED
        BY <1>3, <2>1, <3>1, <3>2, <4>1, <4>2, Zenon
    <3>4. Carry(SystemItems, kind) = Carry(one, kind) \o Carry(two, kind)
      BY <3>3, CarryFacts
    <3>5. Carry(one, kind) = ItemSays(Prompt, kind) /\ Carry(two, kind) = ItemSays(Answer, kind)
      BY <1>2, <3>1, <3>2, CarryFacts
    <3>6. ItemSays(Answer, kind) = <<>>
      BY PlaceholdersSayNothing DEF Answer
    <3>7. ItemSays(Prompt, kind) \in Seq(Utterance)
      BY <1>2, SaysType
    <3>8. ItemSays(Prompt, kind) = SystemSays(kind)
      <4>1. /\ ItemSays(Prompt, "texts") = Words(system) /\ ItemSays(Prompt, "images") = <<>>
            /\ ItemSays(Prompt, "calls") = <<>> /\ ItemSays(Prompt, "results") = Results(<<>>)
        BY <1>1, UserSays DEF Prompt
      <4>2. Results(<<>>) = <<>>
        BY DEF Results
      <4>3. /\ SystemSays("images") = <<>> /\ SystemSays("calls") = <<>>
            /\ SystemSays("results") = <<>>
        BY DEF SystemSays
      <4> QED
        BY <4>1, <4>2, <4>3 DEF Kinds
    <3> QED
      BY <3>4, <3>5, <3>6, <3>7, <3>8, ConcatEmptySeq
  <2>2. CASE ~HasSystem
    <3>1. Carry(SystemItems, kind) = <<>>
      BY <1>3, <2>2, CarryFacts
    <3>2. Words(system) = <<>>
      BY <1>1, <2>2, NoWords DEF HasSystem
    <3>3. SystemSays(kind) = <<>>
      BY <3>2 DEF SystemSays
    <3> QED
      BY <3>1, <3>3
  <2> QED
    BY <2>1, <2>2
<1>5. SystemItems \in Seq(Item)
  BY SystemItemsType DEF TypeOK
<1>6. HasSystem => Len(SystemItems) = 2 /\ SystemItems[1] = Prompt /\ SystemItems[2] = Answer
  <2>1. SUFFICES ASSUME HasSystem
                 PROVE  Len(SystemItems) = 2 /\ SystemItems[1] = Prompt /\ SystemItems[2] = Answer
    OBVIOUS
  <2>2. SystemItems = <<Prompt, Answer>>
    BY <1>3, <2>1
  <2> QED
    BY <2>2
<1> QED
  BY <1>2, <1>3, <1>4, <1>5, <1>6

(* A repair puts something behind what is there.                           *)
LEMMA RepairedKeeps ==
  ASSUME NEW s \in Seq(Item), NEW item \in Item, s # <<>>
  PROVE  /\ Len(Repaired(s, item)) >= Len(s) + 1
         /\ \A i \in 1..Len(s) : Repaired(s, item)[i] = s[i]
         /\ Last(s).role # item.role =>
              Len(Repaired(s, item)) = Len(s) + 1 /\ Repaired(s, item)[Len(s) + 1] = item
<1>1. Last(s) \in Item
  BY DEF Last
<1>2. Repaired(s, item) = s \o Separator(Last(s), item) \o <<item>>
  BY DEF Repaired
<1>3. CASE Separator(Last(s), item) = <<>> /\ Last(s).role # item.role
  <2>1. Repaired(s, item) = Append(s, item)
    BY <1>2, <1>3
  <2> HIDE DEF Item
  <2> QED
    BY <2>1
<1>4. ASSUME NEW x \in Item, Separator(Last(s), item) = <<x>>, x.role # item.role
      PROVE  /\ Len(Repaired(s, item)) >= Len(s) + 1
             /\ \A i \in 1..Len(s) : Repaired(s, item)[i] = s[i]
  <2>1. Repaired(s, item) = Append(Append(s, x), item)
    BY <1>2, <1>4
  <2> HIDE DEF Item
  <2> QED
    BY <2>1
<1>5. Separator(Last(s), item) # <<>> => Last(s).role = item.role
  BY DEF Separator
<1>6. \/ Separator(Last(s), item) = <<>> /\ Last(s).role # item.role
      \/ \E x \in Item : Separator(Last(s), item) = <<x>> /\ x.role # item.role
  BY <1>1, SeparatorType
<1>7. \A x : <<x>> # <<>>
  OBVIOUS
<1> QED
  BY <1>3, <1>4, <1>5, <1>6, <1>7

(* The first of a sequence, and the rest of it.                            *)
LEMMA HeadAndTail ==
  ASSUME NEW s \in Seq(Item), s # <<>>
  PROVE  /\ Head(s) \in Item /\ Head(s) = s[1] /\ Tail(s) \in Seq(Item)
         /\ Len(Tail(s)) = Len(s) - 1 /\ Len(s) \in Nat
         /\ \A i \in 1..Len(Tail(s)) : Tail(s)[i] = s[i + 1]
         /\ Tail(s) # <<>> => Last(Tail(s)) = Last(s)
         /\ Tail(s) = <<>> => Last(s) = Head(s)
         /\ \A kind \in Kinds : Carry(s, kind) = ItemSays(Head(s), kind) \o Carry(Tail(s), kind)
<1>1. /\ Head(s) \in Item /\ Head(s) = s[1] /\ Tail(s) \in Seq(Item)
      /\ Len(Tail(s)) = Len(s) - 1 /\ Len(s) \in Nat /\ Len(s) > 0
      /\ \A i \in 1..Len(Tail(s)) : Tail(s)[i] = s[i + 1]
  OBVIOUS
<1>2. ASSUME Tail(s) # <<>> PROVE Last(Tail(s)) = Last(s)
  <2>1. Len(Tail(s)) \in 1..Len(Tail(s)) /\ Len(Tail(s)) + 1 = Len(s)
    BY <1>1, <1>2
  <2> QED
    BY <1>1, <2>1 DEF Last
<1>3. ASSUME Tail(s) = <<>> PROVE Last(s) = Head(s)
  <2>1. Len(s) = 1
    <3>1. Len(<<>>) = 0
      OBVIOUS
    <3>2. Len(s) - 1 = 0
      BY <1>1, <1>3, <3>1, Zenon
    <3>3. Len(s) \in Nat
      BY <1>1
    <3> QED
      BY <3>2, <3>3
  <2> QED
    BY <1>1, <2>1 DEF Last
<1>4. ASSUME NEW kind \in Kinds
      PROVE  Carry(s, kind) = ItemSays(Head(s), kind) \o Carry(Tail(s), kind)
  <2>1. PICK one \in Seq(Item) : one = <<Head(s)>>
    <3>1. <<Head(s)>> \in Seq(Item)
      BY <1>1
    <3> QED
      BY <3>1
  <2>2. PICK rest \in Seq(Item) : rest = Tail(s)
    BY <1>1
  <2>3. s = one \o rest
    <3>1. Len(one) = 1 /\ one[1] = s[1]
      BY <1>1, <2>1
    <3>2. /\ one \o rest \in Seq(Item) /\ Len(one \o rest) = 1 + Len(rest)
          /\ \A i \in 1..(1 + Len(rest)) : (one \o rest)[i] = IF i <= 1 THEN one[i] ELSE rest[i - 1]
      <4>1. /\ one \o rest \in Seq(Item) /\ Len(one \o rest) = Len(one) + Len(rest)
            /\ \A i \in 1..(Len(one) + Len(rest)) :
                 (one \o rest)[i] = IF i <= Len(one) THEN one[i] ELSE rest[i - Len(one)]
        BY ConcatProperties
      <4> QED
        BY <3>1, <4>1
    <3>3. Len(rest) = Len(s) - 1 /\ \A i \in 1..Len(rest) : rest[i] = s[i + 1]
      BY <1>1, <2>2
    <3>4. ASSUME NEW i \in 1..Len(s) PROVE (one \o rest)[i] = s[i]
      <4>1. CASE i = 1
        BY <1>1, <3>1, <3>2, <3>3, <4>1
      <4>2. CASE i # 1
        <5>1. i - 1 \in 1..Len(rest) /\ ~(i <= 1) /\ i \in 1..(1 + Len(rest)) /\ (i - 1) + 1 = i
          BY <1>1, <3>3, <4>2
        <5>2. (one \o rest)[i] = rest[i - 1]
          BY <3>2, <5>1
        <5>3. rest[i - 1] = s[(i - 1) + 1]
          BY <3>3, <5>1
        <5> QED
          BY <5>1, <5>2, <5>3
      <4> QED
        BY <4>1, <4>2
    <3>5. Len(one \o rest) = Len(s)
      BY <1>1, <3>2, <3>3
    <3> QED
      BY <3>2, <3>4, <3>5, SeqEqual
  <2>4. Carry(s, kind) = Carry(one, kind) \o Carry(rest, kind)
    BY <2>3, CarryFacts
  <2>5. Carry(one, kind) = ItemSays(Head(s), kind)
    BY <1>1, <2>1, CarryFacts
  <2> QED
    BY <2>2, <2>4, <2>5
<1> QED
  BY <1>1, <1>2, <1>3, <1>4

(* A repair keeps the system prompt at the beginning.                      *)
LEMMA RepairPrompted ==
  ASSUME repaired \in Seq(Item), items \in Seq(Item), items # <<>>, Prompted,
         Prompt \in Item, Answer \in Item, repaired' = Repaired(repaired, Head(items)),
         items' = Tail(items), system' = system
  PROVE  Prompted'
<1>1. Prompt' = Prompt /\ Answer' = Answer
  BY DEF Prompt, Answer, UserItem, AssistantItem, NonEmpty, HasText, ToolResults
<1>2. /\ Head(items) \in Item /\ Head(items) = items[1] /\ Tail(items) \in Seq(Item)
      /\ Len(Tail(items)) = Len(items) - 1 /\ Len(items) \in Nat
      /\ \A i \in 1..Len(Tail(items)) : Tail(items)[i] = items[i + 1]
  BY HeadAndTail
<1>3. Prompt.role = "user" /\ Answer.role = "assistant"
  BY DEF Prompt, Answer, UserItem, AssistantItem
<1> HIDE DEF Prompt, Answer
<1>4. CASE repaired = <<>> /\ Len(items) >= 2 /\ items[1] = Prompt /\ items[2] = Answer
  <2>1. repaired' = <<Prompt>>
    BY <1>2, <1>4 DEF Repaired
  <2>2. Len(Tail(items)) >= 1 /\ Tail(items)[1] = items[1 + 1]
    BY <1>2, <1>4
  <2>3. Len(repaired') = 1 /\ repaired'[1] = Prompt
    BY <2>1
  <2>4. items' # <<>> /\ items'[1] = Answer
    <3>1. Tail(items) # <<>>
      <4>1. Len(Tail(items)) # Len(<<>>)
        <5>1. Len(<<>>) = 0 /\ Len(Tail(items)) # 0
          BY <1>2, <2>2
        <5> QED
          BY <5>1
      <4> QED
        BY <4>1, Zenon
    <3> QED
      BY <1>4, <2>2, <3>1
  <2> QED
    BY <1>1, <2>3, <2>4 DEF Prompted
<1>5. CASE Len(repaired) = 1 /\ repaired[1] = Prompt /\ items[1] = Answer
  <2>1. repaired # <<>> /\ Last(repaired) = Prompt
    <3>1. repaired # <<>>
      <4>1. Len(repaired) # Len(<<>>)
        <5>1. Len(<<>>) = 0
          OBVIOUS
        <5> QED
          BY <1>5, <5>1
      <4> QED
        BY <4>1, Zenon
    <3> QED
      BY <1>5, <3>1 DEF Last
  <2>2. /\ Len(repaired') = 2 /\ repaired'[2] = Answer /\ repaired'[1] = Prompt
    <3>1. /\ Last(repaired).role # Head(items).role /\ 1 \in 1..Len(repaired)
          /\ Len(repaired) = 1 /\ repaired[1] = Prompt /\ Head(items) = Answer
      BY <1>2, <1>3, <1>5, <2>1
    <3> DEFINE r == Repaired(repaired, Head(items))
    <3>2. /\ Len(r) = Len(repaired) + 1 /\ r[Len(repaired) + 1] = Head(items)
          /\ \A i \in 1..Len(repaired) : r[i] = repaired[i]
      BY <1>2, <2>1, <3>1, RepairedKeeps
    <3> HIDE DEF r
    <3>3. Len(r) = 2 /\ r[2] = Answer /\ r[1] = Prompt
      BY <3>1, <3>2
    <3> QED
      BY <3>3 DEF r
  <2> QED
    BY <1>1, <2>2 DEF Prompted
<1>6. CASE Len(repaired) >= 2 /\ repaired[1] = Prompt /\ repaired[2] = Answer
  <2>1. repaired # <<>> /\ 1 \in 1..Len(repaired) /\ 2 \in 1..Len(repaired)
    BY <1>6
  <2> DEFINE r == Repaired(repaired, Head(items))
  <2>2. Len(r) >= Len(repaired) + 1 /\ \A i \in 1..Len(repaired) : r[i] = repaired[i]
    BY <1>2, <2>1, RepairedKeeps
  <2>3. r \in Seq(Item)
    BY <1>2, RepairedType
  <2> HIDE DEF r
  <2>4. Len(r) >= 2 /\ r[1] = Prompt /\ r[2] = Answer
    BY <1>6, <2>1, <2>2, <2>3
  <2> QED
    BY <1>1, <2>4 DEF Prompted, r
<1> QED
  BY <1>4, <1>5, <1>6 DEF Prompted

(* What is built of the same is the same.                                  *)
LEMMA SameBuilt ==
  ASSUME UNCHANGED <<req, system, messages, items, repaired>>
  PROVE  /\ AlternateInv => AlternateInv'
         /\ index' = index /\ ConvertInv => ConvertInv'
<1>1. /\ HasSystem' = HasSystem /\ Prompt' = Prompt /\ Answer' = Answer /\ FinalItem' = FinalItem
      /\ Prompted' = Prompted
  BY DEF HasSystem, Prompt, Answer, FinalItem, Prompted
<1>2. ASSUME AlternateInv PROVE AlternateInv'
  <2>1. ASSUME NEW kind \in Kinds
        PROVE  (Carry(repaired, kind) \o Carry(items, kind) = SystemSays(kind) \o Say(Spoken, kind))'
    <3>1. Carry(repaired, kind) \o Carry(items, kind) = SystemSays(kind) \o Say(Spoken, kind)
      BY <1>2 DEF AlternateInv
    <3> QED
      BY <3>1 DEF SystemSays, Say, MessageSays, IsTool, Spoken, SystemMessages, IsSystem
  <2> HIDE DEF HasSystem, Prompted, FinalItem
  <2> QED
    BY <1>1, <1>2, <2>1 DEF AlternateInv
<1>3. ASSUME index' = index, ConvertInv PROVE ConvertInv'
  <2>1. ASSUME NEW kind \in Kinds
        PROVE  (Carry(items, kind) = SystemSays(kind) \o Say(SubSeq(Spoken, 1, index), kind))'
    <3>1. Carry(items, kind) = SystemSays(kind) \o Say(SubSeq(Spoken, 1, index), kind)
      BY <1>3 DEF ConvertInv
    <3> QED
      BY <1>3, <3>1 DEF SystemSays, Say, MessageSays, IsTool, Spoken, SystemMessages, IsSystem
  <2> HIDE DEF HasSystem, Prompt, Answer
  <2> QED
    BY <1>1, <1>3, <2>1 DEF ConvertInv
<1> QED
  BY <1>2, <1>3

(* Every step keeps what has been built of it.                             *)
LEMMA BuildStep == TypeOK /\ HeardInv /\ BuildInv /\ [Next]_vars => BuildInv'
<1> SUFFICES ASSUME TypeOK, HeardInv, BuildInv, [Next]_vars PROVE BuildInv'
  OBVIOUS
<1>0. /\ pc \in {"acquire", "convert", "repair"} =>
           messages = Unify(Spoken) /\ Words(system) = SystemSays("texts")
      /\ messages \in Seq(UnifiedMessage) /\ items \in Seq(Item) /\ repaired \in Seq(Item)
      /\ index \in Nat /\ Spoken \in Seq(Message)
      /\ req.protocol \in {"anthropic", "openai"}
      /\ \A i \in 1..Len(Spoken) : Spoken[i] \in Message /\ ~IsSystem(Spoken[i])
      /\ \A kind \in Kinds : SystemSays(kind) \in Seq(Utterance)
  BY SpokenFacts, SystemSaysType DEF HeardInv, TypeOK
<1>1. ASSUME pc' \notin {"convert", "repair"} PROVE BuildInv'
  BY <1>1 DEF BuildInv
<1>2. ASSUME NEW account \in Accounts, NEW alive \in BOOLEAN, Acquire(account, alive)
      PROVE  BuildInv'
  <2>1. /\ pc = "acquire" /\ pc' = "convert" /\ items' = SystemItems /\ repaired' = <<>>
        /\ index' = 0 /\ UNCHANGED <<req, system, messages>>
    BY <1>2 DEF Acquire, Goto
  <2>2. /\ \A kind \in Kinds : Carry(SystemItems, kind) = SystemSays(kind)
        /\ SystemItems \in Seq(Item)
        /\ IF HasSystem
           THEN Len(SystemItems) = 2 /\ SystemItems[1] = Prompt /\ SystemItems[2] = Answer
           ELSE SystemItems = <<>>
    BY <1>0, <2>1, SystemItemsSay
  <2>3. \A kind \in Kinds : SystemSays(kind) \o Say(SubSeq(Spoken, 1, 0), kind) = SystemSays(kind)
    <3>1. SubSeq(Spoken, 1, 0) = <<>>
      BY <1>0, EmptyPrefix
    <3>2. \A kind \in Kinds : Say(<<>>, kind) = <<>>
      BY SayFacts
    <3> QED
      BY <1>0, <3>1, <3>2, ConcatEmptySeq
  <2>4. SystemItems # <<>> => Last(SystemItems) = Answer
    BY <2>2 DEF Last
  <2>5. 0 <= Len(messages)
    BY <1>0
  <2>6. ASSUME NEW kind \in Kinds
        PROVE  (Carry(items, kind) = SystemSays(kind) \o Say(SubSeq(Spoken, 1, index), kind))'
    <3>1. Carry(items', kind) = SystemSays(kind) \o Say(SubSeq(Spoken, 1, 0), kind)
      BY <2>1, <2>2, <2>3
    <3>2. index' = 0 /\ req' = req
      BY <2>1
    <3> QED
      BY <3>1, <3>2
         DEF SystemSays, Say, MessageSays, IsTool, Spoken, SystemMessages, IsSystem
  <2>7. HasSystem' = HasSystem /\ Prompt' = Prompt /\ Answer' = Answer
    BY <2>1 DEF HasSystem, Prompt, Answer
  <2>8. ConvertInv'
    BY <2>1, <2>2, <2>4, <2>5, <2>6, <2>7 DEF ConvertInv
  <2> QED
    BY <2>1, <2>8 DEF BuildInv
<1>3. CASE Convert
  <2>1. /\ pc = "convert" /\ pc' = "convert" /\ index < Len(messages) /\ index' = index + 1
        /\ items' = Append(items, ConvertMessage(messages[index + 1]))
        /\ repaired' = <<>> /\ UNCHANGED <<req, system, messages>>
    BY <1>3 DEF Convert, BuildInv, ConvertInv
  <2>2. PICK n : n = index + 1
    OBVIOUS
  <2>3. /\ n \in 1..Len(messages) /\ Len(messages) = Len(Spoken) /\ n \in 1..Len(Spoken)
        /\ messages[n] = Unified(Spoken[n]) /\ n > 0 /\ n <= Len(messages) /\ n - 1 = index
    <3>1. n \in 1..Len(messages) /\ n > 0 /\ n <= Len(messages) /\ n - 1 = index
      BY <1>0, <2>1, <2>2
    <3>2. Len(messages) = Len(Spoken) /\ \A i \in 1..Len(Spoken) : messages[i] = Unified(Spoken[i])
      BY <1>0, <2>1, UnifyFacts
    <3> QED
      BY <3>1, <3>2
  <2>4. PICK item \in Item : item = ConvertMessage(messages[n])
    <3>1. messages[n] \in UnifiedMessage
      BY <1>0, <2>3
    <3> QED
      BY <3>1, ConvertMessageType
  <2>5. items' = Append(items, item) /\ index' = n
    BY <2>1, <2>2, <2>4
  <2>6. /\ items' # <<>> /\ Len(items') = Len(items) + 1 /\ Last(items') = item
        /\ \A i \in 1..Len(items) : items'[i] = items[i]
    <3> HIDE DEF Item
    <3>1. Len(items') = Len(items) + 1 /\ items'[Len(items) + 1] = item /\ Len(items) \in Nat
      BY <1>0, <2>5
    <3>2. \A i \in 1..Len(items) : items'[i] = items[i]
      BY <1>0, <2>5
    <3>3. items' # <<>>
      BY <1>0, <2>5
    <3> QED
      BY <3>1, <3>2, <3>3 DEF Last
  <2>7. ASSUME NEW kind \in Kinds
        PROVE  (Carry(items, kind) = SystemSays(kind) \o Say(SubSeq(Spoken, 1, index), kind))'
    <3> DEFINE a == SystemSays(kind)
               b == Say(SubSeq(Spoken, 1, n - 1), kind)
               c == MessageSays(Spoken[n], kind)
    <3>1. Carry(items, kind) = a \o b
      BY <2>1, <2>3 DEF BuildInv, ConvertInv
    <3>2. Carry(items', kind) = Carry(items, kind) \o ItemSays(item, kind)
      <4>1. PICK one \in Seq(Item) : one = <<item>>
        <5>1. <<item>> \in Seq(Item)
          OBVIOUS
        <5> QED
          BY <5>1
      <4>2. items' = items \o one
        BY <1>0, <2>5, <4>1
      <4>3. Carry(items \o one, kind) = Carry(items, kind) \o Carry(one, kind)
        BY <1>0, CarryFacts
      <4>4. Carry(one, kind) = ItemSays(item, kind)
        BY <4>1, CarryFacts
      <4> QED
        BY <4>2, <4>3, <4>4
    <3>3. ItemSays(item, kind) = c
      BY <1>0, <2>3, <2>4, ConvertSays
    <3>4. Say(SubSeq(Spoken, 1, n), kind) = b \o c /\ b \in Seq(Utterance) /\ c \in Seq(Utterance)
      <4>1. /\ SubSeq(Spoken, 1, n) = Append(SubSeq(Spoken, 1, n - 1), Spoken[n])
            /\ SubSeq(Spoken, 1, n - 1) \in Seq(Message) /\ Spoken[n] \in Message
        BY <1>0, <2>3, NextPrefix
      <4>2. c \in Seq(Utterance)
        BY <4>1, SaysType
      <4> QED
        BY <4>1, <4>2, SayFacts
    <3>5. a \in Seq(Utterance)
      BY <1>0
    <3> HIDE DEF a, b, c
    <3>6. (a \o b) \o c = a \o (b \o c)
      BY <3>4, <3>5, SaysAssociate
    <3>7. Carry(items', kind) = SystemSays(kind) \o Say(SubSeq(Spoken, 1, n), kind)
      BY <3>1, <3>2, <3>3, <3>4, <3>6 DEF a
    <3>8. index' = n /\ req' = req
      BY <2>1, <2>5
    <3> QED
      BY <3>7, <3>8
         DEF SystemSays, Say, MessageSays, IsTool, Spoken, SystemMessages, IsSystem
  <2>8. HasSystem' = HasSystem /\ Prompt' = Prompt /\ Answer' = Answer
    BY <2>1 DEF HasSystem, Prompt, Answer
  <2>9. HasSystem => Len(items') >= 2 /\ items'[1] = Prompt /\ items'[2] = Answer
    <3>1. HasSystem => Len(items) >= 2 /\ items[1] = Prompt /\ items[2] = Answer
      BY <2>1 DEF BuildInv, ConvertInv
    <3>2. Len(items) >= 2 => 1 \in 1..Len(items) /\ 2 \in 1..Len(items) /\ Len(items) + 1 >= 2
      BY <1>0
    <3> HIDE DEF HasSystem
    <3> QED
      BY <2>6, <3>1, <3>2
  <2> HIDE DEF HasSystem
  <2>10. ConvertInv'
    <3>1. n # 0
      BY <2>3
    <3>2. (index <= Len(messages))' /\ (index > 0)' /\ (index # 0)'
      BY <2>1, <2>3, <2>5, <3>1
    <3>3. Last(items') = ConvertMessage(messages'[index'])
      BY <2>1, <2>4, <2>5, <2>6
    <3> QED
      BY <2>1, <2>6, <2>7, <2>8, <2>9, <3>2, <3>3 DEF ConvertInv
  <2> QED
    BY <2>1, <2>10 DEF BuildInv
<1>4. CASE Converted
  <2>1. /\ pc = "convert" /\ pc' = "repair" /\ index = Len(messages) /\ ConvertInv
        /\ UNCHANGED <<req, system, messages, items, repaired>>
    BY <1>4 DEF Converted, Goto, requestVars, payloadVars, BuildInv
  <2>2. Len(messages) = Len(Spoken)
    BY <1>0, <2>1, UnifyFacts
  <2>3. SubSeq(Spoken, 1, index) = Spoken
    BY <1>0, <2>1, <2>2, SubSeqFull
  <2>4. ASSUME NEW kind \in Kinds
        PROVE  Carry(repaired, kind) \o Carry(items, kind) = SystemSays(kind) \o Say(Spoken, kind)
    <3>1. Carry(items, kind) = SystemSays(kind) \o Say(Spoken, kind)
      BY <2>1, <2>3 DEF ConvertInv
    <3>2. Carry(repaired, kind) = <<>> /\ Carry(items, kind) \in Seq(Utterance)
      BY <1>0, <2>1, CarryFacts DEF ConvertInv
    <3> QED
      BY <3>1, <3>2, ConcatEmptySeq
  <2>5. messages = <<>> <=> index = 0
    BY <1>0, <2>1, EmptySeq
  <2>6. index # 0 => index > 0
    BY <1>0
  <2>7. AlternateInv
    <3>1. HasSystem => Prompted
      BY <2>1 DEF ConvertInv, Prompted
    <3>2. items # <<>> => Last(items) = FinalItem
      BY <2>1, <2>5 DEF ConvertInv, FinalItem
    <3>3. messages # <<>> => items # <<>>
      BY <2>1, <2>5, <2>6 DEF ConvertInv
    <3>4. repaired = <<>>
      BY <2>1 DEF ConvertInv
    <3> QED
      BY <2>4, <3>1, <3>2, <3>3, <3>4 DEF AlternateInv
  <2>8. AlternateInv'
    BY <2>1, <2>7, SameBuilt
  <2> QED
    BY <2>1, <2>8 DEF BuildInv
<1>5. CASE Repair
  <2>1. /\ pc = "repair" /\ pc' = "repair" /\ items # <<>> /\ AlternateInv
        /\ repaired' = Repaired(repaired, Head(items)) /\ items' = Tail(items)
        /\ UNCHANGED <<req, system, messages>>
    BY <1>5 DEF Repair, requestVars, BuildInv
  <2>2. /\ Head(items) \in Item /\ Tail(items) \in Seq(Item)
        /\ Tail(items) # <<>> => Last(Tail(items)) = Last(items)
        /\ Tail(items) = <<>> => Last(items) = Head(items)
        /\ \A kind \in Kinds : Carry(items, kind) = ItemSays(Head(items), kind) \o Carry(Tail(items), kind)
    BY <1>0, <2>1, HeadAndTail
  <2>3. /\ \A kind \in Kinds :
             Carry(repaired', kind) = Carry(repaired, kind) \o ItemSays(Head(items), kind)
        /\ repaired' # <<>> /\ Last(repaired') = Head(items)
    BY <1>0, <2>1, <2>2, RepairedSays
  <2>4. HasSystem' = HasSystem /\ FinalItem' = FinalItem
    BY <2>1 DEF HasSystem, FinalItem, Answer
  <2>5. HasSystem => Prompted'
    <3>1. Prompt \in Item /\ Answer \in Item
      BY <1>0, <2>1, SystemItemsSay
    <3>2. HasSystem => Prompted
      BY <2>1 DEF AlternateInv
    <3> QED
      BY <1>0, <2>1, <3>1, <3>2, RepairPrompted
  <2>6. ASSUME NEW kind \in Kinds
        PROVE  (Carry(repaired, kind) \o Carry(items, kind) = SystemSays(kind) \o Say(Spoken, kind))'
    <3> DEFINE a == Carry(repaired, kind)
               b == ItemSays(Head(items), kind)
               c == Carry(Tail(items), kind)
    <3>1. a \o (b \o c) = SystemSays(kind) \o Say(Spoken, kind)
      BY <2>1, <2>2 DEF AlternateInv
    <3>2. a \in Seq(Utterance) /\ b \in Seq(Utterance) /\ c \in Seq(Utterance)
      BY <1>0, <2>2, CarryFacts, SaysType
    <3>3. Carry(repaired', kind) = a \o b /\ Carry(items', kind) = c
      BY <2>1, <2>3
    <3> HIDE DEF a, b, c
    <3>4. (a \o b) \o c = a \o (b \o c)
      BY <3>2, SaysAssociate
    <3>5. Carry(repaired', kind) \o Carry(items', kind) = SystemSays(kind) \o Say(Spoken, kind)
      BY <3>1, <3>3, <3>4
    <3>6. req' = req
      BY <2>1
    <3> QED
      BY <3>5, <3>6 DEF SystemSays, Say, MessageSays, IsTool, Spoken, SystemMessages, IsSystem
  <2>7. /\ items' # <<>> => Last(items') = FinalItem
        /\ items' = <<>> => Last(repaired') = FinalItem
    BY <2>1, <2>2, <2>3 DEF AlternateInv
  <2> HIDE DEF HasSystem, FinalItem, Prompted
  <2>8. AlternateInv'
    BY <2>3, <2>4, <2>5, <2>6, <2>7 DEF AlternateInv
  <2> QED
    BY <2>1, <2>8 DEF BuildInv
<1>6. CASE UNCHANGED vars
  <2>1. UNCHANGED <<req, pc, index, system, messages, items, repaired>>
    BY <1>6 DEF vars, requestVars, payloadVars
  <2> QED
    BY <2>1, SameBuilt DEF BuildInv
<1>7. CASE Decode \/ Parse \/ Parsed
  <2>1. pc \in {"decode", "parse"} /\ pc' \in {"parse", "handle", "done"}
    <3>1. CASE Decode
      BY <3>1 DEF Decode, Fails
    <3>2. CASE Parse
      BY <3>2 DEF Parse, Fails
    <3>3. CASE Parsed
      BY <3>3 DEF Parsed, Goto
    <3> QED
      BY <1>7, <3>1, <3>2, <3>3
  <2> QED
    BY <1>1, <2>1
<1>8. CASE \E account \in Accounts \union {NoAccount}, compact \in BOOLEAN : Prepare(account, compact)
  BY <1>1, <1>8 DEF Prepare, Goto
<1>9. CASE Unnamed \/ AcquireFails \/ Send \/ Accepted
  BY <1>1, <1>9 DEF Unnamed, AcquireFails, Fails, Send, Accepted, Goto
<1>10. ASSUME NEW failure, NEW retryable, Failed(failure, retryable) PROVE BuildInv'
  BY <1>1, <1>10 DEF Failed, Fails
<1> QED
  BY <1>2, <1>3, <1>4, <1>5, <1>6, <1>7, <1>8, <1>9, <1>10 DEF Next, Done, NoAnswer, Refused

(* The last item and those before it.                                      *)
LEMMA FrontAndLast ==
  ASSUME NEW s \in Seq(Item), s # <<>>
  PROVE  /\ Front(s) \in Seq(Item) /\ Len(Front(s)) = Len(s) - 1 /\ Len(s) \in Nat
         /\ \A i \in 1..Len(Front(s)) : Front(s)[i] = s[i]
         /\ Last(s) \in Item /\ Last(s) = s[Len(s)] /\ Append(Front(s), Last(s)) = s
<1>1. Len(s) \in Nat /\ Len(s) > 0
  OBVIOUS
<1>2. PICK f : f = Front(s)
  OBVIOUS
<1>3. PICK n \in Nat : n = Len(s) - 1
  BY <1>1
<1>4. f = SubSeq(s, 1, n)
  BY <1>2, <1>3 DEF Front
<1>5. f \in Seq(Item) /\ Len(f) = n /\ \A i \in 1..n : f[i] = s[i]
  <2>1. \A i \in 1..n : s[i] \in Item
    BY <1>1, <1>3
  <2> HIDE DEF Item
  <2> QED
    BY <1>1, <1>3, <1>4, <2>1
<1>6. PICK x \in Item : x = Last(s) /\ x = s[n + 1]
  BY <1>1, <1>3 DEF Last
<1>7. Append(f, x) = s
  <2> HIDE DEF Item
  <2>1. PICK t \in Seq(Item) : t = Append(f, x)
    <3>1. f \in Seq(Item) /\ x \in Item
      BY <1>5
    <3>2. Append(f, x) \in Seq(Item)
      BY <3>1
    <3> QED
      BY <3>2
  <2>2. Len(t) = n + 1 /\ t[n + 1] = x /\ \A i \in 1..n : t[i] = s[i]
    BY <1>5, <2>1
  <2>3. Len(t) = Len(s) /\ \A i \in 1..Len(t) : t[i] = s[i]
    BY <1>1, <1>3, <1>6, <2>2
  <2> QED
    BY <2>1, <2>3, SeqEqual
<1> QED
  BY <1>1, <1>2, <1>3, <1>5, <1>6, <1>7

(* The whole of a payload says what its history and its message say.       *)
LEMMA WholeSays ==
  ASSUME NEW s \in Seq(Item), NEW item \in Item, NEW kind \in Kinds
  PROVE  Carry(Append(s, item), kind) = Carry(s, kind) \o ItemSays(item, kind)
<1>1. PICK one \in Seq(Item) : one = <<item>>
  <2>1. <<item>> \in Seq(Item)
    OBVIOUS
  <2> QED
    BY <2>1
<1>2. Append(s, item) = s \o one
  <2> HIDE DEF Item
  <2> QED
    BY <1>1
<1>3. Carry(s \o one, kind) = Carry(s, kind) \o Carry(one, kind)
  BY CarryFacts
<1>4. Carry(one, kind) = ItemSays(item, kind)
  BY <1>1, CarryFacts
<1> QED
  BY <1>2, <1>3, <1>4

Complete ==
  /\ messages = Unify(Spoken) /\ Words(system) = SystemSays("texts")
  /\ items = <<>> /\ AlternateInv

(* The current message is the last that was said, if a user said it.       *)
LEMMA CurrentSays ==
  ASSUME TypeOK, Complete, NEW kind \in Kinds
  PROVE  ItemSays(Current, kind) =
           Say(IF Spoken = <<>> \/ Last(Spoken).role = "assistant" THEN <<>> ELSE <<Last(Spoken)>>, kind)
<1>0. /\ repaired \in Seq(Item) /\ Spoken \in Seq(Message) /\ messages = Unify(Spoken)
      /\ items = <<>> /\ req.protocol \in {"anthropic", "openai"}
      /\ messages # <<>> => repaired # <<>>
      /\ repaired # <<>> => Last(repaired) = FinalItem
  BY SpokenFacts DEF TypeOK, Complete, AlternateInv
<1>1. Say(<<>>, kind) = <<>>
  BY SayFacts
<1>2. ~EndsWithUser => ItemSays(Current, kind) = <<>>
  BY PlaceholdersSayNothing DEF Current
<1>3. CASE Spoken = <<>>
  <2>1. messages = <<>>
    BY <1>0, <1>3 DEF Unify
  <2>2. ~EndsWithUser
    BY <1>0, <2>1 DEF EndsWithUser, FinalItem, Answer, AssistantItem
  <2> QED
    BY <1>1, <1>2, <1>3, <2>2
<1>4. CASE Spoken # <<>>
  <2>1. PICK n \in 1..Len(Spoken) : n = Len(Spoken)
    <3>1. Len(Spoken) \in 1..Len(Spoken)
      BY <1>0, <1>4, EmptySeq
    <3> QED
      BY <3>1
  <2>2. PICK m \in Message : m = Last(Spoken) /\ m = Spoken[n]
    <3>1. Last(Spoken) = Spoken[n]
      BY <2>1 DEF Last
    <3>2. Spoken[n] \in Message
      BY <1>0
    <3> QED
      BY <3>1, <3>2
  <2>3. ~IsSystem(m)
    BY <2>2, SpokenFacts
  <2>4. Len(messages) = n /\ messages[n] = Unified(m)
    BY <1>0, <2>1, <2>2, UnifyFacts
  <2>5. messages # <<>>
    <3>1. Len(messages) # Len(<<>>)
      <4>1. Len(<<>>) = 0 /\ n # 0
        OBVIOUS
      <4> QED
        BY <2>4, <4>1
    <3> QED
      BY <3>1, Zenon
  <2>6. PICK item \in Item : item = ConvertMessage(Unified(m))
    BY UnifiedType, ConvertMessageType
  <2>7. repaired # <<>> /\ Last(repaired) = item
    BY <1>0, <2>4, <2>5, <2>6, Zenon DEF FinalItem
  <2>8. /\ item.role \in {"user", "assistant"}
        /\ item.role = "assistant" <=> m.role = "assistant"
        /\ ItemSays(item, kind) = MessageSays(m, kind)
    BY <1>0, <2>3, <2>6, ConvertSays DEF Item
  <2>9. CASE m.role = "assistant"
    <3>1. ~EndsWithUser
      BY <2>7, <2>8, <2>9 DEF EndsWithUser
    <3> QED
      BY <1>1, <1>2, <2>2, <2>9, <3>1
  <2>10. CASE m.role # "assistant"
    <3>1. Current = item
      BY <2>7, <2>8, <2>10 DEF EndsWithUser, Current
    <3>2. Say(<<m>>, kind) = MessageSays(m, kind)
      <4>1. PICK none \in Seq(Message) : none = <<>>
        <5>1. \A U : <<>> \in Seq(U)
          OBVIOUS
        <5> QED
          BY <5>1, Zenon
      <4>2. Append(none, m) = <<m>>
        BY <4>1
      <4>3. Say(Append(none, m), kind) = Say(none, kind) \o MessageSays(m, kind)
        BY SayFacts
      <4>4. MessageSays(m, kind) \in Seq(Utterance)
        BY SaysType
      <4> QED
        BY <1>1, <4>1, <4>2, <4>3, <4>4, ConcatEmptySeq
    <3> QED
      BY <1>4, <2>2, <2>8, <2>10, <3>1, <3>2
  <2> QED
    BY <2>9, <2>10
<1> QED
  BY <1>3, <1>4

(* A history that is cut says the system prompt.                           *)
LEMMA TrimmedSays ==
  ASSUME TypeOK, Complete, strategy = "sticky_compact", NEW kind \in Kinds
  PROVE  Carry(Trimmed(IF EndsWithUser THEN Front(repaired) ELSE repaired), kind) = SystemSays(kind)
<1> DEFINE h == IF EndsWithUser THEN Front(repaired) ELSE repaired
<1>0. repaired \in Seq(Item) /\ system \in Seq(Texts)
  BY DEF TypeOK
<1>1. CASE HasSystem
  <2>1. Len(repaired) >= 2 /\ repaired[1] = Prompt /\ repaired[2] = Answer
    <3>1. Prompted /\ items = <<>>
      BY <1>1 DEF Complete, AlternateInv
    <3>2. ~(Len(items) >= 2)
      BY <3>1
    <3> QED
      BY <3>1, <3>2 DEF Prompted
  <2>2. /\ SystemItems \in Seq(Item) /\ Carry(SystemItems, kind) = SystemSays(kind)
        /\ Len(SystemItems) = 2 /\ SystemItems[1] = Prompt /\ SystemItems[2] = Answer
    BY <1>1, SystemItemsSay DEF Complete
  <2>3. repaired # <<>>
    <3>1. Len(repaired) # Len(<<>>)
      <4>1. Len(<<>>) = 0 /\ Len(repaired) # 0
        BY <2>1
      <4> QED
        BY <4>1
    <3> QED
      BY <3>1, Zenon
  <2>4. h \in Seq(Item) /\ Len(h) >= 2 /\ h[1] = Prompt /\ h[2] = Answer
    <3>1. CASE EndsWithUser
      <4>1. /\ Front(repaired) \in Seq(Item) /\ Len(Front(repaired)) = Len(repaired) - 1
            /\ Len(repaired) \in Nat
            /\ \A i \in 1..Len(Front(repaired)) : Front(repaired)[i] = repaired[i]
            /\ Last(repaired) = repaired[Len(repaired)]
        BY <1>0, <2>3, FrontAndLast
      <4>2. Len(repaired) # 2
        <5>1. Last(repaired).role = "user" /\ Answer.role = "assistant"
          BY <3>1 DEF EndsWithUser, Answer, AssistantItem
        <5> QED
          BY <2>1, <4>1, <5>1
      <4>3. PICK f \in Seq(Item) : f = Front(repaired)
        BY <4>1
      <4>4. Len(f) >= 2 /\ 1 \in 1..Len(f) /\ 2 \in 1..Len(f)
        BY <2>1, <4>1, <4>2, <4>3
      <4>5. f[1] = Prompt /\ f[2] = Answer
        BY <2>1, <4>1, <4>3, <4>4
      <4> QED
        BY <3>1, <4>3, <4>4, <4>5
    <3>2. CASE ~EndsWithUser
      BY <1>0, <2>1, <3>2
    <3> QED
      BY <3>1, <3>2
  <2> HIDE DEF h
  <2>5. Trimmed(h) = SubSeq(h, 1, 2)
    BY <1>1, <2>4 DEF Trimmed
  <2>6. SubSeq(h, 1, 2) = SystemItems
    <3> HIDE DEF Item
    <3>1. PICK t : t = SubSeq(h, 1, 2)
      OBVIOUS
    <3>2. t \in Seq(Item) /\ Len(t) = 2 /\ t[1] = h[1] /\ t[2] = h[2]
      BY <2>4, <3>1
    <3>3. Len(t) = Len(SystemItems) /\ \A i \in 1..Len(t) : t[i] = SystemItems[i]
      BY <2>2, <2>4, <3>2
    <3> QED
      BY <2>2, <3>1, <3>2, <3>3, SeqEqual
  <2> QED
    BY <2>2, <2>5, <2>6 DEF h
<1>2. CASE ~HasSystem
  <2>1. Trimmed(h) = <<>>
    BY <1>2 DEF Trimmed
  <2>2. Words(system) = <<>>
    BY <1>0, <1>2, NoWords DEF HasSystem
  <2>3. SystemSays(kind) = <<>>
    BY <2>2 DEF SystemSays, Complete
  <2> QED
    BY <2>1, <2>3, CarryFacts
<1> QED
  BY <1>1, <1>2

(* What a payload carries.                                                 *)
LEMMA PayloadSays ==
  ASSUME TypeOK, Complete, NEW kind \in Kinds
  PROVE  Carry(Whole(Payload), kind) = SystemSays(kind) \o Say(Kept(Payload), kind)
<1> DEFINE h == IF EndsWithUser THEN Front(repaired) ELSE repaired
<1>0. /\ repaired \in Seq(Item) /\ SystemSays(kind) \in Seq(Utterance)
      /\ Payload.history = Trimmed(h) /\ Payload.current = Current
      /\ Payload.compacted = (strategy = "sticky_compact")
  BY SystemSaysType DEF TypeOK, Payload
<1>1. Current \in Item /\ h \in Seq(Item)
  <2>1. CASE EndsWithUser
    <3>1. repaired # <<>>
      BY <2>1 DEF EndsWithUser
    <3> QED
      BY <1>0, <2>1, <3>1, FrontAndLast DEF Current
  <2>2. CASE ~EndsWithUser
    BY <1>0, <2>2, ItemTypes DEF Current
  <2> QED
    BY <2>1, <2>2
<1>2. CASE strategy = "sticky_compact"
  <2>1. Trimmed(h) \in Seq(Item)
    <3> HIDE DEF h, Item
    <3> QED
      BY <1>1 DEF Trimmed
  <2>2. Carry(Append(Trimmed(h), Current), kind) = Carry(Trimmed(h), kind) \o ItemSays(Current, kind)
    BY <1>1, <2>1, WholeSays
  <2>3. Carry(Trimmed(h), kind) = SystemSays(kind)
    BY <1>2, TrimmedSays
  <2> HIDE DEF h
  <2>4. ItemSays(Current, kind) = Say(Kept(Payload), kind)
    <3>1. Kept(Payload) =
            IF Spoken = <<>> \/ Last(Spoken).role = "assistant" THEN <<>> ELSE <<Last(Spoken)>>
      BY <1>0, <1>2 DEF Kept
    <3> QED
      BY <3>1, CurrentSays
  <2> QED
    BY <1>0, <2>2, <2>3, <2>4 DEF Whole
<1>3. CASE strategy # "sticky_compact"
  <2>1. Trimmed(h) = h /\ Kept(Payload) = Spoken
    BY <1>0, <1>3 DEF Trimmed, Kept
  <2>2. Carry(repaired, kind) = SystemSays(kind) \o Say(Spoken, kind)
    <3>1. Carry(repaired, kind) \o <<>> = SystemSays(kind) \o Say(Spoken, kind)
      BY CarryFacts DEF Complete, AlternateInv
    <3>2. Carry(repaired, kind) \in Seq(Utterance)
      BY <1>0, CarryFacts
    <3> QED
      BY <3>1, <3>2, ConcatEmptySeq
  <2>3. Carry(Append(h, Current), kind) = Carry(repaired, kind)
    <3>1. CASE EndsWithUser
      <4>1. repaired # <<>>
        BY <3>1 DEF EndsWithUser
      <4>2. Append(Front(repaired), Last(repaired)) = repaired
        BY <1>0, <4>1, FrontAndLast
      <4> QED
        BY <3>1, <4>2 DEF Current
    <3>2. CASE ~EndsWithUser
      <4>1. ItemSays(Current, kind) = <<>>
        BY <3>2, PlaceholdersSayNothing DEF Current
      <4>2. Carry(Append(repaired, Current), kind) = Carry(repaired, kind) \o ItemSays(Current, kind)
        BY <1>0, <1>1, WholeSays
      <4>3. Carry(repaired, kind) \in Seq(Utterance)
        BY <1>0, CarryFacts
      <4> QED
        BY <3>2, <4>1, <4>2, <4>3, ConcatEmptySeq
    <3> QED
      BY <3>1, <3>2
  <2> HIDE DEF h
  <2> QED
    BY <1>0, <2>1, <2>2, <2>3 DEF Whole
<1> QED
  BY <1>2, <1>3

(* Nothing that the handlers understand of what the client says is lost,   *)
(* doubled or put in another order on its way to the upstream, in whatever *)
(* roles and whatever protocol it says it, whatever blocks are dropped in  *)
(* between: parsing, conversion, repair and compaction together.           *)
THEOREM NothingIsLost == Spec => []NothingLost
<1>1. Init => HeardInv /\ BuildInv /\ NothingLost
  BY DEF Init, HeardInv, BuildInv, NothingLost
<1>2. TypeOK /\ HeardInv /\ BuildInv /\ NothingLost /\ [Next]_vars => NothingLost'
  <2> SUFFICES ASSUME TypeOK, HeardInv, BuildInv, NothingLost, [Next]_vars
               PROVE  NothingLost'
    OBVIOUS
  <2>0. req' = req /\ sent \in Seq(PayloadType)
    <3>1. req' = req
      BY DEF Next, Decode, Parse, Parsed, Unnamed, Prepare, AcquireFails, Acquire, Convert, Converted, Repair,
             Send, Accepted, NoAnswer, Refused, Failed, Done, vars, requestVars
    <3> QED
      BY <3>1 DEF TypeOK
  <2>1. ASSUME NEW n \in DOMAIN sent', NEW kind \in Kinds
        PROVE  Carry(Whole(sent'[n]), kind) = SystemSays(kind) \o Say(Kept(sent'[n]), kind)
    <3>1. CASE UNCHANGED sent
      BY <2>1, <3>1 DEF NothingLost
    <3>2. CASE Send
      <4>1. sent' = Append(sent, Payload)
        BY <3>2 DEF Send
      <4>2. Complete
        BY <3>2 DEF Send, Goto, Complete, HeardInv, BuildInv
      <4>3. Carry(Whole(Payload), kind) = SystemSays(kind) \o Say(Kept(Payload), kind)
        BY <4>2, PayloadSays
      <4> HIDE DEF Payload, PayloadType
      <4>4. CASE n = Len(sent) + 1
        <5>1. sent'[n] = Payload
          BY <2>0, <4>1, <4>4
        <5> QED
          BY <4>3, <5>1
      <4>5. CASE n # Len(sent) + 1
        <5>1. n \in DOMAIN sent /\ sent'[n] = sent[n]
          BY <2>0, <2>1, <4>1, <4>5
        <5> QED
          BY <5>1 DEF NothingLost
      <4> QED
        BY <4>4, <4>5
    <3> QED
      BY <3>1, <3>2, SentStep
  <2>2. ASSUME NEW n \in DOMAIN sent', NEW kind \in Kinds
        PROVE  (Carry(Whole(sent[n]), kind) = SystemSays(kind) \o Say(Kept(sent[n]), kind))'
    <3>1. Carry(Whole(sent'[n]), kind) = SystemSays(kind) \o Say(Kept(sent'[n]), kind)
      BY <2>1
    <3>2. (SystemSays(kind))' = SystemSays(kind)
      BY <2>0, SameRequest
    <3>3. (Say(Kept(sent[n]), kind))' = Say(Kept(sent'[n]), kind)
      BY <2>0 DEF Say, MessageSays, IsTool, IsSystem, SystemMessages, Kept, Spoken
    <3>4. (Carry(Whole(sent[n]), kind))' = Carry(Whole(sent'[n]), kind)
      OBVIOUS
    <3> QED
      BY <3>1, <3>2, <3>3, <3>4
  <2> QED
    BY <2>2 DEF NothingLost
<1> QED
  BY <1>1, <1>2, InitType, TypeStep, HeardStep, BuildStep, PTL DEF Spec

=============================================================================
