----------------------------- MODULE MCRequestPath -----------------------------
(***************************************************************************)
(* Small instances of RequestPath: every sequence of up to three messages  *)
(* of a few kinds in either protocol without a session, and some longer    *)
(* conversations with one.                                                 *)
(***************************************************************************)
EXTENDS RequestPath, TLC

CONSTANTS a, b, c, t1, t2

MCTexts == {a, b, c, Blank, Dash}
MCIds == {t1, t2}

ClientMessage(role, texts) ==
  [role |-> role, encoding |-> "base64", texts |-> texts, blocks |-> <<>>, calls |-> <<>>,
   results |-> <<>>, id |-> t1]

Calling(role, texts, calls) == [ClientMessage(role, texts) EXCEPT !.calls = calls]

Result(id, texts, blocks) == [id |-> id, texts |-> texts, blocks |-> blocks]

AnthropicMessages ==
  {ClientMessage("user", <<a, Blank, b>>), ClientMessage("assistant", <<c>>),
   Calling("assistant", <<a>>, <<t1, t2>>),
   [ClientMessage("user", <<>>) EXCEPT !.blocks = <<"empty", "image", "other">>],
   [ClientMessage("user", <<c>>) EXCEPT !.results = <<Result(t1, <<b>>, <<>>), Result(t2, <<>>, <<"bad", "image">>)>>]}

OpenAIMessages ==
  {ClientMessage("user", <<a, b>>), ClientMessage("other", <<>>),
   ClientMessage("system", <<a>>),
   [ClientMessage("tool", <<b, Blank>>) EXCEPT !.blocks = <<"image">>],
   Calling("assistant", <<c>>, <<t1, t2>>),
   [ClientMessage("assistant", <<b>>) EXCEPT !.blocks = <<"image">>]}

Odd ==
  {Calling("user", <<>>, <<t1>>), ClientMessage("developer", <<Blank>>),
   [ClientMessage("tool", <<>>) EXCEPT !.id = t2],
   [ClientMessage("user", <<a>>) EXCEPT !.encoding = "plain"],
   [ClientMessage("user", <<>>) EXCEPT !.encoding = "none"],
   [ClientMessage("user", <<>>) EXCEPT !.encoding = "odd"],
   [ClientMessage("assistant", <<a>>) EXCEPT !.blocks = <<"image", "bad">>]}

NoSystem == [encoding |-> "none", texts |-> <<>>]
Systems == {NoSystem, [encoding |-> "base64", texts |-> <<b, c>>]}

ClientRequest(protocol, sticky, system0, messages0) ==
  [protocol |-> protocol, named |-> TRUE, sticky |-> sticky, system |-> system0,
   messages |-> messages0]

Short(messages0) == {<<>>} \union UNION {[1..n -> messages0] : n \in 1..3}

Plain ==
  {ClientRequest("anthropic", FALSE, s, ms) : s \in Systems, ms \in Short(AnthropicMessages)} \union
  {ClientRequest("openai", FALSE, NoSystem, ms) : ms \in Short(OpenAIMessages)} \union
  {ClientRequest(protocol, FALSE, NoSystem, <<ClientMessage("user", <<b>>), m>>) :
     protocol \in {"anthropic", "openai"}, m \in Odd} \union
  {ClientRequest("anthropic", FALSE, [encoding |-> e, texts |-> <<a>>],
                 <<ClientMessage("user", <<b>>)>>) : e \in {"plain", "odd"}} \union
  {[ClientRequest(protocol, FALSE, NoSystem, <<ClientMessage("user", <<b>>)>>) EXCEPT !.named = FALSE] :
     protocol \in {"anthropic", "openai"}}

Dialogue(last) == <<ClientMessage("user", <<a>>), Calling("assistant", <<b>>, <<t1, t2>>)>> \o last

Sticky ==
  {ClientRequest("anthropic", TRUE, s, Dialogue(<<>>)) : s \in Systems} \union
  {ClientRequest("anthropic", TRUE, s,
     Dialogue(<<[ClientMessage("user", <<c>>) EXCEPT !.results = <<Result(t1, <<b>>, <<"other">>)>>]>>)) :
     s \in Systems} \union
  {ClientRequest("openai", TRUE, NoSystem, Dialogue(<<ClientMessage("tool", <<a>>), ClientMessage(role, <<c>>)>>)) :
     role \in {"system", "tool"}}

MCRequests == Plain \union Sticky

MCRefusals ==
  {<<400, {}>>, <<400, {"quota"}>>, <<403, {}>>, <<403, {"ban", "quota"}>>, <<404, {}>>,
   <<500, {"auth"}>>}

Symmetry == Permutations(Accounts)

=============================================================================
