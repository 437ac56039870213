---------------------------- MODULE MCResponsePath ----------------------------
(***************************************************************************)
(* Small instances of ResponsePath.  The tags have two and three           *)
(* characters and share their first, and the splitter holds back one       *)
(* character less than the longer tag has, the least that is allowed.      *)
(***************************************************************************)
EXTENDS ResponsePath

CONSTANTS t1, t2

MCOpenTag == <<"<", ">">>
MCCloseTag == <<"<", "/", ">">>

TextFrame(text) == [type |-> "assistantResponseEvent", text |-> text]
ToolFrame(id, name, arguments, done) ==
  [type |-> "toolUseEvent",
   call |-> [id |-> id, name |-> name, arguments |-> arguments, done |-> done]]
Exception(explained, words) == [type |-> "exception", explained |-> explained, words |-> words]

(* Text that is cut in all ways, between and within tags.                  *)
TextFrames ==
  {TextFrame(s) : s \in {<<"x">>, <<"<">>, <<">">>, <<"/">>, <<"<", ">">>, <<"/", ">", "x", "<">>}}

(* Two tool calls whose events are interleaved, with a little text.        *)
ToolFrames ==
  {TextFrame(<<"x", "<">>),
   ToolFrame(t1, "name", <<"a">>, FALSE), ToolFrame(t1, NoName, <<"b">>, FALSE),
   ToolFrame(t1, NoName, <<>>, TRUE), ToolFrame(t2, "name", <<"c">>, FALSE),
   ToolFrame(t2, "name", <<"d">>, TRUE)}

(* Everything else, with a little text in between.                         *)
MixedFrames ==
  {TextFrame(<<"x", "<">>), TextFrame(<<">", "y", "z", "u", "<", "/", ">">>),
   [type |-> "reasoningContentEvent", text |-> <<"r">>],
   ToolFrame(t1, "name", <<"a">>, FALSE),
   [type |-> "metadataEvent", output |-> 7], [type |-> "metadataEvent", output |-> 9],
   [type |-> "meteringEvent"],
   Exception(TRUE, {"quota", "auth"})}

(* The frames that carry no text, and those that lack something.           *)
QuietFrames ==
  {[type |-> "initial-response", conversation |-> 0],
   [type |-> "initial-response", conversation |-> 1],
   [type |-> "contextUsageEvent", percentage |-> 0],
   [type |-> "contextUsageEvent", percentage |-> 90],
   [type |-> "reasoningContentEvent", text |-> <<>>],
   ToolFrame(NoId, "name", <<>>, FALSE), ToolFrame(NoId, "name", <<>>, TRUE),
   Exception(FALSE, {}), Exception(TRUE, {}), Exception(TRUE, {"ban"}),
   TextFrame(<<>>), TextFrame(<<"x", "y", "z", "u">>), [type |-> "metadataEvent", output |-> 0]}

MCScripts ==
  {[frames |-> TextFrames, length |-> 4], [frames |-> ToolFrames, length |-> 5],
   [frames |-> MixedFrames, length |-> 4], [frames |-> QuietFrames, length |-> 2]}

=============================================================================
