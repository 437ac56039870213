-------------------------- MODULE MCRuntimeCatalog --------------------------
(***************************************************************************)
(* Instances of RuntimeCatalog for TLC: two callers suffice for the        *)
(* nested lock, three for one that waits behind it.  The tables are a part *)
(* of the built-in ones, with an entry of each kind; upstream also lists   *)
(* an ID that is not in normal form, one in upper case that is the hidden  *)
(* model's, and one that is hidden from lists.                             *)
(***************************************************************************)
EXTENDS RuntimeCatalog, TLC

CONSTANTS c1, c2, c3

TwoCallers == {c1, c2}
ThreeCallers == {c1, c2, c3}

SomeNames == {"auto", "claude-sonnet-4.5", "claude-sonnet-4-5", "gpt-4o",
              "claude-3.7-sonnet", "CLAUDE_3_7", "claude_3_7"}

OneAnswer == {{"claude-sonnet-4.5"}}
SomeAnswers == {{}} \union OneAnswer
                 \union {{"auto", "claude-sonnet-4-5", "CLAUDE_3_7"}}

LowerCase == [n \in SomeNames |-> IF n = "CLAUDE_3_7" THEN "claude_3_7" ELSE n]
NormalForm ==
  [n \in SomeNames |-> IF n = "claude-sonnet-4-5" THEN "claude-sonnet-4.5" ELSE n]
SomeAliases ==
  "auto" :> "auto" @@ "gpt-4o" :> "claude-sonnet-4.5"
    @@ "claude-3.7-sonnet" :> "claude-3.7-sonnet"
OneHiddenModel == "claude-3.7-sonnet" :> "CLAUDE_3_7"
=============================================================================
