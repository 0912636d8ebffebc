---------------------------- MODULE MCAlgorithms ----------------------------
(* The functions of the code that compute and keep nothing, each over      *)
(* every input of a small set: a behaviour is one decision of ToolCalls,   *)
(* one call of Compaction or one text of TelegramFormat, the others idle.  *)
EXTENDS ToolCalls, Compaction, TelegramFormat

CONSTANTS MaxMessages, MaxTokens,   \* the conversations
          MaxLines                  \* the texts

VARIABLE part

vars == <<part, decisionVars, compactionVars, formatVars>>

-----------------------------------------------------------------------------
(* Every form in which an LLM writes a field, for the tools that read it;  *)
(* every way to turn the pipeline on; one chain, two, or none.             *)

SomeAllowlists == {{}, {"transfer"}, {"unknown_swap", "approve", "mint"}}

Modes == {[mode |-> m, enabled |-> e, caps |-> c] :
            m \in {"", "wallet", "else"}, e \in {"", "false"}, c \in {{}, {"files"}}}
Chains == [list : {<<>>}, single : {0, 1}, default : {0}]
            \cup [list : {<<1, 2>>}, single : {0}, default : {0, 2}]
Environment(mode, wallet, chains, limit, simulates) ==
  [mode |-> mode.mode, enabled |-> mode.enabled, caps |-> mode.caps, wallet |-> wallet,
   list |-> chains.list, single |-> chains.single, default |-> chains.default,
   limit |-> limit, simulates |-> simulates]

SomeEnvironments ==
  {Environment([mode |-> "", enabled |-> "", caps |-> {}], TRUE, c, l, s) :
     c \in Chains, l \in {0, 1}, s \in BOOLEAN}
  \cup {Environment(m, w, c, 0, TRUE) :
          m \in Modes, w \in BOOLEAN, c \in [list : {<<1, 2>>}, single : {0}, default : {2}]}

Amounts == [form : {"string"}, n : Values] \cup [form : {"number"}, n : 2..3]
             \cup [form : {"text", "absent"}, n : {0}]
ChainIDs == [form : {"number", "digits"}, n : {0, 1, 2, 3}]
              \cup [form : {"padded"}, n : {1}] \cup [form : {"text", "absent"}, n : {0}]

SomeRequests ==
  [tool : {"transfer"}, to : HexForms, party : {"none"}, fn : {"none"}, data : {"none"},
   amount : Amounts, chain : ChainIDs]
  \cup [tool : {"erc20_transfer", "erc20_approve"}, to : HexForms \ {"short"},
        party : HexForms \ {"short"}, fn : {"none"}, data : {"none"},
        amount : Amounts, chain : ChainIDs]
  \cup [tool : {"contract_call"}, to : HexForms, party : {"none"}, fn : {"permit", "permitInts"},
        data : HexForms \ {"short"}, amount : Amounts, chain : ChainIDs]

SomeHistories == UNION {[1..n -> 0..MaxTokens] : n \in 0..MaxMessages}

\* The lines a text is made of: prose with bold, code, fences, and table rows.
Line(s) == [i \in DOMAIN s |-> T(s[i])]
TextLines == {Line(s) : s \in {
  <<"w", "lt">>, <<"src">>, <<"w", "**", "**", "w">>, <<"**", "w", "**">>, <<"w", "**", "w">>,
  <<"tick", "w", "tick">>, <<"fence">>, <<"fence", "w">>, <<>>, <<"w", "gap", "w">>, <<"|", "#", "|", "w", "|">>,
  <<"|", "num", "|", "w", "|">>, <<"|", "-", "|", "-", "|">>, <<"|", "w", "|">>,
  <<"|", "tick", "w", "tick", "|", "**", "w", "**", "|">>}}
SomeTexts == {Join(ls, T("nl")) : ls \in UNION {[1..n -> TextLines] : n \in 1..MaxLines}}

-----------------------------------------------------------------------------

NoDecision == decision = "none" /\ input = <<>> /\ output = {} /\ made = FALSE
NoCompaction == history = <<>> /\ shown = <<>> /\ compacted = FALSE
NoText ==
  /\ text = <<>> /\ pass = "fences" /\ done = <<>> /\ rest = <<>>
  /\ lines = <<>> /\ index = 1 /\ fenced = <<>> /\ inline = <<>> /\ tables = <<>>

Init ==
  \/ part = "decision" /\ DecisionInit /\ NoCompaction /\ NoText
  \/ part = "compaction" /\ CompactionInit /\ NoDecision /\ NoText
  \/ part = "text" /\ FormatInit /\ NoDecision /\ NoCompaction

Decides == part = "decision" /\ DecisionNext /\ UNCHANGED <<compactionVars, formatVars>>

Shortens == part = "compaction" /\ CompactionNext /\ UNCHANGED <<decisionVars, formatVars>>

Formats == part = "text" /\ FormatNext /\ UNCHANGED <<decisionVars, compactionVars>>

Next == (Decides \/ Shortens \/ Formats) /\ UNCHANGED part

Spec == Init /\ [][Next]_vars
=============================================================================
