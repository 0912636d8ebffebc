------------------------------ MODULE ToolCalls -----------------------------
(***************************************************************************)
(* The two decisions on the way to the wallet service that keep no state:  *)
(* which call a tool call becomes (WalletTools), and what the policy says  *)
(* of it (WalletPolicy).  A behaviour is one of them on one input.         *)
(***************************************************************************)
EXTENDS WalletTools

CONSTANTS
  Allowlists,     \* the lists of allowed methods a configuration may have
  Environments,   \* what may be set for planner, wallet and chains; whether an
                  \* eth_call succeeds
  ToolRequests    \* the tool calls the LLM may make

Tools == {"transfer", "erc20_transfer", "erc20_approve", "contract_call"}
HexForms == {"0x", "bare", "padded", "short", "none"}

ASSUME ToolCallsAssumption ==
  /\ Allowlists \subseteq SUBSET STRING
  /\ Environments \subseteq
       [mode : STRING, enabled : STRING, wallet : BOOLEAN, caps : SUBSET STRING,
        list : Seq(Nat \ {0}), single : Nat, default : Nat, limit : Int, simulates : BOOLEAN]
  /\ ToolRequests \subseteq
       [tool : Tools, to : HexForms, party : HexForms, fn : Functions, data : HexForms,
        amount : [form : {"string", "number", "text", "absent"}, n : Values],
        chain : [form : {"number", "digits", "padded", "text", "absent"}, n : Int]]

VARIABLES
  decision,   \* which of the two is made
  input, output,
  made

decisionVars == <<decision, input, output, made>>

PolicyInputs ==
  [setting : Settings, allowed : Allowlists, fn : Functions \cup {""}, value : Values]

ToolInputs == [env : Environments, request : ToolRequests]

DecisionInit ==
  /\ made = FALSE /\ output = {}
  /\ \/ decision = "policy" /\ input \in PolicyInputs
     \/ decision = "tools" /\ input \in ToolInputs

Evaluates ==
  /\ decision = "policy"
  /\ output' = Evaluate(Config(ConfiguredLimit(input.setting), input.allowed),
                        IF input.fn = "" THEN Transfer(input.value)
                        ELSE ContractCall(input.fn, input.value))

CallsTool == decision = "tools" /\ output' = Calls(input.env, input.request)

DecisionNext ==
  /\ ~made /\ made' = TRUE
  /\ Evaluates \/ CallsTool
  /\ UNCHANGED <<decision, input>>

DecisionSpec == DecisionInit /\ [][DecisionNext]_decisionVars

Made(d) == decision = d /\ made

-----------------------------------------------------------------------------
(* wallet/policy and wallet/calldata.                                      *)

Strictness == [allow |-> 0, require_approval |-> 1, deny |-> 2]

\* The name of the function an action calls, whatever its signature.
Name(fn) == CASE fn = "permitInts" -> "permit" [] fn = "none" -> "" [] OTHER -> fn

\* What the comments say of an action, rule by rule (policy.go, "contract methods that
\* are always denied", "only these methods are allowed", "methods that always require
\* approval", "above requires approval"; config.go, "require approval for all").  An
\* allowlist may name a function by its selector.
Says(rule, i) ==
  LET cfg == Config(ConfiguredLimit(i.setting), i.allowed) IN
  CASE rule = "blocked"   -> Name(i.fn) \in cfg.blocked
    [] rule = "allowlist" -> i.allowed # {} /\ i.fn # "" /\ {Name(i.fn), AnnotateAction(i.fn)} \cap i.allowed = {}
    [] rule = "required"  -> Name(i.fn) \in cfg.required
    [] rule = "limit"     -> i.value > cfg.limit

Answer == [blocked |-> "deny", allowlist |-> "deny",
           required |-> "require_approval", limit |-> "require_approval"]

\* The rules that the code does not follow: those that name a function whose signature
\* the selector table lacks, and a limit that is not positive.
Ineffective(rule, i) ==
  \/ rule \in {"blocked", "required"} /\ i.fn \in {"permit", "mint", "burn"}
  \/ rule = "limit" /\ ConfiguredLimit(i.setting) <= 0

\* With the two exceptions named, Evaluate gives the strictest answer of the documented
\* rules that apply, so that the order of its checks and early returns hides none, a
\* call is recognised by its calldata alone, and without an allowlist it is never
\* stricter than they are.
StrictestRuleWins ==
  Made("policy") =>
    LET applicable == {rule \in DOMAIN Answer : Says(rule, input) /\ ~Ineffective(rule, input)} IN
    /\ \A rule \in applicable : Strictness[Answer[rule]] <= Strictness[output]
    /\ input.allowed = {} /\ output # "allow" => \E rule \in applicable : Answer[rule] = output

-----------------------------------------------------------------------------
(* The wallet tools.                                                       *)

\* The chain a request names, the default chain when it names none.
AskedChain(env, r) == IF r.chain.form = "absent" THEN Registry(env).default ELSE r.chain.n

\* A request as the tool's definition asks for it (tools.go, "Recipient address
\* (0x...)", "Amount in wei as decimal string"), or with its amount as a number.
WellFormed(r) ==
  /\ r.to = "0x" /\ r.amount.form \in {"string", "number"}
  /\ r.chain.form = "absent" \/ (r.chain.form \in {"number", "digits"} /\ r.chain.n > 0)
  /\ r.tool = "contract_call" => r.data = "0x" /\ r.fn # "none"
  /\ r.tool = "erc20_transfer" => r.party = "0x" /\ r.amount.n > 0
  /\ r.tool = "erc20_approve" => r.party = "0x" /\ r.amount.n >= 0

\* What a request asks the wallet to do, with its amount taken to be n.
Asked(env, r, n) ==
  LET To(action, data) == [chain |-> AskedChain(env, r), to |-> "to", action |-> action, data |-> data]
      Tokens(fn) == [fn |-> fn, party |-> "party", amount |-> n]
  IN CASE r.tool = "transfer"       -> To(Transfer(n), NoData)
       [] r.tool = "erc20_transfer" -> To(ContractCall("transfer", 0), Tokens("transfer"))
       [] r.tool = "erc20_approve"  -> To(ContractCall("approve", 0), Tokens("approve"))
       [] r.tool = "contract_call"  -> To(ContractCall(r.fn, n), [fn |-> r.fn, party |-> "given", amount |-> 0])

\* The amounts that may stand for the one named: a JSON number that no float64 is
\* becomes one beside it.
StandFor(amount) ==
  IF amount.form = "number" /\ amount.n > Exact THEN (amount.n - 1)..(amount.n + 1) ELSE {amount.n}

\* What the pipeline looks at before it calls: the policy and an eth_call.
Prevented(env, r) ==
  /\ Pipeline(env) /\ r.tool # "transfer" /\ r.amount.form = "string"
  /\ Evaluate(Config(env.limit, {}), Asked(env, r, r.amount.n).action) = "deny" \/ ~env.simulates

\* A well-formed request makes the call it asks for, with its chain, address,
\* function, recipient and amount, through the pipeline or not; and it makes none only
\* when its chain is not configured, or the pipeline saw it denied or fail.
CallAsAsked ==
  Made("tools") /\ WellFormed(input.request) /\ input.env.wallet =>
    LET env == input.env
        r   == input.request
    IN /\ output \subseteq {Asked(env, r, n) : n \in StandFor(r.amount)}
       /\ output = {} <=> AskedChain(env, r) \notin Registry(env).chains \/ Prevented(env, r)

\* The pipeline "runs ... instead of a raw tool call" (exec_tool.go:28-30): what it
\* may send is what the raw call may send, but for the fields it trims of blanks.
PipelineSendsTheSame ==
  Made("tools") /\ "padded" \notin {input.request.to, input.request.data, input.request.chain.form} =>
    output \subseteq RawCalls(Registry(input.env), input.request)
=============================================================================
