---------------------------- MODULE WalletTools ----------------------------
(***************************************************************************)
(* From the environment and a tool call's JSON arguments to the call that  *)
(* reaches the wallet service: config, main.go, wallet/chains, the wallet  *)
(* handlers of tools/tools.go and the three pipelines of agent/exec_tool.go *)
(*                                                                         *)
(* A request is [tool, to, party, fn, data, amount, chain]:                *)
(*   to, party  forms of an address: "0x" and 20 bytes, "bare" without 0x, *)
(*              "padded" with blanks around, "short" 0x and anything else, *)
(*              "none" (to: of the token or the contract; party: of the    *)
(*              one who gets the tokens or may take them)                  *)
(*   fn, data   the function of the calldata and the form of its hex: the  *)
(*              first three of an address, or "none"                       *)
(*   amount     [form, n]: a decimal string, a JSON number, other text, or *)
(*              absent                                                     *)
(*   chain      [form, n]: a JSON number, digits, digits with blanks, other *)
(*              text, or absent                                            *)
(* A call is [chain, to, action, data], its addresses named for the fields *)
(* of the request they come from; data is what its calldata says.          *)
(***************************************************************************)
EXTENDS WalletPolicy, Sequences

CONSTANT Exact   \* the largest integer a JSON number keeps exactly (2^53)
ASSUME ExactAssumption == Exact \in Nat

-----------------------------------------------------------------------------
(* config/config.go and main.go: is the pipeline on, which chains are there. *)

EffectivePlannerMode(env) ==
  IF env.mode # "" THEN (IF env.mode \in {"wallet", "auto", "always_wallet"} THEN env.mode ELSE "off")
  ELSE IF env.enabled # "" THEN (IF env.enabled = "true" THEN "wallet" ELSE "off")
  ELSE IF env.wallet THEN "auto" ELSE "off"

\* An absent list of capabilities is "wallet".
Capabilities(env) == IF env.caps = {} THEN {"wallet"} ELSE env.caps

\* reactiveWalletContractPipeline
Pipeline(env) ==
  env.wallet /\ EffectivePlannerMode(env) # "off" /\ "wallet" \in Capabilities(env)

\* BuildFromConfig: WALLET_CHAINS, else EVM_RPC_URL and CHAIN_ID.
Registry(env) ==
  [chains  |-> IF env.list # <<>> THEN {env.list[i] : i \in DOMAIN env.list}
               ELSE {env.single} \ {0},
   default |-> IF env.list # <<>> THEN (IF env.default > 0 THEN env.default ELSE env.list[1])
               ELSE env.single]

\* ResolveChainID and GetProvider: 0 when there is no such chain.
Resolve(reg, id) ==
  LET cid == IF id > 0 THEN id ELSE reg.default
  IN IF cid \in reg.chains THEN cid ELSE 0

-----------------------------------------------------------------------------
(* tools/tools.go: the handlers.                                           *)

IsHexAddress(form) == form \in {"0x", "bare"}

\* common.HexToAddress makes an address of anything.
Address(field, form) == IF IsHexAddress(form) THEN field ELSE "other"

\* strings.TrimSpace
Trimmed(form) == IF form = "padded" THEN "0x" ELSE form

\* A JSON number is a float64 before it is printed again: one of those next to it
\* above Exact, where only every other integer is a float64.
AsFloat(n) == IF n <= Exact \/ n % 2 = 0 THEN {n} ELSE {n - 1, n + 1}

\* toStringMap and big.Int.SetString
Parsed(amount) ==
  CASE amount.form = "string" -> {amount.n}
    [] amount.form = "number" -> AsFloat(amount.n)
    [] OTHER -> {}

ParseChainIDNumbersOnly(chain) == IF chain.form = "number" /\ chain.n > 0 THEN chain.n ELSE 0

ParseChainID(chain) == IF chain.form \in {"number", "digits"} /\ chain.n > 0 THEN chain.n ELSE 0

Refused == {}

\* The call that reaches the service's policy, if there is such a chain.
Call(reg, id, to, action, data) ==
  IF Resolve(reg, id) = 0 THEN Refused
  ELSE {[chain |-> Resolve(reg, id), to |-> to, action |-> action, data |-> data]}

NoData == [fn |-> "none", party |-> "none", amount |-> 0]

\* Calldata as the request gives it, and as abi.EncodeERC20Transfer or Approve makes it.
GivenData(fn) == IF fn = "none" THEN NoData ELSE [fn |-> fn, party |-> "given", amount |-> 0]
TokenData(fn, n) == [fn |-> fn, party |-> "party", amount |-> n]

TokenFunction == [erc20_transfer |-> "transfer", erc20_approve |-> "approve"]

\* A transfer must be positive, an approval not negative.
TokenAmounts(r) == {n \in Parsed(r.amount) : n > 0 \/ (r.tool = "erc20_approve" /\ n = 0)}

\* The token handlers: addresses and amount are checked before encoding.
TokenCalls(reg, id, r) ==
  LET fn == TokenFunction[r.tool] IN
  IF IsHexAddress(Trimmed(r.to)) /\ IsHexAddress(Trimmed(r.party))
  THEN UNION {Call(reg, id, "to", ContractCall(fn, 0), TokenData(fn, n)) : n \in TokenAmounts(r)}
  ELSE Refused

\* ExecuteContractCall leaves the value of a text that does not parse undefined.
ContractValues(amount) ==
  CASE amount.form = "absent" -> {0} [] amount.form = "text" -> Values [] OTHER -> Parsed(amount)

\* The calls one of which a raw tool call makes; calldata that is not hex is none.
RawCalls(reg, r) ==
  LET id == ParseChainID(r.chain) IN
  CASE r.tool = "transfer" ->
         UNION {Call(reg, id, Address("to", r.to), Transfer(n), NoData) : n \in Parsed(r.amount)}
    [] r.tool \in DOMAIN TokenFunction -> TokenCalls(reg, id, r)
    [] r.tool = "contract_call" ->
         LET fn == IF r.data \in {"0x", "bare"} THEN r.fn ELSE "none"
         IN UNION {Call(reg, id, Address("to", r.to), ContractCall(fn, v), GivenData(fn)) :
                   v \in ContractValues(r.amount)}

-----------------------------------------------------------------------------
(* agent/exec_tool.go: the pipelines.                                      *)

\* The arguments decode into strings, are not blank and pass the checks up to
\* ValidateWalletConstraints; otherwise the raw call is made instead.
PipelineTakesZeroTransfers(r) ==
  /\ r.amount.form # "number"
  /\ \/ /\ r.tool = "contract_call"
        /\ Trimmed(r.to) \in {"0x", "short"} /\ Trimmed(r.data) = "0x"
     \/ /\ r.tool \in DOMAIN TokenFunction
        /\ Trimmed(r.to) = "0x" /\ IsHexAddress(Trimmed(r.party))

PipelineTakes(r) ==
  /\ r.amount.form # "number"
  /\ \/ /\ r.tool = "contract_call"
        /\ Trimmed(r.to) \in {"0x", "short"} /\ Trimmed(r.data) = "0x"
     \/ /\ r.tool \in DOMAIN TokenFunction
        /\ Trimmed(r.to) = "0x" /\ IsHexAddress(Trimmed(r.party))
        /\ Parsed(r.amount) # {}
        /\ r.amount.n > 0 \/ (r.tool = "erc20_approve" /\ r.amount.n = 0)

\* The executor's way to its call: policy_check stops at a preview that is denied,
\* simulate at an eth_call that fails.  (Whether it calls once more: WalletPipeline.)
Stops(env, action) ==
  Evaluate(Config(env.limit, {}), action) = "deny" \/ ~env.simulates

ReachesGate(env, id, to, action, data) ==
  IF Stops(env, action) THEN Refused ELSE Call(Registry(env), id, to, action, data)

\* The executor refuses a chain_id that is no positive number.
PipelineCalls(env, r) ==
  LET id == IF r.chain.form = "number" THEN (IF r.chain.n > 0 THEN r.chain.n ELSE 0)
            ELSE IF r.chain.form = "absent" THEN 0 ELSE r.chain.n
      to == Address("to", Trimmed(r.to))
      Bad == r.chain.form = "text" \/ (r.chain.form \in {"digits", "padded"} /\ r.chain.n <= 0)
      fn == TokenFunction[r.tool]
  IN IF Bad THEN Refused
     ELSE IF r.tool = "contract_call"
     THEN UNION {ReachesGate(env, id, to, ContractCall(r.fn, v), GivenData(r.fn)) :
                 v \in ContractValues(r.amount)}
     ELSE UNION {ReachesGate(env, id, to, ContractCall(fn, 0), TokenData(fn, n)) :
                 n \in Parsed(r.amount)}

\* executeToolForMessage
Calls(env, r) ==
  IF ~env.wallet THEN Refused
  ELSE IF Pipeline(env) /\ PipelineTakes(r) THEN PipelineCalls(env, r)
  ELSE RawCalls(Registry(env), r)
=============================================================================
