---------------------------- MODULE WalletPolicy ----------------------------
(***************************************************************************)
(* wallet/policy, wallet/calldata and the part of main.go that configures  *)
(* them: what happens to a transaction before anything is signed.          *)
(*                                                                         *)
(* An action is [type, method, value]; value is in units of the smallest   *)
(* amount that matters, and may be negative because the decimal string of  *)
(* the tool call is parsed by big.Int.SetString.                           *)
(***************************************************************************)
EXTENDS Integers

CONSTANT MaxValue   \* bound on the values of the model's actions and limits
ASSUME MaxValueAssumption == MaxValue \in Nat

Values == -1..MaxValue

-----------------------------------------------------------------------------
(* wallet/calldata: the method name an action carries.                     *)

\* The signatures calldata.init hashes, and the name each is registered under.  A
\* signature is named for its function; "permitInts" is the one of selector.go:22,
\* permit with v, r and s as integers, which is not the permit of EIP-2612.
KnownSelectors ==
  [approve |-> "approve", transfer |-> "transfer", transferFrom |-> "transferFrom",
   increaseAllowance |-> "increaseAllowance", permitInts |-> "permit"]

\* Other functions, and the name that is made of the hex of their selector.
UnknownSelectors ==
  [permit |-> "unknown_permit", mint |-> "unknown_mint",
   burn |-> "unknown_burn", swap |-> "unknown_swap"]

\* The functions a call may really invoke; "none" is calldata without selector.
Functions == DOMAIN KnownSelectors \cup DOMAIN UnknownSelectors \cup {"none"}

AnnotateActionNoIncrease(fn) ==
  CASE fn \in DOMAIN KnownSelectors \ {"increaseAllowance"} -> KnownSelectors[fn]
    [] fn \in DOMAIN UnknownSelectors -> UnknownSelectors[fn]
    [] OTHER -> ""

\* AnnotateAction: the name of a registered selector, one of its hex for another,
\* and no name for calldata shorter than a selector.
AnnotateAction(fn) ==
  CASE fn \in DOMAIN KnownSelectors -> KnownSelectors[fn]
    [] fn \in DOMAIN UnknownSelectors -> UnknownSelectors[fn]
    [] OTHER -> ""

Transfer(v) == [type |-> "transfer", method |-> "", value |-> v]
ContractCall(fn, v) == [type |-> "contract_call", method |-> AnnotateAction(fn), value |-> v]

Actions == {Transfer(v) : v \in Values} \cup
           {ContractCall(fn, v) : fn \in Functions, v \in Values}

-----------------------------------------------------------------------------
(* wallet/policy.                                                          *)

\* DefaultConfig with a spend limit and an allowlist.
Config(limit, allowed) ==
  [limit    |-> limit,
   blocked  |-> {"approve", "increaseAllowance", "permit"},
   allowed  |-> allowed,
   required |-> {"transfer", "transferFrom", "mint", "burn"}]

\* main.go: an absent or malformed WALLET_NATIVE_SPEND_LIMIT leaves the default,
\* zero.  Digits with underscores, as in .env.example, are malformed.
Settings == [text : {"unset", "malformed"}, n : {0}] \cup [text : {"number"}, n : Values]

ConfiguredLimit(setting) == IF setting.text = "number" THEN setting.n ELSE 0

Decisions == {"allow", "require_approval", "deny"}

OverLimit(cfg, a) == cfg.limit > 0 /\ a.value > cfg.limit

EvaluateTransfersFree(cfg, a) ==
  IF a.method \in cfg.blocked THEN "deny"
  ELSE IF cfg.allowed # {} /\ a.method \notin cfg.allowed /\ a.type = "contract_call" THEN "deny"
  ELSE IF a.method \in cfg.required THEN "require_approval"
  ELSE IF a.type = "transfer" THEN "allow"
  ELSE IF a.value > 0 /\ OverLimit(cfg, a) THEN "require_approval"
  ELSE "allow"

\* Engine.Evaluate, its checks in the order of the code.
Evaluate(cfg, a) ==
  IF a.method \in cfg.blocked THEN "deny"
  ELSE IF cfg.allowed # {} /\ a.method \notin cfg.allowed /\ a.type = "contract_call" THEN "deny"
  ELSE IF a.method \in cfg.required THEN "require_approval"
  ELSE IF a.type = "transfer" /\ OverLimit(cfg, a) THEN "require_approval"
  ELSE IF a.type = "transfer" THEN "allow"
  ELSE IF a.value > 0 /\ OverLimit(cfg, a) THEN "require_approval"
  ELSE "allow"
=============================================================================
