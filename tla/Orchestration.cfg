CONSTANTS
  Plans <- MCPlans
  Registered = {"web_search", "wallet_execute_contract_call", "wallet_get_balance", "spawn_subagents"}
  WalletTools = {"wallet_execute_contract_call", "wallet_get_balance"}
  SendTools = {"wallet_execute_contract_call"}
  ReadTools = {"wallet_get_balance"}
  MaxSteps = 2
  MaxRounds = 2
SPECIFICATION Spec
INVARIANTS DependenciesFirst FallbackBeforeActing AnswerCoversPlan
