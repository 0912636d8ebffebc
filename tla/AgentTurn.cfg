CONSTANTS
  tg = tg
  Users = {tg}
  Telegram = {tg}
  Legacy = {tg}
  MaxTurns = 3
  Texts = {"newskill", "cancel", "/new", "approve:", "SKILL.md", "send"}
  Settings <- MCSettings
  SkillFiles <- MCSkillFiles
  MaxToolRounds = 2
SPECIFICATION TurnSpec
INVARIANTS TurnTypeOK WholeExchanges NothingLost RecordedStaysCleared NoReviewIsSkipped NoUnfoundedClaim
