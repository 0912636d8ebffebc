\* Values -1..3; JSON numbers are exact up to 2; conversations of at most five
\* messages, half the threshold being two tokens; texts of at most four lines.
CONSTANTS
  MaxValue = 3
  Exact = 2
  Allowlists <- SomeAllowlists
  Environments <- SomeEnvironments
  ToolRequests <- SomeRequests
  Threshold = 4
  maxMessages = 2
  MaxMessages = 5
  MaxTokens = 3
  Histories <- SomeHistories
  MaxLines = 4
  Texts <- SomeTexts
SPECIFICATION Spec
INVARIANTS
  StrictestRuleWins CallAsAsked PipelineSendsTheSame
  CompactionSplits HtmlNests TextKept
CHECK_DEADLOCK FALSE
