----------------------------- MODULE Compaction -----------------------------
(***************************************************************************)
(* compaction/compaction.go: what the LLM is shown of a long conversation. *)
(* A message is its number of tokens: its characters divided by four, less *)
(* the remainder.  A conversation is a sequence of them, oldest first.     *)
(* Nothing is kept between two calls: a behaviour is one call.             *)
(***************************************************************************)
EXTENDS Naturals, Sequences, FiniteSetsExt

CONSTANTS Threshold,    \* COMPACTION_THRESHOLD
          maxMessages,  \* session.maxMessages
          Histories     \* the conversations a session may have kept
ASSUME CompactionAssumption ==
  /\ Threshold \in Nat \ {0} /\ maxMessages \in Nat \ {0}
  /\ Histories \subseteq Seq(Nat)

\* The tokens of all messages, counted one by one.
EstimateTokens(msgs) == Cardinality(UNION {{i} \X (1..msgs[i]) : i \in DOMAIN msgs})

\* The last messages, all but the first n.
After(msgs, n) == SubSeq(msgs, n + 1, Len(msgs))

\* session.Recent
Recent(msgs) == IF Len(msgs) <= maxMessages THEN msgs ELSE After(msgs, Len(msgs) - maxMessages)

\* The messages from which on half the threshold does not hold the rest.
Overflows(msgs) == {i \in DOMAIN msgs : EstimateTokens(After(msgs, i - 1)) > Threshold \div 2}

SplitAfter(msgs) == IF Overflows(msgs) = {} THEN Len(msgs) ELSE Max(Overflows(msgs))

\* How many messages are summarized: walking back, all before the first message
\* that no longer fits into half the threshold.  That message itself stays.
Split(msgs) == IF Overflows(msgs) = {} THEN Len(msgs) ELSE Max(Overflows(msgs)) - 1

\* The block that ToPromptBlock makes of the LLM's answer: no answer at all leaves a
\* nil summary, which is written as null, and a text without JSON an empty one.
Block(answer) == CASE answer = "nothing" -> "null" [] answer = "text" -> "{}" [] answer = "summary" -> "summary"

\* CompactIfNeeded: [block, old, recent], where old are the messages that the block
\* tells of.  When the request or the decoding fails, the conversation is cut instead.
\* What is cut off goes either way, also when the block tells of nothing.
CompactIfNeeded(msgs, answer) ==
  IF EstimateTokens(msgs) <= Threshold THEN [block |-> "", old |-> <<>>, recent |-> msgs]
  ELSE IF answer = "failed" THEN [block |-> "", old |-> <<>>, recent |-> Recent(msgs)]
  ELSE [block  |-> Block(answer),
        old    |-> IF answer = "summary" THEN SubSeq(msgs, 1, Split(msgs)) ELSE <<>>,
        recent |-> After(msgs, Split(msgs))]

VARIABLES
  history,     \* what the session has kept
  shown,       \* what the LLM is shown of it
  compacted    \* whether the call has returned

compactionVars == <<history, shown, compacted>>

CompactionInit ==
  /\ history \in Histories
  /\ shown = [block |-> "", old |-> <<>>, recent |-> <<>>]
  /\ compacted = FALSE

\* What comes of asking the LLM for a summary.
Answers == {"summary", "text", "nothing", "failed"}

Compacts(answer) ==
  /\ ~compacted /\ compacted' = TRUE
  /\ shown' = CompactIfNeeded(history, answer)
  /\ UNCHANGED history

CompactionNext == \E answer \in Answers : Compacts(answer)

CompactionSpec == CompactionInit /\ [][CompactionNext]_compactionVars

-----------------------------------------------------------------------------

\* What is shown is the end of the conversation, with its newest message.
Newest ==
  /\ history # <<>> => shown.recent # <<>>
  /\ \E n \in 0..Len(history) : shown.recent = After(history, n)

\* Beside a block stand no more messages than half the threshold holds but for the
\* first of them, and no fewer.
BlockFits ==
  shown.block # "" =>
    /\ EstimateTokens(shown.recent) > Threshold \div 2
    /\ EstimateTokens(Tail(shown.recent)) <= Threshold \div 2

\* The messages the LLM learns nothing of: neither shown nor told of.
Forgotten == Len(history) - Len(shown.old) - Len(shown.recent)

\* A summary tells of exactly the messages that are not shown.  Messages are
\* forgotten only above the threshold and for want of a summary: all but the last
\* maxMessages when asking for it failed, and all that the missing summary was
\* meant to tell of when the block is null or {}.
ForgetsForWantOfSummary ==
  /\ shown.block = "summary" => shown.old \o shown.recent = history
  /\ shown.block # "summary" => shown.old = <<>>
  /\ EstimateTokens(history) <= Threshold => shown.recent = history
  /\ shown.block = "" /\ Forgotten > 0 => Len(shown.recent) = maxMessages

\* The newest message is always shown, whatever its size; the cut is where half the
\* threshold puts it; no message is both told of and shown; and none is forgotten
\* while there is a summary (compaction.go:57, "summarizes old messages").
CompactionSplits == compacted => Newest /\ BlockFits /\ ForgetsForWantOfSummary
=============================================================================
