# Formal models of fabietto (custom-agent)

TLA+ specifications of the Go agent in `src/`, the TLC configurations that check them on
small instances, and TLAPS proofs of the properties that matter most. Line numbers are
those of the modelled commit.

    tlc -workers 2 -config SessionQueue.cfg MCSessionQueue.tla     # any run
    tlapm SessionQueueProofs.tla                                   # any proof module

## 1. The system

A single process. Gateways (Telegram, Discord, Signal, HTTP) receive messages and call
`sessionqueue.Queue.Process`, which runs `agent.HandleMessage` (a *turn*) one at a time per
session. A turn reads the session file, calls the LLM in a loop, executes tools (shell
commands, files, web, memory, reminders, wallet, skills, sub-agents), and appends the
exchange to the session file. A cron goroutine sends reminders through the gateways'
senders. Nothing is shared through a database: state is in memory or in JSON files.

| component | state | operations | interacts with |
|---|---|---|---|
| session queue (`sessionqueue`) | map session -> worker, channels | Process, worker loop | gateways call it, it calls the agent |
| wallet policy (`wallet/policy`, `wallet/calldata`, `main.go`) | configuration | Evaluate, AnnotateAction | wallet service |
| wallet service (`wallet`, `approval`, `history`, `account`, `provider`) | pending approvals (memory), history file, nonce at the node | ExecuteTransfer, ExecuteContractCall, ExecuteAction, ExecuteApproved | tools, agent, RPC node |
| wallet plan executor (`agent/planning`) | the plan's progress (local) | Execute | agent, wallet service |
| reminders (`reminders`, `gateway/sender.go`) | `reminders.jsonl`, RW lock, cron | Add, List, Delete, runDueReminders | tools, senders |
| exec approvals (`tools/approvals.go`) | `exec-approvals.json` | IsCommandApproved, ApproveCommand | run_command tool, approval messages |
| sessions (`session`) | `sessions/*.jsonl`, legacy Telegram files | Load, Append, Clear | agent |
| agent (`agent/agent.go`, `session_memory.go`, `newskill.go`) | awaiting-skill map | HandleMessage | everything |
| orchestration (`agent/orchestration_*.go`, `planning/orchestration.go`) | plan progress (local) | plan validation, runOrchestrationPlan | LLM, tools |
| sub-agents (`agent/subagents.go`) | results slice, errgroup | handleSpawnSubagents | LLM, read-only tools |
| compaction (`compaction`) | none (a pure rewrite of the context) | CompactIfNeeded | agent, LLM |
| memory, conversation (`memory`, `conversation`) | append-only JSONL files | Add, Save, Search | tools, agent |
| skills (`skills`) | `SKILL.md` and scripts | WriteSkill, ReadSkill | newskill, tools |
| gateways (`gateway`) | connections, Signal polling | Run, Send | queue, reminders, notifier |
| telemetry (`telemetry`) | run records, artifact files | StartRun, artifacts, prune | agent |
| wallet tool calls (`tools/tools.go`, `agent/exec_tool.go`) | none | wallet_execute_* raw and through the pipelines | LLM, wallet service |
| Telegram formatting (`gateway/telegram_format.go`) | none (a function on texts) | FormatForTelegramReply | gateways |
| chains (`wallet/chains`) | lazily created providers | ResolveChainID, GetProvider | wallet service |
| eval, cmd, config, handbook, embedding, x402client, sessionlock | configuration, fixtures | offline tools, loaders | - |

### What is hard here

* **Interleaving.** Turns of different sessions run side by side over one key, one nonce
  sequence, one approval store, one exec-approvals file and one reminders file. Several of
  these are read, changed and written in separate steps. What protects a user from
  overlapping with *himself* is the session queue alone.
* **Lost answers.** An RPC node may accept a transaction and never answer; the wallet
  reports an error as text with a nil error, and a caller may try again.
* **Crashes.** `main` returns on SIGINT without waiting for turns, approvals are never
  persisted, files are rewritten in place.
* **Time.** Approvals expire while they are executed; the cron reads the clock after it has
  read the list, and its sends, one after another, may take any time.
* **Liveness.** One worker serves a session for the life of the process: a panic or a turn
  that hangs must not take other messages with it.

The complete list, each at its line, is under `hazards` in `PROJECT.json`.

### What makes each component correct

* *Queue*: one turn per session at a time, in the order received, each answered once; a
  hung or panicking turn does not stop other sessions.
* *Gateways*: a polled platform answers in order; one message is one turn; whoever does not
  share a session, or a poll loop, with a hung turn or send is answered.
* *Turn*: a transcript is a sequence of whole exchanges; migration and clearing lose and
  keep what they should; no review of a skill is skipped; nobody is told of a transfer
  that no tool was asked for.
* *Orchestration*: a step runs after and with what it depends on; a turn that has acted does
  not start over; every step is in the answer.
* *Sub-agents*: the number before a result is that of the task it answers; a tool that hangs
  costs the others nothing; without one the call returns, and in time.
* *Compaction*: no message is both summarised and shown, and none is forgotten while there is a
  summary.
* *Policy*: the strictest applicable rule wins, for every way an action can be described.
* *Wallet tools*: the call is the one asked for, on the chain asked for, whichever of the two
  paths it takes.
* *Wallet*: one approval, one transaction; nothing broadcast without authorisation; a user
  never replaces an own transaction; the history is true.
* *Plan executor*: no second broadcast after an acknowledged one.
* *Reminders*: readers never see a half-written file; a reminder disappears only by its
  owner; a due reminder is handed to its sender once, and not before its minute.
* *Exec approvals*: nothing runs that nobody approved, and nothing blocked whoever has listed
  it; a confirmed approval is not lost but for what `disturbed` names.
* *Telegram formatting*: the reply is HTML that Telegram takes, and has every word.

## 2. The modules

`MC<module>` instantiates `<module>` for TLC; `<Component>Proofs` holds its theorems. An
operator placed just before a definition and named after it (`RecheckMissUnchecked`,
`SendDroppedWhenFull`, ...) is a plausible mistake in that definition. No specification uses
it; substituting it for the definition shows that a property can fail.

    SessionServer <--implements--- SessionQueue
    SessionServer <--instantiates- Gateways
    ReminderBook  <--implements--- Reminders
    SessionStore  <--extends------ AgentTurn
    WalletPolicy  <--extends------ WalletService <--extends-- WalletPipeline
    WalletPolicy  <--extends------ WalletTools   <--extends-- ToolCalls
    on their own: ExecApprovals, Orchestration, Subagents, Compaction, TelegramFormat

The modules meet where one assumes what another shows: `Gateways` runs on the abstract
`SessionServer`; the turns of `AgentTurn` and `WalletService` do not overlap within a
session, which is `OneTurnPerSession` of `SessionQueue`.

### SessionQueue, SessionServer
An element of `Calls` is one call of `Process`; its program counter walks through `Process`
and `getOrCreateWorker` one atomic access at a time (the lock-free `Load`, `createMu`, the
second `Load`, the `Store`, the `go` statement). A worker is named after the call that made
it. A buffered channel with its parked senders is one sequence: the first `jobBufferSize`
elements are the buffer, the rest wait in Go's FIFO queue of senders. `HandlerEnds` covers a
return and a recovered panic. `SessionServer` is what a caller may rely on, a FIFO line per
session, and `ImplementsServer` is the refinement.

### Gateways
`main.go` and `gateway/*.go` on top of an instance of `SessionServer`. A message is `remote`
until the platform hands it out, then `fetched`, in the `handler`, its `reply` about to be
sent, and `over`; or it is `lost`. Telegram's and Signal's loops call the handler themselves
(`Sequential`), Discord and HTTP call it in a goroutine per message. Telegram delivers again
what the next poll has not confirmed (`acked`), Signal's receive takes a message off the
server whether or not it decodes. `Crash` drops the queue and every turn; the reply of a
turn that ran may be lost with it. A send may hang (`Reachable` are the users whose sends do
not), and in a poll loop everything behind it.

### SessionStore, AgentTurn
The files of `sessions/`, one file-system call per step, so that a failure or a crash can
come between any two: the copy of Telegram's old file (create, write, remove), the two
`Encode` calls of an exchange, the two `Remove` calls of `/new`. A line is its turn, its
role, and whether its newline was written. A write may be cut off anywhere (`CutOffs`,
`EncodeFails`); the next line then runs on from what it left, and neither can be parsed
(`RunOn`), which is what Load skips. `long` says that a session's file has a line too long for
the scanner, `cut` which turns since the last `/new` cut a line off. `said` is what the user was
told and has not cleared. That a session's turns do not overlap is what `SessionQueue` proves.

`AgentTurn` extends it with `HandleMessage`: the dialogue of `newskill` with the map of
sessions that owe a skill's content, the commands that never reach the LLM, orchestration
and wallet planner as gates with their outcomes, the reactive loop with its rounds, the
correction of an unfounded claim, `write_skill` with its two reviews and the files of
`WriteSkill`, `write_file` on those files, which lie in its workspace (`CallWriteFile`), and the
recording of the exchange. Of a skill's file only what preceded its writing is kept. A message is one of nine classes of text,
the LLM is a choice of answer. A step of the turn that touches a file is a step of the
store (`TurnsUseTheStore`).

### Orchestration
The LLM's answer is any member of `Plans`; `ValidateOrchestrationPlan` and the policy check
accept or refuse it. A step is `StepStarts` (tools it may use, prompt from the outputs it
depends on), rounds of `StepCalls`, `StepAnswers` or `StepGivesUp`; `MustRetry` is the
reading of a tool's answer as a failure. `context`, the prompts, and `calls`, what was
called, are what the properties look at; an output is never its text, only whether it exists.

### Subagents
Discrete time. A child is queued, asking the LLM or in its tools; `SlotFree` is the limit of
the error group, at which the spawning loop blocks; the deadline cuts off the LLM call and
is looked at between rounds, but not by tools, which take any time and may hang (`Hanging`).
`Tick` only happens when nothing can happen without waiting, and no further than the deadline
of an LLM call. `clock` and `life` do not count while a tool is late, longer than `ToolTime`,
so that a bound on them is one on the time but for that. Of a result only what
`FormatSubagentResults` prints is kept: whose answer stands under which number.

### WalletPolicy, WalletTools, ToolCalls
Pure operators, and a behaviour that is one use of them. `WalletPolicy`: what an action looks like after `AnnotateAction`, how `main`
turns the environment into a configuration, and `Evaluate`. `WalletTools`: from
the JSON arguments of a `wallet_execute_` tool to the call of the service, raw
(`RawCalls`) and through the pipelines of `executeToolForMessage` (`PipelineCalls`). An
address, amount, chain id or calldata is one of the *forms* in which an LLM writes it
(padded, without 0x, as a number, unparseable, absent), since what the two paths do with
those forms is where they differ. An unparseable amount leaves a `big.Int` undefined on the
raw path, which is a choice of values. `ToolCalls` makes one decision on one input, what
the policy says of an action (`Evaluates`) or which calls a request may become (`CallsTool`: one of
the set is made, and none if it is empty), and states what is right by definitions of its own: the
rules as the comments of the code give them, by the name of the function really called (`Says`),
less those the code does not follow (`Ineffective`, section 4), and what a request asks for
(`Asked`). A function is known by its signature: `KnownSelectors` is the table with the one of
`permit` that no token has. A call carries its chain, its address, and what its calldata says with
recipient and amount, so that a swap or a loss of one would show; the pipeline's call also
depends on the preview and the `eth_call` before it (`Stops`). What a configuration, an
environment and a request may be are constants.

### WalletService
A turn is `ready` or inside one wallet call. The call's steps are the points at which
another goroutine, the node or the clock can get in between: policy, `Add`, `Get`, the owner
check with `Remove`, the nonce, the fee, sending, recording. `ExecuteAction` and
`ExecuteApproved` share the second half, with `held[t]` telling them apart. The node
(external) keeps a mempool with replacement by fee, and may accept without answering.
`asked` and `sent` are history variables; they are never read by an action that decides
anything, except `asked` in `OwnedBy`, where it stands for the fields of the entry that
`Get` returned a pointer to, and in `NextId`, the clock reading that names an approval.
`Restart` kills the turns and empties the store. `TurnStarts` assumes what `SessionQueue`
proves: the turns of one session do not overlap.

### WalletPipeline
`WalletExecutor.Execute` on top of `WalletService`: the plan's stages call the wallet through
the same actions (`Execute`, `TurnTakesResult`) that a tool call uses.

### ExecApprovals
`ApproveCommand`, `run_command` and `write_file` of concurrent sessions over
`exec-approvals.json`, which no lock protects and which lies in the workspace of the file tools.
`os.WriteFile` is two steps, `Truncates` and `Writes`, and either may fail (`OpenFails`,
`WriteFails`): the descriptor writes at its own offset, so that of two overlapping writes the
tail of the longer may stay behind the shorter (`torn`). `requested`, `confirmed`, `written`,
`executed` and `disturbed` are history variables. `run_command` reads the file in one step, because what it decides on is
the content of that one read.

### ReminderBook, Reminders
`ReminderBook` is what tools and cron may rely on: adding, deleting and reading are single
steps, and reminders leave the book only with their owner's delete or with a fault.
`Reminders` is the file: `Add` under the lock, `Delete` as read, `os.Create`, one step per
line, close; cut-off lines and what they do to the next one; the cron's run with its list,
its clock and its sends, which go to the owners in `Served`, may take minutes and may never
return; crashes anywhere. While a delete rewrites the file, the book is
what will be in it (`Book`), and `ImplementsBook` is the refinement. A schedule is reduced
to the minutes in which it has an instant and to whether that instant is at second 0,
which is all `runDueReminders` looks at.

### Compaction, TelegramFormat, MCAlgorithms
`Compaction`: one call of `CompactIfNeeded`, with `EstimateTokens` and `Recent`, on
conversations that are sequences of message sizes. The LLM's answer is a summary, a text without
JSON, nothing, or a failure; `old` are the messages that a summary tells of, which none does in
the last three cases. `TelegramFormat`: `FormatForTelegramReply`
on sequences of tokens (words, backquotes, asterisks, bars, breaks, placeholders, tags), with
one action per turn of each of the code's loops, in the code's order: `TakeFence`,
`TakeInline`, `TakeTable`, `TakeBold` and, in one step, `PutBack`. `done` is what the pass has
written, `rest` or `lines` what it has yet to read, and the blocks taken out wait in `fenced`,
`inline` and `tables`. A recursion over a text is a recursive function on its positions, so
that it can be proved about. `Accepted` is the parser of Telegram (external). The placeholders
of the code are characters of a private-use range, which the LLM is assumed not to write.
`MCAlgorithms` lets one run take one decision of `ToolCalls`, one call of `Compaction` or one
text through `TelegramFormat`, the others being idle, over every input of its sets.

### The proof modules
`SessionQueueProofs`, `AgentTurnProofs` (also of `Compaction`), `GatewaysProofs` (also of
`TelegramFormat`),
`OrchestrationProofs`, `SubagentsProofs`, `WalletProofs` (also of `ToolCalls`),
`ExecApprovalsProofs` and `RemindersProofs`: see section 5.

## 3. The runs

| run | instance | shows |
|---|---|---|
| SessionQueue | 4 messages of 2 sessions + the bypass, capacity 1, handlers of s2 may hang | mutual exclusion, no turn lost or doubled, refinement of SessionServer, every turn of s1 is answered |
| Gateways | 6 messages (one skipped) of 5 users on Telegram, Signal, Discord; turns of d1 and sends to s2 may hang; 1 crash | answers in order, one turn per message but for redelivery, everyone not behind d1 or s2 is answered |
| AgentTurn | a Telegram user with an old file, 3 turns, 6 classes of message, 2 settings, 2 files per skill, 2 rounds | types; whole exchanges, nothing lost but a question behind a cut-off line, nothing comes back, no review skipped, founded claims |
| Orchestration | every plan of up to 2 steps (one of 3 to refuse), 2 rounds, 4 tools | dependencies first, no fallback after acting, answers cover the plan |
| Subagents | 3 to 5 tasks, some blank, one whose tools may hang, at most 3 children on 2 slots, timeout 2, 3 rounds, 2 calls a round | results under the right number, a bound on the call's time, who is not hung ends |
| WalletService | 3 turns of one user, 1 of another, 2 approvals, 2 fees, any number of restarts | approvals, authorisation, replacement, history |
| WalletPipeline | 2 turns of one user, 1 of another, 1 approval | second broadcast only after a lost answer; authorisation under the plan |
| WalletPipelineTwice | the same without clock and mining | the plan can broadcast twice |
| ExecApprovals | 3 sessions, 5 commands (2 gated, 1 of each other kind), 5 turns, 2 lists that a write_file may write | only approved or so listed commands run, no duplicates, approvals lost only to overlaps, cut-off writes and write_file |
| Reminders | 2 users, one without a sender, 2 reminders, 1 minute, 1 fault | refinement of ReminderBook, promised reminders are handed to the sender if there is one, deleted ones stay quiet |
| RemindersLive | 2 users, one without a sender, 1 reminder of 4 forms, 2 minutes | a run sends a reminder once and not before its minute, deletes end |
| Algorithms | limits and values in -1..3, 3 allowlists, every form of a wallet call in every environment; conversations of 0 to 5 messages of 0 to 3 tokens; texts of 1 to 4 lines of 15 kinds | the strictest documented rule wins, with two named exceptions; calls as asked for on both paths, recipient and amount included; messages are forgotten only for want of a summary; valid HTML that keeps every word |

A type invariant that no run names is one that a theorem states for every instance
(`TypeOK` of the queue, the exec approvals and orchestration, `Shape`, `Typed`, `Inv`).

### Bounds

* *SessionQueue*: capacity 1 with four calls fills a channel and parks a sender, which
  capacity 32 does with 34 messages; two sessions, one hanging, are what independence needs.
* *Gateways*: two messages of a user are what can be swapped; two users of a platform with
  one loop, and two of one without, are what can wait for each other; a second crash repeats
  the first.
* *AgentTurn*: three turns are a turn that migrates, fails or leaves a dialogue open, `/new`,
  and one that looks at the result. Two rounds are the round with the correction and the one
  after it. Sessions have files and dialogues of their own, and one on another platform takes
  a part of the same steps. Of the nine classes the run leaves out `/remember`, which takes
  the way of `approve:`, and `swap` and `chat`, which take the ways of a `SKILL.md` that nobody
  waits for. The two settings open one gate each, the planner's by its keywords or router.
* *Orchestration*: validation compares a step with those before it: two steps have every
  relation that a list of any length has pairwise, and the theorems take any length.
* *Subagents*: three children on two slots make one wait; one request has a task too many,
  others have blank or equal ones, and a child that hangs leaves the others one slot.
* *WalletService*: two approvals let one user hold two and the other user try both; three
  turns of a user allow request, approval and repetition with a restart anywhere. `MaxOps` =
  1 tool call per turn, because the calls of a turn are sequential and independent;
  `MaxTime` = 1 with `TTL` = 0 makes an approval expire between any two steps; `MaxMined` = 1
  lets a transaction be mined before, between and after the others.
* *ExecApprovals*: three sessions are two overlapping approvals and a command that runs
  between them; two gated commands are what an update can lose; five turns let the lost
  command be approved again and run. The two lists name one gated command twice, the blocked
  and the unlisted one: what a run may do with a list depends on no other thing in it.
* *Reminders*: two reminders are one that is deleted and one that must survive it; two
  minutes are what a late run can confuse and a slow sender can delay. One fault already reaches every state of the file,
  since a second one only cuts off another line.
* *Algorithms*: `Evaluate` compares with one limit, so that a value below, at and above it,
  zero and a negative are all there is; `Exact` = 2 puts the end of a float64's integers
  inside the range of values; a threshold of 4 leaves two tokens for the recent part, which
  conversations of 5 reach in every way, with messages that fit into it and one that never
  does; 4 lines are a table with a row to drop or a fence with its text.

Deadlock is checked except where the system really stops: in `SessionQueue` and `Gateways`
when every message is answered or behind a turn that hangs, in `Algorithms` after the one
decision, call or text, and in `WalletPipelineTwice` without its clock.

### Fairness

The queue assumes that goroutines are scheduled (weak fairness of their steps) and that
handlers end *only* for the sessions in `Terminating`: LLM and RPC calls have no deadline in
`main.go`, so it may not be assumed for all. Gateways assume the same of the queue's
`Finish`, that some turn that can go on does, and that sends end *only* to the users in
`Reachable`: none has a timeout. Reminders assume strong fairness for taking the lock,
because Go's mutexes queue waiters and starve none, weak fairness of a delete that holds it,
and nothing of `Send`, which may hang on the network. Sub-agents assume that the loop, the
children and time go on; that an LLM call ends by its deadline is the code's context. Tools are
assumed to return only for the tasks outside `Hanging`, and not within any time: no tool looks
at the deadline, and the clients of `web_search` and of the embedder have no timeout.

## 4. Disagreements between the code and its documentation

`PlanBroadcastsOnce` is a run (`WalletPipelineTwice`, listed under `findings`): the plan
executor is meant to broadcast once; if the first transaction is accepted and its answer
lost, it broadcasts again.

The others are plain from the models.

* `config.go:55`: a native spend limit of 0 is said to require approval for all transfers;
  `policy.go:98` allows all (`OverLimit`, `Ineffective`). A limit that does not parse, such as the
  one of `.env.example`, is 0.
* `session.go:109`: `/new` is said to start a fresh conversation; before the migration it
  leaves a Telegram user's old file, and the next turn loads it (`ClearOld`).
* `session.go:71` says that Append adds a question and its answer; after a line that was cut off
  it returns nil for a question that no Load will return (`session.go:59` skips it together with
  the cut-off line), and its answer stands behind an earlier exchange (`RunOn`, `MayRunOn`).
* `skills/README.md:47` says that new skills are evaluated and `skills/README.md:53` that rejected
  ones are not saved; `write_file` saves any text as a skill's file, unevaluated, since skills lie
  in its workspace (`CallWriteFile`, `Unreviewed`).
* `session.go:82`: old Telegram transcripts are said to be copied; when the copy fails the
  original is removed all the same (`CopyFails`, `RemoveOld`).
* `policy.go:38` says that blocked methods are always denied and `policy.go:42` that others always
  require approval; `mint` and `burn` are listed but the selector table does not know them, and
  the signature that `selector.go:22` registers for `permit` is not that of EIP-2612, so that
  real calls of the three are allowed (`UnknownSelectors`, `Ineffective`).
* `README.md:89` says that approvals of commands are persisted; of two that overlap, both
  confirmed, one is lost, and one that fails in its write loses all before it (`WriteFails`). It
  says too that some commands require approval; a list that `write_file` leaves in the file
  counts as one (`FileToolWrites`). `LostOnlyWhenDisturbed` and `RunsOnlyApproved` say that
  nothing else does either.
* `cron.go:24` says that due reminders are sent; one whose schedule has a seconds field
  other than 0 is accepted and never sent (`DueAt`).
* `sender.go:30` says that sending to a platform without a sender is an error; it returns
  nil, and `cron.go:71` logs the reminder as sent. HTTP has none, and `tools.go:1120` answers
  its user "You'll receive" all the same: `PromisedIsSent` is about the users in `Served`.
* `cron.go:24` runs every minute and sends what is due; a slow send delays the ones behind it
  past their minute, and a run that fired late sends again what the next one sends
  (`SentAsScheduled` says how far that goes).
* `orchestration_run.go:43` says that the executor cannot call what a step does not list;
  the tool is not checked when it is called, and a wallet call a step does not list is run
  raw instead of through its pipeline (`StepCalls`, `WalletPipe`).
* `subagents.go:47` says timeout per child; tools do not look at it and may never end
  (`ChildLife`, `Hung`).
* `subagents.go:63` says that results come in the order of the specs, and so they do, but under
  the numbers of the tasks that are not blank, without the tasks: after a blank one every number
  is another task's in the request the LLM wrote (`ResultsInPlace`).
* `tools.go:648`: a `chain_id` that does not parse is the default chain on the raw path and
  an error on the other; an amount written as a JSON number is rounded and bypasses the
  pipeline (`ParseChainID`, `PipelineTakes`).
* `compaction.go:57` says that old messages are summarised; when the LLM's answer is empty or has
  no JSON the block says `null` or `{}`, and when asking fails the conversation is cut to its
  last messages: either way the old ones are neither summarised nor shown
  (`ForgetsForWantOfSummary`).
* `compaction.go:69` says "keep recent messages under threshold"; the message that overflows
  half of it is kept too, whatever its size (`Split`).
* `telegram_format.go:19`: a row with another number of cells than its table's heading is
  dropped, inline code inside a table leaves its placeholder behind, and text behind an
  opening fence is dropped. `TextKept` is stated for texts whose tables are regular
  and whose fences end their lines (`RegularTables`, `PlainFences`).
* `newskill.go:64`: the prompt offers to cancel; the word is taken as the skill's content,
  and only the reviews stand in its way (`TakeSkillContent`).

## 5. Proofs

Each of these holds for every value of the constants: any number of messages, users,
sessions, turns, children, steps and crashes. The assumptions are the `ASSUME` of the module
in question, types of the constants and a `Nil` that is no record, which TLC checks of every
instance.

* `SessionQueueProofs`: types and `MutualExclusion`. The inductive invariant `IInv` says
  that a key has one worker, that a call in the critical section holds `createMu`, that a
  worker only exists once stored, and that every job in a worker's channel has the worker's
  key. Mutual exclusion follows: two handlers serving one key would be one worker.
  `EveryTurnOnce` and `QueueImplementsServer` rest on `PlaceInv`, which gives every
  call one place: nowhere yet, one position of one channel, its worker's handler, or an
  answer; the program counter of the caller tells a buffered position from a parked one.
  From it the refinement: the server's line of a session is the channel of the session's
  worker, and every step of the queue is a join, a service, an end, a leave or nothing.
* `AgentTurnProofs`: the store's invariant is inductive under steps of the store
  (`StoreInvariant`), the agent only takes such steps (`TurnsUseTheStore`), so
  `ExchangesAreWhole` and `ClearedStaysCleared` hold of the agent. The first needs that a turn
  about to write its answer has its question as the last line of its file, ended, whether it can
  be read or ran on from a line that was cut off (`Exchanged`, `Asked`), and that adding a line
  or cutting a copy off disturbs nothing before it (`RunOnWhole`, `CutOffWhole`); the second that a session's own file only has lines of after its last `/new` or of before the
  migration (`Fresh`). `WhatWasSaidIsKept` needs to know where what was said is at every step
  (`Keeping`): in order in the file that the next `Load` reads or, while the copy is written,
  in what the migration has read (`Transcript`); the original is only removed once the new file
  exists (`Migrating`), and a line is counted once because turns are numbered (`Numbered`). A
  last line without an end is of a turn that is in `cut` (`LastCut`), so that what runs on from
  it is a question with no acknowledged exchange in between (`Swallowed`, `RanOn`); the answer
  that follows is behind an ended line again.
  `TurnInv` adds what a turn's message went through and who owes a
  skill's content: `ReviewsAreNotSkipped`, `ClaimsAreFounded`; `InStepInv` ties the phase of a
  turn to the step of the store under it (`TurnAndStoreInStep`).
  `CompactionIsExact`: a conversation above the threshold overflows half of it from its first
  message on, so there is a last message from which on it does (`GreatestIsMax`); what follows
  that one fits (`SplitFits`), and a cut anywhere divides the conversation (`AfterIsTheEnd`).
* `GatewaysProofs`: `PolledInOrder` and `TurnsAreFew`. A platform hands out a prefix of what
  it has and Telegram confirms a message only with everything older (`FetchedInOrder`), so
  that an older message is never behind a younger one; and a message waiting for its turn has
  had at most one per crash (`TurnsCounted`).
  The rest of the module is about `TelegramFormat`, of any text. `EveryReplyIsAccepted`: `Html`
  are the texts that leave open, of Telegram's tags, what was open before them (`Neutral`);
  they are closed under concatenation, wrapping in a tag, joining, and putting HTML where a
  placeholder was. `FormatInv` says that the passes before the last write no tag but
  inside a table, that the pass over bold text writes HTML over escaped text, and that every
  placeholder stands for a block. `EveryWordIsKept`: a *meaning* gives each token what the user
  reads for it, and `Said`, what a text says under a meaning, goes part by part (`SaidFlatten`).
  Under `Reading` a placeholder means what its block says, so taking a block out changes nothing
  of what the text says, and putting it back changes nothing either (`SaidRestore`), provided
  that placeholders do not nest in a block put back before them: this is what a code span in a
  table breaks. `KeptInv`: at every pass, what is written followed by what is yet to be read
  says the words of the reply. What the recursive functions compute is had from their
  equations one position after the other (`Climb`, from the well-foundedness of the naturals).
* `OrchestrationProofs`: `Inv` ties the outputs and prompts to the position in the plan
  (`Progress`) and says that nothing happens before a plan is accepted; with a validated plan
  this gives `DependenciesComeFirst`, `NothingIsDoneTwice`, `AnswersAreComplete`.
* `SubagentsProofs`: a child that ended has filled its own slot and nothing is merged before
  all have, hence `ResultsStayInPlace`. Which task a child works on is `Selection`: the n-th
  kept task is the one with n named tasks up to it, and every number up to the size of a finite
  set is such a rank (`Ranked`).
  `SpawnReturnsInTime`: children start in their order, so that a child of the k-th wave of
  `Limit` starts no later than the waves before its own have had their lives (`Started`,
  `InOrder`), and what is left of a child's tool round fits into its own life (`Alive`), of which
  nothing is counted while a tool, its own or another's, is late (`LifeLeft`, `TickAlive`).
* `WalletProofs`: `WalletInv` is inductive (`WalletInvariant`) and gives `ApprovedOnce`,
  `Authorised` and `HistoryTruthful`, for every policy and behaviour of the node. The argument
  follows the approval: IDs name one request (`AskedInv`); whoever executes an approval found
  it in the store, and something spent is never there again (`SentInv`), so nothing has been
  sent for it (`HoldInv`); no second turn of its owner can hold it meanwhile because a session
  has one active turn (`SerialInv`), and a turn of another user never passes the owner check.
  `Evaluate` stays uninterpreted. To the wallet the plan executor is one more caller
  (`PlanOnlyCallsTheWallet`), so that the invariant holds under it too (`PlanIsAuthorised`).
  `NoSessionReplacesItself`: what was sent was mined or is still rivalled in the mempool
  (`SentTxInv`), so the nonce that the node calls pending is none the session has used, and
  stays so until the turn sends (`NonceInv`), since no other turn of the session runs.
  `SecondSendFollowsLoss` needs what each stage of a plan knows of the transactions of its
  calls.
  Of the decisions that keep no state: `PolicyIsStrict`,
  `RequestIsHonoured` and `PipelineAddsNothing`, by cases of the forms and the tools, for all
  configurations and requests.
* `ExecApprovalsProofs`: `ApprovalsInv` is inductive and gives the three invariants and the
  types. `Traced`: the file and every list in memory only hold commands somebody asked to
  approve or a `write_file` has listed, whatever two writers leave behind, so nothing else can be
  run. `Distinct`: each list is free of duplicates of its own, because the one that adds checks
  the list it saves. `Alone`: until something disturbs the file, the one approval in progress
  holds the file's content plus its own command, which is what makes a confirmed approval survive.
* `RemindersProofs`: the refinement `StoreIsABook` and, of the cron, `PromisesAreKept`,
  `DeletedIsGone` and `SentOnceAndNotEarly`. The book is the readable lines of the file and
  what the one writer still holds in memory (`ToCome`), so that a rewrite moves lines from one
  part to the other and the book loses only the reminder its owner deletes; `DeleteInv` says how
  far each delete has got, and everybody else finds the lock taken. `FileInv`: only the last
  line can be cut off, which costs no reminder but the next one written, and nothing a user
  was told is deleted is in the file. Each step is then a step of the book or none
  (`MovesBook`). `Promised` says that without faults every promised reminder is in the book,
  and `RunInv` carries both from the list a run has read to what it sends. That a run sends
  nothing twice needs that no reminder ever stands twice in the file: `OnceStored` has it of
  the file, of what a rewrite still has to write and of both together, `OnceSent` of a run's
  list and of what it has sent.

Assumed and not proved is only what the `ASSUME`s say; what the properties rest on in the
environment (the node, the clock, the platforms) is in the actions marked external.

Every invariant and both refinements that the passing runs check are
proved. Only model-checked is liveness under fairness (`EveryTurnAnswered`,
`EveryoneAnswered`, `SpawnEnds`, `DeletesEnd`), which is out of the prover's reach.

## 6. Not modelled

* *Memory and conversation stores*: files of one line per memory, appended under a lock. What
  they do to a turn is to add to what the LLM is shown; the ranking is arithmetic over
  embeddings.
* *Telemetry*: records for later evaluation. No decision of the program depends on them.
* *File and web tools*: path resolution, HTTP and search. `write_file` is modelled where it meets
  `exec-approvals.json` (`ExecApprovals`) and the skills (`AgentTurn`). The workspace it writes in
  also holds the files of sessions, reminders, memories and the wallet history; the models assume
  that neither it nor a command that is run touches those, since nothing could be said of a store
  whose file anybody may rewrite.
* *Secrets, signer, ABI, notifier*: formatting, encoding and cryptography.
* *Handbook, embeddings, x402 client*: loaders and wrappers of remote services.
* *Evaluation, benchmark and release-gate commands*: offline.
* *`sessionlock`*: dead code, nothing imports it.

Partly modelled: skills (writing and both reviews, not reading), the file tools (`write_file`), the chain registry (not the
lazily made providers: two first calls for a chain may both make one and one of them is
dropped, which changes no decision) and the configuration (what decides over wallet and
modes).

Known and without a property: a panic of a handler behind the queue's bypass
(`queue.go:41`) ends the process unless the gateway recovers, but no gateway sends a message
without platform and user; approval ids are readings of a nanosecond clock taken outside the lock
(`approval.go:56`), and the model takes two readings to differ.

Left out of every module: wording, redaction, HTTP and RPC transport, and the LLM itself,
which is a nondeterministic choice.
