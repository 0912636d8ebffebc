----------------------------- MODULE Subagents -----------------------------
(***************************************************************************)
(* agent/subagents.go: spawn_subagents runs one child per task, at most    *)
(* Limit of them at once (errgroup.SetLimit), each with a deadline of its  *)
(* own that starts with the child.  A child is a loop of LLM rounds and    *)
(* read-only tools.  The deadline cuts off an LLM call and is looked at    *)
(* before every round; the tools do not look at it, and nothing bounds     *)
(* them: a web search and an embedding are requests without a timeout.     *)
(*                                                                         *)
(* Time is counted in ticks.  What can happen without waiting happens      *)
(* before the next tick.  A tool may take any time, and never end.         *)
(***************************************************************************)
EXTENDS Naturals, Sequences, FiniteSets

CONSTANTS
  Requests,      \* the lists of tasks the LLM may ask for; a blank task is ""
  Limit,         \* defaultMaxConcurrency
  MaxChildren,   \* defaultMaxChildCount
  Timeout,       \* defaultPerChildTimeout, in ticks
  MaxRounds,     \* subagentMaxToolRounds
  MaxCalls,      \* tool calls in one LLM answer
  ToolTime,      \* what a tool may take before it counts as late, in ticks
  Hanging        \* the tasks whose children may wait for a tool forever

ASSUME SubagentsAssumption ==
  /\ Requests \subseteq Seq(STRING)
  /\ Limit \in Nat \ {0} /\ MaxRounds \in Nat \ {0}
  /\ MaxChildren \in Nat /\ Timeout \in Nat /\ MaxCalls \in Nat /\ ToolTime \in Nat

VARIABLES
  request,    \* the tasks of the call
  specs,      \* the children's [task, index]; index is the task's place in the request
  child,      \* [at, round, age, calls, busy, life] of every child
  results,    \* results[i] of child i, or NoResult
  clock,      \* ticks since RunSubagents was called in which no tool was late
  merged      \* what FormatSubagentResults prints under 1, 2, ..., or <<>>

vars == <<request, specs, child, results, clock, merged>>

Children == DOMAIN specs

\* What is printed of a result: the child's output or error, which answers the task at
\* place `of` of the request.  Neither the task nor its index is printed.
NoResult == [of |-> 0, kind |-> "none"]

Named(r) == {i \in DOMAIN r : r[i] # ""}
Rank(r, i) == Cardinality({j \in Named(r) : j <= i})

\* handleSpawnSubagents: blank tasks are dropped, the others keep their index;
\* RunSubagents: what is beyond MaxChildren is cut off.
Specs(r) ==
  LET Place(n) == CHOOSE i \in Named(r) : Rank(r, i) = n
      kept == {n \in 1..Cardinality(Named(r)) : n <= MaxChildren}
  IN [n \in kept |-> [task |-> r[Place(n)], index |-> Place(n) - 1]]

Idle == [at |-> "queued", round |-> 0, age |-> 0, calls |-> 0, busy |-> 0, life |-> 0]

Init ==
  /\ request \in Requests /\ specs = Specs(request) /\ specs # <<>>
  /\ child = [i \in Children |-> Idle]
  /\ results = [i \in Children |-> NoResult]
  /\ clock = 0 /\ merged = <<>>

-----------------------------------------------------------------------------
Running == {i \in Children : child[i].at \in {"asking", "tools"}}
Ended == {i \in Children : child[i].at = "ended"}
Queued == {i \in Children : child[i].at = "queued"}

Expired(i) == child[i].age >= Timeout

RecordInOrderOfArrival(i, kind) ==
  results' = [results EXCEPT ![Cardinality(Ended) + 1] =
                [of |-> specs[i].index + 1, kind |-> kind]]

\* Child i writes its own slot of the shared slice.
Record(i, kind) ==
  results' = [results EXCEPT ![i] =
                [of |-> specs[i].index + 1, kind |-> kind]]

Ends(i, kind) ==
  /\ child' = [child EXCEPT ![i] = [Idle EXCEPT !.at = "ended"]]
  /\ Record(i, kind)
  /\ UNCHANGED <<request, specs, clock, merged>>

SlotFreeOfStarted == Cardinality(Running \cup Ended) < Limit

SlotFree == Cardinality(Running) < Limit

\* g.Go: the loop over the specs blocks while Limit children run.
Spawn ==
  /\ SlotFree
  /\ \E i \in Queued :
       /\ \A j \in Queued : i <= j
       /\ child' = [child EXCEPT ![i] = [Idle EXCEPT !.at = "asking", !.round = 1]]
  /\ UNCHANGED <<request, specs, results, clock, merged>>

NextRoundAfresh(i) ==
  /\ child[i].round < MaxRounds
  /\ child' = [child EXCEPT ![i] = [Idle EXCEPT !.at = "asking", !.round = child[i].round + 1]]
  /\ UNCHANGED <<request, specs, results, clock, merged>>

\* The end of a round: the child is out of rounds and has no text, or out of time,
\* or asks again.
NextRound(i) ==
  IF child[i].round = MaxRounds THEN Ends(i, "empty")
  ELSE IF Expired(i) THEN Ends(i, "error")
  ELSE /\ child' = [child EXCEPT ![i].at = "asking", ![i].round = @ + 1, ![i].calls = 0, ![i].busy = 0]
       /\ UNCHANGED <<request, specs, results, clock, merged>>

\* The LLM call fails, at the latest by the deadline of the child.
LLMFails(i) == child[i].at = "asking" /\ Ends(i, "error")

\* The LLM answers with a text, or with none.
LLMAnswers(i) == child[i].at = "asking" /\ \E kind \in {"text", "empty"} : Ends(i, kind)

\* Every call is of a tool that is not read-only and is refused at once.
LLMCallsForbidden(i) == child[i].at = "asking" /\ NextRound(i)

LLMCalls(i) ==
  /\ child[i].at = "asking"
  /\ \E n \in 1..MaxCalls : child' = [child EXCEPT ![i].at = "tools", ![i].calls = n, ![i].busy = 0]
  /\ UNCHANGED <<request, specs, results, clock, merged>>

\* A tool ends, with a result or an error; the next call of the answer follows.
ToolEnds(i) ==
  /\ child[i].at = "tools"
  /\ IF child[i].calls = 1 THEN NextRound(i)
     ELSE /\ child' = [child EXCEPT ![i].calls = @ - 1, ![i].busy = 0]
          /\ UNCHANGED <<request, specs, results, clock, merged>>

\* g.Wait: no child ever returns an error.
Merge ==
  /\ Ended = Children /\ merged = <<>>
  /\ merged' = results
  /\ UNCHANGED <<request, specs, child, results, clock>>

Late(i) == child[i].at = "tools" /\ child[i].busy = ToolTime

Lesser(a, b) == IF a < b THEN a ELSE b

\* Time passes while no child can do anything but wait, an LLM call until the deadline
\* and a tool for as long as it likes.  age and busy count up to what they are compared
\* with; clock and life do not count while a tool is late.
Tick ==
  /\ Running # {} /\ \A i \in Running : child[i].at = "asking" => ~Expired(i)
  /\ Queued = {} \/ ~SlotFree
  /\ LET counted == IF \E i \in Running : Late(i) THEN 0 ELSE 1
     IN /\ clock' = clock + counted
        /\ child' = [i \in Children |->
             IF i \in Running
             THEN [child[i] EXCEPT !.age = Lesser(@ + 1, Timeout), !.life = @ + counted,
                     !.busy = IF child[i].at = "tools" THEN Lesser(@ + 1, ToolTime) ELSE @]
             ELSE child[i]]
  /\ UNCHANGED <<request, specs, results, merged>>

ChildStep(i) ==
  LLMFails(i) \/ LLMAnswers(i) \/ LLMCallsForbidden(i) \/ LLMCalls(i) \/ ToolEnds(i)

Returned == merged # <<>> /\ UNCHANGED vars

Next == Spawn \/ (\E i \in Children : ChildStep(i)) \/ Merge \/ Tick \/ Returned

Hung == {i \in Children : specs[i].task \in Hanging}

\* What goes on by itself: the loop over the specs, time, and every call of a child that
\* cannot hang.  A child that can may still see its tools end.
Progress ==
  \/ Spawn \/ Merge \/ Tick
  \/ \E i \in Children : ChildStep(i) /\ (i \in Hung => ~ToolEnds(i))

Spec == Init /\ [][Next]_vars /\ WF_vars(Progress)

-----------------------------------------------------------------------------
TypeOK ==
  /\ request \in Requests /\ Len(specs) \in 1..MaxChildren
  /\ DOMAIN child = Children /\ DOMAIN results = Children
  /\ \A i \in Children :
       /\ child[i].at \in {"queued", "asking", "tools", "ended"}
       /\ child[i].round \in 0..MaxRounds /\ child[i].calls \in 0..MaxCalls
       /\ child[i].age \in 0..Timeout /\ child[i].busy \in 0..ToolTime
  /\ clock \in Nat
  /\ merged \in {<<>>, results}

\* However the children interleave and end, what is printed under the number n answers
\* the n-th task that is not blank, which is the n-th task of the request if none is,
\* and only tasks beyond MaxChildren have no number (subagents.go:63 "Returns results in
\* the same order as specs").
ResultsInPlace ==
  merged # <<>> =>
    /\ DOMAIN merged = 1..Lesser(Cardinality(Named(request)), MaxChildren)
    /\ \A n \in DOMAIN merged :
         /\ merged[n].kind # "none" /\ merged[n].of \in Named(request)
         /\ Rank(request, merged[n].of) = n
         /\ Named(request) = DOMAIN request => merged[n].of = n

\* A child ends with the tools of the round in which its deadline passes, and the
\* whole call takes as many such lives as there are waves of Limit children: this
\* bounds how long spawn_subagents keeps the session's other messages waiting, but for
\* the time in which some tool runs for more than ToolTime.
ChildLife == Timeout + MaxCalls * ToolTime
Waves == (Len(specs) + Limit - 1) \div Limit
SpawnInTime == clock <= Waves * ChildLife

\* spawn_subagents returns if no tool hangs, whatever the LLM does, and children whose
\* tools hang do not keep the others from their slots until they have taken them all.
SpawnEnds ==
  /\ Hung = {} => <>(merged # <<>>)
  /\ Cardinality(Hung) < Limit => <>(Children \ Hung \subseteq Ended)
=============================================================================
