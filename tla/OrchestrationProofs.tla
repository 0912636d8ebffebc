------------------------ MODULE OrchestrationProofs ------------------------
(***************************************************************************)
(* What TLAPS proves of Orchestration, for every set of plans the LLM may  *)
(* write, every registry of tools and every bound on steps and rounds.     *)
(***************************************************************************)
EXTENDS Orchestration, TLAPS

\* The ids of the first n steps.
First(n) == {plan.steps[i].id : i \in 1..n}

\* An accepted plan has been validated, and the steps before the current one are
\* those with an output and those with a prompt.
Progress ==
  /\ ValidateOrchestrationPlan(plan) /\ plan \in Plans
  /\ at \in 1..(Len(plan.steps) + 1)
  /\ DOMAIN out = First(at - 1)
  /\ stage = "step" => DOMAIN context = First(at - 1)
  /\ stage = "round" => at <= Len(plan.steps) /\ DOMAIN context = First(at)

\* The inductive invariant: before a plan is accepted nothing has happened.
Inv ==
  /\ TypeOK
  /\ DependenciesFirst
  /\ stage \in {"planning", "fallback"} =>
       plan = NoPlan /\ out = <<>> /\ context = <<>> /\ calls = {}
  /\ stage \in {"step", "round"} => Progress
  /\ stage = "answered" => DOMAIN out = Ids

-----------------------------------------------------------------------------

\* The empty sequence is a function without arguments.
LEMMA NothingYet == DOMAIN <<>> = {} /\ Len(<<>>) = 0
  OBVIOUS

LEMMA BoundsTyped == MaxSteps \in Nat /\ MaxRounds \in Nat \ {0}
  BY OrchestrationAssumption DEF OrchestrationAssumption

Steps == [id : STRING, tools : SUBSET STRING, deps : SUBSET STRING]

\* The steps of a plan are numbered from one.
LEMMA StepsTyped ==
  ASSUME NEW p \in Plans
  PROVE  /\ Len(p.steps) \in Nat
         /\ DOMAIN p.steps = 1..Len(p.steps)
         /\ \A i \in 1..Len(p.steps) : p.steps[i] \in Steps
  <1>1. p.steps \in Seq(Steps)
    BY OrchestrationAssumption DEF OrchestrationAssumption, Steps
  <1>2. QED BY <1>1

LEMMA InvInit == Init => Inv
  <1> SUFFICES ASSUME Init PROVE Inv OBVIOUS
  <1>1. plan.steps = <<>>
    BY DEF Init, NoPlan
  <1>2. DOMAIN plan.steps = {} /\ DOMAIN out = {} /\ DOMAIN context = {}
    BY <1>1, NothingYet DEF Init
  <1>3. TypeOK
    BY <1>2, BoundsTyped DEF Init, TypeOK
  <1>4. DependenciesFirst
    BY <1>2 DEF DependenciesFirst
  <1>5. QED BY <1>3, <1>4 DEF Init, Inv

-----------------------------------------------------------------------------

\* Accepting a plan: no step has started.
LEMMA AcceptKeeps ==
  ASSUME Inv, PlanAccepted
  PROVE  Inv'
  <1>1. PICK p \in Plans : ValidateOrchestrationPlan(p) /\ plan' = p
    BY DEF PlanAccepted
  <1>2. /\ stage' = "step" /\ at' = 1 /\ out' = <<>> /\ context' = <<>>
        /\ UNCHANGED <<wallet, round, last, out, context, calls>>
    BY DEF PlanAccepted, Inv
  <1>3. First(0)' = {} /\ DOMAIN out' = {} /\ DOMAIN context' = {}
    BY <1>2, NothingYet DEF First
  <1>4. Len(p.steps) \in Nat /\ Len(p.steps) >= 1
    <2>1. Len(p.steps) \in 1..MaxSteps
      BY <1>1 DEF ValidateOrchestrationPlan
    <2>2. QED BY <2>1, BoundsTyped
  <1>5. TypeOK'
    BY <1>1, <1>2, <1>3 DEF Inv, TypeOK
  <1>6. Progress'
    <2>1. (at - 1)' = 0 /\ at' \in 1..(Len(plan'.steps) + 1)
      BY <1>1, <1>2, <1>4
    <2>2. First(at - 1)' = {}
      BY <2>1 DEF First
    <2>3. ValidateOrchestrationPlan(plan)' /\ (plan \in Plans)'
      <3>1. ValidateOrchestrationPlan(plan') /\ plan' \in Plans
        BY <1>1
      <3>2. QED BY <3>1
    <2>4. QED
      BY <1>2, <1>3, <2>1, <2>2, <2>3 DEF Progress
  <1>7. DependenciesFirst'
    BY <1>3 DEF DependenciesFirst
  <1>8. QED
    BY <1>2, <1>5, <1>6, <1>7 DEF Inv

\* Falling back before a plan is accepted.
LEMMA RefuseKeeps ==
  ASSUME Inv, PlanRefused
  PROVE  Inv'
  <1>1. stage = "planning" /\ stage' = "fallback" /\ UNCHANGED <<wallet, plan, at, round, last, out, context, calls>>
    BY DEF PlanRefused, FallsBack
  <1>2. TypeOK' /\ DependenciesFirst'
    BY <1>1 DEF Inv, TypeOK, DependenciesFirst, Ids
  <1>3. QED BY <1>1, <1>2 DEF Inv

\* The current step of an accepted plan.
LEMMA CurrentStep ==
  ASSUME Inv, stage \in {"step", "round"}, at <= Len(plan.steps)
  PROVE  /\ at \in DOMAIN plan.steps /\ Step.id \in Ids
         /\ First(at) = First(at - 1) \cup {Step.id}
         /\ Step.deps \subseteq First(at - 1)
         /\ Step.id \notin First(at - 1)
  <1>1. Progress /\ plan \in Plans /\ Len(plan.steps) \in Nat /\ DOMAIN plan.steps = 1..Len(plan.steps)
    BY StepsTyped DEF Inv, Progress
  <1>2. at \in DOMAIN plan.steps /\ at \in Nat /\ at >= 1
    BY <1>1 DEF Progress
  <1>3. 1..at = 1..(at - 1) \cup {at}
    BY <1>2
  <1>4. First(at) = First(at - 1) \cup {Step.id}
    BY <1>3 DEF First, Step
  <1>5. Step.deps \subseteq First(at - 1)
    <2>1. DependsBackwards(plan.steps, at)
      BY <1>1, <1>2 DEF Progress, ValidateOrchestrationPlan
    <2>2. Step.deps \in SUBSET STRING
      BY <1>1, <1>2, StepsTyped DEF Step, Steps
    <2>3. QED BY <2>1 DEF DependsBackwards, First, Step
  <1>6. Step.id \notin First(at - 1)
    <2> SUFFICES ASSUME NEW j \in 1..(at - 1), plan.steps[j].id = plan.steps[at].id PROVE FALSE
      BY DEF First, Step
    <2>1. j \in DOMAIN plan.steps /\ j # at
      BY <1>1, <1>2
    <2>2. QED BY <1>1, <1>2, <2>1 DEF Progress, ValidateOrchestrationPlan
  <1>7. QED BY <1>2, <1>4, <1>5, <1>6 DEF Ids, Step

-----------------------------------------------------------------------------

\* A step starts: its prompt holds exactly what it depends on.
LEMMA StartKeeps ==
  ASSUME Inv, StepStarts
  PROVE  Inv'
  <1>1. /\ stage = "step" /\ at <= Len(plan.steps) /\ stage' = "round"
        /\ context' = Bind(context, Step.id, Step.deps \cap DOMAIN out)
        /\ round' = 0 /\ last' = "none" /\ UNCHANGED <<wallet, plan, at, out, calls>>
    BY DEF StepStarts
  <1>2. Progress /\ DOMAIN out = First(at - 1) /\ DOMAIN context = First(at - 1)
    BY <1>1 DEF Inv, Progress
  <1>3. /\ at \in DOMAIN plan.steps /\ Step.id \in Ids /\ First(at) = First(at - 1) \cup {Step.id}
        /\ Step.deps \subseteq First(at - 1) /\ Step.id \notin First(at - 1)
    BY <1>1, CurrentStep
  <1>4. Step.deps \cap DOMAIN out = Step.deps
    BY <1>2, <1>3
  <1>5. /\ DOMAIN context' = DOMAIN context \cup {Step.id} /\ context'[Step.id] = Step.deps
        /\ \A y \in DOMAIN context \ {Step.id} : context'[y] = context[y]
    <2> DEFINE b == Bind(context, Step.id, Step.deps)
    <2>1. context' = b
      BY <1>1, <1>4
    <2>2. /\ DOMAIN b = DOMAIN context \cup {Step.id} /\ b[Step.id] = Step.deps
          /\ \A y \in DOMAIN context \ {Step.id} : b[y] = context[y]
      BY DEF Bind
    <2> HIDE DEF b
    <2>3. QED BY <2>1, <2>2
  <1>6. TypeOK'
    <2>1. Ids' = Ids /\ 0 \in 0..MaxRounds
      BY <1>1, BoundsTyped DEF Ids
    <2>2. DOMAIN context' \subseteq Ids
      BY <1>3, <1>5 DEF Inv, TypeOK
    <2>3. QED BY <1>1, <2>1, <2>2 DEF Inv, TypeOK
  <1>7. DependenciesFirst'
    <2> SUFFICES ASSUME NEW i \in DOMAIN plan.steps, plan.steps[i].id \in DOMAIN context'
                 PROVE  context'[plan.steps[i].id] = plan.steps[i].deps
      BY <1>1 DEF DependenciesFirst
    <2>1. CASE plan.steps[i].id = Step.id
      <3>1. i = at
        BY <1>2, <1>3, <2>1 DEF Progress, ValidateOrchestrationPlan, Step
      <3>2. QED BY <1>5, <3>1 DEF Step
    <2>2. CASE plan.steps[i].id # Step.id
      BY <1>5, <2>2 DEF Inv, DependenciesFirst
    <2>3. QED BY <2>1, <2>2
  <1>8. Progress'
    <2>1. First(at)' = First(at) /\ First(at - 1)' = First(at - 1)
      BY <1>1 DEF First
    <2>2. DOMAIN context' = First(at)
      BY <1>2, <1>3, <1>5
    <2>3. QED BY <1>1, <1>2, <2>1, <2>2 DEF Progress
  <1>9. QED BY <1>1, <1>6, <1>7, <1>8 DEF Inv

\* A step ends: it has an output, whatever text that is.
LEMMA EndKeeps ==
  ASSUME Inv, stage = "round", NEW text, StepEndsAs(text), UNCHANGED calls
  PROVE  Inv'
  <1>1. /\ out' = Bind(out, Step.id, text) /\ at' = at + 1 /\ stage' = "step"
        /\ UNCHANGED <<wallet, plan, round, last, context>>
    BY DEF StepEndsAs
  <1>2. Progress /\ at <= Len(plan.steps) /\ DOMAIN out = First(at - 1) /\ DOMAIN context = First(at)
    BY DEF Inv, Progress
  <1>3. Step.id \in Ids /\ First(at) = First(at - 1) \cup {Step.id}
    BY <1>2, CurrentStep
  <1>4. DOMAIN out' = First(at)
    <2> DEFINE b == Bind(out, Step.id, text)
    <2>1. DOMAIN b = DOMAIN out \cup {Step.id}
      BY DEF Bind
    <2> HIDE DEF b
    <2>2. out' = b
      BY <1>1 DEF b
    <2>3. QED BY <1>2, <1>3, <2>1, <2>2
  <1>5. at \in Nat /\ Len(plan.steps) \in Nat
    BY <1>2, StepsTyped DEF Progress
  <1>6. TypeOK'
    <2>1. Ids' = Ids /\ DOMAIN out' \subseteq Ids
      BY <1>1, <1>2, <1>3, <1>4 DEF Ids, Inv, TypeOK
    <2>2. QED BY <1>1, <1>5, <2>1 DEF Inv, TypeOK
  <1>7. DependenciesFirst'
    BY <1>1 DEF Inv, DependenciesFirst
  <1>8. Progress'
    <2>1. at' - 1 = at /\ at' \in 1..(Len(plan.steps) + 1)
      BY <1>1, <1>2, <1>5 DEF Progress
    <2>2. First(at - 1)' = First(at)
      BY <1>1, <2>1 DEF First
    <2>3. QED BY <1>1, <1>2, <1>4, <2>1, <2>2 DEF Progress
  <1>9. QED BY <1>1, <1>6, <1>7, <1>8 DEF Inv

\* Another round of the same step.
LEMMA RoundKeeps ==
  ASSUME Inv, stage = "round", round' \in 0..MaxRounds, last' \in {"none", "good", "failed"},
         UNCHANGED <<wallet, stage, plan, at, out, context>>
  PROVE  Inv'
  <1>1. TypeOK' /\ DependenciesFirst'
    BY DEF Inv, TypeOK, DependenciesFirst, Ids
  <1>2. First(at)' = First(at) /\ First(at - 1)' = First(at - 1)
    BY DEF First
  <1>3. Progress'
    BY <1>2 DEF Inv, Progress
  <1>4. QED BY <1>1, <1>3 DEF Inv

LEMMA CallKeeps ==
  ASSUME Inv, StepCalls
  PROVE  Inv'
  <1>1. /\ stage = "round" /\ round < MaxRounds /\ round' = round + 1
        /\ last' \in {last, "none", "good", "failed"}
        /\ UNCHANGED <<wallet, stage, plan, at, out, context>>
    BY DEF StepCalls
  <1>2. round' \in 0..MaxRounds /\ last' \in {"none", "good", "failed"}
    BY <1>1, BoundsTyped DEF Inv, TypeOK
  <1>3. QED BY <1>1, <1>2, RoundKeeps

LEMMA AnswerKeeps ==
  ASSUME Inv, StepAnswers
  PROVE  Inv'
  <1>1. CASE UNCHANGED <<wallet, stage, plan, at, last, out, context>> /\ round' = round + 1
    <2>1. round' \in 0..MaxRounds /\ last' \in {"none", "good", "failed"} /\ stage = "round"
      BY <1>1, BoundsTyped DEF StepAnswers, Inv, TypeOK
    <2>2. QED BY <1>1, <2>1, RoundKeeps
  <1>2. CASE StepEndsAs("text")
    BY <1>2, EndKeeps DEF StepAnswers
  <1>3. QED BY <1>1, <1>2 DEF StepAnswers

LEMMA GiveUpKeeps ==
  ASSUME Inv, StepGivesUp
  PROVE  Inv'
  <1>1. CASE StepEndsAs("error")
    BY <1>1, EndKeeps DEF StepGivesUp
  <1>2. CASE StepEndsAs(WithoutText)
    BY <1>2, EndKeeps DEF StepGivesUp
  <1>3. QED BY <1>1, <1>2 DEF StepGivesUp

\* After the last step every step has an output, so that the turn does not fall back.
LEMMA SynthesisKeeps ==
  ASSUME Inv, Synthesis
  PROVE  Inv'
  <1>1. /\ stage = "step" /\ at > Len(plan.steps)
        /\ stage' = IF DOMAIN out = {} THEN "fallback" ELSE "answered"
        /\ UNCHANGED <<wallet, plan, at, round, last, out, context, calls>>
    BY DEF Synthesis
  <1>2. /\ Progress /\ DOMAIN out = First(at - 1)
        /\ Len(plan.steps) \in Nat /\ DOMAIN plan.steps = 1..Len(plan.steps)
    BY <1>1, StepsTyped DEF Inv, Progress
  <1>3. at - 1 = Len(plan.steps) /\ Len(plan.steps) >= 1
    <2>1. Len(plan.steps) \in 1..MaxSteps
      BY <1>2 DEF Progress, ValidateOrchestrationPlan
    <2>2. QED BY <1>1, <1>2, <2>1, BoundsTyped DEF Progress
  <1>4. DOMAIN out = Ids
    BY <1>2, <1>3 DEF First, Ids
  <1>5. DOMAIN out # {}
    <2>1. 1 \in DOMAIN plan.steps
      BY <1>2, <1>3
    <2>2. plan.steps[1].id \in Ids
      BY <2>1 DEF Ids
    <2>3. QED BY <1>4, <2>2
  <1>6. stage' = "answered" /\ Ids' = Ids
    BY <1>1, <1>5 DEF Ids
  <1>7. TypeOK' /\ DependenciesFirst'
    BY <1>1, <1>6 DEF Inv, TypeOK, DependenciesFirst
  <1>8. QED BY <1>1, <1>4, <1>6, <1>7 DEF Inv

LEMMA StutterKeeps ==
  ASSUME Inv, UNCHANGED vars
  PROVE  Inv'
  BY DEF Inv, vars, TypeOK, DependenciesFirst, Ids, Progress, First

-----------------------------------------------------------------------------

\* The strengthening is an invariant, whatever the planner and the steps' LLM do.
THEOREM InvAlways == Spec => []Inv
  <1>1. Inv /\ [Next]_vars => Inv'
    <2> SUFFICES ASSUME Inv, [Next]_vars PROVE Inv'
      OBVIOUS
    <2>1. CASE PlanRefused
      BY <2>1, RefuseKeeps
    <2>2. CASE PlanAccepted
      BY <2>2, AcceptKeeps
    <2>3. CASE StepStarts
      BY <2>3, StartKeeps
    <2>4. CASE StepCalls
      BY <2>4, CallKeeps
    <2>5. CASE StepAnswers
      BY <2>5, AnswerKeeps
    <2>6. CASE StepGivesUp
      BY <2>6, GiveUpKeeps
    <2>7. CASE Synthesis
      BY <2>7, SynthesisKeeps
    <2>8. CASE Done \/ UNCHANGED vars
      BY <2>8, StutterKeeps DEF Done
    <2>9. QED
      BY <2>1, <2>2, <2>3, <2>4, <2>5, <2>6, <2>7, <2>8 DEF Next
  <1>2. QED BY <1>1, InvInit, PTL DEF Spec

\* Every step is prompted with the outputs of all the steps it depends on.
THEOREM DependenciesComeFirst == Spec => []DependenciesFirst
  <1>1. Inv => DependenciesFirst
    BY DEF Inv
  <1>2. QED BY <1>1, InvAlways, PTL

\* A turn that falls back to the reactive loop has called no tool.
THEOREM NothingIsDoneTwice == Spec => []FallbackBeforeActing
  <1>1. Inv => FallbackBeforeActing
    BY DEF Inv, FallbackBeforeActing
  <1>2. QED BY <1>1, InvAlways, PTL

\* An answer has an output of every step of the plan.
THEOREM AnswersAreComplete == Spec => []AnswerCoversPlan
  <1>1. Inv => AnswerCoversPlan
    BY DEF Inv, AnswerCoversPlan
  <1>2. QED BY <1>1, InvAlways, PTL
=============================================================================
