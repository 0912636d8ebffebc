--------------------------- MODULE SubagentsProofs --------------------------
(***************************************************************************)
(* What TLAPS proves of Subagents, for every request, every limit on the   *)
(* children, every length of rounds and deadlines, and tools that take any *)
(* time or never end.                                                      *)
(***************************************************************************)
EXTENDS Subagents, FiniteSetTheorems, SequenceTheorems, TLAPS

Stages == {"queued", "asking", "tools", "ended"}
Fields == DOMAIN Idle
Kinds == {"text", "empty", "error"}

\* What child i writes into its slot.
Own(i, kind) == [of |-> specs[i].index + 1, kind |-> kind]

\* The inductive invariant: a child that has ended has filled its own slot, and
\* nothing is merged before all have.
Inv ==
  /\ DOMAIN child = Children /\ DOMAIN results = Children
  /\ \A i \in Children : DOMAIN child[i] = Fields /\ child[i].at \in Stages
  /\ \A i \in Children : child[i].at = "ended" => \E kind \in Kinds : results[i] = Own(i, kind)
  /\ merged # <<>> => merged = results /\ Ended = Children
  /\ request \in Requests /\ specs = Specs(request)

LEMMA InvInit == Init => Inv
  <1> SUFFICES ASSUME Init PROVE Inv OBVIOUS
  <1>1. /\ child = [i \in Children |-> Idle] /\ results = [i \in Children |-> NoResult]
        /\ merged = <<>> /\ request \in Requests /\ specs = Specs(request)
    BY DEF Init
  <1>2. \A i \in Children : DOMAIN child[i] = Fields /\ child[i].at = "queued"
    BY <1>1 DEF Idle, Fields
  <1>3. QED BY <1>1, <1>2 DEF Inv, Stages

\* A child goes on without ending.
LEMMA GoesOn ==
  ASSUME Inv, NEW i \in Children, child[i].at # "ended",
         DOMAIN child' = Children, DOMAIN child'[i] = Fields, child'[i].at \in {"asking", "tools"},
         \A j \in Children \ {i} : child'[j] = child[j],
         UNCHANGED <<request, specs, results, merged>>
  PROVE  Inv'
  <1>1. Children' = Children /\ \A j \in Children, kind \in Kinds : Own(j, kind)' = Own(j, kind)
    BY DEF Children, Own
  <1>2. merged = <<>>
    BY DEF Inv, Ended
  <1>3. \A j \in Children : DOMAIN child'[j] = Fields /\ child'[j].at \in Stages
    BY DEF Inv, Stages
  <1>4. \A j \in Children : child'[j].at = "ended" => \E kind \in Kinds : results[j] = Own(j, kind)
    BY DEF Inv
  <1>5. QED BY <1>1, <1>2, <1>3, <1>4 DEF Inv

\* A child ends.
LEMMA EndsKeeps ==
  ASSUME Inv, NEW i \in Children, child[i].at # "ended", NEW k \in Kinds, Ends(i, k)
  PROVE  Inv'
  <1>1. /\ child' = [child EXCEPT ![i] = [Idle EXCEPT !.at = "ended"]]
        /\ results' = [results EXCEPT ![i] = Own(i, k)]
        /\ UNCHANGED <<request, specs, clock, merged>>
    BY DEF Ends, Record, Own
  <1>2. DOMAIN child' = Children /\ DOMAIN child'[i] = Fields /\ child'[i].at = "ended" /\ \A j \in Children \ {i} : child'[j] = child[j]
    BY <1>1 DEF Inv, Idle, Fields
  <1>3. DOMAIN results' = Children /\ results'[i] = Own(i, k) /\ \A j \in Children \ {i} : results'[j] = results[j]
    BY <1>1 DEF Inv
  <1>4. Children' = Children /\ \A j \in Children, kind \in Kinds : Own(j, kind)' = Own(j, kind)
    BY <1>1 DEF Children, Own
  <1>5. merged = <<>>
    BY DEF Inv, Ended
  <1>6. \A j \in Children : DOMAIN child'[j] = Fields /\ child'[j].at \in Stages
    BY <1>2 DEF Inv, Stages
  <1>7. \A j \in Children : child'[j].at = "ended" => \E kind \in Kinds : results'[j] = Own(j, kind)
    BY <1>2, <1>3 DEF Inv
  <1>8. QED BY <1>1, <1>2, <1>3, <1>4, <1>5, <1>6, <1>7 DEF Inv

LEMMA SpawnKeeps ==
  ASSUME Inv, Spawn
  PROVE  Inv'
  <1>1. PICK i \in Queued : child' = [child EXCEPT ![i] = [Idle EXCEPT !.at = "asking", !.round = 1]]
    BY DEF Spawn
  <1>2. i \in Children /\ child[i].at # "ended"
    BY DEF Queued
  <1>3. /\ DOMAIN child' = Children /\ DOMAIN child'[i] = Fields /\ child'[i].at = "asking"
        /\ \A j \in Children \ {i} : child'[j] = child[j]
    BY <1>1, <1>2 DEF Inv, Idle, Fields
  <1>4. QED BY <1>2, <1>3, GoesOn DEF Spawn

\* After a round the child ends or asks again.
LEMMA RoundKeeps ==
  ASSUME Inv, NEW i \in Children, child[i].at \in {"asking", "tools"}, NextRound(i)
  PROVE  Inv'
  <1>1. CASE \E k \in Kinds : Ends(i, k)
    BY <1>1, EndsKeeps
  <1>2. CASE /\ child' = [child EXCEPT ![i].at = "asking", ![i].round = @ + 1, ![i].calls = 0, ![i].busy = 0]
             /\ UNCHANGED <<request, specs, results, clock, merged>>
    <2>1. /\ DOMAIN child' = Children /\ DOMAIN child'[i] = Fields /\ child'[i].at \in {"asking", "tools"}
          /\ \A j \in Children \ {i} : child'[j] = child[j]
      BY <1>2 DEF Inv, Fields, Idle
    <2>2. QED BY <1>2, <2>1, GoesOn
  <1>3. QED BY <1>1, <1>2 DEF NextRound, Kinds

LEMMA ChildKeeps ==
  ASSUME Inv, NEW i \in Children, ChildStep(i)
  PROVE  Inv'
  <1>1. child[i].at \in {"asking", "tools"}
    BY DEF ChildStep, LLMFails, LLMAnswers, LLMCallsForbidden, LLMCalls, ToolEnds
  <1>2. CASE \E k \in Kinds : Ends(i, k)
    BY <1>1, <1>2, EndsKeeps
  <1>3. CASE NextRound(i)
    BY <1>1, <1>3, RoundKeeps
  <1>4. CASE LLMCalls(i)
    <2>1. PICK n \in 1..MaxCalls :
            child' = [child EXCEPT ![i].at = "tools", ![i].calls = n, ![i].busy = 0]
      BY <1>4 DEF LLMCalls
    <2>2. /\ DOMAIN child' = Children /\ DOMAIN child'[i] = Fields /\ child'[i].at = "tools"
          /\ \A j \in Children \ {i} : child'[j] = child[j]
      BY <2>1 DEF Inv, Fields, Idle
    <2>3. QED BY <1>1, <1>4, <2>2, GoesOn DEF LLMCalls
  <1>5. CASE /\ child' = [child EXCEPT ![i].calls = @ - 1, ![i].busy = 0]
             /\ UNCHANGED <<request, specs, results, clock, merged>>
    <2>1. /\ DOMAIN child' = Children /\ DOMAIN child'[i] = Fields /\ child'[i].at = child[i].at
          /\ \A j \in Children \ {i} : child'[j] = child[j]
      BY <1>5 DEF Inv, Fields, Idle
    <2>2. QED BY <1>1, <1>5, <2>1, GoesOn
  <1>6. LLMFails(i) \/ LLMAnswers(i) => \E k \in Kinds : Ends(i, k)
    BY DEF LLMFails, LLMAnswers, Kinds
  <1>7. LLMCallsForbidden(i) => NextRound(i)
    BY DEF LLMCallsForbidden
  <1>8. ToolEnds(i) =>
          \/ NextRound(i)
          \/ /\ child' = [child EXCEPT ![i].calls = @ - 1, ![i].busy = 0]
             /\ UNCHANGED <<request, specs, results, clock, merged>>
    BY DEF ToolEnds
  <1>9. QED BY <1>2, <1>3, <1>4, <1>5, <1>6, <1>7, <1>8 DEF ChildStep

LEMMA MergeKeeps ==
  ASSUME Inv, Merge
  PROVE  Inv'
  BY DEF Inv, Merge, Children, Ended, Own

\* Time changes the ages only.
LEMMA TickKeeps ==
  ASSUME Inv, Tick
  PROVE  Inv'
  <1>1. UNCHANGED <<request, specs, results, merged>> /\ Children' = Children
    BY DEF Tick, Children
  <1>2. DOMAIN child' = Children /\ \A i \in Children : DOMAIN child'[i] = Fields /\ child'[i].at = child[i].at
    <2>1. child' = [i \in Children |->
            IF i \in Running
            THEN [child[i] EXCEPT !.age = Lesser(@ + 1, Timeout),
                    !.life = @ + (IF \E k \in Running : Late(k) THEN 0 ELSE 1),
                    !.busy = IF child[i].at = "tools" THEN Lesser(@ + 1, ToolTime) ELSE @]
            ELSE child[i]]
      BY DEF Tick
    <2>2. QED BY <2>1 DEF Inv, Fields, Idle
  <1>3. Ended' = Ended
    BY <1>1, <1>2 DEF Ended
  <1>4. \A j \in Children, kind \in Kinds : Own(j, kind)' = Own(j, kind)
    BY <1>1 DEF Own
  <1>5. QED BY <1>1, <1>2, <1>3, <1>4 DEF Inv

-----------------------------------------------------------------------------

\* The strengthening is an invariant.
THEOREM InvAlways == Spec => []Inv
  <1>1. Inv /\ [Next]_vars => Inv'
    <2> SUFFICES ASSUME Inv, [Next]_vars PROVE Inv'
      OBVIOUS
    <2>1. CASE Spawn
      BY <2>1, SpawnKeeps
    <2>2. CASE \E i \in Children : ChildStep(i)
      BY <2>2, ChildKeeps
    <2>3. CASE Merge
      BY <2>3, MergeKeeps
    <2>4. CASE Tick
      BY <2>4, TickKeeps
    <2>5. CASE Returned \/ UNCHANGED vars
      BY <2>5 DEF Returned, vars, Inv, Children, Ended, Own
    <2>6. QED BY <2>1, <2>2, <2>3, <2>4, <2>5 DEF Next
  <1>2. QED BY <1>1, InvInit, PTL DEF Spec

-----------------------------------------------------------------------------
(* The selected tasks.                                                     *)

\* Every number up to its size is the rank of one member of a finite set.
LEMMA Ranked ==
  ASSUME NEW P \in SUBSET Nat, IsFiniteSet(P)
  PROVE  /\ Cardinality(P) \in Nat
         /\ \A n \in 1..Cardinality(P) : \E i \in P : Cardinality({j \in P : j <= i}) = n
         /\ \A i, k \in P : Cardinality({j \in P : j <= i}) < Cardinality({j \in P : j <= k}) => i < k
  <1> DEFINE Below(i) == {j \in P : j <= i}
             rank == [i \in P |-> Cardinality(Below(i))]
  <1>0. \A i \in P : i \in Nat OBVIOUS
  <1>1. Cardinality(P) \in Nat BY FS_CardinalityType
  <1>2. ASSUME NEW i \in P PROVE IsFiniteSet(Below(i)) /\ rank[i] \in 1..Cardinality(P)
    <2>1. Below(i) \in SUBSET P OBVIOUS
    <2>2. i \in Below(i) OBVIOUS
    <2> HIDE DEF Below
    <2>3. IsFiniteSet(Below(i)) /\ Cardinality(Below(i)) <= Cardinality(P) BY <2>1, FS_Subset
    <2>4. Cardinality(Below(i)) # 0 BY <2>2, <2>3, FS_EmptySet
    <2>5. Cardinality(Below(i)) \in Nat BY <2>3, FS_CardinalityType
    <2> QED BY <1>1, <2>3, <2>4, <2>5
  <1>3. ASSUME NEW i \in P, NEW k \in P, i < k PROVE rank[i] < rank[k]
    <2>0. ASSUME NEW j \in P, j <= i PROVE j <= k BY <1>0, <1>3, <2>0
    <2>1. Below(i) \in SUBSET Below(k) BY <2>0, Zenon
    <2>2. k \in Below(k) /\ k \notin Below(i) BY <1>3
    <2> HIDE DEF Below
    <2>3. Cardinality(Below(i)) <= Cardinality(Below(k)) BY <1>2, <2>1, FS_Subset
    <2>4. Cardinality(Below(i)) # Cardinality(Below(k)) BY <1>2, <2>1, <2>2, FS_Subset
    <2>5. Cardinality(Below(i)) \in Nat /\ Cardinality(Below(k)) \in Nat BY <1>2, FS_CardinalityType
    <2> QED BY <2>3, <2>4, <2>5
  <1>4. rank \in [P -> 1..Cardinality(P)] BY <1>2
  <1>5. \A i \in P : rank[i] = Cardinality({j \in P : j <= i}) /\ rank[i] \in Nat BY <1>2
  <1> HIDE DEF rank
  <1>t. \A m, n \in Nat : m < n \/ m = n \/ n < m OBVIOUS
  <1>u. \A m, n \in Nat : m < n => ~(n < m) /\ m # n OBVIOUS
  <1>6. ASSUME NEW i \in P, NEW k \in P, rank[i] = rank[k] PROVE i = k
    <2>1. i \in Nat /\ k \in Nat /\ rank[i] \in Nat /\ rank[k] \in Nat BY <1>0, <1>5
    <2> QED BY <1>3, <1>6, <1>t, <1>u, <2>1, Zenon
  <1>7. rank \in Injection(P, 1..Cardinality(P)) BY <1>4, <1>6 DEF Injection, IsInjective
  <1>8. IsFiniteSet(1..Cardinality(P)) /\ Cardinality(1..Cardinality(P)) = Cardinality(P)
    BY <1>1, FS_Interval
  <1>9. rank \in Surjection(P, 1..Cardinality(P)) BY <1>7, <1>8, FS_Injection
  <1>10. \A n \in 1..Cardinality(P) : \E i \in P : rank[i] = n BY <1>9 DEF Surjection
  <1>11. ASSUME NEW i \in P, NEW k \in P, rank[i] < rank[k] PROVE i < k
    <2>1. i \in Nat /\ k \in Nat /\ rank[i] \in Nat /\ rank[k] \in Nat BY <1>0, <1>5
    <2> QED BY <1>3, <1>11, <1>t, <1>u, <2>1, Zenon
  <1> QED BY <1>1, <1>5, <1>10, <1>11

\* Child n works on the n-th task that is not blank, and there are as many children as
\* there are such tasks, up to MaxChildren.
LEMMA Selection ==
  ASSUME NEW r \in Requests
  PROVE  /\ Lesser(Cardinality(Named(r)), MaxChildren) \in Nat
         /\ DOMAIN Specs(r) = 1..Lesser(Cardinality(Named(r)), MaxChildren)
         /\ Specs(r) \in Seq([task : STRING, index : Nat])
         /\ \A n \in DOMAIN Specs(r) :
              /\ Specs(r)[n].index + 1 \in Named(r) /\ Rank(r, Specs(r)[n].index + 1) = n
              /\ Named(r) = DOMAIN r => Specs(r)[n].index + 1 = n
  <1> DEFINE Place(n) == CHOOSE i \in Named(r) : Rank(r, i) = n
             kept == {n \in 1..Cardinality(Named(r)) : n <= MaxChildren}
  <1>1. r \in Seq(STRING) /\ Len(r) \in Nat /\ DOMAIN r = 1..Len(r) BY SubagentsAssumption
  <1>2. Named(r) \in SUBSET (1..Len(r)) /\ Named(r) \in SUBSET Nat
    <2>1. Named(r) \subseteq 1..Len(r) BY <1>1, Zenon DEF Named
    <2>2. 1..Len(r) \subseteq Nat BY <1>1
    <2> QED BY <2>1, <2>2, Zenon
  <1>3. IsFiniteSet(Named(r))
    <2>1. IsFiniteSet(1..Len(r)) BY <1>1, FS_Interval
    <2> QED BY <1>2, <2>1, FS_Subset
  <1>4. \A i \in Named(r) : r[i] \in STRING /\ i \in Nat /\ i - 1 \in Nat
    <2>1. \A i \in 1..Len(r) : r[i] \in STRING /\ i \in Nat /\ i - 1 \in Nat BY <1>1
    <2> QED BY <1>2, <2>1
  <1>5. Specs(r) = [n \in kept |-> [task |-> r[Place(n)], index |-> Place(n) - 1]]
    BY DEF Specs
  <1>6. /\ Cardinality(Named(r)) \in Nat
        /\ \A n \in 1..Cardinality(Named(r)) : \E i \in Named(r) : Rank(r, i) = n
    <2>1. /\ Cardinality(Named(r)) \in Nat
          /\ \A n \in 1..Cardinality(Named(r)) :
               \E i \in Named(r) : Cardinality({j \in Named(r) : j <= i}) = n
      BY <1>2, <1>3, Ranked
    <2> QED BY <2>1, Zenon DEF Rank
  <1>7. ASSUME NEW n \in kept
        PROVE  Place(n) \in Named(r) /\ Rank(r, Place(n)) = n
    BY <1>6
  <1> HIDE DEF Place
  <1>8. MaxChildren \in Nat BY SubagentsAssumption
  <1>9. /\ Lesser(Cardinality(Named(r)), MaxChildren) \in Nat
        /\ kept = 1..Lesser(Cardinality(Named(r)), MaxChildren)
    BY <1>6, <1>8 DEF Lesser
  <1>10. \A n \in kept : [task |-> r[Place(n)], index |-> Place(n) - 1] \in [task : STRING, index : Nat]
    BY <1>4, <1>7
  <1> HIDE DEF kept
  <1>11. Specs(r) \in Seq([task : STRING, index : Nat])
    <2>1. PICK m \in Nat : kept = 1..m BY <1>9
    <2>2. Specs(r) \in [1..m -> [task : STRING, index : Nat]] BY <1>5, <1>10, <2>1
    <2> QED BY <2>2, SeqDef
  <1>12. ASSUME NEW n \in kept
         PROVE  Specs(r)[n].index + 1 = Place(n)
    <2>1. Place(n) \in Nat BY <1>4, <1>7
    <2>2. Specs(r)[n].index = Place(n) - 1 BY <1>5
    <2> QED BY <2>1, <2>2
  <1>13. ASSUME NEW n \in kept, Named(r) = DOMAIN r
         PROVE  Place(n) = n
    <2>1. Place(n) \in Nat /\ Place(n) >= 1 /\ Place(n) <= Len(r)
      BY <1>1, <1>2, <1>7
    <2>2. {j \in Named(r) : j <= Place(n)} = 1..Place(n)
      BY <1>1, <1>13, <2>1
    <2>3. Cardinality(1..Place(n)) = Place(n)
      BY <2>1, FS_Interval
    <2> QED BY <1>7, <2>2, <2>3 DEF Rank
  <1>14. DOMAIN Specs(r) = kept BY <1>5
  <1> QED BY <1>7, <1>9, <1>11, <1>12, <1>13, <1>14

\* What is printed under the number n answers the n-th task that is not blank, however
\* the children interleave and end.
THEOREM ResultsStayInPlace == Spec => []ResultsInPlace
  <1>1. Inv => ResultsInPlace
    <2> SUFFICES ASSUME Inv, merged # <<>>
                 PROVE  /\ DOMAIN merged = 1..Lesser(Cardinality(Named(request)), MaxChildren)
                        /\ \A n \in DOMAIN merged :
                             /\ merged[n].kind # "none" /\ merged[n].of \in Named(request)
                             /\ Rank(request, merged[n].of) = n
                             /\ Named(request) = DOMAIN request => merged[n].of = n
      BY DEF ResultsInPlace
    <2>1. merged = results /\ DOMAIN results = Children /\ Ended = Children
      BY DEF Inv
    <2>2. \A i \in Children : \E kind \in Kinds : merged[i] = Own(i, kind)
      BY <2>1 DEF Inv, Ended
    <2>3. \A i \in Children : merged[i].kind # "none" /\ merged[i].of = specs[i].index + 1
      <3> SUFFICES ASSUME NEW i \in Children
                   PROVE  merged[i].kind # "none" /\ merged[i].of = specs[i].index + 1
        OBVIOUS
      <3>1. PICK kind \in Kinds : merged[i] = Own(i, kind)
        BY <2>2
      <3>2. kind # "none"
        BY DEF Kinds
      <3>3. QED BY <3>1, <3>2 DEF Own
    <2>4. request \in Requests /\ specs = Specs(request)
      BY DEF Inv
    <2>5. /\ Children = 1..Lesser(Cardinality(Named(request)), MaxChildren)
          /\ \A n \in Children :
               /\ specs[n].index + 1 \in Named(request) /\ Rank(request, specs[n].index + 1) = n
               /\ Named(request) = DOMAIN request => specs[n].index + 1 = n
      BY <2>4, Selection DEF Children
    <2>6. QED BY <2>1, <2>3, <2>5
  <1>2. QED BY <1>1, InvAlways, PTL

-----------------------------------------------------------------------------
(* Arithmetic.                                                             *)

LEMMA TimesGrows ==
  ASSUME NEW a \in Nat, NEW b \in Nat, NEW l \in Nat, a <= b
  PROVE  a * l <= b * l
  <1>1. PICK d \in Nat : b = a + d
    BY b - a \in Nat
  <1>2. b * l = a * l + d * l
    BY <1>1
  <1>3. d * l \in Nat /\ a * l \in Nat
    OBVIOUS
  <1>4. QED BY <1>2, <1>3

LEMMA TimesBelow ==
  ASSUME NEW a \in Nat, NEW b \in Nat, NEW l \in Nat, a * l < (b + 1) * l
  PROVE  a <= b
  <1>1. ASSUME b + 1 <= a PROVE FALSE
    <2>1. (b + 1) * l <= a * l
      BY <1>1, TimesGrows
    <2>2. (b + 1) * l \in Nat /\ a * l \in Nat
      OBVIOUS
    <2>3. QED BY <2>1, <2>2
  <1>2. QED BY <1>1

LEMMA Divided ==
  ASSUME NEW n \in Nat
  PROVE  n \div Limit \in Nat /\ (n \div Limit) * Limit <= n /\ n < (n \div Limit + 1) * Limit
  <1>1. Limit \in Nat /\ Limit > 0
    BY SubagentsAssumption
  <1>2. QED BY <1>1

\* The wave that child i runs in when every life is as long as it may be.
Wave(i) == (i - 1) \div Limit

LEMMA WaveWithin ==
  ASSUME NEW n \in Nat, NEW i \in 1..n
  PROVE  Wave(i) \in Nat /\ Wave(i) + 1 <= (n + Limit - 1) \div Limit
  <1>0. Limit \in Nat /\ Limit > 0
    BY SubagentsAssumption
  <1> DEFINE w == (i - 1) \div Limit
             v == (n + Limit - 1) \div Limit
  <1>1. i - 1 \in Nat /\ i <= n
    OBVIOUS
  <1>2. w \in Nat /\ w * Limit <= i - 1
    BY <1>1, Divided
  <1>3. n + Limit - 1 \in Nat
    BY <1>0
  <1>4. v \in Nat /\ n + Limit - 1 < (v + 1) * Limit
    BY <1>3, Divided
  <1> HIDE DEF w, v
  <1>5. (w + 1) * Limit <= n + Limit - 1
    BY <1>0, <1>1, <1>2
  <1>6. (w + 1) * Limit < (v + 1) * Limit
    <2>1. (w + 1) * Limit \in Nat /\ (v + 1) * Limit \in Nat
      BY <1>0, <1>2, <1>4
    <2>2. QED BY <1>3, <1>4, <1>5, <2>1
  <1>7. w + 1 <= v
    BY <1>0, <1>2, <1>4, <1>6, TimesBelow
  <1>8. QED BY <1>2, <1>7 DEF w, v, Wave

-----------------------------------------------------------------------------
(* How long spawn_subagents takes.                                         *)

LEMMA Numbers ==
  ASSUME Inv
  PROVE  Len(specs) \in Nat /\ Children = 1..Len(specs)
  <1>1. request \in Requests /\ specs = Specs(request)
    BY DEF Inv
  <1>2. specs \in Seq([task : STRING, index : Nat])
    BY <1>1, Selection
  <1>3. QED BY <1>2, LenProperties DEF Children

LEMMA LifeTyped ==
  /\ Limit \in Nat \ {0} /\ MaxRounds \in Nat /\ Timeout \in Nat /\ MaxCalls \in Nat /\ ToolTime \in Nat
  /\ ChildLife \in Nat /\ Timeout <= ChildLife
  /\ \A n \in 1..MaxCalls : n \in Nat /\ n * ToolTime <= MaxCalls * ToolTime
  <1>1. /\ Limit \in Nat \ {0} /\ MaxRounds \in Nat /\ Timeout \in Nat /\ MaxCalls \in Nat /\ ToolTime \in Nat
    BY SubagentsAssumption
  <1>2. MaxCalls * ToolTime \in Nat
    BY <1>1
  <1>3. ChildLife \in Nat /\ Timeout <= ChildLife
    BY <1>1, <1>2 DEF ChildLife
  <1>4. \A n \in 1..MaxCalls : n \in Nat /\ n * ToolTime <= MaxCalls * ToolTime
    BY <1>1, TimesGrows
  <1>5. QED BY <1>1, <1>3, <1>4

LEMMA WaveTyped ==
  ASSUME Inv, NEW i \in Children
  PROVE  /\ Wave(i) \in Nat /\ Wave(i) + 1 <= Waves
         /\ Wave(i) * ChildLife \in Nat /\ Wave(i) * Limit \in Nat
         /\ (Wave(i) + 1) * ChildLife = Wave(i) * ChildLife + ChildLife
  <1>1. Len(specs) \in Nat /\ i \in 1..Len(specs)
    BY Numbers
  <1>2. Wave(i) \in Nat /\ Wave(i) + 1 <= Waves
    BY <1>1, WaveWithin DEF Waves
  <1>3. ChildLife \in Nat /\ Limit \in Nat
    BY LifeTyped
  <1>4. \A a, b \in Nat : a * b \in Nat /\ (a + 1) * b = a * b + b
    OBVIOUS
  <1>5. QED BY <1>2, <1>3, <1>4

\* How far the counted life of a child has got: what is left of a tool round fits into
\* it.  Before the deadline no more is counted than the child is old.
Alive(c) ==
  /\ c.age \in Nat /\ c.life \in Nat /\ c.busy \in Nat /\ c.calls \in Nat
  /\ c.age < Timeout => c.life <= c.age
  /\ c.at = "asking" => c.life <= Timeout
  /\ c.at = "tools" => /\ c.calls >= 1 /\ c.busy <= ToolTime
                       /\ c.life + c.calls * ToolTime <= ChildLife + c.busy

\* A child is started no later than the end of the waves before its own.
Started(i) ==
  /\ child[i].at \in {"asking", "tools"} => clock <= Wave(i) * ChildLife + child[i].life
  /\ child[i].at = "queued" => clock <= Wave(i) * ChildLife

\* Children are started in the order of the tasks.
InOrder == \A i, j \in Children : i < j /\ child[i].at = "queued" => child[j].at = "queued"

TimeInv ==
  /\ clock \in Nat
  /\ \A i \in Children : Alive(child[i]) /\ Started(i)
  /\ InOrder
  /\ SpawnInTime

\* A step of one child, which is not queued after it, takes no time.
LEMMA ChildTime ==
  ASSUME Inv, TimeInv, NEW i \in Children, UNCHANGED <<request, specs, clock>>, DOMAIN child' = Children,
         \A j \in Children \ {i} : child'[j] = child[j],
         Alive(child'[i]), child'[i].at \in Stages \ {"queued"},
         child'[i].at \in {"asking", "tools"} => clock <= Wave(i) * ChildLife + child'[i].life,
         \A j \in Children : j < i => child[j].at # "queued"
  PROVE  TimeInv'
  <1>1. Children' = Children /\ (SpawnInTime => SpawnInTime')
    BY DEF Children, SpawnInTime, Waves, ChildLife
  <1>2. \A j \in Children : Alive(child'[j])
    BY DEF TimeInv
  <1>3. \A j \in Children : Started(j)'
    BY DEF TimeInv, Started, Wave, ChildLife, Stages
  <1>4. InOrder'
    BY <1>1 DEF TimeInv, InOrder
  <1>5. QED BY <1>1, <1>2, <1>3, <1>4 DEF TimeInv, Alive, ChildLife

\* One of a running child.
LEMMA RunningTime ==
  ASSUME Inv, TimeInv, NEW i \in Children, child[i].at \in {"asking", "tools"},
         UNCHANGED <<request, specs, clock>>, DOMAIN child' = Children,
         \A j \in Children \ {i} : child'[j] = child[j],
         Alive(child'[i]), child'[i].at \in Stages \ {"queued"},
         child'[i].at = "ended" \/ child'[i].life = child[i].life
  PROVE  TimeInv'
  <1>1. \A j \in Children : j < i => child[j].at # "queued"
    BY DEF TimeInv, InOrder
  <1>2. clock <= Wave(i) * ChildLife + child[i].life
    BY DEF TimeInv, Started
  <1>3. QED BY <1>1, <1>2, ChildTime

LEMMA EndsTime ==
  ASSUME Inv, TimeInv, NEW i \in Children, child[i].at \in {"asking", "tools"}, NEW k, Ends(i, k)
  PROVE  TimeInv'
  <1>1. /\ child' = [child EXCEPT ![i] = [Idle EXCEPT !.at = "ended"]]
        /\ UNCHANGED <<request, specs, clock>>
    BY DEF Ends
  <1>2. /\ DOMAIN child' = Children /\ \A j \in Children \ {i} : child'[j] = child[j]
        /\ child'[i] = [Idle EXCEPT !.at = "ended"]
    BY <1>1 DEF Inv
  <1>3. child'[i].at = "ended" /\ Alive(child'[i])
    BY <1>2 DEF Idle, Alive
  <1>4. QED BY <1>1, <1>2, <1>3, RunningTime DEF Stages

LEMMA RoundTime ==
  ASSUME Inv, TimeInv, NEW i \in Children, child[i].at \in {"asking", "tools"}, NextRound(i)
  PROVE  TimeInv'
  <1>1. CASE \E k \in Kinds : Ends(i, k)
    BY <1>1, EndsTime
  <1>2. CASE /\ child' = [child EXCEPT ![i].at = "asking", ![i].round = @ + 1, ![i].calls = 0, ![i].busy = 0]
             /\ UNCHANGED <<request, specs, results, clock, merged>> /\ ~Expired(i)
    <2>1. /\ DOMAIN child' = Children /\ child'[i].at = "asking" /\ child'[i].age = child[i].age /\ child'[i].life = child[i].life
          /\ child'[i].calls = 0 /\ child'[i].busy = 0
          /\ \A j \in Children \ {i} : child'[j] = child[j]
      BY <1>2 DEF Inv, Fields, Idle
    <2>2. Alive(child[i])
      BY DEF TimeInv
    <2>3. child[i].life <= Timeout
      BY <1>2, <2>2, LifeTyped DEF Expired, Alive
    <2>4. Alive(child'[i])
      BY <2>1, <2>2, <2>3 DEF Alive
    <2>5. QED BY <1>2, <2>1, <2>4, RunningTime DEF Stages
  <1>3. QED BY <1>1, <1>2 DEF NextRound, Kinds

LEMMA ChildStepTime ==
  ASSUME Inv, TimeInv, NEW i \in Children, ChildStep(i)
  PROVE  TimeInv'
  <1>1. child[i].at \in {"asking", "tools"}
    BY DEF ChildStep, LLMFails, LLMAnswers, LLMCallsForbidden, LLMCalls, ToolEnds
  <1>2. Alive(child[i])
    BY DEF TimeInv
  <1>3. CASE LLMCalls(i)
    <2>1. PICK n \in 1..MaxCalls :
            child' = [child EXCEPT ![i].at = "tools", ![i].calls = n, ![i].busy = 0]
      BY <1>3 DEF LLMCalls
    <2>2. /\ DOMAIN child' = Children /\ child'[i].at = "tools" /\ child'[i].age = child[i].age /\ child'[i].life = child[i].life
          /\ child'[i].calls = n /\ child'[i].busy = 0
          /\ \A j \in Children \ {i} : child'[j] = child[j]
      BY <2>1 DEF Inv, Fields, Idle
    <2>3. child[i].life \in Nat /\ child[i].life <= Timeout
      BY <1>2, <1>3 DEF Alive, LLMCalls
    <2>4. n \in Nat /\ n >= 1 /\ n * ToolTime <= MaxCalls * ToolTime
          /\ n * ToolTime \in Nat /\ MaxCalls * ToolTime \in Nat
      BY LifeTyped
    <2>5. child[i].life + n * ToolTime <= ChildLife + 0
      BY <2>3, <2>4, LifeTyped DEF ChildLife
    <2>6. Alive(child'[i])
      BY <1>2, <2>2, <2>3, <2>4, <2>5, LifeTyped DEF Alive
    <2>7. QED BY <1>1, <1>3, <2>2, <2>6, RunningTime DEF LLMCalls, Stages
  <1>4. CASE /\ child[i].at = "tools" /\ child[i].calls # 1
             /\ child' = [child EXCEPT ![i].calls = @ - 1, ![i].busy = 0]
             /\ UNCHANGED <<request, specs, results, clock, merged>>
    <2>1. /\ DOMAIN child' = Children /\ child'[i].at = "tools" /\ child'[i].age = child[i].age /\ child'[i].life = child[i].life
          /\ child'[i].calls = child[i].calls - 1 /\ child'[i].busy = 0
          /\ \A j \in Children \ {i} : child'[j] = child[j]
      BY <1>4 DEF Inv, Fields, Idle
    <2>2. PICK a \in Nat, c \in Nat, b \in Nat : a = child[i].life /\ c = child[i].calls /\ b = child[i].busy
      BY <1>2 DEF Alive
    <2>3. c >= 1 /\ c # 1 /\ b <= ToolTime /\ a + c * ToolTime <= ChildLife + b
      BY <1>2, <1>4, <2>2 DEF Alive
    <2>4. (c - 1) * ToolTime = c * ToolTime - ToolTime /\ c * ToolTime \in Nat /\ c - 1 \in Nat /\ c - 1 >= 1
      BY <2>3, LifeTyped
    <2>5. a + (c - 1) * ToolTime <= ChildLife + 0
      BY <2>3, <2>4, LifeTyped
    <2>6. Alive(child'[i])
      BY <1>2, <2>1, <2>2, <2>4, <2>5, LifeTyped DEF Alive
    <2>7. QED BY <1>1, <1>4, <2>1, <2>6, RunningTime DEF Stages
  <1>5. LLMFails(i) \/ LLMAnswers(i) => \E k \in Kinds : Ends(i, k)
    BY DEF LLMFails, LLMAnswers, Kinds
  <1>6. ToolEnds(i) =>
          \/ NextRound(i)
          \/ /\ child[i].at = "tools" /\ child[i].calls # 1
             /\ child' = [child EXCEPT ![i].calls = @ - 1, ![i].busy = 0]
             /\ UNCHANGED <<request, specs, results, clock, merged>>
    BY DEF ToolEnds
  <1>7. QED BY <1>1, <1>3, <1>4, <1>5, <1>6, EndsTime, RoundTime DEF ChildStep, LLMCallsForbidden

LEMMA SpawnTime ==
  ASSUME Inv, TimeInv, Spawn
  PROVE  TimeInv'
  <1>1. PICK i \in Queued :
          /\ \A j \in Queued : i <= j
          /\ child' = [child EXCEPT ![i] = [Idle EXCEPT !.at = "asking", !.round = 1]]
    BY DEF Spawn
  <1>2. i \in Children /\ child[i].at = "queued" /\ \A j \in Children : child[j].at = "queued" => i <= j
    BY <1>1 DEF Queued
  <1>3. /\ DOMAIN child' = Children /\ child'[i] = [Idle EXCEPT !.at = "asking", !.round = 1]
        /\ \A j \in Children \ {i} : child'[j] = child[j]
    BY <1>1, <1>2 DEF Inv
  <1>4. child'[i].at = "asking" /\ child'[i].age = 0 /\ child'[i].life = 0 /\ child'[i].calls = 0 /\ child'[i].busy = 0
    BY <1>3 DEF Idle
  <1>5. Alive(child'[i])
    BY <1>4, LifeTyped DEF Alive
  <1>6. clock <= Wave(i) * ChildLife + 0
    <2>1. clock <= Wave(i) * ChildLife /\ clock \in Nat
      BY <1>2 DEF TimeInv, Started
    <2>2. Wave(i) * ChildLife \in Nat
      BY <1>2, WaveTyped
    <2>3. QED BY <2>1, <2>2
  <1>7. \A j \in Children : j < i => child[j].at # "queued"
    <2>1. \A j \in Children : j \in Nat
      BY Numbers
    <2>2. QED BY <1>2, <2>1
  <1>8. UNCHANGED <<request, specs, clock>>
    BY DEF Spawn
  <1>9. QED BY <1>2, <1>3, <1>4, <1>5, <1>6, <1>7, <1>8, ChildTime DEF Stages

\* While no tool is late, a child that waits has some life left.
LEMMA LifeLeft ==
  ASSUME TimeInv, NEW i \in Running, child[i].at = "asking" => ~Expired(i), ~Late(i)
  PROVE  child[i].life \in Nat /\ child[i].life < ChildLife
  <1>1. i \in Children /\ child[i].at \in {"asking", "tools"}
    BY DEF Running
  <1>2. Alive(child[i])
    BY <1>1 DEF TimeInv
  <1>3. CASE child[i].at = "asking"
    <2>1. child[i].life \in Nat /\ child[i].age \in Nat /\ ~(child[i].age >= Timeout) /\ (child[i].age < Timeout => child[i].life <= child[i].age)
      BY <1>2, <1>3 DEF Alive, Expired
    <2>2. QED BY <2>1, LifeTyped
  <1>4. CASE child[i].at = "tools"
    <2>1. PICK a \in Nat, c \in Nat, b \in Nat : a = child[i].life /\ c = child[i].calls /\ b = child[i].busy
      BY <1>2 DEF Alive
    <2>2. c >= 1 /\ b < ToolTime /\ a + c * ToolTime <= ChildLife + b
      BY <1>2, <1>4, <2>1, LifeTyped DEF Alive, Late
    <2>3. 1 * ToolTime <= c * ToolTime /\ c * ToolTime \in Nat
      BY <2>2, TimesGrows, LifeTyped
    <2>4. a < ChildLife
      BY <2>2, <2>3, LifeTyped
    <2>5. QED BY <2>1, <2>4
  <1>5. QED BY <1>1, <1>3, <1>4

\* A queued child is waited for only while the waves before its own are not over: had
\* they taken all their time, only children of its own wave would still run, and they
\* would leave it a slot.
LEMMA QueuedHasTime ==
  ASSUME Inv, TimeInv, Tick, \A j \in Running : ~Late(j), NEW i \in Queued
  PROVE  clock + 1 <= Wave(i) * ChildLife
  <1>1. i \in Children /\ child[i].at = "queued" /\ i \in 1..Len(specs)
    BY Numbers DEF Queued
  <1>2. clock \in Nat /\ clock <= Wave(i) * ChildLife
    BY <1>1 DEF TimeInv, Started
  <1>3. Len(specs) \in Nat /\ Children = 1..Len(specs) /\ i \in Nat /\ i >= 1 /\ i - 1 \in Nat
    BY <1>1, Numbers
  <1>4. Wave(i) \in Nat /\ Wave(i) * ChildLife \in Nat /\ Wave(i) * Limit \in Nat
    BY <1>1, WaveTyped
  <1> SUFFICES ASSUME clock = Wave(i) * ChildLife PROVE FALSE
    BY <1>2, <1>4
  <1>5. ASSUME NEW j \in Running PROVE j \in (Wave(i) * Limit + 1)..(i - 1)
    <2>1. j \in Children /\ child[j].at \in {"asking", "tools"} /\ j \in Nat /\ j >= 1
      BY <1>3 DEF Running
    <2>2. ~(i < j) /\ j # i
      BY <1>1, <2>1 DEF TimeInv, InOrder
    <2>3. j <= i - 1
      BY <1>3, <2>1, <2>2
    <2>4. (child[j].at = "asking" => ~Expired(j)) /\ ~Late(j)
      BY DEF Tick
    <2>5. child[j].life \in Nat /\ child[j].life < ChildLife
      BY <2>4, LifeLeft
    <2>6. clock <= Wave(j) * ChildLife + child[j].life
      BY <2>1 DEF TimeInv, Started
    <2>7. Wave(j) \in Nat /\ Wave(j) * ChildLife \in Nat /\ (Wave(j) + 1) * ChildLife = Wave(j) * ChildLife + ChildLife
      BY <2>1, WaveTyped
    <2>8. Wave(i) * ChildLife < (Wave(j) + 1) * ChildLife
      BY <1>2, <1>4, <2>5, <2>6, <2>7, LifeTyped
    <2>9. Wave(i) <= Wave(j)
      BY <1>4, <2>7, <2>8, TimesBelow, LifeTyped
    <2>10. Wave(i) * Limit <= Wave(j) * Limit
      BY <1>4, <2>7, <2>9, TimesGrows, LifeTyped
    <2>11. Wave(j) * Limit <= j - 1
      <3>1. j - 1 \in Nat
        BY <2>1
      <3>2. QED BY <3>1, Divided DEF Wave
    <2>12. Wave(j) * Limit \in Nat
      BY <2>7, LifeTyped
    <2>13. Wave(i) * Limit + 1 <= j
      BY <1>4, <2>1, <2>10, <2>11, <2>12
    <2>14. QED BY <1>3, <1>4, <2>1, <2>3, <2>13
  <1>6. i - 1 < (Wave(i) + 1) * Limit
    BY <1>3, Divided DEF Wave
  <1>7. Cardinality(Running) < Limit
    <2> DEFINE lo == Wave(i) * Limit + 1
               rest == lo..(i - 1)
    <2>1. lo \in Int /\ i - 1 \in Int
      BY <1>3, <1>4
    <2>2. (Wave(i) + 1) * Limit = Wave(i) * Limit + Limit
      BY <1>4, LifeTyped
    <2>3. Running \in SUBSET rest
      BY <1>5
    <2>4. IsFiniteSet(rest) /\ Cardinality(rest) = IF lo > i - 1 THEN 0 ELSE i - 1 - lo + 1
      BY <2>1, FS_Interval
    <2>5. Cardinality(rest) < Limit
      BY <1>3, <1>4, <1>6, <2>2, <2>4, LifeTyped
    <2> HIDE DEF rest
    <2>6. IsFiniteSet(Running) /\ Cardinality(Running) <= Cardinality(rest)
      BY <2>3, <2>4, FS_Subset
    <2>7. Cardinality(Running) \in Nat /\ Cardinality(rest) \in Nat
      BY <2>4, <2>6, FS_CardinalityType
    <2>8. QED BY <2>5, <2>6, <2>7, LifeTyped
  <1>8. QED BY <1>7 DEF Tick, SlotFree

\* What a tick does to a child, c being what it counts.
LEMMA TickAlive ==
  ASSUME Inv, TimeInv, NEW i \in Children, child[i].at \in {"asking", "tools"},
         child[i].at = "asking" => ~Expired(i),
         NEW n \in {0, 1}, n = 1 => ~Late(i), NEW k, k.at = child[i].at, k.calls = child[i].calls,
         k.age = Lesser(child[i].age + 1, Timeout), k.life = child[i].life + n,
         k.busy = (IF child[i].at = "tools" THEN Lesser(child[i].busy + 1, ToolTime) ELSE child[i].busy)
  PROVE  Alive(k)
  <1>1. Alive(child[i])
    BY DEF TimeInv
  <1>2. PICK g \in Nat, l \in Nat, c \in Nat, b \in Nat :
          g = child[i].age /\ l = child[i].life /\ c = child[i].calls /\ b = child[i].busy
    BY <1>1 DEF Alive
  <1>3. (g < Timeout => l <= g) /\ Timeout \in Nat /\ ToolTime \in Nat /\ ChildLife \in Nat
    BY <1>1, <1>2, LifeTyped DEF Alive
  <1>4. k.age \in Nat /\ k.life \in Nat /\ (k.age < Timeout => k.life <= k.age)
    BY <1>2, <1>3 DEF Lesser
  <1>5. CASE child[i].at = "asking"
    <2>1. g < Timeout
      BY <1>2, <1>3, <1>5 DEF Expired
    <2>2. k.life <= Timeout
      BY <1>2, <1>3, <2>1
    <2>3. k.busy = b /\ k.calls = c /\ k.at = "asking"
      BY <1>2, <1>5
    <2>4. QED BY <1>4, <2>2, <2>3 DEF Alive
  <1>6. CASE child[i].at = "tools"
    <2>1. b <= ToolTime /\ c >= 1 /\ l + c * ToolTime <= ChildLife + b
      BY <1>1, <1>2, <1>6 DEF Alive
    <2>2. c * ToolTime \in Nat
      BY <1>3
    <2>3. n = 1 => b < ToolTime
      BY <1>2, <1>3, <1>6, <2>1 DEF Late
    <2>4. k.busy = Lesser(b + 1, ToolTime)
      BY <1>2, <1>6
    <2>5. k.busy \in Nat /\ k.busy <= ToolTime /\ k.busy >= b /\ (n = 1 => k.busy = b + 1)
      BY <1>3, <2>1, <2>3, <2>4 DEF Lesser
    <2>6. l + n + c * ToolTime <= ChildLife + k.busy
      BY <1>3, <2>1, <2>2, <2>5
    <2>7. k.calls = c /\ k.at = "tools" /\ k.life = l + n
      BY <1>2, <1>6
    <2>8. QED BY <1>4, <2>1, <2>5, <2>6, <2>7 DEF Alive
  <1>7. QED BY <1>5, <1>6

LEMMA TickTime ==
  ASSUME Inv, TimeInv, Tick
  PROVE  TimeInv'
  <1> DEFINE counted == IF \E i \in Running : Late(i) THEN 0 ELSE 1
  <1>1. clock \in Nat /\ clock' = clock + counted /\ Children' = Children /\ specs' = specs /\ counted \in {0, 1}
    BY DEF Tick, TimeInv, Children
  <1>2. counted = 1 => \A i \in Running : ~Late(i)
    OBVIOUS
  <1>3. ASSUME NEW i \in Running
        PROVE  /\ child'[i].at = child[i].at /\ child'[i].age = Lesser(child[i].age + 1, Timeout)
               /\ child'[i].life = child[i].life + counted /\ child'[i].calls = child[i].calls
               /\ child'[i].busy = (IF child[i].at = "tools" THEN Lesser(child[i].busy + 1, ToolTime) ELSE child[i].busy)
    <2>1. i \in Children /\ DOMAIN child[i] = Fields
      BY DEF Running, Inv
    <2>2. child'[i] = [child[i] EXCEPT !.age = Lesser(@ + 1, Timeout), !.life = @ + counted,
                        !.busy = IF child[i].at = "tools" THEN Lesser(@ + 1, ToolTime) ELSE @]
      BY <2>1 DEF Tick
    <2> HIDE DEF counted
    <2>3. QED BY <2>1, <2>2 DEF Fields, Idle
  <1>4. \A i \in Children \ Running : child'[i] = child[i]
    BY DEF Tick
  <1> HIDE DEF counted
  <1>5. ASSUME NEW i \in Running PROVE Alive(child'[i]) /\ Started(i)'
    <2>1. i \in Children /\ child[i].at \in {"asking", "tools"} /\ (child[i].at = "asking" => ~Expired(i)) /\ Alive(child[i])
      BY DEF Running, Tick, TimeInv
    <2>2. counted = 1 => ~Late(i)
      BY <1>2
    <2>3. Alive(child'[i])
      BY <1>1, <1>3, <2>1, <2>2, TickAlive
    <2>4. Started(i)'
      <3>1. clock <= Wave(i) * ChildLife + child[i].life /\ child[i].life \in Nat
        BY <2>1 DEF TimeInv, Started, Alive
      <3>2. Wave(i) * ChildLife \in Nat
        BY <2>1, WaveTyped
      <3>3. clock' <= Wave(i) * ChildLife + child'[i].life
        BY <1>1, <1>3, <3>1, <3>2
      <3>4. child'[i].at # "queued"
        BY <1>3, <2>1
      <3>5. QED BY <3>3, <3>4 DEF Started, Wave, ChildLife
    <2>5. QED BY <2>3, <2>4
  <1>6. ASSUME NEW i \in Children \ Running PROVE Alive(child'[i]) /\ Started(i)'
    <2>1. child'[i] = child[i] /\ child[i].at \notin {"asking", "tools"}
      BY <1>4 DEF Running
    <2>2. ASSUME child[i].at = "queued" PROVE clock' <= Wave(i) * ChildLife
      <3>1. CASE counted = 0
        BY <1>1, <2>2, <3>1 DEF TimeInv, Started
      <3>2. CASE counted = 1
        BY <1>1, <1>2, <2>2, <3>2, QueuedHasTime DEF Queued
      <3>3. QED BY <1>1, <3>1, <3>2
    <2>3. QED BY <2>1, <2>2 DEF TimeInv, Started, Wave, ChildLife
  <1>7. \A i \in Children : child'[i].at = child[i].at
    BY <1>3, <1>4
  <1>8. InOrder'
    BY <1>1, <1>7 DEF TimeInv, InOrder
  <1>9. ASSUME counted = 1 PROVE clock + 1 <= Waves * ChildLife
    <2>1. PICK j \in Running : child[j].at = "asking" => ~Expired(j)
      BY DEF Tick
    <2>2. j \in Children /\ child[j].at \in {"asking", "tools"} /\ child[j].life \in Nat /\ child[j].life < ChildLife
      BY <1>2, <1>9, <2>1, LifeLeft DEF Running
    <2>3. clock <= Wave(j) * ChildLife + child[j].life
      BY <2>2 DEF TimeInv, Started
    <2>4. /\ Wave(j) \in Nat /\ Wave(j) + 1 <= Waves
      BY <2>2, WaveTyped
    <2>5. Waves \in Nat
      <3>1. Len(specs) + Limit - 1 \in Nat
        BY Numbers, LifeTyped
      <3>2. QED BY <3>1, Divided DEF Waves
    <2>6. (Wave(j) + 1) * ChildLife <= Waves * ChildLife /\ (Wave(j) + 1) * ChildLife = Wave(j) * ChildLife + ChildLife
          /\ Wave(j) * ChildLife \in Nat /\ Waves * ChildLife \in Nat
      BY <2>4, <2>5, TimesGrows, LifeTyped
    <2>7. QED BY <1>1, <2>2, <2>3, <2>6, LifeTyped
  <1>10. SpawnInTime'
    <2>1. clock' <= Waves * ChildLife
      BY <1>1, <1>9 DEF TimeInv, SpawnInTime
    <2>2. QED BY <1>1, <2>1 DEF SpawnInTime, Waves, ChildLife
  <1>11. \A i \in Children : Alive(child[i])' /\ Started(i)'
    BY <1>5, <1>6 DEF Alive, ChildLife
  <1>12. clock' \in Nat
    BY <1>1
  <1>13. QED BY <1>1, <1>8, <1>10, <1>11, <1>12 DEF TimeInv

LEMMA TimeInit == Init => TimeInv
  <1> SUFFICES ASSUME Init PROVE TimeInv
    OBVIOUS
  <1>1. Inv
    BY InvInit
  <1>2. /\ clock = 0 /\ \A i \in Children : child[i] = Idle
    BY DEF Init
  <1>3. \A i \in Children : child[i].at = "queued" /\ Alive(child[i])
    BY <1>2 DEF Idle, Alive
  <1>4. \A i \in Children : Wave(i) * ChildLife \in Nat
    BY <1>1, WaveTyped
  <1>5. SpawnInTime
    <2>1. Len(specs) + Limit - 1 \in Nat
      BY <1>1, Numbers, LifeTyped
    <2>2. Waves \in Nat
      BY <2>1, Divided DEF Waves
    <2>3. Waves * ChildLife \in Nat
      BY <2>2, LifeTyped
    <2>4. QED BY <1>2, <2>3 DEF SpawnInTime
  <1>6. \A i \in Children : Started(i)
    BY <1>2, <1>3, <1>4 DEF Started
  <1>7. QED BY <1>2, <1>3, <1>5, <1>6 DEF TimeInv, InOrder

\* However long the LLM takes, spawn_subagents keeps the session waiting for no longer
\* than one child's life for every Limit tasks and the time in which some tool is late.
THEOREM SpawnReturnsInTime == Spec => []SpawnInTime
  <1>1. Inv /\ TimeInv /\ [Next]_vars => TimeInv'
    <2> SUFFICES ASSUME Inv, TimeInv, [Next]_vars PROVE TimeInv'
      OBVIOUS
    <2>1. CASE Spawn
      BY <2>1, SpawnTime
    <2>2. CASE \E i \in Children : ChildStep(i)
      BY <2>2, ChildStepTime
    <2>3. CASE Tick
      BY <2>3, TickTime
    <2>4. CASE UNCHANGED <<request, specs, child, clock>>
      BY <2>4 DEF TimeInv, Alive, Started, InOrder, SpawnInTime, Waves, Wave, ChildLife, Children
    <2>5. QED BY <2>1, <2>2, <2>3, <2>4 DEF Next, Merge, Returned, vars
  <1>2. TimeInv => SpawnInTime
    BY DEF TimeInv
  <1>3. QED BY <1>1, <1>2, InvAlways, TimeInit, PTL DEF Spec
=============================================================================
