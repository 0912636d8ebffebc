-------------------------- MODULE MCOrchestration --------------------------
(* Plans of up to three steps, good and bad: blank and repeated ids, no     *)
(* tools, unknown and forbidden tools, dependencies on earlier, later,      *)
(* unknown steps and on the step itself.                                    *)
EXTENDS Orchestration

Web == {"web_search"}
Send == {"wallet_execute_contract_call"}

MCSteps ==
  [id : {"s1", "s2"}, tools : {Web, Send}, deps : {{}, {"s1"}, {"s2"}, {"s1", "s2"}}]
    \cup [id : {"s3"}, tools : {Web}, deps : {{"s2"}, {"s4"}}]
    \cup [id : {"", "s3"}, tools : {{}, {"", "web_search"}, {"spawn_subagents"}, {"unknown"}}, deps : {{}}]

MCPlans == [goal : BOOLEAN, steps : UNION {[1..n -> MCSteps] : n \in 0..2}]
             \cup [goal : {TRUE}, steps : [1..3 -> [id : {"s1", "s2", "s3"}, tools : {Web}, deps : {{}, {"s2"}}]]]
=============================================================================
