---------------------------- MODULE MCAgentPool ----------------------------
(***************************************************************************)
(* Small instances of AgentPool.  Two tasks; task t1 is driven by one      *)
(* goroutine (its orchestrator), which spawns two agents.                  *)
(***************************************************************************)
EXTENDS AgentPool

CONSTANTS t1, t2, c1, c2, a1, a2, a3

\* Two callers of two tasks: c1 spawns a1 then a2, c2 spawns a3.
TwoTasks == [c \in Callers |-> IF c = c1 THEN t1 ELSE t2]
Split == [a \in Agents |-> IF a = a3 THEN c2 ELSE c1]

SomeFaults == {"start", "wait", "completeRow"}
============================================================================
