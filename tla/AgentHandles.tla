---------------------------- MODULE AgentHandles ----------------------------
(***************************************************************************)
(* What the agent pool promises to the code that spawns agents: a handle   *)
(* that comes to life once, ends once with one outcome, and a listener     *)
(* that is told an outcome.  A listener that attaches while the agent is   *)
(* live is told how it ended; one that attaches after the end is told that *)
(* the agent failed, whatever really happened (pool.go:368-373).           *)
(*                                                                         *)
(* AgentPool implements this module; Orchestrator is built on it.          *)
(***************************************************************************)
CONSTANT Agents                  \* agent ids, one per successful Spawn

VARIABLES
  handle,    \* handle[a]: "unborn", "live", or how it ended: "won", "lost"
  heard      \* heard[a]: "nothing", "attached", or what the listener was told

handleVars == <<handle, heard>>

Outcomes == {"won", "lost"}

HandlesTypeOK ==
  /\ handle \in [Agents -> {"unborn", "live"} \cup Outcomes]
  /\ heard \in [Agents -> {"nothing", "attached"} \cup Outcomes]

HandlesInit ==
  /\ handle = [a \in Agents |-> "unborn"]
  /\ heard = [a \in Agents |-> "nothing"]

Launch(a) ==
  /\ handle[a] = "unborn"
  /\ handle' = [handle EXCEPT ![a] = "live"]
  /\ UNCHANGED heard

Finish(a, outcome) ==
  /\ handle[a] = "live"
  /\ handle' = [handle EXCEPT ![a] = outcome]
  /\ UNCHANGED heard

Listen(a) ==
  /\ handle[a] # "unborn"
  /\ heard[a] = "nothing"
  /\ heard' = [heard EXCEPT ![a] = IF handle[a] = "live" THEN "attached" ELSE "lost"]
  /\ UNCHANGED handle

Deliver(a) ==
  /\ heard[a] = "attached"
  /\ handle[a] \in Outcomes
  /\ heard' = [heard EXCEPT ![a] = handle[a]]
  /\ UNCHANGED handle

HandlesNext ==
  \E a \in Agents :
    \/ Launch(a) \/ Listen(a) \/ Deliver(a)
    \/ \E outcome \in Outcomes : Finish(a, outcome)

HandlesSpec == HandlesInit /\ [][HandlesNext]_handleVars
=============================================================================
