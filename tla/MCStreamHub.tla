----------------------------- MODULE MCStreamHub -----------------------------
(***************************************************************************)
(* One agent and two clients, whose channels hold one frame.               *)
(***************************************************************************)
EXTENDS StreamHub

WantsAll == [c \in Clients |-> Agents]
=============================================================================
