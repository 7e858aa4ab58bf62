-------------------------- MODULE MCMessageStreams --------------------------
(***************************************************************************)
(* A small instance of MessageStreams: three browsers, so that one may     *)
(* leave the list before two others.                                       *)
(***************************************************************************)
EXTENDS MessageStreams

CONSTANTS p1, c1, c2, c3
=============================================================================
