--------------------------- MODULE MCActorRuntime ---------------------------
(* A small instance of ActorRuntime for TLC. *)
EXTENDS ActorRuntime

CONSTANTS s1, s2, s3, c1
=============================================================================
