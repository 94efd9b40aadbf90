---------------------- MODULE MCStructuredConcurrency ----------------------
(* Every script over a root, two more scopes and two tasks, at most one of    *)
(* which yields.                                                              *)
EXTENDS StructuredConcurrency

CONSTANTS root, left, right, nobody, t1, t2, none, silence
MCPrograms == {[yields |-> 0, terminal |-> "failed"], [yields |-> 1, terminal |-> "succeeded"]}
=============================================================================
