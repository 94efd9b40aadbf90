------------------------ MODULE MCStructuredAdapter ------------------------
(* Every script over two scopes and one task, with a yield or without.        *)
EXTENDS StructuredAdapter, TLC

CONSTANTS root, child, nobody, t1, none, silence, noEvent
MCPrograms == {[yields |-> 0, terminal |-> "failed"], [yields |-> 1, terminal |-> "succeeded"]}
=============================================================================
