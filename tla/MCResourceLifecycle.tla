------------------------- MODULE MCResourceLifecycle -------------------------
(* Scripts of up to MaxEvents events over two resources and four scopes, of   *)
(* which three may be opened (nested or side by side).                        *)
EXTENDS ResourceLifecycle, TLC

CONSTANTS root, left, right, extra, pipe, file, a1, a2, a3, nobody
MCSymmetry == Permutations({left, right, extra}) \cup Permutations({pipe, file})
                \cup Permutations({a1, a2, a3})
=============================================================================
