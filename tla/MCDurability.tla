---------------------------- MODULE MCDurability ----------------------------
(***************************************************************************)
(* Durability on a small instance: two games of two moves, of which the    *)
(* registry holds one, and two handlers, which are interchangeable.  In a  *)
(* behaviour the process dies, or saves fail, or results do.               *)
(***************************************************************************)
EXTENDS Durability, TLC

Symmetry == Permutations(Games) \cup Permutations(Handlers)

OneMisfortune == \/ crashes = 0 /\ failedSaves = 0
                 \/ crashes = 0 /\ failedResults = 0
                 \/ failedSaves = 0 /\ failedResults = 0
=============================================================================
