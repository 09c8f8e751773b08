------------------------- MODULE MCPatchTransaction -------------------------
(* Small instances of PatchTransaction for TLC. *)
EXTENDS PatchTransaction, TLC

CONSTANTS s1, s2

TwoSlots == {s1, s2}

SlotSymmetry == Permutations(TwoSlots)

=============================================================================
