----------------------------- MODULE MCSdioTx ------------------------------
(* Instances of SdioTx for TLC. *)
EXTENDS SdioTx, TLC

CONSTANTS f1, f2, f3
Symmetry == Permutations({f1, f2, f3})
=============================================================================
