----------------------------- MODULE MCRestore -----------------------------
(***************************************************************************)
(* Small instances of Restore for TLC.                                     *)
(***************************************************************************)
EXTENDS RestoreInv, TLC

\* Everything stays on.
RestoreOn == {[auto_restore |-> TRUE, auto_save |-> TRUE]}
\* auto_restore is switched on and off.
RestoreOnOff == {[auto_restore |-> b, auto_save |-> TRUE] : b \in BOOLEAN}

\* The slots of processes, the generations and the manual claims are interchangeable.
Symmetry ==
    Permutations(Invocations) \union Permutations(Generations)
        \union Permutations(ManualClaims)
=============================================================================
