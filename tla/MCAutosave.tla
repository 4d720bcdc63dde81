----------------------------- MODULE MCAutosave -----------------------------
(***************************************************************************)
(* Small instances of Autosave for TLC.                                    *)
(***************************************************************************)
EXTENDS Autosave, TLC

Symmetry == Permutations(Invocations) \union Permutations(Sessions) \union Permutations(Places)
=============================================================================
