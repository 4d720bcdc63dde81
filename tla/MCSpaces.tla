------------------------------ MODULE MCSpaces ------------------------------
(***************************************************************************)
(* Small instances of Spaces for TLC.                                      *)
(***************************************************************************)
EXTENDS Spaces, TLC

CONSTANTS t1, t2, t3

\* Two tabs in one workspace, one in another.
TwoSpaces == t1 :> t1 @@ t2 :> t1 @@ t3 :> t3

Symmetry ==
    Permutations(Invocations) \union Permutations(Sessions) \union Permutations(Names)
        \union Permutations(Sources) \union Permutations(Panes)
=============================================================================
