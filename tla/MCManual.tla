------------------------------ MODULE MCManual ------------------------------
(***************************************************************************)
(* A small instance of Manual for TLC.                                     *)
(***************************************************************************)
EXTENDS Manual, TLC

CONSTANTS p1, p2, w1, w2, t1, t2

TwoWorkspaces ==
    p1 :> [workspace |-> w1, tab |-> t1, command |-> TRUE, allowed |-> TRUE] @@
    p2 :> [workspace |-> w2, tab |-> t2, command |-> TRUE, allowed |-> FALSE]

TabOfEach == t1 :> w1 @@ t2 :> w2
=============================================================================
