------------------------------- MODULE Panes -------------------------------
(***************************************************************************)
(* The two halves of what a capture makes of a pane: Inspect identifies    *)
(* its program while processes change, Policy turns the program's          *)
(* arguments into a command and back.  The halves share nothing but those  *)
(* arguments, so a behaviour goes through one of them and leaves the other *)
(* where it is.                                                            *)
(***************************************************************************)
EXTENDS Inspect, Policy

\* A check of the processes, with Policy in a state without steps; or the way of a
\* command, with Inspect after a check that failed, in one scene for all.
PanesInit ==
    \/ Init /\ PolicyInit /\ stage = "parse" /\ words = <<>>
    \/ /\ PolicyInit
       /\ KernelInit /\ threads = Threads /\ procs = (CHOOSE s \in Scenes : TRUE).procs
       /\ pc = "end" /\ task = "idle" /\ mem = Blank
       /\ was = procs /\ led = None /\ read = None

PanesNext ==
    \/ Next /\ UNCHANGED policyVars
    \/ PolicyNext /\ UNCHANGED vars

\* What is kept of a pane's processes, and of its command, has its type.
PanesTypeOK == InspectTypeOK /\ PolicyTypeOK

PanesSpec == PanesInit /\ [][PanesNext]_<<vars, policyVars>>
=============================================================================
