------------------------------- MODULE Manual -------------------------------
(***************************************************************************)
(* Preview and manual restore: planner::plan decides what happens to each  *)
(* saved pane, app::manual_restore finds the workspaces that are missing,  *)
(* rehydrates the panes that exist and reconstructs those workspaces.  The *)
(* journal of a restore is in Restore, a reconstruction in Rebuild; here   *)
(* is what one invocation reads of the live session, and when.             *)
(***************************************************************************)
EXTENDS Integers, FiniteSets

CONSTANTS
    Saved,          \* the saved panes: pane |-> [workspace, tab, command, allowed]
    Tabs,           \* live tabs a pane may be in
    SpaceOf,        \* the workspace of each live tab
    MaxChanges,     \* bound: changes of the live session during one invocation
    None            \* no such pane

Panes == DOMAIN Saved
Workspaces == {Saved[p].workspace : p \in Panes}

Decisions == {"NoCommand", "MissingPane", "IdentityMismatch", "DeniedByPolicy", "Candidate"}

VARIABLES
    pc,
    rehydrateOnly, dryRun,  \* the arguments of the command
    live,           \* the live session: pane |-> [tab, terminal] or None
    changes,        \* how often it changed; also names new terminals
    missing,        \* the workspaces to reconstruct
    plan,           \* the decisions, and the terminals they were made for
    sent,           \* panes whose command has been sent
    rebuilt,        \* workspaces reconstructed
    planned         \* history: the live session when the plan was made

vars == <<pc, rehydrateOnly, dryRun, live, changes, missing, plan, sent, rebuilt, planned>>
local == <<pc, rehydrateOnly, dryRun, missing, plan, sent, rebuilt, planned>>

Present(l) == {SpaceOf[l[p].tab] : p \in {q \in Panes : l[q] # None}}

\* planner::plan, one pane: by exact ID, never by position.
Decide(p, l) ==
    LET saved == Saved[p]
    IN CASE ~saved.command -> "NoCommand"
         [] saved.command /\ l[p] = None -> "MissingPane"
         [] saved.command /\ l[p] # None
              /\ (l[p].tab # saved.tab \/ SpaceOf[l[p].tab] # saved.workspace) -> "IdentityMismatch"
         [] OTHER -> IF saved.allowed THEN "Candidate" ELSE "DeniedByPolicy"

Plan(l) ==
    [p \in Panes |-> [decision |-> Decide(p, l),
                      terminal |-> IF l[p] = None THEN None ELSE l[p].terminal]]

Init ==
    /\ pc = "look"
    /\ rehydrateOnly \in BOOLEAN /\ dryRun \in BOOLEAN
    /\ live \in [Panes -> [tab : Tabs, terminal : {0}] \union {None}]
    /\ changes = 0
    /\ missing = {} /\ plan = <<>> /\ sent = {} /\ rebuilt = {} /\ planned = live

-----------------------------------------------------------------------------
(* The session: panes are closed, moved, and come back as Herdr restores them *)

Change ==
    /\ pc \notin {"done", "failed"} /\ changes < MaxChanges
    /\ changes' = changes + 1
    /\ \E p \in Panes :
         \/ live' = [live EXCEPT ![p] = None] /\ live[p] # None
         \/ \E t \in Tabs :
              live' = [live EXCEPT ![p] =
                [tab |-> t, terminal |-> IF live[p] = None THEN changes' ELSE live[p].terminal]]
    /\ UNCHANGED local

-----------------------------------------------------------------------------
(* manual_restore *)

\* host.snapshot: the plan is shown, the missing workspaces are kept; a preview ends here.
Look ==
    /\ pc = "look"
    /\ missing' = IF rehydrateOnly THEN {} ELSE Workspaces \ Present(live)
    /\ pc' = IF dryRun THEN "done" ELSE "settle"
    /\ UNCHANGED <<rehydrateOnly, dryRun, live, changes, plan, sent, rebuilt, planned>>

\* restore: after settle_ms the session is read again and the plan that counts is made.
Settled ==
    /\ pc = "settle"
    /\ plan' = Plan(live) /\ planned' = live
    /\ pc' = "execute"
    /\ UNCHANGED <<rehydrateOnly, dryRun, live, changes, missing, sent, rebuilt>>

Candidates == {p \in DOMAIN plan : plan[p].decision = "Candidate"}

\* The pane is still where it was saved, in the terminal the plan saw.
Same(p) ==
    /\ live[p] # None
    /\ live[p].tab = Saved[p].tab /\ SpaceOf[live[p].tab] = Saved[p].workspace
    /\ live[p].terminal = plan[p].terminal

Send(p) ==
    /\ pc = "execute" /\ p \in Candidates \ sent
    /\ Same(p)
    /\ sent' = sent \union {p}
    /\ UNCHANGED <<pc, rehydrateOnly, dryRun, live, changes, missing, plan, rebuilt, planned>>

\* A pane that is busy is skipped; its candidate is done with.
Skip(p) ==
    /\ pc = "execute" /\ p \in Candidates \ sent
    /\ Same(p)
    /\ plan' = [plan EXCEPT ![p].decision = "NoCommand"]
    /\ UNCHANGED <<pc, rehydrateOnly, dryRun, live, changes, missing, sent, rebuilt, planned>>

\* An error, of a pane that changed as of any other kind, stops the restore, and nothing
\* is reconstructed.
Fail ==
    /\ pc \notin {"done", "failed"}
    /\ pc' = "failed"
    /\ UNCHANGED <<rehydrateOnly, dryRun, live, changes, missing, plan, sent, rebuilt, planned>>

Rehydrated ==
    /\ pc = "execute" /\ Candidates \subseteq sent
    /\ pc' = IF missing = {} THEN "done" ELSE "rebuild"
    /\ UNCHANGED <<rehydrateOnly, dryRun, live, changes, missing, plan, sent, rebuilt, planned>>

\* layout::rebuild of the missing workspaces, as new ones with their commands.
RebuildMissing ==
    /\ pc = "rebuild"
    /\ rebuilt' = missing
    /\ pc' = "done"
    /\ UNCHANGED <<rehydrateOnly, dryRun, live, changes, missing, plan, sent, planned>>

Next ==
    \/ Change \/ Look \/ Settled \/ Fail \/ Rehydrated \/ RebuildMissing
    \/ \E p \in Panes : Send(p) \/ Skip(p)

Spec == Init /\ [][Next]_vars

-----------------------------------------------------------------------------
(* Safety *)

\* docs/CONTRACTS.md: the default manual restore first rehydrates exact existing IDs, then
\* reconstructs missing workspaces.  So a workspace is reconstructed exactly when it was
\* missing as the existing IDs were rehydrated, and no command is started twice.
RebuildsTheMissing ==
    pc = "done" /\ ~dryRun /\ ~rehydrateOnly => rebuilt = Workspaces \ Present(planned)
=============================================================================
