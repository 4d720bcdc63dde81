------------------------------ MODULE Rebuild ------------------------------
(***************************************************************************)
(* layout::rebuild: the workspaces of a snapshot are created anew, one     *)
(* mutation of the host after the other.  Each mutation is recorded in     *)
(* rebuild-pending.json before it is requested and again when it is        *)
(* answered; the record moves to operations/ when the operation is done or *)
(* acknowledged.                                                           *)
(*                                                                         *)
(* A tab is a binary tree of splits.  A node is the path that leads to it, *)
(* a sequence over {1, 2} (first and second child), and a tree is the set  *)
(* of the paths of its leaves.  A tab that fits the host's bulk limits is  *)
(* applied at once; another one starts as its first leaf and is grown by   *)
(* splits, and its commands are typed into the new shells at the end.      *)
(* A created pane is named by the workspace, tab and leaf it is made for.  *)
(***************************************************************************)
EXTENDS Integers, Sequences, FiniteSets, DurableFile

CONSTANTS
    Layouts,        \* snapshots: sequences of workspaces, sequences of tabs
    BulkPanes,      \* the host's limit on panes for layout.apply (24)
    BulkDepth,      \* and on the depth of the tree (16)
    MaxEdits,       \* bound: edits of the policy and restarts of the server
    NoFile          \* the content of a file that does not exist

Paths == Seq({1, 2})
Below(node, leaf) == Len(node) <= Len(leaf) /\ SubSeq(leaf, 1, Len(node)) = node

\* Node::first_leaf: from a node on, the way to the leaf takes first children alone.
IsFirst(leaves, node, leaf) ==
    leaf \in leaves /\ Below(node, leaf) /\ \A k \in Len(node) + 1 .. Len(leaf) : leaf[k] = 1

\* A tab: its leaves, and those that have a command and those that have a label.  A split
\* has two children, and the first leaf is found from either of them.
IsTab(tab) ==
    /\ tab.leaves # {} /\ tab.leaves \subseteq Paths
    /\ tab.commands \subseteq tab.leaves /\ tab.labels \subseteq tab.leaves
    /\ \A x, y \in tab.leaves : Below(x, y) => x = y
    /\ \A x \in tab.leaves : \A k \in 1 .. Len(x), i \in {1, 2} :
         \E y \in tab.leaves : IsFirst(tab.leaves, Append(SubSeq(x, 1, k - 1), i), y)

\* layout::validate accepts the snapshot.
ASSUME LayoutAssumption ==
    \A layout \in Layouts :
        /\ layout = [w \in 1 .. Len(layout) |-> layout[w]] /\ Len(layout) \in Nat \ {0}
        /\ \A w \in 1 .. Len(layout) :
             /\ layout[w] = [t \in 1 .. Len(layout[w]) |-> layout[w][t]]
             /\ Len(layout[w]) \in Nat \ {0}
             /\ \A t \in 1 .. Len(layout[w]) : IsTab(layout[w][t])
ASSUME BulkAssumption == BulkPanes \in Nat \ {0} /\ BulkDepth \in Nat \ {0}

VARIABLES
    snapshot,       \* what is reconstructed
    focus,          \* is the focus restored?
    stage,          \* the mutation the reconstruction is at, or what it does instead
    phase,          \* how far that mutation is
    w, t,           \* the workspace and the tab it is at
    stack,          \* the splits still to make: nodes and their anchor panes
    launches,       \* the leaves whose commands are still to type
    op,             \* the last mutation
    pending,        \* rebuild-pending.json
    record,         \* operations/<operation>.json
    request,        \* the last request: none, sent, done or refused
    panes,          \* the host: where each created pane is
    splits,         \* the host: the node each split was made for
    started,        \* the host: commands started
    log,            \* history: the mutations carried out
    allowed,        \* the policy allows the commands
    denied,         \* history: it did not, once
    sameServer,     \* the server is the one the operation began with
    edits           \* bound

place == <<snapshot, focus, w, t>>
work == <<stack, launches>>
journals == <<pending, record>>
host == <<panes, splits, started, log>>
outside == <<allowed, denied, sameServer, edits>>
vars == <<place, stage, phase, work, op, journals, request, host, outside>>

Methods == {"workspace.create", "layout.apply", "pane.split", "pane.rename",
            "pane.send_input", "focusTab", "focusWorkspace", "focusAll"}
Finishing == {"archive", "archiveSync", "remove", "removeSync"}
Phases == {"ready", "mark", "send", "await", "record"}

\* A mutation, the record of one, and the journal of an operation.
Op == [method : Methods \union {"none"}, w : Nat, t : Nat, at : Paths, node : Paths,
       anchor : Paths, run : BOOLEAN]
Step == [what : Op, outcome : {"sending", "applied"}]
Journal == [state : {"restoring", "done", "failed"}, acknowledged : BOOLEAN, steps : Seq(Step)]
ASSUME FileAssumption == NoFile \notin Journal

NoOp == [method |-> "none", w |-> 0, t |-> 0, at |-> <<>>, node |-> <<>>,
         anchor |-> <<>>, run |-> FALSE]

tab == snapshot[w][t]

TypeOK ==
    /\ snapshot \in Layouts /\ focus \in BOOLEAN
    /\ stage \in Methods \union Finishing \union {"idle", "beginSync", "failSync", "ended"}
    /\ phase \in Phases
    /\ w \in DOMAIN snapshot /\ t \in DOMAIN snapshot[w]
    /\ \A k \in DOMAIN stack : stack[k].node \notin tab.leaves /\ stack[k].anchor \in tab.leaves
    /\ \A k \in DOMAIN launches : launches[k] \in tab.commands
    /\ op \in Op
    /\ {pending, record} \subseteq FileOf(Journal \union {NoFile})
    /\ request \in {"none", "sent", "done", "refused"}
    /\ {allowed, denied, sameServer} \subseteq BOOLEAN

Init ==
    /\ snapshot \in Layouts /\ focus \in BOOLEAN
    /\ stage = "idle" /\ phase = "ready" /\ w = 1 /\ t = 1
    /\ stack = <<>> /\ launches = <<>> /\ op = NoOp
    /\ pending = Stored(NoFile) /\ record = Stored(NoFile)
    /\ request = "none"
    /\ panes = {} /\ splits = {} /\ started = {} /\ log = <<>>
    /\ allowed \in BOOLEAN /\ denied = ~allowed
    /\ sameServer = TRUE /\ edits = 0

-----------------------------------------------------------------------------
(* Trees *)

\* Node::first_leaf
FirstLeaf(node) == CHOOSE leaf \in tab.leaves : IsFirst(tab.leaves, node, leaf)

\* Node::fits_apply
Bulk ==
    /\ Cardinality(tab.leaves) <= BulkPanes
    /\ \A leaf \in tab.leaves : Len(leaf) < BulkDepth

\* What layout.apply creates.
Applied == IF Bulk THEN tab.leaves ELSE {FirstLeaf(<<>>)}

\* Mutant: a leaf is taken for a split.
UnsplitAlways(node, anchor) == <<[node |-> node, anchor |-> anchor]>>

\* A node and the pane that stands for it, if there is anything left to split there.
Unsplit(node, anchor) ==
    IF node \in tab.leaves THEN <<>> ELSE <<[node |-> node, anchor |-> anchor]>>

\* Mutant: the first child is grown from the pane of the second one.
ChildrenSwapped(n, moved) ==
    Unsplit(Append(n.node, 1), moved) \o Unsplit(Append(n.node, 2), n.anchor)

\* expand_tree goes on with the first child at the anchor, then with the second at the
\* pane that was moved there.
Children(n, moved) ==
    Unsplit(Append(n.node, 1), n.anchor) \o Unsplit(Append(n.node, 2), moved)

-----------------------------------------------------------------------------
(* Where the reconstruction goes on *)

At(s, ws, tb) == [stage |-> s, w |-> ws, t |-> tb]

AfterWorkspace ==
    IF w < Len(snapshot) THEN At("workspace.create", w + 1, 1)
    ELSE At(IF focus THEN "focusAll" ELSE "archive", w, t)
AfterTab ==
    IF t < Len(snapshot[w]) THEN At("layout.apply", w, t + 1)
    ELSE IF focus THEN At("focusWorkspace", w, t) ELSE AfterWorkspace
AfterPanes == IF focus THEN At("focusTab", w, t) ELSE AfterTab
AfterLaunch(left) == IF left = <<>> THEN AfterPanes ELSE At("pane.send_input", w, t)

\* Mutant: the commands of the new shells are forgotten.
AfterSplitOnly(left, commands) ==
    IF left = <<>> THEN AfterPanes ELSE At("pane.split", w, t)

AfterSplit(left, commands) ==
    IF left = <<>> THEN AfterLaunch(commands) ELSE At("pane.split", w, t)

Go(next) == stage' = next.stage /\ w' = next.w /\ t' = next.t /\ UNCHANGED <<snapshot, focus>>

-----------------------------------------------------------------------------
(* The operation begins *)

Begin ==
    /\ stage = "idle"
    /\ pending' = Renamed(pending, [state |-> "restoring", acknowledged |-> FALSE, steps |-> <<>>])
    /\ stage' = "beginSync"
    /\ UNCHANGED <<place, phase, work, op, record, request, host, outside>>

BeginSync ==
    /\ stage = "beginSync"
    /\ pending' = Synced(pending)
    /\ stage' = "workspace.create"
    /\ UNCHANGED <<place, phase, work, op, record, request, host, outside>>

-----------------------------------------------------------------------------
(* mutate: recorded, requested, answered, recorded again *)

\* The mutation each stage asks for.
Mutation ==
    LET m == [NoOp EXCEPT !.method = stage, !.w = w, !.t = t] IN
    CASE stage = "layout.apply" -> [m EXCEPT !.run = allowed]
      [] stage = "pane.split" ->
           [m EXCEPT !.node = stack[1].node, !.anchor = stack[1].anchor,
                     !.at = FirstLeaf(Append(stack[1].node, 2))]
      [] stage = "pane.rename" -> [m EXCEPT !.at = op.at]
      [] stage = "pane.send_input" -> [m EXCEPT !.at = launches[1], !.run = TRUE]
      [] OTHER -> m

\* The server is the same, the policy allows what is typed, the step is recorded.
Mark ==
    /\ stage \in Methods /\ phase = "ready"
    /\ sameServer
    /\ stage = "pane.send_input" => allowed
    /\ op' = Mutation
    /\ pending' = Renamed(pending, [pending.now EXCEPT
                    !.steps = Append(@, [what |-> Mutation, outcome |-> "sending"])])
    /\ phase' = "mark"
    /\ UNCHANGED <<place, stage, work, record, request, host, outside>>

\* Mutant: the step is not synced before it is requested.
MarkUnsynced ==
    /\ phase = "mark"
    /\ phase' = "send"
    /\ UNCHANGED <<place, stage, work, op, journals, request, host, outside>>

MarkSync ==
    /\ phase = "mark"
    /\ pending' = Synced(pending)
    /\ phase' = "send"
    /\ UNCHANGED <<place, stage, work, op, record, request, host, outside>>

Request ==
    /\ phase = "send"
    /\ request' = "sent"
    /\ phase' = "await"
    /\ UNCHANGED <<place, stage, work, op, journals, host, outside>>

Answer ==
    /\ phase = "await" /\ request = "done"
    /\ pending' = Renamed(pending, [pending.now EXCEPT
                    !.steps[Len(pending.now.steps)].outcome = "applied"])
    /\ request' = "none"
    /\ phase' = "record"
    /\ UNCHANGED <<place, stage, work, op, record, host, outside>>

\* The answer is durable: on with what rebuild does after this mutation.
Advance ==
    /\ phase = "record"
    /\ pending' = Synced(pending)
    /\ phase' = "ready"
    /\ CASE stage = "workspace.create" -> Go(At("layout.apply", w, 1)) /\ UNCHANGED work
         [] stage = "layout.apply" ->
              /\ stack' = IF Bulk THEN <<>> ELSE Unsplit(<<>>, FirstLeaf(<<>>))
              /\ launches' = <<>>
              /\ Go(AfterSplit(stack', <<>>))
         [] stage = "pane.split" ->
              /\ stack' = Children(stack[1], op.at) \o Tail(stack)
              /\ launches' = IF op.at \in tab.commands THEN Append(launches, op.at) ELSE launches
              /\ Go(IF op.at \in tab.labels THEN At("pane.rename", w, t)
                    ELSE AfterSplit(stack', launches'))
         [] stage = "pane.rename" -> Go(AfterSplit(stack, launches)) /\ UNCHANGED work
         [] stage = "pane.send_input" ->
              /\ launches' = Tail(launches)
              /\ Go(AfterLaunch(launches'))
              /\ UNCHANGED stack
         [] stage = "focusTab" -> Go(AfterTab) /\ UNCHANGED work
         [] stage = "focusWorkspace" -> Go(AfterWorkspace) /\ UNCHANGED work
         [] stage = "focusAll" -> Go(At("archive", w, t)) /\ UNCHANGED work
    /\ UNCHANGED <<op, record, request, host, outside>>

\* launch_splits passes over a command the policy does not allow.
SkipLaunch ==
    /\ stage = "pane.send_input" /\ phase = "ready"
    /\ ~allowed
    /\ launches' = Tail(launches)
    /\ Go(AfterLaunch(launches'))
    /\ UNCHANGED <<phase, stack, op, journals, request, host, outside>>

\* Mutant: a mutation that is not answered is requested again.
RequestAgain ==
    /\ stage \in Methods /\ phase = "await"
    /\ phase' = "send"
    /\ UNCHANGED <<place, stage, work, op, journals, request, host, outside>>

\* The server changed, the host refused or did not answer in time, a write failed, a pane is not what
\* it should be or is not at its shell in time, the policy changed: the reconstruction stops.
Fail ==
    /\ stage \in Methods
    /\ pending' = Renamed(pending, [pending.now EXCEPT !.state = "failed"])
    /\ stage' = "failSync" /\ phase' = "ready"
    /\ UNCHANGED <<place, work, op, record, request, host, outside>>

FailSync ==
    /\ stage = "failSync"
    /\ pending' = Synced(pending)
    /\ stage' = "ended"
    /\ UNCHANGED <<place, phase, work, op, record, request, host, outside>>

-----------------------------------------------------------------------------
(* finish, of a complete reconstruction and of an acknowledged one *)

Archive ==
    /\ stage = "archive"
    /\ record' = Renamed(record, [pending.now EXCEPT !.state = "done"])
    /\ stage' = "archiveSync"
    /\ UNCHANGED <<place, phase, work, op, pending, request, host, outside>>

\* The steps and the state stay as they are found.
Acknowledge ==
    /\ stage = "ended" /\ pending.now # NoFile
    /\ record' = Renamed(record, [pending.now EXCEPT !.acknowledged = TRUE])
    /\ stage' = "archiveSync"
    /\ UNCHANGED <<place, phase, work, op, pending, request, host, outside>>

ArchiveSync ==
    /\ stage = "archiveSync"
    /\ record' = Synced(record)
    /\ stage' = "remove"
    /\ UNCHANGED <<place, phase, work, op, pending, request, host, outside>>

Remove ==
    /\ stage = "remove"
    /\ pending' = Renamed(pending, NoFile)
    /\ stage' = "removeSync"
    /\ UNCHANGED <<place, phase, work, op, record, request, host, outside>>

RemoveSync ==
    /\ stage = "removeSync"
    /\ pending' = Synced(pending)
    /\ stage' = "ended"
    /\ UNCHANGED <<place, phase, work, op, record, request, host, outside>>

\* The process is killed, or an I/O operation fails.
Abort ==
    /\ stage \notin {"idle", "ended"}
    /\ stage' = "ended" /\ phase' = "ready"
    /\ UNCHANGED <<place, work, op, journals, request, host, outside>>

-----------------------------------------------------------------------------
(* The host *)

Pane(leaf) == [w |-> w, t |-> t, leaf |-> leaf]

\* A pane that is split keeps the first half.
SplitPane ==
    \E p \in panes :
        /\ p.pane = Pane(op.anchor)
        /\ panes' = (panes \ {p}) \union
                      {[p EXCEPT !.at = Append(@, 1)],
                       [pane |-> Pane(op.at), at |-> Append(p.at, 2)]}
        /\ splits' = splits \union {[w |-> w, t |-> t, at |-> p.at, node |-> op.node]}

\* The request is carried out, by the server or, late, by the one it was sent to.
CarryOut ==
    /\ request = "sent"
    /\ request' = "done"
    /\ log' = Append(log, op)
    /\ CASE op.method = "layout.apply" ->
              /\ panes' = panes \union {[pane |-> Pane(leaf),
                                         at |-> IF Bulk THEN leaf ELSE <<>>] : leaf \in Applied}
              /\ started' = started \union
                   (IF op.run THEN {Pane(leaf) : leaf \in Applied \intersect tab.commands} ELSE {})
              /\ UNCHANGED splits
         [] op.method = "pane.split" -> SplitPane /\ UNCHANGED started
         [] op.method = "pane.send_input" ->
              started' = started \union {Pane(op.at)} /\ UNCHANGED <<panes, splits>>
         [] OTHER -> UNCHANGED <<panes, splits, started>>
    /\ UNCHANGED <<place, stage, phase, work, op, journals, outside>>

Refuse ==
    /\ request = "sent"
    /\ request' = "refused"
    /\ UNCHANGED <<place, stage, phase, work, op, journals, host, outside>>

EditPolicy ==
    /\ edits < MaxEdits
    /\ edits' = edits + 1
    /\ allowed' = ~allowed
    /\ denied' = TRUE
    /\ UNCHANGED <<place, stage, phase, work, op, journals, request, host, sameServer>>

Restart ==
    /\ edits < MaxEdits /\ sameServer
    /\ edits' = edits + 1
    /\ sameServer' = FALSE
    /\ UNCHANGED <<place, stage, phase, work, op, journals, request, host, allowed, denied>>

PowerCut ==
    /\ edits < MaxEdits
    /\ edits' = edits + 1
    /\ \E v \in pending.after, r \in record.after :
         pending' = Stored(v) /\ record' = Stored(r)
    /\ stage' = "ended" /\ phase' = "ready"
    /\ request' = "none"
    /\ sameServer' = FALSE
    /\ UNCHANGED <<place, work, op, host, allowed, denied>>

-----------------------------------------------------------------------------
Next ==
    \/ Begin \/ BeginSync
    \/ Mark \/ MarkSync \/ Request \/ Answer \/ Advance \/ SkipLaunch \/ Fail \/ FailSync
    \/ Archive \/ Acknowledge \/ ArchiveSync \/ Remove \/ RemoveSync \/ Abort
    \/ CarryOut \/ Refuse \/ EditPolicy \/ Restart \/ PowerCut

Spec == Init /\ [][Next]_vars

-----------------------------------------------------------------------------
(* Safety *)

\* Every split is made where its node is in the saved tree: the pane that is the anchor
\* of a node, or was moved for it, is where that node belongs (layout::expand_tree).
SplitsInPlace == \A s \in splits : s.at = s.node

\* A reconstruction that is done made every pane at its leaf and no other, and started
\* in each the command of that leaf alone, all of them if the policy always allowed it
\* (layout::rebuild, expand_tree, launch_splits).
LayoutReproduced ==
    record.now # NoFile /\ record.now.state = "done" =>
        LET all == UNION {UNION {{[w |-> x, t |-> y, leaf |-> leaf] : leaf \in snapshot[x][y].leaves} :
                      y \in DOMAIN snapshot[x]} : x \in DOMAIN snapshot}
            commands == {p \in all : p.leaf \in snapshot[p.w][p.t].commands}
        IN
        /\ panes = {[pane |-> p, at |-> p.leaf] : p \in all}
        /\ started \subseteq commands /\ (~denied => started = commands)

\* The steps of a record tell what the host did: those it carried out, in order, and at
\* most one more, the last, which is not applied.
Tells(r) ==
    /\ Len(log) <= Len(r.steps) /\ Len(r.steps) <= Len(log) + 1
    /\ \A k \in 1 .. Len(log) : r.steps[k].what = log[k]
    /\ \A k \in 1 .. Len(r.steps) :
         /\ r.steps[k].outcome = "applied" => k <= Len(log)
         /\ r.steps[k].outcome = "sending" => k = Len(r.steps)

\* Whatever the host did is told by every version of one of the two files that a power
\* cut may leave, before and after the acknowledgement (layout::mutate, finish).
EvidenceTellsAll ==
    log # <<>> => \/ \A r \in pending.after : r # NoFile /\ Tells(r)
                  \/ \A r \in record.after : r # NoFile /\ Tells(r)

\* No mutation is carried out twice, however late an answer is (transport::request).
NeverTwice == \A j, k \in DOMAIN log : log[j] = log[k] => j = k
=============================================================================
