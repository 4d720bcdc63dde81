---------------------------- MODULE RebuildProof ----------------------------
(***************************************************************************)
(* Theorems about Rebuild.  Three invariants, each resting on the ones     *)
(* before it: what the reconstruction is at and what its journal tells;    *)
(* that it never comes back to a mutation; that the host's panes are where *)
(* the splits still to make leave them.                                    *)
(***************************************************************************)
EXTENDS Rebuild, SequenceTheorems, TLAPS

Working == stage \in Methods

\* The host has carried out the mutation the reconstruction is at.
Answered == phase = "record" \/ (phase = "await" /\ request = "done")

-----------------------------------------------------------------------------
(* Where the reconstruction is *)

Frame == [node : Paths, anchor : Paths]

\* The splits still to make: inner nodes, each with its first leaf, none below another.
GoodStack(s) ==
    /\ s \in Seq(Frame)
    /\ \A k \in DOMAIN s :
         s[k].node \notin tab.leaves /\ IsFirst(tab.leaves, s[k].node, s[k].anchor)
    /\ \A j, k \in DOMAIN s : Below(s[j].node, s[k].node) => j = k

\* The pane of a leaf exists: it stands for a node still to split, or is below none.
Made(s, leaf) == \A k \in DOMAIN s : Below(s[k].node, leaf) => leaf = s[k].anchor

\* The frames of a split's children, and the stack after the split.
FirstOf(f) == [node |-> Append(f.node, 1), anchor |-> f.anchor]
SecondOf(f, moved) == [node |-> Append(f.node, 2), anchor |-> moved]
Grow(s, moved) == Children(s[1], moved) \o Tail(s)

GoodLaunches(s, l) ==
    /\ l \in Seq(tab.commands)
    /\ \A k \in DOMAIN l : Made(s, l[k])
    /\ \A j, k \in DOMAIN l : l[j] = l[k] => j = k

PlaceInv ==
    /\ stage = "workspace.create" => t = 1
    /\ stage = "focusWorkspace" => t = Len(snapshot[w])
    /\ stage \in {"focusAll", "archive"} => w = Len(snapshot) /\ t = Len(snapshot[w])
    /\ stage \in {"idle", "beginSync"} => w = 1 /\ t = 1

WorkInv ==
    /\ GoodStack(stack) /\ GoodLaunches(stack, launches)
    /\ stage \notin {"pane.split", "pane.rename"} /\ (Working \/ stage = "archive") => stack = <<>>
    /\ stage \notin {"pane.split", "pane.rename", "pane.send_input"} /\ (Working \/ stage = "archive")
         => launches = <<>>
    /\ stage \in {"idle", "beginSync"} => stack = <<>> /\ launches = <<>>
    /\ stage = "pane.split" => stack # <<>>
    /\ stage = "pane.rename" => op.at \in tab.leaves /\ Made(stack, op.at)
    /\ stage = "pane.send_input" => launches # <<>>

OpInv ==
    phase # "ready" =>
        /\ Working /\ op.method = stage /\ op.w = w /\ op.t = t
        /\ stage = "pane.split" =>
             /\ op.node = stack[1].node /\ op.anchor = stack[1].anchor
             /\ IsFirst(tab.leaves, Append(stack[1].node, 2), op.at)
        /\ stage = "pane.send_input" => op.at = launches[1]
        /\ stage = "layout.apply" => op.run \/ denied

-----------------------------------------------------------------------------
(* What the journal tells *)

\* Nothing was carried out and nothing will be.
Quiet == log = <<>> /\ request # "sent"

\* A record knows of the request that is under way, too.
Knows(r) ==
    /\ Tells(r)
    /\ request = "sent" => Len(r.steps) = Len(log) + 1 /\ r.steps[Len(log) + 1].what = op
Told(f) == \A r \in f.after : r # NoFile /\ Knows(r)

\* A record of what was carried out, all of it answered; and of one mutation more.
Settled(r) ==
    /\ r # NoFile /\ Tells(r) /\ Len(r.steps) = Len(log)
    /\ \A k \in 1 .. Len(r.steps) : r.steps[k].outcome = "applied"
Marked(r) ==
    /\ r # NoFile /\ Tells(r) /\ Len(r.steps) = Len(log) + 1
    /\ r.steps[Len(log) + 1].what = op

JournalInv ==
    /\ Working \/ stage = "archive" =>
        /\ pending.now # NoFile /\ pending.now.state = "restoring"
        /\ phase # "await" => request = "none"
        /\ phase = "ready" => Settled(pending.now)
        /\ phase \in {"mark", "send"} => Marked(pending.now)
        /\ phase = "await" => request # "none"
        /\ phase = "await" /\ request = "done" =>
             Tells(pending.now) /\ Len(pending.now.steps) = Len(log) /\ log # <<>>
        /\ phase = "record" => Settled(pending.now) /\ log # <<>>
        /\ phase \notin {"mark", "record"} => pending.after = {pending.now}
        /\ \A r \in pending.after : r # NoFile /\ Tells(r)
    /\ stage \in {"idle", "beginSync"} => log = <<>> /\ request = "none" /\ record = Stored(NoFile)
    /\ stage = "idle" => pending = Stored(NoFile)
    /\ stage = "beginSync" =>
         pending.now # NoFile /\ pending.now.steps = <<>> /\ pending.now.state = "restoring"
    /\ stage = "failSync" => pending.now # NoFile
    /\ stage = "archiveSync" =>
         pending.now # NoFile /\ record.now # NoFile /\ record.now.steps = pending.now.steps
    /\ stage = "remove" => Quiet \/ Told(record)
    /\ Quiet \/ \A r \in pending.after \ {NoFile} : Knows(r)
    /\ pending.now # NoFile => Quiet \/ Told(pending)
    /\ pending.now = NoFile => Quiet \/ Told(record)

Stages == Methods \union Finishing \union {"idle", "beginSync", "failSync", "ended"}
Typed ==
    /\ snapshot \in Layouts /\ focus \in BOOLEAN /\ stage \in Stages /\ phase \in Phases
    /\ w \in DOMAIN snapshot /\ t \in DOMAIN snapshot[w]
    /\ op \in Op /\ log \in Seq(Op) /\ request \in {"none", "sent", "done", "refused"}
    /\ pending \in FileOf(Journal \union {NoFile}) /\ record \in FileOf(Journal \union {NoFile})
    /\ allowed \in BOOLEAN /\ denied \in BOOLEAN /\ sameServer \in BOOLEAN
    /\ allowed \/ denied

ProgressInv == Typed /\ PlaceInv /\ WorkInv /\ OpInv /\ JournalInv

-----------------------------------------------------------------------------
(* What was carried out is behind *)

\* The order of the mutations of a tab; its splits and their labels take turns.
Rank(m) ==
    CASE m = "workspace.create" -> 1 [] m = "layout.apply" -> 2
      [] m \in {"pane.split", "pane.rename"} -> 3 [] m = "pane.send_input" -> 4
      [] m = "focusTab" -> 5 [] m = "focusWorkspace" -> 6 [] m = "focusAll" -> 7

\* A mutation that the reconstruction does not come back to.
Behind(o) ==
    \/ o.w < w \/ (o.w = w /\ o.t < t)
    \/ /\ o.w = w /\ o.t = t
       /\ \/ Rank(o.method) < Rank(stage)
          \/ /\ o.method \in {"pane.split", "pane.rename"} /\ stage \in {"pane.split", "pane.rename"}
             /\ o.at \in tab.leaves /\ Made(stack, o.at)
             /\ stage = "pane.rename" /\ o.method = "pane.rename" => o.at # op.at
          \/ /\ o.method = "pane.send_input" /\ stage = "pane.send_input"
             /\ \A k \in DOMAIN launches : o.at # launches[k]

OnceInv ==
    /\ NeverTwice
    /\ \A k \in DOMAIN log : log[k].method \in Methods
    /\ phase \in {"mark", "send"} \/ request = "sent" =>
         op.method \in Methods /\ \A k \in DOMAIN log : log[k] # op
    /\ Working =>
         \A k \in DOMAIN log : IF Answered /\ k = Len(log) THEN log[k] = op ELSE Behind(log[k])

-----------------------------------------------------------------------------
(* Where the host's panes are *)

\* The splits to make and the commands to type once the mutation that was carried out is
\* taken into account.
StackNow ==
    IF ~Answered THEN stack
    ELSE CASE stage = "layout.apply" -> IF Bulk THEN <<>> ELSE Unsplit(<<>>, FirstLeaf(<<>>))
           [] stage = "pane.split" -> Grow(stack, op.at)
           [] OTHER -> stack
LaunchesNow ==
    IF ~Answered THEN launches
    ELSE CASE stage = "pane.split" /\ op.at \in tab.commands -> Append(launches, op.at)
           [] stage = "pane.send_input" -> Tail(launches)
           [] OTHER -> launches

Finished(x, y) == x \in DOMAIN snapshot /\ y \in DOMAIN snapshot[x] /\ (x < w \/ (x = w /\ y < t))
Shown == Working /\ stage # "workspace.create" /\ (stage = "layout.apply" => Answered)

Place == [w : Nat, t : Nat, leaf : Paths]
HostType == panes \subseteq [pane : Place, at : Paths] /\ started \subseteq Place

\* A pane of this tab: at the node it stands for, or at its leaf.
InPlace(s, leaf, at) ==
    /\ \A k \in DOMAIN s : leaf = s[k].anchor => at = s[k].node
    /\ (\A k \in DOMAIN s : leaf # s[k].anchor) => at = leaf

PanesInv(s) ==
    /\ \A p \in panes :
         \/ /\ Finished(p.pane.w, p.pane.t) /\ p.at = p.pane.leaf
            /\ p.pane.leaf \in snapshot[p.pane.w][p.pane.t].leaves
         \/ /\ Shown /\ p.pane.w = w /\ p.pane.t = t
            /\ p.pane.leaf \in tab.leaves /\ Made(s, p.pane.leaf) /\ InPlace(s, p.pane.leaf, p.at)
    /\ \A x \in DOMAIN snapshot : \A y \in DOMAIN snapshot[x] : Finished(x, y) =>
         \A leaf \in snapshot[x][y].leaves : \E p \in panes : p.pane = [w |-> x, t |-> y, leaf |-> leaf]
    /\ Shown => \A leaf \in tab.leaves : Made(s, leaf) => \E p \in panes : p.pane = Pane(leaf)

StartedInv(s, l) ==
    /\ \A q \in started :
         \/ Finished(q.w, q.t) /\ q.leaf \in snapshot[q.w][q.t].commands
         \/ Shown /\ q.w = w /\ q.t = t /\ q.leaf \in tab.commands
    /\ \/ denied
       \/ /\ \A x \in DOMAIN snapshot : \A y \in DOMAIN snapshot[x] : Finished(x, y) =>
               \A leaf \in snapshot[x][y].commands : [w |-> x, t |-> y, leaf |-> leaf] \in started
          /\ Shown => \A leaf \in tab.commands : Made(s, leaf) =>
               Pane(leaf) \in started \/ \E k \in DOMAIN l : l[k] = leaf

\* Every pane is at its leaf, and has the command of its leaf.
Whole ==
    /\ \A p \in panes :
         /\ p.pane.w \in DOMAIN snapshot /\ p.pane.t \in DOMAIN snapshot[p.pane.w]
         /\ p.pane.leaf \in snapshot[p.pane.w][p.pane.t].leaves /\ p.at = p.pane.leaf
    /\ \A q \in started :
         /\ q.w \in DOMAIN snapshot /\ q.t \in DOMAIN snapshot[q.w]
         /\ q.leaf \in snapshot[q.w][q.t].commands
    /\ \A x \in DOMAIN snapshot : \A y \in DOMAIN snapshot[x] :
         /\ \A leaf \in snapshot[x][y].leaves : \E p \in panes : p.pane = [w |-> x, t |-> y, leaf |-> leaf]
         /\ denied \/ \A leaf \in snapshot[x][y].commands : [w |-> x, t |-> y, leaf |-> leaf] \in started

HostInv ==
    /\ HostType
    /\ SplitsInPlace
    /\ request = "sent" /\ op.method = "pane.split" =>
         \A p \in panes : p.pane = Pane(op.anchor) => p.at = op.node
    /\ Working \/ stage \in {"idle", "beginSync"} =>
         PanesInv(StackNow) /\ StartedInv(StackNow, LaunchesNow)
    /\ stage = "archive" => Whole
    /\ Working => record.after = {NoFile}
    /\ \A r \in pending.after : r # NoFile => r.state # "done"
    /\ \A r \in record.after : r # NoFile /\ r.state = "done" => Whole /\ request = "none"

-----------------------------------------------------------------------------
(* Paths *)

\* A node is above what has it as a prefix.
LEMMA BelowMeans ==
    ASSUME NEW a \in Paths, NEW b \in Paths
    PROVE  Below(a, b) <=> Len(a) <= Len(b) /\ \A k \in 1 .. Len(a) : a[k] = b[k]
<1>1. CASE Len(a) <= Len(b)
  <2> DEFINE s == SubSeq(b, 1, Len(a))
  <2>1. s \in Seq({1, 2}) /\ Len(s) = Len(a) /\ \A k \in 1 .. Len(a) : s[k] = b[k]
    BY <1>1, SubSeqProperties DEF Paths
  <2>2. s = a <=> \A k \in 1 .. Len(a) : a[k] = s[k]
    BY <2>1, SeqEqual DEF Paths
  <2> QED
    BY <1>1, <2>1, <2>2 DEF Below
<1>2. CASE ~(Len(a) <= Len(b))
  BY <1>2 DEF Below
<1> QED
  BY <1>1, <1>2

LEMMA BelowEqual ==
    ASSUME NEW a \in Paths, NEW b \in Paths, Below(a, b), Len(a) = Len(b)
    PROVE  a = b
BY BelowMeans, SeqEqual DEF Paths

LEMMA BelowOrder ==
    ASSUME NEW a \in Paths, NEW b \in Paths, NEW c \in Paths
    PROVE  /\ Below(a, a) /\ Below(<<>>, a) /\ <<>> \in Paths
           /\ Below(a, b) /\ Below(b, c) => Below(a, c)
           /\ Below(a, c) /\ Below(b, c) => Below(a, b) \/ Below(b, a)
<1>1. Len(a) \in Nat /\ Len(b) \in Nat /\ Len(c) \in Nat
  BY DEF Paths
<1>2. <<>> \in Paths /\ Len(<<>>) = 0
  BY DEF Paths
<1> QED
  BY <1>1, <1>2, BelowMeans

\* A child of a node.
LEMMA BelowChild ==
    ASSUME NEW a \in Paths, NEW b \in Paths, NEW i \in {1, 2}
    PROVE  /\ Append(a, i) \in Paths /\ Len(Append(a, i)) = Len(a) + 1
           /\ Below(a, Append(a, i))
           /\ Below(Append(a, i), b) <=> Below(a, b) /\ Len(a) < Len(b) /\ b[Len(a) + 1] = i
           /\ Below(b, Append(a, i)) <=> b = Append(a, i) \/ Below(b, a)
           /\ ~Below(Append(a, i), a)
<1> DEFINE n == Append(a, i)
<1>1. /\ n \in Paths /\ Len(n) = Len(a) + 1 /\ n[Len(a) + 1] = i
      /\ \A k \in 1 .. Len(a) : n[k] = a[k]
  BY AppendProperties DEF Paths
<1>2. Len(a) \in Nat /\ Len(b) \in Nat
  BY DEF Paths
<1>3. Below(a, n) /\ ~Below(n, a)
  <2> HIDE DEF n
  <2> QED
    BY <1>1, <1>2, BelowMeans
<1>4. Below(n, b) <=> Below(a, b) /\ Len(a) < Len(b) /\ b[Len(a) + 1] = i
  <2> HIDE DEF n
  <2> QED
    BY <1>1, <1>2, BelowMeans
<1>5. Below(b, n) <=> b = n \/ Below(b, a)
  <2> HIDE DEF n
  <2>1. Below(b, n) /\ Len(b) = Len(n) => b = n
    BY <1>1, BelowEqual
  <2>2. b = n => Below(b, n)
    BY <1>1, BelowOrder
  <2>3. Below(b, n) /\ Len(b) # Len(n) => Below(b, a)
    BY <1>1, <1>2, BelowMeans
  <2>4. Below(b, a) => Below(b, n)
    BY <1>1, <1>2, BelowMeans
  <2> QED
    BY <2>1, <2>2, <2>3, <2>4
<1> QED
  BY <1>1, <1>3, <1>4, <1>5

-----------------------------------------------------------------------------
(* Tabs *)

\* The first leaf of a node is one, and that of a split is that of its first child.
LEMMA FirstUnique ==
    ASSUME NEW T, IsTab(T), NEW n \in Paths, NEW x, NEW y,
           IsFirst(T.leaves, n, x), IsFirst(T.leaves, n, y)
    PROVE  x = y
<1>1. x \in Paths /\ y \in Paths /\ x \in T.leaves /\ y \in T.leaves
  BY DEF IsTab, IsFirst
<1>2. Below(n, x) /\ Below(n, y)
  BY DEF IsFirst
<1>3. /\ \A k \in Len(n) + 1 .. Len(x) : x[k] = 1
      /\ \A k \in Len(n) + 1 .. Len(y) : y[k] = 1
  BY DEF IsFirst
<1>4. Len(n) \in Nat /\ Len(x) \in Nat /\ Len(y) \in Nat
  BY <1>1 DEF Paths
<1>5. Below(x, y) \/ Below(y, x)
  BY <1>1, <1>2, <1>3, <1>4, BelowMeans, SMTT(20)
<1> QED
  BY <1>1, <1>5 DEF IsTab

LEMMA FirstChild ==
    ASSUME NEW T, IsTab(T), NEW n \in Paths, n \notin T.leaves, NEW x \in T.leaves, Below(n, x)
    PROVE  /\ Len(n) < Len(x)
           /\ \A i \in {1, 2} : \E y \in T.leaves : IsFirst(T.leaves, Append(n, i), y)
           /\ IsFirst(T.leaves, n, x) => IsFirst(T.leaves, Append(n, 1), x) /\ x[Len(n) + 1] = 1
<1>1. x \in Paths /\ Len(x) \in Nat /\ Len(n) \in Nat
  BY DEF IsTab, Paths
<1>2. Len(n) < Len(x)
  <2>1. Len(n) # Len(x)
    BY <1>1, BelowEqual
  <2> QED
    BY <2>1, <1>1, BelowMeans
<1> DEFINE k == Len(n) + 1
<1>3. k \in 1 .. Len(x) /\ SubSeq(x, 1, k - 1) = n
  BY <1>1, <1>2 DEF Below
<1>4. \A i \in {1, 2} : \E y \in T.leaves : IsFirst(T.leaves, Append(n, i), y)
  BY <1>3 DEF IsTab
<1>5. ASSUME IsFirst(T.leaves, n, x) PROVE IsFirst(T.leaves, Append(n, 1), x) /\ x[k] = 1
  <2>1. x[k] = 1 /\ \A j \in k + 1 .. Len(x) : x[j] = 1
    BY <1>5, <1>1, <1>3 DEF IsFirst
  <2>2. Below(Append(n, 1), x) /\ Len(Append(n, 1)) = k
    BY <2>1, <1>1, <1>2, BelowChild
  <2> QED
    BY <2>1, <2>2 DEF IsFirst
<1> QED
  BY <1>2, <1>4, <1>5

LEMMA FirstRoot ==
    ASSUME NEW T, IsTab(T)
    PROVE  \E y \in T.leaves : IsFirst(T.leaves, <<>>, y)
<1>1. PICK x \in T.leaves : TRUE
  BY DEF IsTab
<1>2. x \in Paths /\ <<>> \in Paths /\ Below(<<>>, x) /\ Len(<<>>) = 0
  BY BelowOrder DEF IsTab, Paths
<1>3. CASE <<>> \in T.leaves
  BY <1>2, <1>3, BelowOrder DEF IsFirst
<1>4. CASE <<>> \notin T.leaves
  <2>1. PICK y \in T.leaves : IsFirst(T.leaves, Append(<<>>, 1), y)
    BY <1>2, <1>4, FirstChild
  <2>2. y \in Paths /\ Len(y) \in Nat
    BY DEF IsTab, Paths
  <2> DEFINE r == Append(<<>>, 1)
  <2>5. Len(r) = Len(<<>>) + 1 /\ (Below(r, y) => Len(<<>>) < Len(y) /\ y[Len(<<>>) + 1] = 1)
    BY <2>2, <1>2, BelowChild
  <2>6. Below(r, y) /\ \A k \in Len(r) + 1 .. Len(y) : y[k] = 1
    BY <2>1 DEF IsFirst
  <2> HIDE DEF r
  <2>3. Below(<<>>, y) /\ Len(y) > 0 /\ y[1] = 1 /\ \A k \in 2 .. Len(y) : y[k] = 1
    BY <2>5, <2>6, <2>2, <1>2, BelowOrder
  <2>4. \A k \in 1 .. Len(y) : y[k] = 1
    BY <2>2, <2>3
  <2> QED
    BY <2>3, <2>4, <1>2 DEF IsFirst
<1> QED
  BY <1>3, <1>4

-----------------------------------------------------------------------------
(* The stack *)

\* After a split come those of the children that are still to split, then the rest.
LEMMA ChildFrames ==
    ASSUME NEW f \in Frame, NEW m \in Paths
    PROVE  /\ Children(f, m) \in Seq(Frame)
           /\ FirstOf(f).node \in tab.leaves /\ SecondOf(f, m).node \in tab.leaves =>
                Len(Children(f, m)) = 0
           /\ FirstOf(f).node \in tab.leaves /\ SecondOf(f, m).node \notin tab.leaves =>
                Len(Children(f, m)) = 1 /\ Children(f, m)[1] = SecondOf(f, m)
           /\ FirstOf(f).node \notin tab.leaves /\ SecondOf(f, m).node \in tab.leaves =>
                Len(Children(f, m)) = 1 /\ Children(f, m)[1] = FirstOf(f)
           /\ FirstOf(f).node \notin tab.leaves /\ SecondOf(f, m).node \notin tab.leaves =>
                /\ Len(Children(f, m)) = 2
                /\ Children(f, m)[1] = FirstOf(f) /\ Children(f, m)[2] = SecondOf(f, m)
<1> DEFINE f1 == FirstOf(f)
           f2 == SecondOf(f, m)
           c == Children(f, m)
<1>1. f.node \in Paths /\ f.anchor \in Paths
  BY DEF Frame
<1>2. Append(f.node, 1) \in Paths /\ Append(f.node, 2) \in Paths
  BY <1>1, BelowChild
<1>3. f1 \in Frame /\ f2 \in Frame
  BY <1>1, <1>2 DEF Frame, FirstOf, SecondOf
<1>4. c = (IF f1.node \in tab.leaves THEN <<>> ELSE <<f1>>)
            \o (IF f2.node \in tab.leaves THEN <<>> ELSE <<f2>>)
  BY DEF Children, Unsplit, FirstOf, SecondOf
<1> HIDE DEF f1, f2, c
<1>5. /\ <<>> \in Seq(Frame) /\ <<f1>> \in Seq(Frame) /\ <<f2>> \in Seq(Frame)
      /\ Len(<<f1>>) = 1 /\ <<f1>>[1] = f1 /\ Len(<<f2>>) = 1 /\ <<f2>>[1] = f2
  BY <1>3
<1>6. <<>> \o <<>> = <<>> /\ <<f1>> \o <<>> = <<f1>> /\ <<>> \o <<f2>> = <<f2>>
  BY <1>5, ConcatEmptySeq
<1>7. /\ <<f1>> \o <<f2>> \in Seq(Frame) /\ Len(<<f1>> \o <<f2>>) = 2
      /\ (<<f1>> \o <<f2>>)[1] = f1 /\ (<<f1>> \o <<f2>>)[2] = f2
  BY <1>3, <1>5, ConcatProperties
<1>8. Len(<<>>) = 0
  OBVIOUS
<1>9. CASE f1.node \in tab.leaves /\ f2.node \in tab.leaves
  BY <1>4, <1>5, <1>6, <1>8, <1>9 DEF f1, f2, c
<1>10. CASE f1.node \in tab.leaves /\ f2.node \notin tab.leaves
  BY <1>4, <1>5, <1>6, <1>10 DEF f1, f2, c
<1>11. CASE f1.node \notin tab.leaves /\ f2.node \in tab.leaves
  BY <1>4, <1>5, <1>6, <1>11 DEF f1, f2, c
<1>12. CASE f1.node \notin tab.leaves /\ f2.node \notin tab.leaves
  BY <1>4, <1>7, <1>12 DEF f1, f2, c
<1> QED
  BY <1>9, <1>10, <1>11, <1>12

LEMMA Frames ==
    ASSUME NEW s \in Seq(Frame), s # <<>>, NEW m \in Paths
    PROVE  /\ Grow(s, m) \in Seq(Frame)
           /\ Len(Children(s[1], m)) \in 0 .. 2
           /\ Len(Grow(s, m)) = Len(Children(s[1], m)) + Len(s) - 1
           /\ \A k \in 1 .. Len(Children(s[1], m)) : Grow(s, m)[k] = Children(s[1], m)[k]
           /\ \A k \in Len(Children(s[1], m)) + 1 .. Len(Grow(s, m)) :
                Grow(s, m)[k] = s[k - Len(Children(s[1], m)) + 1]
<1> DEFINE c == Children(s[1], m)
           r == Tail(s)
           s2 == Grow(s, m)
<1>1. s[1] \in Frame /\ Len(s) \in Nat \ {0}
  BY EmptySeq
<1>2. r \in Seq(Frame) /\ Len(r) = Len(s) - 1 /\ \A k \in 1 .. Len(r) : r[k] = s[k + 1]
  BY HeadTailProperties
<1>3. c \in Seq(Frame) /\ Len(c) \in 0 .. 2
  <2>1. c \in Seq(Frame) /\ (Len(c) = 0 \/ Len(c) = 1 \/ Len(c) = 2)
    BY <1>1, ChildFrames
  <2> QED
    BY <2>1
<1>4. s2 = c \o r
  BY DEF Grow
<1> HIDE DEF c, r, s2
<1>5. /\ s2 \in Seq(Frame) /\ Len(s2) = Len(c) + Len(r)
      /\ \A k \in 1 .. Len(c) + Len(r) : s2[k] = IF k <= Len(c) THEN c[k] ELSE r[k - Len(c)]
  <2>1. c \in Seq(Frame) /\ r \in Seq(Frame)
    BY <1>2, <1>3
  <2> QED
    BY <2>1, <1>4, ConcatProperties
<1>6. \A k \in 1 .. Len(c) : s2[k] = c[k]
  <2>1. Len(c) \in Nat /\ Len(r) \in Nat
    BY <1>1, <1>2, <1>3
  <2> QED
    BY <2>1, <1>5
<1>7. \A k \in Len(c) + 1 .. Len(s2) : s2[k] = s[k - Len(c) + 1]
  <2> SUFFICES ASSUME NEW k \in Len(c) + 1 .. Len(s2) PROVE s2[k] = s[k - Len(c) + 1]
    OBVIOUS
  <2>1. k - Len(c) \in 1 .. Len(r) /\ k \in 1 .. Len(c) + Len(r) /\ ~(k <= Len(c))
    BY <1>1, <1>2, <1>3, <1>5
  <2>2. s2[k] = r[k - Len(c)]
    BY <2>1, <1>5
  <2> QED
    BY <2>1, <2>2, <1>2
<1> QED
  BY <1>1, <1>2, <1>3, <1>5, <1>6, <1>7 DEF c, r, s2

\* An inner node and a path below it.
LEMMA BelowSplit ==
    ASSUME NEW n \in Paths, NEW b \in Paths
    PROVE  /\ Below(n, b) => b = n \/ Below(Append(n, 1), b) \/ Below(Append(n, 2), b)
           /\ Below(Append(n, 1), b) => ~Below(Append(n, 2), b)
           /\ Below(Append(n, 1), b) \/ Below(Append(n, 2), b) => Below(n, b) /\ b # n
<1>1. Len(n) \in Nat /\ Len(b) \in Nat
  BY DEF Paths
<1>2. Len(n) < Len(b) => b[Len(n) + 1] \in {1, 2}
  BY ElementOfSeq DEF Paths
<1>3. Below(n, b) => b = n \/ Len(n) < Len(b)
  BY <1>1, BelowEqual DEF Below
<1> QED
  BY <1>1, <1>2, <1>3, BelowChild

\* Everything about a split that the invariants need: the new stack is as good as the old
\* one, and beside the panes that exist it leaves one more.
LEMMA Grown ==
    ASSUME IsTab(tab), NEW s, GoodStack(s), s # <<>>,
           NEW m, IsFirst(tab.leaves, Append(s[1].node, 2), m)
    PROVE  /\ GoodStack(Grow(s, m))
           /\ ~Made(s, m)
           /\ \A leaf \in tab.leaves : Made(Grow(s, m), leaf) <=> Made(s, leaf) \/ leaf = m
           /\ \A leaf \in tab.leaves : \A at :
                Made(s, leaf) /\ leaf # s[1].anchor /\ InPlace(s, leaf, at) => InPlace(Grow(s, m), leaf, at)
           /\ InPlace(Grow(s, m), s[1].anchor, Append(s[1].node, 1))
           /\ InPlace(Grow(s, m), m, Append(s[1].node, 2))
<1> DEFINE n == s[1].node
           a == s[1].anchor
           n1 == Append(n, 1)
           n2 == Append(n, 2)
           f1 == FirstOf(s[1])
           f2 == SecondOf(s[1], m)
           s2 == Grow(s, m)
           c == Children(s[1], m)
           l == Len(c)
<1>1. /\ s \in Seq(Frame) /\ Len(s) \in Nat \ {0} /\ 1 \in DOMAIN s /\ DOMAIN s = 1 .. Len(s)
      /\ \A k \in DOMAIN s : s[k] \in Frame /\ s[k].node \in Paths /\ s[k].anchor \in Paths
  <2>1. s \in Seq(Frame)
    BY DEF GoodStack
  <2>2. Len(s) \in Nat \ {0} /\ DOMAIN s = 1 .. Len(s)
    BY <2>1, EmptySeq
  <2>3. \A k \in DOMAIN s : s[k] \in Frame
    BY <2>1, <2>2
  <2> QED
    BY <2>1, <2>2, <2>3 DEF Frame
<1>2. n \in Paths /\ a \in Paths /\ n1 \in Paths /\ n2 \in Paths /\ m \in Paths /\ m \in tab.leaves
  BY <1>1, BelowChild DEF IsTab, IsFirst
<1>3. /\ s2 \in Seq(Frame) /\ DOMAIN s2 = 1 .. Len(s2)
      /\ l \in 0 .. 2 /\ Len(s2) = l + Len(s) - 1
      /\ \A k \in l + 1 .. Len(s2) : s2[k] = s[k - l + 1]
      /\ \A k \in 1 .. l : s2[k] = c[k]
  <2>1. s \in Seq(Frame) /\ m \in Paths
    BY <1>1, <1>2
  <2>2. s2 \in Seq(Frame)
    BY <2>1, Frames
  <2>3. DOMAIN s2 = 1 .. Len(s2)
    BY <2>2
  <2> QED
    BY <2>1, <2>2, <2>3, Frames
<1>10. f1.node = n1 /\ f1.anchor = a /\ f2.node = n2 /\ f2.anchor = m
  BY DEF FirstOf, SecondOf
<1>17. /\ n1 \in tab.leaves /\ n2 \in tab.leaves => l = 0
       /\ n1 \in tab.leaves /\ n2 \notin tab.leaves => l = 1 /\ c[1] = f2
       /\ n1 \notin tab.leaves /\ n2 \in tab.leaves => l = 1 /\ c[1] = f1
       /\ n1 \notin tab.leaves /\ n2 \notin tab.leaves => l = 2 /\ c[1] = f1 /\ c[2] = f2
  BY <1>1, <1>2, <1>10, ChildFrames, ZenonT(30)
<1>4. n \notin tab.leaves /\ IsFirst(tab.leaves, n, a) /\ a \in tab.leaves
  BY <1>1 DEF GoodStack, IsFirst
<1>5. IsFirst(tab.leaves, n1, a) /\ Below(n, a)
  BY <1>2, <1>4, FirstChild DEF IsFirst
<1>6. Below(n1, a) /\ ~Below(n2, a) /\ Below(n2, m) /\ ~Below(n1, m) /\ Below(n, m) /\ m # a
  BY <1>2, <1>5, BelowSplit DEF IsFirst
<1>7. \A k \in DOMAIN s : k # 1 =>
        /\ ~Below(n, s[k].node) /\ ~Below(s[k].node, n)
        /\ \A b \in Paths : Below(n, b) => ~Below(s[k].node, b)
  BY <1>1, <1>2, BelowOrder DEF GoodStack
<1>8. \A k \in DOMAIN s : k # 1 =>
        /\ ~Below(n1, s[k].node) /\ ~Below(s[k].node, n1)
        /\ ~Below(n2, s[k].node) /\ ~Below(s[k].node, n2)
  BY <1>1, <1>2, <1>7, BelowChild
<1>9. ~Below(n1, n2) /\ ~Below(n2, n1) /\ Below(n, n1) /\ Below(n, n2)
  <2>1. Below(n1, n1) /\ Below(n2, n2) /\ Below(n, n1) /\ Below(n, n2)
    BY <1>2, BelowOrder, BelowChild
  <2> QED
    BY <1>2, <2>1, BelowSplit
<1> HIDE DEF s2, n, a, n1, n2, f1, f2, c, l
<1>19. /\ l >= 1 => s2[1] = c[1] /\ 1 \in DOMAIN s2
       /\ l = 2 => s2[2] = c[2] /\ 2 \in DOMAIN s2
  BY <1>1, <1>3
<1>20. \A k \in DOMAIN s2 : k <= l =>
         \/ s2[k] = f1 /\ n1 \notin tab.leaves
         \/ s2[k] = f2 /\ n2 \notin tab.leaves
  <2> SUFFICES ASSUME NEW k \in DOMAIN s2, k <= l
               PROVE  \/ s2[k] = f1 /\ n1 \notin tab.leaves
                      \/ s2[k] = f2 /\ n2 \notin tab.leaves
    OBVIOUS
  <2>1. k = 1 \/ (k = 2 /\ l = 2)
    BY <1>3
  <2>2. l # 0 /\ (l = 1 \/ l = 2)
    BY <1>3, <2>1
  <2> QED
    BY <1>17, <1>19, <2>1, <2>2, <1>3
<1>11. \A k \in DOMAIN s2 :
         \/ s2[k] = f1 /\ n1 \notin tab.leaves
         \/ s2[k] = f2 /\ n2 \notin tab.leaves
         \/ \E j \in DOMAIN s : j # 1 /\ s2[k] = s[j]
  <2> SUFFICES ASSUME NEW k \in DOMAIN s2, k > l
               PROVE  \E j \in DOMAIN s : j # 1 /\ s2[k] = s[j]
    BY <1>3, <1>20
  <2>1. k - l + 1 \in DOMAIN s /\ k - l + 1 # 1 /\ k \in l + 1 .. Len(s2)
    BY <1>1, <1>3
  <2> QED
    BY <1>3, <2>1
<1>18. \A j \in DOMAIN s : j # 1 => \E k \in DOMAIN s2 : s2[k] = s[j]
  <2> SUFFICES ASSUME NEW j \in DOMAIN s, j # 1 PROVE \E k \in DOMAIN s2 : s2[k] = s[j]
    OBVIOUS
  <2> DEFINE k == j + l - 1
  <2>2. k \in l + 1 .. Len(s2) /\ k \in DOMAIN s2 /\ k - l + 1 = j
    BY <1>1, <1>3
  <2>3. s2[k] = s[k - l + 1]
    BY <1>3, <2>2
  <2> QED
    BY <2>2, <2>3
<1>12. /\ n1 \notin tab.leaves => \E k \in DOMAIN s2 : s2[k] = f1
       /\ n2 \notin tab.leaves => \E k \in DOMAIN s2 : s2[k] = f2
       /\ \A j \in DOMAIN s : j # 1 => \E k \in DOMAIN s2 : s2[k] = s[j]
  <2>1. /\ n1 \notin tab.leaves => \E k \in DOMAIN s2 : s2[k] = f1
        /\ n2 \notin tab.leaves => \E k \in DOMAIN s2 : s2[k] = f2
    BY <1>17, <1>19, <1>3
  <2> QED
    BY <2>1, <1>18
<1>13. \A j, k \in DOMAIN s2 : Below(s2[j].node, s2[k].node) => j = k
  <2> SUFFICES ASSUME NEW j \in DOMAIN s2, NEW k \in DOMAIN s2, Below(s2[j].node, s2[k].node)
               PROVE  j = k
    OBVIOUS
  <2>2. CASE j > l /\ k > l
    <3>1. j - l + 1 \in DOMAIN s /\ k - l + 1 \in DOMAIN s
      BY <1>1, <1>3, <2>2, SMTT(20)
    <3>2. s2[j] = s[j - l + 1] /\ s2[k] = s[k - l + 1]
      <4>1. j \in l + 1 .. Len(s2) /\ k \in l + 1 .. Len(s2)
        BY <1>3, <2>2
      <4> QED
        BY <4>1, <1>3
    <3>3. j - l + 1 = k - l + 1
      BY <3>1, <3>2 DEF GoodStack
    <3> QED
      BY <3>3, <1>3
  <2>3. CASE j <= l /\ k > l
    <3>1. k - l + 1 \in DOMAIN s /\ k - l + 1 # 1 /\ s2[k] = s[k - l + 1]
      <4>1. k \in l + 1 .. Len(s2) /\ k - l + 1 \in 2 .. Len(s)
        BY <1>1, <1>3, <2>3
      <4> QED
        BY <4>1, <1>1, <1>3, SMTT(20)
    <3>2. s2[j] = f1 \/ s2[j] = f2
      BY <1>20, <2>3
    <3> QED
      BY <3>1, <3>2, <1>8, <1>10
  <2>4. CASE j > l /\ k <= l
    <3>1. j - l + 1 \in DOMAIN s /\ j - l + 1 # 1 /\ s2[j] = s[j - l + 1]
      <4>1. j \in l + 1 .. Len(s2) /\ j - l + 1 \in 2 .. Len(s)
        BY <1>1, <1>3, <2>4
      <4> QED
        BY <4>1, <1>1, <1>3
    <3>2. s2[k] = f1 \/ s2[k] = f2
      BY <1>20, <2>4
    <3> QED
      BY <3>1, <3>2, <1>8, <1>10
  <2>5. CASE j <= l /\ k <= l
    <3>1. j \in {1, 2} /\ k \in {1, 2} /\ (j = k \/ l = 2)
      BY <1>3, <2>5
    <3>2. l = 2 => c[1] = f1 /\ c[2] = f2
      BY <1>17
    <3> QED
      BY <1>9, <1>10, <1>19, <3>1, <3>2
  <2> QED
    BY <2>2, <2>3, <2>4, <2>5, <1>3
<1>14. GoodStack(s2)
  <2>1. \A k \in DOMAIN s2 :
          s2[k].node \notin tab.leaves /\ IsFirst(tab.leaves, s2[k].node, s2[k].anchor)
    <3>1. IsFirst(tab.leaves, n2, m)
      BY DEF n2, n
    <3>2. \A j \in DOMAIN s : s[j].node \notin tab.leaves /\ IsFirst(tab.leaves, s[j].node, s[j].anchor)
      BY DEF GoodStack
    <3> SUFFICES ASSUME NEW k \in DOMAIN s2
                 PROVE  s2[k].node \notin tab.leaves /\ IsFirst(tab.leaves, s2[k].node, s2[k].anchor)
      OBVIOUS
    <3> QED
      BY <1>5, <1>10, <1>11, <3>1, <3>2
  <2> QED
    BY <1>3, <1>13, <2>1 DEF GoodStack
<1>15. ~Made(s, m)
  BY <1>1, <1>6 DEF Made, n, a
<1>16. ASSUME NEW leaf \in tab.leaves
       PROVE  Made(s2, leaf) <=> Made(s, leaf) \/ leaf = m
  <2>1. leaf \in Paths
    BY DEF IsTab
  <2>2. ASSUME Made(s, leaf), NEW k \in DOMAIN s2, Below(s2[k].node, leaf)
        PROVE  leaf = s2[k].anchor
    <3>1. CASE s2[k] = f1 \/ s2[k] = f2
      <4>1. Below(n, leaf)
        <5>1. Below(n1, leaf) \/ Below(n2, leaf)
          BY <3>1, <1>10, <2>2
        <5> QED
          BY <5>1, <1>2, <2>1, BelowSplit DEF n1, n2
      <4>2. leaf = a
        BY <4>1, <1>1, <2>2 DEF Made, n, a
      <4> QED
        BY <3>1, <4>2, <1>6, <1>10, <2>2
    <3>2. CASE \E j \in DOMAIN s : j # 1 /\ s2[k] = s[j]
      BY <3>2, <2>2 DEF Made
    <3> QED
      BY <3>1, <3>2, <1>11
  <2>3. ASSUME leaf = m, NEW k \in DOMAIN s2, Below(s2[k].node, leaf)
        PROVE  leaf = s2[k].anchor
    <3>1. s2[k] # f1 /\ ~\E j \in DOMAIN s : j # 1 /\ s2[k] = s[j]
      BY <2>1, <2>3, <1>6, <1>7, <1>10
    <3> QED
      BY <3>1, <2>3, <1>10, <1>11
  <2>4. ASSUME Made(s2, leaf), leaf # m PROVE Made(s, leaf)
    <3> SUFFICES ASSUME NEW j \in DOMAIN s, Below(s[j].node, leaf) PROVE leaf = s[j].anchor
      BY DEF Made
    <3>1. CASE j # 1
      BY <3>1, <1>12, <2>4 DEF Made
    <3>2. CASE j = 1
      <4>1. Below(n, leaf) /\ leaf # n
        BY <3>2, <1>4 DEF n
      <4>2. CASE Below(n1, leaf)
        <5>1. CASE n1 \in tab.leaves
          <6>1. n1 = leaf /\ n1 = a
            BY <4>2, <5>1, <1>4, <1>6 DEF IsTab
          <6> QED
            BY <6>1, <3>2 DEF a
        <5>2. CASE n1 \notin tab.leaves
          BY <4>2, <5>2, <1>10, <1>12, <2>4, <3>2 DEF Made, a
        <5> QED
          BY <5>1, <5>2
      <4>3. CASE Below(n2, leaf)
        <5>1. CASE n2 \in tab.leaves
          BY <4>3, <5>1, <1>2, <1>6, <2>4 DEF IsTab
        <5>2. CASE n2 \notin tab.leaves
          BY <4>3, <5>2, <1>10, <1>12, <2>4 DEF Made
        <5> QED
          BY <5>1, <5>2
      <4> QED
        BY <4>1, <4>2, <4>3, <1>2, <2>1, BelowSplit DEF n1, n2
    <3> QED
      BY <3>1, <3>2
  <2> QED
    BY <2>2, <2>3, <2>4 DEF Made
<1>21. ASSUME NEW leaf \in tab.leaves, NEW at, Made(s, leaf), leaf # a, InPlace(s, leaf, at)
       PROVE  InPlace(s2, leaf, at)
  <2>1. leaf # m
    BY <1>15, <1>21
  <2>2. \A k \in DOMAIN s2 : leaf = s2[k].anchor => at = s2[k].node
    BY <1>10, <1>11, <1>21, <2>1 DEF InPlace
  <2>3. ASSUME \A k \in DOMAIN s2 : leaf # s2[k].anchor PROVE at = leaf
    <3>1. \A j \in DOMAIN s : leaf # s[j].anchor
      BY <1>12, <1>21, <2>3 DEF a
    <3> QED
      BY <1>21, <3>1 DEF InPlace
  <2> QED
    BY <2>2, <2>3 DEF InPlace
<1>22. \A j \in DOMAIN s : j # 1 => s[j].anchor # a /\ s[j].anchor # m
  <2> SUFFICES ASSUME NEW j \in DOMAIN s, j # 1 PROVE s[j].anchor # a /\ s[j].anchor # m
    OBVIOUS
  <2>1. Below(s[j].node, s[j].anchor) /\ s[j].anchor \in Paths
    BY <1>1 DEF GoodStack, IsFirst
  <2>2. Below(n, a) /\ Below(n, m)
    BY <1>5, <1>6
  <2> QED
    BY <1>7, <2>1, <2>2
<1>23. InPlace(s2, a, n1)
  <2>1. \A k \in DOMAIN s2 : a = s2[k].anchor => n1 = s2[k].node
    BY <1>6, <1>10, <1>11, <1>22
  <2>2. ASSUME \A k \in DOMAIN s2 : a # s2[k].anchor PROVE n1 = a
    <3>1. n1 \in tab.leaves
      BY <1>10, <1>12, <2>2
    <3> QED
      BY <3>1, <1>4, <1>6 DEF IsTab
  <2> QED
    BY <2>1, <2>2 DEF InPlace
<1>24. InPlace(s2, m, n2)
  <2>1. \A k \in DOMAIN s2 : m = s2[k].anchor => n2 = s2[k].node
    BY <1>6, <1>10, <1>11, <1>22
  <2>2. ASSUME \A k \in DOMAIN s2 : m # s2[k].anchor PROVE n2 = m
    <3>1. n2 \in tab.leaves
      BY <1>10, <1>12, <2>2
    <3> QED
      BY <3>1, <1>2, <1>6 DEF IsTab
  <2> QED
    BY <2>1, <2>2 DEF InPlace
<1> QED
  BY <1>14, <1>15, <1>16, <1>21, <1>23, <1>24 DEF s2, n, a, n1, n2

-----------------------------------------------------------------------------
(* Types *)

LEMMA Shape ==
    ASSUME Typed
    PROVE  /\ DOMAIN snapshot = 1 .. Len(snapshot) /\ Len(snapshot) \in Nat \ {0}
           /\ \A x \in DOMAIN snapshot :
                /\ DOMAIN snapshot[x] = 1 .. Len(snapshot[x]) /\ Len(snapshot[x]) \in Nat \ {0}
                /\ \A y \in DOMAIN snapshot[x] : IsTab(snapshot[x][y])
           /\ w \in Nat /\ t \in Nat /\ IsTab(tab)
<1>1. /\ snapshot = [x \in 1 .. Len(snapshot) |-> snapshot[x]] /\ Len(snapshot) \in Nat \ {0}
      /\ \A x \in 1 .. Len(snapshot) :
           /\ snapshot[x] = [y \in 1 .. Len(snapshot[x]) |-> snapshot[x][y]]
           /\ Len(snapshot[x]) \in Nat \ {0}
           /\ \A y \in 1 .. Len(snapshot[x]) : IsTab(snapshot[x][y])
  BY LayoutAssumption DEF Typed
<1>2. DOMAIN snapshot = 1 .. Len(snapshot)
  BY <1>1
<1>3. \A x \in DOMAIN snapshot : DOMAIN snapshot[x] = 1 .. Len(snapshot[x])
  BY <1>1, <1>2
<1>4. w \in DOMAIN snapshot /\ t \in DOMAIN snapshot[w]
  BY DEF Typed
<1>5. w \in Nat /\ t \in Nat
  BY <1>1, <1>2, <1>3, <1>4
<1>6. \A x \in DOMAIN snapshot : \A y \in DOMAIN snapshot[x] : IsTab(snapshot[x][y])
  BY <1>1, <1>2, <1>3
<1>7. IsTab(tab)
  BY <1>4, <1>6 DEF tab
<1> QED
  BY <1>1, <1>2, <1>3, <1>5, <1>6, <1>7

\* A file that is replaced, synced or rewritten.
LEMMA FileSteps ==
    ASSUME NEW S, NEW f \in FileOf(S), NEW v \in S
    PROVE  /\ f.now \in S /\ f.after \subseteq S /\ f.now \in f.after
           /\ Renamed(f, v) \in FileOf(S) /\ Renamed(f, v).now = v
           /\ Renamed(f, v).after = f.after \union {v}
           /\ Synced(f) \in FileOf(S) /\ Synced(f).now = f.now /\ Synced(f).after = {f.now}
           /\ Stored(v) \in FileOf(S) /\ Stored(v).now = v /\ Stored(v).after = {v}
BY DEF FileOf, Renamed, Synced, Stored

\* What is written over a journal.
LEMMA JournalSteps ==
    ASSUME NEW r \in Journal
    PROVE  /\ r # NoFile /\ r.steps \in Seq(Step) /\ Len(r.steps) \in Nat
           /\ \A s \in {"restoring", "done", "failed"} :
                /\ [r EXCEPT !.state = s] \in Journal /\ [r EXCEPT !.state = s].state = s
                /\ [r EXCEPT !.state = s].steps = r.steps
           /\ [r EXCEPT !.acknowledged = TRUE] \in Journal
           /\ [r EXCEPT !.acknowledged = TRUE].steps = r.steps
           /\ [r EXCEPT !.acknowledged = TRUE].state = r.state
<1>1. r # NoFile
  BY FileAssumption
<1>2. r.steps \in Seq(Step)
  BY DEF Journal
<1>3. Len(r.steps) \in Nat
  BY <1>2
<1> QED
  BY <1>1, <1>2, <1>3 DEF Journal

LEMMA JournalMarks ==
    ASSUME NEW r \in Journal, NEW o \in Op, NEW e,
           e = [r EXCEPT !.steps = Append(@, [what |-> o, outcome |-> "sending"])]
    PROVE  /\ e \in Journal /\ e.state = r.state /\ Len(e.steps) = Len(r.steps) + 1
           /\ \A k \in 1 .. Len(r.steps) : e.steps[k] = r.steps[k]
           /\ e.steps[Len(r.steps) + 1] = [what |-> o, outcome |-> "sending"]
<1> DEFINE s == [what |-> o, outcome |-> "sending"]
<1>1. s \in Step
  BY DEF Step
<1>2. r.steps \in Seq(Step)
  BY DEF Journal
<1> HIDE DEF s
<1>3. /\ Append(r.steps, s) \in Seq(Step) /\ Len(Append(r.steps, s)) = Len(r.steps) + 1
      /\ \A k \in 1 .. Len(r.steps) : Append(r.steps, s)[k] = r.steps[k]
      /\ Append(r.steps, s)[Len(r.steps) + 1] = s
  BY <1>1, <1>2, AppendProperties
<1>4. e = [r EXCEPT !.steps = Append(r.steps, s)]
  BY DEF s
<1>5. e.steps = Append(r.steps, s) /\ e.state = r.state /\ e \in Journal
  BY <1>3, <1>4 DEF Journal
<1> QED
  BY <1>3, <1>5 DEF s

LEMMA JournalAnswers ==
    ASSUME NEW r \in Journal, Len(r.steps) > 0, NEW e,
           e = [r EXCEPT !.steps[Len(r.steps)].outcome = "applied"]
    PROVE  /\ e \in Journal /\ e.state = r.state /\ Len(e.steps) = Len(r.steps)
           /\ \A k \in 1 .. Len(r.steps) :
                /\ e.steps[k].what = r.steps[k].what
                /\ k # Len(r.steps) => e.steps[k] = r.steps[k]
           /\ e.steps[Len(r.steps)].outcome = "applied"
<1> DEFINE n == Len(r.steps)
           s == [r.steps[n] EXCEPT !.outcome = "applied"]
           q == [r.steps EXCEPT ![n] = s]
<1>1. r.steps \in Seq(Step) /\ n \in Nat /\ n \in 1 .. Len(r.steps)
  <2>1. r.steps \in Seq(Step)
    BY DEF Journal
  <2>2. Len(r.steps) \in Nat
    BY <2>1
  <2> QED
    BY <2>1, <2>2
<1>2. r.steps[n] \in Step
  BY <1>1
<1>3. s \in Step /\ s.what = r.steps[n].what /\ s.outcome = "applied"
  BY <1>2 DEF Step
<1> HIDE DEF s
<1>4. /\ q \in Seq(Step) /\ Len(q) = n
      /\ \A k \in 1 .. n : q[k] = IF k = n THEN s ELSE r.steps[k]
  BY <1>1, <1>3, ExceptSeq
<1>5. e = [r EXCEPT !.steps = q]
  BY DEF s
<1> HIDE DEF q
<1>6. e.steps = q /\ e.state = r.state /\ e \in Journal
  BY <1>4, <1>5 DEF Journal
<1> QED
  BY <1>1, <1>3, <1>4, <1>6

\* The mutation a stage asks for.
LEMMA Mutations ==
    ASSUME Typed, WorkInv, Working
    PROVE  /\ Mutation \in Op /\ Mutation.method = stage /\ Mutation.w = w /\ Mutation.t = t
           /\ stage = "layout.apply" => Mutation.run = allowed
           /\ stage = "pane.split" =>
                /\ Mutation.node = stack[1].node /\ Mutation.anchor = stack[1].anchor
                /\ IsFirst(tab.leaves, Append(stack[1].node, 2), Mutation.at)
           /\ stage = "pane.rename" => Mutation.at = op.at
           /\ stage = "pane.send_input" => Mutation.at = launches[1]
<1> DEFINE m == [NoOp EXCEPT !.method = stage, !.w = w, !.t = t]
<1>1. /\ m \in Op /\ m.method = stage /\ m.w = w /\ m.t = t
  <2>1. NoOp \in Op
    BY BelowOrder DEF NoOp, Op, Paths
  <2> QED
    BY <2>1, Shape DEF Op, Working
<1> HIDE DEF m
<1>2. stage \in Methods /\ IsTab(tab)
  BY Shape DEF Working
<1>3. CASE stage = "layout.apply"
  <2>1. Mutation = [m EXCEPT !.run = allowed]
    BY <1>3 DEF Mutation, m
  <2> QED
    BY <1>1, <1>3, <2>1 DEF Op, Typed
<1>4. CASE stage = "pane.split"
  <2> DEFINE f == stack[1]
             n2 == Append(f.node, 2)
  <2>1. f \in Frame /\ f.node \notin tab.leaves /\ IsFirst(tab.leaves, f.node, f.anchor)
    <3>1. stack \in Seq(Frame) /\ stack # <<>>
      BY <1>4 DEF WorkInv, GoodStack
    <3>2. 1 \in DOMAIN stack
      BY <3>1, EmptySeq
    <3> QED
      BY <3>1, <3>2 DEF WorkInv, GoodStack
  <2> HIDE DEF f
  <2>2. f.node \in Paths /\ f.anchor \in Paths /\ f.anchor \in tab.leaves /\ Below(f.node, f.anchor)
    BY <2>1 DEF Frame, IsFirst
  <2>3. \E y \in tab.leaves : IsFirst(tab.leaves, n2, y)
    BY <1>2, <2>1, <2>2, FirstChild
  <2>4. IsFirst(tab.leaves, n2, FirstLeaf(n2)) /\ FirstLeaf(n2) \in Paths
    BY <1>2, <2>3 DEF FirstLeaf, IsFirst, IsTab
  <2>5. Mutation = [m EXCEPT !.node = f.node, !.anchor = f.anchor, !.at = FirstLeaf(n2)]
    BY <1>4 DEF Mutation, m, f
  <2> HIDE DEF n2
  <2> QED
    BY <1>1, <1>4, <2>2, <2>4, <2>5 DEF Op, f, n2
<1>5. CASE stage = "pane.rename"
  <2>1. Mutation = [m EXCEPT !.at = op.at] /\ op.at \in Paths
    BY <1>5 DEF Mutation, m, Typed, Op
  <2> QED
    BY <1>1, <1>5, <2>1 DEF Op
<1>6. CASE stage = "pane.send_input"
  <2>1. launches[1] \in Paths
    <3>1. launches \in Seq(tab.commands) /\ launches # <<>>
      BY <1>6 DEF WorkInv, GoodLaunches
    <3>2. launches[1] \in tab.commands
      BY <3>1, EmptySeq
    <3> QED
      BY <3>2, <1>2 DEF IsTab
  <2>2. Mutation = [m EXCEPT !.at = launches[1], !.run = TRUE]
    BY <1>6 DEF Mutation, m
  <2> QED
    BY <1>1, <1>6, <2>1, <2>2 DEF Op
<1>7. CASE stage \notin {"layout.apply", "pane.split", "pane.rename", "pane.send_input"}
  BY <1>1, <1>7 DEF Mutation, m
<1> QED
  BY <1>3, <1>4, <1>5, <1>6, <1>7

-----------------------------------------------------------------------------
(* Moves *)

Here == w' = w /\ t' = t

\* The tab is done: the focus, the next tab, the next workspace or the end.
Onward ==
    \/ Here /\ stage' = "focusTab"
    \/ w' = w /\ t' = t + 1 /\ stage' = "layout.apply" /\ t < Len(snapshot[w])
    \/ Here /\ stage' = "focusWorkspace" /\ t = Len(snapshot[w])
    \/ w' = w + 1 /\ t' = 1 /\ stage' = "workspace.create" /\ t = Len(snapshot[w]) /\ w < Len(snapshot)
    \/ Here /\ stage' \in {"focusAll", "archive"} /\ t = Len(snapshot[w]) /\ w = Len(snapshot)

\* On with what is left to split, then with what is left to type, then with the next tab.
Continue ==
    \/ Here /\ stage' = "pane.split" /\ stack' # <<>>
    \/ Here /\ stage' = "pane.send_input" /\ stack' = <<>> /\ launches' # <<>>
    \/ Onward /\ stack' = <<>> /\ launches' = <<>>

LEMMA Places ==
    ASSUME Typed
    PROVE  /\ Go(AfterPanes) => Onward
           /\ Go(AfterTab) => Onward /\ stage' # "focusTab"
           /\ t = Len(snapshot[w]) /\ Go(AfterWorkspace) =>
                Onward /\ stage' \in {"workspace.create", "focusAll", "archive"}
<1>1. /\ w \in 1 .. Len(snapshot) /\ Len(snapshot) \in Nat
      /\ t \in 1 .. Len(snapshot[w]) /\ Len(snapshot[w]) \in Nat
  BY Shape DEF Typed
<1>2. t = Len(snapshot[w]) /\ Go(AfterWorkspace) =>
        Onward /\ stage' \in {"workspace.create", "focusAll", "archive"}
  BY <1>1 DEF Go, AfterWorkspace, At, Onward, Here
<1>3. Go(AfterTab) => Onward /\ stage' # "focusTab"
  <2>1. CASE t < Len(snapshot[w])
    BY <2>1, <1>1 DEF Go, AfterTab, At, Onward, Here
  <2>2. CASE ~(t < Len(snapshot[w])) /\ focus
    BY <2>2, <1>1 DEF Go, AfterTab, At, Onward, Here
  <2>3. CASE ~(t < Len(snapshot[w])) /\ ~focus
    <3>1. t = Len(snapshot[w]) /\ AfterTab = AfterWorkspace
      BY <2>3, <1>1 DEF AfterTab
    <3> QED
      BY <3>1, <1>2
  <2> QED
    BY <2>1, <2>2, <2>3
<1>4. Go(AfterPanes) => Onward
  <2>1. CASE focus
    BY <2>1 DEF Go, AfterPanes, At, Onward, Here
  <2>2. CASE ~focus
    BY <2>2, <1>3 DEF AfterPanes
  <2> QED
    BY <2>1, <2>2
<1> QED
  BY <1>2, <1>3, <1>4

\* Where an answered mutation leads.
LEMMA Advances ==
    ASSUME Typed, PlaceInv, WorkInv, OpInv, Advance
    PROVE  /\ Working /\ phase = "record" /\ phase' = "ready" /\ snapshot' = snapshot
           /\ \/ /\ stage = "workspace.create" /\ Here /\ stage' = "layout.apply"
                 /\ UNCHANGED work
              \/ /\ stage = "layout.apply" /\ Continue /\ launches' = <<>>
                 /\ stack' = IF Bulk THEN <<>> ELSE Unsplit(<<>>, FirstLeaf(<<>>))
              \/ /\ stage = "pane.split" /\ stack' = Grow(stack, op.at)
                 /\ launches' = IF op.at \in tab.commands THEN Append(launches, op.at) ELSE launches
                 /\ (Here /\ stage' = "pane.rename") \/ Continue
              \/ stage = "pane.rename" /\ Continue /\ UNCHANGED work
              \/ /\ stage = "pane.send_input" /\ Continue /\ stage' # "pane.split"
                 /\ stack = <<>> /\ stack' = <<>> /\ launches' = Tail(launches)
              \/ stage = "focusTab" /\ Onward /\ stage' # "focusTab" /\ UNCHANGED work
              \/ /\ stage = "focusWorkspace" /\ Onward /\ UNCHANGED work
                 /\ stage' \in {"workspace.create", "focusAll", "archive"}
              \/ stage = "focusAll" /\ Here /\ stage' = "archive" /\ UNCHANGED work
<1>1. ASSUME NEW l, NEW c, stack' = l, launches' = c, Go(AfterSplit(l, c))
      PROVE  Continue
  <2>1. CASE l # <<>>
    BY <1>1, <2>1 DEF Continue, AfterSplit, At, Go, Here
  <2>2. CASE l = <<>> /\ c # <<>>
    BY <1>1, <2>2 DEF Continue, AfterSplit, AfterLaunch, At, Go, Here
  <2>3. CASE l = <<>> /\ c = <<>>
    BY <1>1, <2>3, Places DEF Continue, AfterSplit, AfterLaunch
  <2> QED
    BY <2>1, <2>2, <2>3
<1>2. stage \in Methods /\ phase = "record" /\ phase' = "ready" /\ snapshot' = snapshot
  <2>1. \A next : Go(next) => snapshot' = snapshot
    BY DEF Go
  <2>2. phase = "record" /\ phase' = "ready"
    BY DEF Advance
  <2>3. stage \in Methods
    BY <2>2 DEF OpInv, Working
  <2> QED
    BY <2>1, <2>2, <2>3 DEF Advance, Methods
<1>3. CASE stage = "workspace.create"
  <2>1. Go(At("layout.apply", w, 1)) /\ UNCHANGED work /\ t = 1
    BY <1>3 DEF Advance, PlaceInv
  <2> QED
    BY <1>2, <1>3, <2>1 DEF Go, At, Here, Working
<1>4. CASE stage = "layout.apply"
  <2>1. /\ stack' = IF Bulk THEN <<>> ELSE Unsplit(<<>>, FirstLeaf(<<>>))
        /\ launches' = <<>> /\ Go(AfterSplit(stack', <<>>))
    BY <1>4 DEF Advance
  <2> QED
    BY <1>1, <1>2, <1>4, <2>1 DEF Working
<1>5. CASE stage = "pane.split"
  <2>1. /\ stack' = Grow(stack, op.at)
        /\ launches' = IF op.at \in tab.commands THEN Append(launches, op.at) ELSE launches
        /\ Go(IF op.at \in tab.labels THEN At("pane.rename", w, t) ELSE AfterSplit(stack', launches'))
    BY <1>5 DEF Advance, Grow
  <2>2. (Here /\ stage' = "pane.rename") \/ Continue
    <3>1. CASE op.at \in tab.labels
      BY <2>1, <3>1 DEF Go, At, Here
    <3>2. CASE op.at \notin tab.labels
      BY <2>1, <3>2, <1>1
    <3> QED
      BY <3>1, <3>2
  <2> QED
    BY <1>2, <1>5, <2>1, <2>2 DEF Working
<1>6. CASE stage = "pane.rename"
  <2>1. Go(AfterSplit(stack, launches)) /\ UNCHANGED work
    BY <1>6 DEF Advance
  <2>2. stack' = stack /\ launches' = launches
    BY <2>1 DEF work
  <2> QED
    BY <1>1, <1>2, <1>6, <2>1, <2>2 DEF Working
<1>7. CASE stage = "pane.send_input"
  <2>1. launches' = Tail(launches) /\ Go(AfterLaunch(launches')) /\ stack' = stack
    BY <1>7 DEF Advance
  <2>2. stack = <<>>
    BY <1>2, <1>7 DEF WorkInv, Working
  <2>3. Go(AfterSplit(<<>>, launches'))
    BY <2>1 DEF AfterSplit
  <2>4. Continue
    BY <1>1, <2>1, <2>2, <2>3
  <2>5. stage' # "pane.split"
    BY <2>1, <2>2, <2>4 DEF Continue, Onward
  <2> QED
    BY <1>2, <1>7, <2>1, <2>2, <2>4, <2>5 DEF Working
<1>8. CASE stage = "focusTab"
  <2>1. Go(AfterTab) /\ UNCHANGED work
    BY <1>8 DEF Advance
  <2> QED
    BY <1>2, <1>8, <2>1, Places DEF Working
<1>9. CASE stage = "focusWorkspace"
  <2>1. Go(AfterWorkspace) /\ UNCHANGED work /\ t = Len(snapshot[w])
    BY <1>9 DEF Advance, PlaceInv
  <2> QED
    BY <1>2, <1>9, <2>1, Places DEF Working
<1>10. CASE stage = "focusAll"
  <2>1. Go(At("archive", w, t)) /\ UNCHANGED work
    BY <1>10 DEF Advance
  <2> QED
    BY <1>2, <1>10, <2>1 DEF Go, At, Here, Working
<1> QED
  BY <1>2, <1>3, <1>4, <1>5, <1>6, <1>7, <1>8, <1>9, <1>10 DEF Methods

LEMMA Skips ==
    ASSUME Typed, WorkInv, SkipLaunch
    PROVE  /\ stage = "pane.send_input" /\ phase = "ready" /\ phase' = "ready" /\ ~allowed
           /\ snapshot' = snapshot /\ Continue /\ stage' # "pane.split"
           /\ stack = <<>> /\ stack' = <<>> /\ launches' = Tail(launches)
<1>1. /\ stage = "pane.send_input" /\ phase = "ready" /\ phase' = "ready" /\ ~allowed
      /\ launches' = Tail(launches) /\ Go(AfterLaunch(launches')) /\ stack' = stack
  BY DEF SkipLaunch
<1>2. stack = <<>>
  BY <1>1 DEF WorkInv, Working, Methods
<1>3. CASE launches' # <<>>
  BY <1>1, <1>2, <1>3 DEF AfterLaunch, Go, At, Continue, Here
<1>4. CASE launches' = <<>>
  <2>1. Onward
    BY <1>1, <1>4, Places DEF AfterLaunch
  <2> QED
    BY <1>1, <1>2, <1>4, <2>1 DEF Go, Continue, Onward
<1> QED
  BY <1>3, <1>4

-----------------------------------------------------------------------------
(* Where the reconstruction is *)

\* A step that moves on within the list of mutations; every other one stays where it is.
Moves == Advance \/ SkipLaunch
Endings == {"archiveSync", "remove", "removeSync", "failSync", "ended"}
Stays ==
    /\ UNCHANGED <<place, work>>
    /\ \/ UNCHANGED stage /\ (phase' = phase \/ phase # "ready" \/ Mark)
       \/ stage' \in Endings /\ phase' = "ready"
       \/ stage = "idle" /\ stage' = "beginSync" /\ phase' = "ready"
       \/ stage = "beginSync" /\ stage' = "workspace.create" /\ phase' = "ready"
    /\ UNCHANGED op \/ (Mark /\ op' = Mutation /\ UNCHANGED stage)
    /\ denied => denied'

LEMMA Stayed ==
    ASSUME OpInv, Next, ~Moves
    PROVE  Stays
<1>1. CASE Begin
  BY <1>1 DEF Begin, Stays, outside, OpInv, Working, Methods
<1>2. CASE BeginSync
  BY <1>2 DEF BeginSync, Stays, outside, OpInv, Working, Methods
<1>3. CASE Mark
  BY <1>3 DEF Mark, Stays, outside
<1>4. CASE MarkSync \/ Request \/ Answer
  BY <1>4 DEF MarkSync, Request, Answer, Stays, outside
<1>5. CASE Fail \/ Abort \/ PowerCut
  BY <1>5 DEF Fail, Abort, PowerCut, Stays, outside, Endings
<1>6. CASE FailSync \/ Archive \/ Acknowledge \/ ArchiveSync \/ Remove \/ RemoveSync
  <2>1. stage \notin Methods /\ phase' = phase
    BY <1>6 DEF FailSync, Archive, Acknowledge, ArchiveSync, Remove, RemoveSync, Methods
  <2>2. phase = "ready"
    BY <2>1 DEF OpInv, Working
  <2> QED
    BY <1>6, <2>1, <2>2
       DEF FailSync, Archive, Acknowledge, ArchiveSync, Remove, RemoveSync, Stays, Endings, outside
<1>7. CASE CarryOut \/ Refuse \/ EditPolicy \/ Restart
  BY <1>7 DEF CarryOut, Refuse, EditPolicy, Restart, Stays, outside
<1> QED
  BY <1>1, <1>2, <1>3, <1>4, <1>5, <1>6, <1>7 DEF Next, Moves

LEMMA TabStays ==
    ASSUME Here, snapshot' = snapshot
    PROVE  tab' = tab
BY DEF Here, tab

LEMMA PlaceStep ==
    ASSUME Typed, PlaceInv, WorkInv, OpInv, [Next]_vars
    PROVE  /\ PlaceInv' /\ stage' \in Stages
           /\ snapshot' \in Layouts /\ focus' \in BOOLEAN
           /\ w' \in DOMAIN snapshot' /\ t' \in DOMAIN snapshot'[w']
<1>1. /\ DOMAIN snapshot = 1 .. Len(snapshot) /\ Len(snapshot) \in Nat
      /\ w \in 1 .. Len(snapshot) /\ t \in 1 .. Len(snapshot[w])
      /\ \A x \in DOMAIN snapshot :
           DOMAIN snapshot[x] = 1 .. Len(snapshot[x]) /\ Len(snapshot[x]) \in Nat \ {0}
  BY Shape DEF Typed
<1>2. CASE UNCHANGED vars
  BY <1>2 DEF vars, place, PlaceInv, Typed
<1>3. CASE Stays
  <2>1. UNCHANGED place
    BY <1>3 DEF Stays
  <2>2. \/ stage' = stage \/ stage' \in Endings
        \/ stage = "idle" /\ stage' = "beginSync"
        \/ stage = "beginSync" /\ stage' = "workspace.create"
    BY <1>3 DEF Stays
  <2>3. PlaceInv'
    BY <2>1, <2>2 DEF place, PlaceInv, Endings
  <2>4. stage' \in Stages
    BY <2>2 DEF Typed, Stages, Methods, Endings, Finishing
  <2> QED
    BY <2>1, <2>3, <2>4 DEF Typed, place
<1>4. ASSUME Onward, snapshot' = snapshot, focus' = focus
      PROVE  /\ PlaceInv' /\ stage' \in Stages
             /\ snapshot' \in Layouts /\ focus' \in BOOLEAN
             /\ w' \in DOMAIN snapshot' /\ t' \in DOMAIN snapshot'[w']
  <2>1. /\ PlaceInv' /\ stage' \in Stages
    BY <1>1, <1>4 DEF Onward, Here, PlaceInv, Stages, Methods, Finishing
  <2>2. w' \in DOMAIN snapshot /\ t' \in DOMAIN snapshot[w']
    BY <1>1, <1>4 DEF Onward, Here, Typed
  <2> QED
    BY <2>1, <2>2, <1>4 DEF Typed
<1>5. ASSUME Here, snapshot' = snapshot, focus' = focus,
             stage' \in {"pane.split", "pane.rename", "pane.send_input"}
      PROVE  /\ PlaceInv' /\ stage' \in Stages
             /\ snapshot' \in Layouts /\ focus' \in BOOLEAN
             /\ w' \in DOMAIN snapshot' /\ t' \in DOMAIN snapshot'[w']
  BY <1>5 DEF PlaceInv, Stages, Methods, Typed, Here
<1>6. CASE Moves
  <2>1. snapshot' = snapshot /\ focus' = focus
    <3>1. \A next : Go(next) => snapshot' = snapshot /\ focus' = focus
      BY DEF Go
    <3>2. CASE SkipLaunch
      BY <3>1, <3>2 DEF SkipLaunch
    <3>3. CASE Advance
      <4>1. stage \in Methods
        BY <3>3, Advances DEF Working
      <4> QED
        BY <3>1, <3>3, <4>1 DEF Advance, Methods
    <3> QED
      BY <1>6, <3>2, <3>3 DEF Moves
  <2>2. CASE Continue
    BY <2>1, <2>2, <1>4, <1>5 DEF Continue
  <2>3. CASE Advance /\ ~Continue
    <3>1. CASE Onward
      BY <3>1, <2>1, <1>4
    <3>2. CASE Here /\ stage' = "pane.rename"
      BY <3>2, <2>1, <1>5
    <3>3. CASE stage = "workspace.create" /\ Here /\ stage' = "layout.apply"
      BY <3>3, <2>1 DEF PlaceInv, Stages, Methods, Typed, Here
    <3>4. CASE stage = "focusAll" /\ Here /\ stage' = "archive"
      BY <3>4, <2>1 DEF PlaceInv, Stages, Finishing, Typed, Here
    <3> QED
      BY <2>3, <3>1, <3>2, <3>3, <3>4, Advances
  <2> QED
    BY <1>6, <2>2, <2>3, Skips DEF Moves
<1> QED
  BY <1>2, <1>3, <1>6, Stayed

LEMMA EmptyWork ==
    /\ GoodStack(<<>>) /\ GoodLaunches(<<>>, <<>>)
    /\ \A leaf : Made(<<>>, leaf)
BY DEF GoodStack, GoodLaunches, Made

LEMMA GoodSame ==
    ASSUME tab' = tab
    PROVE  /\ GoodStack(stack') => GoodStack(stack)'
           /\ GoodLaunches(stack', launches') => GoodLaunches(stack, launches)'
BY DEF GoodStack, GoodLaunches, Made

LEMMA WorkStep ==
    ASSUME Typed, PlaceInv, WorkInv, OpInv, [Next]_vars
    PROVE  WorkInv'
<1>1. IsTab(tab)
  BY Shape
<1>2. CASE UNCHANGED vars
  <2>1. UNCHANGED <<tab, stack, launches, stage, op, snapshot, w, t>>
    BY <1>2 DEF vars, place, work, tab
  <2> QED
    BY <2>1 DEF WorkInv, GoodStack, GoodLaunches, Made, Working
<1>3. CASE Stays
  <2>1. UNCHANGED <<tab, stack, launches>>
    BY <1>3 DEF Stays, place, work, tab
  <2>2. GoodStack(stack)' /\ GoodLaunches(stack, launches)'
    BY <2>1 DEF WorkInv, GoodStack, GoodLaunches, Made
  <2>3. \/ stage' = stage \/ stage' \in Endings
        \/ stage = "idle" /\ stage' = "beginSync"
        \/ stage = "beginSync" /\ stage' = "workspace.create"
    BY <1>3 DEF Stays
  <2>4. stage' = "pane.rename" => stage = "pane.rename" /\ op'.at = op.at
    <3> SUFFICES ASSUME stage' = "pane.rename" PROVE stage = "pane.rename" /\ op'.at = op.at
      OBVIOUS
    <3>1. stage = "pane.rename"
      BY <2>3 DEF Endings
    <3> QED
      BY <3>1, <1>3, Mutations DEF Stays, Working, Methods
  <2>5. stage' = "pane.rename" => op'.at \in tab'.leaves /\ Made(stack, op.at)'
    BY <2>1, <2>4 DEF WorkInv, Made
  <2>6. /\ stage' \in {"idle", "beginSync"} => stage \in {"idle", "beginSync"}
        /\ stage' \in Methods \union {"archive"} => stage' = stage \/ stage = "beginSync"
    BY <2>3 DEF Endings, Methods
  <2>7. CASE stage' = stage
    BY <2>1, <2>2, <2>5, <2>7 DEF WorkInv, Working
  <2>8. CASE stage' \in Endings
    BY <2>2, <2>8 DEF WorkInv, Working, Methods, Endings
  <2>9. CASE stage \in {"idle", "beginSync"} /\ stage' \in {"beginSync", "workspace.create"}
    BY <2>1, <2>2, <2>9 DEF WorkInv
  <2> QED
    BY <2>3, <2>7, <2>8, <2>9
<1>4. ASSUME Onward, stack' = <<>>, launches' = <<>>
      PROVE  WorkInv'
  <2>1. GoodStack(stack)' /\ GoodLaunches(stack, launches)'
    BY <1>4 DEF GoodStack, GoodLaunches
  <2>2. stage' \notin {"pane.split", "pane.rename", "pane.send_input"}
    BY <1>4 DEF Onward
  <2> QED
    BY <2>1, <2>2, <1>4 DEF WorkInv, Working
<1>5. ASSUME Continue, snapshot' = snapshot, Here => GoodStack(stack') /\ GoodLaunches(stack', launches')
      PROVE  WorkInv'
  <2>1. CASE Onward /\ stack' = <<>> /\ launches' = <<>>
    BY <2>1, <1>4
  <2>2. CASE Here /\ stage' \in {"pane.split", "pane.send_input"}
    <3>1. GoodStack(stack)' /\ GoodLaunches(stack, launches)'
      BY <1>5, <2>2, TabStays, GoodSame
    <3>2. /\ stage' = "pane.split" => stack' # <<>>
          /\ stage' = "pane.send_input" => stack' = <<>> /\ launches' # <<>>
      BY <1>5, <2>2 DEF Continue, Onward
    <3> QED
      BY <2>2, <3>1, <3>2 DEF WorkInv, Working
  <2> QED
    BY <1>5, <2>1, <2>2 DEF Continue
<1>6. ASSUME stage = "pane.send_input", stack = <<>>, stack' = <<>>, launches' = Tail(launches),
             Continue, snapshot' = snapshot
      PROVE  WorkInv'
  <2>1. GoodLaunches(<<>>, launches) /\ launches # <<>>
    BY <1>6 DEF WorkInv
  <2>2. GoodLaunches(stack', launches')
    <3>1. launches \in Seq(tab.commands)
      BY <2>1 DEF GoodLaunches
    <3>2. /\ launches' \in Seq(tab.commands) /\ Len(launches') = Len(launches) - 1
          /\ \A k \in 1 .. Len(launches') : launches'[k] = launches[k + 1]
      BY <2>1, <3>1, <1>6, HeadTailProperties
    <3>3. \A k \in 1 .. Len(launches') : k + 1 \in DOMAIN launches
      BY <3>1, <3>2
    <3>4. DOMAIN launches' = 1 .. Len(launches')
      BY <3>2
    <3>5. ASSUME NEW j \in 1 .. Len(launches'), NEW k \in 1 .. Len(launches'),
                 launches'[j] = launches'[k]
          PROVE  j = k
      <4>1. \A x, y \in DOMAIN launches : launches[x] = launches[y] => x = y
        BY <2>1 DEF GoodLaunches
      <4>2. launches[j + 1] = launches[k + 1]
        BY <3>2, <3>5
      <4>3. j + 1 = k + 1
        BY <3>3, <4>1, <4>2
      <4> QED
        BY <4>3
    <3> QED
      BY <1>6, <3>2, <3>4, <3>5, EmptyWork DEF GoodLaunches
  <2> QED
    BY <1>5, <1>6, <2>2, EmptyWork
<1>7. CASE SkipLaunch
  BY <1>6, <1>7, Skips
<1>8. CASE Advance
  <2>0. snapshot' = snapshot /\ stage \in Methods
    BY <1>8, Advances DEF Working
  <2>1. CASE stage = "workspace.create"
    <3>1. stack = <<>> /\ launches = <<>>
      BY <2>1 DEF WorkInv, Working, Methods
    <3>2. stack' = <<>> /\ launches' = <<>> /\ stage' = "layout.apply"
      BY <1>8, <2>1, <3>1, Advances DEF work
    <3> QED
      BY <3>2 DEF WorkInv, Working, GoodStack, GoodLaunches
  <2>2. CASE stage = "layout.apply"
    <3>1. /\ Continue /\ launches' = <<>>
          /\ stack' = IF Bulk THEN <<>> ELSE Unsplit(<<>>, FirstLeaf(<<>>))
      BY <1>8, <2>2, Advances
    <3>2. GoodStack(stack')
      <4>1. CASE stack' = <<>>
        BY <4>1, EmptyWork
      <4>2. CASE stack' # <<>>
        <5>1. /\ stack' = <<[node |-> <<>>, anchor |-> FirstLeaf(<<>>)]>>
              /\ <<>> \notin tab.leaves
          BY <3>1, <4>2 DEF Unsplit
        <5>2. IsFirst(tab.leaves, <<>>, FirstLeaf(<<>>))
          BY <1>1, FirstRoot DEF FirstLeaf
        <5>3. FirstLeaf(<<>>) \in Paths /\ <<>> \in Paths
          BY <1>1, <5>2, BelowOrder DEF IsTab, IsFirst
        <5> QED
          BY <5>1, <5>2, <5>3 DEF GoodStack, Frame
      <4> QED
        BY <4>1, <4>2
    <3> QED
      BY <1>5, <2>0, <3>1, <3>2 DEF GoodLaunches
  <2>3. CASE stage = "pane.split"
    <3> DEFINE s2 == Grow(stack, op.at)
    <3>1. /\ stack' = s2
          /\ (Here /\ stage' = "pane.rename") \/ Continue
          /\ launches' = IF op.at \in tab.commands THEN Append(launches, op.at) ELSE launches
      BY <1>8, <2>3, Advances
    <3>2. GoodStack(stack) /\ stack # <<>> /\ IsFirst(tab.leaves, Append(stack[1].node, 2), op.at)
      <4>1. phase # "ready"
        BY <1>8 DEF Advance
      <4> QED
        BY <2>3, <4>1 DEF WorkInv, OpInv
    <3>3. /\ GoodStack(s2) /\ ~Made(stack, op.at) /\ op.at \in tab.leaves
          /\ \A leaf \in tab.leaves : Made(s2, leaf) <=> Made(stack, leaf) \/ leaf = op.at
      BY <1>1, <3>2, Grown DEF IsFirst
    <3> HIDE DEF s2
    <3>4. GoodLaunches(stack, launches) /\ tab.commands \subseteq tab.leaves
      BY <1>1 DEF WorkInv, IsTab
    <3>5. /\ launches \in Seq(tab.commands) /\ DOMAIN launches = 1 .. Len(launches)
          /\ Len(launches) \in Nat /\ \A k \in DOMAIN launches : launches[k] \in tab.leaves
      BY <3>4 DEF GoodLaunches
    <3>6. GoodLaunches(s2, launches')
      <4>1. CASE op.at \notin tab.commands
        BY <3>1, <3>3, <3>4, <3>5, <4>1 DEF GoodLaunches
      <4>2. CASE op.at \in tab.commands
        <5>1. /\ launches' \in Seq(tab.commands) /\ Len(launches') = Len(launches) + 1
              /\ \A k \in 1 .. Len(launches) : launches'[k] = launches[k]
              /\ launches'[Len(launches) + 1] = op.at
          <6>1. launches' = Append(launches, op.at)
            BY <3>1, <4>2
          <6> QED
            <7>1. launches \in Seq(tab.commands)
              BY <3>5
            <7> DEFINE l2 == Append(launches, op.at)
            <7>2. /\ l2 \in Seq(tab.commands) /\ Len(l2) = Len(launches) + 1
                  /\ \A k \in 1 .. Len(launches) : l2[k] = launches[k]
                  /\ l2[Len(launches) + 1] = op.at
              <8> DEFINE S == tab.commands
                         e == op.at
              <8>1. launches \in Seq(S) /\ e \in S
                BY <4>2, <7>1
              <8> HIDE DEF S, e
              <8>2. /\ Append(launches, e) \in Seq(S) /\ Len(Append(launches, e)) = Len(launches) + 1
                    /\ \A k \in 1 .. Len(launches) : Append(launches, e)[k] = launches[k]
                    /\ Append(launches, e)[Len(launches) + 1] = e
                BY <8>1, AppendProperties
              <8> QED
                BY <8>2 DEF S, e
            <7> QED
              BY <6>1, <7>2
        <5>2. DOMAIN launches' = 1 .. Len(launches')
          BY <5>1
        <5>3. \A k \in DOMAIN launches : launches[k] # op.at
          BY <3>3, <3>4 DEF GoodLaunches
        <5>4. \A k \in DOMAIN launches' : Made(s2, launches'[k])
          BY <3>3, <3>4, <3>5, <5>1, <5>2 DEF GoodLaunches
        <5>5. \A j, k \in DOMAIN launches' : launches'[j] = launches'[k] => j = k
          BY <3>4, <3>5, <5>1, <5>2, <5>3 DEF GoodLaunches
        <5> QED
          BY <5>1, <5>4, <5>5 DEF GoodLaunches
      <4> QED
        BY <4>1, <4>2
    <3>7. CASE Here /\ stage' = "pane.rename"
      <4>1. GoodStack(stack)' /\ GoodLaunches(stack, launches)' /\ tab' = tab
        <5>1. tab' = tab
          BY <2>0, <3>7, TabStays
        <5>2. GoodStack(stack') /\ GoodLaunches(stack', launches')
          BY <3>1, <3>3, <3>6
        <5> QED
          BY <5>1, <5>2, GoodSame
      <4>2. op' = op /\ Made(s2, op.at)
        BY <1>8, <3>3 DEF Advance
      <4>3. op'.at \in tab'.leaves /\ Made(stack, op.at)'
        <5>1. Made(stack', op.at)
          BY <3>1, <4>2
        <5> QED
          BY <3>3, <4>1, <4>2, <5>1 DEF Made
      <4> QED
        BY <3>7, <4>1, <4>3 DEF WorkInv, Working
    <3> QED
      <4>1. GoodStack(stack') /\ GoodLaunches(stack', launches')
        BY <3>1, <3>3, <3>6
      <4> QED
        BY <1>5, <2>0, <3>1, <3>7, <4>1
  <2>4. CASE stage = "pane.rename"
    <3>1. Continue /\ stack' = stack /\ launches' = launches
      BY <1>8, <2>4, Advances DEF work
    <3> QED
      BY <1>5, <2>0, <3>1 DEF WorkInv
  <2>5. CASE stage = "pane.send_input"
    BY <1>6, <1>8, <2>5, Advances
  <2>6. CASE stage \in {"focusTab", "focusWorkspace", "focusAll"}
    <3>1. stack = <<>> /\ launches = <<>>
      BY <2>6 DEF WorkInv, Working, Methods
    <3>2. stack' = <<>> /\ launches' = <<>> /\ (Onward \/ stage' = "archive")
      BY <1>8, <2>6, <3>1, Advances DEF work
    <3>3. CASE stage' = "archive"
      BY <3>2, <3>3 DEF WorkInv, Working, GoodStack, GoodLaunches
    <3> QED
      BY <1>4, <3>2, <3>3
  <2> QED
    BY <2>0, <2>1, <2>2, <2>3, <2>4, <2>5, <2>6 DEF Methods
<1> QED
  BY <1>2, <1>3, <1>7, <1>8, Stayed DEF Moves

LEMMA OpStep ==
    ASSUME Typed, PlaceInv, WorkInv, OpInv, [Next]_vars
    PROVE  OpInv'
<1>1. CASE UNCHANGED vars
  <2>1. UNCHANGED <<phase, stage, op, w, t, stack, launches, tab, denied>>
    BY <1>1 DEF vars, place, work, outside, tab
  <2> QED
    BY <2>1 DEF OpInv, Working
<1>2. CASE Moves
  <2>1. phase' = "ready"
    BY <1>2, Advances, Skips DEF Moves
  <2> QED
    BY <2>1 DEF OpInv
<1>3. CASE Stays
  <2> SUFFICES ASSUME phase' # "ready" PROVE OpInv'
    BY DEF OpInv
  <2>1. stage' = stage /\ (phase # "ready" \/ Mark) /\ UNCHANGED <<w, t, stack, launches, tab>>
    BY <1>3 DEF Stays, place, work, tab
  <2>2. CASE Mark
    <3>1. Working /\ op' = Mutation /\ UNCHANGED <<allowed, denied>>
      BY <2>2 DEF Mark, Working, outside
    <3>2. stage = "layout.apply" => Mutation.run \/ denied
      BY <3>1, Mutations DEF Typed
    <3> QED
      BY <2>1, <3>1, <3>2, Mutations DEF OpInv, Working
  <2>3. CASE ~Mark
    <3>1. phase # "ready" /\ op' = op /\ (denied => denied')
      BY <1>3, <2>1, <2>3 DEF Stays
    <3> QED
      BY <2>1, <3>1 DEF OpInv, Working
  <2> QED
    BY <2>2, <2>3
<1> QED
  BY <1>1, <1>2, <1>3, Stayed

LEMMA Files ==
    ASSUME Typed
    PROVE  /\ pending.now \in Journal \union {NoFile} /\ record.now \in Journal \union {NoFile}
           /\ pending.after \subseteq Journal \union {NoFile}
           /\ record.after \subseteq Journal \union {NoFile}
           /\ pending.now \in pending.after /\ record.now \in record.after
           /\ Synced(pending).now = pending.now /\ Synced(pending).after = {pending.now}
           /\ Synced(record).now = record.now /\ Synced(record).after = {record.now}
           /\ \A v : /\ Renamed(pending, v).now = v /\ Renamed(pending, v).after = pending.after \union {v}
                     /\ Renamed(record, v).now = v /\ Renamed(record, v).after = record.after \union {v}
                     /\ Stored(v).now = v /\ Stored(v).after = {v}
BY DEF Typed, FileOf, Synced, Renamed, Stored

LEMMA FilesStep ==
    ASSUME ProgressInv, [Next]_vars
    PROVE  /\ pending' \in FileOf(Journal \union {NoFile}) /\ record' \in FileOf(Journal \union {NoFile})
           /\ op' \in Op
<1> DEFINE F == FileOf(Journal \union {NoFile})
<1>1. /\ Typed /\ WorkInv /\ OpInv /\ JournalInv /\ PlaceInv
      /\ pending \in F /\ record \in F /\ op \in Op
  BY DEF ProgressInv, Typed
<1>2. /\ \A v \in Journal \union {NoFile} :
           Renamed(pending, v) \in F /\ Renamed(record, v) \in F /\ Stored(v) \in F
      /\ Synced(pending) \in F /\ Synced(record) \in F
  BY <1>1, FileSteps
<1>3. /\ pending.now \in Journal \union {NoFile}
      /\ pending.after \subseteq Journal \union {NoFile} /\ record.after \subseteq Journal \union {NoFile}
  BY <1>1, Files
<1> HIDE DEF F
<1>4. CASE Begin
  <2>1. [state |-> "restoring", acknowledged |-> FALSE, steps |-> <<>>] \in Journal
    BY DEF Journal
  <2> QED
    BY <1>1, <1>2, <1>4, <2>1 DEF Begin, F
<1>5. CASE BeginSync \/ MarkSync \/ FailSync \/ RemoveSync
  BY <1>1, <1>2, <1>5 DEF BeginSync, MarkSync, FailSync, RemoveSync, F
<1>6. CASE ArchiveSync
  BY <1>1, <1>2, <1>6 DEF ArchiveSync, F
<1>7. CASE Mark
  <2>1. pending.now \in Journal /\ Mutation \in Op
    BY <1>1, <1>3, <1>7, Mutations DEF Mark, JournalInv, Working
  <2> DEFINE e == [pending.now EXCEPT !.steps = Append(@, [what |-> Mutation, outcome |-> "sending"])]
  <2>2. e \in Journal
    BY <2>1, JournalMarks
  <2>3. pending' = Renamed(pending, e) /\ record' = record /\ op' = Mutation
    BY <1>7 DEF Mark
  <2> HIDE DEF e
  <2> QED
    BY <1>1, <1>2, <2>1, <2>2, <2>3 DEF F
<1>8. CASE Answer
  <2>1. pending.now \in Journal /\ Len(pending.now.steps) > 0
    <3>1. Working /\ phase = "await" /\ request = "done"
      BY <1>1, <1>8 DEF Answer, OpInv
    <3>2. pending.now # NoFile /\ Len(pending.now.steps) = Len(log) /\ log # <<>>
      BY <1>1, <3>1 DEF JournalInv
    <3>3. Len(log) > 0
      BY <1>1, <3>2, EmptySeq DEF Typed
    <3> QED
      BY <1>3, <3>2, <3>3
  <2> DEFINE e == [pending.now EXCEPT !.steps[Len(pending.now.steps)].outcome = "applied"]
  <2>2. e \in Journal
    BY <2>1, JournalAnswers
  <2>3. pending' = Renamed(pending, e) /\ record' = record /\ op' = op
    BY <1>8 DEF Answer
  <2> HIDE DEF e
  <2> QED
    BY <1>1, <1>2, <2>2, <2>3 DEF F
<1>9. CASE Fail
  <2>1. pending.now \in Journal
    BY <1>1, <1>3, <1>9 DEF Fail, JournalInv, Working
  <2>2. [pending.now EXCEPT !.state = "failed"] \in Journal
    BY <2>1, JournalSteps
  <2> QED
    BY <1>1, <1>2, <1>9, <2>2 DEF Fail, F
<1>10. CASE Archive
  <2>1. pending.now \in Journal
    BY <1>1, <1>3, <1>10 DEF Archive, JournalInv, Working
  <2>2. [pending.now EXCEPT !.state = "done"] \in Journal
    BY <2>1, JournalSteps
  <2> QED
    BY <1>1, <1>2, <1>10, <2>2 DEF Archive, F
<1>11. CASE Acknowledge
  <2>1. pending.now \in Journal
    BY <1>3, <1>11 DEF Acknowledge
  <2>2. [pending.now EXCEPT !.acknowledged = TRUE] \in Journal
    BY <2>1, JournalSteps
  <2> QED
    BY <1>1, <1>2, <1>11, <2>2 DEF Acknowledge, F
<1>12. CASE Remove
  BY <1>1, <1>2, <1>12 DEF Remove, F
<1>13. CASE PowerCut
  BY <1>1, <1>2, <1>3, <1>13 DEF PowerCut, F
<1>14. CASE Advance
  BY <1>1, <1>2, <1>14 DEF Advance, F
<1>15. CASE Request \/ SkipLaunch \/ Abort \/ CarryOut \/ Refuse \/ EditPolicy \/ Restart \/ UNCHANGED vars
  BY <1>1, <1>15 DEF Request, SkipLaunch, Abort, CarryOut, Refuse, EditPolicy, Restart, vars, journals, F
<1> QED
  BY <1>4, <1>5, <1>6, <1>7, <1>8, <1>9, <1>10, <1>11, <1>12, <1>13, <1>14, <1>15 DEF Next

LEMMA TypedStep ==
    ASSUME ProgressInv, [Next]_vars
    PROVE  Typed'
<1>1. Typed /\ PlaceInv /\ WorkInv /\ OpInv
  BY DEF ProgressInv
<1>2. /\ stage' \in Stages /\ snapshot' \in Layouts /\ focus' \in BOOLEAN
      /\ w' \in DOMAIN snapshot' /\ t' \in DOMAIN snapshot'[w']
  BY <1>1, PlaceStep
<1>3. /\ phase' \in Phases /\ request' \in {"none", "sent", "done", "refused"} /\ log' \in Seq(Op)
      /\ allowed' \in BOOLEAN /\ denied' \in BOOLEAN /\ sameServer' \in BOOLEAN
      /\ allowed' \/ denied'
  <2>0. /\ phase \in Phases /\ request \in {"none", "sent", "done", "refused"} /\ log \in Seq(Op)
        /\ allowed \in BOOLEAN /\ denied \in BOOLEAN /\ sameServer \in BOOLEAN
        /\ (allowed \/ denied) /\ op \in Op
    BY <1>1 DEF Typed
  <2>1. CASE Begin \/ BeginSync \/ FailSync \/ Archive \/ Acknowledge \/ ArchiveSync \/ Remove
               \/ RemoveSync \/ SkipLaunch \/ UNCHANGED vars
    BY <2>0, <2>1 DEF Begin, BeginSync, FailSync, Archive, Acknowledge, ArchiveSync, Remove, RemoveSync,
                      SkipLaunch, vars, host, outside
  <2>2. CASE Mark \/ MarkSync \/ Request \/ Answer \/ Advance \/ Fail \/ Abort
    BY <2>0, <2>2 DEF Mark, MarkSync, Request, Answer, Advance, Fail, Abort, Phases, host, outside
  <2>3. CASE CarryOut
    <3>1. log' = Append(log, op) /\ request' = "done" /\ phase' = phase /\ UNCHANGED outside
      BY <2>3 DEF CarryOut
    <3> QED
      BY <2>0, <3>1, AppendProperties DEF outside
  <2>4. CASE Refuse \/ EditPolicy \/ Restart \/ PowerCut
    BY <2>0, <2>4 DEF Refuse, EditPolicy, Restart, PowerCut, Phases, host, outside
  <2> QED
    BY <2>1, <2>2, <2>3, <2>4 DEF Next
<1> QED
  BY <1>2, <1>3, FilesStep DEF Typed

-----------------------------------------------------------------------------
(* What the journal tells *)

\* The host carries out what every record knew was asked for.
LEMMA CarriedOut ==
    ASSUME Typed, CarryOut, NEW r \in Journal, Knows(r)
    PROVE  /\ Knows(r)' /\ Tells(r)' /\ Len(r.steps) = Len(log') /\ log' # <<>>
<1>1. /\ request = "sent" /\ request' = "done" /\ log' = Append(log, op)
      /\ log \in Seq(Op) /\ op \in Op
  BY DEF CarryOut, Typed
<1>2. Len(log') = Len(log) + 1 /\ log' # <<>> /\ Len(log) \in Nat
      /\ (\A k \in 1 .. Len(log) : log'[k] = log[k]) /\ log'[Len(log) + 1] = op
  BY <1>1, AppendProperties
<1>3. r.steps \in Seq(Step) /\ Len(r.steps) \in Nat
  BY JournalSteps
<1>4. Tells(r) /\ Len(r.steps) = Len(log) + 1 /\ r.steps[Len(log) + 1].what = op
  BY <1>1 DEF Knows
<1>5. Tells(r)'
  BY <1>2, <1>3, <1>4 DEF Tells
<1> QED
  BY <1>1, <1>2, <1>4, <1>5 DEF Knows

\* Nothing that records are compared with has changed.
LEMMA SameTold ==
    ASSUME UNCHANGED <<log, op>>, request' = request \/ request' # "sent"
    PROVE  /\ \A r : (Tells(r) => Tells(r)') /\ (Knows(r) => Knows(r)')
           /\ \A r : (Settled(r) => Settled(r)') /\ (Marked(r) => Marked(r)')
           /\ Quiet => Quiet'
BY DEF Tells, Knows, Quiet, Settled, Marked

\* A record of all that was done, and one mutation more.
LEMMA MarkTells ==
    ASSUME Typed, NEW r \in Journal, Settled(r), NEW o \in Op, NEW e,
           e = [r EXCEPT !.steps = Append(@, [what |-> o, outcome |-> "sending"])]
    PROVE  /\ e \in Journal /\ e.state = r.state /\ Tells(e) /\ Len(e.steps) = Len(log) + 1
           /\ e.steps[Len(log) + 1].what = o
<1>1. /\ e \in Journal /\ e.state = r.state /\ Len(e.steps) = Len(r.steps) + 1
      /\ \A k \in 1 .. Len(r.steps) : e.steps[k] = r.steps[k]
      /\ e.steps[Len(r.steps) + 1] = [what |-> o, outcome |-> "sending"]
  BY JournalMarks
<1>2. Len(r.steps) = Len(log) /\ Len(log) \in Nat /\ Tells(r)
  BY DEF Settled, Typed
<1>3. e.steps[Len(r.steps) + 1].what = o /\ e.steps[Len(r.steps) + 1].outcome = "sending"
  BY <1>1
<1>4. \A k \in 1 .. Len(r.steps) : e.steps[k].outcome = "applied"
  BY <1>1 DEF Settled
<1>5. \A k \in 1 .. Len(log) : e.steps[k].what = log[k]
  BY <1>1, <1>2 DEF Tells
<1>6. Tells(e)
  BY <1>1, <1>2, <1>3, <1>4, <1>5 DEF Tells
<1> QED
  BY <1>1, <1>2, <1>3, <1>6

LEMMA MarkJournal ==
    ASSUME ProgressInv, Mark
    PROVE  JournalInv'
<1>1. Typed /\ WorkInv /\ JournalInv /\ Working /\ stage \in Methods
  BY DEF ProgressInv, Mark, Working
<1>2. /\ phase' = "mark" /\ phase = "ready" /\ op' = Mutation
      /\ UNCHANGED <<stage, record, log, request>>
  BY DEF Mark, host
<1>3. /\ pending.now # NoFile /\ pending.now.state = "restoring" /\ request = "none"
      /\ Settled(pending.now) /\ pending.after = {pending.now}
  BY <1>1, <1>2 DEF JournalInv
<1>4. PICK r \in Journal : r = pending.now
  BY <1>1, <1>3, Files
<1>5. PICK o \in Op : o = Mutation
  BY <1>1, Mutations
<1>6. PICK e : e = [r EXCEPT !.steps = Append(@, [what |-> o, outcome |-> "sending"])]
  OBVIOUS
<1>7. /\ e \in Journal /\ e.state = "restoring" /\ Tells(e) /\ Len(e.steps) = Len(log) + 1
      /\ e.steps[Len(log) + 1].what = o /\ Tells(r)
  BY <1>1, <1>3, <1>4, <1>6, MarkTells DEF Settled
<1>8. pending' = Renamed(pending, e)
  BY <1>4, <1>5, <1>6 DEF Mark
<1>9. pending'.now = e /\ pending'.after = {r, e} /\ e # NoFile /\ r # NoFile
  <2>1. Renamed(pending, e).now = e /\ Renamed(pending, e).after = pending.after \union {e}
    BY <1>1, Files
  <2>2. e # NoFile /\ r # NoFile
    BY <1>7, JournalSteps
  <2> QED
    BY <1>3, <1>4, <1>8, <2>1, <2>2
<1>10. Tells(r)' /\ Tells(e)'
  BY <1>2, <1>7 DEF Tells
<1>11. Marked(e)' /\ Knows(r)' /\ Knows(e)'
  BY <1>2, <1>3, <1>5, <1>7, <1>9, <1>10 DEF Marked, Knows
<1>12. Marked(pending.now)' /\ pending'.now.state = "restoring"
  BY <1>7, <1>9, <1>11
<1>13. Told(pending)' /\ \A f \in pending'.after : f # NoFile /\ Tells(f)' /\ Knows(f)'
  BY <1>9, <1>10, <1>11 DEF Told
<1> QED
  BY <1>1, <1>2, <1>3, <1>9, <1>12, <1>13 DEF JournalInv, Working, Methods

LEMMA AnswerTells ==
    ASSUME Typed, NEW r \in Journal, Tells(r), Len(r.steps) = Len(log), log # <<>>, NEW e,
           e = [r EXCEPT !.steps[Len(r.steps)].outcome = "applied"]
    PROVE  e \in Journal /\ e.state = r.state /\ Settled(e)
<1>1. /\ r.steps \in Seq(Step) /\ Len(r.steps) \in Nat
  BY JournalSteps
<1>2. Len(log) \in Nat \ {0}
  BY EmptySeq DEF Typed
<1>3. Len(r.steps) > 0
  BY <1>2
<1>4. /\ e \in Journal /\ e.state = r.state /\ Len(e.steps) = Len(r.steps)
      /\ \A k \in 1 .. Len(r.steps) :
           /\ e.steps[k].what = r.steps[k].what
           /\ k # Len(r.steps) => e.steps[k] = r.steps[k]
      /\ e.steps[Len(r.steps)].outcome = "applied"
  BY <1>3, JournalAnswers
<1>5. \A k \in 1 .. Len(r.steps) : r.steps[k].outcome \in {"sending", "applied"}
  <2>1. \A k \in 1 .. Len(r.steps) : r.steps[k] \in Step
    BY <1>1
  <2> QED
    BY <2>1 DEF Step
<1>6. \A k \in 1 .. Len(r.steps) : k # Len(r.steps) => r.steps[k].outcome = "applied"
  BY <1>5 DEF Tells
<1>7. \A k \in 1 .. Len(e.steps) : e.steps[k].outcome = "applied"
  BY <1>4, <1>6
<1>8. \A k \in 1 .. Len(log) : e.steps[k].what = log[k]
  BY <1>4 DEF Tells
<1>9. Tells(e)
  BY <1>1, <1>2, <1>4, <1>7, <1>8 DEF Tells
<1> QED
  BY <1>4, <1>7, <1>9, JournalSteps DEF Settled

LEMMA AnswerJournal ==
    ASSUME ProgressInv, Answer
    PROVE  JournalInv'
<1>1. Typed /\ JournalInv /\ Working /\ stage \in Methods
  BY DEF ProgressInv, Answer, OpInv, Working
<1>2. /\ phase' = "record" /\ phase = "await"
      /\ request = "done" /\ request' = "none" /\ UNCHANGED <<stage, record, log, op>>
  BY DEF Answer, host
<1>3. /\ pending.now # NoFile /\ pending.now.state = "restoring" /\ pending.after = {pending.now}
      /\ Tells(pending.now) /\ Len(pending.now.steps) = Len(log) /\ log # <<>>
  BY <1>1, <1>2 DEF JournalInv
<1>4. PICK r \in Journal : r = pending.now
  BY <1>1, <1>3, Files
<1>5. PICK e : e = [r EXCEPT !.steps[Len(r.steps)].outcome = "applied"]
  OBVIOUS
<1>6. e \in Journal /\ e.state = "restoring" /\ Settled(e) /\ Tells(r)
  BY <1>1, <1>3, <1>4, <1>5, AnswerTells
<1>7. pending' = Renamed(pending, e)
  BY <1>4, <1>5 DEF Answer
<1>8. pending'.now = e /\ pending'.after = {r, e} /\ e # NoFile /\ r # NoFile
  <2>1. Renamed(pending, e).now = e /\ Renamed(pending, e).after = pending.after \union {e}
    BY <1>1, Files
  <2>2. e # NoFile /\ r # NoFile
    BY <1>6, JournalSteps
  <2> QED
    BY <1>3, <1>4, <1>7, <2>1, <2>2
<1>9. Settled(e)' /\ Tells(r)' /\ Tells(e)'
  BY <1>2, <1>6 DEF Settled, Tells
<1>10. Knows(r)' /\ Knows(e)'
  BY <1>2, <1>9 DEF Knows
<1>11. Settled(pending.now)' /\ pending'.now.state = "restoring"
  BY <1>6, <1>8, <1>9
<1>12. Told(pending)' /\ \A f \in pending'.after : f # NoFile /\ Tells(f)' /\ Knows(f)'
  BY <1>8, <1>9, <1>10 DEF Told
<1> QED
  BY <1>1, <1>2, <1>3, <1>8, <1>11, <1>12 DEF JournalInv, Working, Methods

\* Every other step of the reconstruction.
LEMMA WorkJournal ==
    ASSUME ProgressInv, Begin \/ BeginSync \/ MarkSync \/ Request \/ Advance \/ SkipLaunch
    PROVE  JournalInv'
<1>1. Typed /\ PlaceInv /\ WorkInv /\ OpInv /\ JournalInv
  BY DEF ProgressInv
<1>2. CASE Begin
  <2>1. PICK e : e = [state |-> "restoring", acknowledged |-> FALSE, steps |-> <<>>]
    OBVIOUS
  <2>2. e \in Journal /\ e # NoFile /\ e.steps = <<>> /\ e.state = "restoring"
    <3>1. e \in Journal /\ e.steps = <<>> /\ e.state = "restoring"
      BY <2>1 DEF Journal
    <3> QED
      BY <3>1, JournalSteps
  <2>3. pending' = Renamed(pending, e) /\ stage' = "beginSync" /\ stage = "idle"
        /\ UNCHANGED <<log, request, record>>
    BY <1>2, <2>1 DEF Begin, host
  <2>4. pending'.now = e
    BY <1>1, <2>3, Files
  <2>5. log = <<>> /\ request = "none" /\ record = Stored(NoFile)
    BY <1>1, <2>3 DEF JournalInv
  <2>6. Quiet'
    BY <2>3, <2>5 DEF Quiet
  <2> QED
    BY <2>2, <2>3, <2>4, <2>5, <2>6 DEF JournalInv, Working, Methods
<1>3. CASE BeginSync
  <2>1. /\ pending' = Synced(pending) /\ stage' = "workspace.create" /\ stage = "beginSync"
        /\ UNCHANGED <<phase, log, request, op, record>>
    BY <1>3 DEF BeginSync, host
  <2>2. /\ log = <<>> /\ request = "none" /\ pending.now # NoFile
        /\ pending.now.steps = <<>> /\ pending.now.state = "restoring"
    BY <1>1, <2>1 DEF JournalInv
  <2>3. PICK r \in Journal : r = pending.now
    BY <1>1, <2>2, Files
  <2>4. pending'.now = r /\ pending'.after = {r} /\ r # NoFile
    BY <1>1, <2>1, <2>2, <2>3, Files
  <2>5. phase = "ready"
    BY <1>1, <2>1 DEF OpInv, Working, Methods
  <2>6. Settled(r)' /\ Tells(r)' /\ Quiet'
    BY <2>1, <2>2, <2>3, <2>4 DEF Settled, Tells, Quiet
  <2>7. Settled(pending.now)'
    BY <2>4, <2>6
  <2> QED
    BY <2>1, <2>2, <2>3, <2>4, <2>5, <2>6, <2>7 DEF JournalInv
<1>4. CASE MarkSync \/ Request
  <2>1. Working /\ stage' = stage /\ stage \in Methods /\ UNCHANGED <<log, op, record>>
    BY <1>1, <1>4 DEF MarkSync, Request, OpInv, Working, host, journals
  <2>2. phase \in {"mark", "send"} /\ phase' \in {"send", "await"}
    BY <1>4 DEF MarkSync, Request
  <2>3. /\ pending.now # NoFile /\ pending.now.state = "restoring" /\ request = "none"
        /\ Marked(pending.now)
    BY <1>1, <2>1, <2>2 DEF JournalInv
  <2>4. PICK r \in Journal : r = pending.now
    BY <1>1, <2>3, Files
  <2>5. pending'.now = r /\ pending'.after = {r}
    <3>1. CASE MarkSync
      BY <1>1, <2>4, <3>1, Files DEF MarkSync
    <3>2. CASE Request
      <4>1. phase = "send" /\ pending' = pending
        BY <3>2 DEF Request, journals
      <4> QED
        BY <1>1, <2>1, <2>4, <4>1 DEF JournalInv
    <3> QED
      BY <1>4, <3>1, <3>2
  <2>6. Marked(r) /\ r # NoFile
    BY <2>3, <2>4
  <2>7. Marked(r)' /\ Tells(r)' /\ Knows(r)'
    BY <2>1, <2>6 DEF Marked, Tells, Knows
  <2>8. Told(pending)' /\ Marked(pending.now)'
    BY <2>5, <2>6, <2>7 DEF Told
  <2>9. \/ phase' = "send" /\ request' = "none"
        \/ phase' = "await" /\ request' = "sent"
    BY <1>4, <2>3 DEF MarkSync, Request
  <2> QED
    BY <2>1, <2>3, <2>4, <2>5, <2>6, <2>7, <2>8, <2>9 DEF JournalInv, Working, Methods
<1>5. CASE Advance \/ SkipLaunch
  <2>1. /\ Working /\ stage' \in Methods \union {"archive"} /\ phase' = "ready"
        /\ stage \in Methods /\ phase \in {"ready", "record"}
    BY <1>1, <1>5, Advances, Skips DEF Working, Continue, Onward, Methods
  <2>2. UNCHANGED <<log, op, record, request>>
    BY <1>5 DEF Advance, SkipLaunch, host, journals
  <2>3. /\ pending.now # NoFile /\ pending.now.state = "restoring" /\ request = "none"
        /\ Settled(pending.now)
    BY <1>1, <2>1 DEF JournalInv
  <2>4. PICK r \in Journal : r = pending.now
    BY <1>1, <2>3, Files
  <2>5. pending'.now = r /\ pending'.after = {r}
    <3>1. CASE Advance
      BY <1>1, <2>4, <3>1, Files DEF Advance
    <3>2. CASE SkipLaunch
      <4>1. phase = "ready" /\ pending' = pending
        BY <3>2 DEF SkipLaunch, journals
      <4> QED
        BY <1>1, <2>1, <2>4, <4>1 DEF JournalInv
    <3> QED
      BY <1>5, <3>1, <3>2
  <2>6. Settled(r) /\ r # NoFile
    BY <2>3, <2>4
  <2>7. Settled(r)' /\ Tells(r)' /\ Knows(r)'
    BY <2>2, <2>3, <2>6 DEF Settled, Tells, Knows
  <2>8. Told(pending)' /\ Settled(pending.now)'
    BY <2>5, <2>6, <2>7 DEF Told
  <2> QED
    BY <2>1, <2>2, <2>3, <2>4, <2>5, <2>6, <2>7, <2>8 DEF JournalInv, Working, Methods
<1> QED
  BY <1>2, <1>3, <1>4, <1>5

\* The ends of an operation.
LEMMA EndJournal ==
    ASSUME ProgressInv, Fail \/ FailSync \/ Archive \/ Acknowledge \/ ArchiveSync \/ Remove \/ RemoveSync
                   \/ Abort \/ PowerCut
    PROVE  JournalInv'
<1>1. Typed /\ PlaceInv /\ WorkInv /\ OpInv /\ JournalInv
  BY DEF ProgressInv
<1>2. /\ UNCHANGED <<log, op>> /\ (request' = request \/ request' = "none")
      /\ stage' \in Endings
  BY DEF Fail, FailSync, Archive, Acknowledge, ArchiveSync, Remove, RemoveSync, Abort, PowerCut,
         host, Endings
<1>3. /\ \A r : (Tells(r) => Tells(r)') /\ (Knows(r) => Knows(r)')
      /\ Quiet => Quiet'
  BY <1>2, SameTold
<1>4. /\ Quiet \/ \A r \in pending.after \ {NoFile} : Knows(r)
      /\ pending.now # NoFile => Quiet \/ Told(pending)
      /\ pending.now = NoFile => Quiet \/ Told(record)
  BY <1>1 DEF JournalInv
\* It is enough to look at the files: what is known stays known.
<1>5. ASSUME /\ Quiet' \/ \A r \in pending'.after \ {NoFile} : Knows(r)'
             /\ pending'.now # NoFile => Quiet' \/ Told(pending)'
             /\ pending'.now = NoFile => Quiet' \/ Told(record)'
             /\ stage' = "failSync" => pending'.now # NoFile
             /\ stage' = "archiveSync" =>
                  /\ pending'.now # NoFile /\ record'.now # NoFile
                  /\ record'.now.steps = pending'.now.steps
             /\ stage' = "remove" => Quiet' \/ Told(record)'
      PROVE  JournalInv'
  BY <1>2, <1>5 DEF JournalInv, Endings, Working, Methods
<1>6. CASE Fail \/ FailSync \/ RemoveSync \/ Abort
  <2>1. \A r \in pending'.after \ {NoFile} : Quiet' \/ Knows(r)'
    <3>1. CASE Fail
      <4>1. pending.now # NoFile /\ pending.now \in Journal
        BY <1>1, <3>1, Files DEF Fail, JournalInv, Working
      <4>2. PICK e : e = [pending.now EXCEPT !.state = "failed"]
        OBVIOUS
      <4>3. e.steps = pending.now.steps /\ e \in Journal
        BY <4>1, <4>2, JournalSteps
      <4>4. pending'.after = pending.after \union {e}
        BY <1>1, <3>1, <4>2, Files DEF Fail
      <4>5. Quiet \/ Knows(e)
        <5>1. Quiet \/ Knows(pending.now)
          BY <1>1, <1>4, <4>1, Files DEF Told
        <5> QED
          BY <4>3, <5>1 DEF Knows, Tells
      <4> QED
        BY <1>3, <1>4, <4>4, <4>5
    <3>2. CASE FailSync \/ RemoveSync
      <4>1. pending'.after = {pending.now} /\ pending.now \in pending.after
        BY <1>1, <3>2, Files DEF FailSync, RemoveSync
      <4> QED
        BY <1>3, <1>4, <4>1
    <3>3. CASE Abort
      <4>1. pending'.after = pending.after
        BY <3>3 DEF Abort, journals
      <4> QED
        BY <1>3, <1>4, <4>1
    <3> QED
      BY <1>6, <3>1, <3>2, <3>3
  <2>2. /\ (pending'.now = NoFile <=> pending.now = NoFile)
        /\ record' = record
        /\ stage' = "failSync" => pending.now # NoFile
        /\ stage' \in {"failSync", "ended"}
    <3>1. CASE Fail
      <4>1. pending.now # NoFile /\ pending.now \in Journal
        BY <1>1, <3>1, Files DEF Fail, JournalInv, Working
      <4>2. [pending.now EXCEPT !.state = "failed"] # NoFile
        BY <4>1, JournalSteps
      <4>3. pending'.now # NoFile
        BY <1>1, <3>1, <4>2, Files DEF Fail
      <4> QED
        BY <3>1, <4>1, <4>3 DEF Fail
    <3>2. CASE FailSync \/ RemoveSync
      BY <1>1, <3>2, Files DEF FailSync, RemoveSync
    <3>3. CASE Abort
      BY <3>3 DEF Abort, journals
    <3> QED
      BY <1>6, <3>1, <3>2, <3>3
  <2>3. pending'.now # NoFile => Quiet' \/ Told(pending)'
    <3> SUFFICES ASSUME pending'.now # NoFile, ~Quiet' PROVE Told(pending)'
      OBVIOUS
    <3>1. NoFile \notin pending.after
      BY <1>3, <1>4, <2>2 DEF Told
    <3>2. NoFile \notin pending'.after
      <4>1. CASE Fail
        <5>1. pending.now \in Journal
          BY <1>1, <2>2, Files
        <5>2. [pending.now EXCEPT !.state = "failed"] # NoFile
          BY <5>1, JournalSteps
        <5> QED
          BY <1>1, <3>1, <4>1, <5>2, Files DEF Fail
      <4>2. CASE FailSync \/ RemoveSync
        BY <1>1, <2>2, <4>2, Files DEF FailSync, RemoveSync
      <4>3. CASE Abort
        BY <3>1, <4>3 DEF Abort, journals
      <4> QED
        BY <1>6, <4>1, <4>2, <4>3
    <3> QED
      BY <2>1, <3>2 DEF Told
  <2>4. pending'.now = NoFile => Quiet' \/ Told(record)'
    BY <1>3, <1>4, <2>2 DEF Told
  <2> QED
    BY <1>5, <2>1, <2>2, <2>3, <2>4
<1>7. CASE Archive \/ Acknowledge
  <2>1. pending.now # NoFile /\ pending.now \in Journal /\ pending' = pending
    BY <1>1, <1>7, Files DEF Archive, Acknowledge, JournalInv
  <2>2. PICK e \in Journal : record' = Renamed(record, e) /\ e.steps = pending.now.steps
    BY <1>7, <2>1, JournalSteps DEF Archive, Acknowledge
  <2>3. record'.now = e /\ e # NoFile
    BY <1>1, <2>2, Files, JournalSteps
  <2>4. stage' = "archiveSync"
    BY <1>7 DEF Archive, Acknowledge
  <2> QED
    BY <1>3, <1>4, <1>5, <2>1, <2>2, <2>3, <2>4 DEF Told
<1>8. CASE ArchiveSync
  <2>1. /\ pending' = pending /\ record' = Synced(record) /\ stage' = "remove"
        /\ stage = "archiveSync"
    BY <1>8 DEF ArchiveSync
  <2>2. pending.now # NoFile /\ record.now # NoFile /\ record.now.steps = pending.now.steps
    BY <1>1, <2>1 DEF JournalInv
  <2>3. record'.after = {record.now}
    BY <1>1, <2>1, Files
  <2>4. Quiet \/ Knows(record.now)
    <3>1. Quiet \/ Knows(pending.now)
      BY <1>1, <1>4, <2>2, Files DEF Told
    <3> QED
      BY <2>2, <3>1 DEF Knows, Tells
  <2>5. Quiet' \/ Told(record)'
    BY <1>3, <2>2, <2>3, <2>4 DEF Told
  <2> QED
    BY <1>3, <1>4, <1>5, <2>1, <2>2, <2>5 DEF Told
<1>9. CASE Remove
  <2>1. pending' = Renamed(pending, NoFile) /\ record' = record /\ stage = "remove"
        /\ stage' = "removeSync"
    BY <1>9 DEF Remove
  <2>2. Quiet \/ Told(record)
    BY <1>1, <2>1 DEF JournalInv
  <2>3. pending'.now = NoFile /\ pending'.after = pending.after \union {NoFile}
    BY <1>1, <2>1, Files
  <2> QED
    BY <1>3, <1>4, <1>5, <2>1, <2>2, <2>3 DEF Told
<1>10. CASE PowerCut
  <2>1. PICK v \in pending.after, r \in record.after :
          pending' = Stored(v) /\ record' = Stored(r)
    BY <1>10 DEF PowerCut
  <2>2. /\ pending'.now = v /\ pending'.after = {v} /\ record'.after = {r}
        /\ stage' = "ended"
    BY <1>1, <1>10, <2>1, Files DEF PowerCut
  <2>3. v # NoFile => Quiet \/ Knows(v)
    BY <1>4
  <2>4. v = NoFile => Quiet \/ (r # NoFile /\ Knows(r))
    BY <1>4, <2>1 DEF Told
  <2> QED
    BY <1>3, <1>5, <2>2, <2>3, <2>4 DEF Told
<1> QED
  BY <1>6, <1>7, <1>8, <1>9, <1>10

\* The host, and what happens around the reconstruction.
LEMMA HostJournal ==
    ASSUME ProgressInv, CarryOut \/ Refuse \/ EditPolicy \/ Restart \/ UNCHANGED vars
    PROVE  JournalInv'
<1>1. Typed /\ PlaceInv /\ WorkInv /\ OpInv /\ JournalInv
  BY DEF ProgressInv
<1>2. CASE CarryOut
  <2>1. /\ UNCHANGED <<stage, phase, op, pending, record>>
        /\ request = "sent" /\ request' = "done"
    BY <1>2 DEF CarryOut, journals
  <2>2. ~Quiet
    BY <2>1 DEF Quiet
  <2>3. /\ \A r \in pending.after \ {NoFile} : Knows(r)
        /\ pending.now # NoFile => Told(pending)
        /\ pending.now = NoFile => Told(record)
        /\ stage = "remove" => Told(record)
    BY <1>1, <2>2 DEF JournalInv
  <2>4. \A r \in Journal : Knows(r) =>
          Knows(r)' /\ Tells(r)' /\ Len(r.steps) = Len(log') /\ log' # <<>>
    BY <1>1, <1>2, CarriedOut
  <2>5. /\ \A r \in pending.after \ {NoFile} : r \in Journal
        /\ \A r \in record.after \ {NoFile} : r \in Journal
        /\ pending.now \in pending.after
    BY <1>1, Files
  <2>6. /\ \A r \in pending'.after \ {NoFile} : Knows(r)'
        /\ pending'.now # NoFile => Told(pending)'
        /\ pending'.now = NoFile => Told(record)'
        /\ stage' = "remove" => Told(record)'
    BY <2>1, <2>3, <2>4, <2>5 DEF Told
  <2>7. stage \notin {"idle", "beginSync"} /\ (Working \/ stage = "archive" => phase = "await")
    BY <1>1, <2>1 DEF JournalInv
  <2>8. Working \/ stage = "archive" => \A r \in pending.after : r # NoFile
    BY <1>1 DEF JournalInv
  <2>9. Working \/ stage = "archive" =>
          /\ pending.now # NoFile /\ pending.now.state = "restoring"
          /\ phase \notin {"mark", "record"} => pending.after = {pending.now}
    BY <1>1 DEF JournalInv
  <2>10. pending.now # NoFile =>
           Tells(pending.now)' /\ Len(pending'.now.steps) = Len(log') /\ log' # <<>>
    <3>1. pending.now # NoFile => pending.now \in Journal /\ Knows(pending.now)
      BY <2>3, <2>5
    <3>2. pending.now # NoFile => \E r \in Journal :
             r = pending.now /\ Tells(r)' /\ Len(r.steps) = Len(log') /\ log' # <<>>
      BY <2>4, <3>1
    <3> QED
      BY <2>1, <3>2
  <2>11. Working \/ stage = "archive" => \A r \in pending'.after : r # NoFile /\ Tells(r)'
    BY <2>1, <2>3, <2>4, <2>5, <2>8
  <2>12. /\ stage' = "failSync" => pending'.now # NoFile
         /\ stage' = "archiveSync" =>
              pending'.now # NoFile /\ record'.now # NoFile /\ record'.now.steps = pending'.now.steps
    BY <1>1, <2>1 DEF JournalInv
  <2> QED
    BY <2>1, <2>6, <2>7, <2>9, <2>10, <2>11, <2>12 DEF JournalInv, Working
<1>3. CASE Refuse
  <2>1. /\ UNCHANGED <<stage, phase, op, pending, record, log>>
        /\ request = "sent" /\ request' = "refused"
    BY <1>3 DEF Refuse, journals, host
  <2>2. \A r : (Tells(r) => Tells(r)') /\ (Knows(r) => Knows(r)') /\ (Settled(r) => Settled(r)')
    BY <2>1, SameTold
  <2>3. stage \notin {"idle", "beginSync"} /\ (Working \/ stage = "archive" => phase = "await")
    BY <1>1, <2>1 DEF JournalInv
  <2>4. ~Quiet
    BY <2>1 DEF Quiet
  <2>5. /\ \A r \in pending'.after \ {NoFile} : Knows(r)'
        /\ pending'.now # NoFile => Told(pending)'
        /\ pending'.now = NoFile => Told(record)'
        /\ stage' = "remove" => Told(record)'
    BY <1>1, <2>1, <2>2, <2>4 DEF JournalInv, Told
  <2>6. Working \/ stage = "archive" =>
          /\ pending'.now # NoFile /\ pending'.now.state = "restoring"
          /\ pending'.after = {pending'.now}
          /\ \A r \in pending'.after : r # NoFile /\ Tells(r)'
    BY <1>1, <2>1, <2>2, <2>3 DEF JournalInv
  <2>7. /\ stage' = "failSync" => pending'.now # NoFile
        /\ stage' = "archiveSync" =>
             pending'.now # NoFile /\ record'.now # NoFile /\ record'.now.steps = pending'.now.steps
    BY <1>1, <2>1 DEF JournalInv
  <2> QED
    BY <2>1, <2>3, <2>5, <2>6, <2>7 DEF JournalInv, Working
<1>4. CASE EditPolicy \/ Restart \/ UNCHANGED vars
  <2>1. UNCHANGED <<stage, phase, op, pending, record, log, request>>
    BY <1>4 DEF EditPolicy, Restart, vars, journals, host
  <2>2. \A r : /\ (Tells(r)' <=> Tells(r)) /\ (Knows(r)' <=> Knows(r))
               /\ (Settled(r)' <=> Settled(r)) /\ (Marked(r)' <=> Marked(r))
    BY <2>1 DEF Tells, Knows, Settled, Marked
  <2>3. /\ (Quiet' <=> Quiet) /\ (Told(pending)' <=> Told(pending))
        /\ (Told(record)' <=> Told(record)) /\ (Working' <=> Working)
    BY <2>1, <2>2 DEF Quiet, Told, Working
  <2> QED
    BY <1>1, <2>1, <2>2, <2>3 DEF JournalInv
<1> QED
  BY <1>2, <1>3, <1>4

LEMMA ProgressStep ==
    ASSUME ProgressInv, [Next]_vars
    PROVE  ProgressInv'
<1>1. JournalInv'
  BY MarkJournal, AnswerJournal, WorkJournal, EndJournal, HostJournal DEF Next
<1>2. Typed /\ PlaceInv /\ WorkInv /\ OpInv
  BY DEF ProgressInv
<1> QED
  BY <1>1, <1>2, TypedStep, PlaceStep, WorkStep, OpStep DEF ProgressInv

LEMMA ProgressStart == Init => ProgressInv
<1> SUFFICES ASSUME Init PROVE ProgressInv
  OBVIOUS
<1> USE DEF Init
<1>1. NoFile \in Journal \union {NoFile} /\ Stored(NoFile) \in FileOf(Journal \union {NoFile})
      /\ Stored(NoFile).now = NoFile /\ Stored(NoFile).after = {NoFile}
  BY DEF FileOf, Stored
<1>2. NoOp \in Op
  <2>1. <<>> \in Paths
    BY EmptySeq DEF Paths
  <2> QED
    BY <2>1 DEF NoOp, Op
<1>3. /\ DOMAIN snapshot = 1 .. Len(snapshot) /\ Len(snapshot) \in Nat \ {0}
      /\ \A x \in DOMAIN snapshot :
           DOMAIN snapshot[x] = 1 .. Len(snapshot[x]) /\ Len(snapshot[x]) \in Nat \ {0}
  <2> DEFINE l == snapshot
  <2>1. l \in Layouts
    OBVIOUS
  <2> HIDE DEF l
  <2>2. l = [x \in 1 .. Len(l) |-> l[x]] /\ Len(l) \in Nat \ {0}
    BY <2>1, LayoutAssumption
  <2>3. \A x \in 1 .. Len(l) :
          l[x] = [y \in 1 .. Len(l[x]) |-> l[x][y]] /\ Len(l[x]) \in Nat \ {0}
    BY <2>1, LayoutAssumption
  <2>4. DOMAIN l = 1 .. Len(l)
    BY <2>2
  <2>5. \A x \in 1 .. Len(l) : DOMAIN l[x] = 1 .. Len(l[x])
    BY <2>3
  <2> QED
    BY <2>2, <2>3, <2>4, <2>5 DEF l
<1>4. 1 \in DOMAIN snapshot /\ 1 \in DOMAIN snapshot[1]
  BY <1>3
<1>5. log \in Seq(Op)
  BY EmptySeq
<1>6. Typed
  BY <1>1, <1>2, <1>4, <1>5 DEF Typed, Stages, Phases
<1>7. PlaceInv /\ OpInv
  BY DEF PlaceInv, OpInv
<1>8. WorkInv
  BY EmptyWork DEF WorkInv, Working, Methods
<1>9. JournalInv
  BY <1>1 DEF JournalInv, Working, Methods, Quiet
<1> QED
  BY <1>6, <1>7, <1>8, <1>9 DEF ProgressInv

\* ProgressInv is an invariant of every instance: the reconstruction knows where it is in the
\* snapshot and in the tree it grows, and its journal tells what was carried out.
THEOREM ProgressInvariance == Spec => []ProgressInv
<1>1. Init => ProgressInv
  BY ProgressStart
<1>2. ProgressInv /\ [Next]_vars => ProgressInv'
  BY ProgressStep
<1> QED
  BY <1>1, <1>2, PTL DEF Spec

\* Every split still to make is an inner node of the tab with one of its leaves as its
\* anchor, every command still to type is one of the tab's, and the journal is a sequence
\* of records of mutations (layout::rebuild, expand_tree, RebuildJournal).
THEOREM RebuildTypes == Spec => []TypeOK
<1>1. ProgressInv => TypeOK
  <2> SUFFICES ASSUME ProgressInv PROVE TypeOK
    OBVIOUS
  <2>1. GoodStack(stack) /\ GoodLaunches(stack, launches) /\ Typed
    BY DEF ProgressInv, WorkInv
  <2>2. \A k \in DOMAIN stack : stack[k].node \notin tab.leaves /\ stack[k].anchor \in tab.leaves
    BY <2>1 DEF GoodStack, IsFirst
  <2>3. \A k \in DOMAIN launches : launches[k] \in tab.commands
    <3> DEFINE S == tab.commands
    <3>1. launches \in Seq(S)
      BY <2>1 DEF GoodLaunches
    <3> HIDE DEF S
    <3>2. \A k \in DOMAIN launches : launches[k] \in S
      BY <3>1
    <3> QED
      BY <3>2 DEF S
  <2> QED
    BY <2>1, <2>2, <2>3 DEF TypeOK, Typed, Stages
<1> QED
  BY <1>1, ProgressInvariance, PTL

\* What the host did is told by every version of one of the two files that a power cut
\* may leave (layout::mutate, finish).
THEOREM EvidenceTold == Spec => []EvidenceTellsAll
<1>1. ProgressInv => EvidenceTellsAll
  <2> SUFFICES ASSUME ProgressInv, log # <<>> PROVE Told(pending) \/ Told(record)
    BY DEF EvidenceTellsAll, Told, Knows
  <2> QED
    BY DEF ProgressInv, JournalInv, Quiet
<1> QED
  BY <1>1, ProgressInvariance, PTL

-----------------------------------------------------------------------------
(* The reconstruction does not come back to a mutation *)

LEMMA Ranks ==
    /\ Rank("workspace.create") = 1 /\ Rank("layout.apply") = 2 /\ Rank("pane.split") = 3
    /\ Rank("pane.rename") = 3 /\ Rank("pane.send_input") = 4 /\ Rank("focusTab") = 5
    /\ Rank("focusWorkspace") = 6 /\ Rank("focusAll") = 7
    /\ \A m \in Methods : Rank(m) \in 1 .. 7
BY DEF Rank, Methods

\* A mutation that the reconstruction is past, or is at.
Passed(o) ==
    \/ o.w < w
    \/ o.w = w /\ (o.t < t \/ (o.t = t /\ Rank(o.method) <= Rank(stage)))

LEMMA PassedIs ==
    ASSUME Typed, OpInv, Working, NEW o \in Op, o.method \in Methods,
           Behind(o) \/ (phase # "ready" /\ o = op)
    PROVE  Passed(o)
<1>1. o.w \in Nat /\ o.t \in Nat /\ Rank(o.method) \in 1 .. 7 /\ Rank(stage) \in 1 .. 7
  BY Ranks DEF Op, Working
<1>2. CASE phase # "ready" /\ o = op
  BY <1>1, <1>2 DEF OpInv, Passed
<1>3. CASE Behind(o)
  <2>1. CASE o.method \in {"pane.split", "pane.rename"} /\ stage \in {"pane.split", "pane.rename"}
    BY <1>1, <1>3, <2>1, Ranks DEF Behind, Passed
  <2>2. CASE o.method = "pane.send_input" /\ stage = "pane.send_input"
    BY <1>1, <1>3, <2>2, Ranks DEF Behind, Passed
  <2> QED
    BY <1>1, <1>3, <2>1, <2>2 DEF Behind, Passed
<1> QED
  BY <1>2, <1>3

\* What the reconstruction is past stays behind when it goes on.
LEMMA PassedHere ==
    ASSUME Typed, Working, Here, NEW o \in Op, o.method \in Methods, Passed(o),
           stage' \in Methods, Rank(stage) < Rank(stage')
    PROVE  Behind(o)'
<1>1. o.w \in Nat /\ o.t \in Nat /\ Rank(o.method) \in 1 .. 7 /\ Rank(stage) \in 1 .. 7
      /\ Rank(stage') \in 1 .. 7
  BY Ranks DEF Op, Working
<1>2. Passed(o) /\ w' = w /\ t' = t
  BY DEF Here
<1>3. o.w < w \/ (o.w = w /\ o.t < t) \/ (o.w = w /\ o.t = t /\ Rank(o.method) <= Rank(stage))
  BY <1>2 DEF Passed
<1>4. \/ o.w < w' \/ (o.w = w' /\ o.t < t')
      \/ (o.w = w' /\ o.t = t' /\ Rank(o.method) < Rank(stage'))
  BY <1>1, <1>2, <1>3
<1>5. Rank(o.method)' = Rank(o.method) /\ Rank(stage)' = Rank(stage')
  BY DEF Rank
<1> QED
  BY <1>4, <1>5 DEF Behind

LEMMA PassedOnward ==
    ASSUME Typed, Working, Onward, NEW o \in Op, o.method \in Methods, Passed(o), stage' \in Methods,
           stage' = "focusTab" => Rank(stage) < 5,
           stage' = "focusWorkspace" => Rank(stage) < 6,
           stage' = "focusAll" => Rank(stage) < 7
    PROVE  Behind(o)'
<1>1. o.w \in Nat /\ o.t \in Nat /\ Rank(o.method) \in 1 .. 7 /\ Rank(stage) \in 1 .. 7
      /\ w \in Nat /\ t \in Nat
  BY Shape, Ranks DEF Op, Working
<1>2. CASE Here /\ stage' \in {"focusTab", "focusWorkspace", "focusAll"}
  <2>1. Rank(stage) < Rank(stage')
    BY <1>1, <1>2, Ranks
  <2> QED
    BY <1>2, <2>1, PassedHere
<1>3. CASE w' = w /\ t' = t + 1
  BY <1>1, <1>3 DEF Passed, Behind
<1>4. CASE w' = w + 1
  BY <1>1, <1>4 DEF Passed, Behind
<1> QED
  BY <1>2, <1>3, <1>4 DEF Onward, Methods

\* The rest of a launch list has no command twice.
LEMMA LaunchTail ==
    ASSUME NEW S, NEW l \in Seq(S), l # <<>>, \A j, k \in DOMAIN l : l[j] = l[k] => j = k
    PROVE  \A k \in DOMAIN Tail(l) : Tail(l)[k] # l[1] /\ \E j \in DOMAIN l : Tail(l)[k] = l[j]
<1>1. Tail(l) \in Seq(S) /\ Len(Tail(l)) = Len(l) - 1 /\ \A k \in 1 .. Len(Tail(l)) : Tail(l)[k] = l[k + 1]
  BY HeadTailProperties
<1>2. Len(l) \in Nat /\ DOMAIN l = 1 .. Len(l) /\ DOMAIN Tail(l) = 1 .. Len(Tail(l)) /\ 1 \in DOMAIN l
  BY <1>1, EmptySeq
<1>3. \A k \in DOMAIN Tail(l) : Tail(l)[k] = l[k + 1] /\ k + 1 \in DOMAIN l /\ k + 1 # 1
  BY <1>1, <1>2
<1> QED
  BY <1>2, <1>3

LEMMA TailBehind ==
    ASSUME Typed, WorkInv, OpInv, stage = "pane.send_input", Continue, stage' # "pane.split",
           snapshot' = snapshot, launches' = Tail(launches), NEW o \in Op, o.method \in Methods,
           Behind(o) \/ (phase # "ready" /\ o = op), Working'
    PROVE  Behind(o)'
<1>1. Working /\ Passed(o)
  BY PassedIs DEF Working, Methods
<1>2. CASE Onward
  BY <1>1, <1>2, PassedOnward, Ranks DEF Working
<1>3. CASE Here /\ stage' = "pane.send_input"
  <2>1. CASE o.w = w /\ o.t = t /\ o.method = "pane.send_input"
    <3>1. (\A k \in DOMAIN launches : o.at # launches[k]) \/ o.at = launches[1]
      <4>1. CASE phase # "ready" /\ o = op
        BY <4>1 DEF OpInv
      <4>2. CASE Behind(o)
        BY <2>1, <4>2, Shape, Ranks DEF Behind
      <4> QED
        BY <4>1, <4>2
    <3>2. /\ launches # <<>> /\ launches \in Seq(tab.commands)
          /\ \A j, k \in DOMAIN launches : launches[j] = launches[k] => j = k
      BY DEF WorkInv, GoodLaunches
    <3>3. \A k \in DOMAIN launches' :
            launches'[k] # launches[1] /\ \E j \in DOMAIN launches : launches'[k] = launches[j]
      BY <3>2, LaunchTail
    <3>4. \A k \in DOMAIN launches' : o.at # launches'[k]
      BY <3>1, <3>3
    <3> QED
      BY <1>3, <2>1, <3>4 DEF Behind, Here
  <2>2. CASE ~(o.w = w /\ o.t = t /\ o.method = "pane.send_input")
    <3>1. \/ o.w < w \/ (o.w = w /\ o.t < t)
          \/ (o.w = w /\ o.t = t /\ Rank(o.method) <= 4 /\ o.method # "pane.send_input")
      BY <1>1, <2>2, Ranks DEF Passed
    <3>2. o.method # "pane.send_input" => Rank(o.method) # 4
      BY Ranks DEF Rank, Methods
    <3>3. \/ o.w < w' \/ (o.w = w' /\ o.t < t')
          \/ (o.w = w' /\ o.t = t' /\ Rank(o.method) < Rank(stage'))
      <4>1. Rank(o.method) \in 1 .. 7
        BY Ranks
      <4> QED
        BY <1>3, <3>1, <3>2, <4>1, Ranks DEF Here
    <3>4. Rank(o.method)' = Rank(o.method) /\ Rank(stage)' = Rank(stage')
      BY DEF Rank
    <3> QED
      BY <3>3, <3>4 DEF Behind
  <2> QED
    BY <2>1, <2>2
<1> QED
  BY <1>2, <1>3 DEF Continue

LEMMA SplitBehind ==
    ASSUME Typed, WorkInv, OpInv, Working, snapshot' = snapshot, op' = op,
           stage \in {"pane.split", "pane.rename"}, Here,
           \/ stage' = "pane.split"
           \/ stage = "pane.split" /\ stage' = "pane.rename" /\ ~Made(stack, op.at),
           NEW o \in Op, o.method \in Methods,
           Behind(o) \/ (phase # "ready" /\ o = op),
           \A leaf \in tab.leaves : Made(stack, leaf) => Made(stack', leaf),
           phase # "ready" => op.at \in tab.leaves /\ Made(stack', op.at)
    PROVE  Behind(o)'
<1>1. Passed(o) /\ tab' = tab /\ w' = w /\ t' = t
  BY PassedIs, TabStays DEF Here
<1>2. /\ Rank(o.method)' = Rank(o.method) /\ Rank(stage)' = 3 /\ Rank(stage) = 3
      /\ stage' \in {"pane.split", "pane.rename"}
  BY Ranks DEF Rank
<1>3. Made(stack, o.at)' <=> Made(stack', o.at)
  BY DEF Made
<1>4. CASE o.w = w /\ o.t = t /\ o.method \in {"pane.split", "pane.rename"}
  <2>1. CASE phase # "ready" /\ o = op
    <3>1. stage' = "pane.rename" => o.method # "pane.rename"
      BY <2>1 DEF OpInv
    <3> QED
      BY <1>1, <1>2, <1>3, <1>4, <2>1, <3>1 DEF Behind
  <2>2. CASE Behind(o)
    <3>1. o.at \in tab.leaves /\ Made(stack, o.at)
      BY <1>2, <1>4, <2>2, Shape, Ranks DEF Behind
    <3>2. stage' = "pane.rename" => o.at # op'.at
      BY <3>1
    <3> QED
      BY <1>1, <1>2, <1>3, <1>4, <3>1, <3>2 DEF Behind
  <2> QED
    BY <2>1, <2>2
<1>5. CASE ~(o.w = w /\ o.t = t /\ o.method \in {"pane.split", "pane.rename"})
  <2>1. o.method \notin {"pane.split", "pane.rename"} => Rank(o.method) # 3
    BY Ranks DEF Methods
  <2>2. Rank(o.method) \in 1 .. 7
    BY Ranks
  <2>3. \/ o.w < w \/ (o.w = w /\ o.t < t)
        \/ (o.w = w /\ o.t = t /\ Rank(o.method) < 3)
    BY <1>1, <1>2, <1>5, <2>1, <2>2 DEF Passed
  <2> QED
    BY <1>1, <1>2, <2>3 DEF Behind
<1> QED
  BY <1>4, <1>5

\* Advance leaves the mutation behind, and those that were behind.
LEMMA AdvanceBehind ==
    ASSUME ProgressInv, Advance, NEW o \in Op, o.method \in Methods, Behind(o) \/ o = op, Working'
    PROVE  Behind(o)'
<1>0. Typed /\ PlaceInv /\ WorkInv /\ OpInv
  BY DEF ProgressInv
<1>1. Working /\ phase # "ready" /\ snapshot' = snapshot /\ op' = op /\ stage' \in Methods
  BY <1>0, Advances DEF Advance, Working
<1>2. Passed(o)
  BY <1>0, <1>1, PassedIs
<1>3. CASE stage = "workspace.create"
  BY <1>0, <1>1, <1>2, <1>3, Advances, PassedHere, Ranks
<1>4. ASSUME Continue, stage \in {"layout.apply", "pane.split", "pane.rename"}, stage' # "pane.split"
      PROVE  Behind(o)'
  <2>1. Rank(stage) < 4
    BY <1>4, Ranks
  <2>2. CASE Onward
    <3>1. Rank(stage) \in 1 .. 7
      BY <1>1, Ranks DEF Working
    <3> QED
      BY <1>0, <1>1, <1>2, <2>1, <2>2, <3>1, PassedOnward
  <2>3. CASE Here /\ stage' = "pane.send_input"
    BY <1>0, <1>1, <1>2, <2>1, <2>3, PassedHere, Ranks
  <2> QED
    BY <1>4, <2>2, <2>3 DEF Continue
<1>5. CASE stage = "layout.apply"
  <2>1. Continue
    BY <1>0, <1>5, Advances
  <2>2. CASE stage' = "pane.split"
    <3>1. Here
      BY <2>1, <2>2 DEF Continue, Onward
    <3> QED
      BY <1>0, <1>1, <1>2, <1>5, <2>2, <3>1, PassedHere, Ranks
  <2> QED
    BY <1>4, <1>5, <2>1, <2>2
<1>6. CASE stage = "pane.split"
  <2>1. stack' = Grow(stack, op.at) /\ ((Here /\ stage' = "pane.rename") \/ Continue)
    BY <1>0, <1>6, Advances
  <2>2. GoodStack(stack) /\ stack # <<>> /\ IsFirst(tab.leaves, Append(stack[1].node, 2), op.at)
    BY <1>0, <1>1, <1>6 DEF WorkInv, OpInv
  <2>3. /\ ~Made(stack, op.at) /\ op.at \in tab.leaves
        /\ \A leaf \in tab.leaves : Made(stack', leaf) <=> Made(stack, leaf) \/ leaf = op.at
    BY <1>0, <2>1, <2>2, Shape, Grown DEF IsFirst
  <2>4. CASE stage' \in {"pane.split", "pane.rename"}
    <3>1. Here
      BY <2>1, <2>4 DEF Continue, Onward
    <3> QED
      BY <1>0, <1>1, <1>6, <2>3, <2>4, <3>1, SplitBehind
  <2> QED
    BY <1>4, <1>6, <2>1, <2>4
<1>7. CASE stage = "pane.rename"
  <2>1. Continue /\ stack' = stack /\ op.at \in tab.leaves /\ Made(stack, op.at)
    BY <1>0, <1>7, Advances DEF work, WorkInv
  <2>2. CASE stage' = "pane.split"
    <3>1. Here
      BY <2>1, <2>2 DEF Continue, Onward
    <3> QED
      BY <1>0, <1>1, <1>7, <2>1, <2>2, <3>1, SplitBehind
  <2> QED
    BY <1>4, <1>7, <2>1, <2>2
<1>8. CASE stage = "pane.send_input"
  BY <1>0, <1>1, <1>8, Advances, TailBehind
<1>9. CASE stage \in {"focusTab", "focusWorkspace"}
  <2>1. /\ Onward /\ stage' # "focusTab"
        /\ stage = "focusWorkspace" => stage' # "focusWorkspace"
    BY <1>0, <1>9, Advances
  <2>2. /\ stage' = "focusTab" => Rank(stage) < 5
        /\ stage' = "focusWorkspace" => Rank(stage) < 6
        /\ Rank(stage) < 7
    BY <1>9, <2>1, Ranks
  <2> QED
    BY <1>0, <1>1, <1>2, <2>1, <2>2, PassedOnward
<1>10. CASE stage = "focusAll"
  BY <1>0, <1>1, <1>10, Advances DEF Methods
<1> QED
  BY <1>1, <1>3, <1>5, <1>6, <1>7, <1>8, <1>9, <1>10 DEF Working, Methods

\* The mutation that is asked for was not carried out before.
LEMMA MutationFresh ==
    ASSUME Typed, WorkInv, Working
    PROVE  ~Behind(Mutation)
<1> DEFINE o == Mutation
<1>1. /\ o.method = stage /\ o.w = w /\ o.t = t
      /\ stage = "pane.split" => IsFirst(tab.leaves, Append(stack[1].node, 2), o.at)
      /\ stage = "pane.rename" => o.at = op.at
      /\ stage = "pane.send_input" => o.at = launches[1]
  BY Mutations
<1> HIDE DEF o
<1>2. w \in Nat /\ t \in Nat /\ Rank(stage) \in 1 .. 7
  BY Shape, Ranks DEF Working
<1>3. stage = "pane.split" => ~Made(stack, o.at)
  <2> SUFFICES ASSUME stage = "pane.split" PROVE ~Made(stack, o.at)
    OBVIOUS
  <2>1. GoodStack(stack) /\ stack # <<>>
    BY DEF WorkInv
  <2> QED
    BY <1>1, <2>1, Shape, Grown
<1>4. stage = "pane.send_input" => 1 \in DOMAIN launches
  <2>1. launches \in Seq(tab.commands)
    BY DEF WorkInv, GoodLaunches
  <2>2. launches # <<>> => 1 \in DOMAIN launches
    <3> DEFINE S == tab.commands
    <3>1. launches \in Seq(S)
      BY <2>1
    <3> HIDE DEF S
    <3> QED
      BY <3>1, EmptySeq
  <2> QED
    BY <2>2 DEF WorkInv
<1>5. ~Behind(o)
  BY <1>1, <1>2, <1>3, <1>4 DEF Behind
<1> QED
  BY <1>5 DEF o

LEMMA MarkOnce ==
    ASSUME ProgressInv, OnceInv, Mark
    PROVE  OnceInv'
<1>1. Typed /\ WorkInv /\ Working /\ JournalInv /\ phase = "ready"
  BY DEF ProgressInv, Mark, Working
<1>2. /\ op' = Mutation /\ phase' = "mark" /\ request' = request
      /\ UNCHANGED <<snapshot, stage, w, t, stack, launches, log>>
  BY DEF Mark, place, work, host
<1>3. request = "none"
  BY <1>1 DEF JournalInv
<1>4. \A k \in DOMAIN log : Behind(log[k])
  BY <1>1 DEF OnceInv, Answered
<1>5. ~Behind(op') /\ op'.method = stage /\ (stage = "pane.rename" => op'.at = op.at)
  BY <1>1, <1>2, MutationFresh, Mutations
<1>6. \A k \in DOMAIN log : log[k] # op'
  BY <1>4, <1>5
<1>7. \A o : Behind(o) => Behind(o)'
  <2> SUFFICES ASSUME NEW o, Behind(o) PROVE Behind(o)'
    OBVIOUS
  <2>1. (Rank(o.method) < Rank(stage))' <=> Rank(o.method) < Rank(stage)
    BY <1>2 DEF Rank
  <2>2. Made(stack, o.at)' <=> Made(stack, o.at)
    BY <1>2 DEF Made
  <2>3. tab' = tab
    BY <1>2 DEF tab
  <2> QED
    BY <1>2, <1>5, <2>1, <2>2, <2>3 DEF Behind
<1>8. ~Answered' /\ Working'
  BY <1>1, <1>2 DEF Answered, Working
<1>9. op'.method \in Methods
  BY <1>1, <1>5 DEF Working
<1>10. \A k \in DOMAIN log' : Behind(log[k])'
  BY <1>2, <1>4, <1>7
<1> QED
  BY <1>2, <1>3, <1>6, <1>8, <1>9, <1>10 DEF OnceInv, NeverTwice

LEMMA CarryOutOnce ==
    ASSUME ProgressInv, OnceInv, CarryOut
    PROVE  OnceInv'
<1>1. /\ request = "sent" /\ request' = "done" /\ log' = Append(log, op)
      /\ UNCHANGED <<snapshot, stage, phase, w, t, stack, launches, op>>
  BY DEF CarryOut, place, work
<1>2. op.method \in Methods /\ \A k \in DOMAIN log : log[k] # op
  BY <1>1 DEF OnceInv
<1>3. log \in Seq(Op) /\ op \in Op
  BY DEF ProgressInv, Typed
<1>4. /\ log' \in Seq(Op) /\ Len(log') = Len(log) + 1 /\ Len(log) \in Nat
      /\ DOMAIN log = 1 .. Len(log) /\ DOMAIN log' = 1 .. Len(log')
      /\ \A k \in 1 .. Len(log) : log'[k] = log[k]
      /\ log'[Len(log) + 1] = op
  BY <1>1, <1>3, AppendProperties
<1>5. NeverTwice'
  BY <1>2, <1>4 DEF OnceInv, NeverTwice
<1>6. \A k \in DOMAIN log' : log'[k].method \in Methods
  BY <1>2, <1>4 DEF OnceInv
<1>7. phase' \notin {"mark", "send"} /\ (Working => phase' = "await")
  <2>1. Working => phase = "await"
    BY <1>1 DEF ProgressInv, JournalInv
  <2>2. ~Working => phase = "ready"
    BY DEF ProgressInv, OpInv
  <2> QED
    BY <1>1, <2>1, <2>2
<1>8. ASSUME Working', NEW k \in DOMAIN log'
      PROVE  IF Answered' /\ k = Len(log') THEN log'[k] = op' ELSE Behind(log[k])'
  <2>1. Working /\ Answered' /\ ~Answered
    BY <1>1, <1>7, <1>8 DEF Working, Answered
  <2>2. CASE k = Len(log')
    BY <1>1, <1>4, <2>1, <2>2
  <2>3. CASE k # Len(log')
    <3>1. k \in DOMAIN log /\ log'[k] = log[k]
      BY <1>4, <1>8, <2>3
    <3>2. PICK o : o = log[k]
      OBVIOUS
    <3>3. Behind(o)
      BY <2>1, <3>1, <3>2 DEF OnceInv
    <3>4. Behind(o)'
      <4>1. (Rank(o.method) < Rank(stage))' <=> Rank(o.method) < Rank(stage)
        BY <1>1 DEF Rank
      <4>2. Made(stack, o.at)' <=> Made(stack, o.at)
        BY <1>1 DEF Made
      <4>3. tab' = tab
        BY <1>1 DEF tab
      <4> QED
        BY <1>1, <3>3, <4>1, <4>2, <4>3 DEF Behind
    <3>5. log'[k] = o
      BY <3>1, <3>2
    <3> QED
      BY <2>3, <3>4, <3>5
  <2> QED
    BY <2>2, <2>3
<1> QED
  BY <1>1, <1>5, <1>6, <1>7, <1>8 DEF OnceInv

LEMMA MoveOnce ==
    ASSUME ProgressInv, OnceInv, Advance \/ SkipLaunch
    PROVE  OnceInv'
<1>1. Typed /\ PlaceInv /\ WorkInv /\ OpInv /\ JournalInv
  BY DEF ProgressInv
<1>2. /\ phase' = "ready" /\ UNCHANGED <<op, request, log, snapshot>> /\ Working
      /\ phase \in {"ready", "record"}
  BY <1>1, Advances, Skips DEF Advance, SkipLaunch, host, Working, Methods
<1>3. request # "sent"
  BY <1>1, <1>2 DEF JournalInv
<1>4. \A k \in DOMAIN log : log[k] \in Op /\ log[k].method \in Methods
  BY <1>1 DEF Typed, OnceInv
<1>5. ~Answered'
  BY <1>2 DEF Answered
<1>6. ASSUME Working', NEW k \in DOMAIN log
      PROVE  Behind(log[k])'
  <2>1. PICK o \in Op : o = log[k]
    BY <1>4, <1>6
  <2>2. log' = log /\ o.method \in Methods
    BY <1>2, <1>4, <1>6, <2>1
  <2>3. CASE Advance
    <3>1. Behind(o) \/ o = op
      BY <1>2, <1>6, <2>1 DEF OnceInv
    <3>2. Behind(o)'
      BY <1>6, <2>2, <2>3, <3>1, AdvanceBehind
    <3> QED
      BY <2>1, <2>2, <3>2
  <2>4. CASE SkipLaunch
    <3>1. Behind(o)
      <4>1. ~Answered
        BY <2>4 DEF SkipLaunch, Answered
      <4> QED
        BY <1>2, <1>6, <2>1, <4>1 DEF OnceInv
    <3>2. Behind(o)'
      <4>1. /\ stage = "pane.send_input" /\ Continue /\ stage' # "pane.split"
            /\ snapshot' = snapshot /\ launches' = Tail(launches)
        BY <1>1, <2>4, Skips
      <4> QED
        BY <1>1, <1>6, <2>2, <3>1, <4>1, TailBehind
    <3> QED
      BY <2>1, <2>2, <3>2
  <2> QED
    BY <2>3, <2>4
<1> QED
  BY <1>2, <1>3, <1>5, <1>6 DEF OnceInv, NeverTwice

LEMMA OnceStep ==
    ASSUME ProgressInv, OnceInv, [Next]_vars
    PROVE  OnceInv'
<1>1. Typed /\ OpInv /\ JournalInv
  BY DEF ProgressInv
<1>2. CASE Mark
  BY <1>2, MarkOnce
<1>3. CASE CarryOut
  BY <1>3, CarryOutOnce
<1>4. CASE Advance \/ SkipLaunch
  BY <1>4, MoveOnce
<1>5. CASE MarkSync \/ Request \/ Answer \/ Refuse \/ EditPolicy \/ Restart \/ UNCHANGED vars
  <2>1. UNCHANGED <<snapshot, stage, w, t, stack, launches, op, log>>
    BY <1>5 DEF MarkSync, Request, Answer, Refuse, EditPolicy, Restart, vars, place, work, host
  <2>2. Answered' <=> Answered
    BY <1>5 DEF Answered, MarkSync, Request, Answer, Refuse, EditPolicy, Restart, vars
  <2>3. phase' \in {"mark", "send"} \/ request' = "sent" => phase \in {"mark", "send"} \/ request = "sent"
    BY <1>5 DEF MarkSync, Request, Answer, Refuse, EditPolicy, Restart, vars
  <2>4. \A o : Behind(o) => Behind(o)'
    <3> SUFFICES ASSUME NEW o, Behind(o) PROVE Behind(o)'
      OBVIOUS
    <3>1. (Rank(o.method) < Rank(stage))' <=> Rank(o.method) < Rank(stage)
      BY <2>1 DEF Rank
    <3>2. (Made(stack, o.at))' <=> Made(stack, o.at)
      BY <2>1 DEF Made
    <3>3. tab' = tab
      BY <2>1 DEF tab
    <3> QED
      BY <2>1, <3>1, <3>2, <3>3 DEF Behind
  <2>5. Working => \A k \in DOMAIN log :
           IF Answered' /\ k = Len(log) THEN log[k] = op ELSE Behind(log[k])'
    <3> SUFFICES ASSUME Working, NEW k \in DOMAIN log
                 PROVE  IF Answered' /\ k = Len(log) THEN log[k] = op ELSE Behind(log[k])'
      OBVIOUS
    <3>1. PICK o : o = log[k]
      OBVIOUS
    <3>2. IF Answered /\ k = Len(log) THEN o = op ELSE Behind(o)
      BY <3>1 DEF OnceInv
    <3>3. Behind(o) => Behind(log[k])'
      BY <2>1, <2>4, <3>1
    <3> QED
      BY <2>2, <3>1, <3>2, <3>3
  <2>6. Working' <=> Working
    BY <2>1 DEF Working
  <2> QED
    BY <2>1, <2>2, <2>3, <2>5, <2>6 DEF OnceInv, NeverTwice
<1>6. CASE BeginSync
  <2>1. log = <<>> /\ request = "none" /\ UNCHANGED <<log, request, phase>> /\ phase = "ready"
    BY <1>1, <1>6 DEF BeginSync, JournalInv, host, OpInv, Working, Methods
  <2> QED
    BY <2>1 DEF OnceInv, NeverTwice
<1>7. CASE \/ Begin \/ Fail \/ FailSync \/ Archive \/ Acknowledge \/ ArchiveSync \/ Remove
           \/ RemoveSync \/ Abort \/ PowerCut
  <2>1. /\ UNCHANGED <<log, op>> /\ (request' = request \/ request' = "none")
        /\ phase' = phase \/ phase' = "ready"
        /\ stage' \in Endings \union {"beginSync"}
    BY <1>7 DEF Begin, Fail, FailSync, Archive, Acknowledge, ArchiveSync, Remove, RemoveSync, Abort,
                PowerCut, host, Endings
  <2>2. ~Working'
    BY <2>1 DEF Working, Methods, Endings
  <2> QED
    BY <2>1, <2>2 DEF OnceInv, NeverTwice
<1> QED
  BY <1>2, <1>3, <1>4, <1>5, <1>6, <1>7 DEF Next

\* No mutation is carried out twice (layout::mutate and transport::request never send a
\* request again, and expand_tree and launch_splits never come back to one).
THEOREM NoneTwice == Spec => []NeverTwice
<1>1. Init => ProgressInv /\ OnceInv
  <2> SUFFICES ASSUME Init PROVE OnceInv
    BY ProgressStart
  <2> QED
    BY DEF Init, OnceInv, NeverTwice, Working
<1>2. ProgressInv /\ OnceInv /\ [Next]_vars => ProgressInv' /\ OnceInv'
  BY ProgressStep, OnceStep
<1>3. ProgressInv /\ OnceInv => NeverTwice
  BY DEF OnceInv
<1> QED
  BY <1>1, <1>2, <1>3, PTL DEF Spec

-----------------------------------------------------------------------------
(* The host's panes are where the splits still to make leave them *)

LEMMA SamePlace ==
    ASSUME UNCHANGED <<snapshot, w, t>>
    PROVE  /\ tab' = tab
           /\ \A x, y : Finished(x, y)' <=> Finished(x, y)
           /\ \A leaf : Pane(leaf)' = Pane(leaf)
BY DEF tab, Finished, Pane

LEMMA PanesKept ==
    ASSUME NEW s, PanesInv(s), UNCHANGED <<snapshot, w, t, panes>>, Shown' <=> Shown, StackNow' = s
    PROVE  PanesInv(StackNow)'
<1>1. /\ tab' = tab
      /\ \A x, y : Finished(x, y)' <=> Finished(x, y)
      /\ \A leaf : Pane(leaf)' = Pane(leaf)
  BY SamePlace
<1>2. PanesInv(s)'
  BY <1>1 DEF PanesInv, Made, InPlace
<1> QED
  BY <1>2 DEF PanesInv, Made, InPlace

LEMMA StartedKept ==
    ASSUME NEW s, NEW l, StartedInv(s, l), UNCHANGED <<snapshot, w, t, started>>, denied => denied',
           Shown' <=> Shown, StackNow' = s, denied' \/ LaunchesNow' = l
    PROVE  StartedInv(StackNow, LaunchesNow)'
<1>1. /\ tab' = tab
      /\ \A x, y : Finished(x, y)' <=> Finished(x, y)
      /\ \A leaf : Pane(leaf)' = Pane(leaf)
  BY SamePlace
<1>2. denied' \/ StartedInv(s, l)'
  BY <1>1 DEF StartedInv, Made
<1>3. CASE LaunchesNow' = l /\ ~denied'
  BY <1>2, <1>3 DEF StartedInv, Made
<1>4. CASE denied'
  BY <1>1, <1>4 DEF StartedInv
<1> QED
  BY <1>3, <1>4

LEMMA Now ==
    /\ ~Answered \/ stage \notin {"layout.apply", "pane.split"} => StackNow = stack
    /\ ~Answered \/ stage \notin {"pane.split", "pane.send_input"} => LaunchesNow = launches
    /\ Answered /\ stage = "layout.apply" =>
         StackNow = IF Bulk THEN <<>> ELSE Unsplit(<<>>, FirstLeaf(<<>>))
    /\ Answered /\ stage = "pane.split" =>
         /\ StackNow = Grow(stack, op.at)
         /\ LaunchesNow = IF op.at \in tab.commands THEN Append(launches, op.at) ELSE launches
    /\ Answered /\ stage = "pane.send_input" => LaunchesNow = Tail(launches)
BY DEF StackNow, LaunchesNow

\* The step of the host that is under way, and what it leaves alone.
LEMMA Carrying ==
    ASSUME ProgressInv, Working, CarryOut
    PROVE  /\ phase = "await" /\ request = "sent" /\ ~Answered /\ Answered' /\ Working'
           /\ UNCHANGED <<snapshot, w, t, stage, stack, launches, op, denied>>
           /\ op.method = stage /\ op.w = w /\ op.t = t
           /\ StackNow = stack /\ LaunchesNow = launches
           /\ Shown <=> stage \notin {"workspace.create", "layout.apply"}
           /\ Shown' <=> stage # "workspace.create"
<1>1. phase = "await" /\ request = "sent" /\ request' = "done"
  BY DEF ProgressInv, JournalInv, CarryOut
<1>2. UNCHANGED <<snapshot, w, t, stage, phase, stack, launches, op, denied>>
  BY DEF CarryOut, place, work, outside
<1>3. ~Answered /\ Answered' /\ Working'
  BY <1>1, <1>2 DEF Answered, Working
<1>4. op.method = stage /\ op.w = w /\ op.t = t
  BY <1>1 DEF ProgressInv, OpInv
<1>5. /\ Shown <=> stage \notin {"workspace.create", "layout.apply"}
      /\ Shown' <=> stage # "workspace.create"
  BY <1>2, <1>3 DEF Shown
<1> QED
  BY <1>1, <1>2, <1>3, <1>4, <1>5, Now

LEMMA ApplyHost ==
    ASSUME ProgressInv, HostInv, Working, CarryOut, stage = "layout.apply"
    PROVE  PanesInv(StackNow)' /\ StartedInv(StackNow, LaunchesNow)'
<1>1. Typed /\ WorkInv /\ OpInv /\ IsTab(tab) /\ IsTab(tab)'
  <2>1. Typed /\ WorkInv /\ OpInv /\ IsTab(tab)
    BY Shape DEF ProgressInv
  <2>2. tab' = tab
    BY Carrying, SamePlace
  <2> QED
    BY <2>1, <2>2 DEF IsTab
<1>2. /\ UNCHANGED <<snapshot, w, t, stage, stack, launches, op, denied>> /\ Answered' /\ ~Shown /\ Shown'
      /\ StackNow = stack /\ LaunchesNow = launches
      /\ op.method = "layout.apply" /\ phase # "ready"
  BY Carrying
<1>3. /\ tab' = tab
      /\ \A x, y : Finished(x, y)' <=> Finished(x, y)
      /\ \A leaf : Pane(leaf)' = Pane(leaf)
  BY <1>2, SamePlace
<1>4. /\ panes' = panes \union {[pane |-> Pane(leaf), at |-> IF Bulk THEN leaf ELSE <<>>] : leaf \in Applied}
      /\ started' = started \union
           (IF op.run THEN {Pane(leaf) : leaf \in Applied \intersect tab.commands} ELSE {})
  BY <1>2 DEF CarryOut
<1>5. stack = <<>> /\ launches = <<>>
  BY <1>1 DEF WorkInv
<1>6. PICK first : first = FirstLeaf(<<>>)
  OBVIOUS
<1>7. IsFirst(tab.leaves, <<>>, first) /\ first \in tab.leaves /\ first \in Paths
  BY <1>1, <1>6, FirstRoot DEF FirstLeaf, IsTab, IsFirst
<1>8. FirstLeaf(<<>>)' = first
  <2>1. IsFirst(tab'.leaves, <<>>, FirstLeaf(<<>>)')
    BY <1>1, FirstRoot DEF FirstLeaf
  <2>2. <<>> \in Paths
    BY EmptySeq DEF Paths
  <2>3. IsFirst(tab.leaves, <<>>, FirstLeaf(<<>>)')
    BY <1>3, <2>1
  <2> QED
    BY <1>1, <1>7, <2>2, <2>3, FirstUnique
<1>9. PICK s : s = IF Bulk THEN <<>> ELSE Unsplit(<<>>, FirstLeaf(<<>>))
  OBVIOUS
<1>10. StackNow' = s
  <2>1. StackNow' = IF Bulk' THEN <<>> ELSE Unsplit(<<>>, FirstLeaf(<<>>))'
    BY <1>2 DEF StackNow
  <2>2. Bulk' <=> Bulk
    BY <1>3 DEF Bulk
  <2>3. Unsplit(<<>>, FirstLeaf(<<>>))' = Unsplit(<<>>, FirstLeaf(<<>>))
    BY <1>3, <1>6, <1>8 DEF Unsplit
  <2> QED
    BY <1>9, <2>1, <2>2, <2>3
<1>11. LaunchesNow' = <<>>
  BY <1>2, <1>5 DEF LaunchesNow
<1>12. /\ ~Bulk /\ <<>> \notin tab.leaves => s = <<[node |-> <<>>, anchor |-> first]>>
       /\ Bulk \/ <<>> \in tab.leaves => s = <<>>
  BY <1>6, <1>9 DEF Unsplit
<1>13. <<>> \in tab.leaves => \A leaf \in tab.leaves : leaf = <<>>
  <2>1. \A leaf \in tab.leaves : leaf \in Paths /\ Below(<<>>, leaf)
    BY <1>1, BelowOrder DEF IsTab
  <2> QED
    BY <1>1, <2>1 DEF IsTab
<1>14. \A leaf \in tab.leaves : Below(<<>>, leaf)
  BY <1>1, BelowOrder DEF IsTab
<1>15. \A leaf \in Applied : leaf \in tab.leaves /\ Made(s, leaf) /\ (~Bulk => leaf = first)
  <2>1. \A leaf \in Applied : leaf \in tab.leaves /\ (~Bulk => leaf = first)
    BY <1>6, <1>7 DEF Applied
  <2>2. CASE s = <<>>
    BY <2>1, <2>2, EmptyWork
  <2>3. CASE s = <<[node |-> <<>>, anchor |-> first]>> /\ ~Bulk
    <3>1. Made(s, first)
      BY <2>3 DEF Made
    <3> QED
      BY <2>1, <2>3, <3>1
  <2> QED
    BY <1>12, <2>2, <2>3
<1>16. \A leaf \in Applied : InPlace(s, leaf, IF Bulk THEN leaf ELSE <<>>)
  <2>1. CASE Bulk
    BY <1>12, <2>1 DEF InPlace
  <2>2. CASE ~Bulk /\ <<>> \in tab.leaves
    BY <1>12, <1>13, <1>15, <2>2 DEF InPlace
  <2>3. CASE ~Bulk /\ <<>> \notin tab.leaves
    <3>1. DOMAIN s = {1} /\ s[1].node = <<>> /\ s[1].anchor = first
      BY <1>12, <2>3
    <3> QED
      BY <1>15, <2>3, <3>1 DEF InPlace
  <2> QED
    BY <2>1, <2>2, <2>3
<1>17. \A leaf \in tab.leaves : Made(s, leaf) => leaf \in Applied
  <2>1. CASE Bulk
    BY <2>1 DEF Applied
  <2>2. CASE ~Bulk /\ <<>> \in tab.leaves
    BY <1>6, <1>7, <1>13, <2>2 DEF Applied
  <2>3. CASE ~Bulk /\ <<>> \notin tab.leaves
    <3>1. DOMAIN s = {1} /\ s[1].node = <<>> /\ s[1].anchor = first
      BY <1>12, <2>3
    <3>2. \A leaf \in tab.leaves : Made(s, leaf) => leaf = first
      BY <1>14, <3>1 DEF Made
    <3> QED
      BY <1>6, <2>3, <3>2 DEF Applied
  <2> QED
    BY <2>1, <2>2, <2>3
<1>18. PanesInv(stack) /\ StartedInv(stack, launches)
  BY <1>2 DEF HostInv
<1>19. ASSUME NEW p \in panes'
       PROVE  \/ /\ Finished(p.pane.w, p.pane.t) /\ p.at = p.pane.leaf
                 /\ p.pane.leaf \in snapshot[p.pane.w][p.pane.t].leaves
              \/ /\ p.pane.w = w /\ p.pane.t = t
                 /\ p.pane.leaf \in tab.leaves /\ Made(s, p.pane.leaf) /\ InPlace(s, p.pane.leaf, p.at)
  <2>1. CASE p \in panes
    BY <1>2, <1>18, <2>1 DEF PanesInv
  <2>2. CASE \E leaf \in Applied : p = [pane |-> Pane(leaf), at |-> IF Bulk THEN leaf ELSE <<>>]
    <3>1. PICK leaf \in Applied : p = [pane |-> Pane(leaf), at |-> IF Bulk THEN leaf ELSE <<>>]
      BY <2>2
    <3>2. /\ p.pane.w = w /\ p.pane.t = t /\ p.pane.leaf = leaf
          /\ p.at = IF Bulk THEN leaf ELSE <<>>
      BY <3>1 DEF Pane
    <3> QED
      BY <1>15, <1>16, <3>2
  <2> QED
    BY <1>4, <1>19, <2>1, <2>2
<1>20. PanesInv(s)'
  <2>1. \A x \in DOMAIN snapshot : \A y \in DOMAIN snapshot[x] : Finished(x, y) =>
          \A leaf \in snapshot[x][y].leaves : \E p \in panes' : p.pane = [w |-> x, t |-> y, leaf |-> leaf]
    BY <1>4, <1>18 DEF PanesInv
  <2>2. \A leaf \in tab.leaves : Made(s, leaf) => \E p \in panes' : p.pane = Pane(leaf)
    <3> SUFFICES ASSUME NEW leaf \in Applied PROVE \E p \in panes' : p.pane = Pane(leaf)
      BY <1>17
    <3>1. [pane |-> Pane(leaf), at |-> IF Bulk THEN leaf ELSE <<>>] \in panes'
      BY <1>4
    <3> QED
      BY <3>1
  <2> QED
    BY <1>2, <1>3, <1>19, <2>1, <2>2 DEF PanesInv, Made, InPlace
<1>21. StartedInv(s, <<>>)'
  <2>1. \A q \in started' :
          \/ Finished(q.w, q.t) /\ q.leaf \in snapshot[q.w][q.t].commands
          \/ q.w = w /\ q.t = t /\ q.leaf \in tab.commands
    BY <1>2, <1>4, <1>18 DEF StartedInv, Pane
  <2>2. CASE denied
    BY <1>2, <1>3, <2>1, <2>2 DEF StartedInv
  <2>3. CASE ~denied
    <3>1. op.run
      BY <1>1, <1>2, <2>3 DEF OpInv
    <3>2. tab.commands \subseteq tab.leaves
      BY <1>1 DEF IsTab
    <3>3. \A leaf \in tab.commands : Made(s, leaf) => Pane(leaf) \in started'
      BY <1>4, <1>17, <3>1, <3>2
    <3>4. \A x \in DOMAIN snapshot : \A y \in DOMAIN snapshot[x] : Finished(x, y) =>
            \A leaf \in snapshot[x][y].commands : [w |-> x, t |-> y, leaf |-> leaf] \in started'
      BY <1>4, <1>18, <2>3 DEF StartedInv
    <3> QED
      BY <1>2, <1>3, <2>1, <3>3, <3>4 DEF StartedInv, Made
  <2> QED
    BY <2>2, <2>3
<1>22. PanesInv(StackNow)'
  BY <1>10, <1>20 DEF PanesInv, Made, InPlace
<1>23. StartedInv(StackNow, LaunchesNow)'
  BY <1>10, <1>11, <1>21 DEF StartedInv, Made
<1> QED
  BY <1>22, <1>23

\* The pane that is split is at the node of the first split, and is the only one there.
LEMMA SplitHost ==
    ASSUME ProgressInv, HostInv, Working, CarryOut, stage = "pane.split"
    PROVE  PanesInv(StackNow)' /\ StartedInv(StackNow, LaunchesNow)'
<1>1. Typed /\ WorkInv /\ OpInv /\ IsTab(tab) /\ HostType /\ t \in Nat /\ w \in Nat
  BY Shape DEF ProgressInv, HostInv
<1>2. /\ UNCHANGED <<snapshot, w, t, stage, stack, launches, op, denied>> /\ Answered' /\ Shown /\ Shown'
      /\ StackNow = stack /\ LaunchesNow = launches
      /\ op.method = "pane.split" /\ phase # "ready"
  BY Carrying
<1>3. /\ tab' = tab
      /\ \A x, y : Finished(x, y)' <=> Finished(x, y)
      /\ \A leaf : Pane(leaf)' = Pane(leaf)
  BY <1>2, SamePlace
<1>4. SplitPane /\ started' = started
  BY <1>2 DEF CarryOut
<1>5. PICK m, a, n : m = op.at /\ a = stack[1].anchor /\ n = stack[1].node
  OBVIOUS
<1>6. /\ GoodStack(stack) /\ stack # <<>> /\ GoodLaunches(stack, launches)
      /\ op.anchor = a /\ IsFirst(tab.leaves, Append(n, 2), m)
  BY <1>1, <1>2, <1>5 DEF WorkInv, OpInv
<1>7. PICK s : s = Grow(stack, op.at)
  OBVIOUS
<1>8. /\ ~Made(stack, m) /\ m \in tab.leaves
      /\ \A leaf \in tab.leaves : Made(s, leaf) <=> Made(stack, leaf) \/ leaf = m
      /\ \A leaf \in tab.leaves : \A at :
           Made(stack, leaf) /\ leaf # a /\ InPlace(stack, leaf, at) => InPlace(s, leaf, at)
      /\ InPlace(s, a, Append(n, 1)) /\ InPlace(s, m, Append(n, 2))
  BY <1>1, <1>5, <1>6, <1>7, Grown DEF IsFirst
<1>9. StackNow' = s
  BY <1>2, <1>3, <1>7 DEF StackNow, Grow, Children, Unsplit
<1>10. PanesInv(stack) /\ StartedInv(stack, launches)
  BY <1>2 DEF HostInv
<1>11. PICK p \in panes :
         /\ p.pane = Pane(a)
         /\ panes' = (panes \ {p}) \union
                       {[p EXCEPT !.at = Append(@, 1)], [pane |-> Pane(m), at |-> Append(p.at, 2)]}
  BY <1>4, <1>5, <1>6 DEF SplitPane
<1>12. 1 \in DOMAIN stack
  BY <1>6, EmptySeq DEF GoodStack
<1>13. /\ p \in [pane : Place, at : Paths] /\ ~Finished(w, t)
       /\ Pane(a).w = w /\ Pane(a).t = t /\ Pane(a).leaf = a
       /\ Pane(m).w = w /\ Pane(m).t = t /\ Pane(m).leaf = m
  BY <1>1, <1>11 DEF HostType, Finished, Pane
<1>14. a \in tab.leaves /\ Made(stack, a) /\ a # m
  BY <1>8, <1>10, <1>11, <1>13 DEF PanesInv
<1>15. \A q \in panes : q.pane = Pane(a) => q.at = n
  BY <1>5, <1>10, <1>12, <1>13 DEF PanesInv, InPlace
<1>16. \A q \in panes : q.pane = Pane(a) => q = p
  <2>1. \A q \in panes : q \in [pane : Place, at : Paths]
    BY <1>1 DEF HostType
  <2> QED
    BY <1>11, <1>13, <1>15, <2>1
<1>17. PICK p1, p2 : p1 = [p EXCEPT !.at = Append(n, 1)] /\ p2 = [pane |-> Pane(m), at |-> Append(n, 2)]
  OBVIOUS
<1>18. /\ p1.pane = Pane(a) /\ p1.at = Append(n, 1)
       /\ p2.pane = Pane(m) /\ p2.at = Append(n, 2)
       /\ panes' = (panes \ {p}) \union {p1, p2}
  <2>1. p.at = n
    BY <1>11, <1>15
  <2>2. [p EXCEPT !.at = Append(@, 1)] = p1 /\ [pane |-> Pane(m), at |-> Append(p.at, 2)] = p2
    BY <1>17, <2>1
  <2> QED
    BY <1>11, <1>13, <1>17, <2>2
<1>19. ASSUME NEW q \in panes'
       PROVE  \/ /\ Finished(q.pane.w, q.pane.t) /\ q.at = q.pane.leaf
                 /\ q.pane.leaf \in snapshot[q.pane.w][q.pane.t].leaves
              \/ /\ q.pane.w = w /\ q.pane.t = t
                 /\ q.pane.leaf \in tab.leaves /\ Made(s, q.pane.leaf) /\ InPlace(s, q.pane.leaf, q.at)
  <2>1. CASE q = p1
    BY <1>8, <1>13, <1>14, <1>18, <2>1
  <2>2. CASE q = p2
    BY <1>8, <1>13, <1>18, <2>2
  <2>3. CASE q \in panes /\ q # p
    <3>1. q.pane # Pane(a) /\ q.pane \in Place
      BY <1>1, <1>16, <2>3 DEF HostType
    <3>2. CASE Finished(q.pane.w, q.pane.t)
      BY <1>10, <1>13, <2>3, <3>2 DEF PanesInv
    <3>3. CASE ~Finished(q.pane.w, q.pane.t)
      <4>1. /\ q.pane.w = w /\ q.pane.t = t /\ q.pane.leaf \in tab.leaves
            /\ Made(stack, q.pane.leaf) /\ InPlace(stack, q.pane.leaf, q.at)
        BY <1>10, <2>3, <3>3 DEF PanesInv
      <4>2. q.pane.leaf # a
        BY <3>1, <4>1 DEF Place, Pane
      <4> QED
        BY <1>8, <4>1, <4>2
    <3> QED
      BY <3>2, <3>3
  <2> QED
    BY <1>18, <1>19, <2>1, <2>2, <2>3
<1>20. PanesInv(s)'
  <2>1. \A x \in DOMAIN snapshot : \A y \in DOMAIN snapshot[x] : Finished(x, y) =>
          \A leaf \in snapshot[x][y].leaves : \E q \in panes' : q.pane = [w |-> x, t |-> y, leaf |-> leaf]
    <3> SUFFICES ASSUME NEW x \in DOMAIN snapshot, NEW y \in DOMAIN snapshot[x], Finished(x, y),
                        NEW leaf \in snapshot[x][y].leaves
                 PROVE  \E q \in panes' : q.pane = [w |-> x, t |-> y, leaf |-> leaf]
      OBVIOUS
    <3>1. PICK q \in panes : q.pane = [w |-> x, t |-> y, leaf |-> leaf]
      BY <1>10 DEF PanesInv
    <3>2. q # p
      BY <1>11, <1>13, <3>1
    <3> QED
      BY <1>18, <3>1, <3>2
  <2>2. \A leaf \in tab.leaves : Made(s, leaf) => \E q \in panes' : q.pane = Pane(leaf)
    <3> SUFFICES ASSUME NEW leaf \in tab.leaves, Made(s, leaf) PROVE \E q \in panes' : q.pane = Pane(leaf)
      OBVIOUS
    <3>1. CASE leaf = m
      BY <1>18, <3>1
    <3>2. CASE Made(stack, leaf)
      <4>1. PICK q \in panes : q.pane = Pane(leaf)
        BY <1>2, <1>10, <3>2 DEF PanesInv
      <4>2. CASE q = p
        BY <1>11, <1>18, <4>1, <4>2
      <4> QED
        BY <1>18, <4>1, <4>2
    <3> QED
      BY <1>8, <3>1, <3>2
  <2> QED
    BY <1>2, <1>3, <1>19, <2>1, <2>2 DEF PanesInv, Made, InPlace
<1>21. PICK l : l = IF op.at \in tab.commands THEN Append(launches, op.at) ELSE launches
  OBVIOUS
<1>22. LaunchesNow' = l
  BY <1>2, <1>3, <1>21 DEF LaunchesNow
<1>23. StartedInv(s, l)'
  <2>1. \A q \in started' :
          \/ Finished(q.w, q.t) /\ q.leaf \in snapshot[q.w][q.t].commands
          \/ q.w = w /\ q.t = t /\ q.leaf \in tab.commands
    BY <1>4, <1>10 DEF StartedInv
  <2>2. CASE denied
    BY <1>2, <1>3, <2>1, <2>2 DEF StartedInv
  <2>3. CASE ~denied
    <3>1. /\ \A k \in DOMAIN launches : \E j \in DOMAIN l : l[j] = launches[k]
          /\ m \in tab.commands => \E j \in DOMAIN l : l[j] = m
      <4>1. CASE op.at \notin tab.commands
        BY <1>5, <1>21, <4>1
      <4>2. CASE op.at \in tab.commands
        <5> DEFINE S == tab.commands
        <5>1. launches \in Seq(S) /\ m \in S /\ l = Append(launches, m)
          BY <1>5, <1>6, <1>21, <4>2 DEF GoodLaunches
        <5> HIDE DEF S
        <5>2. /\ Len(l) = Len(launches) + 1 /\ Len(launches) \in Nat /\ DOMAIN l = 1 .. Len(l)
              /\ DOMAIN launches = 1 .. Len(launches)
              /\ \A k \in 1 .. Len(launches) : l[k] = launches[k]
              /\ l[Len(launches) + 1] = m
          BY <5>1, AppendProperties
        <5> QED
          BY <5>2
      <4> QED
        BY <4>1, <4>2
    <3>2. tab.commands \subseteq tab.leaves
      BY <1>1 DEF IsTab
    <3>3. ASSUME NEW leaf \in tab.commands, Made(s, leaf)
          PROVE  Pane(leaf) \in started' \/ \E k \in DOMAIN l : l[k] = leaf
      <4>1. CASE leaf = m
        BY <3>1, <3>3, <4>1
      <4>2. CASE Made(stack, leaf)
        <5>1. Pane(leaf) \in started \/ \E k \in DOMAIN launches : launches[k] = leaf
          BY <1>2, <1>10, <2>3, <3>3, <4>2 DEF StartedInv
        <5> QED
          BY <1>4, <3>1, <5>1
      <4> QED
        BY <1>8, <3>2, <3>3, <4>1, <4>2
    <3>4. \A x \in DOMAIN snapshot : \A y \in DOMAIN snapshot[x] : Finished(x, y) =>
            \A leaf \in snapshot[x][y].commands : [w |-> x, t |-> y, leaf |-> leaf] \in started'
      BY <1>4, <1>10, <2>3 DEF StartedInv
    <3> QED
      BY <1>2, <1>3, <2>1, <3>3, <3>4 DEF StartedInv, Made
  <2> QED
    BY <2>2, <2>3
<1>24. PanesInv(StackNow)'
  BY <1>9, <1>20 DEF PanesInv, Made, InPlace
<1>25. StartedInv(StackNow, LaunchesNow)'
  BY <1>9, <1>22, <1>23 DEF StartedInv, Made
<1> QED
  BY <1>24, <1>25

\* A command that is typed is no longer to type.
LEMMA Typing ==
    ASSUME NEW S, NEW l \in Seq(S), l # <<>>
    PROVE  \A k \in DOMAIN l : l[k] = l[1] \/ \E j \in DOMAIN Tail(l) : Tail(l)[j] = l[k]
<1>1. Tail(l) \in Seq(S) /\ Len(Tail(l)) = Len(l) - 1 /\ \A k \in 1 .. Len(Tail(l)) : Tail(l)[k] = l[k + 1]
  BY HeadTailProperties
<1>2. Len(l) \in Nat /\ DOMAIN l = 1 .. Len(l) /\ DOMAIN Tail(l) = 1 .. Len(Tail(l))
  BY <1>1
<1> SUFFICES ASSUME NEW k \in DOMAIN l, k # 1 PROVE \E j \in DOMAIN Tail(l) : Tail(l)[j] = l[k]
  OBVIOUS
<1>3. k - 1 \in DOMAIN Tail(l) /\ Tail(l)[k - 1] = l[(k - 1) + 1] /\ (k - 1) + 1 = k
  BY <1>1, <1>2
<1> QED
  BY <1>3

LEMMA InputHost ==
    ASSUME ProgressInv, HostInv, Working, CarryOut, stage = "pane.send_input"
    PROVE  PanesInv(StackNow)' /\ StartedInv(StackNow, LaunchesNow)'
<1>1. Typed /\ WorkInv /\ OpInv
  BY DEF ProgressInv
<1>2. /\ UNCHANGED <<snapshot, w, t, stage, stack, launches, op, denied>> /\ Answered' /\ Shown /\ Shown'
      /\ StackNow = stack /\ LaunchesNow = launches
      /\ op.method = "pane.send_input" /\ phase # "ready"
  BY Carrying
<1>3. UNCHANGED panes /\ started' = started \union {Pane(op.at)}
  BY <1>2 DEF CarryOut
<1>4. PanesInv(stack) /\ StartedInv(stack, launches)
  BY <1>2 DEF HostInv
<1>5. StackNow' = stack
  BY <1>2 DEF StackNow
<1>6. PanesInv(StackNow)'
  BY <1>2, <1>3, <1>4, <1>5, PanesKept
<1>7. /\ tab' = tab
      /\ \A x, y : Finished(x, y)' <=> Finished(x, y)
      /\ \A leaf : Pane(leaf)' = Pane(leaf)
  BY <1>2, SamePlace
<1>8. PICK s, l : s = stack /\ l = Tail(launches)
  OBVIOUS
<1>9. LaunchesNow' = l
  BY <1>2, <1>8 DEF LaunchesNow
<1> DEFINE S == tab.commands
<1>10. launches \in Seq(S) /\ launches # <<>> /\ op.at = launches[1]
  BY <1>1, <1>2 DEF WorkInv, GoodLaunches, OpInv
<1>11. op.at \in tab.commands
  <2>1. launches \in Seq(S) /\ launches # <<>>
    BY <1>10
  <2> HIDE DEF S
  <2>2. launches[1] \in S
    BY <2>1, EmptySeq
  <2> QED
    BY <1>10, <2>2 DEF S
<1>12. \A k \in DOMAIN launches : launches[k] = op.at \/ \E j \in DOMAIN l : l[j] = launches[k]
  <2> HIDE DEF S
  <2> QED
    BY <1>8, <1>10, Typing
<1>13. StartedInv(s, l)'
  <2>1. \A q \in started' :
          \/ Finished(q.w, q.t) /\ q.leaf \in snapshot[q.w][q.t].commands
          \/ q.w = w /\ q.t = t /\ q.leaf \in tab.commands
    BY <1>3, <1>4, <1>11 DEF StartedInv, Pane
  <2>2. CASE denied
    BY <1>2, <1>7, <2>1, <2>2 DEF StartedInv
  <2>3. CASE ~denied
    <3>1. \A leaf \in tab.commands : Made(s, leaf) =>
            Pane(leaf) \in started' \/ \E k \in DOMAIN l : l[k] = leaf
      BY <1>2, <1>3, <1>4, <1>8, <1>12, <2>3 DEF StartedInv
    <3>2. \A x \in DOMAIN snapshot : \A y \in DOMAIN snapshot[x] : Finished(x, y) =>
            \A leaf \in snapshot[x][y].commands : [w |-> x, t |-> y, leaf |-> leaf] \in started'
      BY <1>3, <1>4, <2>3 DEF StartedInv
    <3> QED
      BY <1>2, <1>7, <2>1, <3>1, <3>2 DEF StartedInv, Made
  <2> QED
    BY <2>2, <2>3
<1>14. StartedInv(StackNow, LaunchesNow)'
  BY <1>5, <1>8, <1>9, <1>13 DEF StartedInv, Made
<1> QED
  BY <1>6, <1>14

LEMMA OtherHost ==
    ASSUME ProgressInv, HostInv, Working, CarryOut,
           stage \notin {"layout.apply", "pane.split", "pane.send_input"}
    PROVE  PanesInv(StackNow)' /\ StartedInv(StackNow, LaunchesNow)'
<1>1. /\ UNCHANGED <<snapshot, w, t, stage, stack, launches, op, denied>> /\ (Shown' <=> Shown)
      /\ StackNow = stack /\ LaunchesNow = launches /\ op.method = stage
  BY Carrying
<1>2. UNCHANGED <<panes, started>>
  BY <1>1 DEF CarryOut
<1>3. StackNow' = stack /\ LaunchesNow' = launches
  BY <1>1 DEF StackNow, LaunchesNow
<1>4. PanesInv(stack) /\ StartedInv(stack, launches)
  BY <1>1 DEF HostInv
<1> QED
  BY <1>1, <1>2, <1>3, <1>4, PanesKept, StartedKept

\* What the host makes is a pane of some leaf.
LEMMA HostTypes ==
    ASSUME ProgressInv, HostInv, CarryOut
    PROVE  HostType'
<1>1. Typed /\ HostType /\ IsTab(tab) /\ w \in Nat /\ t \in Nat /\ op \in Op
  BY Shape DEF ProgressInv, HostInv, Typed
<1>2. \A leaf \in Paths : Pane(leaf) \in Place
  BY <1>1 DEF Pane, Place
<1>3. <<>> \in Paths /\ tab.leaves \subseteq Paths /\ tab.commands \subseteq Paths
  BY <1>1, BelowOrder, EmptySeq DEF IsTab, Paths
<1>4. CASE op.method = "layout.apply"
  <2>1. Applied \subseteq Paths
    <3>1. FirstLeaf(<<>>) \in tab.leaves
      BY <1>1, FirstRoot DEF FirstLeaf
    <3> QED
      BY <1>3, <3>1 DEF Applied
  <2>2. \A leaf \in Applied :
          [pane |-> Pane(leaf), at |-> IF Bulk THEN leaf ELSE <<>>] \in [pane : Place, at : Paths]
    BY <1>2, <1>3, <2>1
  <2>3. /\ panes' = panes \union {[pane |-> Pane(leaf), at |-> IF Bulk THEN leaf ELSE <<>>] : leaf \in Applied}
        /\ started' = started \union
             (IF op.run THEN {Pane(leaf) : leaf \in Applied \intersect tab.commands} ELSE {})
    BY <1>4 DEF CarryOut
  <2>4. panes' \subseteq [pane : Place, at : Paths]
    BY <1>1, <2>2, <2>3 DEF HostType
  <2>5. started' \subseteq Place
    BY <1>1, <1>2, <1>3, <2>3 DEF HostType
  <2> QED
    BY <2>4, <2>5 DEF HostType
<1>5. CASE op.method = "pane.split"
  <2>1. SplitPane /\ started' = started
    BY <1>5 DEF CarryOut
  <2>2. PICK p \in panes :
          panes' = (panes \ {p}) \union
                     {[p EXCEPT !.at = Append(@, 1)], [pane |-> Pane(op.at), at |-> Append(p.at, 2)]}
    BY <2>1 DEF SplitPane
  <2>3. p \in [pane : Place, at : Paths] /\ op.at \in Paths
    BY <1>1 DEF HostType, Op
  <2>4. Append(p.at, 1) \in Paths /\ Append(p.at, 2) \in Paths
    BY <2>3, BelowChild
  <2>5. [p EXCEPT !.at = Append(@, 1)] = [pane |-> p.pane, at |-> Append(p.at, 1)]
    BY <2>3, SMTT(20)
  <2>6. /\ [p EXCEPT !.at = Append(@, 1)] \in [pane : Place, at : Paths]
        /\ [pane |-> Pane(op.at), at |-> Append(p.at, 2)] \in [pane : Place, at : Paths]
    BY <1>2, <2>3, <2>4, <2>5
  <2> QED
    BY <1>1, <2>1, <2>2, <2>6 DEF HostType
<1>6. CASE op.method = "pane.send_input"
  <2>1. op.at \in Paths
    BY <1>1 DEF Op
  <2> QED
    BY <1>1, <1>2, <1>6, <2>1 DEF CarryOut, HostType
<1>7. CASE op.method \notin {"layout.apply", "pane.split", "pane.send_input"}
  BY <1>1, <1>7 DEF CarryOut, HostType
<1> QED
  BY <1>4, <1>5, <1>6, <1>7

LEMMA CarryOutHost ==
    ASSUME ProgressInv, HostInv, CarryOut
    PROVE  HostInv'
<1>1. /\ request = "sent" /\ request' = "done"
      /\ UNCHANGED <<snapshot, w, t, stage, phase, pending, record, op>>
  BY DEF CarryOut, place, journals
<1>2. stage \notin {"idle", "beginSync", "archive"}
  <2>1. stage = "archive" => phase = "ready"
    BY DEF ProgressInv, OpInv, Working, Methods
  <2> QED
    BY <1>1, <2>1 DEF ProgressInv, JournalInv
<1>3. HostType'
  BY HostTypes
<1>4. SplitsInPlace'
  <2>1. CASE op.method = "pane.split"
    <3>1. SplitPane
      BY <2>1 DEF CarryOut
    <3>2. PICK p \in panes :
            p.pane = Pane(op.anchor) /\ splits' = splits \union {[w |-> w, t |-> t, at |-> p.at, node |-> op.node]}
      BY <3>1 DEF SplitPane
    <3>3. p.at = op.node
      BY <1>1, <2>1, <3>2 DEF HostInv
    <3>4. \A s \in splits : s.at = s.node
      BY DEF HostInv, SplitsInPlace
    <3> QED
      BY <3>2, <3>3, <3>4 DEF SplitsInPlace
  <2>2. CASE op.method # "pane.split"
    <3>1. splits' = splits
      BY <2>2 DEF CarryOut
    <3> QED
      BY <3>1 DEF HostInv, SplitsInPlace
  <2> QED
    BY <2>1, <2>2
<1>5. Working => PanesInv(StackNow)' /\ StartedInv(StackNow, LaunchesNow)'
  BY ApplyHost, SplitHost, InputHost, OtherHost
<1>6. \A r \in record'.after : ~(r # NoFile /\ r.state = "done")
  BY <1>1 DEF HostInv
<1>7. Working' <=> Working
  BY <1>1 DEF Working
<1>8. /\ Working => record.after = {NoFile}
      /\ \A r \in pending.after : r # NoFile => r.state # "done"
  BY DEF HostInv
<1>9. Working' \/ stage' \in {"idle", "beginSync"} =>
         PanesInv(StackNow)' /\ StartedInv(StackNow, LaunchesNow)'
  BY <1>1, <1>2, <1>5, <1>7
<1>10. /\ request' # "sent"
       /\ stage' # "archive"
       /\ Working' => record'.after = {NoFile}
       /\ \A r \in pending'.after : r # NoFile => r.state # "done"
  BY <1>1, <1>2, <1>7, <1>8
<1> QED
  BY <1>3, <1>4, <1>6, <1>9, <1>10 DEF HostInv

\* Every pane of a tab with nothing left to split is at its leaf.
LEMMA TabDone ==
    ASSUME PanesInv(<<>>), NEW p \in panes
    PROVE  /\ p.at = p.pane.leaf
           /\ \/ Finished(p.pane.w, p.pane.t) /\ p.pane.leaf \in snapshot[p.pane.w][p.pane.t].leaves
              \/ p.pane.w = w /\ p.pane.t = t /\ p.pane.leaf \in tab.leaves
BY DEF PanesInv, InPlace

\* The next tab: the one that is left is finished.
LEMMA NextTab ==
    ASSUME Typed, Shown, PanesInv(<<>>), StartedInv(<<>>, <<>>), UNCHANGED <<snapshot, panes, started, denied>>,
           ~Shown', StackNow' = <<>>, LaunchesNow' = <<>>,
           \/ w' = w /\ t' = t + 1 /\ t < Len(snapshot[w])
           \/ w' = w + 1 /\ t' = 1 /\ t = Len(snapshot[w]) /\ w < Len(snapshot)
    PROVE  PanesInv(StackNow)' /\ StartedInv(StackNow, LaunchesNow)'
<1>1. /\ DOMAIN snapshot = 1 .. Len(snapshot) /\ Len(snapshot) \in Nat
      /\ \A x \in DOMAIN snapshot : DOMAIN snapshot[x] = 1 .. Len(snapshot[x]) /\ Len(snapshot[x]) \in Nat
      /\ w \in Nat /\ t \in Nat /\ w \in DOMAIN snapshot /\ t \in DOMAIN snapshot[w]
  BY Shape DEF Typed
<1>2. \A x, y : Finished(x, y)' <=> Finished(x, y) \/ (x = w /\ y = t)
  <2> SUFFICES ASSUME NEW x \in DOMAIN snapshot, NEW y \in DOMAIN snapshot[x]
               PROVE  Finished(x, y)' <=> Finished(x, y) \/ (x = w /\ y = t)
    BY <1>1 DEF Finished
  <2>1. x \in Nat /\ y \in Nat /\ x <= Len(snapshot) /\ y <= Len(snapshot[x]) /\ y >= 1
    BY <1>1
  <2>2. Finished(x, y) <=> (x < w \/ (x = w /\ y < t))
    BY DEF Finished
  <2>3. Finished(x, y)' <=> (x < w' \/ (x = w' /\ y < t'))
    BY DEF Finished
  <2>4. CASE w' = w /\ t' = t + 1
    BY <1>1, <2>1, <2>2, <2>3, <2>4
  <2>5. CASE w' = w + 1 /\ t' = 1 /\ t = Len(snapshot[w])
    BY <1>1, <2>1, <2>2, <2>3, <2>5
  <2> QED
    BY <2>4, <2>5
<1>3. \A leaf : Made(<<>>, leaf)
  BY EmptyWork
<1>4. \A leaf : Pane(leaf) = [w |-> w, t |-> t, leaf |-> leaf]
  BY DEF Pane
<1>5. PanesInv(<<>>)'
  <2>1. \A p \in panes : Finished(p.pane.w, p.pane.t)' /\ p.at = p.pane.leaf
                         /\ p.pane.leaf \in snapshot[p.pane.w][p.pane.t].leaves
    BY <1>2, TabDone DEF tab
  <2>2. \A x \in DOMAIN snapshot : \A y \in DOMAIN snapshot[x] : Finished(x, y)' =>
          \A leaf \in snapshot[x][y].leaves : \E p \in panes : p.pane = [w |-> x, t |-> y, leaf |-> leaf]
    BY <1>2, <1>3, <1>4 DEF PanesInv, tab
  <2> QED
    BY <2>1, <2>2 DEF PanesInv
<1>6. StartedInv(<<>>, <<>>)'
  <2>1. \A q \in started : Finished(q.w, q.t)' /\ q.leaf \in snapshot[q.w][q.t].commands
    BY <1>2 DEF StartedInv, tab
  <2>2. denied \/ \A x \in DOMAIN snapshot : \A y \in DOMAIN snapshot[x] : Finished(x, y)' =>
          \A leaf \in snapshot[x][y].commands : [w |-> x, t |-> y, leaf |-> leaf] \in started
    BY <1>2, <1>3, <1>4 DEF StartedInv, tab
  <2> QED
    BY <2>1, <2>2 DEF StartedInv
<1>7. PanesInv(StackNow)'
  BY <1>5 DEF PanesInv, Made, InPlace
<1>8. StartedInv(StackNow, LaunchesNow)'
  BY <1>6 DEF StartedInv, Made
<1> QED
  BY <1>7, <1>8

\* The last tab: everything is there.
LEMMA LastTab ==
    ASSUME Typed, Shown, PanesInv(<<>>), StartedInv(<<>>, <<>>), t = Len(snapshot[w]), w = Len(snapshot)
    PROVE  Whole
<1>1. /\ DOMAIN snapshot = 1 .. Len(snapshot) /\ Len(snapshot) \in Nat
      /\ \A x \in DOMAIN snapshot : DOMAIN snapshot[x] = 1 .. Len(snapshot[x]) /\ Len(snapshot[x]) \in Nat
      /\ w \in DOMAIN snapshot /\ t \in DOMAIN snapshot[w]
  BY Shape DEF Typed
<1>2. \A x \in DOMAIN snapshot : \A y \in DOMAIN snapshot[x] : Finished(x, y) \/ (x = w /\ y = t)
  <2> SUFFICES ASSUME NEW x \in DOMAIN snapshot, NEW y \in DOMAIN snapshot[x]
               PROVE  Finished(x, y) \/ (x = w /\ y = t)
    OBVIOUS
  <2>1. x \in Nat /\ y \in Nat /\ x <= Len(snapshot) /\ y <= Len(snapshot[x])
    BY <1>1
  <2> QED
    BY <1>1, <2>1 DEF Finished
<1>3. \A leaf : Made(<<>>, leaf)
  BY EmptyWork
<1>4. \A leaf : Pane(leaf) = [w |-> w, t |-> t, leaf |-> leaf]
  BY DEF Pane
<1>5. \A p \in panes :
        /\ p.pane.w \in DOMAIN snapshot /\ p.pane.t \in DOMAIN snapshot[p.pane.w]
        /\ p.pane.leaf \in snapshot[p.pane.w][p.pane.t].leaves /\ p.at = p.pane.leaf
  BY <1>1, TabDone DEF Finished, tab
<1>6. \A q \in started :
        /\ q.w \in DOMAIN snapshot /\ q.t \in DOMAIN snapshot[q.w]
        /\ q.leaf \in snapshot[q.w][q.t].commands
  BY <1>1 DEF StartedInv, Finished, tab
<1>7. \A x \in DOMAIN snapshot : \A y \in DOMAIN snapshot[x] :
        \A leaf \in snapshot[x][y].leaves : \E p \in panes : p.pane = [w |-> x, t |-> y, leaf |-> leaf]
  BY <1>2, <1>3, <1>4 DEF PanesInv, tab
<1>8. denied \/ \A x \in DOMAIN snapshot : \A y \in DOMAIN snapshot[x] :
        \A leaf \in snapshot[x][y].commands : [w |-> x, t |-> y, leaf |-> leaf] \in started
  BY <1>2, <1>3, <1>4 DEF StartedInv, tab
<1> QED
  BY <1>5, <1>6, <1>7, <1>8 DEF Whole

LEMMA GoesOn ==
    ASSUME Typed, Working, NEW s, NEW l, PanesInv(s), StartedInv(s, l), stack' = s, launches' = l,
           UNCHANGED <<snapshot, panes, started, denied>>, phase' = "ready",
           \/ stage = "workspace.create" /\ Here /\ stage' = "layout.apply"
           \/ Shown /\ Here /\ stage' \in Methods \ {"workspace.create", "layout.apply"}
           \/ Shown /\ Onward /\ s = <<>> /\ l = <<>>
           \/ /\ Shown /\ Here /\ stage' = "archive" /\ s = <<>> /\ l = <<>>
              /\ t = Len(snapshot[w]) /\ w = Len(snapshot)
    PROVE  /\ Working' => PanesInv(StackNow)' /\ StartedInv(StackNow, LaunchesNow)'
           /\ stage' = "archive" => Whole'
<1>1. ~Answered' /\ StackNow' = s /\ LaunchesNow' = l
  <2>1. ~Answered'
    BY DEF Answered
  <2> QED
    BY <2>1 DEF StackNow, LaunchesNow
<1>2. ASSUME Here, Shown' <=> Shown
      PROVE  PanesInv(StackNow)' /\ StartedInv(StackNow, LaunchesNow)'
  <2>1. w' = w /\ t' = t
    BY <1>2 DEF Here
  <2> QED
    BY <1>1, <1>2, <2>1, PanesKept, StartedKept
<1>3. CASE stage = "workspace.create" /\ Here /\ stage' = "layout.apply"
  <2>1. ~Shown /\ ~Shown'
    BY <1>1, <1>3 DEF Shown
  <2> QED
    BY <1>2, <1>3, <2>1
<1>4. CASE Shown /\ Here /\ stage' \in Methods \ {"workspace.create", "layout.apply"}
  <2>1. Shown' /\ stage' # "archive"
    BY <1>4 DEF Shown, Working, Methods
  <2> QED
    BY <1>2, <1>4, <2>1
<1>5. CASE /\ Shown /\ Here /\ stage' = "archive" /\ s = <<>> /\ l = <<>>
           /\ t = Len(snapshot[w]) /\ w = Len(snapshot)
  <2>1. Whole
    BY <1>5, LastTab
  <2>2. Whole'
    BY <2>1 DEF Whole
  <2>3. ~Working'
    BY <1>5 DEF Working, Methods
  <2> QED
    BY <2>2, <2>3
<1>6. CASE Shown /\ Onward /\ s = <<>> /\ l = <<>>
  <2>1. CASE Here /\ stage' \in {"focusTab", "focusWorkspace", "focusAll"}
    BY <1>4, <1>6, <2>1 DEF Methods
  <2>2. CASE Here /\ stage' = "archive" /\ t = Len(snapshot[w]) /\ w = Len(snapshot)
    BY <1>5, <1>6, <2>2
  <2>3. CASE \/ w' = w /\ t' = t + 1 /\ stage' = "layout.apply" /\ t < Len(snapshot[w])
             \/ w' = w + 1 /\ t' = 1 /\ stage' = "workspace.create" /\ t = Len(snapshot[w]) /\ w < Len(snapshot)
    <3>1. ~Shown' /\ stage' # "archive"
      BY <1>1, <2>3 DEF Shown
    <3>2. /\ PanesInv(<<>>) /\ StartedInv(<<>>, <<>>) /\ StackNow' = <<>> /\ LaunchesNow' = <<>>
      BY <1>1, <1>6
    <3>3. PanesInv(StackNow)' /\ StartedInv(StackNow, LaunchesNow)'
      BY <1>6, <2>3, <3>1, <3>2, NextTab
    <3> QED
      BY <3>1, <3>3
  <2> QED
    BY <1>6, <2>1, <2>2, <2>3 DEF Onward
<1> QED
  BY <1>3, <1>4, <1>5, <1>6

LEMMA MoveHost ==
    ASSUME ProgressInv, HostInv, Advance \/ SkipLaunch
    PROVE  /\ Working' => PanesInv(StackNow)' /\ StartedInv(StackNow, LaunchesNow)'
           /\ stage' = "archive" => Whole'
<1>1. Typed /\ PlaceInv /\ WorkInv /\ OpInv
  BY DEF ProgressInv
<1>2. /\ phase' = "ready" /\ UNCHANGED <<snapshot, panes, started, denied>> /\ Working
      /\ PanesInv(StackNow) /\ StartedInv(StackNow, LaunchesNow)
  <2>1. Working
    BY <1>1, Advances, Skips DEF Working, Methods
  <2> QED
    BY <1>1, <2>1, Advances, Skips DEF Advance, SkipLaunch, host, outside, HostInv
<1>3. PICK s, l : s = stack' /\ l = launches'
  OBVIOUS
<1>4. CASE SkipLaunch
  <2>1. /\ stage = "pane.send_input" /\ phase = "ready" /\ ~allowed /\ Continue /\ stage' # "pane.split"
        /\ stack = <<>> /\ stack' = <<>>
    BY <1>1, <1>4, Skips
  <2>2. ~Answered /\ denied
    BY <1>1, <2>1 DEF Answered, Typed
  <2>3. PanesInv(s) /\ StartedInv(s, launches)
    BY <1>2, <1>3, <2>1, <2>2, Now
  <2>4. StartedInv(s, l)
    BY <2>2, <2>3 DEF StartedInv
  <2>5. Shown
    BY <1>2, <2>1 DEF Shown
  <2>6. \/ Here /\ stage' = "pane.send_input"
        \/ Onward /\ s = <<>> /\ l = <<>>
    BY <1>3, <2>1 DEF Continue
  <2> QED
    BY <1>1, <1>2, <1>3, <2>3, <2>4, <2>5, <2>6, GoesOn DEF Methods
<1>5. CASE Advance
  <2>1. Answered
    BY <1>5 DEF Advance, Answered
  <2>2. stage \in {"workspace.create", "layout.apply", "focusTab", "focusWorkspace", "focusAll"} =>
          launches = <<>> /\ stack = <<>>
    BY <1>1, <1>2 DEF WorkInv
  <2>3. stack' = StackNow /\ launches' = LaunchesNow
    <3>1. CASE stage = "layout.apply"
      BY <1>1, <1>5, <2>1, <2>2, <3>1, Advances, Now
    <3>2. CASE stage = "pane.split"
      BY <1>1, <1>5, <2>1, <3>2, Advances, Now
    <3>3. CASE stage = "pane.send_input"
      BY <1>1, <1>5, <2>1, <3>3, Advances, Now
    <3>4. CASE stage \notin {"layout.apply", "pane.split", "pane.send_input"}
      <4>1. UNCHANGED <<stack, launches>>
        BY <1>1, <1>5, <3>4, Advances DEF work
      <4> QED
        BY <3>4, <4>1, Now
    <3> QED
      BY <3>1, <3>2, <3>3, <3>4
  <2>4. PanesInv(s) /\ StartedInv(s, l)
    BY <1>2, <1>3, <2>3
  <2>5. stage # "workspace.create" => Shown
    BY <1>2, <2>1 DEF Shown
  <2>6. CASE stage = "workspace.create"
    <3>1. Here /\ stage' = "layout.apply"
      BY <1>1, <1>5, <2>6, Advances
    <3> QED
      BY <1>1, <1>2, <1>3, <2>4, <2>6, <3>1, GoesOn
  <2>7. CASE Here /\ stage' \in {"pane.split", "pane.rename", "pane.send_input"} /\ stage # "workspace.create"
    BY <1>1, <1>2, <1>3, <2>4, <2>5, <2>7, GoesOn DEF Methods
  <2>8. CASE Onward /\ stack' = <<>> /\ launches' = <<>> /\ stage # "workspace.create"
    BY <1>1, <1>2, <1>3, <2>4, <2>5, <2>8, GoesOn
  <2>9. CASE stage = "focusAll"
    <3>1. /\ Here /\ stage' = "archive" /\ t = Len(snapshot[w]) /\ w = Len(snapshot)
          /\ stack' = <<>> /\ launches' = <<>>
      BY <1>1, <1>5, <2>2, <2>9, Advances DEF PlaceInv, work
    <3> QED
      BY <1>1, <1>2, <1>3, <2>4, <2>5, <2>9, <3>1, GoesOn
  <2>10. CASE stage \in {"focusTab", "focusWorkspace"}
    <3>1. Onward /\ stack' = <<>> /\ launches' = <<>>
      BY <1>1, <1>5, <2>2, <2>10, Advances DEF work
    <3> QED
      BY <2>8, <2>10, <3>1
  <2>11. CASE stage \in {"layout.apply", "pane.split", "pane.rename", "pane.send_input"}
    <3>1. (Here /\ stage' = "pane.rename") \/ Continue
      BY <1>1, <1>5, <2>11, Advances
    <3> QED
      BY <2>7, <2>8, <2>11, <3>1 DEF Continue
  <2> QED
    BY <1>2, <2>6, <2>9, <2>10, <2>11 DEF Working, Methods
<1> QED
  BY <1>4, <1>5

LEMMA HostStep ==
    ASSUME ProgressInv, HostInv, [Next]_vars
    PROVE  HostInv'
<1>1. Typed /\ PlaceInv /\ WorkInv /\ OpInv /\ JournalInv
  BY DEF ProgressInv
<1>2. CASE CarryOut
  BY <1>2, CarryOutHost
<1> SUFFICES ASSUME ~CarryOut PROVE HostInv'
  BY <1>2
<1>3. UNCHANGED <<panes, splits, started>>
  BY DEF Next, Begin, BeginSync, Mark, MarkSync, Request, Answer, Advance, SkipLaunch, Fail, FailSync,
         Archive, Acknowledge, ArchiveSync, Remove, RemoveSync, Abort, Refuse, EditPolicy, Restart,
         PowerCut, vars, host
<1>4. HostType' /\ SplitsInPlace'
  BY <1>3 DEF HostInv, HostType, SplitsInPlace
<1>5. snapshot' = snapshot /\ (denied => denied')
  <2>1. CASE Advance \/ SkipLaunch
    <3>1. snapshot' = snapshot
      BY <1>1, <2>1, Advances, Skips
    <3>2. denied' = denied
      BY <2>1 DEF Advance, SkipLaunch, outside
    <3> QED
      BY <3>1, <3>2
  <2> QED
    BY <2>1 DEF Next, Begin, BeginSync, Mark, MarkSync, Request, Answer, Fail, FailSync, Archive,
         Acknowledge, ArchiveSync, Remove, RemoveSync, Abort, Refuse, EditPolicy, Restart, PowerCut, vars,
         outside, place
<1>6. Whole => Whole'
  BY <1>3, <1>5 DEF Whole
<1>7. /\ Working' \/ stage' \in {"idle", "beginSync"} =>
           PanesInv(StackNow)' /\ StartedInv(StackNow, LaunchesNow)'
      /\ stage' = "archive" => Whole'
  <2>1. CASE Advance \/ SkipLaunch
    <3>1. stage' \notin {"idle", "beginSync"}
      BY <1>1, <2>1, Advances, Skips DEF ProgressInv, Here, Onward, Continue
    <3> QED
      BY <2>1, <3>1, MoveHost
  <2>2. CASE Mark \/ MarkSync \/ Request \/ Answer \/ Refuse \/ EditPolicy \/ Restart \/ UNCHANGED vars
    <3>1. /\ UNCHANGED <<stage, w, t, stack, launches>> /\ (Answered' <=> Answered)
          /\ Answered => op' = op
      BY <2>2 DEF Mark, MarkSync, Request, Answer, Refuse, EditPolicy, Restart, vars, place, work, Answered
    <3>2. Shown' <=> Shown
      BY <3>1 DEF Shown, Working
    <3>3. tab' = tab
      BY <1>5, <3>1, SamePlace
    <3>4. StackNow' = StackNow
      <4>1. CASE ~Answered
        BY <3>1, <4>1 DEF StackNow
      <4>2. CASE Answered /\ stage # "layout.apply"
        BY <3>1, <3>3, <4>2 DEF StackNow, Grow, Children, Unsplit
      <4>3. CASE Answered /\ stage = "layout.apply"
        <5>1. IsTab(tab)
          BY <1>1, Shape
        <5>2. IsFirst(tab.leaves, <<>>, FirstLeaf(<<>>)) /\ IsFirst(tab'.leaves, <<>>, FirstLeaf(<<>>)')
          BY <3>3, <5>1, FirstRoot DEF FirstLeaf
        <5>3. <<>> \in Paths
          BY EmptySeq DEF Paths
        <5>4. IsFirst(tab.leaves, <<>>, FirstLeaf(<<>>)')
          BY <3>3, <5>2
        <5>5. FirstLeaf(<<>>)' = FirstLeaf(<<>>)
          BY <5>1, <5>2, <5>3, <5>4, FirstUnique
        <5>6. Bulk' <=> Bulk
          BY <3>3 DEF Bulk
        <5>7. Unsplit(<<>>, FirstLeaf(<<>>))' = Unsplit(<<>>, FirstLeaf(<<>>))
          BY <3>3, <5>5 DEF Unsplit
        <5> QED
          BY <3>1, <4>3, <5>6, <5>7 DEF StackNow
      <4> QED
        BY <4>1, <4>2, <4>3
    <3>5. LaunchesNow' = LaunchesNow
      BY <3>1, <3>3 DEF LaunchesNow
    <3>6. PICK s, l : s = StackNow /\ l = LaunchesNow
      OBVIOUS
    <3>7. Working \/ stage \in {"idle", "beginSync"} => PanesInv(s) /\ StartedInv(s, l)
      BY <3>6 DEF HostInv
    <3>8. Working' \/ stage' \in {"idle", "beginSync"} => Working \/ stage \in {"idle", "beginSync"}
      BY <3>1 DEF Working
    <3>9. PanesInv(s) /\ StartedInv(s, l) => PanesInv(StackNow)' /\ StartedInv(StackNow, LaunchesNow)'
      BY <1>3, <1>5, <3>1, <3>2, <3>4, <3>5, <3>6, PanesKept, StartedKept
    <3>10. stage' = "archive" => Whole'
      BY <1>6, <3>1 DEF HostInv
    <3> QED
      BY <3>7, <3>8, <3>9, <3>10
  <2>3. CASE Begin \/ BeginSync
    <3>1. /\ UNCHANGED <<w, t, stack, launches, phase>> /\ stage \in {"idle", "beginSync"}
          /\ stage' \in {"beginSync", "workspace.create"}
      BY <2>3 DEF Begin, BeginSync, place, work
    <3>2. ~Answered /\ ~Answered' /\ ~Shown /\ ~Shown'
      <4>1. phase = "ready"
        BY <1>1, <3>1 DEF OpInv, Working, Methods
      <4> QED
        BY <3>1, <4>1 DEF Answered, Shown, Working, Methods
    <3>3. PICK s, l : s = StackNow /\ l = LaunchesNow
      OBVIOUS
    <3>4. StackNow' = s /\ LaunchesNow' = l
      BY <3>1, <3>2, <3>3 DEF StackNow, LaunchesNow
    <3>5. PanesInv(s) /\ StartedInv(s, l)
      BY <3>1, <3>3 DEF HostInv
    <3> QED
      BY <1>3, <1>5, <3>1, <3>2, <3>4, <3>5, PanesKept, StartedKept
  <2>4. CASE \/ Fail \/ FailSync \/ Archive \/ Acknowledge \/ ArchiveSync \/ Remove
             \/ RemoveSync \/ Abort \/ PowerCut
    <3>1. stage' \in Endings
      BY <2>4 DEF Fail, FailSync, Archive, Acknowledge, ArchiveSync, Remove, RemoveSync, Abort, PowerCut,
                  Endings
    <3> QED
      BY <3>1 DEF Working, Methods, Endings
  <2> QED
    BY <2>1, <2>2, <2>3, <2>4 DEF Next
<1>8. request' = "sent" /\ op'.method = "pane.split" =>
        \A p \in panes' : p.pane = Pane(op.anchor)' => p.at = op'.node
  <2> SUFFICES ASSUME request' = "sent", op'.method = "pane.split",
                      NEW p \in panes', p.pane = Pane(op.anchor)'
               PROVE  p.at = op'.node
    OBVIOUS
  <2>1. CASE Request
    <3>1. /\ phase = "send" /\ UNCHANGED <<w, t, stage, stack, op>>
      BY <2>1 DEF Request, place, work
    <3>2. /\ Working /\ stage = "pane.split" /\ op.node = stack[1].node /\ op.anchor = stack[1].anchor
          /\ stack # <<>> /\ GoodStack(stack) /\ ~Answered
      BY <1>1, <3>1 DEF OpInv, WorkInv, Answered
    <3>3. 1 \in DOMAIN stack
      BY <3>2, EmptySeq DEF GoodStack
    <3>4. PanesInv(stack)
      BY <3>2, Now DEF HostInv
    <3>5. p \in panes /\ p.pane = Pane(op.anchor) /\ w \in Nat /\ t \in Nat
      BY <1>1, <1>3, <3>1, Shape DEF Pane
    <3>6. p.pane.w = w /\ p.pane.t = t /\ p.pane.leaf = stack[1].anchor
      BY <3>2, <3>5 DEF Pane
    <3>7. InPlace(stack, p.pane.leaf, p.at)
      BY <3>4, <3>5, <3>6 DEF PanesInv, Finished
    <3> QED
      BY <3>1, <3>2, <3>3, <3>6, <3>7 DEF InPlace
  <2>2. CASE ~Request
    <3>1. request = "sent" /\ UNCHANGED <<w, t, op>>
      <4>1. CASE Mark \/ Advance \/ SkipLaunch
        <5>1. request' = request /\ Working /\ phase # "await"
          BY <1>1, <4>1, Skips DEF Mark, Advance, SkipLaunch, Working, OpInv, Methods
        <5> QED
          BY <1>1, <5>1 DEF JournalInv
      <4> QED
        BY <2>2, <4>1 DEF Next, Begin, BeginSync, MarkSync, Request, Answer, Fail, FailSync, Archive,
             Acknowledge, ArchiveSync, Remove, RemoveSync, Abort, Refuse, EditPolicy, Restart, PowerCut, vars,
             place
    <3>2. p \in panes /\ p.pane = Pane(op.anchor) /\ op.method = "pane.split"
      BY <1>3, <3>1 DEF Pane
    <3> QED
      BY <3>1, <3>2 DEF HostInv
  <2> QED
    BY <2>1, <2>2
<1>9. Working' => record'.after = {NoFile}
  <2>1. CASE BeginSync
    <3>1. record = Stored(NoFile) /\ record' = record
      BY <1>1, <2>1 DEF BeginSync, JournalInv
    <3> QED
      BY <1>1, <3>1, Files
  <2>2. CASE Working /\ record' = record
    BY <2>2 DEF HostInv
  <2>3. CASE ~BeginSync /\ ~(Working /\ record' = record)
    <3>1. ~Working'
      <4>1. CASE Begin \/ Fail \/ FailSync \/ Archive \/ Acknowledge \/ ArchiveSync \/ Remove
                \/ RemoveSync \/ Abort \/ PowerCut
        BY <4>1 DEF Begin, Fail, FailSync, Archive, Acknowledge, ArchiveSync, Remove, RemoveSync, Abort,
             PowerCut, Working, Methods
      <4>2. CASE Advance \/ SkipLaunch
        <5>1. Working /\ record' = record
          BY <1>1, <4>2, Advances, Skips DEF Advance, SkipLaunch, Working, Methods, journals
        <5> QED
          BY <2>3, <5>1
      <4>3. CASE Mark \/ MarkSync \/ Request \/ Answer \/ Refuse \/ EditPolicy \/ Restart \/ UNCHANGED vars
        <5>1. stage' = stage /\ record' = record
          BY <4>3 DEF Mark, MarkSync, Request, Answer, Refuse, EditPolicy, Restart, vars, journals
        <5> QED
          BY <2>3, <5>1 DEF Working
      <4> QED
        BY <2>3, <4>1, <4>2, <4>3 DEF Next
    <3> QED
      BY <3>1
  <2> QED
    BY <2>1, <2>2, <2>3
<1>10. \A r \in pending'.after : r # NoFile => r.state # "done"
  <2>1. pending.now # NoFile => pending.now \in Journal /\ pending.now.state # "done"
    BY <1>1, Files DEF HostInv
  <2>2. CASE Mark \/ Answer \/ Fail
    <3>1. pending.now # NoFile /\ pending.now \in Journal
      BY <1>1, <2>1, <2>2 DEF JournalInv, Mark, Answer, Fail, Working, OpInv
    <3>2. PICK r \in Journal : r = pending.now
      BY <3>1
    <3>3. r.state # "done"
      BY <2>1, <3>1, <3>2
    <3>4. CASE Mark
      <4>1. PICK o \in Op : o = Mutation
        BY <1>1, <3>4, Mutations DEF Mark, Working
      <4>2. PICK e : e = [r EXCEPT !.steps = Append(@, [what |-> o, outcome |-> "sending"])]
        OBVIOUS
      <4>3. pending' = Renamed(pending, e)
        BY <3>2, <3>4, <4>1, <4>2 DEF Mark
      <4>4. e.state # "done"
        BY <3>3, <4>2, JournalMarks
      <4> QED
        BY <1>1, <4>3, <4>4, Files DEF HostInv
    <3>5. CASE Answer
      <4>1. PICK e : e = [r EXCEPT !.steps[Len(r.steps)].outcome = "applied"]
        OBVIOUS
      <4>2. pending' = Renamed(pending, e)
        BY <3>2, <3>5, <4>1 DEF Answer
      <4>3. Len(r.steps) > 0
        <5>1. Len(log) \in Nat /\ log # <<>> /\ Len(r.steps) = Len(log) /\ log \in Seq(Op)
          BY <1>1, <3>2, <3>5 DEF JournalInv, Answer, OpInv, Typed
        <5> QED
          BY <5>1, EmptySeq
      <4>4. e.state # "done"
        BY <3>3, <4>1, <4>3, JournalAnswers
      <4> QED
        BY <1>1, <4>2, <4>4, Files DEF HostInv
    <3>6. CASE Fail
      <4>1. PICK e : e = [r EXCEPT !.state = "failed"]
        OBVIOUS
      <4>2. pending' = Renamed(pending, e)
        BY <3>2, <3>6, <4>1 DEF Fail
      <4>3. e.state # "done"
        BY <4>1, JournalSteps
      <4> QED
        BY <1>1, <4>2, <4>3, Files DEF HostInv
    <3> QED
      BY <2>2, <3>4, <3>5, <3>6
  <2>3. CASE Begin
    <3>1. PICK e : e = [state |-> "restoring", acknowledged |-> FALSE, steps |-> <<>>]
      OBVIOUS
    <3>2. pending' = Renamed(pending, e) /\ e.state # "done"
      BY <2>3, <3>1 DEF Begin
    <3> QED
      BY <1>1, <3>2, Files DEF HostInv
  <2>4. CASE Remove
    BY <1>1, <2>4, Files DEF HostInv, Remove
  <2>5. CASE PowerCut
    <3>1. PICK v \in pending.after : pending' = Stored(v)
      BY <2>5 DEF PowerCut
    <3> QED
      BY <1>1, <3>1, Files DEF HostInv
  <2>6. CASE BeginSync \/ MarkSync \/ Advance \/ FailSync \/ RemoveSync
    <3>1. pending' = Synced(pending)
      BY <2>6 DEF BeginSync, MarkSync, Advance, FailSync, RemoveSync
    <3> QED
      BY <1>1, <2>1, <3>1, Files
  <2>7. CASE pending' = pending
    BY <2>7 DEF HostInv
  <2> QED
    BY <2>2, <2>3, <2>4, <2>5, <2>6, <2>7 DEF Next, Request, SkipLaunch, Archive, Acknowledge, ArchiveSync,
         Abort, Refuse, EditPolicy, Restart, vars, journals
<1>11. \A r \in record'.after : r # NoFile /\ r.state = "done" => Whole' /\ request' = "none"
  <2>1. CASE Archive
    <3>1. pending.now # NoFile /\ request = "none" /\ Whole /\ request' = request /\ stage = "archive"
      BY <1>1, <2>1 DEF Archive, JournalInv, OpInv, Working, Methods, HostInv
    <3> QED
      BY <1>6, <3>1
  <2>2. CASE Acknowledge
    <3>1. PICK r \in Journal : r = pending.now
      BY <1>1, <2>2, Files DEF Acknowledge
    <3>2. PICK e : e = [r EXCEPT !.acknowledged = TRUE]
      OBVIOUS
    <3>3. record' = Renamed(record, e) /\ request' = request
      BY <2>2, <3>1, <3>2 DEF Acknowledge
    <3>4. e.state # "done"
      <4>1. r # NoFile /\ r.state # "done"
        BY <1>1, <3>1, FileAssumption, Files DEF HostInv
      <4> QED
        BY <3>2, <4>1, JournalSteps
    <3>5. \A q \in record.after : q # NoFile /\ q.state = "done" => Whole' /\ request' = "none"
      BY <1>6, <3>3 DEF HostInv
    <3> QED
      BY <1>1, <3>3, <3>4, <3>5, Files
  <2>3. CASE ArchiveSync
    <3>1. record'.after = {record.now} /\ request' = request /\ record.now \in record.after
      BY <1>1, <2>3, Files DEF ArchiveSync
    <3> QED
      BY <1>6, <3>1 DEF HostInv
  <2>4. CASE PowerCut
    <3>1. (\E v \in record.after : record' = Stored(v)) /\ request' = "none"
      BY <2>4 DEF PowerCut
    <3>2. PICK v \in record.after : record' = Stored(v)
      BY <3>1
    <3>3. record'.after = {v}
      BY <1>1, <3>2, Files
    <3> QED
      BY <1>6, <3>1, <3>3 DEF HostInv
  <2>5. CASE record' = record /\ (request' = request \/ request' = "none")
    BY <1>6, <2>5 DEF HostInv
  <2>6. CASE Request \/ Refuse
    <3>1. record' = record /\ (Working \/ request = "sent")
      BY <1>1, <2>6 DEF Request, Refuse, OpInv, journals
    <3>2. \A r \in record.after : ~(r # NoFile /\ r.state = "done")
      BY <3>1 DEF HostInv
    <3> QED
      BY <3>1, <3>2
  <2> QED
    BY <2>1, <2>2, <2>3, <2>4, <2>5, <2>6 DEF Next, Begin, BeginSync, Mark, MarkSync, Answer, Advance,
         SkipLaunch, Fail, FailSync, Remove, RemoveSync, Abort, EditPolicy, Restart, vars, journals
<1> QED
  BY <1>4, <1>7, <1>8, <1>9, <1>10, <1>11 DEF HostInv

LEMMA Reproduced ==
    ASSUME ProgressInv, HostInv
    PROVE  LayoutReproduced
<1> SUFFICES ASSUME record.now # NoFile, record.now.state = "done"
             PROVE  LayoutReproduced
  BY DEF LayoutReproduced
<1>1. Typed /\ HostType /\ Whole
  BY Files DEF ProgressInv, HostInv
<1>2. /\ DOMAIN snapshot = 1 .. Len(snapshot)
      /\ \A x \in DOMAIN snapshot : DOMAIN snapshot[x] = 1 .. Len(snapshot[x])
      /\ \A x \in DOMAIN snapshot : \A y \in DOMAIN snapshot[x] : IsTab(snapshot[x][y])
  BY <1>1, Shape
<1> DEFINE all == UNION {UNION {{[w |-> x, t |-> y, leaf |-> leaf] : leaf \in snapshot[x][y].leaves} :
                      y \in DOMAIN snapshot[x]} : x \in DOMAIN snapshot}
           commands == {p \in all : p.leaf \in snapshot[p.w][p.t].commands}
<1>3. \A p : p \in all <=> \E x \in DOMAIN snapshot : \E y \in DOMAIN snapshot[x] :
                             \E leaf \in snapshot[x][y].leaves : p = [w |-> x, t |-> y, leaf |-> leaf]
  OBVIOUS
<1>4. \A p \in commands : p \in all /\ p.leaf \in snapshot[p.w][p.t].commands
  OBVIOUS
<1>5. \A p \in all : p.leaf \in snapshot[p.w][p.t].commands => p \in commands
  OBVIOUS
<1> HIDE DEF all, commands
<1>6. \A p \in Place : p.w \in DOMAIN snapshot /\ p.t \in DOMAIN snapshot[p.w]
                       /\ p.leaf \in snapshot[p.w][p.t].leaves => p \in all
  <2> SUFFICES ASSUME NEW p \in Place, p.w \in DOMAIN snapshot, p.t \in DOMAIN snapshot[p.w],
                      p.leaf \in snapshot[p.w][p.t].leaves
               PROVE  p \in all
    OBVIOUS
  <2>1. p = [w |-> p.w, t |-> p.t, leaf |-> p.leaf]
    BY DEF Place
  <2> QED
    BY <1>3, <2>1
<1>7. panes = {[pane |-> p, at |-> p.leaf] : p \in all}
  <2>1. ASSUME NEW q \in panes PROVE q \in {[pane |-> p, at |-> p.leaf] : p \in all}
    <3>1. q \in [pane : Place, at : Paths] /\ q.pane \in Place
      BY <1>1 DEF HostType
    <3>2. q.pane \in all /\ q.at = q.pane.leaf
      BY <1>1, <1>6, <3>1 DEF Whole
    <3>3. q = [pane |-> q.pane, at |-> q.pane.leaf]
      BY <3>1, <3>2
    <3> QED
      BY <3>2, <3>3
  <2>2. ASSUME NEW p \in all PROVE [pane |-> p, at |-> p.leaf] \in panes
    <3>1. \E x \in DOMAIN snapshot : \E y \in DOMAIN snapshot[x] :
             \E leaf \in snapshot[x][y].leaves : p = [w |-> x, t |-> y, leaf |-> leaf]
      BY <1>3, <2>2
    <3>2. PICK q \in panes : q.pane = p
      BY <1>1, <3>1 DEF Whole
    <3>3. q \in [pane : Place, at : Paths] /\ q.at = p.leaf
      BY <1>1, <3>2 DEF HostType, Whole
    <3>4. q = [pane |-> p, at |-> p.leaf]
      BY <3>2, <3>3
    <3> QED
      BY <3>4
  <2> QED
    BY <2>1, <2>2
<1>8. started \subseteq commands
  <2> SUFFICES ASSUME NEW q \in started PROVE q \in commands
    OBVIOUS
  <2>1. /\ q \in Place /\ q.w \in DOMAIN snapshot /\ q.t \in DOMAIN snapshot[q.w]
        /\ q.leaf \in snapshot[q.w][q.t].commands
    BY <1>1 DEF HostType, Whole
  <2>2. q.leaf \in snapshot[q.w][q.t].leaves
    BY <1>2, <2>1 DEF IsTab
  <2> QED
    BY <1>5, <1>6, <2>1, <2>2
<1>9. ~denied => started = commands
  <2> SUFFICES ASSUME ~denied, NEW p \in commands PROVE p \in started
    BY <1>8
  <2>1. PICK x \in DOMAIN snapshot : \E y \in DOMAIN snapshot[x] :
          \E leaf \in snapshot[x][y].leaves : p = [w |-> x, t |-> y, leaf |-> leaf]
    BY <1>3, <1>4
  <2>2. PICK y \in DOMAIN snapshot[x] :
          \E leaf \in snapshot[x][y].leaves : p = [w |-> x, t |-> y, leaf |-> leaf]
    BY <2>1
  <2>3. PICK leaf \in snapshot[x][y].leaves : p = [w |-> x, t |-> y, leaf |-> leaf]
    BY <2>2
  <2>4. leaf \in snapshot[x][y].commands
    BY <1>4, <2>3
  <2> QED
    BY <1>1, <2>3, <2>4 DEF Whole
<1> QED
  BY <1>7, <1>8, <1>9 DEF LayoutReproduced, all, commands

LEMMA HostStart == Init => HostInv
<1> SUFFICES ASSUME Init PROVE HostInv
  OBVIOUS
<1>1. ProgressInv
  BY ProgressStart
<1>2. /\ stage = "idle" /\ phase = "ready" /\ w = 1 /\ t = 1 /\ stack = <<>>
      /\ launches = <<>> /\ panes = {} /\ started = {} /\ splits = {} /\ request = "none"
      /\ pending.after = {NoFile} /\ record.after = {NoFile}
  BY DEF Init, Stored
<1>3. ~Working /\ ~Shown /\ ~Answered
  BY <1>2 DEF Working, Shown, Methods, Answered
<1>4. \A x \in DOMAIN snapshot : \A y \in DOMAIN snapshot[x] : ~Finished(x, y)
  <2>1. \A x \in DOMAIN snapshot : x \in Nat /\ x >= 1 /\ \A y \in DOMAIN snapshot[x] : y \in Nat /\ y >= 1
    BY <1>1, Shape DEF ProgressInv
  <2> QED
    BY <1>2, <2>1 DEF Finished
<1>5. PanesInv(StackNow) /\ StartedInv(StackNow, LaunchesNow)
  BY <1>2, <1>3, <1>4 DEF PanesInv, StartedInv
<1>6. HostType /\ SplitsInPlace
  BY <1>2 DEF HostType, SplitsInPlace
<1> QED
  BY <1>2, <1>3, <1>5, <1>6 DEF HostInv

\* The reconstruction's splits still to make and commands still to type always account for
\* the panes and commands that the host has.
THEOREM HostInvariance == Spec => [](ProgressInv /\ HostInv)
<1>1. Init => ProgressInv /\ HostInv
  BY ProgressStart, HostStart
<1>2. ProgressInv /\ HostInv /\ [Next]_vars => ProgressInv' /\ HostInv'
  BY ProgressStep, HostStep
<1> QED
  BY <1>1, <1>2, PTL DEF Spec

\* Every split is made where its node is in the saved tree (layout::expand_tree).
THEOREM SplitsPlaced == Spec => []SplitsInPlace
<1>1. HostInv => SplitsInPlace
  BY DEF HostInv
<1> QED
  BY <1>1, HostInvariance, PTL

\* A reconstruction that is done made every pane at its leaf and no other, and started in
\* each the command of that leaf alone, all of them if the policy always allowed it
\* (layout::rebuild, expand_tree, launch_splits).
THEOREM WholeLayout == Spec => []LayoutReproduced
<1>1. ProgressInv /\ HostInv => LayoutReproduced
  BY Reproduced
<1> QED
  BY <1>1, HostInvariance, PTL
=============================================================================
