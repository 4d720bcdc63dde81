----------------------------- MODULE PanesProof -----------------------------
(***************************************************************************)
(* Proofs about the checks of a pane's processes, for any processes that   *)
(* change at any moment, and about the commands that are saved and run.    *)
(***************************************************************************)
EXTENDS Panes, SequenceTheorems, FiniteSetTheorems, WellFoundedInduction, TLAPS

(***************************************************************************)
(* The processes.  What the checks rest on: an identity (number, start,    *)
(* parent, group) that a process has lost is never seen again, so that two *)
(* reads that agree on it saw the same process at every moment between.    *)
(***************************************************************************)
Memory ==
    [table : {<<>>} \union [Pids -> Identity \union {None}], unread : SUBSET (Pids \union Threads),
     info : Info \union {None}, of : Identity \union {None}, image : Images \union {None},
     verdict : Images \union {None, "idle", "nothing"}]

\* An identity that was read: since then its process kept its group, and its parent too or
\* became an orphan; or its number is free or taken by a later process.
Known(x) ==
    /\ x \in Identity /\ x.start <= changes
    /\ x.pid \in Alive /\ procs[x.pid].start = x.start =>
         /\ procs[x.pid].group = x.group
         /\ procs[x.pid].parent \in {x.parent, Nobody}

KernelInv ==
    /\ KernelTypeOK
    /\ \A p \in Alive : procs[p].start <= changes
    /\ \A c \in Children(Shell) : procs[c].thread \in threads

\* The identity a process had when the check began.
WasId(p) == [pid |-> p, start |-> was[p].start, parent |-> was[p].parent, group |-> was[p].group]

WasInv ==
    /\ was \in [Pids -> Proc \union {None}]
    /\ \A p \in Pids : was[p] # None => Known(WasId(p))

CaptureLabels == {"table", "shell", "command"}
IdleLabels == {"exe", "ident", "childrenBefore", "childrenList", "childrenRead", "childrenMac",
               "childrenAfter", "childrenTable", "exeAgain"}
Argv == {"argvBefore", "argvRead", "argvAfter"}
Looking == Argv \union (IdleLabels \ {"exe", "ident"})
Childless == {"childrenAfter", "argvBefore", "argvRead", "argvAfter", "exeAgain"}

\* The invariant says of a check that is at label l with memory m, for which herdr named
\* the leader ld and the arguments were read of rd: first, its types,
Typed(l, m, ld, rd) ==
    /\ l \in Labels /\ m \in Memory
    /\ ld \in Identity \union {None} /\ rd \in Identity \union {None}
    /\ m.verdict # None => l = "end"
    /\ l \in CaptureLabels => task = "capture"
    /\ l \in IdleLabels => task = "idle"
    /\ l \in {"shell", "command", "exe", "ident"} => m.info # None
    /\ l \in Looking => m.of # None

\* the table, which has every process that stays as it is once its number was read,
Trusted(table, unread) ==
    /\ table \in [Pids -> Identity \union {None}]
    /\ \A p \in Pids : table[p] # None => table[p].pid = p /\ Known(table[p])
    /\ \A p \in Pids \ unread : Steady(p) => table[p] = Process(p)

TableAt(l, m) ==
    /\ l \in CaptureLabels \union {"childrenTable"} => Trusted(m.table, m.unread)
    /\ l \in {"shell", "command"} => m.unread = {}

\* the leader: one that is still as the table has it was so when herdr named it,
LedAt(l, m, ld) ==
    l \in {"shell", "command"} =>
      LET x == m.table[m.info.group] IN x # None /\ Process(x.pid) = x => ld = x

\* the process looked at, while it is the same,
Speaks(of) ==
    \A q \in Alive \ {of.pid} :
      /\ procs[q].group = of.group
      /\ \E set \in SUBSET {p \in Pids : Steady(p)} :
           q \in set /\ \A p \in set : procs[p].parent \in set \union {Nobody}
      => Below(procs, q, of.pid)

OfAt(l, m, ld, rd) ==
    l \in Looking =>
        /\ Known(m.of)
        /\ task = "capture" => Speaks(m.of) /\ (Process(m.of.pid) = m.of => ld = m.of)
        /\ l = "argvAfter" /\ Process(m.of.pid) = m.of => rd = m.of

\* the answer of a capture,
SavedAt(l, m, ld, rd) ==
    l = "end" /\ task = "capture" /\ m.verdict \in Images =>
        /\ m.of # None /\ Process(m.of.pid) = m.of
        /\ ld = m.of /\ rd = m.of /\ Speaks(m.of)

\* and the children: one not found yet is still to be found, or its thread has ended.
NoJobs == \A q \in Children(Shell) : ~Steady(q)

JobsAt(l, m) ==
    /\ l = "childrenRead" =>
         \/ m.unread \ threads # {}
         \/ \A q \in Children(Shell) : Steady(q) => procs[q].thread \in m.unread
    /\ task = "idle" /\ l \in Childless => NoJobs
    /\ l = "end" /\ m.verdict = "idle" => NoJobs

Holds(l, m, ld, rd) ==
    /\ Typed(l, m, ld, rd) /\ TableAt(l, m) /\ LedAt(l, m, ld)
    /\ OfAt(l, m, ld, rd) /\ SavedAt(l, m, ld, rd) /\ JobsAt(l, m)

IInv ==
    /\ KernelInv /\ WasInv /\ task \in {"capture", "idle"}
    /\ Holds(pc, mem, led, read)

-----------------------------------------------------------------------------
(* What a change of the processes does *)

\* A process is new, or what identifies it is as before but that it may be an orphan.
LEMMA Effect ==
    ASSUME KernelInv, Change
    PROVE  /\ changes' = changes + 1 /\ changes' \in 0 .. MaxChanges
           /\ procs' \in [Pids -> Proc \union {None}]
           /\ threads' \subseteq threads /\ Main \in threads' /\ foreground' \in Pids
           /\ \A p \in Pids : procs'[p] # None =>
                \/ /\ procs'[p].start = changes + 1
                   /\ procs'[p].parent = Shell => procs'[p].thread \in threads'
                \/ /\ procs[p] # None
                   /\ procs'[p].start = procs[p].start /\ procs'[p].group = procs[p].group
                   /\ procs'[p].parent \in {procs[p].parent, Nobody}
                   /\ \/ procs'[p].thread = procs[p].thread /\ threads' = threads
                      \/ procs'[p].thread = procs[p].thread /\ procs[p].thread \in threads'
                      \/ procs'[p].thread = procs[p].thread /\ procs'[p].parent # Shell
                      \/ procs'[p].thread = Main /\ procs[p].thread \notin threads'
<1>1. /\ procs \in [Pids -> Proc \union {None}] /\ threads \subseteq Threads /\ Main \in threads
      /\ foreground \in Pids /\ changes \in 0 .. MaxChanges /\ MaxChanges \in Nat
      /\ None \notin Proc /\ Main \in Threads /\ Shell \in Pids
  BY ProcessAssumption, SceneAssumption DEF KernelInv, KernelTypeOK
<1>2. changes' = changes + 1 /\ changes' \in 0 .. MaxChanges
  BY <1>1 DEF Change
<1>3. \A p \in Alive : procs[p] \in Proc /\ p \in Pids
  BY <1>1 DEF Alive
<1>4. CASE \E p, q \in Pids : Fork(p, q)
  <2>1. PICK p \in Alive, q \in Pids \ Alive, image \in Images, group \in Pids, thread \in Threads :
          /\ procs' = [procs EXCEPT ![q] = [start |-> changes + 1, parent |-> p, group |-> group,
                                            image |-> image, thread |-> thread]]
          /\ UNCHANGED <<threads, foreground>> /\ (p = Shell => thread \in threads)
    <3>1. PICK p \in Alive, q \in Pids \ Alive : Fork(p, q)
      BY <1>4 DEF Fork
    <3>2. PICK image \in Images,
               group \in {procs[p].group} \union
                         (IF p = Shell THEN {q} \union {procs[c].group : c \in Children(p)} ELSE {}),
               thread \in IF p = Shell THEN threads ELSE {Main} :
            procs' = [procs EXCEPT ![q] = [start |-> changes + 1, parent |-> p, group |-> group,
                                           image |-> image, thread |-> thread]]
      BY <3>1 DEF Fork
    <3>3. group \in Pids
      BY <1>3, <3>2 DEF Children, Proc
    <3>4. thread \in Threads /\ (p = Shell => thread \in threads)
      BY <1>1, <3>2
    <3> QED
      BY <3>1, <3>2, <3>3, <3>4 DEF Fork
  <2> DEFINE new == [start |-> changes + 1, parent |-> p, group |-> group, image |-> image,
                     thread |-> thread]
  <2>2. new \in Proc
    BY <1>2, <1>3, <2>1 DEF Proc
  <2>3. new.start = changes + 1 /\ (new.parent = Shell => new.thread \in threads)
    BY <2>1
  <2>4. procs' = [procs EXCEPT ![q] = new]
    BY <2>1
  <2> HIDE DEF new
  <2> QED
    BY <1>1, <1>2, <2>1, <2>2, <2>3, <2>4
<1>5. CASE \E p \in Pids : Exec(p)
  <2>1. PICK p \in Alive, image \in Images : /\ procs' = [procs EXCEPT ![p].image = image]
                                             /\ UNCHANGED <<threads, foreground>>
    BY <1>5 DEF Exec
  <2>2. [procs[p] EXCEPT !.image = image] \in Proc
    BY <1>3 DEF Proc
  <2>3. /\ [procs[p] EXCEPT !.image = image].start = procs[p].start
        /\ [procs[p] EXCEPT !.image = image].group = procs[p].group
        /\ [procs[p] EXCEPT !.image = image].parent = procs[p].parent
        /\ [procs[p] EXCEPT !.image = image].thread = procs[p].thread
    BY <1>3 DEF Proc
  <2>4. procs[p] # None /\ p \in Pids
    BY DEF Alive
  <2> QED
    BY <1>1, <1>2, <2>1, <2>2, <2>3, <2>4
<1>6. CASE \E p \in Pids : ProcessExit(p)
  <2>1. PICK p \in Alive :
          /\ procs' = [q \in Pids |->
               CASE q = p -> None
                 [] q \in Children(p) \ {p} -> [procs[q] EXCEPT !.parent = Nobody]
                 [] OTHER -> procs[q]]
          /\ UNCHANGED <<threads, foreground>>
    BY <1>6 DEF ProcessExit
  <2>2. \A q \in Children(p) : procs[q] # None /\ procs[q] \in Proc /\ q \in Pids
    BY <1>3 DEF Children, Alive
  <2>3. ASSUME NEW q \in Children(p)
        PROVE  /\ [procs[q] EXCEPT !.parent = Nobody] \in Proc
               /\ [procs[q] EXCEPT !.parent = Nobody].start = procs[q].start
               /\ [procs[q] EXCEPT !.parent = Nobody].group = procs[q].group
               /\ [procs[q] EXCEPT !.parent = Nobody].parent = Nobody
               /\ [procs[q] EXCEPT !.parent = Nobody].thread = procs[q].thread
    BY <2>2 DEF Proc
  <2>4. ASSUME NEW q \in Pids
        PROVE  /\ procs'[q] \in Proc \union {None}
               /\ procs'[q] # None =>
                    /\ procs[q] # None
                    /\ procs'[q].start = procs[q].start /\ procs'[q].group = procs[q].group
                    /\ procs'[q].parent \in {procs[q].parent, Nobody}
                    /\ procs'[q].thread = procs[q].thread
    <3>1. CASE q = p
      BY <2>1, <3>1
    <3>2. CASE q # p /\ q \in Children(p)
      BY <2>1, <2>2, <2>3, <3>2
    <3>3. CASE q # p /\ q \notin Children(p)
      BY <1>1, <2>1, <3>3
    <3> QED
      BY <3>1, <3>2, <3>3
  <2> QED
    BY <1>1, <1>2, <2>1, <2>4
<1>7. CASE \E t \in Threads : ThreadEnd(t)
  <2>1. PICK t \in threads \ {Main} :
          /\ threads' = threads \ {t} /\ UNCHANGED foreground
          /\ procs' = [q \in Pids |-> IF q \in Children(Shell) /\ procs[q].thread = t
                                      THEN [procs[q] EXCEPT !.thread = Main] ELSE procs[q]]
    BY <1>7 DEF ThreadEnd
  <2>2. \A q \in Children(Shell) : procs[q] # None /\ procs[q] \in Proc /\ q \in Pids
    BY <1>3 DEF Children, Alive
  <2>3. ASSUME NEW q \in Children(Shell)
        PROVE  /\ [procs[q] EXCEPT !.thread = Main] \in Proc
               /\ [procs[q] EXCEPT !.thread = Main].start = procs[q].start
               /\ [procs[q] EXCEPT !.thread = Main].group = procs[q].group
               /\ [procs[q] EXCEPT !.thread = Main].parent = procs[q].parent
               /\ [procs[q] EXCEPT !.thread = Main].thread = Main
    BY <1>1, <2>2 DEF Proc
  <2>4. ASSUME NEW q \in Pids
        PROVE  /\ procs'[q] \in Proc \union {None}
               /\ procs'[q] # None =>
                    /\ procs[q] # None
                    /\ procs'[q].start = procs[q].start /\ procs'[q].group = procs[q].group
                    /\ procs'[q].parent = procs[q].parent
                    /\ \/ procs'[q].thread = procs[q].thread /\ procs[q].thread \in threads'
                       \/ procs'[q].thread = procs[q].thread /\ procs'[q].parent # Shell
                       \/ procs'[q].thread = Main /\ procs[q].thread \notin threads'
    <3>1. CASE q \in Children(Shell) /\ procs[q].thread = t
      BY <2>1, <2>2, <2>3, <3>1
    <3>2. CASE ~(q \in Children(Shell) /\ procs[q].thread = t)
      <4>1. procs'[q] = procs[q]
        BY <2>1, <3>2
      <4>2. CASE q \in Children(Shell)
        <5>1. procs[q].thread \in threads
          BY <4>2 DEF KernelInv
        <5> QED
          BY <1>1, <2>1, <3>2, <4>1, <4>2, <5>1
      <4>3. CASE q \notin Children(Shell)
        BY <1>1, <4>1, <4>3 DEF Children, Alive
      <4> QED
        BY <4>2, <4>3
    <3> QED
      BY <3>1, <3>2
  <2> QED
    BY <1>1, <1>2, <2>1, <2>4
<1>8. CASE \E g \in Pids : SetForeground(g)
  BY <1>1, <1>2, <1>8 DEF SetForeground
<1> QED
  BY <1>4, <1>5, <1>6, <1>7, <1>8 DEF Change

\* Start times stay in the past, and the shell's children with its threads.
LEMMA KernelKept == KernelInv /\ Change => KernelInv'
<1> SUFFICES ASSUME KernelInv, Change PROVE KernelInv'
  OBVIOUS
<1>1. KernelTypeOK'
  BY Effect DEF KernelTypeOK, KernelInv
<1>2. changes \in Nat /\ \A p \in Alive : procs[p].start \in Nat /\ procs[p].start <= changes
  BY ProcessAssumption, SceneAssumption DEF KernelInv, KernelTypeOK, Alive, Proc
<1>3. ASSUME NEW p \in Pids, procs'[p] # None PROVE procs'[p].start <= changes'
  BY <1>2, <1>3, Effect DEF Alive
<1>4. ASSUME NEW c \in Pids, procs'[c] # None, procs'[c].parent = Shell
      PROVE  procs'[c].thread \in threads'
  <2>1. Shell # Nobody /\ Main \in threads'
    BY ProcessAssumption, Effect DEF Nobody
  <2>2. CASE procs[c] # None /\ procs[c].parent = Shell
    <3>1. procs[c].thread \in threads
      BY <2>2 DEF KernelInv, Children, Alive
    <3> QED
      BY <1>4, <2>1, <3>1, Effect
  <2>3. CASE ~(procs[c] # None /\ procs[c].parent = Shell)
    BY <1>4, <2>1, <2>3, Effect
  <2> QED
    BY <2>2, <2>3
<1> QED
  BY <1>1, <1>3, <1>4 DEF KernelInv, Alive, Children

-----------------------------------------------------------------------------
(* Identities over time *)

\* What is read of a process is known of it.
LEMMA ReadKnown ==
    ASSUME KernelInv, NEW p \in Alive
    PROVE  Process(p) \in Identity /\ Process(p) # None /\ Process(p).pid = p /\ Known(Process(p))
<1>1. procs[p] \in Proc /\ p \in Pids /\ procs[p].start <= changes
  BY DEF KernelInv, KernelTypeOK, Alive
<1>2. Process(p) \in Identity
  BY <1>1 DEF Process, Identity, Proc
<1>3. Process(p) # None
  BY <1>2, ReadAssumption DEF Identity
<1>4. /\ Process(p).pid = p /\ Process(p).start = procs[p].start
      /\ Process(p).group = procs[p].group /\ Process(p).parent = procs[p].parent
  BY DEF Process
<1> QED
  BY <1>1, <1>2, <1>3, <1>4 DEF Known

\* A process with an identity has its fields.
LEMMA ProcessIs ==
    ASSUME KernelInv, NEW x \in Identity
    PROVE  Process(x.pid) = x <=> /\ x.pid \in Alive /\ procs[x.pid].start = x.start
                                  /\ procs[x.pid].parent = x.parent /\ procs[x.pid].group = x.group
<1>1. x = [pid |-> x.pid, start |-> x.start, parent |-> x.parent, group |-> x.group]
  BY DEF Identity
<1>2. x # None
  BY ReadAssumption DEF Identity
<1> HIDE DEF Identity
<1>3. CASE x.pid \in Alive
  <2>1. Process(x.pid) = [pid |-> x.pid, start |-> procs[x.pid].start,
                          parent |-> procs[x.pid].parent, group |-> procs[x.pid].group]
    BY <1>3 DEF Process
  <2> QED
    BY <1>1, <1>3, <2>1
<1>4. CASE x.pid \notin Alive
  BY <1>2, <1>4 DEF Process
<1> QED
  BY <1>3, <1>4

\* What is known stays known.
LEMMA KnownKept ==
    ASSUME KernelInv, Change, NEW x, Known(x)
    PROVE  Known(x)'
<1>1. x \in Identity /\ x.start \in Nat /\ x.pid \in Pids /\ x.start <= changes /\ changes \in Nat
  BY DEF Known, Identity, KernelInv, KernelTypeOK
<1>2. changes' = changes + 1
  BY Effect
<1>3. ASSUME procs'[x.pid] # None, procs'[x.pid].start = x.start
      PROVE  procs'[x.pid].group = x.group /\ procs'[x.pid].parent \in {x.parent, Nobody}
  <2>1. procs'[x.pid].start # changes + 1
    BY <1>1, <1>3
  <2>2. /\ procs[x.pid] # None /\ procs[x.pid].start = x.start
        /\ procs'[x.pid].group = procs[x.pid].group
        /\ procs'[x.pid].parent \in {procs[x.pid].parent, Nobody}
    BY <1>1, <1>3, <2>1, Effect
  <2>3. procs[x.pid].group = x.group /\ procs[x.pid].parent \in {x.parent, Nobody}
    BY <1>1, <2>2 DEF Known, Alive
  <2> QED
    BY <2>2, <2>3
<1> QED
  BY <1>1, <1>2, <1>3 DEF Known, Alive

\* An identity that is lost does not come back.
LEMMA NeverBack ==
    ASSUME KernelInv, Change, NEW x, Known(x), Process(x.pid)' = x
    PROVE  Process(x.pid) = x
<1>1. x \in Identity /\ x.start \in Nat /\ x.pid \in Pids /\ x.start <= changes /\ changes \in Nat
  BY DEF Known, Identity, KernelInv, KernelTypeOK
<1>2. KernelInv'
  BY KernelKept
<1>3. /\ procs'[x.pid] # None /\ procs'[x.pid].start = x.start
      /\ procs'[x.pid].parent = x.parent /\ procs'[x.pid].group = x.group
  <2>1. x # None
    BY <1>1, ReadAssumption DEF Identity
  <2>2. x.pid \in Alive'
    BY <2>1 DEF Process
  <2>3. x = [pid |-> x.pid, start |-> procs'[x.pid].start,
             parent |-> procs'[x.pid].parent, group |-> procs'[x.pid].group]
    BY <2>2 DEF Process
  <2> QED
    BY <2>2, <2>3 DEF Alive
<1>4. /\ procs[x.pid] # None /\ procs[x.pid].start = x.start
      /\ procs[x.pid].group = x.group
      /\ x.parent \in {procs[x.pid].parent, Nobody}
  <2>1. procs'[x.pid].start # changes + 1
    BY <1>1, <1>3
  <2> QED
    BY <1>1, <1>3, <2>1, Effect
<1>5. procs[x.pid].parent \in {x.parent, Nobody}
  BY <1>1, <1>4 DEF Known, Alive
<1> QED
  BY <1>1, <1>4, <1>5, ProcessIs DEF Alive

\* A steady process has the identity it had.
LEMMA SteadyIs ==
    ASSUME KernelInv, WasInv, NEW p \in Pids
    PROVE  /\ Steady(p) <=> was[p] # None /\ Process(p) = WasId(p)
           /\ was[p] # None => Known(WasId(p)) /\ WasId(p).pid = p
<1>1. was[p] # None => Known(WasId(p)) /\ WasId(p).pid = p
  BY DEF WasInv, WasId
<1>2. ASSUME was[p] # None PROVE Steady(p) <=> Process(p) = WasId(p)
  <2>1. WasId(p) \in Identity /\ WasId(p).pid = p
    BY <1>1, <1>2 DEF Known
  <2>2. WasId(p).start = was[p].start /\ WasId(p).parent = was[p].parent /\ WasId(p).group = was[p].group
    BY DEF WasId
  <2>3. Process(p) = WasId(p) <=> /\ p \in Alive /\ procs[p].start = was[p].start
                                  /\ procs[p].parent = was[p].parent /\ procs[p].group = was[p].group
    BY <2>1, <2>2, ProcessIs
  <2> QED
    BY <1>2, <2>3 DEF Steady
<1> QED
  BY <1>1, <1>2 DEF Steady

\* A process that is steady after a change was so before, and is the same.
LEMMA SteadyKept ==
    ASSUME KernelInv, WasInv, Change, UNCHANGED was, NEW p \in Pids, Steady(p)'
    PROVE  /\ Steady(p) /\ Process(p)' = Process(p)
           /\ procs'[p].parent = procs[p].parent /\ procs'[p].group = procs[p].group
           /\ procs'[p].start = procs[p].start /\ p \in Alive
<1> DEFINE x == WasId(p)
<1>1. was[p] # None /\ Known(x) /\ x.pid = p
  BY SteadyIs DEF Steady
<1>2. x \in Identity
  BY <1>1 DEF Known
<1>3. /\ p \in Alive' /\ procs'[p].start = x.start /\ procs'[p].parent = x.parent
      /\ procs'[p].group = x.group
  BY DEF Steady, WasId
<1>4. Process(p)' = x
  <2>1. x = [pid |-> x.pid, start |-> x.start, parent |-> x.parent, group |-> x.group]
    BY DEF WasId
  <2> HIDE DEF x
  <2> QED
    BY <1>1, <1>3, <2>1 DEF Process
<1>5. Process(p) = x
  <2> HIDE DEF x
  <2> QED
    BY <1>1, <1>4, NeverBack
<1>6. Steady(p)
  BY <1>1, <1>5, SteadyIs
<1>7. /\ procs[p].start = x.start /\ procs[p].parent = x.parent /\ procs[p].group = x.group
      /\ p \in Alive
  <2> HIDE DEF x
  <2> QED
    BY <1>1, <1>2, <1>5, ProcessIs
<1> QED
  BY <1>3, <1>4, <1>5, <1>6, <1>7

-----------------------------------------------------------------------------
(* Descent, and what the checks have found, over time *)

\* Two tables that agree on a set closed under parents agree on descent within it.
LEMMA BelowWithin ==
    ASSUME NEW f, NEW g, NEW set \in SUBSET Pids, NEW q \in set, NEW l,
           \A p \in set : /\ f[p] # None /\ g[p] # None /\ g[p].parent = f[p].parent
                          /\ f[p].parent \in set \union {Nobody},
           Below(f, q, l)
    PROVE  Below(g, q, l)
<1> SUFFICES ASSUME NEW closed \in SUBSET Pids, q \in closed,
                    \A p \in closed : g[p] # None /\ g[p].parent \in Pids => g[p].parent \in closed
             PROVE  l \in closed
  BY DEF Below
<1>1. Nobody \notin Pids
  BY ProcessAssumption DEF Nobody
<1>2. \A p \in set \intersect closed :
         f[p] # None /\ f[p].parent \in Pids => f[p].parent \in set \intersect closed
  BY <1>1
<1>3. set \intersect closed \in SUBSET Pids /\ q \in set \intersect closed
  OBVIOUS
<1>4. l \in set \intersect closed
  BY <1>2, <1>3 DEF Below
<1> QED
  BY <1>4

\* The leader goes on speaking for its group.
LEMMA SpeaksKept ==
    ASSUME KernelInv, WasInv, Change, UNCHANGED was, NEW of, Speaks(of)
    PROVE  Speaks(of)'
<1> SUFFICES ASSUME NEW q \in Alive' \ {of.pid}, procs'[q].group = of.group,
                    NEW set \in SUBSET {p \in Pids : Steady(p)'}, q \in set,
                    \A p \in set : procs'[p].parent \in set \union {Nobody}
             PROVE  Below(procs', q, of.pid)
  BY DEF Speaks, Below
<1>1. ASSUME NEW p \in set
      PROVE  /\ p \in Pids /\ Steady(p) /\ p \in Alive /\ p \in Alive'
             /\ procs'[p].parent = procs[p].parent /\ procs'[p].group = procs[p].group
  <2>1. p \in Pids /\ Steady(p)'
    OBVIOUS
  <2> QED
    BY <2>1, SteadyKept DEF Steady
<1>2. set \in SUBSET {p \in Pids : Steady(p)} /\ set \in SUBSET Pids
  BY <1>1
<1>3. \A p \in set : procs[p].parent \in set \union {Nobody}
  BY <1>1
<1>4. Below(procs, q, of.pid)
  BY <1>1, <1>2, <1>3 DEF Speaks
<1>5. \A p \in set : procs[p] # None /\ procs'[p] # None
  BY <1>1 DEF Alive
<1> QED
  BY <1>1, <1>2, <1>3, <1>4, <1>5, BelowWithin

\* No steady child appears.
LEMMA NoJobsKept ==
    ASSUME KernelInv, WasInv, Change, UNCHANGED was
    PROVE  NoJobs => NoJobs'
<1> SUFFICES ASSUME NoJobs, NEW q \in Pids, q \in Alive', procs'[q].parent = Shell, Steady(q)'
             PROVE  FALSE
  BY DEF NoJobs, Children, Alive
<1>1. Steady(q) /\ procs'[q].parent = procs[q].parent /\ q \in Alive
  BY SteadyKept
<1> QED
  BY <1>1 DEF NoJobs, Children

\* While the processes change, what a check has found of them stays true.
LEMMA MeanwhileKeeps ==
    ASSUME IInv, Meanwhile
    PROVE  IInv'
<1>1. /\ KernelInv /\ WasInv /\ Change /\ UNCHANGED <<pc, task, mem, was, led, read>>
      /\ pc \notin {"start", "end"} /\ Typed(pc, mem, led, read)
  BY DEF IInv, Holds, Meanwhile, Unseen
<1>2. KernelInv' /\ WasInv'
  <2>1. KernelInv'
    BY <1>1, KernelKept
  <2>2. WasInv'
    <3>1. ASSUME NEW p \in Pids, was'[p] # None PROVE Known(WasId(p))'
      <4>1. Known(WasId(p))
        BY <1>1, <3>1 DEF WasInv
      <4>2. \A x : Known(x) => Known(x)'
        BY <1>1, KnownKept
      <4>3. WasId(p)' = WasId(p)
        BY <1>1 DEF WasId
      <4> QED
        BY <4>1, <4>2, <4>3 DEF Known, Alive
    <3> QED
      BY <1>1, <3>1 DEF WasInv
  <2> QED
    BY <2>1, <2>2
<1>3. \A x : Known(x) => Known(x)'
  BY <1>1, KnownKept
<1>4. \A x : Known(x) /\ Process(x.pid)' = x => Process(x.pid) = x
  BY <1>1, NeverBack
<1>5. TableAt(pc, mem)'
  <2>1. ASSUME Trusted(mem.table, mem.unread) PROVE Trusted(mem.table, mem.unread)'
    <3>1. ASSUME NEW p \in Pids, mem.table[p] # None
          PROVE  mem.table[p].pid = p /\ Known(mem.table[p])'
      <4>1. Known(mem.table[p]) /\ mem.table[p].pid = p
        BY <2>1, <3>1 DEF Trusted
      <4>2. mem'.table[p] = mem.table[p]
        BY <1>1
      <4> QED
        BY <1>3, <4>1, <4>2 DEF Known, Alive
    <3>2. ASSUME NEW p \in Pids \ mem.unread, Steady(p)' PROVE mem.table[p] = Process(p)'
      BY <1>1, <2>1, <3>2, SteadyKept DEF Trusted
    <3> QED
      BY <1>1, <2>1, <3>1, <3>2 DEF Trusted
  <2> QED
    BY <1>1, <2>1 DEF IInv, Holds, TableAt
<1>6. LedAt(pc, mem, led)'
  <2> DEFINE x == mem.table[mem.info.group]
  <2> SUFFICES ASSUME pc \in {"shell", "command"}, x # None, Process(x.pid)' = x PROVE led = x
    BY <1>1 DEF LedAt
  <2>1. mem.info.group \in Pids
    BY <1>1 DEF Typed, Memory, Info
  <2>2. Known(x)
    BY <2>1 DEF IInv, Holds, TableAt, Trusted, CaptureLabels
  <2>3. Process(x.pid) = x => led = x
    BY DEF IInv, Holds, LedAt
  <2>4. x' = x
    BY <1>1
  <2> HIDE DEF x
  <2> QED
    BY <1>4, <2>2, <2>3, <2>4 DEF Process, Alive
<1>7. OfAt(pc, mem, led, read)'
  <2> DEFINE x == mem.of
  <2> SUFFICES ASSUME pc \in Looking
               PROVE  /\ Known(x)'
                      /\ task = "capture" => Speaks(x)' /\ (Process(x.pid)' = x => led = x)
                      /\ pc = "argvAfter" /\ Process(x.pid)' = x => read = x
    BY <1>1 DEF OfAt
  <2>1. /\ Known(x)
        /\ task = "capture" => Speaks(x) /\ (Process(x.pid) = x => led = x)
        /\ pc = "argvAfter" /\ Process(x.pid) = x => read = x
    BY DEF IInv, Holds, OfAt
  <2>2. x' = x
    BY <1>1
  <2>3. \A y : Speaks(y) => Speaks(y)'
    BY <1>1, SpeaksKept
  <2> HIDE DEF x
  <2>4. Process(x.pid)' = x => Process(x.pid) = x
    BY <1>4, <2>1, <2>2 DEF Process, Alive
  <2>5. Known(x)'
    BY <1>3, <2>1, <2>2 DEF Known, Alive
  <2>6. Speaks(x) => Speaks(x)'
    BY <2>2, <2>3 DEF Speaks
  <2> QED
    BY <2>1, <2>4, <2>5, <2>6
<1>8. JobsAt(pc, mem)'
  <2>1. NoJobs => NoJobs'
    BY <1>1, NoJobsKept
  <2>2. ASSUME pc = "childrenRead"
        PROVE  \/ mem.unread \ threads' # {}
               \/ \A q \in Children(Shell)' : Steady(q)' => procs'[q].thread \in mem.unread
    <3>1. threads' \subseteq threads
      BY <1>1, Effect
    <3>2. CASE mem.unread \ threads # {}
      BY <3>1, <3>2
    <3>3. CASE mem.unread \ threads = {}
      <4> SUFFICES ASSUME NEW q \in Pids, procs'[q] # None, procs'[q].parent = Shell, Steady(q)',
                          mem.unread \ threads' = {}
                   PROVE  procs'[q].thread \in mem.unread
        BY DEF Children, Alive
      <4>1. /\ Steady(q) /\ procs[q].parent = Shell /\ q \in Alive
            /\ procs'[q].start = procs[q].start
        BY <1>1, SteadyKept
      <4>2. procs[q].thread \in mem.unread
        BY <2>2, <3>3, <4>1 DEF IInv, Holds, JobsAt, Children
      <4>3. procs[q].start <= changes /\ procs[q].start \in Nat /\ changes \in Nat
        BY <1>1, <4>1 DEF KernelInv, KernelTypeOK, Alive, Proc
      <4>4. procs'[q].start # changes + 1
        BY <4>1, <4>3
      <4> QED
        BY <1>1, <4>2, <4>4, Effect
    <3> QED
      BY <3>2, <3>3
  <2> QED
    BY <1>1, <2>1, <2>2 DEF IInv, Holds, JobsAt
<1> QED
  BY <1>1, <1>2, <1>5, <1>6, <1>7, <1>8 DEF IInv, Holds, Typed, SavedAt

-----------------------------------------------------------------------------
(* The steps of a check *)

\* What holds of a check after a step holds in the next state: the processes are as before.
LEMMA Lands ==
    ASSUME IInv, UNCHANGED <<kernel, task, was>>, NEW l, NEW m, NEW ld, NEW rd,
           pc' = l, mem' = m, led' = ld, read' = rd, Holds(l, m, ld, rd)
    PROVE  IInv'
<1>1. UNCHANGED <<procs, threads, foreground, changes, task, was>>
  BY DEF kernel
<1>2. KernelInv' /\ WasInv'
  BY <1>1 DEF IInv, KernelInv, KernelTypeOK, WasInv, WasId, Known, Alive, Children
<1>3. Typed(pc, mem, led, read)' /\ LedAt(pc, mem, led)'
  BY <1>1 DEF Holds, Typed, LedAt, Process, Alive
<1>4. TableAt(pc, mem)'
  BY <1>1 DEF Holds, TableAt, Trusted, Known, Process, Steady, Alive
<1>5. OfAt(pc, mem, led, read)'
  BY <1>1 DEF Holds, OfAt, Known, Speaks, Process, Steady, Alive
<1>6. SavedAt(pc, mem, led, read)'
  BY <1>1 DEF Holds, SavedAt, Speaks, Process, Steady, Alive
<1>7. JobsAt(pc, mem)'
  BY <1>1 DEF Holds, JobsAt, NoJobs, Children, Steady, Alive
<1> QED
  BY <1>1, <1>2, <1>3, <1>4, <1>5, <1>6, <1>7 DEF IInv, Holds

\* What a check begins with, and what it answers.
LEMMA BlankTypes ==
    /\ Blank \in Memory
    /\ \A of \in Identity \union {None}, v \in Images \union {None, "idle", "nothing"} :
         LET m == [Blank EXCEPT !.verdict = v, !.of = of]
         IN m \in Memory /\ m.verdict = v /\ m.of = of
    /\ \A of \in Identity \union {None} :
         LET m == [Blank EXCEPT !.of = of]
         IN m \in Memory /\ m.verdict = None /\ m.of = of
BY DEF Blank, Memory

\* A step that reads nothing for the history, to label l with memory m.
LEMMA Unremarkable ==
    ASSUME IInv, NEW l, NEW m, Goto(l), mem' = m, Unseen,
           Holds(l, m, led, read)
    PROVE  IInv'
BY Lands DEF Goto, Unseen

\* A check that fails has no answer.
LEMMA FailStep ==
    ASSUME IInv, Fail, Unseen
    PROVE  IInv'
<1>1. Goto("end") /\ mem' = Blank
  BY DEF Fail
<1>2. Blank.verdict = None /\ None \notin Images /\ None # "idle"
  BY SceneAssumption, AnswerAssumption DEF Blank
<1>3. Holds("end", Blank, led, read)
  BY <1>2, BlankTypes DEF IInv, Holds, Typed, TableAt, LedAt, OfAt, SavedAt, JobsAt, Labels,
     CaptureLabels, IdleLabels, Looking, Argv, Childless
<1> QED
  BY <1>1, <1>3, Unremarkable

\* The table is read, one process after the other.
LEMMA TableSteps ==
    ASSUME IInv, TableRead \/ CaptureStart \/ ChildrenFallback, Unseen
    PROVE  IInv'
<1>1. mem \in Memory /\ Typed(pc, mem, led, read) /\ KernelInv
  BY DEF IInv, Holds, Typed
<1>2. ASSUME NEW l \in {"table", "childrenTable"}, TableStart(l), l = "table" => task = "capture",
             l = "childrenTable" => task = "idle" /\ mem.of # None /\ Known(mem.of),
             mem.verdict = None
      PROVE  IInv'
  <2>1. PICK numbers \in {Pids, Alive} :
          mem' = [mem EXCEPT !.table = [p \in Pids |-> None], !.unread = numbers]
    BY <1>2 DEF TableStart, LinuxTable, MacTable
  <2> DEFINE m == [mem EXCEPT !.table = [p \in Pids |-> None], !.unread = numbers]
  <2>2. /\ m \in Memory /\ m.table = [p \in Pids |-> None] /\ m.unread = numbers
        /\ m.of = mem.of /\ m.verdict = mem.verdict
    BY <1>1 DEF Memory, Alive
  <2> HIDE DEF m
  <2>3. Trusted(m.table, m.unread)
    BY <2>2 DEF Trusted, Steady, Alive
  <2>4. Holds(l, m, led, read)
    BY <1>1, <1>2, <2>2, <2>3 DEF Holds, Typed, TableAt, LedAt, OfAt, SavedAt, JobsAt, Labels,
       CaptureLabels, IdleLabels, Looking, Argv, Childless
  <2> QED
    BY <1>2, <2>1, <2>4, Unremarkable DEF TableStart, m
<1>3. CASE CaptureStart
  BY <1>1, <1>2, <1>3 DEF CaptureStart, Typed
<1>4. CASE ChildrenFallback
  <2>1. pc \in Looking /\ pc \in IdleLabels /\ pc # "end"
    BY <1>4 DEF ChildrenFallback, Looking, IdleLabels
  <2>2. Known(mem.of)
    BY <2>1 DEF IInv, Holds, OfAt
  <2> QED
    BY <1>1, <1>2, <1>4, <2>1, <2>2 DEF ChildrenFallback, Typed
<1>5. CASE TableRead
  <2>0. PICK p \in mem.unread : mem' = [mem EXCEPT !.table[p] = Process(p), !.unread = @ \ {p}]
    BY <1>5 DEF TableRead
  <2> DEFINE m == [mem EXCEPT !.table[p] = Process(p), !.unread = @ \ {p}]
  <2>1. pc \in {"table", "childrenTable"} /\ Goto(pc) /\ mem' = m
    BY <1>5, <2>0 DEF TableRead
  <2>2. Trusted(mem.table, mem.unread)
    BY <2>1 DEF IInv, Holds, TableAt, CaptureLabels
  <2>3. /\ m.table = [mem.table EXCEPT ![p] = Process(p)] /\ m.unread = mem.unread \ {p}
        /\ m.of = mem.of /\ m.verdict = mem.verdict
    BY <1>1 DEF Memory
  <2>4. Process(p) \in Identity \union {None}
        /\ (p \in Pids /\ Process(p) # None => Process(p).pid = p /\ Known(Process(p)))
    BY <1>1, ReadKnown DEF Process
  <2>5. Trusted(m.table, m.unread)
    <3> HIDE DEF m
    <3>1. mem.table \in [Pids -> Identity \union {None}]
      BY <2>2 DEF Trusted
    <3>2. m.table \in [Pids -> Identity \union {None}]
      BY <2>3, <2>4, <3>1
    <3> QED
      BY <2>2, <2>3, <2>4, <3>2 DEF Trusted
  <2>6. m \in Memory
    <3>1. ASSUME NEW t \in [Pids -> Identity \union {None}], NEW u \in SUBSET (Pids \union Threads)
          PROVE  [mem EXCEPT !.table = t, !.unread = u] \in Memory
      BY <1>1 DEF Memory
    <3>2. m = [mem EXCEPT !.table = m.table, !.unread = m.unread]
      BY <1>1, <2>3 DEF Memory
    <3>3. m.unread \in SUBSET (Pids \union Threads)
      BY <1>1, <2>3 DEF Memory
    <3> QED
      BY <2>5, <3>1, <3>2, <3>3 DEF Trusted
  <2> HIDE DEF m
  <2>7. pc = "childrenTable" => Known(mem.of)
    BY DEF IInv, Holds, OfAt, Looking, IdleLabels
  <2>8. Holds(pc, m, led, read)
    BY <1>1, <2>1, <2>3, <2>5, <2>6, <2>7 DEF IInv, Holds, Typed, TableAt, LedAt, OfAt, SavedAt,
       JobsAt, Labels, CaptureLabels, IdleLabels, Looking, Argv, Childless
  <2> QED
    BY <2>1, <2>8, Unremarkable
<1> QED
  BY <1>3, <1>4, <1>5

\* Herdr names the foreground group; the shell is compared.
LEMMA GroupSteps ==
    ASSUME IInv, CaptureInfo \/ ((CaptureShell \/ CaptureNothing) /\ Unseen)
    PROVE  IInv'
<1>1. mem \in Memory /\ Typed(pc, mem, led, read) /\ KernelInv /\ foreground \in Pids
  BY DEF IInv, Holds, Typed, KernelInv, KernelTypeOK
<1>2. CASE CaptureInfo
  <2> DEFINE m == [mem EXCEPT !.info = ProcessInfo]
             ld == Process(foreground)
  <2>1. pc = "table" /\ mem.unread = {} /\ mem' = m /\ led' = ld /\ UNCHANGED read /\ Goto("shell")
    BY <1>2 DEF CaptureInfo
  <2>2. ProcessInfo \in Info /\ ProcessInfo.group = foreground /\ ProcessInfo # None
    <3>1. ProcessInfo \in Info /\ ProcessInfo.group = foreground
      BY <1>1 DEF ProcessInfo, Info, Alive
    <3> QED
      BY <3>1, ReadAssumption DEF Info
  <2>3. m \in Memory /\ m.info = ProcessInfo /\ m.table = mem.table /\ m.unread = mem.unread
        /\ m.verdict = mem.verdict
    BY <1>1, <2>2 DEF Memory
  <2> HIDE DEF m
  <2>4. Trusted(m.table, m.unread)
    BY <2>1, <2>3 DEF IInv, Holds, TableAt, CaptureLabels
  <2>5. ld \in Identity \union {None}
    BY <1>1, ReadKnown DEF Process
  <2>6. LedAt("shell", m, ld)
    BY <1>1, <2>2, <2>3, <2>4 DEF LedAt, Trusted
  <2> HIDE DEF ld
  <2>7. Holds("shell", m, ld, read)
    BY <1>1, <2>1, <2>2, <2>3, <2>4, <2>5, <2>6 DEF Holds, Typed, TableAt, OfAt, SavedAt, JobsAt,
       Labels, CaptureLabels, IdleLabels, Looking, Argv, Childless
  <2> QED
    BY <2>1, <2>7, Lands DEF Goto
<1>3. CASE CaptureShell /\ Unseen
  <2>1. pc = "shell" /\ mem' = mem /\ Goto("command")
    BY <1>3 DEF CaptureShell, Keep
  <2>2. Holds("command", mem, led, read)
    BY <1>1, <2>1 DEF IInv, Holds, Typed, TableAt, LedAt, OfAt, SavedAt, JobsAt, Labels,
       CaptureLabels, IdleLabels, Looking, Argv, Childless
  <2> QED
    BY <1>3, <2>1, <2>2, Unremarkable
<1>4. CASE CaptureNothing /\ Unseen
  <2> DEFINE m == [Blank EXCEPT !.verdict = "nothing", !.of = mem.of]
  <2>1. Goto("end") /\ mem' = m
    BY <1>4 DEF CaptureNothing, Answer
  <2>2. m \in Memory /\ m.verdict = "nothing"
    <3>1. mem.of \in Identity \union {None}
      BY <1>1 DEF Memory
    <3> QED
      BY <3>1, BlankTypes
  <2> HIDE DEF m
  <2>3. Holds("end", m, led, read)
    BY <1>1, <2>2, AnswerAssumption DEF Holds, Typed, TableAt, LedAt, OfAt, SavedAt, JobsAt,
       Labels, CaptureLabels, IdleLabels, Looking, Argv, Childless
  <2> QED
    BY <1>4, <2>1, <2>3, Unremarkable
<1> QED
  BY <1>2, <1>3, <1>4

\* The leader of the group is taken from the table, and speaks for its group there.
LEMMA LeaderStep ==
    ASSUME IInv, CaptureLeader, Unseen
    PROVE  IInv'
<1> DEFINE l == mem.info.group
           x == mem.table[l]
           m == [Blank EXCEPT !.of = x]
<1>1. /\ pc = "command" /\ mem' = m /\ x # None /\ ForegroundTree(mem.table, l)
      /\ Goto("argvBefore")
  BY DEF CaptureLeader
<1>2. mem \in Memory /\ l \in Pids /\ Typed(pc, mem, led, read) /\ task = "capture" /\ KernelInv
  BY <1>1 DEF IInv, Holds, Typed, Memory, Info, CaptureLabels
<1>3. \A p \in Pids : Steady(p) => mem.table[p] = Process(p)
  BY <1>1 DEF IInv, Holds, TableAt, Trusted, CaptureLabels
<1>4. x.pid = l /\ Known(x) /\ x \in Identity
  BY <1>1, <1>2 DEF IInv, Holds, TableAt, Trusted, CaptureLabels
<1>5. Process(x.pid) = x => led = x
  BY <1>1 DEF IInv, Holds, LedAt
<1>6. Speaks(x)
  <2> SUFFICES ASSUME NEW q \in Alive \ {x.pid}, procs[q].group = x.group,
                      NEW set \in SUBSET {p \in Pids : Steady(p)}, q \in set,
                      \A p \in set : procs[p].parent \in set \union {Nobody}
               PROVE  Below(procs, q, l)
    BY <1>4 DEF Speaks
  <2>1. ASSUME NEW p \in set
        PROVE  /\ p \in Pids /\ procs[p] # None /\ mem.table[p] # None
               /\ mem.table[p].parent = procs[p].parent /\ mem.table[p].group = procs[p].group
    <3>1. p \in Pids /\ Steady(p)
      OBVIOUS
    <3>2. p \in Alive /\ mem.table[p] = Process(p) /\ Process(p) # None
      BY <1>2, <1>3, <3>1, ReadKnown DEF Steady
    <3> QED
      BY <3>1, <3>2 DEF Process, Alive
  <2>2. Below(mem.table, q, l)
    BY <1>1, <1>4, <2>1 DEF ForegroundTree
  <2>3. set \in SUBSET Pids
    BY <2>1
  <2> QED
    BY <2>1, <2>2, <2>3, BelowWithin
<1>7. m \in Memory /\ m.of = x /\ m.verdict = None
  BY <1>4, BlankTypes
<1> HIDE DEF x, m
<1>8. Holds("argvBefore", m, led, read)
  BY <1>1, <1>2, <1>4, <1>5, <1>6, <1>7, ReadAssumption DEF Holds, Typed, TableAt, LedAt, OfAt, SavedAt,
     JobsAt, Labels, CaptureLabels, IdleLabels, Looking, Argv, Childless
<1> QED
  BY <1>1, <1>8, Unremarkable

\* The arguments are read between two looks at the identity.
LEMMA ArgvSteps ==
    ASSUME IInv, (ArgvBefore /\ Unseen) \/ ArgvRead \/ (ArgvAfter /\ Unseen)
    PROVE  IInv'
<1>1. /\ mem \in Memory /\ KernelInv /\ Typed(pc, mem, led, read) /\ pc \in Argv /\ mem.of # None
      /\ OfAt(pc, mem, led, read) /\ Known(mem.of) /\ mem.of \in Identity
      /\ task = "idle" => NoJobs
  BY DEF IInv, Holds, Typed, OfAt, JobsAt, ArgvBefore, ArgvRead, ArgvAfter, Argv, Looking,
     Childless, Known
<1>2. CASE ArgvBefore /\ Unseen
  <2>1. pc = "argvBefore" /\ Goto("argvRead") /\ mem' = mem
    BY <1>2 DEF ArgvBefore, Keep
  <2>2. Holds("argvRead", mem, led, read)
    BY <1>1, <2>1 DEF Holds, Typed, TableAt, LedAt, OfAt, SavedAt, JobsAt, Labels,
       CaptureLabels, IdleLabels, Looking, Argv, Childless
  <2> QED
    BY <1>2, <2>1, <2>2, Unremarkable
<1>3. CASE ArgvRead
  <2> DEFINE m == [mem EXCEPT !.image = procs[mem.of.pid].image]
             rd == Process(mem.of.pid)
  <2>1. /\ pc = "argvRead" /\ mem.of.pid \in Alive /\ mem' = m /\ read' = rd /\ UNCHANGED led
        /\ Goto("argvAfter")
    BY <1>3 DEF ArgvRead
  <2>2. procs[mem.of.pid].image \in Images
    BY <1>1, <2>1 DEF KernelInv, KernelTypeOK, Alive, Proc
  <2>3. m \in Memory /\ m.of = mem.of /\ m.verdict = mem.verdict
    BY <1>1, <2>2 DEF Memory
  <2>4. rd \in Identity \union {None}
    BY <1>1, <2>1, ReadKnown
  <2> HIDE DEF m
  <2>5. OfAt("argvAfter", m, led, rd)
    BY <1>1, <2>1, <2>3 DEF OfAt, Looking, Argv
  <2> HIDE DEF rd
  <2>6. Holds("argvAfter", m, led, rd)
    BY <1>1, <2>1, <2>3, <2>4, <2>5 DEF Holds, Typed, TableAt, LedAt, SavedAt, JobsAt, Labels,
       CaptureLabels, IdleLabels, Looking, Argv, Childless
  <2> QED
    BY <2>1, <2>6, Lands DEF Goto
<1>4. CASE ArgvAfter /\ Unseen
  <2>1. pc = "argvAfter" /\ Process(mem.of.pid) = mem.of
    BY <1>4 DEF ArgvAfter
  <2>2. CASE task = "capture"
    <3> DEFINE m == [Blank EXCEPT !.verdict = mem.image, !.of = mem.of]
    <3>1. Goto("end") /\ mem' = m
      BY <1>4, <2>2 DEF ArgvAfter, Answer
    <3>2. mem.image \in Images \union {None} /\ mem.image # "idle"
      BY <1>1, AnswerAssumption DEF Memory
    <3>3. m \in Memory /\ m.verdict = mem.image /\ m.of = mem.of
      BY <1>1, <3>2, BlankTypes
    <3> HIDE DEF m
    <3>4. Holds("end", m, led, read)
      BY <1>1, <2>1, <2>2, <3>2, <3>3 DEF Holds, Typed, TableAt, LedAt, OfAt, SavedAt, JobsAt, Labels,
         CaptureLabels, IdleLabels, Looking, Argv, Childless
    <3> QED
      BY <1>4, <3>1, <3>4, Unremarkable
  <2>3. CASE task = "idle"
    <3>1. Goto("exeAgain") /\ mem' = mem
      BY <1>4, <2>3 DEF ArgvAfter, Keep
    <3>2. Holds("exeAgain", mem, led, read)
      BY <1>1, <2>1, <2>3 DEF Holds, Typed, TableAt, LedAt, OfAt, SavedAt, JobsAt, Labels,
         CaptureLabels, IdleLabels, Looking, Argv, Childless
    <3> QED
      BY <1>4, <3>1, <3>2, Unremarkable
  <2> QED
    BY <2>2, <2>3 DEF IInv
<1> QED
  BY <1>2, <1>3, <1>4

\* The beginning of the question whether the shell is idle.
LEMMA IdleSteps ==
    ASSUME IInv, IdleStart \/ IdleExecutable \/ IdleForeground, Unseen
    PROVE  IInv'
<1>1. mem \in Memory /\ KernelInv /\ Typed(pc, mem, led, read)
  BY DEF IInv, Holds, Typed
<1>2. CASE IdleStart
  <2> DEFINE m == [mem EXCEPT !.info = ProcessInfo]
  <2>1. pc = "start" /\ task = "idle" /\ mem' = m /\ Goto("exe")
    BY <1>2 DEF IdleStart
  <2>2. ProcessInfo \in Info /\ ProcessInfo # None
    <3>1. ProcessInfo \in Info
      BY <1>1 DEF ProcessInfo, Info, Alive, KernelInv, KernelTypeOK
    <3> QED
      BY <3>1, ReadAssumption
  <2>3. m \in Memory /\ m.info # None /\ m.verdict = mem.verdict
    BY <1>1, <2>2 DEF Memory
  <2> HIDE DEF m
  <2>4. Holds("exe", m, led, read)
    BY <1>1, <2>1, <2>3 DEF Holds, Typed, TableAt, LedAt, OfAt, SavedAt, JobsAt, Labels,
       CaptureLabels, IdleLabels, Looking, Argv, Childless
  <2> QED
    BY <2>1, <2>4, Unremarkable
<1>3. CASE IdleExecutable
  <2>1. pc = "exe" /\ mem' = mem /\ Goto("ident")
    BY <1>3 DEF IdleExecutable, Keep
  <2>2. Holds("ident", mem, led, read)
    BY <1>1, <2>1 DEF Holds, Typed, TableAt, LedAt, OfAt, SavedAt, JobsAt, Labels,
       CaptureLabels, IdleLabels, Looking, Argv, Childless
  <2> QED
    BY <2>1, <2>2, Unremarkable
<1>4. CASE IdleForeground
  <2> DEFINE m == [Blank EXCEPT !.of = Process(Shell)]
  <2>1. pc = "ident" /\ Shell \in Alive /\ mem' = m /\ Goto("childrenBefore")
    BY <1>4 DEF IdleForeground
  <2>2. Process(Shell) \in Identity /\ Process(Shell) # None /\ Known(Process(Shell))
    BY <1>1, <2>1, ReadKnown
  <2>3. m \in Memory /\ m.of = Process(Shell) /\ m.verdict = None
    BY <2>2, BlankTypes
  <2> HIDE DEF m
  <2>4. Holds("childrenBefore", m, led, read)
    BY <1>1, <2>1, <2>2, <2>3 DEF Holds, Typed, TableAt, LedAt, OfAt, SavedAt, JobsAt, Labels,
       CaptureLabels, IdleLabels, Looking, Argv, Childless
  <2> QED
    BY <2>1, <2>4, Unremarkable
<1> QED
  BY <1>2, <1>3, <1>4

\* The children of the shell, asked for by thread, at once, or in the table.
LEMMA ChildrenSteps ==
    ASSUME IInv,
           \/ ChildrenBefore \/ ThreadsListed \/ ThreadRead \/ ChildrenRead
           \/ ChildrenMac \/ ChildrenAfter \/ ChildrenTable,
           Unseen
    PROVE  IInv'
<1>1. /\ mem \in Memory /\ KernelInv /\ Typed(pc, mem, led, read) /\ pc \in Looking /\ pc \in IdleLabels
      /\ mem.of \in Identity /\ mem.of # None /\ Known(mem.of) /\ task = "idle" /\ mem.verdict = None
  BY DEF IInv, Holds, Typed, OfAt, ChildrenBefore, ThreadsListed, ThreadRead, ChildrenRead,
     ChildrenMac, ChildrenAfter, ChildrenTable, Looking, IdleLabels, Known
<1>2. ASSUME NEW l \in {"childrenList", "childrenMac"}, Goto(l), mem' = mem PROVE IInv'
  <2>1. Holds(l, mem, led, read)
    BY <1>1, <1>2 DEF Holds, Typed, TableAt, LedAt, OfAt, SavedAt, JobsAt, Labels,
       CaptureLabels, IdleLabels, Looking, Argv, Childless
  <2> QED
    BY <1>2, <2>1, Unremarkable
<1>3. ASSUME NEW l \in {"childrenAfter", "argvBefore"}, Goto(l), mem' = mem, NoJobs PROVE IInv'
  <2>1. Holds(l, mem, led, read)
    BY <1>1, <1>3 DEF Holds, Typed, TableAt, LedAt, OfAt, SavedAt, JobsAt, Labels,
       CaptureLabels, IdleLabels, Looking, Argv, Childless
  <2> QED
    BY <1>3, <2>1, Unremarkable
<1>4. ASSUME NEW ts \in SUBSET (Pids \union Threads), mem' = [mem EXCEPT !.unread = ts], Goto("childrenRead"),
             \/ ts \ threads # {}
             \/ \A q \in Children(Shell) : Steady(q) => procs[q].thread \in ts
      PROVE  IInv'
  <2> DEFINE m == [mem EXCEPT !.unread = ts]
  <2>1. m \in Memory /\ m.unread = ts /\ m.of = mem.of /\ m.verdict = mem.verdict
    BY <1>1 DEF Memory
  <2>2. mem' = m
    BY <1>4
  <2> HIDE DEF m
  <2>3. Holds("childrenRead", m, led, read)
    BY <1>1, <1>4, <2>1 DEF Holds, Typed, TableAt, LedAt, OfAt, SavedAt, JobsAt, Labels,
       CaptureLabels, IdleLabels, Looking, Argv, Childless
  <2> QED
    BY <1>4, <2>2, <2>3, Unremarkable
<1>5. CASE ChildrenBefore
  BY <1>2, <1>5 DEF ChildrenBefore, Keep
<1>6. CASE ThreadsListed
  <2>1. threads \subseteq Threads /\ \A q \in Children(Shell) : procs[q].thread \in threads
    BY <1>1 DEF KernelInv, KernelTypeOK
  <2> QED
    BY <1>4, <1>6, <2>1 DEF ThreadsListed
<1>7. CASE ThreadRead
  <2>1. PICK t \in mem.unread \intersect threads :
          ChildrenOf(t) = {} /\ mem' = [mem EXCEPT !.unread = mem.unread \ {t}]
    BY <1>7 DEF ThreadRead
  <2>2. mem.unread \ threads = (mem.unread \ {t}) \ threads
    BY <2>1
  <2>3. \A q \in Children(Shell) : procs[q].thread # t
    BY <2>1 DEF ChildrenOf
  <2>4. \/ mem.unread \ threads # {}
        \/ \A q \in Children(Shell) : Steady(q) => procs[q].thread \in mem.unread
    BY <1>7 DEF IInv, Holds, JobsAt, ThreadRead
  <2>5. mem.unread \ {t} \in SUBSET (Pids \union Threads)
    BY <1>1 DEF Memory
  <2> QED
    BY <1>4, <1>7, <2>1, <2>2, <2>3, <2>4, <2>5 DEF ThreadRead
<1>8. CASE ChildrenRead
  <2>1. NoJobs
    BY <1>8 DEF IInv, Holds, JobsAt, NoJobs, ChildrenRead
  <2> QED
    BY <1>3, <1>8, <2>1 DEF ChildrenRead, Keep
<1>9. CASE ChildrenMac
  BY <1>3, <1>9 DEF ChildrenMac, Keep, NoJobs
<1>10. CASE ChildrenAfter
  <2>1. NoJobs
    BY <1>1, <1>10 DEF IInv, Holds, JobsAt, ChildrenAfter, Childless
  <2> QED
    BY <1>3, <1>10, <2>1 DEF ChildrenAfter, Keep
<1>11. CASE ChildrenTable
  <2> DEFINE m == [Blank EXCEPT !.of = mem.of]
  <2>1. /\ pc = "childrenTable" /\ mem.unread = {} /\ mem' = m /\ Goto("argvBefore")
        /\ \A p \in Pids : mem.table[p] # None => mem.table[p].parent # Shell
    BY <1>11 DEF ChildrenTable
  <2>2. \A p \in Pids : Steady(p) => mem.table[p] = Process(p)
    BY <2>1 DEF IInv, Holds, TableAt, Trusted
  <2>3. NoJobs
    <3> SUFFICES ASSUME NEW q \in Children(Shell), Steady(q) PROVE FALSE
      BY DEF NoJobs
    <3>1. q \in Alive /\ q \in Pids /\ procs[q].parent = Shell
      BY DEF Children, Alive
    <3>2. mem.table[q] = Process(q) /\ Process(q) # None
      BY <1>1, <2>2, <3>1, ReadKnown
    <3> QED
      BY <2>1, <3>1, <3>2 DEF Process
  <2>4. m \in Memory /\ m.of = mem.of /\ m.verdict = None
    BY <1>1, BlankTypes
  <2> HIDE DEF m
  <2>5. Holds("argvBefore", m, led, read)
    BY <1>1, <2>1, <2>3, <2>4 DEF Holds, Typed, TableAt, LedAt, OfAt, SavedAt, JobsAt, Labels,
       CaptureLabels, IdleLabels, Looking, Argv, Childless
  <2> QED
    BY <2>1, <2>5, Unremarkable
<1> QED
  BY <1>5, <1>6, <1>7, <1>8, <1>9, <1>10, <1>11

\* The shell is idle.
LEMMA IdleAnswerStep ==
    ASSUME IInv, IdleAnswer, Unseen
    PROVE  IInv'
<1> DEFINE m == [Blank EXCEPT !.verdict = "idle", !.of = mem.of]
<1>1. pc = "exeAgain" /\ mem' = m /\ Goto("end")
  BY DEF IdleAnswer, Answer
<1>2. Typed(pc, mem, led, read) /\ mem.of \in Identity \union {None} /\ task = "idle" /\ NoJobs
  BY <1>1 DEF IInv, Holds, Typed, JobsAt, IdleLabels, Childless, Memory
<1>3. m \in Memory /\ m.verdict = "idle"
  BY <1>2, BlankTypes
<1> HIDE DEF m
<1>4. Holds("end", m, led, read)
  BY <1>1, <1>2, <1>3 DEF Holds, Typed, TableAt, LedAt, OfAt, SavedAt, JobsAt, Labels,
     CaptureLabels, IdleLabels, Looking, Argv, Childless
<1> QED
  BY <1>1, <1>4, Unremarkable

\* Every step of a check, and every change meanwhile, keeps the invariant.
LEMMA ChecksKeep == IInv /\ [Next]_vars => IInv'
<1> SUFFICES ASSUME IInv, [Next]_vars PROVE IInv'
  OBVIOUS
<1>1. CASE Step
  BY <1>1, FailStep, TableSteps, GroupSteps, LeaderStep, ArgvSteps, IdleSteps, ChildrenSteps,
     IdleAnswerStep DEF Step, Plain
<1>2. CASE Meanwhile
  BY <1>2, MeanwhileKeeps
<1>3. CASE UNCHANGED vars
  <2>1. /\ UNCHANGED <<kernel, task, was>>
        /\ pc' = pc /\ mem' = mem /\ led' = led /\ read' = read
    BY <1>3 DEF vars
  <2>2. Holds(pc, mem, led, read)
    BY DEF IInv
  <2> QED
    BY <2>1, <2>2, Lands
<1> QED
  BY <1>1, <1>2, <1>3 DEF Next

\* A scene is one of processes, each known as it is.
LEMMA SceneTypes ==
    ASSUME KernelInit, was = procs
    PROVE  KernelInv /\ WasInv
<1>1. PICK s \in Scenes : procs = s.procs /\ foreground = s.foreground
  BY DEF KernelInit
<1>2. /\ procs \in [Pids -> Proc \union {None}] /\ foreground \in Pids
      /\ \A p \in Pids : procs[p] # None => procs[p].start = 0
      /\ changes = 0 /\ MaxChanges \in Nat
  BY <1>1, SceneAssumption, ProcessAssumption DEF KernelInit
<1>3. threads \subseteq Threads /\ Main \in threads /\ \A c \in Children(Shell) : procs[c].thread \in threads
  BY DEF KernelInit
<1>4. KernelInv
  BY <1>2, <1>3 DEF KernelInv, KernelTypeOK, Alive
<1>5. ASSUME NEW p \in Pids, was[p] # None PROVE Known(WasId(p))
  <2>1. p \in Alive /\ WasId(p) = Process(p)
    BY <1>5 DEF Alive, WasId, Process
  <2> QED
    BY <1>4, <2>1, ReadKnown
<1> QED
  BY <1>2, <1>4, <1>5 DEF WasInv

\* The invariant holds when a check begins.
LEMMA CheckBegins ==
    ASSUME KernelInit, was = procs, task \in {"capture", "idle"}, led = None, read = None,
           mem = Blank, pc \in {"start", "end"}
    PROVE  IInv
<1>1. Blank.verdict = None /\ None \notin Images /\ None # "idle"
  BY SceneAssumption, AnswerAssumption DEF Blank
<1>2. Holds(pc, mem, led, read)
  BY <1>1, BlankTypes DEF Holds, Typed, TableAt, LedAt, OfAt, SavedAt, JobsAt, Labels,
     CaptureLabels, IdleLabels, Looking, Argv, Childless
<1> QED
  BY <1>2, SceneTypes DEF IInv

-----------------------------------------------------------------------------
(* What the checks answer *)

\* Identities and what rests on them, at every moment of a check.
THEOREM ChecksInvariance == Spec => []IInv
<1>1. Init => IInv
  BY CheckBegins DEF Init
<1> QED
  BY <1>1, ChecksKeep, PTL DEF Spec

\* The saved arguments are those of one process, which led the foreground group when herdr
\* named it and is still the same, whatever is born, ends and is reborn under any number
\* between the reads (capture_once, argv_and_cwd).
THEOREM SavedLeader == Spec => []SavedFromTheLeader
<1>1. IInv => SavedFromTheLeader
  BY DEF IInv, Holds, SavedAt, SavedFromTheLeader, Saved
<1> QED
  BY <1>1, ChecksInvariance, PTL

\* A member of the foreground group that was there all the time, with its ancestors, is a
\* descendant of the process that was saved, although the table it was looked up in was
\* never the state of one moment (validate_foreground_tree, process_table).
THEOREM LeaderSpeaks == Spec => []LeaderSpeaksForGroup
<1>1. IInv => LeaderSpeaksForGroup
  BY DEF IInv, Holds, SavedAt, LeaderSpeaksForGroup, Saved, Speaks
<1> QED
  BY <1>1, ChecksInvariance, PTL

\* A shell that is found idle has no child that was there all the time, whichever of the
\* three ways its children were asked for and however its threads end (has_children,
\* idle_shell).
THEOREM IdleShells == Spec => []IdleHasNoJobs
<1>1. IInv => IdleHasNoJobs
  BY DEF IInv, Holds, JobsAt, IdleHasNoJobs, NoJobs
<1> QED
  BY <1>1, ChecksInvariance, PTL

-----------------------------------------------------------------------------
(***************************************************************************)
(* The command.  Scan is a function of the place in the line, and reads on *)
(* from later places: what it returns is shown from the end of the line    *)
(* backwards.                                                              *)
(***************************************************************************)

\* A set of natural numbers that is not empty has a least one.
LEMMA LeastNumber ==
    ASSUME NEW T \in SUBSET Nat, T # {}
    PROVE  \E x \in T : \A y \in T : x <= y
<1>1. PICK x \in T : \A y \in T : ~(<<y, x>> \in OpToRel(<, Nat))
  BY WFMin, NatLessThanWellFounded
<1>2. ASSUME NEW y \in T PROVE x <= y
  <2>1. ~(y < x)
    BY <1>1 DEF OpToRel
  <2> QED
    BY <2>1
<1> QED
  BY <1>2

\* Induction over natural numbers, as a fact about sets.
LEMMA Induction ==
    ASSUME NEW S, 0 \in S, \A n \in Nat : n \in S => n + 1 \in S
    PROVE  Nat \subseteq S
<1> SUFFICES ASSUME Nat \ S # {} PROVE FALSE
  OBVIOUS
<1>1. PICK x \in Nat \ S : \A y \in Nat \ S : x <= y
  BY LeastNumber
<1>2. x # 0 /\ x - 1 \in Nat /\ x - 1 \in S
  BY <1>1
<1>3. (x - 1) + 1 \in S
  BY <1>2
<1> QED
  BY <1>1, <1>3

\* What Scan finds from place i on, when f has what it finds from later places on.
ScanFrom(agent, line, f, i) ==
    IF i > Len(line) THEN <<>>
    ELSE CASE ResumeWord(agent, line[i]) ->
                IF i < Len(line) /\ line[i + 1] \in Ids /\ f[i + 2] # Nothing
                THEN <<line[i + 1]>> \o f[i + 2] ELSE Nothing
           [] line[i] \in JoinedWords ->
                IF Stripped(line[i]) \in Ids /\ f[i + 1] # Nothing
                THEN <<Stripped(line[i])>> \o f[i + 1] ELSE Nothing
           [] TakesValue(line[i]) ->
                IF i < Len(line) /\ line[i + 1] \notin Dashed THEN f[i + 2] ELSE Nothing
           [] Flag(line[i]) -> f[i + 1]
           [] OTHER -> Nothing

Found == Seq(Ids) \union {Nothing}

\* Scan is the function that ScanFrom describes.
LEMMA ScanIs ==
    ASSUME NEW agent, NEW line
    PROVE  Scan(agent, line) =
             (CHOOSE f : f = [i \in 1 .. Len(line) + 1 |-> ScanFrom(agent, line, f, i)])[1]
BY DEF Scan, ScanFrom

\* From one place on, ids or nothing are found if they are from later places on.
LEMMA ScanStep ==
    ASSUME NEW agent, NEW line \in Seq(Words), NEW i \in 1 .. Len(line) + 1, NEW f,
           \A j \in i + 1 .. Len(line) + 1 : f[j] \in Found
    PROVE  ScanFrom(agent, line, f, i) \in Found
<1>1. <<>> \in Found
  BY EmptySeq DEF Found
<1>2. Len(line) \in Nat
  BY LenProperties
<1>3. ASSUME i < Len(line), line[i + 1] \in Ids, f[i + 2] # Nothing
      PROVE  <<line[i + 1]>> \o f[i + 2] \in Found
  <2>1. f[i + 2] \in Seq(Ids)
    BY <1>2, <1>3 DEF Found
  <2>2. <<line[i + 1]>> \in Seq(Ids)
    BY <1>3
  <2> QED
    BY <2>1, <2>2, ConcatProperties DEF Found
<1>4. i < Len(line) => f[i + 2] \in Found
  BY <1>2
<1>5. i <= Len(line) => f[i + 1] \in Found
  BY <1>2
<1>6. Nothing \in Found
  BY DEF Found
<1>9. ASSUME i <= Len(line), Stripped(line[i]) \in Ids, f[i + 1] # Nothing
      PROVE  <<Stripped(line[i])>> \o f[i + 1] \in Found
  <2>1. f[i + 1] \in Seq(Ids)
    BY <1>5, <1>9 DEF Found
  <2>2. <<Stripped(line[i])>> \in Seq(Ids)
    BY <1>9
  <2> QED
    BY <2>1, <2>2, ConcatProperties DEF Found
<1>7. CASE i > Len(line)
  BY <1>1, <1>7 DEF ScanFrom
<1>8. CASE ~(i > Len(line))
  <2>1. i <= Len(line)
    BY <1>2, <1>8
  <2> QED
    BY <1>3, <1>4, <1>5, <1>6, <1>8, <1>9, <2>1 DEF ScanFrom, ResumeWord, TakesValue, Flag
<1> QED
  BY <1>7, <1>8

\* It depends on later places alone.
LEMMA ScanAgrees ==
    ASSUME NEW agent, NEW line \in Seq(Words), NEW i \in 1 .. Len(line) + 1, NEW f, NEW g,
           \A j \in i + 1 .. Len(line) + 1 : f[j] = g[j]
    PROVE  ScanFrom(agent, line, f, i) = ScanFrom(agent, line, g, i)
<1>1. Len(line) \in Nat
  BY LenProperties
<1>2. i < Len(line) => f[i + 2] = g[i + 2]
  BY <1>1
<1>3. i <= Len(line) => f[i + 1] = g[i + 1]
  BY <1>1
<1>4. ~(i > Len(line)) => i <= Len(line)
  BY <1>1
<1> QED
  BY <1>2, <1>3, <1>4 DEF ScanFrom

\* There is such a function: it is built from the last place to the first.
LEMMA ScanExists ==
    ASSUME NEW agent, NEW line \in Seq(Words)
    PROVE  \E f : f = [i \in 1 .. Len(line) + 1 |-> ScanFrom(agent, line, f, i)]
<1> DEFINE n == Len(line)
           Good(f, k) == \A i \in 1 .. n + 1 : i > n - k => f[i] = ScanFrom(agent, line, f, i)
           S == {k \in Nat : \E f \in [1 .. n + 1 -> Found] : Good(f, k)}
<1>1. n \in Nat
  BY LenProperties
<1>2. 0 \in S
  <2> DEFINE f == [i \in 1 .. n + 1 |-> <<>>]
  <2>1. f \in [1 .. n + 1 -> Found]
    BY EmptySeq DEF Found
  <2>2. Good(f, 0)
    BY <1>1 DEF ScanFrom
  <2> QED
    BY <2>1, <2>2
<1>3. ASSUME NEW k \in Nat, k \in S PROVE k + 1 \in S
  <2>1. PICK f \in [1 .. n + 1 -> Found] : Good(f, k)
    BY <1>3
  <2>2. CASE n - k \in 1 .. n + 1
    <3> DEFINE g == [f EXCEPT ![n - k] = ScanFrom(agent, line, f, n - k)]
    <3>1. ScanFrom(agent, line, f, n - k) \in Found
      BY <1>1, <2>2, ScanStep
    <3>2. g \in [1 .. n + 1 -> Found]
      BY <2>2, <3>1
    <3>3. \A j \in 1 .. n + 1 : j # n - k => g[j] = f[j]
      OBVIOUS
    <3>4. g[n - k] = ScanFrom(agent, line, f, n - k)
      BY <2>2
    <3> HIDE DEF g
    <3>5. ASSUME NEW i \in 1 .. n + 1, i > n - (k + 1) PROVE g[i] = ScanFrom(agent, line, g, i)
      <4>1. i >= n - k
        BY <1>1, <3>5
      <4>2. ScanFrom(agent, line, f, i) = ScanFrom(agent, line, g, i)
        <5>1. \A j \in i + 1 .. Len(line) + 1 : f[j] = g[j]
          BY <1>1, <3>3, <4>1
        <5> QED
          BY <5>1, ScanAgrees
      <4>3. CASE i = n - k
        BY <3>4, <4>2, <4>3
      <4>4. CASE i # n - k
        <5>1. i > n - k
          BY <1>1, <4>1, <4>4
        <5> QED
          BY <2>1, <3>3, <4>2, <4>4, <5>1
      <4> QED
        BY <4>3, <4>4
    <3> QED
      BY <3>2, <3>5
  <2>3. CASE n - k \notin 1 .. n + 1
    <3>1. Good(f, k + 1)
      <4>1. \A i \in 1 .. n + 1 : i > n - k
        BY <1>1, <2>3
      <4> QED
        BY <2>1, <4>1
    <3> QED
      BY <3>1
  <2> QED
    BY <2>2, <2>3
<1> HIDE DEF S
<1>4. n \in S
  BY <1>1, <1>2, <1>3, Induction
<1> USE DEF S
<1>5. PICK f \in [1 .. n + 1 -> Found] : Good(f, n)
  BY <1>4
<1>6. \A i \in 1 .. n + 1 : f[i] = ScanFrom(agent, line, f, i)
  BY <1>1, <1>5
<1>7. f = [i \in 1 .. n + 1 |-> f[i]]
  OBVIOUS
<1> QED
  BY <1>6, <1>7

\* The ids that are found are ids: for every line, whatever its length.
LEMMA ScanType ==
    ASSUME NEW agent, NEW line \in Seq(Words)
    PROVE  Scan(agent, line) \in Found
<1> DEFINE n == Len(line)
           h == CHOOSE f : f = [i \in 1 .. Len(line) + 1 |-> ScanFrom(agent, line, f, i)]
           S == {k \in Nat : \A i \in 1 .. n + 1 : i > n - k => h[i] \in Found}
<1>1. n \in Nat
  BY LenProperties
<1>2. h = [i \in 1 .. n + 1 |-> ScanFrom(agent, line, h, i)]
  BY ScanExists
<1>3. Scan(agent, line) = h[1]
  BY ScanIs
<1> HIDE DEF h
<1>4. \A i \in 1 .. n + 1 : h[i] = ScanFrom(agent, line, h, i)
  BY <1>2
<1>5. 0 \in S
  <2>1. ASSUME NEW i \in 1 .. n + 1, i > n - 0 PROVE h[i] \in Found
    <3>1. i > Len(line)
      BY <1>1, <2>1
    <3> QED
      BY <1>4, <3>1, EmptySeq DEF ScanFrom, Found
  <2> QED
    BY <2>1
<1>6. ASSUME NEW k \in Nat, k \in S PROVE k + 1 \in S
  <2>1. ASSUME NEW i \in 1 .. n + 1, i > n - (k + 1) PROVE h[i] \in Found
    <3>1. \A j \in i + 1 .. Len(line) + 1 : h[j] \in Found
      BY <1>1, <1>6, <2>1
    <3> QED
      BY <1>4, <3>1, ScanStep
  <2> QED
    BY <2>1
<1> HIDE DEF S
<1>7. n \in S
  BY <1>1, <1>5, <1>6, Induction
<1> USE DEF S
<1>8. 1 > n - n /\ 1 \in 1 .. n + 1
  BY <1>1
<1>9. h[1] \in Found
  BY <1>7, <1>8
<1> QED
  BY <1>3, <1>9

-----------------------------------------------------------------------------
(* The id that is found.  Names speaks of all cuts of a line at once, Scan *)
(* reads from the left: between them, a cut whose units begin at a place.  *)

\* Where the unit that begins at a cut ends.
EndOf(line, cuts, c) ==
    IF \E d \in cuts : d > c
    THEN (CHOOSE d \in cuts : d > c /\ \A e \in cuts : e > c => d <= e) - 1
    ELSE Len(line)

\* A unit of two words, the word at i and the next.
Couple(agent, line, i) ==
    /\ i < Len(line)
    /\ \/ ResumeWord(agent, line[i]) /\ line[i + 1] \in Ids
       \/ TakesValue(line[i]) /\ line[i + 1] \notin Dashed

\* A unit of one word.
Single(word) == Flag(word) \/ \E id \in Ids : word = Joined[id]

\* The words that resume, and the id of a unit that begins with one.
Resuming(agent, word) == ResumeWord(agent, word) \/ word \in JoinedWords
Given(agent, line, c) == IF ResumeWord(agent, line[c]) THEN line[c + 1] ELSE Stripped(line[c])

\* What is joined is what is stripped.
LEMMA StrippedIs ==
    ASSUME NEW word \in JoinedWords
    PROVE  /\ Stripped(word) \in Values /\ word = Joined[Stripped(word)]
           /\ \A v \in Values : word = Joined[v] => v = Stripped(word)
<1>1. \E v \in Values : word = Joined[v]
  BY DEF JoinedWords
<1>2. Stripped(word) \in Values /\ word = Joined[Stripped(word)]
  BY <1>1 DEF Stripped
<1> QED
  BY <1>2, JoinedAssumption

\* A joined word is no other word; whether it is a unit is a matter of its value.
LEMMA JoinedIs ==
    ASSUME NEW agent, NEW word \in JoinedWords
    PROVE  /\ ~ResumeWord(agent, word) /\ ~TakesValue(word) /\ ~Flag(word)
           /\ Single(word) <=> Stripped(word) \in Ids
<1>1. word \notin {"--resume", "resume", "--model", "--yes"}
  BY JoinedAssumption DEF Separate, Options
<1>2. Single(word) => Stripped(word) \in Ids
  BY <1>1, StrippedIs DEF Single, Flag, Values
<1>3. Stripped(word) \in Ids => Single(word)
  BY StrippedIs DEF Single
<1> QED
  BY <1>1, <1>2, <1>3 DEF ResumeWord, TakesValue, Flag

\* No word of one unit begins one of two.
LEMMA SingleIs ==
    ASSUME NEW agent, NEW word, Single(word)
    PROVE  /\ ~ResumeWord(agent, word) /\ ~TakesValue(word)
           /\ Flag(word) \/ word \in JoinedWords
<1>1. CASE Flag(word)
  BY <1>1 DEF Flag, ResumeWord, TakesValue
<1>2. CASE \E id \in Ids : word = Joined[id]
  <2>1. word \in JoinedWords
    BY <1>2 DEF JoinedWords, Values
  <2> QED
    BY <2>1, JoinedIs
<1> QED
  BY <1>1, <1>2 DEF Single

\* A unit begins at c and the next one where it ends.
Piece(agent, line, cuts, c) ==
    \/ Couple(agent, line, c) /\ c + 1 \notin cuts /\ (c + 2 \in cuts \/ c + 1 = Len(line))
    \/ Single(line[c]) /\ (c + 1 \in cuts \/ c = Len(line))

\* The cuts divide the words from i on into units.
Tiles(agent, line, cuts, i) ==
    /\ cuts \subseteq i .. Len(line)
    /\ i \in cuts \/ i = Len(line) + 1
    /\ \A c \in cuts : Piece(agent, line, cuts, c)

Resumes(agent, line, cuts) == {c \in cuts : Resuming(agent, line[c])}

LEMMA NamesIs ==
    ASSUME NEW agent, NEW line, NEW id
    PROVE  Names(agent, line, id) <=>
             \E cuts \in SUBSET (1 .. Len(line)) :
               /\ 1 \in cuts
               /\ \A c \in cuts : Unit(agent, SubSeq(line, c, EndOf(line, cuts, c)))
               /\ Cardinality(Resumes(agent, line, cuts)) = 1
               /\ \A c \in Resumes(agent, line, cuts) : Gives(SubSeq(line, c, EndOf(line, cuts, c)), id)
BY DEF Names, EndOf, Resumes, Resuming

LEMMA EndIs ==
    ASSUME NEW line, Len(line) \in Nat, NEW cuts \in SUBSET (1 .. Len(line)), NEW c \in cuts, NEW e,
           e = EndOf(line, cuts, c)
    PROVE  /\ e \in c .. Len(line) /\ (e = Len(line) \/ e + 1 \in cuts)
           /\ \A d \in cuts : d > c => d > e
<1> DEFINE later == {d \in cuts : d > c}
<1>1. CASE later = {}
  <2>1. \A d \in cuts : ~(d > c)
    BY <1>1
  <2>2. e = Len(line) /\ c \in 1 .. Len(line)
    BY <2>1 DEF EndOf
  <2>3. e \in c .. Len(line)
    BY <2>2
  <2>4. \A d \in cuts : d > c => d > e
    BY <2>1
  <2> QED
    BY <2>2, <2>3, <2>4
<1>2. CASE later # {}
  <2>1. later \in SUBSET Nat
    <3>1. cuts \subseteq Nat
      <4>1. 1 .. Len(line) \subseteq Nat
        OBVIOUS
      <4> QED
        BY <4>1
    <3> QED
      BY <3>1
  <2>2. \E d \in later : \A x \in later : d <= x
    BY <1>2, <2>1, LeastNumber
  <2>3. \E d \in cuts : d > c /\ \A x \in cuts : x > c => d <= x
    BY <2>2
  <2>4. PICK m : m = CHOOSE d \in cuts : d > c /\ \A x \in cuts : x > c => d <= x
    OBVIOUS
  <2>5. m \in cuts /\ m > c /\ \A x \in cuts : x > c => m <= x
    BY <2>3, <2>4
  <2>6. e = m - 1
    BY <1>2, <2>4 DEF EndOf
  <2> QED
    BY <2>5, <2>6
<1> QED
  BY <1>1, <1>2

LEMMA UnitIs ==
    ASSUME NEW agent, NEW line \in Seq(Words), NEW cuts \in SUBSET (1 .. Len(line)), NEW c \in cuts
    PROVE  /\ Unit(agent, SubSeq(line, c, EndOf(line, cuts, c))) <=> Piece(agent, line, cuts, c)
           /\ Unit(agent, SubSeq(line, c, EndOf(line, cuts, c))) /\ Resuming(agent, line[c]) =>
                \A id \in Ids : Gives(SubSeq(line, c, EndOf(line, cuts, c)), id)
                                  <=> Given(agent, line, c) = id
<1>1. Len(line) \in Nat /\ c \in 1 .. Len(line)
  BY LenProperties
<1>2. PICK e : e = EndOf(line, cuts, c)
  OBVIOUS
<1>3. /\ e \in c .. Len(line) /\ (e = Len(line) \/ e + 1 \in cuts)
      /\ \A d \in cuts : d > c => d > e
  BY <1>1, <1>2, EndIs
<1>4. PICK u : u = SubSeq(line, c, e)
  OBVIOUS
<1>5. /\ Len(u) = e - c + 1 /\ \A k \in 1 .. e - c + 1 : u[k] = line[c + k - 1]
  <2>1. c \in Int /\ e \in Int /\ c <= e
    BY <1>1, <1>3
  <2>2. \A k \in c .. e : line[k] \in Words
    BY <1>1, <1>3, ElementOfSeq
  <2> QED
    BY <1>4, <2>1, <2>2, SubSeqProperties
<1>6. u[1] = line[c] /\ (e >= c + 1 => u[2] = line[c + 1])
  <2>1. 1 \in 1 .. e - c + 1 /\ c + 1 - 1 = c
    BY <1>1, <1>3
  <2>2. e >= c + 1 => 2 \in 1 .. e - c + 1 /\ c + 2 - 1 = c + 1
    BY <1>1, <1>3
  <2> QED
    BY <1>5, <2>1, <2>2
<1>7. (Len(u) = 2 <=> e = c + 1) /\ (Len(u) = 1 <=> e = c)
  BY <1>1, <1>3, <1>5
<1>8. e = c + 1 <=> c < Len(line) /\ c + 1 \notin cuts /\ (c + 2 \in cuts \/ c + 1 = Len(line))
  BY <1>1, <1>3
<1>9. e = c <=> c + 1 \in cuts \/ c = Len(line)
  BY <1>1, <1>3
<1>10. Unit(agent, u) <=>
         \/ e = c + 1 /\ Couple(agent, line, c)
         \/ e = c /\ Single(line[c])
  BY <1>1, <1>3, <1>6, <1>7 DEF Unit, Couple, Single
<1>11. Unit(agent, u) <=> Piece(agent, line, cuts, c)
  BY <1>1, <1>8, <1>9, <1>10 DEF Piece, Couple
<1>12. ASSUME Unit(agent, u), Resuming(agent, line[c]), NEW id \in Ids
       PROVE  Gives(u, id) <=> Given(agent, line, c) = id
  <2>1. CASE e = c + 1 /\ Couple(agent, line, c)
    <3>1. Len(u) = 2 /\ u[Len(u)] = line[c + 1]
      <4>1. Len(u) = 2
        BY <1>7, <2>1
      <4>2. e >= c + 1
        BY <1>1, <2>1
      <4>3. u[2] = line[c + 1]
        BY <1>6, <4>2
      <4> QED
        BY <4>1, <4>3
    <3>2. ResumeWord(agent, line[c])
      BY <1>12, <2>1, JoinedIs DEF Couple, Resuming
    <3> QED
      BY <3>1, <3>2 DEF Gives, Given
  <2>2. CASE e = c /\ Single(line[c])
    <3>1. Len(u) = 1 /\ u[Len(u)] = line[c]
      BY <1>6, <1>7, <2>2
    <3>2. ~ResumeWord(agent, line[c]) /\ line[c] \in JoinedWords
      BY <1>12, <2>2, SingleIs DEF Resuming
    <3>3. line[c] = Joined[id] <=> Stripped(line[c]) = id
      BY <3>2, StrippedIs DEF Values
    <3> QED
      BY <3>1, <3>2, <3>3 DEF Gives, Given
  <2> QED
    BY <1>10, <1>12, <2>1, <2>2
<1> QED
  BY <1>2, <1>4, <1>11, <1>12

\* A unit in front of a division, and a division without its first unit.
LEMMA TilesAdd ==
    ASSUME NEW agent, NEW line, Len(line) \in Nat, NEW i \in 1 .. Len(line), NEW l \in {1, 2}, NEW D,
           NEW j, j = i + l, Tiles(agent, line, D, j),
           l = 1 => Single(line[i]), l = 2 => Couple(agent, line, i)
    PROVE  Tiles(agent, line, {i} \union D, i)
<1> DEFINE C == {i} \union D
<1>1. D \subseteq i + l .. Len(line) /\ (i + l \in D \/ i + l = Len(line) + 1)
  BY DEF Tiles
<1>2. C \subseteq i .. Len(line) /\ i \in C
  BY <1>1
<1>3. Piece(agent, line, C, i)
  <2>1. CASE l = 1
    BY <1>1, <2>1 DEF Piece
  <2>2. CASE l = 2
    <3>1. i + 1 \notin C /\ (i + 2 \in C \/ i + 1 = Len(line))
      BY <1>1, <2>2
    <3> QED
      BY <2>2, <3>1 DEF Piece
  <2> QED
    BY <2>1, <2>2
<1>4. ASSUME NEW c \in D PROVE Piece(agent, line, C, c)
  <2>1. Piece(agent, line, D, c)
    BY <1>4 DEF Tiles
  <2>2. c \in Int /\ c > i
    BY <1>1, <1>4
  <2> QED
    BY <2>1, <2>2 DEF Piece
<1> QED
  BY <1>2, <1>3, <1>4 DEF Tiles

LEMMA TilesDrop ==
    ASSUME NEW agent, NEW line, Len(line) \in Nat, NEW i \in 1 .. Len(line), NEW C,
           Tiles(agent, line, C, i)
    PROVE  /\ i \in C
           /\ \/ Single(line[i]) /\ Tiles(agent, line, C \ {i}, i + 1)
              \/ Couple(agent, line, i) /\ Tiles(agent, line, C \ {i}, i + 2)
<1> DEFINE D == C \ {i}
<1>1. i \in C /\ C \subseteq i .. Len(line) /\ D \subseteq i + 1 .. Len(line)
  BY DEF Tiles
<1>2. ASSUME NEW c \in D PROVE Piece(agent, line, D, c)
  <2>1. Piece(agent, line, C, c)
    BY <1>2 DEF Tiles
  <2>2. c \in Int /\ c > i
    BY <1>1, <1>2
  <2> QED
    BY <2>1, <2>2 DEF Piece
<1>3. Piece(agent, line, C, i)
  BY <1>1 DEF Tiles
<1>4. CASE Single(line[i]) /\ (i + 1 \in C \/ i = Len(line))
  <2>1. i + 1 \in D \/ i + 1 = Len(line) + 1
    BY <1>4
  <2> QED
    BY <1>1, <1>2, <1>4, <2>1 DEF Tiles
<1>5. CASE Couple(agent, line, i) /\ i + 1 \notin C /\ (i + 2 \in C \/ i + 1 = Len(line))
  <2>1. D \subseteq i + 2 .. Len(line)
    BY <1>1, <1>5
  <2>2. i + 2 \in D \/ i + 2 = Len(line) + 1
    BY <1>5
  <2>3. \A c \in D : Piece(agent, line, D, c)
    BY <1>2
  <2> HIDE DEF D
  <2>4. Tiles(agent, line, D, i + 2)
    BY <2>1, <2>2, <2>3 DEF Tiles
  <2> QED
    BY <1>1, <1>5, <2>4 DEF D
<1> QED
  BY <1>3, <1>4, <1>5 DEF Piece

\* From place i on, Scan finds something if and only if the words can be divided, and then
\* the ids of the resume options among the units, in order.
Exact(agent, line, f, i) ==
    /\ f[i] \in Found
    /\ f[i] # Nothing => \E C : Tiles(agent, line, C, i)
    /\ \A C : Tiles(agent, line, C, i) =>
         /\ f[i] # Nothing
         /\ Cardinality(Resumes(agent, line, C)) = Len(f[i])
         /\ Len(f[i]) = 1 => \A c \in Resumes(agent, line, C) : Given(agent, line, c) = f[i][1]

LEMMA ExactTiles ==
    ASSUME NEW agent, NEW line, NEW f, NEW j, Exact(agent, line, f, j), f[j] # Nothing
    PROVE  \E C : Tiles(agent, line, C, j)
BY DEF Exact

LEMMA ExactStep ==
    ASSUME NEW agent, NEW line \in Seq(Words), NEW i \in 1 .. Len(line), NEW f,
           f[i] = ScanFrom(agent, line, f, i),
           \A j \in i + 1 .. Len(line) + 1 : Exact(agent, line, f, j)
    PROVE  Exact(agent, line, f, i)
<1>1. Len(line) \in Nat /\ i + 1 \in i + 1 .. Len(line) + 1
      /\ (i < Len(line) => i + 2 \in i + 1 .. Len(line) + 1)
  BY LenProperties
<1>2. f[i] \in Found
  <2>1. \A j \in i + 1 .. Len(line) + 1 : f[j] \in Found
    BY DEF Exact
  <2>2. i \in 1 .. Len(line) + 1
    BY <1>1
  <2> QED
    BY <2>1, <2>2, ScanStep
<1>3. /\ ResumeWord(agent, line[i]) => ~TakesValue(line[i]) /\ ~Flag(line[i])
      /\ TakesValue(line[i]) => ~Flag(line[i])
      /\ line[i] \in JoinedWords =>
           ~ResumeWord(agent, line[i]) /\ ~TakesValue(line[i]) /\ ~Flag(line[i])
  BY JoinedIs DEF ResumeWord, TakesValue, Flag
<1>4. /\ ResumeWord(agent, line[i]) =>
           f[i] = IF i < Len(line) /\ line[i + 1] \in Ids /\ f[i + 2] # Nothing
                  THEN <<line[i + 1]>> \o f[i + 2] ELSE Nothing
      /\ line[i] \in JoinedWords =>
           f[i] = IF Stripped(line[i]) \in Ids /\ f[i + 1] # Nothing
                  THEN <<Stripped(line[i])>> \o f[i + 1] ELSE Nothing
      /\ TakesValue(line[i]) =>
           f[i] = IF i < Len(line) /\ line[i + 1] \notin Dashed THEN f[i + 2] ELSE Nothing
      /\ Flag(line[i]) => f[i] = f[i + 1]
      /\ ~(Resuming(agent, line[i]) \/ TakesValue(line[i]) \/ Flag(line[i])) => f[i] = Nothing
  <2>1. ~(i > Len(line))
    BY <1>1
  <2> QED
    BY <1>3, <2>1 DEF ScanFrom, Resuming
<1>5. ASSUME f[i] # Nothing PROVE \E C : Tiles(agent, line, C, i)
  <2>1. CASE Flag(line[i]) \/ line[i] \in JoinedWords
    <3>0. Exact(agent, line, f, i + 1) /\ f[i + 1] # Nothing
      BY <1>1, <1>4, <1>5, <2>1
    <3>3. Single(line[i])
      BY <1>4, <1>5, <2>1, JoinedIs DEF Single
    <3>1. PICK D : Tiles(agent, line, D, i + 1)
      BY <3>0, ExactTiles
    <3>2. Tiles(agent, line, {i} \union D, i)
      <4>1. 1 \in {1, 2} /\ (1 = 1 => Single(line[i])) /\ (1 = 2 => Couple(agent, line, i))
        BY <3>3
      <4> QED
        BY <1>1, <3>1, <4>1, TilesAdd
    <3> QED
      BY <3>2
  <2>2. CASE ResumeWord(agent, line[i]) \/ TakesValue(line[i])
    <3>1. Couple(agent, line, i) /\ f[i + 2] # Nothing
      BY <1>4, <1>5, <2>2 DEF Couple
    <3>0. Exact(agent, line, f, i + 2)
      BY <1>1, <3>1 DEF Couple
    <3>2. PICK D : Tiles(agent, line, D, i + 2)
      BY <3>0, <3>1, ExactTiles
    <3>3. Tiles(agent, line, {i} \union D, i)
      <4>1. 2 \in {1, 2} /\ (2 = 1 => Single(line[i])) /\ (2 = 2 => Couple(agent, line, i))
        BY <3>1
      <4> QED
        BY <1>1, <3>2, <4>1, TilesAdd
    <3> QED
      BY <3>3
  <2> QED
    BY <1>4, <1>5, <2>1, <2>2 DEF Resuming
<1>6. ASSUME NEW C, Tiles(agent, line, C, i)
      PROVE  /\ f[i] # Nothing
             /\ Cardinality(Resumes(agent, line, C)) = Len(f[i])
             /\ Len(f[i]) = 1 => \A c \in Resumes(agent, line, C) : Given(agent, line, c) = f[i][1]
  <2> DEFINE D == C \ {i}
             R == Resumes(agent, line, C)
             Q == Resumes(agent, line, D)
  <2>1. i \in C /\ (\/ Single(line[i]) /\ Tiles(agent, line, D, i + 1)
                    \/ Couple(agent, line, i) /\ Tiles(agent, line, D, i + 2))
    BY <1>1, <1>6, TilesDrop
  <2>2. /\ IsFiniteSet(Q) /\ Cardinality(Q) \in Nat
        /\ Resuming(agent, line[i]) => R = Q \union {i} /\ Cardinality(R) = Cardinality(Q) + 1
        /\ ~Resuming(agent, line[i]) => R = Q
    <3> HIDE DEF D, R, Q
    <3>1. D \subseteq i + 1 .. Len(line)
      <4>1. CASE Tiles(agent, line, D, i + 1)
        BY <4>1 DEF Tiles
      <4>2. CASE Tiles(agent, line, D, i + 2)
        <5>1. D \subseteq i + 2 .. Len(line) /\ i + 2 .. Len(line) \subseteq i + 1 .. Len(line)
          BY <1>1, <4>2 DEF Tiles
        <5> QED
          BY <5>1
      <4> QED
        BY <2>1, <4>1, <4>2
    <3>2. /\ D = C \ {i} /\ Q = {c \in D : Resuming(agent, line[c])}
          /\ R = {c \in C : Resuming(agent, line[c])}
      BY DEF D, R, Q, Resumes
    <3>3. Q \in SUBSET (1 .. Len(line)) /\ i \notin Q
      <4>1. D \subseteq 1 .. Len(line) /\ i \notin D
        BY <1>1, <3>1
      <4> QED
        BY <3>2, <4>1
    <3>4. IsFiniteSet(Q) /\ Cardinality(Q) \in Nat
      <4>1. IsFiniteSet(1 .. Len(line))
        BY <1>1, FS_Interval
      <4> QED
        BY <3>3, <4>1, FS_Subset, FS_CardinalityType
    <3>5. Cardinality(Q \union {i}) = Cardinality(Q) + 1
      BY <3>3, <3>4, FS_AddElement
    <3>6. Resuming(agent, line[i]) => R = Q \union {i}
      BY <2>1, <3>2
    <3>7. ~Resuming(agent, line[i]) => R = Q
      BY <3>2
    <3> QED
      BY <3>4, <3>5, <3>6, <3>7
  <2>5. ASSUME NEW k \in {i + 1, i + 2}, Exact(agent, line, f, k), Tiles(agent, line, D, k),
               NEW id \in Ids, f[i] = <<id>> \o f[k],
               Resuming(agent, line[i]), Given(agent, line, i) = id
        PROVE  /\ f[i] # Nothing /\ Cardinality(R) = Len(f[i])
               /\ Len(f[i]) = 1 => \A c \in R : Given(agent, line, c) = f[i][1]
    <3>1. f[k] # Nothing /\ Cardinality(Q) = Len(f[k]) /\ f[k] \in Seq(Ids)
      BY <2>5 DEF Exact, Found
    <3> HIDE DEF Q, R
    <3>2. <<id>> \in Seq(Ids) /\ Len(<<id>>) = 1 /\ <<id>>[1] = id
      OBVIOUS
    <3>3. f[i] \in Seq(Ids) /\ Len(f[i]) = 1 + Len(f[k]) /\ f[i][1] = id
      BY <2>5, <3>1, <3>2, ConcatProperties
    <3>4. f[i] # Nothing
      BY <3>3, WordAssumption
    <3>5. Cardinality(R) = Cardinality(Q) + 1 /\ R = Q \union {i}
      BY <2>2, <2>5
    <3>6. Cardinality(Q) \in Nat /\ IsFiniteSet(Q)
      BY <2>2
    <3>7. Cardinality(R) = Len(f[i])
      BY <3>1, <3>3, <3>5, <3>6
    <3>8. Len(f[i]) = 1 => Cardinality(Q) = 0
      BY <3>1, <3>3, <3>6, SMTT(30)
    <3>9. Len(f[i]) = 1 => Q = {}
      BY <3>6, <3>8, FS_EmptySet
    <3> QED
      BY <2>5, <3>3, <3>4, <3>5, <3>7, <3>9
  <2>6. ASSUME NEW k \in {i + 1, i + 2}, Exact(agent, line, f, k), Tiles(agent, line, D, k),
               f[i] = f[k], ~Resuming(agent, line[i])
        PROVE  /\ f[i] # Nothing /\ Cardinality(R) = Len(f[i])
               /\ Len(f[i]) = 1 => \A c \in R : Given(agent, line, c) = f[i][1]
    <3>1. /\ f[k] # Nothing /\ Cardinality(Q) = Len(f[k])
          /\ Len(f[k]) = 1 => \A c \in Q : Given(agent, line, c) = f[k][1]
      BY <2>6 DEF Exact
    <3> HIDE DEF Q, R
    <3>2. R = Q
      BY <2>2, <2>6
    <3> QED
      BY <2>6, <3>1, <3>2
  <2>3. CASE Single(line[i]) /\ Tiles(agent, line, D, i + 1)
    <3>1. Exact(agent, line, f, i + 1) /\ ~ResumeWord(agent, line[i])
      BY <1>1, <2>3, SingleIs
    <3>2. CASE line[i] \in JoinedWords
      <4>1. Stripped(line[i]) \in Ids /\ Given(agent, line, i) = Stripped(line[i])
        BY <2>3, <3>1, <3>2, JoinedIs DEF Given
      <4>2. f[i + 1] # Nothing
        BY <2>3, <3>1 DEF Exact
      <4>3. f[i] = <<Stripped(line[i])>> \o f[i + 1]
        BY <1>4, <3>2, <4>1, <4>2
      <4> HIDE DEF R, D
      <4> QED
        BY <2>3, <2>5, <3>1, <3>2, <4>1, <4>3 DEF Resuming, R
    <3>3. CASE line[i] \notin JoinedWords
      <4>1. Flag(line[i])
        BY <2>3, <3>3, SingleIs
      <4>2. f[i] = f[i + 1] /\ ~Resuming(agent, line[i])
        BY <1>4, <3>1, <3>3, <4>1 DEF Resuming
      <4> HIDE DEF R, D
      <4> QED
        BY <2>3, <2>6, <3>1, <4>2 DEF R
    <3> QED
      BY <3>2, <3>3
  <2>4. CASE Couple(agent, line, i) /\ Tiles(agent, line, D, i + 2)
    <3>1. Exact(agent, line, f, i + 2) /\ f[i + 2] # Nothing /\ i < Len(line)
      BY <1>1, <2>4 DEF Exact, Couple
    <3>2. CASE ResumeWord(agent, line[i])
      <4>1. line[i + 1] \in Ids /\ Given(agent, line, i) = line[i + 1]
        BY <1>3, <2>4, <3>2 DEF Couple, Given
      <4>2. f[i] = <<line[i + 1]>> \o f[i + 2]
        BY <1>4, <3>1, <3>2, <4>1
      <4> HIDE DEF R, D
      <4> QED
        BY <2>4, <2>5, <3>1, <3>2, <4>1, <4>2 DEF Resuming, R
    <3>3. CASE ~ResumeWord(agent, line[i])
      <4>1. TakesValue(line[i]) /\ line[i + 1] \notin Dashed
        BY <2>4, <3>3 DEF Couple
      <4>2. f[i] = f[i + 2] /\ ~Resuming(agent, line[i])
        BY <1>3, <1>4, <3>1, <3>3, <4>1 DEF Resuming
      <4> HIDE DEF R, D
      <4> QED
        BY <2>4, <2>6, <3>1, <4>2 DEF R
    <3> QED
      BY <3>2, <3>3
  <2> QED
    BY <2>1, <2>3, <2>4
<1> QED
  BY <1>2, <1>5, <1>6 DEF Exact

LEMMA ScanExact ==
    ASSUME NEW agent, NEW line \in Seq(Words)
    PROVE  \E f : Scan(agent, line) = f[1] /\ Exact(agent, line, f, 1)
<1> DEFINE n == Len(line)
           h == CHOOSE f : f = [i \in 1 .. Len(line) + 1 |-> ScanFrom(agent, line, f, i)]
           S == {k \in Nat : \A i \in 1 .. n + 1 : i > n - k => Exact(agent, line, h, i)}
<1>1. n \in Nat
  BY LenProperties
<1>2. h = [i \in 1 .. n + 1 |-> ScanFrom(agent, line, h, i)]
  BY ScanExists
<1>3. Scan(agent, line) = h[1]
  BY ScanIs
<1> HIDE DEF h
<1>4. \A i \in 1 .. n + 1 : h[i] = ScanFrom(agent, line, h, i)
  BY <1>2
<1>5. 0 \in S
  <2>1. ASSUME NEW i \in 1 .. n + 1, i > n - 0 PROVE Exact(agent, line, h, i)
    <3>1. i = n + 1 /\ i > Len(line)
      BY <1>1, <2>1
    <3>2. h[i] = <<>> /\ <<>> \in Seq(Ids) /\ Len(<<>>) = 0
      BY <1>4, <3>1, EmptySeq DEF ScanFrom
    <3>3. h[i] # Nothing /\ h[i] \in Found
      BY <3>2, WordAssumption DEF Found
    <3>4. Tiles(agent, line, {}, i)
      BY <3>1 DEF Tiles
    <3>5. ASSUME NEW C, Tiles(agent, line, C, i) PROVE Resumes(agent, line, C) = {}
      <4>1. C \subseteq n + 1 .. n
        BY <3>1, <3>5 DEF Tiles
      <4>2. C = {}
        BY <1>1, <4>1
      <4> QED
        BY <4>2 DEF Resumes
    <3> QED
      BY <3>2, <3>3, <3>4, <3>5, FS_EmptySet DEF Exact
  <2> QED
    BY <2>1
<1>6. ASSUME NEW k \in Nat, k \in S PROVE k + 1 \in S
  <2>1. ASSUME NEW i \in 1 .. n + 1, i > n - (k + 1) PROVE Exact(agent, line, h, i)
    <3>1. CASE i = n + 1
      BY <1>1, <1>6, <3>1
    <3>2. CASE i # n + 1
      <4>1. i \in 1 .. Len(line) /\ h[i] = ScanFrom(agent, line, h, i)
        BY <1>1, <1>4, <3>2
      <4>2. \A j \in i + 1 .. Len(line) + 1 : Exact(agent, line, h, j)
        BY <1>1, <1>6, <2>1
      <4> QED
        BY <4>1, <4>2, ExactStep
    <3> QED
      BY <3>1, <3>2
  <2> QED
    BY <2>1
<1> HIDE DEF S
<1>7. n \in S
  BY <1>1, <1>5, <1>6, Induction
<1> USE DEF S
<1>8. 1 > n - n /\ 1 \in 1 .. n + 1
  BY <1>1
<1>9. Exact(agent, line, h, 1)
  BY <1>7, <1>8
<1> QED
  BY <1>3, <1>9

\* An id is found exactly when a division of the line names it: for every line.
LEMMA IdExact ==
    ASSUME NEW agent, NEW line \in Seq(Words), NEW id \in Ids
    PROVE  ExplicitResumeId(agent, line) = id <=> Names(agent, line, id)
<1>1. Len(line) \in Nat
  BY LenProperties
<1>2. PICK f : Scan(agent, line) = f[1] /\ Exact(agent, line, f, 1)
  BY ScanExact
<1>3. ExplicitResumeId(agent, line) = id <=> f[1] # Nothing /\ Len(f[1]) = 1 /\ f[1][1] = id
  BY <1>2, WordAssumption DEF ExplicitResumeId
<1>4. ASSUME f[1] # Nothing, Len(f[1]) = 1, f[1][1] = id PROVE Names(agent, line, id)
  <2>1. PICK C : Tiles(agent, line, C, 1)
    BY <1>2, <1>4 DEF Exact
  <2>2. /\ Cardinality(Resumes(agent, line, C)) = 1
        /\ \A c \in Resumes(agent, line, C) : Given(agent, line, c) = id
    BY <1>2, <1>4, <2>1 DEF Exact
  <2>3. C \in SUBSET (1 .. Len(line)) /\ \A c \in C : Piece(agent, line, C, c)
    BY <2>1 DEF Tiles
  <2>4. 1 \in C
    <3> SUFFICES ASSUME 1 \notin C PROVE FALSE
      OBVIOUS
    <3>1. Len(line) = 0
      BY <1>1, <2>1 DEF Tiles
    <3>2. C = {}
      BY <2>3, <3>1
    <3>3. Resumes(agent, line, C) = {}
      BY <3>2 DEF Resumes
    <3> QED
      BY <2>2, <3>3, FS_EmptySet
  <2>5. \A c \in C : Unit(agent, SubSeq(line, c, EndOf(line, C, c)))
    BY <2>3, UnitIs
  <2>6. \A c \in Resumes(agent, line, C) : Gives(SubSeq(line, c, EndOf(line, C, c)), id)
    <3> SUFFICES ASSUME NEW c \in Resumes(agent, line, C)
                 PROVE  Gives(SubSeq(line, c, EndOf(line, C, c)), id)
      OBVIOUS
    <3>1. c \in C /\ Resuming(agent, line[c]) /\ Given(agent, line, c) = id
      BY <2>2 DEF Resumes
    <3> QED
      BY <2>3, <2>5, <3>1, UnitIs
  <2> QED
    BY <2>2, <2>3, <2>4, <2>5, <2>6, NamesIs
<1>5. ASSUME Names(agent, line, id) PROVE f[1] # Nothing /\ Len(f[1]) = 1 /\ f[1][1] = id
  <2>1. PICK C \in SUBSET (1 .. Len(line)) :
          /\ 1 \in C
          /\ \A c \in C : Unit(agent, SubSeq(line, c, EndOf(line, C, c)))
          /\ Cardinality(Resumes(agent, line, C)) = 1
          /\ \A c \in Resumes(agent, line, C) : Gives(SubSeq(line, c, EndOf(line, C, c)), id)
    BY <1>5, NamesIs
  <2>2. Tiles(agent, line, C, 1)
    <3>1. \A c \in C : Piece(agent, line, C, c)
      BY <2>1, UnitIs
    <3> QED
      BY <2>1, <3>1 DEF Tiles
  <2>3. /\ f[1] # Nothing /\ Len(f[1]) = 1
        /\ \A c \in Resumes(agent, line, C) : Given(agent, line, c) = f[1][1]
    BY <1>2, <2>1, <2>2 DEF Exact
  <2>4. PICK c : c \in Resumes(agent, line, C)
    <3>1. PICK S : S = Resumes(agent, line, C)
      OBVIOUS
    <3>2. Cardinality(S) = 1
      BY <2>1, <3>1
    <3>3. S # {}
      <4>1. Cardinality({}) # 1
        BY FS_EmptySet
      <4> QED
        BY <3>2, <4>1, Zenon
    <3> QED
      BY <3>1, <3>3
  <2>5. c \in C /\ Resuming(agent, line[c])
    BY <2>4 DEF Resumes
  <2>6. Given(agent, line, c) = id
    BY <2>1, <2>4, <2>5, UnitIs
  <2> QED
    BY <2>3, <2>4, <2>6
<1> QED
  BY <1>3, <1>4, <1>5

-----------------------------------------------------------------------------
(* What is saved of a pane, and what is launched *)

\* The session of a pane, if it has one, is an id.
LEMMA SessionType ==
    ASSUME NEW p \in Panes, SessionOf(p) # Nothing
    PROVE  SessionOf(p) \in Ids
<1>1. p.line \in Seq(Words) /\ p.native \in [agent : Agents, id : Ids] \union {Nothing}
  BY LineAssumption DEF Panes
<1>2. CASE Attached(p) # Nothing
  BY <1>2 DEF SessionOf, Attached
<1>3. CASE Attached(p) = Nothing /\ p.native = Nothing
  <2> DEFINE ids == Scan(AgentOf(p.program), p.line)
  <2>1. ids \in Found
    BY <1>1, ScanType
  <2>2. SessionOf(p) = IF ids # Nothing /\ Len(ids) = 1 THEN ids[1] ELSE Nothing
    BY <1>3 DEF SessionOf, ExplicitResumeId
  <2> HIDE DEF ids
  <2>3. ids \in Seq(Ids) /\ Len(ids) = 1 /\ SessionOf(p) = ids[1]
    BY <2>1, <2>2 DEF Found
  <2> QED
    BY <2>3, ElementOfSeq
<1>4. CASE Attached(p) = Nothing /\ p.native # Nothing
  BY <1>1, <1>4 DEF SessionOf
<1> QED
  BY <1>2, <1>3, <1>4

\* A command of a program that is no agent, or of the session meant.
SavedCommand ==
    \/ /\ saved.kind = "program" /\ meant.agent = Nothing
       /\ AgentOf(saved.program) = Nothing
    \/ /\ saved.kind = "agent" /\ meant.agent # Nothing /\ meant.agent \in Agents
       /\ saved.agent = meant.agent /\ saved.id = meant.session /\ saved.id \in Ids
       /\ saved.executable \in Programs \ {"node", "tool"}
       /\ saved.create # Nothing => saved.agent = "claude" /\ saved.create = meant.profile

PolicyInv ==
    /\ stage \in {"parse", "run", "saved", "launched", "refused"}
    /\ stage = "run" => pane \in Panes
    /\ stage = "saved" => SavedCommand
    /\ ReplaysTheSession /\ AgentsHaveSessions

\* What is saved stands for the program, or for the agent and its session.
LEMMA SaveStep ==
    ASSUME PolicyInv, Save
    PROVE  PolicyInv'
<1>1. stage = "run" /\ stage' = "saved" /\ pane \in Panes
  BY DEF Save, PolicyInv
<1>2. PICK config \in Configs, transcripts \in Transcripts, here \in BOOLEAN :
        /\ Savable(pane, config, transcripts, here)
        /\ saved' = IF AgentOf(pane.program) = Nothing
                    THEN [kind |-> "program", program |-> pane.program]
                    ELSE AgentSpec(pane, config, transcripts, here)
  BY DEF Save
<1>3. meant' = [session |-> SessionOf(pane), agent |-> AgentOf(pane.program),
                profile |-> pane.profile]
  BY DEF Save
<1>4. ASSUME AgentOf(pane.program) = Nothing PROVE SavedCommand'
  <2>1. saved'.kind = "program" /\ saved'.program = pane.program /\ meant'.agent = Nothing
    BY <1>2, <1>3, <1>4
  <2> QED
    BY <1>4, <2>1 DEF SavedCommand, AgentOf
<1>5. ASSUME AgentOf(pane.program) # Nothing PROVE SavedCommand'
  <2>1. SessionOf(pane) \in Ids
    BY <1>1, <1>2, <1>5, SessionType DEF Savable
  <2>2. pane.program \in {"claude", "node", "codex"} /\ AgentOf(pane.program) \in Agents
    BY <1>1, <1>5 DEF AgentOf, Panes, Programs, Agents
  <2>3. ExecutableOf(pane, config) \in Programs \ {"node", "tool"}
    BY <2>2 DEF ExecutableOf, Programs
  <2>4. Unwritten(pane, transcripts, here) => AgentOf(pane.program) = "claude"
    BY DEF Unwritten
  <2>5. /\ saved'.kind = "agent" /\ saved'.agent = AgentOf(pane.program)
        /\ saved'.id = SessionOf(pane) /\ saved'.executable = ExecutableOf(pane, config)
        /\ saved'.create = IF Unwritten(pane, transcripts, here) THEN pane.profile ELSE Nothing
    BY <1>2, <1>5 DEF AgentSpec
  <2>6. /\ meant'.session = SessionOf(pane) /\ meant'.agent = AgentOf(pane.program)
        /\ meant'.profile = pane.profile
    BY <1>3
  <2> QED
    BY <1>5, <2>1, <2>2, <2>3, <2>4, <2>5, <2>6 DEF SavedCommand
<1>6. SavedCommand'
  BY <1>4, <1>5
<1> QED
  BY <1>1, <1>6 DEF PolicyInv, ReplaysTheSession, AgentsHaveSessions

\* What is launched is that session, with the agent it belongs to at that moment.
LEMMA LaunchStep ==
    ASSUME PolicyInv, Launch
    PROVE  PolicyInv'
<1>1. /\ SavedCommand /\ UNCHANGED <<pane, words, saved, meant>>
      /\ stage' = IF launched'.ok THEN "launched" ELSE "refused"
  BY DEF Launch, PolicyInv
<1>2. CASE saved.kind = "program"
  <2>1. PICK config \in Configs :
          launched' = [config |-> config, transcripts |-> {}, program |-> saved.program,
                       verb |-> "run", id |-> Nothing, ok |-> AllowedProgram(saved, config)]
    BY <1>2 DEF Launch
  <2>2. meant.agent = Nothing /\ AgentOf(saved.program) = Nothing
    BY <1>1, <1>2 DEF SavedCommand
  <2>3. launched'.ok => ~(config.launcher # Nothing /\ saved.program = "wrapper")
    BY <2>1 DEF AllowedProgram
  <2> QED
    BY <1>1, <2>1, <2>2, <2>3 DEF PolicyInv, ReplaysTheSession, AgentsHaveSessions
<1>3. CASE saved.kind # "program"
  <2>1. PICK config \in Configs, transcripts \in Transcripts :
          launched' = [config |-> config, transcripts |-> transcripts, program |-> saved.executable,
                       verb |-> Verb(saved, transcripts), id |-> saved.id,
                       ok |-> AllowedAgent(saved, config)]
    BY <1>3 DEF Launch
  <2>2. /\ meant.agent # Nothing /\ saved.agent = meant.agent /\ saved.id = meant.session
        /\ saved.id \in Ids /\ (saved.create # Nothing => saved.create = meant.profile)
    BY <1>1, <1>3 DEF SavedCommand
  <2>3. ASSUME AllowedAgent(saved, config)
        PROVE  /\ meant.agent = IF saved.executable = "wrapper" THEN config.launcher
                                ELSE AgentOf(saved.executable)
               /\ Verb(saved, transcripts) = "create" =>
                    /\ ProfileOf(saved.executable, config) = meant.profile
                    /\ <<meant.profile, meant.session>> \notin transcripts
    <3>1. AgentOf("wrapper") = Nothing
      BY DEF AgentOf
    <3> QED
      BY <2>2, <2>3, <3>1 DEF AllowedAgent, Verb
  <2> QED
    BY <1>1, <2>1, <2>2, <2>3 DEF PolicyInv, ReplaysTheSession, AgentsHaveSessions
<1> QED
  BY <1>2, <1>3

\* The invariant of the way of a command.
LEMMA PolicyKeeps == PolicyInv /\ [PolicyNext]_policyVars => PolicyInv'
<1> SUFFICES ASSUME PolicyInv, [PolicyNext]_policyVars PROVE PolicyInv'
  OBVIOUS
<1>1. CASE UNCHANGED policyVars
  BY <1>1 DEF policyVars, PolicyInv, SavedCommand, ReplaysTheSession, AgentsHaveSessions
<1> QED
  BY <1>1, SaveStep, LaunchStep DEF PolicyNext

LEMMA PolicyBegins == PolicyInit => PolicyInv
BY DEF PolicyInit, PolicyInv, ReplaysTheSession, AgentsHaveSessions

\* A command stands for what was meant at every moment.
THEOREM PolicyInvariance == PolicySpec => []PolicyInv
BY PolicyBegins, PolicyKeeps, PTL DEF PolicySpec

\* What is launched for an agent is the session that was captured, with the agent it belongs
\* to now, created only in its own profile and over no conversation, for every set of ids and
\* every line a pane runs with (allowed_argv, capture_once).
THEOREM SessionsReplayed == PolicySpec => []ReplaysTheSession
<1>1. PolicyInv => ReplaysTheSession
  BY DEF PolicyInv
<1> QED
  BY <1>1, PolicyInvariance, PTL

\* No agent is started without a session: what explicit_resume_id returns is an id for every
\* line, and a plain program is no launcher when it is run (allowed_argv).
THEOREM AgentsResume == PolicySpec => []AgentsHaveSessions
<1>1. PolicyInv => AgentsHaveSessions
  BY DEF PolicyInv
<1> QED
  BY <1>1, PolicyInvariance, PTL

\* The arguments that are only parsed are words.
ParseInv == stage = "parse" => words \in Seq(Words)

\* A session id is taken from arguments exactly when they can be cut into known options with
\* their values and one resume option with that id, for every length and every set of ids:
\* reading from the left finds the one division there is (explicit_resume_id).
THEOREM ResumesExact == PolicySpec => []ResumeIdExact
<1>1. PolicyInit => ParseInv
  <2> SUFFICES ASSUME PolicyInit, stage = "parse" PROVE words \in Seq(Words)
    BY DEF ParseInv
  <2>1. PICK n \in 0 .. MaxWords : words \in [1 .. n -> Words]
    BY DEF PolicyInit
  <2>2. n \in Nat
    BY WordAssumption
  <2> QED
    BY <2>1, <2>2, SeqDef
<1>2. ParseInv /\ [PolicyNext]_policyVars => ParseInv'
  BY DEF ParseInv, PolicyNext, Save, Launch, policyVars
<1>3. ParseInv => ResumeIdExact
  BY IdExact DEF ParseInv, ResumeIdExact
<1> QED
  BY <1>1, <1>2, <1>3, PTL DEF PolicySpec

\* Both halves keep their types, whichever of them a behaviour goes through.
THEOREM PanesTypes == PanesSpec => []PanesTypeOK
<1>1. PanesInit => IInv /\ PolicyInv
  BY CheckBegins, PolicyBegins DEF PanesInit, Init
<1>2. IInv /\ PolicyInv /\ [PanesNext]_<<vars, policyVars>> => IInv' /\ PolicyInv'
  BY ChecksKeep, PolicyKeeps DEF PanesNext
<1>3. IInv => InspectTypeOK
  BY DEF IInv, Holds, Typed, InspectTypeOK, KernelInv, WasInv, Memory, Looking, Argv
<1>4. PolicyInv => PolicyTypeOK
  BY DEF PolicyInv, PolicyTypeOK, SavedCommand, Panes
<1> QED
  BY <1>1, <1>2, <1>3, <1>4, PTL DEF PanesSpec, PanesTypeOK
=============================================================================
