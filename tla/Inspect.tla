------------------------------ MODULE Inspect ------------------------------
(***************************************************************************)
(* The two questions the plugin asks about the processes of a pane while   *)
(* they go on changing.  capture_once: which one program runs in the       *)
(* foreground, so that its arguments may be saved?  idle_shell: is the     *)
(* shell idle, so that a command may be sent to it?  Every read of the     *)
(* processes is a step; the answers must hold although no two reads see    *)
(* the same moment.                                                        *)
(***************************************************************************)
EXTENDS Processes

Labels == {"start", "table", "info", "shell", "command", "argvBefore", "argvRead", "argvAfter",
           "exe", "ident", "childrenBefore", "childrenList", "childrenRead", "childrenMac",
           "childrenAfter", "childrenTable", "exeAgain", "end"}

VARIABLES
    pc,             \* what is read next
    task,           \* "capture" or "idle"
    mem,            \* what has been read
    was,            \* history: the processes when the check began
    led, read       \* history: the leader that herdr named, the process whose arguments were read

vars == <<kernel, pc, task, mem, was, led, read>>

\* The answers, and those that are no image.
ASSUME AnswerAssumption == {"idle", "nothing"} \intersect Images = {} /\ None \notin {"idle", "nothing"}

Blank == [table |-> <<>>, unread |-> {}, info |-> None, of |-> None, image |-> None, verdict |-> None]

InspectTypeOK ==
    /\ KernelTypeOK
    /\ pc \in Labels
    /\ task \in {"capture", "idle"}
    /\ mem.verdict \in Images \union {None, "idle", "nothing"}
    /\ was \in [Pids -> Proc \union {None}]
    /\ pc \in {"argvBefore", "argvRead", "argvAfter"} => mem.of # None
    /\ mem.verdict # None => pc = "end"

Init ==
    /\ KernelInit
    /\ pc = "start" /\ task \in {"capture", "idle"}
    /\ mem = Blank
    /\ was = procs /\ led = None /\ read = None

Goto(l) == pc' = l /\ UNCHANGED <<kernel, task, was>>
Unseen == UNCHANGED <<led, read>>
Keep == UNCHANGED mem
Answer(v) == Goto("end") /\ mem' = [Blank EXCEPT !.verdict = v, !.of = mem.of]

\* Any read may fail, and every failed comparison is an error: no answer.
Fail == pc \notin {"start", "end"} /\ Goto("end") /\ mem' = Blank

-----------------------------------------------------------------------------
(* process_table, read by both *)

TableStart(l) ==
    /\ Goto(l)
    /\ \E numbers \in {LinuxTable, MacTable} :
         mem' = [mem EXCEPT !.table = [p \in Pids |-> None], !.unread = numbers]

\* The numbers come in the order they are listed in: of macOS that may be any.
TableRead ==
    /\ pc \in {"table", "childrenTable"}
    /\ \E p \in mem.unread :
         mem' = [mem EXCEPT !.table[p] = Process(p), !.unread = @ \ {p}]
    /\ Goto(pc)

-----------------------------------------------------------------------------
(* capture_once, one pane *)

CaptureStart == pc = "start" /\ task = "capture" /\ TableStart("table")

CaptureInfo ==
    /\ pc = "table" /\ mem.unread = {}
    /\ mem' = [mem EXCEPT !.info = ProcessInfo]
    /\ led' = Process(foreground) /\ UNCHANGED read
    /\ Goto("shell")

\* The shell is still the one in the table.
CaptureShell ==
    /\ pc = "shell"
    /\ mem.table[Shell] # None /\ mem.info.pids # {}
    /\ Process(Shell) = mem.table[Shell]
    /\ Goto("command") /\ Keep

AtPrompt == mem.info.group = mem.table[Shell].group /\ mem.info.pids \subseteq {Shell}

\* The shell itself is in the foreground: the pane has no command.
CaptureNothing ==
    /\ pc = "command"
    /\ IsShell(Shell) /\ AtPrompt
    /\ Answer("nothing")

\* q is below l: every set of processes that has q and is closed under parents has l.
Below(table, q, l) ==
    \A set \in SUBSET Pids :
      (q \in set /\ \A p \in set : table[p] # None /\ table[p].parent \in Pids => table[p].parent \in set)
        => l \in set

\* Mutant: the members of the group are not looked at.
ForegroundUnchecked(table, l) == l \in Pids

\* validate_foreground_tree: every other member of the group descends from its leader.
ForegroundTree(table, l) ==
    \A q \in Pids \ {l} : table[q] # None /\ table[q].group = table[l].group => Below(table, q, l)

\* Mutant: a leader that is not in the table is accepted.
CaptureUnknown ==
    /\ pc = "command"
    /\ ~(IsShell(Shell) /\ AtPrompt)
    /\ LET l == mem.info.group
       IN /\ l \in mem.info.pids
          /\ mem.table[l] # None => ForegroundTree(mem.table, l)
          /\ mem' = [Blank EXCEPT !.of = mem.table[l]]
    /\ Goto("argvBefore")

\* The leader of the foreground group is identified in the table.
CaptureLeader ==
    /\ pc = "command"
    /\ ~(IsShell(Shell) /\ AtPrompt)
    /\ LET l == mem.info.group
       IN /\ l \in mem.info.pids /\ mem.table[l] # None
          /\ ForegroundTree(mem.table, l)
          /\ mem' = [Blank EXCEPT !.of = mem.table[l]]
    /\ Goto("argvBefore")

-----------------------------------------------------------------------------
(* argv_and_cwd, read by both: the identity is compared before and after *)

ArgvBefore ==
    /\ pc = "argvBefore"
    /\ Process(mem.of.pid) = mem.of
    /\ Goto("argvRead") /\ Keep

ArgvRead ==
    /\ pc = "argvRead"
    /\ mem.of.pid \in Alive
    /\ mem' = [mem EXCEPT !.image = procs[mem.of.pid].image]
    /\ read' = Process(mem.of.pid) /\ UNCHANGED led
    /\ Goto("argvAfter")

\* Mutant: the identity is not compared again.
ArgvTrusted ==
    /\ pc = "argvAfter"
    /\ IF task = "capture" THEN Answer(mem.image) ELSE Goto("exeAgain") /\ Keep

ArgvAfter ==
    /\ pc = "argvAfter"
    /\ Process(mem.of.pid) = mem.of
    /\ IF task = "capture" THEN Answer(mem.image) ELSE Goto("exeAgain") /\ Keep

-----------------------------------------------------------------------------
(* idle_shell *)

IdleStart ==
    /\ pc = "start" /\ task = "idle"
    /\ mem' = [mem EXCEPT !.info = ProcessInfo]
    /\ Goto("exe")

IdleExecutable == pc = "exe" /\ IsShell(Shell) /\ Goto("ident") /\ Keep

\* The shell alone is in the foreground.
IdleForeground ==
    /\ pc = "ident"
    /\ Shell \in Alive
    /\ mem.info.group = procs[Shell].group /\ mem.info.pids = {Shell}
    /\ mem' = [Blank EXCEPT !.of = Process(Shell)]
    /\ Goto("childrenBefore")

SameShell == Process(Shell) = mem.of

\* has_children of Linux lists the threads, of macOS asks for the children.
ChildrenBefore ==
    /\ pc = "childrenBefore"
    /\ SameShell
    /\ \/ Goto("childrenList")
       \/ Goto("childrenMac")
    /\ Keep

\* Mutant: only the first thread is asked.
ThreadsMain ==
    /\ pc = "childrenList"
    /\ Shell \in Alive
    /\ mem' = [mem EXCEPT !.unread = {Main}]
    /\ Goto("childrenRead")

ThreadsListed ==
    /\ pc = "childrenList"
    /\ Shell \in Alive
    /\ mem' = [mem EXCEPT !.unread = threads]
    /\ Goto("childrenRead")

\* The child list of one thread; a child anywhere ends the check.
ThreadRead ==
    /\ pc = "childrenRead"
    /\ \E t \in mem.unread \intersect threads :
         /\ ChildrenOf(t) = {}
         /\ mem' = [mem EXCEPT !.unread = @ \ {t}]
    /\ Goto("childrenRead")

\* A thread ended, the lists are not there, or the read failed: the whole table is read.
ChildrenFallback ==
    /\ pc \in {"childrenList", "childrenRead"}
    /\ TableStart("childrenTable")

ChildrenRead ==
    /\ pc = "childrenRead" /\ mem.unread = {}
    /\ Goto("childrenAfter") /\ Keep

\* proc_listchildpids answers for all threads at once.
ChildrenMac ==
    /\ pc = "childrenMac"
    /\ Shell \in Alive /\ Children(Shell) = {}
    /\ Goto("childrenAfter") /\ Keep

ChildrenAfter == pc = "childrenAfter" /\ SameShell /\ Goto("argvBefore") /\ Keep

ChildrenTable ==
    /\ pc = "childrenTable" /\ mem.unread = {}
    /\ mem.table[Shell] = mem.of
    /\ \A p \in Pids : mem.table[p] # None => mem.table[p].parent # Shell
    /\ mem' = [Blank EXCEPT !.of = mem.of]
    /\ Goto("argvBefore")

\* The executable and the arguments are those of a supported interactive shell.
IdleAnswer ==
    /\ pc = "exeAgain"
    /\ mem.image = "shell" /\ IsShell(Shell)
    /\ Answer("idle")

-----------------------------------------------------------------------------

Plain ==
    \/ TableRead \/ Fail
    \/ CaptureStart \/ CaptureShell \/ CaptureNothing \/ CaptureLeader
    \/ ArgvBefore \/ ArgvAfter
    \/ IdleStart \/ IdleExecutable \/ IdleForeground
    \/ ChildrenBefore \/ ThreadsListed \/ ThreadRead \/ ChildrenRead \/ ChildrenFallback
    \/ ChildrenMac \/ ChildrenAfter \/ ChildrenTable \/ IdleAnswer

Step ==
    \/ CaptureInfo \/ ArgvRead
    \/ /\ Unseen
       /\ Plain

\* The processes change while a check runs; what ran before it is the scene.
Meanwhile == pc \notin {"start", "end"} /\ Change /\ Unseen /\ UNCHANGED <<pc, task, mem, was>>

Next == Step \/ Meanwhile

Spec == Init /\ [][Next]_vars

-----------------------------------------------------------------------------
(* Safety *)

\* A process that has been there all the time, in one place.
Steady(p) ==
    /\ p \in Alive /\ was[p] # None
    /\ was[p].start = procs[p].start /\ was[p].parent = procs[p].parent
    /\ was[p].group = procs[p].group

Saved == pc = "end" /\ task = "capture" /\ mem.verdict \in Images

\* The saved arguments are those of one process, which led the foreground group when herdr
\* named it and is still the same: its number was not reused between the table, herdr's
\* answer, the reading of the arguments and the end (capture_once, argv_and_cwd).
SavedFromTheLeader == Saved => led = mem.of /\ read = mem.of /\ Process(mem.of.pid) = mem.of

\* The leader speaks for its group: a process that was in the group all the time, as were
\* its ancestors, is a descendant of the leader; a pipeline is refused, whatever is born
\* and ends while the table is read (validate_foreground_tree).
LeaderSpeaksForGroup ==
    Saved => \A q \in Alive \ {mem.of.pid} :
      /\ procs[q].group = mem.of.group
      /\ \E set \in SUBSET {p \in Pids : Steady(p)} :
           q \in set /\ \A p \in set : procs[p].parent \in set \union {Nobody}
      => Below(procs, q, mem.of.pid)

\* A shell that is found idle has no child that was there all the time, whichever of its
\* threads made it and whichever thread has it now (has_children, idle_shell).
IdleHasNoJobs ==
    pc = "end" /\ mem.verdict = "idle" => \A q \in Children(Shell) : ~Steady(q)
=============================================================================
