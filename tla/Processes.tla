----------------------------- MODULE Processes -----------------------------
(***************************************************************************)
(* The processes of one pane as the kernel keeps them, changing at any     *)
(* moment, and the reads that platform.rs, platform/linux.rs and           *)
(* platform/macos.rs make of them: one process, or a table of all, which   *)
(* is read process by process and is never the state of one moment.        *)
(***************************************************************************)
EXTENDS Integers, FiniteSets

CONSTANTS
    Pids,           \* process numbers, reused once their process has exited
    Shell,          \* the shell of the pane
    Main, Threads,  \* threads of the shell, Main lives as long as the shell
    Images,         \* executables with their arguments; "shell" is a supported shell
    Scenes,         \* what may run when a check begins: [procs, foreground]
    MaxChanges,     \* bound: changes of the processes during the checks
    None            \* no process, no answer

ASSUME ProcessAssumption ==
    /\ Pids \subseteq Nat \ {0} /\ Shell \in Pids
    /\ Main \in Threads
    /\ "shell" \in Images
    /\ MaxChanges \in Nat

Nobody == 0         \* the parent of an orphan: init is not the pane's

Proc == [start : 0 .. MaxChanges, parent : Pids \union {Nobody}, group : Pids,
         image : Images, thread : Threads]

\* What runs in a scene started before the checks do, and None is no process, no image.
ASSUME SceneAssumption ==
    /\ \A s \in Scenes :
         /\ s.procs \in [Pids -> Proc \union {None}] /\ s.foreground \in Pids
         /\ \A p \in Pids : s.procs[p] # None => s.procs[p].start = 0
    /\ None \notin Proc \union Images

\* What reads return of a process and of the terminal, if it is there.
Identity == [pid : Pids, start : Nat, parent : Pids \union {Nobody}, group : Pids]
Info == [group : Pids, pids : SUBSET Pids]
ASSUME ReadAssumption == None \notin Identity \union Info

VARIABLES
    procs,          \* the process with each number
    threads,        \* the threads the shell has
    foreground,     \* the foreground process group of the terminal
    changes         \* changes so far; also the clock that start times are read from

kernel == <<procs, threads, foreground, changes>>

KernelTypeOK ==
    /\ procs \in [Pids -> Proc \union {None}]
    /\ threads \subseteq Threads /\ Main \in threads
    /\ foreground \in Pids
    /\ changes \in 0 .. MaxChanges

Alive == {p \in Pids : procs[p] # None}
Children(p) == {q \in Alive : procs[q].parent = p}

KernelInit ==
    /\ \E s \in Scenes : procs = s.procs /\ foreground = s.foreground
    /\ threads \in {ts \in SUBSET Threads :
                     {Main} \union {procs[c].thread : c \in Children(Shell)} \subseteq ts}
    /\ changes = 0

-----------------------------------------------------------------------------
(* What the processes do *)

\* The shell puts a job into a group of its own or into that of another job, as the
\* members of a pipeline are, or keeps it in its own group; a program keeps its group.
Fork(p, q) ==
    /\ p \in Alive /\ q \in Pids \ Alive
    /\ \E image \in Images,
          group \in {procs[p].group} \union
                    (IF p = Shell THEN {q} \union {procs[c].group : c \in Children(p)} ELSE {}),
          thread \in IF p = Shell THEN threads ELSE {Main} :
         procs' = [procs EXCEPT ![q] =
           [start |-> changes + 1, parent |-> p, group |-> group, image |-> image, thread |-> thread]]
    /\ UNCHANGED <<threads, foreground>>

Exec(p) ==
    /\ p \in Alive
    /\ \E image \in Images \ {procs[p].image} : procs' = [procs EXCEPT ![p].image = image]
    /\ UNCHANGED <<threads, foreground>>

\* The number is free again, the children are orphans.
ProcessExit(p) ==
    /\ p \in Alive
    /\ procs' = [q \in Pids |->
         CASE q = p -> None
           [] q \in Children(p) \ {p} -> [procs[q] EXCEPT !.parent = Nobody]
           [] OTHER -> procs[q]]
    /\ UNCHANGED <<threads, foreground>>

\* The children of a thread that ends go to another thread of the shell.  A thread that
\* begins during a check is left out: it has no number a thread had before, and its
\* children are new.
ThreadEnd(t) ==
    /\ t \in threads \ {Main}
    /\ threads' = threads \ {t}
    /\ procs' = [q \in Pids |-> IF q \in Children(Shell) /\ procs[q].thread = t
                                THEN [procs[q] EXCEPT !.thread = Main] ELSE procs[q]]
    /\ UNCHANGED foreground

SetForeground(g) ==
    /\ g \in {procs[c].group : c \in Children(Shell) \union ({Shell} \intersect Alive)}
    /\ foreground' = g /\ g # foreground
    /\ UNCHANGED <<procs, threads>>

Change ==
    /\ changes < MaxChanges
    /\ changes' = changes + 1
    /\ \/ \E p \in Pids : Exec(p) \/ ProcessExit(p) \/ SetForeground(p) \/ \E q \in Pids : Fork(p, q)
       \/ \E t \in Threads : ThreadEnd(t)

-----------------------------------------------------------------------------
(* What one read returns *)

\* process(pid): what identifies a process and places it, not what it executes.
Process(p) ==
    IF p \in Alive
    THEN [pid |-> p, start |-> procs[p].start, parent |-> procs[p].parent, group |-> procs[p].group]
    ELSE None

\* is_shell_process: the name of the executable.
IsShell(p) == p \in Alive /\ procs[p].image = "shell"

\* Herdr's pane.process_info: the foreground group and the processes in it.
ProcessInfo == [group |-> foreground, pids |-> {q \in Alive : procs[q].group = foreground}]

\* process_table of Linux goes through all of /proc as it is while it is read, that of
\* macOS through the numbers it listed first.
LinuxTable == Pids
MacTable == Alive

\* The children of a shell by the thread that made them, and of macOS all at once.
ChildrenOf(t) == {q \in Children(Shell) : procs[q].thread = t}
=============================================================================
