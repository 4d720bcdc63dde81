------------------------------ MODULE Autosave ------------------------------
(***************************************************************************)
(* How the snapshots of one session come to be: lifecycle events, the      *)
(* timer and manual saves compete for the operation lock; an event that    *)
(* follows a save too closely is debounced unless it announces an agent    *)
(* session the snapshot lacks; a save looks at the host, merges the agents *)
(* of the previous snapshot into panes that are back at a shell, and       *)
(* writes a history file, latest.json and last-save.json, in that order.   *)
(*                                                                         *)
(* Restores are the module Restore's subject: here auto_save is on,        *)
(* auto_restore off, and there is no unresolved evidence.                  *)
(***************************************************************************)
EXTENDS Integers, FiniteSets, DurableFile

CONSTANTS
    Invocations,    \* slots for plugin processes
    Kinds,          \* the operations that are started besides the events' hooks
    Panes,          \* panes of the session
    Sessions,       \* agent sessions herdr may report
    Places,         \* directories a pane may be in
    AtStart,        \* what runs in the panes when the first hook is started
    Debounce,       \* debounce_ms
    Retention,      \* retention
    MaxTime,        \* bound: the clock shows 0 .. MaxTime
    MaxChanges,     \* bound: changes of the host
    MaxSaves,       \* bound: saves that replace latest.json
    NoFile,         \* the content of a file that does not exist
    None            \* no process, no session

ASSUME RetentionAssumption == Retention \in Nat \ {0}    \* Config::validate

Agents == {"detected", "status"}            \* pane.agent_detected, pane.agent_status_changed
Events == Agents \union {"other"}           \* every other lifecycle event
Automatic == Events \union {"timer"}
ASSUME KindAssumption == Kinds \subseteq {"timer", "save"} /\ AtStart \subseteq {"shell", "agent"}
ASSUME ProcessAssumption == None \notin Invocations
ASSUME SessionAssumption == None \notin Sessions /\ Sessions \intersect {"program", "shell"} = {}

\* What capture makes of a pane: an agent session, another command, or a shell.
Commands == Sessions \union {"program", "shell"}
Saved == [Panes -> [command : Commands, place : Places]]
\* What host.snapshot tells of a pane.
Views == [session : Sessions \union {None}, place : Places]

\* What latest.json and last-save.json hold; n counts the saves.
Snapshots == [n : Nat, ms : 0 .. MaxTime, snap : Saved]
Stamps == [n : Nat, gen : Nat, ms : 0 .. MaxTime]
ASSUME FileAssumption == MaxTime \in Nat /\ NoFile \notin Snapshots /\ NoFile \notin Stamps

VARIABLES
    pc, mem, lock,      \* processes and operation.lock
    host,               \* the panes: what runs, where, the session herdr reports, and
                        \* the one the arguments of the agent name
    gen,                \* the server's generation
    clock,              \* now_ms
    notes,              \* notifications whose hook has not started
    changes,            \* bound on the changes of the host
    latest,             \* latest.json
    lastSave,           \* last-save.json
    archive,            \* the files of snapshots/
    unsynced,           \* those whose creation or removal is not durable
    saves,              \* saves that replaced latest.json
    lost                \* history: the hook of an event failed

local == <<pc, mem, lock>>
files == <<latest, lastSave, archive, unsynced, saves>>
world == <<host, gen, clock, notes, changes>>
vars == <<local, files, world, lost>>

Labels == {"idle", "start", "waiting", "dispatch", "check", "save", "look", "read",
           "archive", "archiveSync", "latest", "latestSync", "prune", "pruneSync",
           "stamp", "stampSync"}
Blank == [kind |-> None, pane |-> None, contended |-> FALSE, gen |-> 0, again |-> FALSE,
          view |-> None, snap |-> None, raw |-> None, ms |-> 0]

TypeOK ==
    /\ pc \in [Invocations -> Labels]
    /\ \A i \in Invocations :
         /\ mem[i].kind \in Automatic \union {"save", None}
         /\ mem[i].view \in [Panes -> Views] \union {None}
         /\ mem[i].snap \in Saved \union {None} /\ mem[i].raw \in Saved \union {None}
    /\ lock \in Invocations \union {None}
    /\ host \in [Panes -> [run : {"shell", "program", "agent"}, place : Places,
                           session : Sessions \union {None}, named : Sessions \union {None}]]
    /\ clock \in 0 .. MaxTime
    /\ notes \subseteq [on : Events, pane : Panes]
    /\ latest \in FileOf(Snapshots \union {NoFile}) /\ lastSave \in FileOf(Stamps \union {NoFile})
    /\ \A f \in archive : f.ms \in 0 .. MaxTime /\ f.snap \in Saved
    /\ lost \in BOOLEAN

Init ==
    /\ pc = [i \in Invocations |-> "idle"]
    /\ mem = [i \in Invocations |-> Blank]
    /\ lock = None
    /\ host \in [Panes -> {h \in [run : AtStart, place : Places, session : Sessions \union {None},
                                  named : {None}] :
                              h.run = "agent" => h.session # None}]
    /\ notes = {[on |-> "status", pane |-> p] : p \in {q \in Panes : host[q].run = "agent"}}
    /\ gen = 1 /\ clock = 0 /\ changes = 0
    /\ latest = Stored(NoFile) /\ lastSave = Stored(NoFile)
    /\ archive = {} /\ unsynced = {} /\ saves = 0
    /\ lost = FALSE

-----------------------------------------------------------------------------
(* Helpers *)

Goto(i, l) == pc' = [pc EXCEPT ![i] = l] /\ UNCHANGED <<mem, lock>>

Exit(i) ==
    /\ pc' = [pc EXCEPT ![i] = "idle"]
    /\ mem' = [mem EXCEPT ![i] = Blank]
    /\ lock' = IF lock = i THEN None ELSE lock

\* The clock may have been set back: saturating_sub.
Elapsed(since) == IF clock > since THEN clock - since ELSE 0

\* Does a save of this generation lie within debounce_ms?
RecentSave ==
    /\ lastSave.now # NoFile
    /\ lastSave.now.gen = gen
    /\ Elapsed(lastSave.now.ms) < Debounce

\* Mutant: only the time since the last save counts, whatever the event announces.
NeverNeedsCapture(p) == FALSE

\* agent_session_needs_capture for a status event: herdr reports a session of an
\* agent for the pane, and latest.json has another command or directory there.
NeedsCapture(p) ==
    /\ host[p].run = "agent" \/ host[p].session # None
    /\ \/ host[p].session = None
       \/ latest.now = NoFile
       \/ latest.now.snap[p] # [command |-> host[p].session, place |-> host[p].place]

\* Mutant: an empty pane takes over the agent whatever directory it is in.
RetainAnywhere(snap, previous) ==
    [p \in Panes |->
        IF snap[p].command = "shell" /\ previous[p].command \in Sessions
        THEN [snap[p] EXCEPT !.command = previous[p].command] ELSE snap[p]]

\* retain_autosaved_agents: a pane at its shell keeps the agent it had there.
Retained(snap, previous) ==
    [p \in Panes |->
        IF snap[p].command = "shell" /\ previous[p].command \in Sessions
           /\ previous[p].place = snap[p].place
        THEN previous[p] ELSE snap[p]]

-----------------------------------------------------------------------------
(* The start of a process and its lock *)

Start(i, k) ==
    /\ pc[i] = "idle"
    /\ pc' = [pc EXCEPT ![i] = "start"]
    /\ mem' = [mem EXCEPT ![i] = [Blank EXCEPT !.kind = k]]
    /\ UNCHANGED <<lock, files, world, lost>>

\* herdr runs the hook of a notification.
StartEvent(i, n) ==
    /\ pc[i] = "idle"
    /\ notes' = notes \ {n}
    /\ pc' = [pc EXCEPT ![i] = "start"]
    /\ mem' = [mem EXCEPT ![i] = [Blank EXCEPT !.kind = n.on, !.pane = n.pane]]
    /\ UNCHANGED <<lock, files, host, gen, clock, changes, lost>>

Acquire(i) ==
    /\ pc[i] \in {"start", "waiting"}
    /\ lock = None
    /\ lock' = i
    /\ pc' = [pc EXCEPT ![i] = IF mem[i].kind \in Events THEN "dispatch" ELSE "save"]
    /\ mem' = [mem EXCEPT ![i].contended = (pc[i] = "waiting")]
    /\ UNCHANGED <<files, world, lost>>

\* A lifecycle event waits; everyone else gives up.
Contend(i) ==
    /\ pc[i] = "start"
    /\ lock # None
    /\ IF mem[i].kind \in Events THEN Goto(i, "waiting") ELSE Exit(i)
    /\ UNCHANGED <<files, world, lost>>

-----------------------------------------------------------------------------
(* Action::Event: debounced or not *)

\* May the event be debounced?  One that waited for the lock may not, unless it
\* announces a status whose session can be looked up.
Debounced(i) == RecentSave /\ (mem[i].contended => mem[i].kind = "status")

DispatchSave(i) ==
    /\ pc[i] = "dispatch"
    /\ ~Debounced(i) \/ mem[i].kind = "detected"
    /\ Goto(i, "save")
    /\ UNCHANGED <<files, world, lost>>

DispatchCheck(i) ==
    /\ pc[i] = "dispatch"
    /\ Debounced(i) /\ mem[i].kind = "status"
    /\ Goto(i, "check")
    /\ UNCHANGED <<files, world, lost>>

DispatchSkip(i) ==
    /\ pc[i] = "dispatch"
    /\ Debounced(i) /\ mem[i].kind = "other"
    /\ Exit(i)
    /\ UNCHANGED <<files, world, lost>>

\* The pane is looked up on the host, the session in latest.json.
Check(i) ==
    /\ pc[i] = "check"
    /\ IF NeedsCapture(mem[i].pane) THEN Goto(i, "save") ELSE Exit(i)
    /\ UNCHANGED <<files, world, lost>>

-----------------------------------------------------------------------------
(* save: capture *)

SaveBegin(i) ==
    /\ pc[i] = "save"
    /\ mem' = [mem EXCEPT ![i].gen = gen]
    /\ pc' = [pc EXCEPT ![i] = "look"]
    /\ UNCHANGED <<lock, files, world, lost>>

\* host.snapshot: the sessions and directories herdr reports, all at once.
Look(i) ==
    /\ pc[i] = "look"
    /\ mem' = [mem EXCEPT ![i].view =
                [p \in Panes |-> [session |-> host[p].session, place |-> host[p].place]]]
    /\ pc' = [pc EXCEPT ![i] = "read"]
    /\ UNCHANGED <<lock, files, world, lost>>

\* Mutant: an agent whose session is not reported yet is saved as the program it is.
CommandGuessed(i, p) ==
    IF host[p].run = "agent" /\ mem[i].view[p].session # None
    THEN mem[i].view[p].session ELSE host[p].run

\* Mutant: the session herdr reported counts, whatever the arguments name.
NoConflict(i, p) == FALSE

\* detected_session_conflict: the agent that was just detected names a session, and herdr
\* reported another one, kept from an agent that ran before.
Conflict(i, p) ==
    /\ mem[i].kind = "detected" /\ mem[i].pane = p
    /\ host[p].named # None
    /\ mem[i].view[p].session \notin {None, host[p].named}

\* What the processes of a pane are captured as, given the session reported before: None
\* for an agent whose session has still to be reported.
CommandOf(i, p) ==
    IF host[p].run # "agent" THEN host[p].run
    ELSE IF Conflict(i, p) THEN None
    ELSE IF mem[i].view[p].session # None THEN mem[i].view[p].session ELSE host[p].named

\* A pane at its shell is where herdr reported it, a program where its process is.
PlaceOf(i, p) == IF host[p].run = "shell" THEN mem[i].view[p].place ELSE host[p].place

\* The processes are read, the agents merged, and the server is still the same.
Read(i) ==
    LET raw == [p \in Panes |-> [command |-> CommandOf(i, p), place |-> PlaceOf(i, p)]]
        merged == IF mem[i].kind \in Automatic /\ latest.now # NoFile
                  THEN Retained(raw, latest.now.snap) ELSE raw
    IN
    /\ pc[i] = "read"
    /\ \A p \in Panes : raw[p].command # None
    /\ gen = mem[i].gen
    /\ mem' = [mem EXCEPT ![i].view = None, ![i].raw = raw,
                                ![i].snap = merged, ![i].ms = clock]
    /\ pc' = [pc EXCEPT ![i] = "archive"]
    /\ UNCHANGED <<lock, files, world, lost>>

\* Once the session an agent has to wait for is reported, capture starts again, once.
ReadAgain(i) ==
    /\ pc[i] = "read"
    /\ ~mem[i].again
    /\ \E p \in Panes :
         /\ CommandOf(i, p) = None /\ host[p].session # None
         /\ Conflict(i, p) => host[p].session = host[p].named
    /\ mem' = [mem EXCEPT ![i].again = TRUE, ![i].view = None]
    /\ pc' = [pc EXCEPT ![i] = "look"]
    /\ UNCHANGED <<lock, files, world, lost>>

-----------------------------------------------------------------------------
(* Store::save and last-save.json *)

\* Mutant: the current snapshot is replaced before its history file is written.
ArchiveLater(i) ==
    /\ pc[i] = "archive"
    /\ Goto(i, "latest")
    /\ UNCHANGED <<files, world, lost>>

\* The file is named by its time and content: the same snapshot replaces itself.
Archive(i) ==
    /\ pc[i] = "archive"
    /\ LET f == [ms |-> mem[i].ms, snap |-> mem[i].snap] IN
         /\ archive' = archive \union {f}
         /\ unsynced' = IF f \in archive THEN unsynced ELSE unsynced \union {f}
    /\ Goto(i, "archiveSync")
    /\ UNCHANGED <<latest, lastSave, saves, world, lost>>

ArchiveSync(i) ==
    /\ pc[i] = "archiveSync"
    /\ unsynced' = {}
    /\ Goto(i, "latest")
    /\ UNCHANGED <<latest, lastSave, archive, saves, world, lost>>

Latest(i) ==
    /\ pc[i] = "latest"
    /\ saves < MaxSaves
    /\ saves' = saves + 1
    /\ latest' = Renamed(latest, [n |-> saves', ms |-> mem[i].ms, snap |-> mem[i].snap])
    /\ Goto(i, "latestSync")
    /\ UNCHANGED <<lastSave, archive, unsynced, world, lost>>

\* Mutant: the directory of latest.json is not synced.
LatestUnsynced(i) ==
    /\ pc[i] = "latestSync"
    /\ Goto(i, "prune")
    /\ UNCHANGED <<files, world, lost>>

LatestSync(i) ==
    /\ pc[i] = "latestSync"
    /\ latest' = Synced(latest)
    /\ pc' = [pc EXCEPT ![i] = "prune"]
    /\ mem' = [mem EXCEPT ![i].raw = None, ![i].snap = None, ![i].ms = 0]
    /\ UNCHANGED <<lock, lastSave, archive, unsynced, saves, world, lost>>

\* Mutant: the list is taken from its other end.
PruneNewest(i) ==
    /\ pc[i] = "prune"
    /\ Cardinality(archive) > Retention
    /\ \E f \in archive :
         /\ \A other \in archive : f.ms >= other.ms
         /\ archive' = archive \ {f}
         /\ unsynced' = unsynced \union {f}
    /\ UNCHANGED <<local, latest, lastSave, saves, world, lost>>

\* The oldest files by name go, one after the other; a tie of the clock is broken by
\* the digest in the name.
Prune(i) ==
    /\ pc[i] = "prune"
    /\ Cardinality(archive) > Retention
    /\ \E f \in archive :
         /\ \A other \in archive : f.ms <= other.ms
         /\ archive' = archive \ {f}
         /\ unsynced' = unsynced \union {f}
    /\ UNCHANGED <<local, latest, lastSave, saves, world, lost>>

Pruned(i) ==
    /\ pc[i] = "prune"
    /\ Cardinality(archive) <= Retention
    /\ Goto(i, "pruneSync")
    /\ UNCHANGED <<files, world, lost>>

PruneSync(i) ==
    /\ pc[i] = "pruneSync"
    /\ unsynced' = {}
    /\ Goto(i, "stamp")
    /\ UNCHANGED <<latest, lastSave, archive, saves, world, lost>>

Stamp(i) ==
    /\ pc[i] = "stamp"
    /\ lastSave' = Renamed(lastSave, [n |-> saves, gen |-> mem[i].gen, ms |-> clock])
    /\ Goto(i, "stampSync")
    /\ UNCHANGED <<latest, archive, unsynced, saves, world, lost>>

StampSync(i) ==
    /\ pc[i] = "stampSync"
    /\ lastSave' = Synced(lastSave)
    /\ Exit(i)
    /\ UNCHANGED <<latest, archive, unsynced, saves, world, lost>>

-----------------------------------------------------------------------------
(* Failures *)

\* Nothing runs in the pane any more; the session herdr reported stays.
AtShell(p) == [host[p] EXCEPT !.run = "shell", !.named = None]

\* A process fails or is killed: a deadline passes, the session of an agent is not
\* reported, the server changes, an I/O operation fails.  The files stay as they are.
Fail(i) ==
    /\ pc[i] # "idle"
    /\ lost' = (lost \/ mem[i].kind \in Events)
    /\ Exit(i)
    /\ UNCHANGED <<files, world>>

\* Power is lost; the panes are at their shells when the machine is back.
PowerCut ==
    /\ changes < MaxChanges
    /\ changes' = changes + 1
    /\ pc' = [i \in Invocations |-> "idle"]
    /\ mem' = [i \in Invocations |-> Blank]
    /\ lock' = None
    /\ \E v \in latest.after, s \in lastSave.after, kept \in SUBSET unsynced :
         /\ latest' = Stored(v)
         /\ lastSave' = Stored(s)
         /\ archive' = (archive \ unsynced) \union kept
    /\ unsynced' = {}
    /\ gen' = gen + 1
    /\ host' = [p \in Panes |-> AtShell(p)]
    /\ notes' = {}
    /\ lost' = TRUE
    /\ UNCHANGED <<clock, saves>>

-----------------------------------------------------------------------------
(* The host: panes change and are announced *)

Change(p, pane, announced) ==
    /\ changes < MaxChanges
    /\ changes' = changes + 1
    /\ host' = [host EXCEPT ![p] = pane]
    /\ notes' = notes \union {[on |-> e, pane |-> p] : e \in announced}
    /\ UNCHANGED <<local, files, gen, clock, lost>>

\* An agent is started, with a session its arguments name or none; herdr may still report
\* the session of one that ran before.
AgentStarts(p) ==
    /\ host[p].run # "agent"
    /\ \E s \in Sessions \union {None} :
         Change(p, [host[p] EXCEPT !.run = "agent", !.named = s], {"detected"})

\* The session of the agent is reported, or another one.
SessionReported(p, s) ==
    /\ host[p].run = "agent" /\ host[p].session # s
    /\ Change(p, [host[p] EXCEPT !.session = s], {"status"})

\* The agent exits: herdr keeps the session, and announces the exit or does not yet.
AgentExits(p) ==
    /\ host[p].run = "agent"
    /\ \E announced \in {{}, {"status"}} : Change(p, AtShell(p), announced)

ProgramRuns(p) ==
    /\ host[p].run = "shell"
    /\ Change(p, [host[p] EXCEPT !.run = "program"], {"other"})

ProgramExits(p) ==
    /\ host[p].run = "program"
    /\ Change(p, [host[p] EXCEPT !.run = "shell"], {})

DirectoryChanges(p, d) ==
    /\ host[p].run = "shell" /\ host[p].place # d
    /\ Change(p, [host[p] EXCEPT !.place = d], {})

\* Another server takes over; its panes are at their shells, and the sessions herdr
\* reported before are reported still.
Restart ==
    /\ changes < MaxChanges
    /\ changes' = changes + 1
    /\ gen' = gen + 1
    /\ host' = [p \in Panes |-> AtShell(p)]
    /\ UNCHANGED <<local, files, clock, notes, lost>>

\* Time passes, or the clock is set back.
Tick ==
    /\ clock' \in 0 .. MaxTime \ {clock}
    /\ UNCHANGED <<local, files, host, gen, notes, changes, lost>>

-----------------------------------------------------------------------------
Step(i) ==
    \/ Acquire(i) \/ Contend(i)
    \/ DispatchSave(i) \/ DispatchCheck(i) \/ DispatchSkip(i) \/ Check(i)
    \/ SaveBegin(i) \/ Look(i) \/ Read(i) \/ ReadAgain(i)
    \/ Archive(i) \/ ArchiveSync(i) \/ Latest(i) \/ LatestSync(i)
    \/ Prune(i) \/ Pruned(i) \/ PruneSync(i) \/ Stamp(i) \/ StampSync(i)

Host ==
    \/ \E p \in Panes :
         \/ AgentStarts(p) \/ AgentExits(p) \/ ProgramRuns(p) \/ ProgramExits(p)
         \/ \E s \in Sessions : SessionReported(p, s)
         \/ \E d \in Places : DirectoryChanges(p, d)
    \/ Restart \/ Tick

Next ==
    \/ \E i \in Invocations :
         \/ Step(i) \/ Fail(i)
         \/ \E k \in Kinds : Start(i, k)
         \/ \E n \in notes : StartEvent(i, n)
    \/ Host \/ PowerCut

Spec == Init /\ [][Next]_vars

-----------------------------------------------------------------------------
(* Safety *)

\* "Agent detection and changed session IDs bypass debounce" (README.md:253): when every
\* notification was handled and no hook failed, latest.json has the session herdr reports
\* for each pane in which an agent runs, however the events raced with saves, with each
\* other and with the debounce (app::run, agent_session_needs_capture).
SessionsAreSaved ==
    notes = {} /\ ~lost /\ (\A i \in Invocations : pc[i] = "idle") =>
        \A p \in Panes : host[p].run = "agent" /\ host[p].session # None =>
            latest.now # NoFile /\ latest.now.snap[p].command = host[p].session

\* A debounce rests on a snapshot that exists: whatever a power cut leaves behind,
\* last-save.json is not ahead of latest.json (app::save, store::atomic_write).
LastSaveNotAhead ==
    \A s \in lastSave.after \ {NoFile}, v \in latest.after : v # NoFile /\ s.n <= v.n

\* The newest snapshot is in the history: whatever version of latest.json a power cut
\* leaves, its own history file is durable, written before it and not pruned after it.
\* Retention files no older than it alone can push it out, which takes a clock that was
\* set back or stood still between the saves (Store::save: history first, prune last).
LatestInHistory ==
    \A v \in latest.after \ {NoFile} :
        \/ [ms |-> v.ms, snap |-> v.snap] \in archive \ unsynced
        \/ Cardinality({f \in archive \ unsynced : f.ms >= v.ms}) >= Retention

\* The capture an announced agent leads to never takes over a session herdr kept from an
\* agent before it: what it saves for the pane is what the arguments name, if they name
\* one, however herdr's report and the process change meanwhile
\* (detected_session_conflict, command_with_metadata_retry).
DetectedAsNamed ==
    [][\A i \in Invocations, p \in Panes :
         /\ pc[i] = "read" /\ pc'[i] = "archive"
         /\ mem[i].kind = "detected" /\ mem[i].pane = p
         /\ host[p].run = "agent" /\ host[p].named # None
         => mem'[i].raw[p].command = host[p].named]_vars

\* A session enters latest.json from a running agent alone; it stays there only through
\* automatic saves of a pane at its shell in the same directory, whatever else is saved in
\* between (retain_autosaved_agents and the lock it runs under).
SessionsKeptOrCaptured ==
    [][saves' # saves =>
         \A p \in Panes : latest'.now.snap[p].command \in Sessions =>
             \/ mem[lock].raw[p].command = latest'.now.snap[p].command
             \/ /\ mem[lock].kind \in Automatic /\ mem[lock].raw[p].command = "shell"
                /\ latest.now # NoFile /\ latest.now.snap[p] = latest'.now.snap[p]]_vars
=============================================================================
