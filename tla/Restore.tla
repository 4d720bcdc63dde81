------------------------------ MODULE Restore ------------------------------
(***************************************************************************)
(* One session of herdr-revive: the plugin processes that run against it,  *)
(* the operation lock they share, the files that carry the evidence of a   *)
(* restore, and the herdr server they send pane commands to.               *)
(*                                                                         *)
(* Every plugin process is a short-lived invocation: it loads the          *)
(* configuration, takes the lock, does one operation and exits.  It may be *)
(* killed, or fail on an I/O error, between any two steps; the machine may *)
(* lose power; the server may restart; a request may be answered late or   *)
(* never.  What a save captures and writes is the module Autosave's        *)
(* subject, what a reconstruction does the module Rebuild's: here both are *)
(* the effect they have on restores.                                       *)
(***************************************************************************)
EXTENDS Integers, FiniteSets, DurableFile

CONSTANTS
    Invocations,    \* slots for plugin processes (a slot is used again after an exit)
    Kinds,          \* the operations that are started
    Configs,        \* the settings config.toml is edited to
    Generations,    \* identities of server processes (boot id, pid, start time)
    ManualClaims,   \* digests minted for restores of a generation already claimed
    NumPanes,       \* panes of the snapshot, in the order the plan sorts them
    MaxSaves,       \* saves are counted 1 .. MaxSaves and around again
    NoFile,         \* the content of a file that does not exist
    None            \* no process, no generation, no claim

AllKinds == {"startup", "event", "autosave", "timer", "restore", "save", "rebuild",
             "acknowledge"}
Hooks == {"startup", "event", "autosave", "timer"}
Panes == 1 .. NumPanes
Claims == Generations \union ManualClaims

BootState == {"restoring", "done", "failed"}
Outcome == {"pending", "sending", "applied", "skipped", "failed"}
Attempted == {"sending", "applied", "failed"}      \* a command may have been sent
Journal == [claim : Claims, state : BootState, acknowledged : BOOLEAN,
            entries : [Panes -> Outcome]]

ASSUME ClaimAssumption == Generations \intersect ManualClaims = {} /\ None \notin Claims
Config == [auto_restore : BOOLEAN, auto_save : BOOLEAN]
ASSUME KindAssumption == Kinds \subseteq AllKinds /\ Configs \subseteq Config
ASSUME BoundAssumption == NumPanes \in Nat /\ MaxSaves \in Nat \ {0}
ASSUME FileAssumption == NoFile \notin Journal
ASSUME ProcessAssumption == None \notin Invocations

\* Where a process waits, works, or has changed a file it must still sync.
Working == {"dispatch", "begin", "settle", "openSync", "next", "markSync",
            "revalidate", "probe", "send", "await", "recordSync", "failSync",
            "bootSync", "remove", "removeSync", "acknowledge", "save", "capture",
            "rebuild", "rebuilding"}
Labels == {"idle", "start", "waiting"} \union Working

VARIABLES
    pc,         \* where each process is
    mem,        \* what each process holds in memory
    lock,       \* the process that holds operation.lock, or None
    pending,    \* pending.json
    boots,      \* boots/<claim>.json
    rebuilding, \* rebuild-pending.json exists
    saves,      \* which save latest.json comes from; 0 when there is none
    conf,       \* config.toml
    gen,        \* the generation of the running server
    booted,     \* the generations there have been
    cuts,       \* history: power cuts there have been
    wire,       \* pane.run requests the server has not acted on
    opened,     \* history: journals opened under each claim
    sent,       \* history: commands sent under each claim to each pane
    got,        \* history: commands a shell received
    late,       \* history: automatic commands sent since auto_restore was switched off
    astray      \* history: commands sent to a later server than their boot's

local == <<pc, mem, lock>>
evidence == <<pending, boots>>
server == <<gen, booted, cuts>>
traffic == <<wire, sent, got>>
watch == <<late, astray>>     \* bounded by invariants of their own
vars == <<local, evidence, rebuilding, saves, conf, server, traffic, opened, watch>>

Memory == [kind : AllKinds \union {None}, conf : Config, auto : BOOLEAN,
           missing : BOOLEAN, gen : Generations \union {None},
           claim : Claims \union {None}, pane : 0 .. NumPanes]

NoConfig == [auto_restore |-> FALSE, auto_save |-> FALSE]
Blank == [kind |-> None, conf |-> NoConfig, auto |-> FALSE, missing |-> FALSE,
          gen |-> None, claim |-> None, pane |-> 0]

TypeOK ==
    /\ pc \in [Invocations -> Labels]
    /\ mem \in [Invocations -> Memory]
    /\ lock \in Invocations \union {None}
    /\ pending \in FileOf(Journal \union {NoFile})
    /\ boots \in [Claims -> FileOf(Journal \union {NoFile})]
    /\ rebuilding \in BOOLEAN
    /\ saves \in 0 .. MaxSaves
    /\ conf \in Config
    /\ gen \in Generations
    /\ booted \in SUBSET Generations
    /\ cuts \in Nat
    /\ wire \in SUBSET (Claims \X Panes)
    /\ opened \in [Claims -> Nat]
    /\ sent \in [Claims -> [Panes -> Nat]]
    /\ got \in [Claims -> [Panes -> Nat]]

Init ==
    /\ pc = [i \in Invocations |-> "idle"]
    /\ mem = [i \in Invocations |-> Blank]
    /\ lock = None
    /\ pending = Stored(NoFile)
    /\ boots = [c \in Claims |-> Stored(NoFile)]
    /\ rebuilding = FALSE
    /\ saves = 0
    /\ conf \in Configs
    /\ gen \in Generations
    /\ booted = {gen}
    /\ cuts = 0
    /\ wire = {}
    /\ opened = [c \in Claims |-> 0]
    /\ sent = [c \in Claims |-> [p \in Panes |-> 0]]
    /\ got = [c \in Claims |-> [p \in Panes |-> 0]]
    /\ late = 0 /\ astray = [g \in Generations |-> 0]

-----------------------------------------------------------------------------
(* Helpers *)

\* The process goes on to l.
Goto(i, l) ==
    /\ pc' = [pc EXCEPT ![i] = l]
    /\ UNCHANGED <<mem, lock>>

\* The process exits: the kernel releases its lock.
Exit(i) ==
    /\ pc' = [pc EXCEPT ![i] = "idle"]
    /\ mem' = [mem EXCEPT ![i] = Blank]
    /\ lock' = IF lock = i THEN None ELSE lock

\* No unresolved evidence, of a reconstruction or of a restore.
Clear == ~rebuilding /\ pending.now = NoFile

\* Journal::new with the plan's entries; the entry of a pane that is no candidate is skipped.
NewJournal(c, candidates) ==
    [claim |-> c, state |-> "restoring", acknowledged |-> FALSE,
     entries |-> [p \in Panes |-> IF p \in candidates THEN "pending" ELSE "skipped"]]

WithOutcome(j, p, o) == [j EXCEPT !.entries[p] = o]
Done(j) == [j EXCEPT !.state = "done"]

\* persist_pending up to the rename; the label says what the directory sync completes.
Persist(i, j, l) ==
    /\ pending' = Renamed(pending, j)
    /\ Goto(i, l)
    /\ UNCHANGED boots

\* The directory of pending.json is synced.
PersistSync == pending' = Synced(pending) /\ UNCHANGED boots

\* finish up to the rename of the Done record under boots/.
Archive(i, j) ==
    /\ boots' = [boots EXCEPT ![j.claim] = Renamed(@, j)]
    /\ pc' = [pc EXCEPT ![i] = "bootSync"]
    /\ mem' = [mem EXCEPT ![i].claim = j.claim]
    /\ UNCHANGED <<lock, pending>>

\* What a step that only moves a process leaves alone.
FilesUnchanged == UNCHANGED <<evidence, rebuilding, saves>>
OutsideUnchanged == UNCHANGED <<conf, server>>
HistoryUnchanged == UNCHANGED <<traffic, opened, watch>>

-----------------------------------------------------------------------------
(* The start of a process: configuration first, then the lock *)

\* Is the operation switched off by the configuration?
Disabled(k) ==
    \/ k \in {"startup", "event"} /\ ~conf.auto_save /\ ~conf.auto_restore
    \/ k = "autosave" /\ ~conf.auto_save

\* Mutant: the restore operation has no entry of its own in the dispatch.
NoRestoreLabel(k) == IF k \in Hooks THEN "dispatch" ELSE k

\* Where the operation begins once the lock is held.
FirstLabel(k) ==
    CASE k \in Hooks -> "dispatch"
      [] k = "restore" -> "begin"
      [] OTHER -> k                       \* save, rebuild, acknowledge

Start(i, k) ==
    /\ pc[i] = "idle"
    /\ ~Disabled(k)
    /\ pc' = [pc EXCEPT ![i] = "start"]
    /\ mem' = [mem EXCEPT ![i] = [Blank EXCEPT !.kind = k, !.conf = conf]]
    /\ FilesUnchanged /\ OutsideUnchanged /\ HistoryUnchanged /\ UNCHANGED lock

\* try_lock succeeds, at once or while a contended lifecycle event polls.
Acquire(i) ==
    /\ pc[i] \in {"start", "waiting"}
    /\ lock = None
    /\ lock' = i
    /\ pc' = [pc EXCEPT ![i] = FirstLabel(mem[i].kind)]
    /\ UNCHANGED mem
    /\ FilesUnchanged /\ OutsideUnchanged /\ HistoryUnchanged

\* Only a lifecycle event waits for a lock that is held.
WaitForLock(i) ==
    /\ pc[i] = "start"
    /\ lock # None
    /\ mem[i].kind = "event"
    /\ Goto(i, "waiting")
    /\ FilesUnchanged /\ OutsideUnchanged /\ HistoryUnchanged

\* Everyone else gives up: a hook reports operation_in_progress, a command fails.
GiveUp(i) ==
    /\ pc[i] = "start"
    /\ lock # None
    /\ mem[i].kind # "event"
    /\ Exit(i)
    /\ FilesUnchanged /\ OutsideUnchanged /\ HistoryUnchanged

\* Mutant: the poll has no deadline.
PollForEver(i) ==
    /\ pc[i] = "waiting"
    /\ lock # None
    /\ UNCHANGED vars

\* The waiting event reaches its deadline; its last poll found the lock held.
Expire(i) ==
    /\ pc[i] = "waiting"
    /\ Exit(i)
    /\ FilesUnchanged /\ OutsideUnchanged /\ HistoryUnchanged

-----------------------------------------------------------------------------
(* Action::Event and Action::Autosave *)

\* A restore is due: this generation has no boot record and auto_restore is on.
RestoreDue(i) ==
    mem[i].kind # "timer" /\ mem[i].conf.auto_restore /\ boots[gen].now = NoFile

\* require_clear refuses.
HookBlocked(i) ==
    /\ pc[i] = "dispatch"
    /\ ~Clear
    /\ Exit(i)
    /\ FilesUnchanged /\ OutsideUnchanged /\ HistoryUnchanged

HookRestore(i) ==
    /\ pc[i] = "dispatch"
    /\ Clear /\ RestoreDue(i)
    /\ saves # 0
    /\ pc' = [pc EXCEPT ![i] = "begin"]
    /\ mem' = [mem EXCEPT ![i].auto = TRUE]
    /\ FilesUnchanged /\ OutsideUnchanged /\ HistoryUnchanged /\ UNCHANGED lock

\* Nothing was ever saved: the boot is claimed with an empty record.
HookNoSnapshot(i) ==
    /\ pc[i] = "dispatch"
    /\ Clear /\ RestoreDue(i)
    /\ saves = 0
    /\ Archive(i, Done(NewJournal(gen, {})))
    /\ UNCHANGED <<rebuilding, saves>> /\ OutsideUnchanged /\ HistoryUnchanged

HookSave(i) ==
    /\ pc[i] = "dispatch"
    /\ Clear /\ ~RestoreDue(i)
    /\ mem[i].conf.auto_save \/ mem[i].kind = "timer"
    /\ Goto(i, "save")
    /\ FilesUnchanged /\ OutsideUnchanged /\ HistoryUnchanged

\* boot_done, or the save is debounced.
HookDone(i) ==
    /\ pc[i] = "dispatch"
    /\ Clear /\ ~RestoreDue(i)
    /\ mem[i].kind # "timer"
    /\ Exit(i)
    /\ FilesUnchanged /\ OutsideUnchanged /\ HistoryUnchanged

-----------------------------------------------------------------------------
(* save *)

\* Mutant: save does not require that there is no unresolved evidence.
SaveUnchecked(i) ==
    /\ pc[i] = "save"
    /\ pc' = [pc EXCEPT ![i] = "capture"]
    /\ mem' = [mem EXCEPT ![i].gen = gen]
    /\ FilesUnchanged /\ OutsideUnchanged /\ HistoryUnchanged /\ UNCHANGED lock

SaveBegin(i) ==
    /\ pc[i] = "save"
    /\ Clear
    /\ pc' = [pc EXCEPT ![i] = "capture"]
    /\ mem' = [mem EXCEPT ![i].gen = gen]
    /\ FilesUnchanged /\ OutsideUnchanged /\ HistoryUnchanged /\ UNCHANGED lock

SaveBlocked(i) ==
    /\ pc[i] = "save"
    /\ ~Clear
    /\ Exit(i)
    /\ FilesUnchanged /\ OutsideUnchanged /\ HistoryUnchanged

\* The capture is done and the server is the one it began with.
SaveWrite(i) ==
    /\ pc[i] = "capture"
    /\ mem[i].gen = gen
    /\ saves' = (saves % MaxSaves) + 1
    /\ Exit(i)
    /\ UNCHANGED <<evidence, rebuilding>> /\ OutsideUnchanged /\ HistoryUnchanged

SaveFails(i) ==
    /\ pc[i] = "capture"
    /\ Exit(i)
    /\ FilesUnchanged /\ OutsideUnchanged /\ HistoryUnchanged

-----------------------------------------------------------------------------
(* restore and manual_restore, up to the claim *)

\* A manual restore may find workspaces missing, to reconstruct after the restore.
Begin(i) ==
    /\ pc[i] = "begin"
    /\ Clear
    /\ mem[i].auto => boots[gen].now = NoFile
    /\ \E missing \in BOOLEAN :
         /\ missing => ~mem[i].auto
         /\ mem' = [mem EXCEPT ![i].gen = gen, ![i].missing = missing]
    /\ pc' = [pc EXCEPT ![i] = "settle"]
    /\ FilesUnchanged /\ OutsideUnchanged /\ HistoryUnchanged /\ UNCHANGED lock

\* require_clear refuses, or the boot is already claimed.
BeginRefused(i) ==
    /\ pc[i] = "begin"
    /\ ~Clear \/ (mem[i].auto /\ boots[gen].now # NoFile)
    /\ Exit(i)
    /\ FilesUnchanged /\ OutsideUnchanged /\ HistoryUnchanged

\* The claim of a restore that read generation g: g itself, or a digest never
\* used before when g has a boot record.
ClaimsFor(g) ==
    IF boots[g].now = NoFile THEN {g} ELSE {c \in ManualClaims : opened[c] = 0}

\* The plan is made and its journal persisted: the claim is taken.
Open(i) ==
    /\ pc[i] = "settle"
    /\ Clear
    /\ \E c \in ClaimsFor(mem[i].gen), candidates \in SUBSET Panes :
         /\ boots[c].now = NoFile
         /\ pending' = Renamed(pending, NewJournal(c, candidates))
         /\ mem' = [mem EXCEPT ![i].claim = c]
         /\ opened' = [opened EXCEPT ![c] = @ + 1]
    /\ pc' = [pc EXCEPT ![i] = "openSync"]
    /\ UNCHANGED <<lock, boots, rebuilding, saves, traffic, watch>> /\ OutsideUnchanged

OpenSync(i) ==
    /\ pc[i] = "openSync"
    /\ PersistSync
    /\ Goto(i, "next")
    /\ UNCHANGED <<rebuilding, saves>> /\ OutsideUnchanged /\ HistoryUnchanged

\* The snapshot or the plan fails before anything is claimed.
PlanFails(i) ==
    /\ pc[i] = "settle"
    /\ Exit(i)
    /\ FilesUnchanged /\ OutsideUnchanged /\ HistoryUnchanged

-----------------------------------------------------------------------------
(* execute: one pane after the other *)

\* The journal in memory is the one last persisted.
journal == pending.now
PanesLeft == {p \in Panes : journal.entries[p] = "pending"}

\* Mutant: the pane is marked in memory, to be written with its result.
MarkInMemory(i) ==
    /\ pc[i] = "next"
    /\ \E p \in PanesLeft :
         /\ \A q \in PanesLeft : p <= q
         /\ mem' = [mem EXCEPT ![i].pane = p]
    /\ pc' = [pc EXCEPT ![i] = "revalidate"]
    /\ FilesUnchanged /\ OutsideUnchanged /\ HistoryUnchanged /\ UNCHANGED lock

\* Mutant: the journal that marks the pane is renamed and not synced.
MarkUnsynced(i) ==
    /\ pc[i] = "next"
    /\ \E p \in PanesLeft :
         /\ \A q \in PanesLeft : p <= q
         /\ pending' = Renamed(pending, WithOutcome(journal, p, "sending"))
         /\ mem' = [mem EXCEPT ![i].pane = p]
    /\ pc' = [pc EXCEPT ![i] = "revalidate"]
    /\ UNCHANGED <<lock, boots, rebuilding, saves>> /\ OutsideUnchanged /\ HistoryUnchanged

\* Sending is persisted before anything that might write to the pane.
Mark(i) ==
    /\ pc[i] = "next"
    /\ \E p \in PanesLeft :
         /\ \A q \in PanesLeft : p <= q
         /\ pending' = Renamed(pending, WithOutcome(journal, p, "sending"))
         /\ mem' = [mem EXCEPT ![i].pane = p]
    /\ pc' = [pc EXCEPT ![i] = "markSync"]
    /\ UNCHANGED <<lock, boots, rebuilding, saves>> /\ OutsideUnchanged /\ HistoryUnchanged

MarkSync(i) ==
    /\ pc[i] = "markSync"
    /\ PersistSync
    /\ Goto(i, "revalidate")
    /\ UNCHANGED <<rebuilding, saves>> /\ OutsideUnchanged /\ HistoryUnchanged

\* Mutant: the generation is read again for every pane.
RevalidateAnew(i) ==
    /\ pc[i] = "revalidate"
    /\ mem[i].auto => conf.auto_restore
    /\ mem' = [mem EXCEPT ![i].gen = gen]
    /\ pc' = [pc EXCEPT ![i] = "probe"]
    /\ FilesUnchanged /\ OutsideUnchanged /\ HistoryUnchanged /\ UNCHANGED lock

\* Mutant: the configuration loaded at the start decides.
RevalidateStale(i) ==
    /\ pc[i] = "revalidate"
    /\ gen = mem[i].gen
    /\ mem[i].auto => mem[i].conf.auto_restore
    /\ Goto(i, "probe")
    /\ FilesUnchanged /\ OutsideUnchanged /\ HistoryUnchanged

\* Generation, configuration, policy and the identity of the pane are as planned.
Revalidate(i) ==
    /\ pc[i] = "revalidate"
    /\ gen = mem[i].gen
    /\ mem[i].auto => conf.auto_restore
    /\ Goto(i, "probe")
    /\ FilesUnchanged /\ OutsideUnchanged /\ HistoryUnchanged

\* The shell is idle and the server still the same.
Probe(i) ==
    /\ pc[i] = "probe"
    /\ gen = mem[i].gen
    /\ Goto(i, "send")
    /\ FilesUnchanged /\ OutsideUnchanged /\ HistoryUnchanged

\* The shell is not idle: the pane is skipped.
Skip(i) ==
    /\ pc[i] = "probe"
    /\ Persist(i, WithOutcome(journal, mem[i].pane, "skipped"), "recordSync")
    /\ UNCHANGED <<rebuilding, saves>> /\ OutsideUnchanged /\ HistoryUnchanged

\* host.run: the request is on its way.
Send(i) ==
    /\ pc[i] = "send"
    /\ wire' = wire \union {<<mem[i].claim, mem[i].pane>>}
    /\ sent' = [sent EXCEPT ![mem[i].claim][mem[i].pane] = @ + 1]
    /\ late' = IF mem[i].auto /\ ~conf.auto_restore THEN late + 1 ELSE late
    /\ astray' = [g \in Generations |->
                    IF g = mem[i].claim /\ g # gen THEN astray[g] + 1 ELSE astray[g]]
    /\ Goto(i, "await")
    /\ FilesUnchanged /\ OutsideUnchanged /\ UNCHANGED <<got, opened>>

\* The server confirms the run.
Reply(i) ==
    /\ pc[i] = "await"
    /\ got[mem[i].claim][mem[i].pane] > 0
    /\ Persist(i, WithOutcome(journal, mem[i].pane, "applied"), "recordSync")
    /\ UNCHANGED <<rebuilding, saves>> /\ OutsideUnchanged /\ HistoryUnchanged

\* Mutant: a run that is not answered is sent again.
RetryUnanswered(i) ==
    /\ pc[i] = "await"
    /\ Goto(i, "send")
    /\ FilesUnchanged /\ OutsideUnchanged /\ HistoryUnchanged

\* Mutant: a pane that fails is recorded and the next one is tried.
FailContinues(i) ==
    /\ pc[i] \in {"revalidate", "probe", "send", "await"}
    /\ Persist(i, WithOutcome(journal, mem[i].pane, "failed"), "recordSync")
    /\ UNCHANGED <<rebuilding, saves>> /\ OutsideUnchanged /\ HistoryUnchanged

\* A check or the run fails, or no answer comes before the deadline: the restore stops.
Fail(i) ==
    /\ pc[i] \in {"revalidate", "probe", "send", "await"}
    /\ Persist(i, [WithOutcome(journal, mem[i].pane, "failed") EXCEPT !.state = "failed"],
               "failSync")
    /\ UNCHANGED <<rebuilding, saves>> /\ OutsideUnchanged /\ HistoryUnchanged

RecordSync(i) ==
    /\ pc[i] = "recordSync"
    /\ PersistSync
    /\ Goto(i, "next")
    /\ UNCHANGED <<rebuilding, saves>> /\ OutsideUnchanged /\ HistoryUnchanged

FailSync(i) ==
    /\ pc[i] = "failSync"
    /\ PersistSync
    /\ Exit(i)
    /\ UNCHANGED <<rebuilding, saves>> /\ OutsideUnchanged /\ HistoryUnchanged

-----------------------------------------------------------------------------
(* finish, by a completed restore and by an acknowledgement *)

\* Mutant: the journal is removed and no record takes its place.
FinishWithoutRecord(i) ==
    /\ pc[i] = "next"
    /\ PanesLeft = {}
    /\ Persist(i, NoFile, "removeSync")
    /\ UNCHANGED <<rebuilding, saves>> /\ OutsideUnchanged /\ HistoryUnchanged

Finish(i) ==
    /\ pc[i] = "next"
    /\ PanesLeft = {}
    /\ Archive(i, Done(journal))
    /\ UNCHANGED <<rebuilding, saves>> /\ OutsideUnchanged /\ HistoryUnchanged

\* Mutant: the acknowledgement drops the journal.
AcknowledgeDrops(i) ==
    /\ pc[i] = "acknowledge"
    /\ ~rebuilding /\ pending.now # NoFile
    /\ Persist(i, NoFile, "removeSync")
    /\ UNCHANGED <<rebuilding, saves>> /\ OutsideUnchanged /\ HistoryUnchanged

\* Mutant: the acknowledged record is a new one, with no outcomes.
AcknowledgeAfresh(i) ==
    /\ pc[i] = "acknowledge"
    /\ ~rebuilding /\ pending.now # NoFile
    /\ Archive(i, [Done(NewJournal(pending.now.claim, {})) EXCEPT !.acknowledged = TRUE])
    /\ UNCHANGED <<rebuilding, saves>> /\ OutsideUnchanged /\ HistoryUnchanged

\* Recovery acknowledge of a restore: the record is done, its outcomes stay.
Acknowledge(i) ==
    /\ pc[i] = "acknowledge"
    /\ ~rebuilding /\ pending.now # NoFile
    /\ Archive(i, [Done(pending.now) EXCEPT !.acknowledged = TRUE])
    /\ UNCHANGED <<rebuilding, saves>> /\ OutsideUnchanged /\ HistoryUnchanged

\* Evidence of a reconstruction goes first.
AcknowledgeRebuild(i) ==
    /\ pc[i] = "acknowledge"
    /\ rebuilding
    /\ rebuilding' = FALSE
    /\ Exit(i)
    /\ UNCHANGED <<evidence, saves>> /\ OutsideUnchanged /\ HistoryUnchanged

\* Nothing to acknowledge, or the generation given is not the record's.
AcknowledgeRefused(i) ==
    /\ pc[i] = "acknowledge"
    /\ Exit(i)
    /\ FilesUnchanged /\ OutsideUnchanged /\ HistoryUnchanged

\* Mutant: the journal goes before the record that replaces it is durable.
BootUnsynced(i) ==
    /\ pc[i] = "bootSync"
    /\ UNCHANGED evidence
    /\ IF pending.now # NoFile THEN Goto(i, "remove") ELSE Exit(i)
    /\ UNCHANGED <<rebuilding, saves>> /\ OutsideUnchanged /\ HistoryUnchanged

\* The Done record is durable; a first boot with no snapshot has nothing to remove.
BootSync(i) ==
    /\ pc[i] = "bootSync"
    /\ boots' = [boots EXCEPT ![mem[i].claim] = Synced(@)]
    /\ UNCHANGED pending
    /\ IF pending.now # NoFile THEN Goto(i, "remove") ELSE Exit(i)
    /\ UNCHANGED <<rebuilding, saves>> /\ OutsideUnchanged /\ HistoryUnchanged

Remove(i) ==
    /\ pc[i] = "remove"
    /\ Persist(i, NoFile, "removeSync")
    /\ UNCHANGED <<rebuilding, saves>> /\ OutsideUnchanged /\ HistoryUnchanged

\* A manual restore that found workspaces missing goes on to reconstruct them.
RemoveSync(i) ==
    /\ pc[i] = "removeSync"
    /\ PersistSync
    /\ IF mem[i].missing THEN Goto(i, "rebuild") ELSE Exit(i)
    /\ UNCHANGED <<rebuilding, saves>> /\ OutsideUnchanged /\ HistoryUnchanged

-----------------------------------------------------------------------------
(* layout::rebuild, as a restore sees it *)

RebuildBegin(i) ==
    /\ pc[i] = "rebuild"
    /\ Clear
    /\ rebuilding' = TRUE
    /\ Goto(i, "rebuilding")
    /\ UNCHANGED <<evidence, saves>> /\ OutsideUnchanged /\ HistoryUnchanged

RebuildRefused(i) ==
    /\ pc[i] = "rebuild"
    /\ ~Clear
    /\ Exit(i)
    /\ FilesUnchanged /\ OutsideUnchanged /\ HistoryUnchanged

\* It completes and removes its evidence, or fails and leaves it.
RebuildEnd(i) ==
    /\ pc[i] = "rebuilding"
    /\ rebuilding' \in BOOLEAN
    /\ Exit(i)
    /\ UNCHANGED <<evidence, saves>> /\ OutsideUnchanged /\ HistoryUnchanged

-----------------------------------------------------------------------------
(* Failures, the server and the user *)

\* The process is killed, or an I/O operation fails: the files stay as they are.
Abort(i) ==
    /\ pc[i] # "idle"
    /\ Exit(i)
    /\ FilesUnchanged /\ OutsideUnchanged /\ HistoryUnchanged

\* The server writes the command to the pane's shell.
Deliver ==
    \E w \in wire :
        /\ wire' = wire \ {w}
        /\ got' = [got EXCEPT ![w[1]][w[2]] = @ + 1]
        /\ UNCHANGED <<local, evidence, rebuilding, saves, conf, server, sent, opened, watch>>

\* The server refuses a request, or dies with it.
Drop ==
    \E w \in wire :
        /\ wire' = wire \ {w}
        /\ UNCHANGED <<local, evidence, rebuilding, saves, conf, server, sent, got, opened, watch>>

\* Another server process takes the socket over.
Restart ==
    \E g \in Generations \ booted :
        /\ gen' = g
        /\ booted' = booted \union {g}
        /\ UNCHANGED <<local, evidence, rebuilding, saves, conf, cuts, traffic, opened, watch>>

\* Every process is gone, and every file has a content its renames allow.
PowerCut ==
    \E g \in Generations \ booted, v \in pending.after :
        /\ gen' = g
        /\ booted' = booted \union {g}
        /\ cuts' = cuts + 1
        /\ pending' = Stored(v)
        /\ \E kept \in [Claims -> UNION {boots[c].after : c \in Claims}] :
             /\ \A c \in Claims : kept[c] \in boots[c].after
             /\ boots' = [c \in Claims |-> Stored(kept[c])]
        /\ wire' = {}
        /\ pc' = [i \in Invocations |-> "idle"]
        /\ mem' = [i \in Invocations |-> Blank]
        /\ lock' = None
        /\ UNCHANGED <<rebuilding, saves, conf, sent, got, opened, watch>>

EditConfig ==
    /\ conf' \in Configs \ {conf}
    /\ late' = 0
    /\ FilesUnchanged /\ UNCHANGED <<local, server, traffic, opened, astray>>

-----------------------------------------------------------------------------
\* What a process does by itself once it is started.
Step(i) ==
    \/ Acquire(i) \/ WaitForLock(i) \/ GiveUp(i) \/ Expire(i)
    \/ HookBlocked(i) \/ HookRestore(i) \/ HookNoSnapshot(i) \/ HookSave(i) \/ HookDone(i)
    \/ SaveBegin(i) \/ SaveBlocked(i) \/ SaveWrite(i) \/ SaveFails(i)
    \/ Begin(i) \/ BeginRefused(i) \/ Open(i) \/ OpenSync(i) \/ PlanFails(i)
    \/ Mark(i) \/ MarkSync(i) \/ Revalidate(i) \/ Probe(i) \/ Skip(i) \/ Send(i)
    \/ Reply(i) \/ Fail(i) \/ RecordSync(i) \/ FailSync(i)
    \/ Finish(i) \/ Acknowledge(i) \/ AcknowledgeRebuild(i) \/ AcknowledgeRefused(i)
    \/ BootSync(i) \/ Remove(i) \/ RemoveSync(i)
    \/ RebuildBegin(i) \/ RebuildRefused(i) \/ RebuildEnd(i)

Environment == Deliver \/ Drop \/ Restart \/ PowerCut \/ EditConfig

Next ==
    \/ \E i \in Invocations : Step(i) \/ Abort(i) \/ \E k \in Kinds : Start(i, k)
    \/ Environment

Spec == Init /\ [][Next]_vars

\* A started process runs: the operating system schedules it, every wait has a
\* deadline (the lock poll, the request), and every loop a bounded number of turns.
Fairness == \A i \in Invocations : WF_vars(Step(i))
FairSpec == Spec /\ Fairness

-----------------------------------------------------------------------------
(* Safety *)

\* The contents of pending.json and of a boot record that a reader may find now
\* or after a power cut, as records of claim c.
PendingVersions(c) == {v \in pending.after : v # NoFile /\ v.claim = c}
Versions(c) == PendingVersions(c) \union (boots[c].after \ {NoFile})

\* "Mutating requests are never automatically retried": under one claim a pane is
\* sent at most one command, and its shell gets no more than was sent, whatever is
\* lost, late, restarted or cut off (app::execute, transport::request).
AtMostOnce ==
    \A c \in Claims, p \in Panes : got[c][p] <= sent[c][p] /\ sent[c][p] <= 1

\* A boot is restored automatically at most once: a claim is opened once, and an
\* automatic restore runs under the claim of the generation it was started for
\* (app::restore, the boot check and the choice of the claim).
OncePerBoot ==
    /\ \A c \in Claims : opened[c] <= 1
    /\ \A i \in Invocations :
         mem[i].auto /\ mem[i].claim # None => mem[i].claim = mem[i].gen

\* A record never understates or overstates what was sent: pending and skipped
\* panes were sent nothing, an applied pane got its command (app::execute).
JournalTruthful ==
    \A c \in Claims : \A v \in Versions(c) : \A p \in Panes :
        /\ v.entries[p] \in {"pending", "skipped"} => sent[c][p] = 0
        /\ v.entries[p] = "applied" => got[c][p] = 1

\* Once a command is sent, the evidence of it survives every crash and every power
\* cut: in pending.json or, after finish, in the boot record (store::atomic_write,
\* app::finish).
EvidenceSurvives ==
    \A c \in Claims, p \in Panes : sent[c][p] > 0 =>
        \/ \A v \in pending.after :
             v # NoFile /\ v.claim = c /\ v.entries[p] \in Attempted
        \/ \A v \in boots[c].after : v # NoFile /\ v.entries[p] \in Attempted

\* A restore stops at the first pane whose result it does not know: at most one
\* entry is uncertain, every earlier one is settled and no later one was tried.
OneUncertainPane ==
    \A c \in Claims : \A v \in Versions(c) : \A p \in Panes :
        v.entries[p] \in {"sending", "failed"} =>
            /\ \A q \in 1 .. (p - 1) : v.entries[q] \in {"applied", "skipped"}
            /\ \A q \in (p + 1) .. NumPanes : v.entries[q] \in {"pending", "skipped"}

\* Switching auto_restore off stops an automatic restore that runs: the one pane whose
\* configuration was read already may still get its command, no further pane does
\* (app::restore reads the configuration again before each pane).
StopsWhenSwitchedOff == late <= 1

\* A restore does not outlive its server: a restart may come between the last check of
\* the generation and the request, for one pane; the next pane is not tried
\* (app::restore, the two checks of the generation before each command).
StopsWithItsServer == \A g \in Generations : astray[g] <= 1

\* The outcome a reader of the evidence sees for a pane of claim c.
OutcomeOf(c, p) ==
    IF pending.now # NoFile /\ pending.now.claim = c THEN pending.now.entries[p]
    ELSE IF boots[c].now # NoFile THEN boots[c].now.entries[p] ELSE "none"

\* Outcomes are final: finishing, acknowledging, later restores, crashes and server
\* restarts never change or lose the outcome of a pane that was tried; only a power
\* cut may take it back to sending (app::finish, recovery acknowledge).
OutcomesAreFinal ==
    [][\A c \in Claims, p \in Panes :
         OutcomeOf(c, p) \in Attempted /\ OutcomeOf(c, p)' # OutcomeOf(c, p)
         => \/ OutcomeOf(c, p) = "sending" /\ OutcomeOf(c, p)' \in {"applied", "skipped", "failed"}
            \/ cuts' # cuts]_vars

\* Unresolved evidence blocks saves, new claims and reconstructions, until it is
\* acknowledged or its restore completes (app::require_clear).
EvidenceBlocks ==
    [][/\ pending.now # NoFile \/ rebuilding => saves' = saves /\ opened' = opened
       /\ pending.now # NoFile => (rebuilding' => rebuilding)]_vars

\* A lifecycle event restores first and saves then: with auto_restore on, it saves
\* over the snapshot of the boot before only when this boot has its record
\* (README.md:232).  The hook checks the generation it read, save reads another one.
RestoreBeforeAutosave ==
    [][\A i \in Invocations :
         saves' # saves /\ lock = i /\ mem[i].kind = "event" /\ mem[i].conf.auto_restore
         => boots[mem[i].gen].now # NoFile]_vars

\* A command is sent by the holder of the lock alone, under the claim of the journal
\* that is on the disk, for the one pane that journal marks sending (app::execute).
SentUnderTheLock ==
    [][\A c \in Claims, p \in Panes : sent'[c][p] # sent[c][p] =>
         /\ lock # None /\ mem[lock].claim = c
         /\ pending = Stored(pending.now) /\ pending.now.claim = c
         /\ pending.now.entries[p] = "sending"]_vars

-----------------------------------------------------------------------------
(* The contract this implements *)

StatusOf(c) ==
    IF pending.now # NoFile /\ pending.now.claim = c THEN "open"
    ELSE IF boots[c].now # NoFile THEN "closed" ELSE "free"

\* Everything a power cut may leave of pending.json is a journal of c.
OnlyJournalOf(c) == \A v \in pending.after : v # NoFile /\ v.claim = c

\* The least a power cut leaves of that: the record without the journal, or one of the
\* two in any case, or nothing.
KeptOf(c) ==
    IF NoFile \notin boots[c].after /\ PendingVersions(c) = {} THEN "closed"
    ELSE IF NoFile \notin boots[c].after \/ OnlyJournalOf(c) THEN "open" ELSE "free"

Contract == INSTANCE RestoreContract WITH
    status <- [c \in Claims |-> StatusOf(c)],
    kept <- [c \in Claims |-> KeptOf(c)],
    outcome <- [c \in Claims |-> [p \in Panes |-> OutcomeOf(c, p)]],
    tries <- sent

\* Processes, locks, crashes and power cuts implement the contract: between power
\* cuts a claim is taken and closed once, one at a time, and each pane is marked, tried
\* and given its result once; a power cut undoes only what was not durable, and never
\* a claim or a mark under which a command was sent (app::restore, execute, finish).
ImplementsContract == Contract!ContractSpec

-----------------------------------------------------------------------------
(* Liveness *)

\* Every started process exits: no operation waits for ever on the lock, a reply
\* or another process (app::run, transport deadlines).
EveryProcessEnds == \A i \in Invocations : pc[i] # "idle" ~> pc[i] = "idle"
=============================================================================
