# herdr-revive: specifications, model checking and proofs

herdr-revive is a plugin of the herdr terminal multiplexer. It saves a session (which
panes there are, where, and what runs in them) and brings it back after the herdr server
or the machine was restarted. Every operation is a short-lived process; there is no
daemon. Everything that makes it hard happens between processes: they compete for a lock,
they die between two file operations, the server they talk to is replaced under them, and
a command that was sent may be executed long after its sender gave up.

The specifications are translated from the Rust sources. `PROJECT.json` maps each
definition to the lines it stands for and lists runs, mutants, hazards and theorems.

## 1. Inventory

| Component | State | Operations | What makes it correct |
| --- | --- | --- | --- |
| Durable files (`store::atomic_write`) | one file and its directory | replace, remove | a reader sees the old or the new content; a power cut may bring the old one back until the directory is synced |
| Operation lock, dispatch (`app::run`) | `operation.lock`, `config.toml` | take the lock, wait (lifecycle events), give up, dispatch | one operation at a time; every process ends |
| Restore (`app::restore`, `execute`, `finish`) | `pending.json`, `boots/<claim>.json` | claim, mark, revalidate, run, record, finish | a pane gets at most one command per claim; the evidence is truthful and survives |
| Manual restore (`app::manual_restore`) | the workspaces that are missing | restore, then rebuild | a claim that was never used before |
| Recovery | the same files | inspect, acknowledge | unblocks without retrying; outcomes stay |
| Session save (`app::save`, `Store::save`) | `latest.json`, `snapshots/`, `last-save.json` | debounce, capture, merge, write, prune, stamp | announced sessions are saved; retained ones are never invented; the files agree after a crash |
| Capture (`capture.rs`) | none | look at the host, read processes, wait for metadata | the snapshot is of one server, with exact sessions or none |
| Timer (`timer.rs`) | signals | save every interval, save finally, stop | a signal ends it; the final save is made |
| Reconstruction (`layout.rs`) | `rebuild-pending.json`, `operations/` | create, apply, split, rename, launch, focus | the saved tree is reproduced; every mutation is in the evidence, none is made twice |
| Transport (`transport.rs`) | a socket or a child | request | one deadline for all; success only for what was carried out; never a retry |
| Planner (`planner.rs`) | none | plan | only panes that are exactly where they were saved are candidates |
| Policy (`model.rs`, `capture.rs`) | `config.toml`, transcripts | `command_for`, `allowed_argv` | what is launched is the session that was captured, or nothing |
| Snapshot (`model.rs`) | none | validate | panes, tabs and layout leaves agree |
| Process inspection (`platform/`) | none | table, arguments, foreground tree, idle shell | a shell that is busy is never written to; saved arguments are the leader's |
| Named spaces | `spaces/`, `library.lock` | save, open, import, delete | shared by sessions without loss; what is reported is durable |
| Management (`scripts/manage.sh`) | none | menus | calls the above |

How they interact: every process calls `app::run`, which takes the lock and calls one of
save, restore, rebuild or acknowledge; these share the evidence files (`require_clear`
refuses while there is any), talk to the server through the transport, and read the
server's generation to notice that it was replaced. The timer calls `app::run` in a loop.
herdr starts a process for each lifecycle event.

What is hard, with the line where it bites, is listed under `hazards` in `PROJECT.json`:
crashes and power cuts between two writes, late replies, restarts and edits of the
configuration between a check and its use, hooks racing for one boot, stale agent records,
debounce against events that must not be lost, trees grown by splits, deadlines against a
server that dribbles, processes that fork, exec and exit while they are read, panes that
move while layouts are exported, two locks, a session whose agent was reconfigured. One
hazard has no property: a clock set back makes the debounce last longer (`app.rs:468`);
announced sessions are saved all the same (`SessionsAreSaved` is checked with a debounce
that never ends), and for other events nothing in the repository promises a bound.

## 2. Modules

| Module | Models | Role |
| --- | --- | --- |
| `DurableFile` | `atomic_write`, removal with a directory sync | used by all that persist |
| `Restore` | lock, dispatch, restore, finish, acknowledge, and saves and reconstructions as restores see them | core |
| `RestoreContract` | nothing of the code: what restores promise | abstract specification of `Restore` |
| `RestoreInv` | the invariants `IInv` and `StepInv` | for the proofs |
| `Autosave` | events, debounce, capture, retention of agents, `Store::save` | |
| `Timer` | `timer::run` | |
| `Rebuild` | `layout::rebuild`, `mutate`, `expand_tree`, `launch_splits`, `finish`, `acknowledge` | |
| `Transport` | `request`, `direct_request`, `wait_ready`, `decode_response`, `cli_request` | |
| `Spaces` | `SpaceAction`, `import_space`, `capture_once` of a workspace, `layout::capture`, both `validate` | |
| `Processes` | the kernel's processes of a pane (external) and the reads of `platform/linux.rs`, `platform/macos.rs` | used by `Inspect` |
| `Inspect` | `capture_once` for one pane, `argv_and_cwd`, `validate_foreground_tree`, `idle_shell`, `has_children` | |
| `Policy` | `command_for`, `explicit_resume_id`, attach, launchers, profiles; `allowed_argv`, `argv`, transcripts | |
| `Panes` | nothing of its own: a behaviour goes through `Inspect` or through `Policy` | composes the two |
| `Manual` | `planner::plan`, `manual_restore` | |
| `RestoreProof`, `RestoreContractProof`, `WatchProof`, `AutosaveProof`, `SpacesProof`, `TransportProof`, `PanesProof`, `RebuildProof` | | theorems, checked by tlapm |
| `MC*` | small instances | for TLC |

Definitions called "Mutant" in a comment are wrong on purpose: each is one plausible bug in
the definition that follows it. No specification uses them; putting one in the place of its
original makes TLC report the property `PROJECT.json` names for it.

### DurableFile

A file is what readers see (`now`) and the set of contents a power cut may leave (`after`).
The rename adds the new content to `after`, the directory sync reduces it to `now`. That
the temporary file is synced before the rename is why no partial content is in `after`.

### Restore

A process is a slot `i` with a label `pc[i]` and a memory `mem[i]`; labels stand between the
steps another process, a crash or the server can get in between. A label that ends in
`Sync` lies between a rename and the sync of its directory. The journal a process holds in
memory is always the one it wrote last, so `journal` is `pending.now`.

Panes are numbers in the order in which the plan sorts them. A claim is the name of a boot
record: a generation, or a digest that `restore` mints when the generation has a record
already. The digest contains the time and the process id; that it was never used is
`opened[c] = 0`.

`wire` holds the requests the server has not acted on. `Deliver` may happen long after the
sender gave up: the reply is late. `Drop` is a refusal or a server that dies.
`sent`, `got` and `opened` are history, and so are two counters that no guard reads: how many
commands automatic restores sent *since* auto_restore was switched off (`late`), and how many
were sent under a boot's claim to a later server (`astray`). One command may be late or
astray, for `restore` checks before each pane and the request comes after the check; the
second one would be a missing check.

What the host answers (is the pane the same, is the shell idle) is nondeterministic. A save
is one step from the check of the evidence to the new `latest.json`, a reconstruction is
the boolean `rebuilding`, and debounce is the choice between `HookSave` and `HookDone`;
`Autosave` and `Rebuild` have the detail. `saves` counts around, so that the space is finite.

### RestoreContract

A claim is free, open or closed; it is taken and closed once, one at a time. Under it each
pane is marked, tried at most once and given one result, in this order: a command only under
a mark, `applied` only after a command, `skipped` only without one. Only a power cut goes
back, and `cuts` counts those: a free claim stays free, `kept` is the least a claim may fall
back to, and it is not `free` once a command was tried or the claim was closed. The record
of a pane goes back one step at most and never denies a command.

`Restore` implements it (`ImplementsContract`): `status` is computed from the two files, `kept`
from what a power cut may leave of them, and a power cut of the contract is one of the
machine, for both count them in `cuts`. A process that is killed is a stutter of the
contract, and so is a sync that `kept` does not notice.

### Autosave

Here auto_save is on, auto_restore is off and there is no evidence. The host has panes in
which an agent, another program or nothing runs, and a session that it *reports*, which is
late when an agent starts and stale when it has exited. `notes` are the notifications
whose hook has not been started. `Look` is `host.snapshot`, `Read` the inspection of the
processes, in which the host may have changed: a pane at its shell is saved where `Look`
saw it, a program where its process is. `ReadAgain` is the wait for metadata that discards
the capture. `Fail` is every error, deadline and kill.

What herdr reports of an agent is its `session`, what the agent's arguments name is `named`.
A report counts for more than the arguments, except in the capture that follows the
detection of an agent: there a report that differs from the name is one kept from an
earlier agent (`Conflict`), and the capture waits until the two agree or fails. How a name
is found in arguments is the subject of `Policy`, which process is read that of `Inspect`.
Panes neither appear nor disappear; a capture during which they do is in `Spaces`.

History files are named by their time, and retention removes the first names. While the
clock goes forward the file of the newest snapshot is therefore the last to go, and a
snapshot that is restored can always be found in `snapshots/` too. With a clock that was
set back it is the first to go, at once, once enough files have a later time. The code
promises nothing else, and `LatestInHistory` says just that: the *own* file of each version of
`latest.json` is there, or `Retention` durable files have a time no earlier than its own.

### Timer

The session is a version number, and `others` stands for every other invocation that holds
the lock. The signals are blocked for good, so `pending` is set at any time and read at
`Poll` only. Linux and macOS differ in how they wait, not in these steps.

### Rebuild

A tab is the set of the paths of its leaves, so that where a pane is in the real tree and
where it is in the saved one can be compared. `IsTab` says which sets of paths are trees: no
leaf is below another, and of every split both children lead to a first leaf, as they do in
the type `Node`. `LayoutAssumption` allows every snapshot of such tabs. `stage` is the mutation
the reconstruction is at and `phase` how far it is: recorded, synced, requested, answered. The recursion of
`expand_tree` is the stack of splits still to make. The host executes requests by itself
(`CarryOut`), also after the process has gone.

One operation is modelled, with its acknowledgement; that a second one is refused while
there is evidence is `EvidenceBlocks` of `Restore`. Which pane is focused is not modelled,
only the requests; users who close or move panes while they are created, and shells that
do not become idle, are the failure `Fail`.

### Transport

Bytes are counted; those of a reply are a line's, its end or white space. The process is
faster than the clock, as any statement about deadlines must assume: `Tick` is enabled
only while it waits. The server may write any of `Replies` in any portions, close the
connection, or never answer. The child of the command line transport is `herdr pane run`.

### Spaces

Sessions have an `operation.lock` and evidence each, and share `library.lock` and the named
files. A command takes both locks, in this order, and waits for neither. `told` is what the
last finished command reported of a name; it is unknown while a change is under way.
A saved workspace is the panes `host.snapshot` showed at one moment and the leaves of tabs
that were exported later, in any arrangement the panes may have moved to; `Valid` is what
the two `validate` functions require of them together. An import with a mapping puts live
panes in the place of those of the file; without one the file is stored as it is. Opening
is a reconstruction, here the boolean `evidence`.

### Processes and Inspect

Processes have a number, a start time, a parent, a group and an image; between any two
reads they fork, exec, exit, change the foreground group, and numbers are used again. The
table is read process by process, so it may never have been true. The numbers are read in
any order: that of macOS's list is not specified, and the Linux order is one of them. For a
process of another user macOS puts in a row without a start time (`ancestry_only`). Its
parent and group are what the model has for any process, and they are all that is looked at
in a member of a group; as the shell or the leader such a row ends the check (`Fail`), for
the process cannot be read again. Every comparison that
fails ends the check without an answer. On Linux children are kept per thread and a thread
may end while they are read; on macOS the list is taken twice. Assumed: a thread number is
not used again within one check, the shell's main thread lives as long as the shell, and
the list of threads is taken at once. Standard streams, environments, SSH and the git
pager are left out.

`SavedFromTheLeader`, `LeaderSpeaksForGroup` and `IdleHasNoJobs` are about processes that
have been there all the time (`Steady`): of one that was born a moment ago no check can
speak. Nor is anything promised of a member of the group one of whose ancestors exits while
the table is read and has its number taken by a child of the leader: the row of that member
was read before, the row of the new process after, and together they look like a tree of
the leader. The code cannot notice this, and `LeaderSpeaksForGroup` does not cover it.

### Policy

A command line is a sequence of words, one word of each kind the scanners tell apart. The
arguments become a command under one configuration and one set of conversations; both
change; then the command is run or refused. `meant` is the session that was captured.
`ResumeIdExact` compares the scanner with a definition by cuts of the line: an id is found
exactly if the line is options with their values and one resume option with that id, in one
of its two forms: `--resume` and the id are two words, or one word, `--resume=<id>`, which has
its own validation in the code and counts for the same check against a second id. `Joined`
maps each value to that word; it may be an id or a text that is none.

One option of each kind stands for those the code lists (`agent_option_takes_value`,
`agent_boolean_option`), and likewise for what `has_claude_option` looks for: `-r`, `-r=<id>`
and `-r<id>` are to it what `--resume` and `--resume=<id>` are, and `-c`, `--session-id` and
`--session-id=<id>` what `--continue` is. `explicit_resume_id` knows none of these short
forms: to it they are unknown options, as `--continue` is here. One launcher stands for all;
the plugin's own environment is the default profile.

### Manual

`manual_restore` reads the session twice, before and after `settle_ms`: the missing
workspaces come from the first view, the plan from the second. Each pane is compared again
before its command. `Plan` is the whole planner; malformed views, which it refuses, are
left out.

## 3. Runs

| Run | Shows | Instance |
| --- | --- | --- |
| `restore` | what was sent, what the evidence says and what survives agree (`AtMostOnce`, `JournalTruthful`, `EvidenceSurvives`, `OneUncertainPane`, `OutcomesAreFinal`); no restore goes on against the configuration or its server (`StopsWhenSwitchedOff`, `StopsWithItsServer`); `ImplementsContract` | events and acknowledgements, one slot, two panes, two generations, auto_restore switched on and off |
| `restore_kinds` | `OncePerBoot`, `SentUnderTheLock`, `EvidenceBlocks`, `EveryProcessEnds` | all eight operations, two slots, fairness |
| `restore_window` | violation: `RestoreBeforeAutosave` | a manual save and an event, two generations |
| `autosave` | `SessionsAreSaved`, `SessionsKeptOrCaptured`, `DetectedAsNamed` | two slots, one pane, two sessions, two directories, two changes of the host, a debounce that never ends |
| `autosave_files` | `LastSaveNotAhead`, `LatestInHistory` | three saves, a retention of one, a clock that goes both ways, a power cut |
| `timer_signal` | `SignalEndsTimer` | three changes, any number of signals |
| `timer_final` | violation: `FinalSaveMade` | one change |
| `rebuild` | `SplitsInPlace`, `LayoutReproduced`, `EvidenceTellsAll`, `NeverTwice` | seven trees with three and four leaves that must be split, two workspaces with one and two tabs, two events from outside |
| `transport` | `ConfirmedOnce`, `EndsInTime`, `NothingSentLater`, `RequestEnds` | three bytes, five kinds of reply, a timeout of two |
| `spaces` | `ReportsLast`, `StoredAsSeen`, `ChangedByHolder` | two sessions, two slots, one name, two panes, two tabs of one workspace and one of another |
| `panes` | `SavedFromTheLeader`, `LeaderSpeaksForGroup`, `IdleHasNoJobs`, `ResumeIdExact`, `ReplaysTheSession`, `AgentsHaveSessions` | four process numbers, two threads, six scenes, three changes; lines of up to four words, two ids, nine command lines |
| `manual_missing` | violation: `RebuildsTheMissing` | two workspaces, two changes of the session |

Why the bounds are enough. A slot is used again after its process exits, so one slot
already gives any sequence of processes, and two give every interleaving at the lock,
which excludes more. Two panes are needed for "the earlier ones stay, the later ones are
not tried"; the properties relate no more than two. Generations are used once each; two
give a restart or a power cut within any operation. Two
sessions let one agent be replaced by another. Retention 1 with three saves makes pruning
happen while a file is the newest one. The shapes of trees with four leaves contain every
order in which a first and a second child can still be split, and bulk limits of three
panes and depth two make tabs exceed either one. Timeout 2 lets a reply come before, at
and after the deadline. One name and two sessions are what a conflict in the library takes;
`MaxUnsynced` = 2 bounds the contents one name may fall back to after interrupted
changes, and a third would be one more of the same. Four process numbers are a shell, a
program, its child and a grandchild or a second member of a pipeline; three changes during
one check let a process exit, its number be used again and its parent change. Four words
hold two resume options, or one between an option and its value, or four joined ones. All safety properties of
the runs that pass are proved besides, for all values. `CHECK_DEADLOCK FALSE` is in the runs of `Rebuild`,
`Transport`, `Manual`, `Inspect` and `Policy`: one operation is modelled there, and it ends.

Manual restores and reconstructions compete with all other operations in `restore_kinds`
only, in one generation; there and in `restore` auto_save stays on, so that no start is
refused as switched off. A second restore of a generation under a digest of its own is in
no instance, for with one in `restore_kinds` the run takes too long: it takes a manual claim,
and the proofs (`CommandsOnce`, `BootsOnce`, `ContractImplemented`) cover any number of those.

Symmetry is used among slots, generations, claims, sessions, directories, names and panes,
for safety only.

### Fairness

`EveryProcessEnds`: weak fairness of the steps of each process. The operating system runs
it; the lock poll ends at a deadline (`app.rs`, the loop in `run`), a request ends at one
(`Transport`, `RequestEnds`), and the loop over the panes is finite. Nothing is assumed of
the server: it may never answer. `SignalEndsTimer`: weak fairness of the timer's steps; a
save ends for the same reasons and the interval passes. `RequestEnds`: weak fairness of
the process, of time, and of the death of a killed child; none of the server or of a
living child.

### Findings

* `restore_window`. "Once-per-boot automatic restore, then configured debounced autosave"
  (`README.md:232`). `run` reads the generation and finds its boot record; `save` reads the
  generation again. When the server is replaced between the two, the event saves the new
  server, which has not been restored, over `latest.json`. The history file of the old
  snapshot remains, within the retention.
* `timer_final`. "including a final save on SIGINT/SIGTERM/SIGHUP" (`README.md:234`). The
  final `run` does not wait for the lock; when another invocation holds it, the timer
  reports `timer_stopped` with `operation_in_progress` as its final save.
* `manual_missing`. "Default manual restore first rehydrates exact existing IDs, then
  reconstructs missing workspaces" (`docs/CONTRACTS.md:154`). Which workspaces are missing
  is decided before `settle_ms` passes (`app.rs:737`) and used after it (`app.rs:769`): a
  workspace closed in between is neither rehydrated nor reconstructed, and one that herdr
  brings back in between is both.

## 4. Proofs

All theorems hold for every value of the constants that satisfies the named assumptions of
the modules, which TLC evaluates in each run.

| Module | Theorem | Statement |
| --- | --- | --- |
| `RestoreProof` | `Invariance` | `Spec => []IInv` |
| | `TypeCorrect` | `Spec => []TypeOK` |
| | `CommandsOnce` | `Spec => []AtMostOnce` |
| | `BootsOnce` | `Spec => []OncePerBoot` |
| | `RecordsTruthful` | `Spec => []JournalTruthful` |
| | `EvidenceAlways` | `Spec => []EvidenceSurvives` |
| | `UncertainOnce` | `Spec => []OneUncertainPane` |
| | `SendsLocked` | `Spec => SentUnderTheLock` |
| `RestoreContractProof` | `StepInvariance` | `Spec => [](IInv /\ StepInv)` |
| | `EvidenceStops` | `Spec => EvidenceBlocks` |
| | `OutcomesKept` | `Spec => OutcomesAreFinal` |
| | `ContractImplemented` | `Spec => ImplementsContract` |
| `WatchProof` | `WatchInvariance` | `Spec => [](IInv /\ WInv)` |
| | `SwitchedOff` | `Spec => []StopsWhenSwitchedOff` |
| | `ServerGone` | `Spec => []StopsWithItsServer` |
| `AutosaveProof` | `SavesInvariance` | `Spec => []AInv` |
| | `SaveTypes` | `Spec => []TypeOK` |
| | `StampsBehind` | `Spec => []LastSaveNotAhead` |
| | `HistoryHasLatest` | `Spec => []LatestInHistory` |
| | `SessionsInvariance` | `Spec => []SInv` |
| | `SessionsSaved` | `Spec => []SessionsAreSaved` |
| | `SessionsKept` | `Spec => SessionsKeptOrCaptured` |
| | `DetectedNamed` | `Spec => DetectedAsNamed` |
| `SpacesProof` | `SpacesInvariance` | `Spec => []SInv` |
| | `SpaceTypes` | `Spec => []SpaceTypeOK` |
| | `ReportsKept` | `Spec => []ReportsLast` |
| | `StoredSpaces` | `Spec => []StoredAsSeen` |
| | `ChangesLocked` | `Spec => ChangedByHolder` |
| `TransportProof` | `RequestInvariance` | `Spec => []TInv` |
| | `RequestsOnce` | `Spec => []ConfirmedOnce` |
| | `InTimeAlways` | `Spec => []EndsInTime` |
| | `SilentAfterwards` | `Spec => NothingSentLater` |
| `PanesProof` | `ChecksInvariance` | `Spec => []IInv` |
| | `SavedLeader` | `Spec => []SavedFromTheLeader` |
| | `LeaderSpeaks` | `Spec => []LeaderSpeaksForGroup` |
| | `IdleShells` | `Spec => []IdleHasNoJobs` |
| | `PolicyInvariance` | `PolicySpec => []PolicyInv` |
| | `SessionsReplayed` | `PolicySpec => []ReplaysTheSession` |
| | `AgentsResume` | `PolicySpec => []AgentsHaveSessions` |
| | `ResumesExact` | `PolicySpec => []ResumeIdExact` |
| | `PanesTypes` | `PanesSpec => []PanesTypeOK` |
| `RebuildProof` | `ProgressInvariance` | `Spec => []ProgressInv` |
| | `RebuildTypes` | `Spec => []TypeOK` |
| | `EvidenceTold` | `Spec => []EvidenceTellsAll` |
| | `NoneTwice` | `Spec => []NeverTwice` |
| | `HostInvariance` | `Spec => [](ProgressInv /\ HostInv)` |
| | `SplitsPlaced` | `Spec => []SplitsInPlace` |
| | `WholeLayout` | `Spec => []LayoutReproduced` |

Most assumptions keep kinds of values apart (`None` is no process, session or answer,
`NoFile` is no content) or say that a bound is a natural number. Those with content come
from the code: `LayoutAssumption` and `RetentionAssumption` are what `layout::validate` and
`Config::validate` accept, `LineAssumption` says that arguments are words, `JoinedAssumption`
that joined words tell their values apart and are none of the other words, and
`SceneAssumption` that what runs in a pane started before the check did.

### Restore

The assumptions: generations and manual claims are disjoint and none of them is `None`, a
journal is not `NoFile`, `None` is no process, and the number of panes is natural.

None of the properties is inductive. `AtMostOnce` needs that a process about to send has
sent nothing yet under its claim; that needs its journal to be the one on the disk, which
needs it to hold the lock; that the journal's claim is new needs that claims with a command
have a record in every version that can survive. `IInv` is therefore the conjunction of

* `TypeOK`;
* `ProcessInv`: the lock holder is the only process at work (`LockInv`), generations are
  known before they are used (`GenInv`), automatic restores claim their generation
  (`AutoInv`), and at each label the files are what the program has made them
  (`ExecInv`, `FinishInv`);
* `EvidenceInv`: boot records stay (`FileInv`), requests on the wire were sent and not
  received (`WireInv`), entries are tried in order (`OrderInv`), a claim with a command has
  its record in every surviving version of one file (`RecordInv`), with `AtMostOnce` and
  `JournalTruthful`;
* `ClaimInv`: a claimed generation has evidence or can be claimed by nobody any more
  (`ClaimedInv`), and claims are opened once (`OpenedInv`).

The actions are grouped: steps that change no file preserve the evidence by one lemma,
persists and their syncs by lemmas on what they may change, and crashes by one on records
that are read back. Each part is proved per action, then combined with PTL.

### The contract, and outcomes

`ImplementsContract` and `OutcomesAreFinal` are about steps. `RestoreContractProof` first
reduces every step to its effect on the two files and on what was sent: an entry is marked
or recorded, the journal is copied, synced, opened, waived or removed, a command is sent, or
the power is cut. Only then are the properties proved, of the effects: each is one step of
the contract or, where neither the files nor what they may fall back to changes what they
say, a stutter. They need `StepInv` besides `IInv`: a journal a power cut may bring back is
the open one or has its record (`KeptInv`), and is one step behind at most (`BehindInv`); what a
save or a reconstruction checked still holds (`BlockInv`); the record has the outcomes of the
journal it replaces and is durable when that goes (`ArchivedInv`), and it has them too where
a power cut may leave it alone (`AloneInv`).

`WatchProof` adds the invariant of the two counters: after a late command auto_restore is off and no
automatic restore stands between its checks and its command; after a stray one its server
is gone and no restore of that claim stands there.

### Files, libraries and requests: Autosave, Spaces, Transport

* `AInv` says how far the lock's holder has come with the files: its history file exists
  when it replaces `latest.json`, nothing of the history is unsynced from then on, and the
  stamp is written when `latest.json` has one durable content. A prune takes a file away only
  when `Retention` others have a time no earlier; so either the own file of the newest
  snapshot stays, or those that pushed it out do (`PruneSteps`). Assumed: a retention of at
  least one, as `Config::validate` requires.
* `SInv` says that an operation holds both locks while it works, that its content is one
  the validation has accepted, and that no other process has a change of the same library
  under way. `StoredAsSeen` follows from the validation by counting: leaves are of the
  snapshot's panes, in their tabs, and cover them. Assumed: finitely many panes.
  `SpaceTypes` adds the types of the slots to it.
* `TInv` conserves bytes: those of the request are with the process, with the child, on the
  way, or received, so the server acts at most once and nothing is left to send when the
  result is told.

### Sessions: Autosave

`SessionsAreSaved` speaks of moments at which no notification waits and no process works. What
holds at *every* moment, and is inductive, is that each pane whose session herdr reports
is answered for (`Answered`), in one of three ways:

* `Noted`: a notification about it waits for its hook;
* `Hook`: the hook of an event about it has not looked at the sessions yet, or has looked
  since the session was announced and carries it to the file (`Carries`);
* `Settled`: `latest.json` has it, and no save that is under way carries anything else for
  that pane. Without the second half an older capture could still overwrite the session.

A step hands the pane from one to the next. A change of the session starts over, for the
change brings a notification; `lost` excuses what a failed hook or a power cut took away.
`SessionsKept` is about steps and needs only that what a process writes is what it read,
with the agents retained from the `latest.json` that is still there (`Taken`).

### Processes: Inspect

Between two reads anything may change, so the invariant cannot say what the processes are.
It rests on one fact, `NeverBack`: an identity (number, start, parent, group) that a process
has lost is never seen again, since start times go up and an orphan stays one. Two reads
that agree on an identity therefore saw the same process at every moment between them.
From it:

* the table is trusted (`Trusted`): what it has of a process was true when it was read,
  and it has every process that stays as it is (`Steady`), once that number was read;
* the leader (`LedAt`, `OfAt`): if the process looked at is still the one in the table, it
  was the leader when herdr named the group, and the arguments were read of it;
* it speaks for its group (`Speaks`): members that stayed, with parents that stayed, are
  below it, because the table has the whole chain;
* jobs (`JobsAt`): a child of the shell that is not found yet is still to be found in the
  list of an unread thread, or that thread has ended, which the check notices.

### Commands: Policy

`PolicyInv` says that what is saved stands for the captured program, or for the agent and
its session. That this session is an id needs the result of `Scan`, a recursive function on
the places of a line of any length. `Induction` restates induction over the natural numbers
for *sets* (a set with 0 and successors contains them all, from the least number that is
not in it), which the provers can instantiate; `ScanType` and `ScanExact` apply it to the
set of distances from the end of the line.

`ResumeIdExact` compares `Scan`, which goes from left to right, with `Names`, which speaks of
all cuts of the line at once. Between them is `Tiles`: the cuts divide the words from one
place on into units. `UnitIs` turns the units of `Names` into local conditions on the cuts.
`Exact` is shown from the end of the line backwards: `Scan` finds something from a place on
if and only if the words from there can be divided, in whichever way, and it finds as many
ids as there are resume options among the units, that one if it is one. The step adds a
unit in front (`TilesAdd`) or takes the first one away (`TilesDrop`).

### Reconstruction: Rebuild

Three invariants, each resting on the ones before.

* `ProgressInv`: where it is and what the journal tells. `WorkInv` says that the splits still
  to make are inner nodes, each with the first leaf below it as its anchor, and none below
  another; so the new pane of a split was not made before, and when a split is replaced by
  its children nothing else on the stack changes (`Grown`). `JournalInv` says at each
  point of `mutate` how the record compares with what was carried out: as long, or one
  mutation longer while a request is prepared or under way. A late request counts as told
  when every surviving version has its step (`Knows`).
* `OnceInv`: each mutation carried out is *behind* the reconstruction (`Behind`): in an
  earlier tab, of an earlier rank in this tab, the split or label of a leaf that is made
  already, or a command that is not in the rest of the launch list.
* `HostInv`: the panes of the host are those of the tabs that are finished, each at its leaf,
  and those of the made leaves of this tab, each at the node it stands for; the same for
  commands, of which the launch list has what is missing. While a mutation is carried out
  but not recorded the host is ahead of the process: `StackNow` and `LaunchesNow` are the
  work as it will be. When the last tab is left, this is the whole layout (`Whole`).

The trees are of any depth and any number of leaves, and so are the snapshots. The proofs
needed facts about the snapshot that the model had not stated: that *both* children of a
split lead to a first leaf, and that every path is a sequence over {1, 2}. They are part of
`IsTab` now. In the other direction `HostInv` was first too weak: that nothing is
archived while the reconstruction works had to be added.

### Model-checked only

Liveness (`EveryProcessEnds`, `SignalEndsTimer`, `RequestEnds`), which is out of the
prover's reach, and the three properties that the code violates (`RestoreBeforeAutosave`,
`FinalSaveMade`, `RebuildsTheMissing`). `Timer` and `Manual` have no other property, and so no
theorem.

## 5. Not modelled

* What is read of a process besides its identity and arguments: standard streams,
  environments, SSH connections, the git pager, the parsing of what the kernel returns.
* Of commands: extra arguments, matching by base name, null redirections, shell quoting,
  limits on lengths; more than one launcher.
* The syntax of ids, names and texts, and the version handshake with herdr.
* Listings, previews, dry runs and inspections, except where they share code with an
  operation: they change no state.
* Menus (`scripts/manage.sh`) and the plugin's manifest: they start the operations above.
* Bit rot, manual edits of state files, and a file system that loses what was synced.

## 6. Plan

Done: the modules and proofs above. What would come next:

1. `Session`: `Restore`, `Manual` and `Rebuild` composed, with the connections of each.
2. The abstract specification of a reconstruction, each mutation once and in order, and
   `Rebuild` shown to implement it from `ProgressInv` and `OnceInv`.
3. Safety properties of `Timer` and of `Manual`, which have none of their own yet.
