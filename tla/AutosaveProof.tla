--------------------------- MODULE AutosaveProof ---------------------------
(***************************************************************************)
(* Proofs that the files of the snapshots keep their order through every   *)
(* interleaving, failure and power cut: last-save.json never runs ahead of *)
(* latest.json, the history never falls behind it.                         *)
(***************************************************************************)
EXTENDS Autosave, FiniteSetTheorems, TLAPS

Memory ==
    [kind : Automatic \union {"save", None}, pane : Panes \union {None}, contended : BOOLEAN,
     gen : Nat, again : BOOLEAN, view : [Panes -> Views] \union {None},
     snap : Saved \union {None}, raw : Saved \union {None}, ms : 0 .. MaxTime]
Pane == [run : {"shell", "program", "agent"}, place : Places, session : Sessions \union {None},
         named : Sessions \union {None}]
History == [ms : 0 .. MaxTime, snap : Saved]

\* The types TypeOK gives, and those of what a process holds.
LocalType ==
    /\ pc \in [Invocations -> Labels]
    /\ mem \in [Invocations -> Memory]
    /\ lock \in Invocations \union {None}

WorldType ==
    /\ host \in [Panes -> Pane]
    /\ gen \in Nat
    /\ clock \in 0 .. MaxTime
    /\ notes \subseteq [on : Events, pane : Panes]
    /\ lost \in BOOLEAN

FileType ==
    /\ latest \in FileOf(Snapshots \union {NoFile})
    /\ lastSave \in FileOf(Stamps \union {NoFile})
    /\ archive \subseteq History /\ IsFiniteSet(archive)
    /\ unsynced \subseteq History /\ IsFiniteSet(unsynced)
    /\ saves \in Nat

\* Points at which the lock is held, and those at which a save is under way.
Working == Labels \ {"idle", "start", "waiting"}
Writing == {"archive", "archiveSync", "latest"}
Archived == {"latest", "latestSync", "prune", "pruneSync", "stamp", "stampSync"}
Replaced == {"latestSync", "prune", "pruneSync", "stamp"}

\* The history file of a save under way.
OwnFile(i) == [ms |-> mem[i].ms, snap |-> mem[i].snap]

\* How far the holder of the lock has come with the files.
At(i) ==
    /\ pc[i] \in Working => lock = i
    /\ pc[i] = "read" => mem[i].view \in [Panes -> Views]
    /\ pc[i] \in Writing => mem[i].snap \in Saved
    /\ pc[i] = "archiveSync" => OwnFile(i) \in archive
    /\ pc[i] = "latest" => OwnFile(i) \in archive
    /\ pc[i] \in Archived => archive \intersect unsynced = {}
    /\ pc[i] \in Replaced => latest.now # NoFile /\ latest.now.n = saves
    /\ pc[i] \in Replaced \ {"latestSync"} => latest.after = {latest.now}

\* No snapshot is newer than the last save.
CountInv == \A v \in latest.after \ {NoFile} : v.n <= saves

OrderInv == CountInv /\ LastSaveNotAhead /\ LatestInHistory

AInv == LocalType /\ WorldType /\ FileType /\ (\A i \in Invocations : At(i)) /\ OrderInv

-----------------------------------------------------------------------------
(* One process at a time *)

Others(i) ==
    \A j \in Invocations \ {i} :
        pc'[j] = pc[j] /\ mem'[j] = mem[j] /\ (lock = j => lock' = j)

\* The memory of a slot that is free.
LEMMA BlankType == Blank \in Memory
BY FileAssumption DEF Blank, Memory

\* The step of a process disturbs no other: the files change under the lock.
LEMMA OthersKept ==
    ASSUME AInv, NEW i \in Invocations, Others(i), UNCHANGED files \/ pc[i] \in Working,
           NEW j \in Invocations \ {i}
    PROVE  At(j)'
<1>1. At(i) /\ At(j) /\ pc'[j] = pc[j] /\ mem'[j] = mem[j]
  BY DEF AInv, Others
<1>2. CASE pc[j] \notin Working
  BY <1>1, <1>2 DEF At, Working, Writing, Archived, Replaced, Labels
<1>3. CASE pc[j] \in Working
  <2>1. lock = j /\ UNCHANGED files
    BY <1>1, <1>3 DEF At
  <2> QED
    BY <1>1, <1>3, <2>1 DEF At, Others, files, OwnFile
<1> QED
  BY <1>2, <1>3

\* The invariant holds after a step if it holds for the process that took it.
LEMMA Together ==
    ASSUME AInv, NEW i \in Invocations, Others(i), UNCHANGED files \/ pc[i] \in Working,
           LocalType', WorldType', FileType', At(i)', OrderInv'
    PROVE  AInv'
BY OthersKept DEF AInv

\* What a step that leaves the files alone keeps of them.
LEMMA FilesAlone ==
    ASSUME AInv, UNCHANGED files
    PROVE  FileType' /\ OrderInv'
BY DEF AInv, files, FileType, OrderInv, CountInv, LastSaveNotAhead, LatestInHistory

\* Neither latest.json nor the history loses anything.
LEMMA HistoryGrows ==
    ASSUME FileType, FileType', LatestInHistory, latest'.after \subseteq latest.after,
           archive \ unsynced \subseteq archive' \ unsynced'
    PROVE  LatestInHistory'
<1> SUFFICES ASSUME NEW v \in latest'.after \ {NoFile},
                    [ms |-> v.ms, snap |-> v.snap] \notin archive' \ unsynced'
             PROVE  Cardinality({f \in archive' \ unsynced' : f.ms >= v.ms}) >= Retention
  BY DEF LatestInHistory
<1> DEFINE Old == {f \in archive \ unsynced : f.ms >= v.ms}
           New == {f \in archive' \ unsynced' : f.ms >= v.ms}
<1>1. Cardinality(Old) >= Retention
  BY DEF LatestInHistory
<1>2. Old \subseteq New /\ New \subseteq archive'
  OBVIOUS
<1>3. IsFiniteSet(archive')
  BY DEF FileType
<1> HIDE DEF Old, New
<1>4. IsFiniteSet(New) /\ Cardinality(Old) <= Cardinality(New)
  BY <1>2, <1>3, FS_Subset
<1>5. Cardinality(Old) \in Nat /\ Cardinality(New) \in Nat /\ Retention \in Nat
  BY <1>2, <1>4, FS_Subset, FS_CardinalityType, RetentionAssumption
<1>6. Cardinality(New) >= Retention
  BY <1>1, <1>4, <1>5
<1> QED
  BY <1>6 DEF New

\* A process that moves on.
LEMMA Moves ==
    ASSUME AInv, NEW i \in Invocations, NEW l \in Labels, NEW m \in Memory,
           pc' = [pc EXCEPT ![i] = l], mem' = [mem EXCEPT ![i] = m], UNCHANGED lock
    PROVE  LocalType' /\ Others(i) /\ pc'[i] = l /\ mem'[i] = m
BY DEF AInv, LocalType, Others

\* A process that moves on with what it holds.
LEMMA Goes ==
    ASSUME AInv, NEW i \in Invocations, NEW l \in Labels, Goto(i, l)
    PROVE  LocalType' /\ Others(i) /\ pc'[i] = l /\ mem'[i] = mem[i] /\ lock' = lock
BY DEF AInv, LocalType, Others, Goto

\* A process that ends.
LEMMA Exits ==
    ASSUME AInv, NEW i \in Invocations, Exit(i)
    PROVE  LocalType' /\ Others(i) /\ At(i)'
<1>1. LocalType' /\ Others(i) /\ pc'[i] = "idle"
  BY BlankType DEF AInv, LocalType, Others, Exit, Labels
<1> QED
  BY <1>1 DEF At, Working, Writing, Archived, Replaced

\* A step of a process that leaves the files alone.
LEMMA Quiet ==
    ASSUME AInv, NEW i \in Invocations, UNCHANGED files, Others(i), LocalType', WorldType', At(i)'
    PROVE  AInv'
BY FilesAlone, Together

\* Before it reads the panes, a process relies on its lock alone.
LEMMA Early ==
    ASSUME NEW i, pc'[i] \in {"idle", "start", "waiting", "dispatch", "check", "save", "look"},
           pc'[i] \in Working => lock' = i
    PROVE  At(i)'
BY DEF At, Writing, Archived, Replaced

-----------------------------------------------------------------------------
(* The steps before a save *)

\* The start of a process, by a notification or without.
LEMMA StartSteps ==
    ASSUME AInv, NEW i \in Invocations,
           (\E k \in Kinds : Start(i, k)) \/ (\E n \in notes : StartEvent(i, n))
    PROVE  AInv'
<1>1. LocalType /\ WorldType
  BY DEF AInv
<1>2. PICK m \in Memory : mem' = [mem EXCEPT ![i] = m]
  <2>1. ASSUME NEW k \in Kinds, Start(i, k) PROVE \E m \in Memory : mem' = [mem EXCEPT ![i] = m]
    <3>1. k \in Automatic \union {"save"}
      BY KindAssumption DEF Automatic
    <3>2. [Blank EXCEPT !.kind = k] \in Memory
      BY <3>1, BlankType DEF Memory
    <3> QED
      BY <2>1, <3>2 DEF Start
  <2>2. ASSUME NEW n \in notes, StartEvent(i, n)
        PROVE  \E m \in Memory : mem' = [mem EXCEPT ![i] = m]
    <3>1. n.on \in Automatic /\ n.pane \in Panes
      BY <1>1 DEF WorldType, Automatic
    <3>2. [Blank EXCEPT !.kind = n.on, !.pane = n.pane] \in Memory
      BY <3>1, BlankType DEF Memory
    <3> QED
      BY <2>2, <3>2 DEF StartEvent
  <2> QED
    BY <2>1, <2>2
<1>4. /\ pc' = [pc EXCEPT ![i] = "start"] /\ UNCHANGED <<lock, files, host, gen, clock, lost>>
      /\ notes' \subseteq notes
  BY DEF Start, StartEvent, world
<1>5. LocalType' /\ Others(i) /\ pc'[i] = "start"
  BY <1>2, <1>4, Moves DEF Labels
<1>6. At(i)'
  BY <1>5, Early DEF Working
<1>7. WorldType'
  BY <1>1, <1>4 DEF WorldType
<1> QED
  BY <1>4, <1>5, <1>6, <1>7, Quiet

\* The lock is taken when it is free.
LEMMA AcquireStep ==
    ASSUME AInv, NEW i \in Invocations, Acquire(i)
    PROVE  AInv'
<1>1. LocalType /\ WorldType
  BY DEF AInv
<1>2. PICK l \in {"dispatch", "save"} : pc' = [pc EXCEPT ![i] = l]
  BY DEF Acquire
<1>3. PICK b \in BOOLEAN : mem' = [mem EXCEPT ![i].contended = b]
  BY DEF Acquire
<1>4. mem' \in [Invocations -> Memory] /\ \A j \in Invocations \ {i} : mem'[j] = mem[j]
  BY <1>1, <1>3 DEF LocalType, Memory
<1>5. lock = None /\ lock' = i /\ UNCHANGED <<files, world, lost>>
  BY DEF Acquire
<1>6. LocalType' /\ Others(i) /\ pc'[i] = l
  BY <1>1, <1>2, <1>4, <1>5, ProcessAssumption DEF LocalType, Others, Labels
<1>7. At(i)'
  BY <1>5, <1>6, Early
<1>8. WorldType'
  BY <1>1, <1>5 DEF WorldType, world
<1> QED
  BY <1>5, <1>6, <1>7, <1>8, Quiet

\* Moves of the dispatch, and all exits that change no file.
LEMMA PlainSteps ==
    ASSUME AInv, NEW i \in Invocations,
           \/ Contend(i) \/ DispatchSave(i) \/ DispatchCheck(i) \/ DispatchSkip(i) \/ Check(i)
           \/ Fail(i)
    PROVE  AInv'
<1>1. LocalType /\ WorldType /\ At(i)
  BY DEF AInv
<1>2. UNCHANGED <<files, world>> /\ lost' \in BOOLEAN
  BY <1>1 DEF Contend, DispatchSave, DispatchCheck, DispatchSkip, Check, Fail, WorldType
<1>3. WorldType'
  BY <1>1, <1>2 DEF WorldType, world
<1>4. CASE Exit(i)
  BY <1>2, <1>3, <1>4, Exits, Quiet
<1>5. ASSUME NEW l \in {"waiting", "save", "check"}, Goto(i, l), l # "waiting" => pc[i] \in Working
      PROVE  AInv'
  <2>1. LocalType' /\ Others(i) /\ pc'[i] = l /\ lock' = lock
    BY <1>5, Goes DEF Labels
  <2>2. At(i)'
    BY <1>1, <1>5, <2>1, Early DEF Working, At
  <2> QED
    BY <1>2, <1>3, <2>1, <2>2, Quiet
<1>6. CASE DispatchSave(i) \/ DispatchCheck(i)
  BY <1>5, <1>6 DEF DispatchSave, DispatchCheck, Working, Labels
<1>7. CASE Contend(i) \/ DispatchSkip(i) \/ Check(i) \/ Fail(i)
  BY <1>4, <1>5, <1>7 DEF Contend, DispatchSkip, Check, Fail, Working, Labels
<1> QED
  BY <1>6, <1>7

-----------------------------------------------------------------------------
(* The capture *)

\* What is captured is a snapshot, with the agents of the previous one.
LEMMA ReadTypes ==
    ASSUME AInv, NEW i \in Invocations, pc[i] = "read",
           NEW raw, raw = [p \in Panes |-> [command |-> CommandOf(i, p), place |-> PlaceOf(i, p)]],
           \A p \in Panes : raw[p].command # None
    PROVE  /\ raw \in Saved
           /\ latest.now # NoFile => Retained(raw, latest.now.snap) \in Saved
<1>1. /\ host \in [Panes -> Pane] /\ mem[i].view \in [Panes -> Views]
      /\ latest.now # NoFile => latest.now.snap \in Saved
  BY DEF AInv, WorldType, At, FileType, FileOf, Snapshots
<1>2. ASSUME NEW p \in Panes PROVE raw[p] \in [command : Commands, place : Places]
  <2>1. raw[p].command \in Commands
    BY <1>1 DEF CommandOf, Commands, Pane, Views
  <2>2. raw[p].place \in Places
    BY <1>1 DEF PlaceOf, Pane, Views
  <2> QED
    BY <2>1, <2>2
<1>3. raw \in Saved
  BY <1>2 DEF Saved
<1>4. ASSUME latest.now # NoFile PROVE Retained(raw, latest.now.snap) \in Saved
  BY <1>1, <1>3, <1>4 DEF Retained, Saved
<1> QED
  BY <1>3, <1>4

\* The steps of a capture.
LEMMA CaptureSteps ==
    ASSUME AInv, NEW i \in Invocations, SaveBegin(i) \/ Look(i) \/ Read(i) \/ ReadAgain(i)
    PROVE  AInv'
<1>1. LocalType /\ WorldType /\ At(i) /\ UNCHANGED <<lock, files, world, lost>> /\ mem[i] \in Memory
  BY DEF AInv, SaveBegin, Look, Read, ReadAgain, LocalType
<1>2. WorldType' /\ pc[i] \in Working /\ lock' = i
  BY <1>1 DEF WorldType, world, SaveBegin, Look, Read, ReadAgain, Working, Labels, At
<1>3. CASE SaveBegin(i) \/ ReadAgain(i)
  <2>1. PICK m \in Memory : mem' = [mem EXCEPT ![i] = m]
    <3>1. [mem[i] EXCEPT !.gen = gen] \in Memory
      BY <1>1 DEF Memory, WorldType
    <3>2. [mem[i] EXCEPT !.again = TRUE, !.view = None] \in Memory
      BY <1>1 DEF Memory
    <3> QED
      BY <1>3, <3>1, <3>2, ZenonT(30) DEF SaveBegin, ReadAgain
  <2>2. LocalType' /\ Others(i) /\ pc'[i] = "look"
    BY <1>1, <1>3, <2>1, Moves DEF SaveBegin, ReadAgain, Labels
  <2> QED
    BY <1>1, <1>2, <2>2, Early, Quiet
<1>4. CASE Look(i)
  <2> DEFINE v == [p \in Panes |-> [session |-> host[p].session, place |-> host[p].place]]
             m == [mem[i] EXCEPT !.view = v]
  <2>1. v \in [Panes -> Views]
    BY <1>1 DEF WorldType, Pane, Views
  <2>2. m \in Memory /\ m.view = v
    BY <1>1, <2>1 DEF Memory
  <2>3. mem' = [mem EXCEPT ![i] = m] /\ pc' = [pc EXCEPT ![i] = "read"]
    BY <1>4 DEF Look
  <2> HIDE DEF m, v
  <2>4. LocalType' /\ Others(i) /\ pc'[i] = "read" /\ mem'[i] = m
    BY <1>1, <2>2, <2>3, Moves DEF Labels
  <2>5. At(i)'
    BY <1>2, <2>1, <2>2, <2>4 DEF At, Writing, Archived, Replaced
  <2> QED
    BY <1>1, <1>2, <2>4, <2>5, Quiet
<1>5. CASE Read(i)
  <2> DEFINE raw == [p \in Panes |-> [command |-> CommandOf(i, p), place |-> PlaceOf(i, p)]]
             merged == IF mem[i].kind \in Automatic /\ latest.now # NoFile
                       THEN Retained(raw, latest.now.snap) ELSE raw
             m == [mem[i] EXCEPT !.view = None, !.raw = raw, !.snap = merged, !.ms = clock]
  <2>1. raw \in Saved /\ merged \in Saved
    BY <1>5, ReadTypes DEF Read
  <2> HIDE DEF raw, merged
  <2>2. m \in Memory /\ m.snap = merged
    BY <1>1, <2>1 DEF Memory, WorldType
  <2>3. mem' = [mem EXCEPT ![i] = m] /\ pc' = [pc EXCEPT ![i] = "archive"]
    BY <1>5 DEF Read, raw, merged
  <2> HIDE DEF m
  <2>4. LocalType' /\ Others(i) /\ pc'[i] = "archive" /\ mem'[i] = m
    BY <1>1, <2>2, <2>3, Moves DEF Labels
  <2>5. At(i)'
    BY <1>2, <2>1, <2>2, <2>4 DEF At, Writing, Archived, Replaced
  <2> QED
    BY <1>1, <1>2, <2>4, <2>5, Quiet
<1> QED
  BY <1>3, <1>4, <1>5

-----------------------------------------------------------------------------
(* The files *)

\* Adding a file to the history, or making it durable.
LEMMA ArchiveSteps ==
    ASSUME AInv, NEW i \in Invocations, Archive(i) \/ ArchiveSync(i) \/ PruneSync(i)
    PROVE  AInv'
<1>1. /\ LocalType /\ WorldType /\ FileType /\ At(i) /\ OrderInv /\ mem[i] \in Memory
      /\ UNCHANGED <<latest, lastSave, saves, world, lost>>
  BY DEF AInv, Archive, ArchiveSync, PruneSync, LocalType
<1>2. WorldType' /\ pc[i] \in Working /\ lock = i
  BY <1>1 DEF WorldType, world, Archive, ArchiveSync, PruneSync, Working, Labels, At
<1>3. CASE Archive(i)
  <2> DEFINE f == OwnFile(i)
  <2>1. /\ pc[i] = "archive" /\ Goto(i, "archiveSync")
        /\ archive' = archive \union {f}
        /\ unsynced' = IF f \in archive THEN unsynced ELSE unsynced \union {f}
    BY <1>3 DEF Archive, OwnFile
  <2>2. f \in History
    BY <1>1, <2>1 DEF OwnFile, History, Memory, At, Writing
  <2>3. LocalType' /\ Others(i) /\ pc'[i] = "archiveSync" /\ mem'[i] = mem[i] /\ lock' = lock
    BY <2>1, Goes DEF Labels
  <2>4. At(i)'
    BY <1>1, <1>2, <2>1, <2>3 DEF At, Writing, Archived, Replaced, OwnFile
  <2> HIDE DEF f
  <2>5. FileType'
    BY <1>1, <2>1, <2>2, FS_AddElement DEF FileType
  <2>6. LatestInHistory'
    BY <1>1, <2>1, <2>5, HistoryGrows DEF OrderInv
  <2>7. OrderInv'
    BY <1>1, <2>6 DEF OrderInv, CountInv, LastSaveNotAhead
  <2> QED
    BY <1>2, <2>3, <2>4, <2>5, <2>7, Together
<1>4. CASE ArchiveSync(i) \/ PruneSync(i)
  <2>1. /\ unsynced' = {} /\ archive' = archive
        /\ \/ pc[i] = "archiveSync" /\ Goto(i, "latest")
           \/ pc[i] = "pruneSync" /\ Goto(i, "stamp")
    BY <1>4 DEF ArchiveSync, PruneSync
  <2>2. PICK l \in {"latest", "stamp"} : Goto(i, l) /\ (l = "latest" <=> pc[i] = "archiveSync")
                                         /\ (l = "stamp" <=> pc[i] = "pruneSync")
    BY <2>1
  <2>3. LocalType' /\ Others(i) /\ pc'[i] = l /\ mem'[i] = mem[i] /\ lock' = lock
    BY <2>2, Goes DEF Labels
  <2>4. At(i)'
    BY <1>1, <1>2, <2>1, <2>2, <2>3 DEF At, Writing, Archived, Replaced, OwnFile
  <2>5. FileType'
    BY <1>1, <2>1, FS_EmptySet DEF FileType
  <2>6. LatestInHistory'
    BY <1>1, <2>1, <2>5, HistoryGrows DEF OrderInv
  <2>7. OrderInv'
    BY <1>1, <2>6 DEF OrderInv, CountInv, LastSaveNotAhead
  <2> QED
    BY <1>2, <2>3, <2>4, <2>5, <2>7, Together
<1> QED
  BY <1>3, <1>4

\* latest.json is replaced by a snapshot that has its history file already.
LEMMA LatestStep ==
    ASSUME AInv, NEW i \in Invocations, Latest(i)
    PROVE  AInv'
<1> DEFINE v == [n |-> saves + 1, ms |-> mem[i].ms, snap |-> mem[i].snap]
<1>1. /\ LocalType /\ WorldType /\ FileType /\ At(i) /\ OrderInv /\ mem[i] \in Memory
      /\ pc[i] = "latest" /\ Goto(i, "latestSync")
      /\ saves' = saves + 1 /\ latest' = Renamed(latest, v)
      /\ UNCHANGED <<lastSave, archive, unsynced, world, lost>>
  BY DEF AInv, Latest, LocalType
<1>2. WorldType' /\ pc[i] \in Working /\ lock = i
  BY <1>1 DEF WorldType, world, Working, Labels, At
<1>3. LocalType' /\ Others(i) /\ pc'[i] = "latestSync" /\ mem'[i] = mem[i] /\ lock' = lock
  BY <1>1, Goes DEF Labels
<1>4. v \in Snapshots /\ v # NoFile
  BY <1>1, FileAssumption DEF FileType, At, Memory, Snapshots, Writing
<1>5. v.n = saves + 1 /\ OwnFile(i) = [ms |-> v.ms, snap |-> v.snap]
  BY DEF OwnFile
<1>6. OwnFile(i) \in archive \ unsynced
  BY <1>1 DEF At, Archived
<1> HIDE DEF v
<1>7. latest'.now = v /\ latest'.after = latest.after \union {v}
  BY <1>1 DEF Renamed
<1>8. FileType'
  BY <1>1, <1>4 DEF FileType, FileOf, Renamed
<1>9. At(i)'
  BY <1>1, <1>2, <1>3, <1>4, <1>5, <1>7 DEF At, Writing, Archived, Replaced
<1>10. /\ \A w \in latest.after \ {NoFile} : w.n \in Nat /\ w.n <= saves
       /\ \A s \in lastSave.after \ {NoFile} : s.n \in Nat
       /\ saves \in Nat /\ latest.now \in latest.after
  BY <1>1 DEF FileType, FileOf, Snapshots, Stamps, OrderInv, CountInv
<1>11. CountInv'
  BY <1>1, <1>5, <1>7, <1>10 DEF CountInv
<1>12. LastSaveNotAhead'
  <2>1. ASSUME NEW s \in lastSave.after \ {NoFile} PROVE s.n <= saves
    <3>1. latest.now # NoFile /\ s.n <= latest.now.n
      BY <1>1, <1>10 DEF OrderInv, LastSaveNotAhead
    <3> QED
      BY <1>10, <3>1
  <2>2. \A s \in lastSave.after \ {NoFile}, w \in latest.after : w # NoFile /\ s.n <= w.n
    BY <1>1 DEF OrderInv, LastSaveNotAhead
  <2> QED
    BY <1>1, <1>4, <1>5, <1>7, <1>10, <2>1, <2>2 DEF LastSaveNotAhead
<1>13. LatestInHistory'
  BY <1>1, <1>5, <1>6, <1>7 DEF OrderInv, LatestInHistory
<1> QED
  BY <1>2, <1>3, <1>8, <1>9, <1>11, <1>12, <1>13, Together DEF OrderInv

\* The directory of latest.json is synced: the snapshot before cannot come back.
LEMMA LatestSyncStep ==
    ASSUME AInv, NEW i \in Invocations, LatestSync(i)
    PROVE  AInv'
<1> DEFINE m == [mem[i] EXCEPT !.raw = None, !.snap = None, !.ms = 0]
<1>1. /\ LocalType /\ WorldType /\ FileType /\ At(i) /\ OrderInv /\ mem[i] \in Memory
      /\ pc[i] = "latestSync" /\ latest' = Synced(latest)
      /\ pc' = [pc EXCEPT ![i] = "prune"] /\ mem' = [mem EXCEPT ![i] = m]
      /\ UNCHANGED <<lock, lastSave, archive, unsynced, saves, world, lost>>
  BY DEF AInv, LatestSync, LocalType
<1>2. WorldType' /\ pc[i] \in Working /\ lock = i
  BY <1>1 DEF WorldType, world, Working, Labels, At
<1>3. m \in Memory
  <2>1. 0 \in 0 .. MaxTime
    BY FileAssumption
  <2>2. ASSUME NEW u \in Memory, NEW t \in 0 .. MaxTime
        PROVE  [u EXCEPT !.raw = None, !.snap = None, !.ms = t] \in Memory
    BY DEF Memory
  <2> QED
    BY <1>1, <2>1, <2>2
<1> HIDE DEF m
<1>4. LocalType' /\ Others(i) /\ pc'[i] = "prune"
  BY <1>1, <1>3, Moves DEF Labels
<1>5. /\ latest'.now = latest.now /\ latest'.after = {latest.now} /\ latest.now \in latest.after
  BY <1>1 DEF Synced, FileType, FileOf
<1>6. FileType'
  BY <1>1, <1>5 DEF FileType, FileOf, Synced
<1>7. At(i)'
  BY <1>1, <1>2, <1>4, <1>5 DEF At, Writing, Archived, Replaced
<1>8. LatestInHistory'
  BY <1>1, <1>5, <1>6, HistoryGrows DEF OrderInv
<1>9. OrderInv'
  BY <1>1, <1>5, <1>8 DEF OrderInv, CountInv, LastSaveNotAhead
<1> QED
  BY <1>2, <1>4, <1>6, <1>7, <1>9, Together

\* The oldest history file goes: it is older than the newest snapshot, or all that stay,
\* as many as are retained, are no older.
LEMMA PruneSteps ==
    ASSUME AInv, NEW i \in Invocations, Prune(i) \/ Pruned(i)
    PROVE  AInv'
<1>1. /\ LocalType /\ WorldType /\ FileType /\ At(i) /\ OrderInv
      /\ pc[i] = "prune" /\ UNCHANGED <<latest, lastSave, saves, world, lost>>
  BY DEF AInv, Prune, Pruned, files
<1>2. WorldType' /\ pc[i] \in Working /\ lock = i
  BY <1>1 DEF WorldType, world, Working, Labels, At
<1>3. CASE Pruned(i)
  <2>1. LocalType' /\ Others(i) /\ pc'[i] = "pruneSync" /\ mem'[i] = mem[i] /\ lock' = lock
    BY <1>3, Goes DEF Pruned, Labels
  <2>2. UNCHANGED files
    BY <1>3 DEF Pruned
  <2>3. At(i)'
    BY <1>1, <1>2, <2>1, <2>2 DEF At, Writing, Archived, Replaced, files
  <2> QED
    BY <1>2, <2>1, <2>2, <2>3, Quiet
<1>4. CASE Prune(i)
  <2>1. PICK f \in archive :
          /\ \A other \in archive : f.ms <= other.ms
          /\ archive' = archive \ {f} /\ unsynced' = unsynced \union {f}
          /\ UNCHANGED local /\ Cardinality(archive) > Retention
    BY <1>4 DEF Prune
  <2>2. /\ archive \ {f} = archive' \ unsynced' /\ IsFiniteSet(archive \ {f})
        /\ Cardinality(archive \ {f}) >= Retention
    <3>1. archive \intersect unsynced = {} /\ IsFiniteSet(archive)
      BY <1>1 DEF At, Archived, FileType
    <3>2. IsFiniteSet(archive \ {f}) /\ Cardinality(archive \ {f}) = Cardinality(archive) - 1
      BY <2>1, <3>1, FS_RemoveElement
    <3>3. Cardinality(archive) \in Nat /\ Retention \in Nat
      BY <3>1, FS_CardinalityType, RetentionAssumption
    <3> QED
      BY <2>1, <3>1, <3>2, <3>3
  <2>3. LocalType' /\ Others(i) /\ pc'[i] = "prune" /\ mem'[i] = mem[i] /\ lock' = lock
    BY <1>1, <2>1 DEF local, LocalType, Others
  <2>4. FileType'
    BY <1>1, <2>1, FS_RemoveElement, FS_AddElement DEF FileType
  <2>5. At(i)'
    BY <1>1, <1>2, <2>1, <2>3 DEF At, Writing, Archived, Replaced
  <2>6. ASSUME NEW v \in latest.after \ {NoFile},
               [ms |-> v.ms, snap |-> v.snap] \notin archive' \ unsynced'
        PROVE  Cardinality({h \in archive' \ unsynced' : h.ms >= v.ms}) >= Retention
    <3>1. /\ v.ms \in Int /\ \A h \in archive : h.ms \in Int
          /\ archive \intersect unsynced = {}
      BY <1>1 DEF FileType, History, FileOf, Snapshots, At, Archived
    <3>2. CASE f.ms >= v.ms
      <4>1. {h \in archive' \ unsynced' : h.ms >= v.ms} = archive \ {f}
        BY <2>1, <2>2, <3>1, <3>2
      <4> QED
        BY <2>2, <4>1
    <3>3. CASE ~(f.ms >= v.ms)
      <4>1. {h \in archive' \ unsynced' : h.ms >= v.ms} = {h \in archive \ unsynced : h.ms >= v.ms}
        BY <2>1, <2>2, <3>1, <3>3
      <4>2. f # [ms |-> v.ms, snap |-> v.snap]
        BY <3>1, <3>3
      <4>3. [ms |-> v.ms, snap |-> v.snap] \notin archive \ unsynced
        BY <2>2, <2>6, <4>2
      <4> QED
        BY <1>1, <4>1, <4>3 DEF OrderInv, LatestInHistory
    <3> QED
      BY <3>2, <3>3
  <2>7. OrderInv'
    BY <1>1, <2>6 DEF OrderInv, CountInv, LastSaveNotAhead, LatestInHistory
  <2> QED
    BY <1>2, <2>3, <2>4, <2>5, <2>7, Together
<1> QED
  BY <1>3, <1>4

\* The stamp of a save is of the snapshot that is durable.
LEMMA StampSteps ==
    ASSUME AInv, NEW i \in Invocations, Stamp(i) \/ StampSync(i)
    PROVE  AInv'
<1>1. /\ LocalType /\ WorldType /\ FileType /\ At(i) /\ OrderInv /\ mem[i] \in Memory
      /\ UNCHANGED <<latest, archive, unsynced, saves, world, lost>>
  BY DEF AInv, Stamp, StampSync, LocalType
<1>2. WorldType' /\ pc[i] \in Working /\ lock = i
  BY <1>1 DEF WorldType, world, Stamp, StampSync, Working, Labels, At
<1>3. CASE Stamp(i)
  <2> DEFINE s == [n |-> saves, gen |-> mem[i].gen, ms |-> clock]
  <2>1. pc[i] = "stamp" /\ lastSave' = Renamed(lastSave, s) /\ Goto(i, "stampSync")
    BY <1>3 DEF Stamp
  <2>2. s \in Stamps /\ s.n = saves
    BY <1>1 DEF Stamps, FileType, Memory, WorldType
  <2> HIDE DEF s
  <2>3. LocalType' /\ Others(i) /\ pc'[i] = "stampSync" /\ mem'[i] = mem[i] /\ lock' = lock
    BY <2>1, Goes DEF Labels
  <2>4. FileType'
    BY <1>1, <2>1, <2>2 DEF FileType, FileOf, Renamed
  <2>5. At(i)'
    BY <1>1, <1>2, <2>1, <2>3 DEF At, Writing, Archived, Replaced
  <2>6. lastSave'.after = lastSave.after \union {s}
    BY <2>1 DEF Renamed
  <2>7. latest.after = {latest.now} /\ latest.now # NoFile /\ latest.now.n = saves /\ saves \in Nat
    BY <1>1, <2>1 DEF At, Replaced, FileType
  <2>8. LastSaveNotAhead'
    BY <1>1, <2>2, <2>6, <2>7 DEF OrderInv, LastSaveNotAhead
  <2>9. CountInv' /\ LatestInHistory'
    BY <1>1, <2>4, HistoryGrows DEF OrderInv, CountInv
  <2> QED
    BY <1>2, <2>3, <2>4, <2>5, <2>8, <2>9, Together DEF OrderInv
<1>4. CASE StampSync(i)
  <2>1. lastSave' = Synced(lastSave) /\ Exit(i)
    BY <1>4 DEF StampSync
  <2>2. lastSave'.after = {lastSave.now} /\ lastSave.now \in lastSave.after
    BY <1>1, <2>1 DEF Synced, FileType, FileOf
  <2>3. FileType'
    BY <1>1, <2>1, <2>2 DEF FileType, FileOf, Synced
  <2>4. LatestInHistory'
    BY <1>1, <2>3, HistoryGrows DEF OrderInv
  <2>5. OrderInv'
    BY <1>1, <2>2, <2>4 DEF OrderInv, CountInv, LastSaveNotAhead
  <2> QED
    BY <1>2, <2>1, <2>3, <2>5, Exits, Together
<1> QED
  BY <1>3, <1>4

-----------------------------------------------------------------------------
(* The machine and the host *)

\* A pane whose program has gone.
LEMMA ShellType ==
    ASSUME WorldType, NEW p \in Panes
    PROVE  AtShell(p) \in Pane /\ AtShell(p).run # "agent"
BY DEF WorldType, Pane, AtShell

\* Whatever a power cut leaves of the files, their order holds.
LEMMA PowerCutStep ==
    ASSUME AInv, PowerCut
    PROVE  AInv'
<1>1. LocalType /\ WorldType /\ FileType /\ OrderInv
  BY DEF AInv
<1>2. LocalType'
  BY <1>1, BlankType DEF PowerCut, LocalType, Labels
<1>3. WorldType'
  <2>1. host' = [p \in Panes |-> AtShell(p)] /\ notes' = {} /\ gen' = gen + 1
        /\ lost' = TRUE /\ clock' = clock
    BY DEF PowerCut
  <2> QED
    BY <1>1, <2>1, ShellType DEF WorldType
<1>4. PICK v \in latest.after, s \in lastSave.after, kept \in SUBSET unsynced :
        /\ latest' = Stored(v) /\ lastSave' = Stored(s) /\ archive' = (archive \ unsynced) \union kept
        /\ unsynced' = {} /\ saves' = saves
  BY DEF PowerCut
<1>5. latest'.after = {v} /\ lastSave'.after = {s}
  BY <1>4 DEF Stored
<1>6. FileType'
  <2>1. IsFiniteSet(kept) /\ IsFiniteSet(archive \ unsynced)
    BY <1>1, FS_Subset, FS_Difference DEF FileType
  <2>2. IsFiniteSet(archive') /\ IsFiniteSet(unsynced')
    BY <1>4, <2>1, FS_Union, FS_EmptySet
  <2>3. archive' \subseteq History /\ unsynced' \subseteq History
    BY <1>1, <1>4 DEF FileType
  <2>4. latest' \in FileOf(Snapshots \union {NoFile}) /\ lastSave' \in FileOf(Stamps \union {NoFile})
    BY <1>1, <1>4 DEF FileType, FileOf, Stored
  <2> QED
    BY <1>1, <1>4, <2>2, <2>3, <2>4 DEF FileType
<1>7. OrderInv'
  <2>1. CountInv' /\ LastSaveNotAhead'
    BY <1>1, <1>4, <1>5 DEF OrderInv, CountInv, LastSaveNotAhead
  <2>2. LatestInHistory'
    BY <1>1, <1>4, <1>5, <1>6, HistoryGrows DEF OrderInv
  <2> QED
    BY <2>1, <2>2 DEF OrderInv
<1>8. ASSUME NEW i \in Invocations PROVE At(i)'
  <2>1. pc'[i] = "idle"
    BY DEF PowerCut
  <2> QED
    BY <2>1, Early DEF Working
<1> QED
  BY <1>2, <1>3, <1>6, <1>7, <1>8 DEF AInv

\* A change of a pane, with its notifications.
LEMMA ChangeType ==
    ASSUME WorldType, NEW p \in Panes, NEW q \in Pane, NEW E, E \subseteq Events, Change(p, q, E)
    PROVE  WorldType' /\ UNCHANGED <<local, files>>
<1>1. \A e \in E : [on |-> e, pane |-> p] \in [on : Events, pane : Panes]
  OBVIOUS
<1>2. notes' \subseteq [on : Events, pane : Panes]
  BY <1>1 DEF Change, WorldType
<1> QED
  BY <1>2 DEF Change, WorldType

\* The host changes no file and no process.
LEMMA HostSteps ==
    ASSUME AInv, Host
    PROVE  AInv'
<1>1. LocalType /\ WorldType /\ \A i \in Invocations : At(i)
  BY DEF AInv
<1>2. WorldType' /\ UNCHANGED <<local, files>>
  <2>1. ASSUME NEW p \in Panes, AgentStarts(p) \/ AgentExits(p) \/ ProgramRuns(p) \/ ProgramExits(p)
        PROVE  WorldType' /\ UNCHANGED <<local, files>>
    <3>1. /\ AtShell(p) \in Pane
          /\ \A r \in {"shell", "program"} : [host[p] EXCEPT !.run = r] \in Pane
          /\ \A s \in Sessions \union {None} : [host[p] EXCEPT !.run = "agent", !.named = s] \in Pane
      BY <1>1 DEF WorldType, Pane, AtShell
    <3>2. PICK q \in Pane, E \in SUBSET Events : Change(p, q, E)
      BY <2>1, <3>1 DEF AgentStarts, AgentExits, ProgramRuns, ProgramExits, Events, Agents
    <3> QED
      BY <1>1, <3>2, ChangeType
  <2>2. ASSUME NEW p \in Panes, NEW s \in Sessions, SessionReported(p, s)
        PROVE  WorldType' /\ UNCHANGED <<local, files>>
    <3>1. [host[p] EXCEPT !.session = s] \in Pane /\ {"status"} \subseteq Events
      BY <1>1 DEF WorldType, Pane, Events, Agents
    <3> QED
      BY <1>1, <2>2, <3>1, ChangeType DEF SessionReported
  <2>3. ASSUME NEW p \in Panes, NEW d \in Places, DirectoryChanges(p, d)
        PROVE  WorldType' /\ UNCHANGED <<local, files>>
    <3>1. [host[p] EXCEPT !.place = d] \in Pane
      BY <1>1 DEF WorldType, Pane
    <3> QED
      BY <1>1, <2>3, <3>1, ChangeType DEF DirectoryChanges
  <2>4. CASE Restart
    BY <1>1, <2>4, ShellType DEF Restart, WorldType
  <2>5. CASE Tick
    BY <1>1, <2>5 DEF Tick, WorldType
  <2> QED
    BY <2>1, <2>2, <2>3, <2>4, <2>5 DEF Host
<1>3. LocalType'
  BY <1>1, <1>2 DEF LocalType, local
<1>4. \A i \in Invocations : At(i)'
  BY <1>1, <1>2 DEF At, local, files, OwnFile
<1> QED
  BY <1>2, <1>3, <1>4, FilesAlone DEF AInv

-----------------------------------------------------------------------------
(* The theorems *)

\* The invariant holds before the first process starts.
LEMMA Initially == Init => AInv
<1> SUFFICES ASSUME Init PROVE AInv
  OBVIOUS
<1>1. LocalType
  BY BlankType DEF Init, LocalType, Labels
<1>2. WorldType
  <2>1. host \in [Panes -> Pane]
    <3>1. AtStart \subseteq {"shell", "program", "agent"}
      BY KindAssumption
    <3>2. {h \in [run : AtStart, place : Places, session : Sessions \union {None}, named : {None}] :
             h.run = "agent" => h.session # None} \subseteq Pane
      BY <3>1 DEF Pane
    <3> QED
      BY <3>2 DEF Init
  <2>2. notes \subseteq [on : Events, pane : Panes]
    BY DEF Init, Events, Agents
  <2>3. gen = 1 /\ clock = 0 /\ lost = FALSE
    BY DEF Init
  <2>4. clock \in 0 .. MaxTime
    BY <2>3, FileAssumption
  <2> QED
    BY <2>1, <2>2, <2>3, <2>4 DEF WorldType
<1>3. FileType
  BY FS_EmptySet DEF Init, FileType, FileOf, Stored
<1>4. OrderInv
  BY DEF Init, OrderInv, CountInv, LastSaveNotAhead, LatestInHistory, Stored
<1>5. \A i \in Invocations : At(i)
  BY DEF Init, At, Working, Writing, Archived, Replaced
<1> QED
  BY <1>1, <1>2, <1>3, <1>4, <1>5 DEF AInv

\* Every step keeps the invariant.
LEMMA NextKeeps == AInv /\ [Next]_vars => AInv'
<1> SUFFICES ASSUME AInv, [Next]_vars PROVE AInv'
  OBVIOUS
<1>1. ASSUME NEW i \in Invocations, Step(i) \/ Fail(i) PROVE AInv'
  BY <1>1, AcquireStep, PlainSteps, CaptureSteps, ArchiveSteps, LatestStep, LatestSyncStep,
     PruneSteps, StampSteps DEF Step
<1>2. ASSUME NEW i \in Invocations, (\E k \in Kinds : Start(i, k)) \/ (\E n \in notes : StartEvent(i, n))
      PROVE  AInv'
  BY <1>2, StartSteps
<1>3. ASSUME UNCHANGED vars PROVE AInv'
  <2>1. LocalType' /\ WorldType' /\ UNCHANGED <<local, files>>
    BY <1>3 DEF AInv, vars, local, world, LocalType, WorldType
  <2>2. \A i \in Invocations : At(i)'
    BY <2>1 DEF AInv, At, local, files, OwnFile
  <2> QED
    BY <2>1, <2>2, FilesAlone DEF AInv
<1> QED
  BY <1>1, <1>2, <1>3, HostSteps, PowerCutStep DEF Next

\* Types, the lock, and how far the files are, at every moment.
THEOREM SavesInvariance == Spec => []AInv
<1> QED
  BY Initially, NextKeeps, PTL DEF Spec

\* What is in the variables is of its type: files, snapshots, processes (app::save).
THEOREM SaveTypes == Spec => []TypeOK
<1>1. AInv => TypeOK
  BY DEF AInv, LocalType, WorldType, FileType, TypeOK, Memory, Pane, History
<1> QED
  BY <1>1, SavesInvariance, PTL

\* last-save.json, which debounces the events, is never ahead of latest.json, on disk and
\* after any power cut (app::save, store::atomic_write).
THEOREM StampsBehind == Spec => []LastSaveNotAhead
<1>1. AInv => LastSaveNotAhead
  BY DEF AInv, OrderInv
<1> QED
  BY <1>1, SavesInvariance, PTL

\* The history has the newest snapshot, whichever step a failure or a power cut interrupts:
\* its file is written first, and pruning, which goes by the times in the names, takes it
\* only where as many files as are retained are no older (Store::save).
THEOREM HistoryHasLatest == Spec => []LatestInHistory
<1>1. AInv => LatestInHistory
  BY DEF AInv, OrderInv
<1> QED
  BY <1>1, SavesInvariance, PTL

-----------------------------------------------------------------------------
(* Sessions: what a save writes, and which event still answers for a pane *)

\* What a save is about to write: the panes it has read, with the agents kept that
\* latest.json has still.
Taken(i) ==
    pc[i] \in Writing =>
        /\ mem[i].raw \in Saved
        /\ mem[i].snap = IF mem[i].kind \in Automatic /\ latest.now # NoFile
                         THEN Retained(mem[i].raw, latest.now.snap) ELSE mem[i].raw

\* Points of the hook of an event before the sessions are looked at, and after.
Ahead == {"start", "waiting", "dispatch", "check", "save", "look"}
Under == {"read"} \union Writing

\* herdr reports a session for the agent that runs in the pane.
Owed(p) == host[p].run = "agent" /\ host[p].session # None

\* A process that has looked at the sessions has the one of the pane.
Carries(i, p) ==
    /\ pc[i] = "read" => mem[i].view[p].session = host[p].session
    /\ pc[i] \in Writing => mem[i].snap[p].command = host[p].session

\* The hook of an event about the pane that will look at its session, or carries it.
Hook(i, p) ==
    /\ mem[i].kind \in Agents /\ mem[i].pane = p
    /\ pc[i] \in Ahead \/ (pc[i] \in Under /\ Carries(i, p))

\* latest.json has the session, and no save under way takes it away.
Settled(p) ==
    /\ latest.now # NoFile /\ latest.now.snap[p].command = host[p].session
    /\ \A i \in Invocations : Carries(i, p)

\* A notification about the pane whose hook has not started.
Noted(p) == \E n \in notes : n.on \in Agents /\ n.pane = p

Answered(p) == Noted(p) \/ Settled(p) \/ \E i \in Invocations : Hook(i, p)

SInv ==
    /\ AInv
    /\ \A i \in Invocations : Taken(i)
    /\ lost \/ \A p \in Panes : Owed(p) => Answered(p)

\* One process at a time: what it owes for a pane passes to its next point or to
\* latest.json, and what others owe stays with them.
LEMMA Passes ==
    ASSUME SInv, AInv', NEW i \in Invocations, Others(i), UNCHANGED host, lost' \in BOOLEAN,
           lost => lost', latest'.now = latest.now, Taken(i)',
           \A p \in Panes, n \in notes \ notes' :
               n.on \in Agents /\ n.pane = p => Hook(i, p)',
           \A p \in Panes : ~lost' /\ Owed(p) /\ Hook(i, p) => Hook(i, p)' \/ Settled(p)',
           \A p \in Panes : Owed(p) /\ Settled(p) => Carries(i, p)'
    PROVE  SInv'
<1>1. ASSUME NEW j \in Invocations \ {i} PROVE Taken(j)'
  BY <1>1 DEF SInv, Taken, Others
<1>2. ASSUME ~lost', NEW p \in Panes, Owed(p)' PROVE Answered(p)'
  <2>1. Owed(p) /\ Answered(p)
    BY <1>2 DEF SInv, Owed
  <2>2. CASE Noted(p)
    BY <2>2 DEF Noted, Answered
  <2>3. CASE Settled(p)
    <3>1. \A j \in Invocations \ {i} : Carries(j, p)'
      BY <2>3 DEF Settled, Others, Carries
    <3> QED
      BY <2>1, <2>3, <3>1 DEF Settled, Answered
  <2>4. ASSUME NEW j \in Invocations, Hook(j, p) PROVE Answered(p)'
    <3>1. CASE j = i
      BY <1>2, <2>1, <2>4, <3>1 DEF Answered
    <3>2. CASE j # i
      <4>1. Hook(j, p)'
        BY <2>4, <3>2 DEF Hook, Others, Carries
      <4> QED
        BY <4>1 DEF Answered
    <3> QED
      BY <3>1, <3>2
  <2> QED
    BY <2>1, <2>2, <2>3, <2>4 DEF Answered
<1> QED
  BY <1>1, <1>2 DEF SInv

\* No other process has looked at the sessions while one holds the lock.
LEMMA Alone ==
    ASSUME AInv, NEW i \in Invocations, pc[i] \in Working, NEW p, NEW j \in Invocations \ {i}
    PROVE  pc[j] \notin Under /\ Carries(j, p)
<1>1. pc[j] \notin Working
  BY DEF AInv, At
<1> QED
  BY <1>1 DEF Carries, Under, Working, Writing, Labels

\* Hooks start and wait; one that gives up was not of an event about a session.
LEMMA StartPasses ==
    ASSUME SInv, AInv', NEW i \in Invocations,
           \/ (\E k \in Kinds : Start(i, k)) \/ (\E n \in notes : StartEvent(i, n))
           \/ Acquire(i) \/ Contend(i)
    PROVE  SInv'
<1>1. /\ UNCHANGED <<files, host, lost>> /\ mem \in [Invocations -> Memory]
      /\ pc \in [Invocations -> Labels] /\ lost \in BOOLEAN
  BY DEF SInv, AInv, LocalType, WorldType, Start, StartEvent, Acquire, Contend, world
<1>2. Others(i) /\ pc'[i] \in {"idle", "start", "waiting", "dispatch", "save"}
  <2>1. \A j \in Invocations \ {i} : pc'[j] = pc[j] /\ mem'[j] = mem[j]
    BY <1>1 DEF Start, StartEvent, Acquire, Contend, Goto, Exit
  <2>2. \A j \in Invocations \ {i} : lock = j => lock' = j
    BY ProcessAssumption DEF Start, StartEvent, Acquire, Contend, Goto, Exit
  <2>3. pc'[i] \in {"idle", "start", "waiting", "dispatch", "save"}
    BY <1>1 DEF Start, StartEvent, Acquire, Contend, Goto, Exit
  <2> QED
    BY <2>1, <2>2, <2>3 DEF Others
<1>3. \A p \in Panes : Carries(i, p)'
  BY <1>2 DEF Carries, Writing
<1>4. Taken(i)'
  BY <1>2 DEF Taken, Writing
<1>5. ASSUME NEW p \in Panes, Hook(i, p) PROVE Hook(i, p)'
  <2>1. mem[i].kind \in Events /\ pc[i] # "idle"
    BY <1>5 DEF Hook, Events, Ahead, Under, Writing
  <2>2. Acquire(i) \/ (Contend(i) /\ Goto(i, "waiting"))
    BY <2>1 DEF Start, StartEvent, Contend
  <2>3. mem'[i].kind = mem[i].kind /\ mem'[i].pane = mem[i].pane /\ pc'[i] \in Ahead
    BY <1>1, <2>2 DEF Acquire, Goto, Ahead, Memory
  <2> QED
    BY <1>5, <2>3 DEF Hook
<1>6. ASSUME NEW p \in Panes, NEW n \in notes \ notes', n.on \in Agents /\ n.pane = p
      PROVE  Hook(i, p)'
  <2>1. StartEvent(i, n)
    BY <1>6 DEF Start, StartEvent, Acquire, Contend, world
  <2>2. mem'[i].kind = n.on /\ mem'[i].pane = n.pane /\ pc'[i] = "start"
    BY <1>1, <2>1 DEF StartEvent, Blank
  <2> QED
    BY <1>6, <2>2 DEF Hook, Ahead
<1> QED
  BY <1>1, <1>2, <1>3, <1>4, <1>5, <1>6, Passes DEF files

\* The dispatch of an event about a session saves, or finds the session in latest.json.
LEMMA DispatchPasses ==
    ASSUME SInv, AInv', NEW i \in Invocations,
           DispatchSave(i) \/ DispatchCheck(i) \/ DispatchSkip(i) \/ Check(i)
    PROVE  SInv'
<1>1. /\ UNCHANGED <<files, world, lost>> /\ mem \in [Invocations -> Memory]
      /\ pc \in [Invocations -> Labels] /\ lost \in BOOLEAN /\ pc[i] \in {"dispatch", "check"}
  BY DEF SInv, AInv, LocalType, WorldType, DispatchSave, DispatchCheck, DispatchSkip, Check
<1>2. lock = i
  BY <1>1 DEF SInv, AInv, At, Working, Labels
<1>3. (\E l \in {"save", "check"} : Goto(i, l)) \/ Exit(i)
  BY DEF DispatchSave, DispatchCheck, DispatchSkip, Check
<1>4. Others(i) /\ pc'[i] \in {"idle", "save", "check"}
  BY <1>1, <1>2, <1>3 DEF Others, Goto, Exit
<1>5. (\A p \in Panes : Carries(i, p)') /\ Taken(i)'
  BY <1>4 DEF Carries, Taken, Writing
<1>6. ASSUME NEW p \in Panes, Owed(p), Hook(i, p) PROVE Hook(i, p)' \/ Settled(p)'
  <2>1. CASE \E l \in {"save", "check"} : Goto(i, l)
    BY <1>1, <1>6, <2>1 DEF Goto, Hook, Ahead
  <2>2. CASE Exit(i) /\ ~\E l \in {"save", "check"} : Goto(i, l)
    <3>1. mem[i].kind # "other" /\ mem[i].pane = p
      BY <1>6 DEF Hook, Agents
    <3>2. Check(i) /\ ~NeedsCapture(p)
      BY <2>2, <3>1 DEF DispatchSave, DispatchCheck, DispatchSkip, Check
    <3>3. latest.now # NoFile /\ latest.now.snap[p] = [command |-> host[p].session, place |-> host[p].place]
      BY <1>6, <3>2 DEF NeedsCapture, Owed
    <3>4. latest.now.snap[p].command = host[p].session
      BY <3>3
    <3>5. \A j \in Invocations : Carries(j, p)'
      <4>1. ASSUME NEW j \in Invocations \ {i} PROVE Carries(j, p)'
        <5>1. Carries(j, p)
          BY <1>1, Alone DEF SInv, Working, Labels
        <5> QED
          BY <1>1, <1>4, <5>1 DEF Carries, Others, world
      <4> QED
        BY <1>5, <4>1
    <3> QED
      BY <1>1, <3>3, <3>4, <3>5 DEF Settled, files, world
  <2> QED
    BY <1>3, <2>1, <2>2
<1> QED
  BY <1>1, <1>4, <1>5, <1>6, Passes DEF files, world

\* An agent is captured as the session seen before, and no merge changes that.
LEMMA ReadCarries ==
    ASSUME SInv, NEW i \in Invocations, Read(i), NEW p \in Panes, Owed(p), Carries(i, p),
           NEW raw, raw = [q \in Panes |-> [command |-> CommandOf(i, q), place |-> PlaceOf(i, q)]],
           NEW old
    PROVE  raw[p].command = host[p].session /\ Retained(raw, old)[p] = raw[p]
<1>1. raw[p].command = host[p].session
  BY DEF Read, Carries, CommandOf, Owed
<1>2. host[p].session \in Sessions
  BY DEF SInv, AInv, WorldType, Pane, Owed
<1> QED
  BY <1>1, <1>2, SessionAssumption DEF Retained

\* Looking at the sessions and reading the panes: the session found is carried on.
LEMMA CapturePasses ==
    ASSUME SInv, AInv', NEW i \in Invocations, SaveBegin(i) \/ Look(i) \/ Read(i) \/ ReadAgain(i)
    PROVE  SInv'
<1>1. /\ UNCHANGED <<lock, files, world, lost>> /\ mem \in [Invocations -> Memory]
      /\ pc \in [Invocations -> Labels] /\ lost \in BOOLEAN
  BY DEF SInv, AInv, LocalType, WorldType, SaveBegin, Look, Read, ReadAgain
<1>2. Others(i)
  BY <1>1 DEF Others, SaveBegin, Look, Read, ReadAgain
<1>3. mem'[i].kind = mem[i].kind /\ mem'[i].pane = mem[i].pane
  <2>1. ASSUME NEW m \in Memory, NEW a, NEW b, NEW c, NEW d
        PROVE  /\ [m EXCEPT !.view = a, !.raw = b, !.snap = c, !.ms = d].kind = m.kind
               /\ [m EXCEPT !.view = a, !.raw = b, !.snap = c, !.ms = d].pane = m.pane
    BY DEF Memory
  <2>2. CASE Read(i)
    <3> DEFINE raw == [p \in Panes |-> [command |-> CommandOf(i, p), place |-> PlaceOf(i, p)]]
               merged == IF mem[i].kind \in Automatic /\ latest.now # NoFile
                         THEN Retained(raw, latest.now.snap) ELSE raw
    <3>1. mem'[i] = [mem[i] EXCEPT !.view = None, !.raw = raw, !.snap = merged, !.ms = clock]
      BY <1>1, <2>2 DEF Read
    <3> HIDE DEF raw, merged
    <3> QED
      BY <1>1, <2>1, <3>1
  <2> QED
    BY <1>1, <2>2 DEF SaveBegin, Look, ReadAgain, Memory
<1>4. CASE SaveBegin(i) \/ ReadAgain(i)
  <2>1. pc'[i] = "look"
    BY <1>1, <1>4 DEF SaveBegin, ReadAgain
  <2>2. \A p \in Panes : Carries(i, p)' /\ (Hook(i, p) => Hook(i, p)')
    BY <1>3, <2>1 DEF Carries, Hook, Ahead, Writing
  <2> QED
    BY <1>1, <1>2, <2>1, <2>2, Passes DEF Taken, Writing, files, world
<1>5. CASE Look(i)
  <2>1. pc'[i] = "read" /\ \A p \in Panes : mem'[i].view[p].session = host[p].session
    BY <1>1, <1>5 DEF Look, Memory
  <2>2. \A p \in Panes : Carries(i, p)'
    BY <1>1, <2>1 DEF Carries, Writing, world
  <2>3. \A p \in Panes : Hook(i, p) => Hook(i, p)'
    BY <1>3, <2>1, <2>2 DEF Hook, Under
  <2> QED
    BY <1>1, <1>2, <2>1, <2>2, <2>3, Passes DEF Taken, Writing, files, world
<1>6. CASE Read(i)
  <2> DEFINE raw == [p \in Panes |-> [command |-> CommandOf(i, p), place |-> PlaceOf(i, p)]]
             merged == IF mem[i].kind \in Automatic /\ latest.now # NoFile
                       THEN Retained(raw, latest.now.snap) ELSE raw
  <2>1. /\ pc[i] = "read" /\ pc'[i] = "archive" /\ raw \in Saved
        /\ mem'[i].raw = raw /\ mem'[i].snap = merged
    <3>1. raw \in Saved
      BY <1>6, ReadTypes DEF Read, SInv
    <3>2. mem'[i] = [mem[i] EXCEPT !.view = None, !.raw = raw, !.snap = merged, !.ms = clock]
      BY <1>1, <1>6 DEF Read
    <3>3. \A m \in Memory : \A a, b, c, d :
            /\ [m EXCEPT !.view = a, !.raw = b, !.snap = c, !.ms = d].raw = b
            /\ [m EXCEPT !.view = a, !.raw = b, !.snap = c, !.ms = d].snap = c
      BY DEF Memory
    <3>4. pc[i] = "read" /\ pc'[i] = "archive"
      BY <1>1, <1>6 DEF Read
    <3> HIDE DEF raw, merged
    <3> QED
      BY <1>1, <3>1, <3>2, <3>3, <3>4
  <2>2. \A p \in Panes : Owed(p) /\ Carries(i, p) => merged[p].command = host[p].session
    BY <1>6, ReadCarries
  <2> HIDE DEF raw
  <2>3. Taken(i)'
    BY <1>1, <1>3, <2>1 DEF Taken, files
  <2> HIDE DEF merged
  <2>4. \A p \in Panes : Owed(p) /\ Carries(i, p) => Carries(i, p)'
    BY <1>1, <2>1, <2>2 DEF Carries, world
  <2>5. \A p \in Panes : Owed(p) /\ Hook(i, p) => Hook(i, p)'
    BY <1>3, <2>1, <2>4 DEF Hook, Under, Ahead, Writing
  <2>6. \A p \in Panes : Settled(p) => Carries(i, p)
    BY DEF Settled
  <2> QED
    BY <1>1, <1>2, <2>3, <2>4, <2>5, <2>6, Passes DEF files, world
<1> QED
  BY <1>4, <1>5, <1>6

\* Beside the replacement of latest.json, what a save writes stays what it carries.
LEMMA WritePasses ==
    ASSUME SInv, AInv', NEW i \in Invocations,
           \/ Archive(i) \/ ArchiveSync(i) \/ LatestSync(i) \/ Prune(i) \/ Pruned(i)
           \/ PruneSync(i) \/ Stamp(i) \/ StampSync(i)
    PROVE  SInv'
<1>1. /\ UNCHANGED <<world, lost>> /\ mem \in [Invocations -> Memory]
      /\ pc \in [Invocations -> Labels] /\ lost \in BOOLEAN /\ latest'.now = latest.now
  BY DEF SInv, AInv, LocalType, WorldType, Archive, ArchiveSync, LatestSync, Prune, Pruned,
     PruneSync, Stamp, StampSync, files, Synced
<1>2. Others(i)
  BY <1>1, ProcessAssumption DEF Others, Archive, ArchiveSync, LatestSync, Prune, Pruned,
     PruneSync, Stamp, StampSync, Goto, Exit, local
<1>3. CASE Archive(i) \/ ArchiveSync(i)
  <2>1. pc[i] \in {"archive", "archiveSync"} /\ pc'[i] \in {"archiveSync", "latest"} /\ mem' = mem
    BY <1>1, <1>3 DEF Archive, ArchiveSync, Goto
  <2>2. Taken(i)'
    BY <1>1, <2>1 DEF SInv, Taken, Writing
  <2>3. \A p \in Panes : (Carries(i, p) => Carries(i, p)') /\ (Hook(i, p) => Hook(i, p)')
    BY <1>1, <2>1 DEF Carries, Hook, Ahead, Under, Writing, world
  <2>4. \A p \in Panes : Settled(p) => Carries(i, p)
    BY DEF Settled
  <2> QED
    BY <1>1, <1>2, <2>2, <2>3, <2>4, Passes DEF world
<1>4. CASE ~(Archive(i) \/ ArchiveSync(i))
  <2>1. /\ pc[i] \in {"latestSync", "prune", "pruneSync", "stamp", "stampSync"}
        /\ pc'[i] \in {"prune", "pruneSync", "stamp", "stampSync", "idle"}
    BY <1>1, <1>4 DEF LatestSync, Prune, Pruned, PruneSync, Stamp, StampSync, Goto, Exit, local
  <2>2. \A p \in Panes : Carries(i, p)' /\ ~Hook(i, p)
    BY <2>1 DEF Carries, Hook, Ahead, Under, Writing
  <2>3. Taken(i)'
    BY <2>1 DEF Taken, Writing
  <2> QED
    BY <1>1, <1>2, <2>2, <2>3, Passes DEF world
<1> QED
  BY <1>3, <1>4

\* latest.json is replaced: the session carried is now settled.
LEMMA LatestPasses ==
    ASSUME SInv, AInv', NEW i \in Invocations, Latest(i)
    PROVE  SInv'
<1>1. /\ UNCHANGED <<world, lost, mem>> /\ pc \in [Invocations -> Labels]
      /\ pc[i] = "latest" /\ pc' = [pc EXCEPT ![i] = "latestSync"]
      /\ latest'.now = [n |-> saves', ms |-> mem[i].ms, snap |-> mem[i].snap]
  BY DEF SInv, AInv, LocalType, Latest, Goto, Renamed
<1>2. latest'.now.snap = mem[i].snap /\ latest'.now # NoFile
  <2>1. latest'.now # NoFile
    BY <1>1 DEF AInv, At, Replaced
  <2> QED
    BY <1>1, <2>1
<1>3. \A j \in Invocations : pc'[j] \notin Under /\ \A p \in Panes : Carries(j, p)'
  <2>1. \A j \in Invocations \ {i} : pc[j] \notin Under
    BY <1>1, Alone DEF SInv, Working, Labels
  <2>2. \A j \in Invocations : pc'[j] \notin Under
    BY <1>1, <2>1 DEF Under, Writing
  <2> QED
    BY <2>2 DEF Carries, Under
<1>4. \A j \in Invocations : Taken(j)'
  BY <1>3 DEF Taken, Under
<1>5. ASSUME NEW p \in Panes, ~lost, Owed(p) PROVE Answered(p)'
  <2>1. CASE Noted(p)
    BY <1>1, <2>1 DEF Noted, Answered, world
  <2>2. CASE Carries(i, p)
    BY <1>1, <1>2, <1>3, <2>2 DEF Settled, Answered, Carries, Writing, world
  <2>3. CASE Settled(p)
    BY <2>2, <2>3 DEF Settled
  <2>4. ASSUME NEW j \in Invocations, Hook(j, p) PROVE Answered(p)'
    <3>1. CASE pc[j] \in Ahead
      <4>1. Hook(j, p)'
        BY <1>1, <2>4, <3>1 DEF Hook, Ahead
      <4> QED
        BY <4>1 DEF Answered
    <3>2. CASE pc[j] \notin Ahead
      <4>1. pc[j] \in Under /\ Carries(j, p)
        BY <2>4, <3>2 DEF Hook
      <4>2. j = i
        BY <1>1, <4>1, Alone DEF SInv, Working, Labels
      <4> QED
        BY <2>2, <4>1, <4>2
    <3> QED
      BY <3>1, <3>2
  <2> QED
    BY <1>5, <2>1, <2>3, <2>4 DEF SInv, Answered
<1> QED
  BY <1>1, <1>4, <1>5 DEF SInv, Owed, world

\* A hook that fails is counted as lost.
LEMMA FailPasses ==
    ASSUME SInv, AInv', NEW i \in Invocations, Fail(i)
    PROVE  SInv'
<1>1. /\ UNCHANGED <<files, world>> /\ lost' = (lost \/ mem[i].kind \in Events) /\ Exit(i)
      /\ pc \in [Invocations -> Labels] /\ mem \in [Invocations -> Memory] /\ lost \in BOOLEAN
  BY DEF SInv, AInv, LocalType, WorldType, Fail
<1>2. Others(i) /\ pc'[i] = "idle"
  BY <1>1, ProcessAssumption DEF Others, Exit
<1>3. \A p \in Panes : Carries(i, p)' /\ (~lost' => ~Hook(i, p))
  BY <1>1, <1>2 DEF Carries, Writing, Hook, Events
<1>4. Taken(i)'
  BY <1>2 DEF Taken, Writing
<1> QED
  BY <1>1, <1>2, <1>3, <1>4, Passes DEF files, world

\* The host announces what it owes, or no agent runs.
LEMMA HostPasses ==
    ASSUME SInv, AInv', Host
    PROVE  SInv'
<1>1. UNCHANGED <<local, files, lost>> /\ host \in [Panes -> Pane]
  BY DEF Host, AgentStarts, AgentExits, ProgramRuns, ProgramExits, SessionReported,
     DirectoryChanges, Change, Restart, Tick, SInv, AInv, WorldType
<1>2. \A i \in Invocations : Taken(i)'
  BY <1>1 DEF SInv, Taken, local, files
<1>3. ASSUME NEW p \in Panes, host'[p] = host[p], notes \subseteq notes', Answered(p)
      PROVE  Answered(p)'
  BY <1>1, <1>3 DEF Answered, Noted, Settled, Hook, Carries, local, files
<1>4. ASSUME NEW p \in Panes, Owed(p)', Owed(p) => Answered(p) PROVE Answered(p)'
  <2>1. ASSUME NEW q \in Panes, NEW h, NEW E, Change(q, h, E), h.run = "agent" => E \intersect Agents # {}
        PROVE  Answered(p)'
    <3>1. /\ host' = [host EXCEPT ![q] = h]
          /\ notes' = notes \union {[on |-> e, pane |-> q] : e \in E}
      BY <2>1 DEF Change
    <3>2. CASE q # p
      BY <1>1, <1>3, <1>4, <3>1, <3>2 DEF Owed
    <3>3. CASE q = p
      <4>1. PICK e \in E : e \in Agents
        BY <1>1, <1>4, <2>1, <3>1, <3>3 DEF Owed
      <4>2. [on |-> e, pane |-> p] \in notes'
        BY <3>1, <3>3, <4>1
      <4> QED
        BY <4>1, <4>2 DEF Answered, Noted
    <3> QED
      BY <3>2, <3>3
  <2>2. ASSUME NEW q \in Panes, AgentStarts(q) PROVE Answered(p)'
    BY <1>1, <2>1, <2>2 DEF AgentStarts, Agents
  <2>3. ASSUME NEW q \in Panes, AgentExits(q) \/ ProgramRuns(q) \/ ProgramExits(q)
        PROVE  Answered(p)'
    <3>1. /\ AtShell(q).run # "agent"
          /\ \A r \in {"shell", "program"} : [host[q] EXCEPT !.run = r].run # "agent"
      BY <1>1 DEF Pane, AtShell
    <3>2. \E h : \E E \in SUBSET Events : Change(q, h, E) /\ h.run # "agent"
      <4>1. CASE AgentExits(q)
        BY <3>1, <4>1 DEF AgentExits, Events, Agents
      <4>2. CASE ProgramRuns(q)
        <5>1. {"other"} \in SUBSET Events
          BY DEF Events
        <5> QED
          BY <3>1, <4>2, <5>1 DEF ProgramRuns
      <4>3. CASE ProgramExits(q)
        <5> DEFINE h == [host[q] EXCEPT !.run = "shell"]
        <5>1. Change(q, h, {}) /\ h.run # "agent"
          BY <3>1, <4>3 DEF ProgramExits
        <5> HIDE DEF h
        <5> QED
          BY <5>1
      <4> QED
        BY <2>3, <4>1, <4>2, <4>3
    <3> QED
      BY <2>1, <3>2
  <2>4. ASSUME NEW q \in Panes, NEW s \in Sessions, SessionReported(q, s) PROVE Answered(p)'
    BY <1>1, <2>1, <2>4 DEF SessionReported, Agents
  <2>5. ASSUME NEW q \in Panes, NEW d \in Places, DirectoryChanges(q, d) PROVE Answered(p)'
    <3>1. [host[q] EXCEPT !.place = d].run # "agent"
      BY <1>1, <2>5 DEF DirectoryChanges, Pane
    <3> QED
      BY <2>1, <2>5, <3>1 DEF DirectoryChanges
  <2>6. CASE Restart
    BY <1>1, <1>4, <2>6 DEF Restart, Owed, Pane, AtShell
  <2>7. CASE Tick
    BY <1>3, <1>4, <2>7 DEF Tick, Owed
  <2> QED
    BY <2>2, <2>3, <2>4, <2>5, <2>6, <2>7 DEF Host
<1> QED
  BY <1>1, <1>2, <1>4 DEF SInv

\* A power cut ends every process, and counts as lost.
LEMMA PowerCutPasses ==
    ASSUME SInv, AInv', PowerCut
    PROVE  SInv'
<1>1. lost' = TRUE /\ \A i \in Invocations : pc'[i] = "idle"
  BY DEF PowerCut
<1>2. \A i \in Invocations : Taken(i)'
  BY <1>1 DEF Taken, Writing
<1> QED
  BY <1>1, <1>2 DEF SInv

\* Every step keeps what is carried and what is owed.
LEMMA NextPasses == SInv /\ [Next]_vars => SInv'
<1> SUFFICES ASSUME SInv, [Next]_vars PROVE SInv'
  OBVIOUS
<1>1. AInv'
  BY NextKeeps DEF SInv
<1>2. ASSUME NEW i \in Invocations, Step(i) \/ Fail(i) PROVE SInv'
  BY <1>1, <1>2, StartPasses, DispatchPasses, CapturePasses, WritePasses, LatestPasses, FailPasses
     DEF Step
<1>3. ASSUME NEW i \in Invocations, (\E k \in Kinds : Start(i, k)) \/ (\E n \in notes : StartEvent(i, n))
      PROVE  SInv'
  BY <1>1, <1>3, StartPasses
<1>4. ASSUME UNCHANGED vars PROVE SInv'
  BY <1>1, <1>4 DEF SInv, Taken, Owed, Answered, Noted, Settled, Hook, Carries, vars, local,
     files, world
<1> QED
  BY <1>1, <1>2, <1>3, <1>4, HostPasses, PowerCutPasses DEF Next

\* At the start a pane with an agent has its notification.
LEMMA AnnouncedFirst == Init => SInv
<1> SUFFICES ASSUME Init PROVE SInv
  OBVIOUS
<1>1. \A i \in Invocations : Taken(i)
  BY DEF Init, Taken, Writing
<1>2. ASSUME NEW p \in Panes, Owed(p) PROVE Answered(p)
  <2>1. [on |-> "status", pane |-> p] \in notes
    BY <1>2 DEF Init, Owed
  <2> QED
    BY <2>1 DEF Answered, Noted, Agents
<1> QED
  BY <1>1, <1>2, Initially DEF SInv

\* Every session herdr reports is in latest.json, carried by a save, or owed by an event
\* whose hook has not looked yet.
THEOREM SessionsInvariance == Spec => []SInv
<1> QED
  BY AnnouncedFirst, NextPasses, PTL DEF Spec

\* When every notification was handled and no hook failed, latest.json has the session of
\* each agent, for any number of panes, processes, sessions and saves, however they race
\* (app::run, agent_session_needs_capture).
THEOREM SessionsSaved == Spec => []SessionsAreSaved
<1>1. SInv => SessionsAreSaved
  <2> SUFFICES ASSUME SInv, notes = {}, ~lost, \A i \in Invocations : pc[i] = "idle",
                      NEW p \in Panes, Owed(p)
               PROVE  latest.now # NoFile /\ latest.now.snap[p].command = host[p].session
    BY DEF SessionsAreSaved, Owed
  <2>1. ~Noted(p) /\ \A i \in Invocations : ~Hook(i, p)
    BY DEF Noted, Hook, Ahead, Under, Writing
  <2> QED
    BY <2>1 DEF SInv, Answered, Settled
<1> QED
  BY <1>1, SessionsInvariance, PTL

\* A step that replaces latest.json writes an agent it captured running, or one latest.json
\* had for a pane found at its shell where it was (retain_autosaved_agents).
LEMMA LatestKeeps ==
    ASSUME SInv, [Next]_vars, saves' # saves, NEW p \in Panes,
           latest'.now.snap[p].command \in Sessions
    PROVE  \/ mem[lock].raw[p].command = latest'.now.snap[p].command
           \/ /\ mem[lock].kind \in Automatic /\ mem[lock].raw[p].command = "shell"
              /\ latest.now # NoFile /\ latest.now.snap[p] = latest'.now.snap[p]
<1>1. PICK i \in Invocations : Latest(i)
  BY ZenonT(30) DEF Next, Step, Host, Acquire, Contend, DispatchSave, DispatchCheck, DispatchSkip, Check,
     SaveBegin, Look, Read, ReadAgain, Archive, ArchiveSync, LatestSync, Prune, Pruned, PruneSync,
     Stamp, StampSync, Fail, Start, StartEvent, AgentStarts, AgentExits, ProgramRuns, ProgramExits,
     SessionReported, DirectoryChanges, Change, Restart, Tick, PowerCut, files, vars
<1>2. pc[i] = "latest" /\ latest'.now.snap = mem[i].snap
  BY <1>1 DEF Latest, Renamed
<1>3. lock = i /\ Taken(i)
  BY <1>2 DEF SInv, AInv, At, Working, Labels
<1>4. CASE mem[i].snap = mem[i].raw
  BY <1>2, <1>3, <1>4
<1>5. CASE mem[i].kind \in Automatic /\ latest.now # NoFile
           /\ mem[i].snap = Retained(mem[i].raw, latest.now.snap)
  BY <1>2, <1>3, <1>5 DEF Retained
<1> QED
  BY <1>2, <1>3, <1>4, <1>5 DEF Taken, Writing

\* A session enters latest.json from a running agent alone, and stays there only through
\* automatic saves of a pane at its shell in the same directory (retain_autosaved_agents and
\* the lock it runs under).
THEOREM SessionsKept == Spec => SessionsKeptOrCaptured
<1>1. SInv /\ [Next]_vars => [saves' # saves =>
         \A p \in Panes : latest'.now.snap[p].command \in Sessions =>
             \/ mem[lock].raw[p].command = latest'.now.snap[p].command
             \/ /\ mem[lock].kind \in Automatic /\ mem[lock].raw[p].command = "shell"
                /\ latest.now # NoFile /\ latest.now.snap[p] = latest'.now.snap[p]]_vars
  BY LatestKeeps
<1> QED
  BY <1>1, SessionsInvariance, PTL DEF Spec, SessionsKeptOrCaptured

\* A capture that is read is the one CommandOf makes of the panes.
LEMMA ReadIs ==
    ASSUME SInv, [Next]_vars, NEW i \in Invocations, pc[i] = "read", pc'[i] = "archive"
    PROVE  /\ \A p \in Panes : CommandOf(i, p) # None
           /\ mem'[i].raw = [p \in Panes |-> [command |-> CommandOf(i, p), place |-> PlaceOf(i, p)]]
<1>1. pc \in [Invocations -> Labels] /\ mem \in [Invocations -> Memory]
  BY DEF SInv, AInv, LocalType
<1>2. Read(i)
  <2>1. ~PowerCut /\ ~Host /\ ~UNCHANGED vars
    BY <1>1 DEF PowerCut, Host, AgentStarts, AgentExits, ProgramRuns, ProgramExits,
       SessionReported, DirectoryChanges, Change, Restart, Tick, local, vars
  <2>2. PICK j \in Invocations : Step(j) \/ Fail(j) \/ (\E k \in Kinds : Start(j, k))
                                  \/ (\E n \in notes : StartEvent(j, n))
    BY <2>1 DEF Next
  <2>3. j = i
    BY <1>1, <2>2 DEF Step, Fail, Start, StartEvent, Acquire, Contend, DispatchSave,
       DispatchCheck, DispatchSkip, Check, SaveBegin, Look, Read, ReadAgain, Archive,
       ArchiveSync, Latest, LatestSync, Prune, Pruned, PruneSync, Stamp, StampSync, Goto, Exit,
       local
  <2> QED
    BY <1>1, <2>2, <2>3 DEF Step, Fail, Start, StartEvent, Acquire, Contend, DispatchSave,
       DispatchCheck, DispatchSkip, Check, SaveBegin, Look, ReadAgain, Archive, ArchiveSync,
       Latest, LatestSync, Prune, Pruned, PruneSync, Stamp, StampSync, Exit
<1> DEFINE raw == [p \in Panes |-> [command |-> CommandOf(i, p), place |-> PlaceOf(i, p)]]
           merged == IF mem[i].kind \in Automatic /\ latest.now # NoFile
                     THEN Retained(raw, latest.now.snap) ELSE raw
<1>3. mem'[i] = [mem[i] EXCEPT !.view = None, !.raw = raw, !.snap = merged, !.ms = clock]
  BY <1>1, <1>2 DEF Read
<1>4. \A m \in Memory : \A a, b, c, d : [m EXCEPT !.view = a, !.raw = b, !.snap = c, !.ms = d].raw = b
  BY DEF Memory
<1>5. \A p \in Panes : raw[p].command # None
  BY <1>2 DEF Read
<1>6. \A p \in Panes : CommandOf(i, p) # None
  BY <1>5
<1> HIDE DEF raw, merged
<1>7. mem'[i].raw = raw
  BY <1>1, <1>3, <1>4
<1> QED
  BY <1>6, <1>7 DEF raw

\* What is saved for an agent that was just detected is the session its arguments name,
\* never the one herdr kept from another agent (detected_session_conflict).
THEOREM DetectedNamed == Spec => DetectedAsNamed
<1>1. ASSUME SInv, [Next]_vars, NEW i \in Invocations, NEW p \in Panes,
             pc[i] = "read", pc'[i] = "archive", mem[i].kind = "detected", mem[i].pane = p,
             host[p].run = "agent", host[p].named # None
      PROVE  mem'[i].raw[p].command = host[p].named
  <2>1. CommandOf(i, p) # None /\ mem'[i].raw[p].command = CommandOf(i, p)
    <3>1. p \in Panes /\ CommandOf(i, p) # None
      BY <1>1, ReadIs
    <3>2. mem'[i].raw = [q \in Panes |-> [command |-> CommandOf(i, q), place |-> PlaceOf(i, q)]]
      BY <1>1, ReadIs
    <3> QED
      BY <3>1, <3>2
  <2> QED
    BY <1>1, <2>1 DEF CommandOf, Conflict
<1>2. SInv /\ [Next]_vars => [\A i \in Invocations, p \in Panes :
         /\ pc[i] = "read" /\ pc'[i] = "archive"
         /\ mem[i].kind = "detected" /\ mem[i].pane = p
         /\ host[p].run = "agent" /\ host[p].named # None
         => mem'[i].raw[p].command = host[p].named]_vars
  BY <1>1
<1> QED
  BY <1>2, SessionsInvariance, PTL DEF Spec, DetectedAsNamed
=============================================================================
