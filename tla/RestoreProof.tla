---------------------------- MODULE RestoreProof ----------------------------
(***************************************************************************)
(* Proofs about Restore, for every set of processes, generations and       *)
(* claims and every number of panes.                                       *)
(***************************************************************************)
EXTENDS RestoreInv, TLAPS

-----------------------------------------------------------------------------
(* Types *)

Contents == Journal \union {NoFile}
Files == FileOf(Contents)

LocalOK ==
    /\ pc \in [Invocations -> Labels]
    /\ mem \in [Invocations -> Memory]
    /\ lock \in Invocations \union {None}

\* Renaming and syncing keep a file a file (store::atomic_write).
LEMMA FileTypes ==
    ASSUME NEW v \in Contents, NEW f \in Files
    PROVE  /\ Stored(v) \in Files /\ Renamed(f, v) \in Files /\ Synced(f) \in Files
           /\ f.now \in f.after /\ f.now \in Contents /\ f.after \in SUBSET Contents
BY DEF Files, FileOf, Stored, Renamed, Synced

\* What a journal becomes by an outcome or a change of state is a journal
\* (app::execute, recovery acknowledge).
LEMMA JournalTypes ==
    ASSUME NEW j \in Journal, NEW p \in Panes, NEW o \in Outcome, NEW s \in BootState
    PROVE  /\ WithOutcome(j, p, o) \in Journal
           /\ [WithOutcome(j, p, o) EXCEPT !.state = s] \in Journal
           /\ Done(j) \in Journal
           /\ [Done(j) EXCEPT !.acknowledged = TRUE] \in Journal
BY DEF WithOutcome, Journal, Done, BootState

\* A new journal is a journal (Journal::new and the plan's entries).
LEMMA NewJournalType ==
    ASSUME NEW c \in Claims, NEW candidates
    PROVE  NewJournal(c, candidates) \in Journal
BY DEF NewJournal, Journal, BootState, Outcome

\* The memory a slot has between two processes is well typed.
LEMMA BlankType == Blank \in Memory
BY BoundAssumption DEF Blank, Memory, NoConfig, Config

\* Moving a process on keeps the types of what it holds.
LEMMA GotoType ==
    ASSUME LocalOK, NEW i \in Invocations, NEW l \in Labels, Goto(i, l)
    PROVE  LocalOK'
BY DEF LocalOK, Goto

\* So does its exit.
LEMMA ExitType ==
    ASSUME LocalOK, NEW i \in Invocations, Exit(i)
    PROVE  LocalOK'
BY BlankType DEF LocalOK, Exit, Labels

-----------------------------------------------------------------------------
(* The lock *)

\* All processes but i stay where they are.
Others(i) == \A j \in Invocations \ {i} : pc'[j] = pc[j] /\ mem'[j] = mem[j]

\* A process that neither enters nor leaves the working points leaves LockInv alone.
LEMMA LockKept ==
    ASSUME LocalOK, LockInv, NEW i \in Invocations, NEW l \in Labels,
           pc' = [pc EXCEPT ![i] = l], lock' = lock, pc[i] \in Working <=> l \in Working
    PROVE  LockInv'
BY DEF LocalOK, LockInv

\* An exit releases the lock of the process that exits and no other.
LEMMA LockReleased ==
    ASSUME LocalOK, LockInv, NEW i \in Invocations, Exit(i)
    PROVE  LockInv' /\ Others(i) /\ pc'[i] = "idle" /\ mem'[i] = Blank
<1>1. "idle" \notin Working
  BY DEF Working
<1> QED
  BY <1>1, ProcessAssumption DEF LocalOK, LockInv, Exit, Others

\* Only the holder of the lock is at a working point.
LEMMA HolderAlone ==
    ASSUME LocalOK, LockInv, NEW i \in Invocations, pc[i] \in Working
    PROVE  lock = i /\ \A j \in Invocations \ {i} : pc[j] \notin Working
BY DEF LocalOK, LockInv

-----------------------------------------------------------------------------
(* Steps that change a process and nothing a restore leaves behind *)

Frame == UNCHANGED <<pending, boots, gen, booted, cuts, wire, sent, got, opened>>

\* A step of process i that leaves the evidence, the server and the traffic alone
\* keeps the invariant if the process ends up where the invariant allows it.
LEMMA LocalStep ==
    ASSUME IInv, NEW i \in Invocations, Frame, Others(i), LocalOK', LockInv',
           conf' \in Config, saves' \in 0 .. MaxSaves, rebuilding' \in BOOLEAN,
           AutoAt(i)', ExecAt(i)', FinishAt(i)',
           mem'[i].gen \in {mem[i].gen, gen, None}
    PROVE  IInv'
<1>1. TypeOK'
  BY DEF IInv, TypeOK, Frame, LocalOK
<1>2. GenInv'
  BY DEF IInv, ProcessInv, GenInv, Frame, Others
<1>3. AutoInv'
  BY DEF IInv, ProcessInv, AutoInv, AutoAt, Frame, Others
<1>4. ExecInv'
  BY DEF IInv, ProcessInv, ExecInv, ExecAt, Frame, Others
<1>5. FinishInv'
  BY DEF IInv, ProcessInv, FinishInv, FinishAt, Frame, Others
<1>6. EvidenceInv'
  <2>1. FileInv' /\ WireInv' /\ AtMostOnce'
    BY DEF IInv, EvidenceInv, FileInv, WireInv, AtMostOnce, Frame
  <2>2. JournalTruthful' /\ OrderInv' /\ RecordInv'
    BY DEF IInv, EvidenceInv, JournalTruthful, OrderInv, RecordInv, Versions,
           PendingVersions, Frame
  <2> QED
    BY <2>1, <2>2 DEF EvidenceInv
<1>7. ClaimInv'
  BY ClaimAssumption DEF IInv, ClaimInv, ClaimedInv, OpenedInv, Claims, Frame, Others
<1> QED
  BY <1>1, <1>2, <1>3, <1>4, <1>5, <1>6, <1>7 DEF IInv, ProcessInv

\* A process may exit from anywhere: what it leaves behind is what a crash leaves.
LEMMA ExitStep ==
    ASSUME IInv, NEW i \in Invocations, Exit(i), Frame, UNCHANGED conf,
           saves' \in 0 .. MaxSaves, rebuilding' \in BOOLEAN
    PROVE  IInv'
<1>1. LocalOK /\ LockInv /\ conf \in Config
  BY DEF IInv, TypeOK, LocalOK, ProcessInv
<1>2. LocalOK' /\ LockInv' /\ Others(i) /\ pc'[i] = "idle" /\ mem'[i] = Blank
  BY <1>1, ExitType, LockReleased
<1>3. AutoAt(i)' /\ ExecAt(i)' /\ FinishAt(i)'
  BY <1>2 DEF AutoAt, ExecAt, FinishAt, Blank, Manual, Unclaimed, Executing, AtPane,
              Unsent, Durable, Between
<1> QED
  BY <1>1, <1>2, <1>3, LocalStep DEF Blank

\* The count of saves goes around below its bound.
LEMMA CountAround ==
    ASSUME NEW n \in 0 .. MaxSaves
    PROVE  (n % MaxSaves) + 1 \in 0 .. MaxSaves
<1>1. MaxSaves \in Nat \ {0} /\ n \in Int
  BY BoundAssumption
<1>2. n % MaxSaves \in 0 .. MaxSaves - 1
  BY <1>1
<1> QED
  BY <1>1, <1>2

\* The steps that end a process without touching a restore's evidence.
LEMMA Exits ==
    ASSUME IInv, NEW i \in Invocations,
           \/ GiveUp(i) \/ Expire(i) \/ HookBlocked(i) \/ HookDone(i) \/ SaveBlocked(i)
           \/ SaveWrite(i) \/ SaveFails(i) \/ BeginRefused(i) \/ PlanFails(i)
           \/ AcknowledgeRebuild(i) \/ AcknowledgeRefused(i) \/ RebuildRefused(i)
           \/ RebuildEnd(i) \/ Abort(i)
    PROVE  IInv'
<1>1. Exit(i) /\ Frame /\ UNCHANGED conf
  BY DEF GiveUp, Expire, HookBlocked, HookDone, SaveBlocked, SaveWrite, SaveFails,
         BeginRefused, PlanFails, AcknowledgeRebuild, AcknowledgeRefused,
         RebuildRefused, RebuildEnd, Abort, FilesUnchanged, OutsideUnchanged,
         HistoryUnchanged, evidence, server, traffic, Frame
<1>2. saves' \in 0 .. MaxSaves
  <2>1. saves' = saves \/ saves' = (saves % MaxSaves) + 1
    BY DEF GiveUp, Expire, HookBlocked, HookDone, SaveBlocked, SaveWrite, SaveFails,
           BeginRefused, PlanFails, AcknowledgeRebuild, AcknowledgeRefused,
           RebuildRefused, RebuildEnd, Abort, FilesUnchanged
  <2>2. saves \in 0 .. MaxSaves
    BY DEF IInv, TypeOK
  <2> QED
    BY <2>1, <2>2, CountAround
<1>3. rebuilding' \in BOOLEAN
  BY DEF IInv, TypeOK, GiveUp, Expire, HookBlocked, HookDone, SaveBlocked, SaveWrite,
         SaveFails, BeginRefused, PlanFails, AcknowledgeRebuild, AcknowledgeRefused,
         RebuildRefused, RebuildEnd, Abort, FilesUnchanged
<1> QED
  BY <1>1, <1>2, <1>3, ExitStep

\* A step to another working point, or outside the lock, by control alone.
LEMMA Moves ==
    ASSUME IInv, NEW i \in Invocations,
           \/ WaitForLock(i) \/ HookSave(i) \/ Revalidate(i) \/ Probe(i) \/ RebuildBegin(i)
    PROVE  IInv'
<1>1. LocalOK /\ LockInv /\ AutoAt(i) /\ ExecAt(i) /\ FinishAt(i)
  BY DEF IInv, TypeOK, LocalOK, ProcessInv, AutoInv, ExecInv, FinishInv
<1>2. Frame /\ UNCHANGED conf /\ saves' = saves /\ rebuilding' \in BOOLEAN
  BY DEF IInv, TypeOK, WaitForLock, HookSave, Revalidate, Probe, RebuildBegin,
         FilesUnchanged, OutsideUnchanged, HistoryUnchanged, evidence, server, traffic, Frame
<1>3. PICK l \in Labels :
        /\ Goto(i, l)
        /\ pc[i] \in Working <=> l \in Working
        /\ \/ l \in {"waiting", "save", "rebuilding"} /\ pc[i] \in {"start", "dispatch", "rebuild"}
              /\ (pc[i] = "rebuild" => l = "rebuilding") /\ (pc[i] = "start" => l = "waiting")
              /\ (pc[i] = "dispatch" => l = "save")
           \/ pc[i] = "revalidate" /\ l = "probe"
           \/ pc[i] = "probe" /\ l = "send"
  BY DEF WaitForLock, HookSave, Revalidate, Probe, RebuildBegin, Labels, Working
<1>4. LocalOK' /\ LockInv' /\ Others(i) /\ pc'[i] = l /\ mem'[i] = mem[i]
  BY <1>1, <1>3, LockKept, GotoType DEF Goto, Others, LocalOK
<1>5. AutoAt(i)' /\ ExecAt(i)' /\ FinishAt(i)'
  BY <1>1, <1>2, <1>3, <1>4 DEF AutoAt, ExecAt, FinishAt, Manual, Unclaimed, Executing,
     AtPane, Unsent, Durable, Between, Frame
<1> QED
  BY <1>2, <1>4, <1>5, LocalStep DEF IInv, TypeOK

\* The parts of the invariant a step of process i starts from.
LEMMA Parts ==
    ASSUME IInv, NEW i \in Invocations
    PROVE  /\ LocalOK /\ LockInv /\ AutoAt(i) /\ ExecAt(i) /\ FinishAt(i)
           /\ pending \in Files /\ boots \in [Claims -> Files]
           /\ conf \in Config /\ saves \in 0 .. MaxSaves /\ rebuilding \in BOOLEAN
BY DEF IInv, TypeOK, LocalOK, ProcessInv, AutoInv, ExecInv, FinishInv, Files, Contents

\* A process starts: its slot holds the configuration and nothing else.
LEMMA StartStep ==
    ASSUME IInv, NEW i \in Invocations, NEW k \in Kinds, Start(i, k)
    PROVE  IInv'
<1>1. LocalOK' /\ Others(i) /\ LockInv'
  <2>1. [Blank EXCEPT !.kind = k, !.conf = conf] \in Memory
    BY BlankType, KindAssumption, Parts DEF Memory
  <2>2. LocalOK'
    BY <2>1, Parts DEF Start, LocalOK, Labels
  <2>3. Others(i)
    BY Parts DEF Start, LocalOK, Others
  <2>4. LockInv'
    <3>1. pc[i] \notin Working /\ "start" \notin Working /\ "start" \in Labels
      BY DEF Start, Working, Labels
    <3> QED
      BY <3>1, Parts, LockKept DEF Start
  <2> QED
    BY <2>2, <2>3, <2>4
<1>2. /\ pc'[i] = "start" /\ mem'[i].kind \in AllKinds
      /\ ~mem'[i].auto /\ mem'[i].claim = None /\ mem'[i].gen = None
  BY KindAssumption, Parts DEF Start, LocalOK, Blank
<1>3. AutoAt(i)' /\ ExecAt(i)' /\ FinishAt(i)'
  BY <1>2 DEF AutoAt, ExecAt, FinishAt, Manual, Unclaimed, Executing, AtPane, Unsent,
              Durable, Between
<1>4. Frame /\ UNCHANGED <<conf, saves, rebuilding>>
  BY DEF Start, FilesUnchanged, OutsideUnchanged, HistoryUnchanged, evidence, server,
         traffic, Frame
<1> QED
  BY <1>1, <1>2, <1>3, <1>4, LocalStep, Parts

\* A process becomes the holder of the lock: there was none.
LEMMA AcquireStep ==
    ASSUME IInv, NEW i \in Invocations, Acquire(i)
    PROVE  IInv'
<1>1. PICK l \in {"dispatch", "begin", "save", "rebuild", "acknowledge"} :
        pc' = [pc EXCEPT ![i] = l]
  <2>1. mem[i].kind \in AllKinds
    BY Parts DEF Acquire, AutoAt
  <2> QED
    BY <2>1 DEF Acquire, FirstLabel, AllKinds, Hooks
<1>2. l \in Labels /\ l \in Working
  BY DEF Labels, Working
<1>3. LocalOK' /\ Others(i) /\ pc'[i] = l /\ mem'[i] = mem[i]
  BY <1>1, <1>2, Parts DEF Acquire, LocalOK, Others
<1>4. LockInv'
  BY <1>1, <1>2, Parts, ProcessAssumption DEF Acquire, LocalOK, LockInv
<1>5. Frame /\ UNCHANGED <<conf, saves, rebuilding>>
  BY DEF Acquire, FilesUnchanged, OutsideUnchanged, HistoryUnchanged, evidence, server,
         traffic, Frame
<1>6. ~mem[i].auto /\ mem[i].claim = None
  BY Parts DEF Acquire, AutoAt, Manual, Unclaimed
<1>7. AutoAt(i)' /\ ExecAt(i)' /\ FinishAt(i)'
  BY <1>3, <1>6 DEF AutoAt, ExecAt, FinishAt, Manual, Unclaimed, Executing, AtPane, Unsent,
              Durable, Between
<1> QED
  BY <1>3, <1>4, <1>5, <1>7, LocalStep, Parts

\* The hook starts an automatic restore; the restore and the save read the generation.
LEMMA Reads ==
    ASSUME IInv, NEW i \in Invocations,
           HookRestore(i) \/ SaveBegin(i) \/ Begin(i)
    PROVE  IInv'
<1>1. PICK m \in Memory, l \in {"begin", "capture", "settle"} :
        /\ mem' = [mem EXCEPT ![i] = m]
        /\ pc' = [pc EXCEPT ![i] = l]
        /\ m.claim = mem[i].claim
        /\ \/ pc[i] = "dispatch" /\ l = "begin" /\ m.gen = mem[i].gen
           \/ pc[i] = "save" /\ l = "capture" /\ m.gen = gen /\ m.auto = mem[i].auto
           \/ /\ pc[i] = "begin" /\ l = "settle" /\ m.gen = gen
              /\ m.auto => boots[gen].now = NoFile
  <2>1. CASE HookRestore(i)
    <3>1. [mem[i] EXCEPT !.auto = TRUE] \in Memory
      BY Parts DEF LocalOK, Memory
    <3>2. mem' = [mem EXCEPT ![i] = [mem[i] EXCEPT !.auto = TRUE]]
      BY <2>1, Parts DEF HookRestore, LocalOK
    <3>3. /\ [mem[i] EXCEPT !.auto = TRUE].claim = mem[i].claim
          /\ [mem[i] EXCEPT !.auto = TRUE].gen = mem[i].gen
      BY Parts DEF LocalOK, Memory
    <3> QED
      BY <2>1, <3>1, <3>2, <3>3 DEF HookRestore
  <2>2. CASE SaveBegin(i)
    <3>1. [mem[i] EXCEPT !.gen = gen] \in Memory
      BY Parts, ZenonT(30) DEF LocalOK, Memory, IInv, TypeOK
    <3> QED
      BY <2>2, <3>1, Parts DEF SaveBegin, LocalOK, Memory
  <2>3. CASE Begin(i)
    <3>1. PICK missing \in BOOLEAN :
            mem' = [mem EXCEPT ![i].gen = gen, ![i].missing = missing]
      BY <2>3 DEF Begin
    <3>2. [mem[i] EXCEPT !.gen = gen, !.missing = missing] \in Memory
      BY Parts, ZenonT(30) DEF LocalOK, Memory, IInv, TypeOK
    <3>3. mem' = [mem EXCEPT ![i] = [mem[i] EXCEPT !.gen = gen, !.missing = missing]]
      BY <3>1, Parts DEF LocalOK
    <3> QED
      BY <2>3, <3>2, <3>3, Parts DEF Begin, LocalOK, Memory
  <2> QED
    BY <2>1, <2>2, <2>3
<1>2. UNCHANGED <<lock, conf, saves, rebuilding>> /\ Frame
  BY DEF HookRestore, SaveBegin, Begin, FilesUnchanged, OutsideUnchanged,
         HistoryUnchanged, evidence, server, traffic, Frame
<1>3. l \in Labels /\ l \in Working /\ pc[i] \in Working
  BY <1>1 DEF Labels, Working
<1>4. LocalOK' /\ Others(i) /\ LockInv' /\ pc'[i] = l /\ mem'[i] = m
  BY <1>1, <1>2, <1>3, Parts, LockKept DEF LocalOK, Others
<1>5. AutoAt(i)'
  <2>1. gen \in Generations /\ l # "start"
    BY <1>1 DEF IInv, TypeOK
  <2> QED
    BY <1>1, <1>2, <1>4, <2>1, Parts DEF AutoAt, Frame, Manual, Unclaimed
<1>6. ExecAt(i)' /\ FinishAt(i)'
  BY <1>1, <1>4 DEF ExecAt, FinishAt, Executing, AtPane, Unsent, Durable, Between
<1> QED
  BY <1>1, <1>2, <1>4, <1>5, <1>6, LocalStep, Parts

-----------------------------------------------------------------------------
(* What writing the evidence does to the invariant *)

TruthOf(c, v) ==
    \A p \in Panes :
        /\ v.entries[p] \in {"pending", "skipped"} => sent[c][p] = 0
        /\ v.entries[p] = "applied" => got[c][p] = 1

OrderOf(v) ==
    \A p, q \in Panes :
        p < q /\ v.entries[p] \in {"pending", "sending", "failed"}
            => v.entries[q] \in {"pending", "skipped"}

\* A journal renamed over pending.json keeps the evidence sound if it is true, tries
\* the panes in order, and is about the claim of the journal it replaces.
LEMMA Renaming ==
    ASSUME IInv, NEW j \in Journal, pending' = Renamed(pending, j),
           UNCHANGED <<boots, wire, sent, got>>,
           TruthOf(j.claim, j), OrderOf(j),
           pending.now # NoFile => pending.now.claim = j.claim
    PROVE  EvidenceInv'
<1>1. j # NoFile
  BY FileAssumption
<1>2. pending.now \in pending.after
  BY FileTypes DEF IInv, TypeOK, Files, Contents, FileOf
<1>3. FileInv' /\ WireInv' /\ AtMostOnce'
  BY DEF IInv, EvidenceInv, FileInv, WireInv, AtMostOnce
<1>4. \A c \in Claims : \A v \in Versions(c)' : v \in Versions(c) \/ (v = j /\ c = j.claim)
  BY DEF Versions, PendingVersions, Renamed
<1>5. JournalTruthful'
  BY <1>4 DEF IInv, EvidenceInv, JournalTruthful, TruthOf
<1>6. OrderInv'
  BY <1>4 DEF IInv, EvidenceInv, OrderInv, OrderOf
<1>7. RecordInv'
  BY <1>1, <1>2 DEF IInv, EvidenceInv, RecordInv, Renamed
<1> QED
  BY <1>3, <1>5, <1>6, <1>7 DEF EvidenceInv

\* Syncing the directory of pending.json drops old versions of it only.
LEMMA Syncing ==
    ASSUME IInv, pending' = Synced(pending), UNCHANGED <<boots, wire, sent, got>>
    PROVE  EvidenceInv'
<1>1. pending.now \in pending.after
  BY FileTypes DEF IInv, TypeOK, Files, Contents, FileOf
<1>2. FileInv' /\ WireInv' /\ AtMostOnce'
  BY DEF IInv, EvidenceInv, FileInv, WireInv, AtMostOnce
<1>3. \A c \in Claims : \A v \in Versions(c)' : v \in Versions(c)
  BY <1>1 DEF Versions, PendingVersions, Synced
<1>4. JournalTruthful' /\ OrderInv'
  BY <1>3 DEF IInv, EvidenceInv, JournalTruthful, OrderInv
<1>5. RecordInv'
  BY <1>1 DEF IInv, EvidenceInv, RecordInv, Synced
<1> QED
  BY <1>2, <1>4, <1>5 DEF EvidenceInv

\* A true record renamed into boots/ keeps the evidence sound.
LEMMA Archiving ==
    ASSUME IInv, NEW j \in Journal, j.claim \in Claims,
           boots' = [boots EXCEPT ![j.claim] = Renamed(@, j)],
           UNCHANGED <<pending, wire, sent, got>>,
           TruthOf(j.claim, j), OrderOf(j)
    PROVE  EvidenceInv'
<1>1. j # NoFile
  BY FileAssumption
<1>2. boots \in [Claims -> Files]
  BY DEF IInv, TypeOK, Files, Contents
<1>3. FileInv'
  BY <1>1, <1>2 DEF IInv, EvidenceInv, FileInv, Renamed
<1>4. WireInv' /\ AtMostOnce'
  BY DEF IInv, EvidenceInv, WireInv, AtMostOnce
<1>5. \A c \in Claims : \A v \in Versions(c)' : v \in Versions(c) \/ (v = j /\ c = j.claim)
  BY <1>2 DEF Versions, PendingVersions, Renamed
<1>6. JournalTruthful'
  BY <1>5 DEF IInv, EvidenceInv, JournalTruthful, TruthOf
<1>7. OrderInv'
  BY <1>5 DEF IInv, EvidenceInv, OrderInv, OrderOf
<1>8. RecordInv'
  BY <1>1, <1>2 DEF IInv, EvidenceInv, RecordInv, Renamed
<1> QED
  BY <1>3, <1>4, <1>6, <1>7, <1>8 DEF EvidenceInv

\* A step of the lock's holder keeps the invariants about processes if it keeps them
\* for the holder: nobody else is at a point they speak of.
LEMMA HolderStep ==
    ASSUME IInv, NEW i \in Invocations, pc[i] \in Working, Others(i), LockInv',
           gen' = gen, booted' = booted,
           \A g \in Generations : opened'[g] > 0 => g \in booted,
           mem'[i].gen \in {mem[i].gen, None},
           AutoAt(i)', ExecAt(i)', FinishAt(i)'
    PROVE  ProcessInv'
<1>1. \A j \in Invocations \ {i} :
        pc[j] \notin Working /\ pc'[j] = pc[j] /\ mem'[j] = mem[j]
  BY HolderAlone, Parts DEF Others
<1>2. GenInv'
  BY <1>1 DEF IInv, ProcessInv, GenInv
<1>3. AutoInv'
  <2>1. "settle" \in Working
    BY DEF Working
  <2> QED
    BY <1>1, <2>1 DEF IInv, ProcessInv, AutoInv, AutoAt
<1>4. ExecInv'
  <2>1. Executing \union Durable \union AtPane \union Unsent \union Between \subseteq Working
    BY DEF Executing, Durable, AtPane, Unsent, Between, Working
  <2> QED
    BY <1>1, <2>1 DEF ExecInv, ExecAt
<1>5. FinishInv'
  <2>1. {"bootSync", "remove"} \subseteq Working
    BY DEF Working
  <2> QED
    BY <1>1, <2>1 DEF FinishInv, FinishAt
<1> QED
  BY <1>2, <1>3, <1>4, <1>5 DEF ProcessInv

\* A step that opens nothing keeps every claimed generation claimed if boot records
\* stay and the journal is replaced by one of its claim or has its boot record.
LEMMA StaysClaimed ==
    ASSUME IInv, NEW i \in Invocations, Others(i), UNCHANGED <<gen, opened>>,
           mem'[i].gen \in {mem[i].gen, None},
           \A c \in Claims : boots[c].now # NoFile => boots'[c].now # NoFile,
           pending.now # NoFile =>
               \/ pending'.now # NoFile /\ pending'.now.claim = pending.now.claim
               \/ boots'[pending.now.claim].now # NoFile
    PROVE  ClaimInv'
BY ClaimAssumption DEF IInv, ClaimInv, ClaimedInv, OpenedInv, Claims, Others

-----------------------------------------------------------------------------
(* The steps that write the evidence *)

\* What every step of a holder that stays at work, or exits, has in common.
LEMMA HolderMoves ==
    ASSUME IInv, NEW i \in Invocations, pc[i] \in Working, NEW l \in Labels,
           \/ Goto(i, l) /\ l \in Working
           \/ Exit(i) /\ l = "idle"
    PROVE  /\ LocalOK' /\ LockInv' /\ Others(i) /\ pc'[i] = l
           /\ l = "idle" => mem'[i] = Blank
           /\ l # "idle" => mem'[i] = mem[i]
           /\ mem'[i].gen \in {mem[i].gen, None}
<1>0. "idle" \notin Working
  BY DEF Working
<1>1. CASE Goto(i, l) /\ l \in Working
  <2>1. LocalOK' /\ Others(i) /\ pc'[i] = l /\ mem'[i] = mem[i]
    BY <1>1, Parts, GotoType DEF Goto, Others, LocalOK
  <2>2. LockInv'
    BY <1>0, <1>1, Parts, LockKept DEF Goto
  <2> QED
    BY <1>0, <1>1, <2>1, <2>2
<1>2. CASE Exit(i) /\ l = "idle"
  <2>1. LocalOK' /\ LockInv' /\ Others(i) /\ pc'[i] = "idle" /\ mem'[i] = Blank
    BY <1>2, Parts, ExitType, LockReleased
  <2>2. Blank.gen = None
    BY DEF Blank
  <2> QED
    BY <1>2, <2>1, <2>2
<1> QED
  BY <1>1, <1>2

\* A directory sync leaves fewer versions, and the visible one is among them.
LEMMA Syncs ==
    ASSUME IInv, NEW i \in Invocations,
           OpenSync(i) \/ MarkSync(i) \/ RecordSync(i) \/ FailSync(i) \/ RemoveSync(i)
    PROVE  IInv'
<1>1. /\ PersistSync /\ UNCHANGED <<rebuilding, saves, conf, gen, booted, cuts, wire, sent, got,
                                   opened>>
      /\ pc[i] \in {"openSync", "markSync", "recordSync", "failSync", "removeSync"}
  BY DEF OpenSync, MarkSync, RecordSync, FailSync, RemoveSync, OutsideUnchanged,
         HistoryUnchanged, server, traffic
<1>2. PICK l \in {"next", "revalidate", "rebuild", "idle"} :
        \/ l = "next" /\ Goto(i, l) /\ pc[i] \in {"openSync", "recordSync"}
        \/ l = "revalidate" /\ Goto(i, l) /\ pc[i] = "markSync"
        \/ l = "rebuild" /\ Goto(i, l) /\ pc[i] = "removeSync"
        \/ l = "idle" /\ Exit(i) /\ pc[i] \in {"failSync", "removeSync"}
  BY Zenon DEF OpenSync, MarkSync, RecordSync, FailSync, RemoveSync
<1>3. l \in Labels /\ pc[i] \in Working /\ (l # "idle" => l \in Working)
  BY <1>1, <1>2 DEF Labels, Working
<1>4. /\ LocalOK' /\ LockInv' /\ Others(i) /\ pc'[i] = l
      /\ l # "idle" => mem'[i] = mem[i]
      /\ l = "idle" => mem'[i] = Blank
      /\ mem'[i].gen \in {mem[i].gen, None}
  BY <1>2, <1>3, HolderMoves
<1>5. pending \in Files /\ pending' = Synced(pending) /\ boots' = boots
  BY <1>1, Parts DEF PersistSync
<1>6. TypeOK'
  BY <1>1, <1>4, <1>5, FileTypes DEF IInv, TypeOK, LocalOK, Files, Contents
<1>7. pending'.now = pending.now /\ pending'.after = {pending.now}
  BY <1>5 DEF Synced
<1>8. AutoAt(i)' /\ ExecAt(i)' /\ FinishAt(i)'
  <2>1. CASE l \in {"idle", "rebuild"}
    <3>1. AutoAt(i)'
      BY <1>1, <1>4, <2>1, Parts DEF AutoAt, Blank, Manual, Unclaimed
    <3> QED
      BY <1>4, <2>1, <3>1 DEF ExecAt, FinishAt, Executing, AtPane, Unsent, Durable, Between
  <2>2. CASE l \in {"next", "revalidate"}
    BY <1>1, <1>2, <1>4, <1>5, <1>7, <2>2, Parts DEF AutoAt, ExecAt, FinishAt, Manual,
       Unclaimed, Executing, AtPane, Unsent, Durable, Between
  <2> QED
    BY <1>2, <2>1, <2>2
<1>9. ProcessInv'
  BY <1>1, <1>3, <1>4, <1>8, HolderStep DEF IInv, ProcessInv, GenInv
<1>10. EvidenceInv'
  BY <1>1, <1>5, Syncing
<1>11. ClaimInv'
  BY <1>1, <1>4, <1>5, <1>7, StaysClaimed
<1> QED
  BY <1>6, <1>9, <1>10, <1>11 DEF IInv

\* The journal with the outcome of a pane and, after a failure, another state.
Resulting(p, o, s) == [WithOutcome(journal, p, o) EXCEPT !.state = s]

\* The journal of the pane at work, with its outcome, may replace the journal.
LEMMA Outcomes ==
    ASSUME IInv, NEW i \in Invocations, pc[i] \in AtPane, NEW o \in Outcome,
           NEW s \in BootState, o \notin {"pending", "sending"},
           o = "skipped" => sent[mem[i].claim][mem[i].pane] = 0,
           o = "applied" => got[mem[i].claim][mem[i].pane] = 1,
           NEW j, j = Resulting(mem[i].pane, o, s)
    PROVE  /\ j \in Journal /\ j # NoFile /\ j.claim = mem[i].claim
           /\ pending.now # NoFile /\ pending.now.claim = mem[i].claim
           /\ TruthOf(j.claim, j) /\ OrderOf(j)
           /\ o # "failed" =>
                \A p \in Panes : j.entries[p] \in {"pending", "applied", "skipped"}
<1>1. /\ mem[i].claim \in Claims /\ mem[i].pane \in Panes
      /\ journal # NoFile /\ journal.claim = mem[i].claim
      /\ journal.entries[mem[i].pane] = "sending"
  BY Parts DEF ExecAt, AtPane, Executing, journal
<1>2. journal \in Journal /\ journal \in pending.after
  BY <1>1, Parts, FileTypes DEF Contents, journal
<1> DEFINE w == WithOutcome(journal, mem[i].pane, o)
<1>3. /\ w \in Journal /\ w.claim = mem[i].claim
      /\ w.entries = [journal.entries EXCEPT ![mem[i].pane] = o]
  BY <1>1, <1>2 DEF WithOutcome, Journal
<1>4. /\ j \in Journal /\ j.claim = mem[i].claim
      /\ j.entries = [journal.entries EXCEPT ![mem[i].pane] = o]
  <2> HIDE DEF w
  <2>1. j = [w EXCEPT !.state = s]
    BY DEF w, Resulting
  <2> QED
    BY <1>3, <2>1 DEF Journal
<1>5. journal.entries \in [Panes -> Outcome]
  BY <1>2 DEF Journal
<1>6. journal \in Versions(mem[i].claim)
  BY <1>1, <1>2 DEF Versions, PendingVersions
<1>7. TruthOf(mem[i].claim, journal) /\ OrderOf(journal)
  BY <1>1, <1>6 DEF IInv, EvidenceInv, JournalTruthful, OrderInv, TruthOf, OrderOf
<1>8. TruthOf(j.claim, j)
  BY <1>1, <1>4, <1>5, <1>7 DEF TruthOf, Outcome
<1>9. OrderOf(j)
  BY <1>1, <1>4, <1>5, <1>7 DEF OrderOf, Outcome
<1>10. \A p \in Panes \ {mem[i].pane} : journal.entries[p] \in {"pending", "applied", "skipped"}
  BY <1>1, <1>5, <1>7, BoundAssumption DEF OrderOf, Outcome, Panes
<1> QED
  BY <1>1, <1>4, <1>5, <1>8, <1>9, <1>10, FileAssumption DEF journal, Outcome

\* The result of a pane is persisted (app::execute, the match on result).
LEMMA Results ==
    ASSUME IInv, NEW i \in Invocations, Skip(i) \/ Reply(i) \/ Fail(i)
    PROVE  IInv'
<1>1. /\ UNCHANGED <<boots, rebuilding, saves, conf, gen, booted, cuts, wire, sent, got, opened>>
      /\ pc[i] \in {"revalidate", "probe", "send", "await"}
  BY DEF Skip, Reply, Fail, Persist, OutsideUnchanged, HistoryUnchanged, server, traffic
<1>2. pc[i] \in Working /\ pc[i] \in AtPane /\ {"recordSync", "failSync"} \subseteq Labels \intersect Working
  BY <1>1 DEF Working, AtPane, Labels
<1>3. /\ mem[i].claim \in Claims /\ mem[i].pane \in Panes
      /\ pending.now # NoFile /\ boots[mem[i].claim] = Stored(NoFile)
      /\ pending \in Files
  BY <1>2, Parts DEF ExecAt, AtPane, Executing
<1>4. PICK o \in {"skipped", "applied", "failed"}, s \in BootState, l \in {"recordSync", "failSync"} :
        /\ Persist(i, [WithOutcome(journal, mem[i].pane, o) EXCEPT !.state = s], l)
        /\ o = "skipped" => sent[mem[i].claim][mem[i].pane] = 0
        /\ o = "applied" => got[mem[i].claim][mem[i].pane] = 1
        /\ o = "failed" <=> l = "failSync"
  <2>1. pending.now \in Journal
    BY <1>3, FileTypes DEF Contents
  <2>2. CASE Skip(i)
    <3>1. sent[mem[i].claim][mem[i].pane] = 0
      BY <2>2, Parts DEF Skip, ExecAt, Unsent
    <3>2. [WithOutcome(journal, mem[i].pane, "skipped") EXCEPT !.state = journal.state]
            = WithOutcome(journal, mem[i].pane, "skipped")
      BY <2>1 DEF WithOutcome, Journal, journal
    <3>3. journal.state \in BootState
      BY <2>1 DEF Journal, journal
    <3> QED
      BY <2>2, <3>1, <3>2, <3>3 DEF Skip
  <2>3. CASE Reply(i)
    <3>1. got[mem[i].claim][mem[i].pane] = 1
      <4>1. /\ got[mem[i].claim][mem[i].pane] \in Nat
            /\ sent[mem[i].claim][mem[i].pane] \in Nat
        BY <1>3 DEF IInv, TypeOK
      <4>2. /\ got[mem[i].claim][mem[i].pane] <= sent[mem[i].claim][mem[i].pane]
            /\ sent[mem[i].claim][mem[i].pane] <= 1
        BY <1>3 DEF IInv, EvidenceInv, AtMostOnce
      <4>3. got[mem[i].claim][mem[i].pane] > 0
        BY <2>3 DEF Reply
      <4> QED
        BY <4>1, <4>2, <4>3
    <3>2. [WithOutcome(journal, mem[i].pane, "applied") EXCEPT !.state = journal.state]
            = WithOutcome(journal, mem[i].pane, "applied")
      BY <2>1 DEF WithOutcome, Journal, journal
    <3>3. journal.state \in BootState
      BY <2>1 DEF Journal, journal
    <3> QED
      BY <2>3, <3>1, <3>2, <3>3 DEF Reply
  <2>4. CASE Fail(i)
    BY <2>4 DEF Fail, BootState
  <2> QED
    BY <2>2, <2>3, <2>4
<1> DEFINE j == [WithOutcome(journal, mem[i].pane, o) EXCEPT !.state = s]
<1>5. o \in Outcome /\ o \notin {"pending", "sending"}
  BY DEF Outcome
<1>j. j = Resulting(mem[i].pane, o, s)
  BY DEF Resulting
<1> HIDE DEF j
<1>6. /\ j \in Journal /\ j # NoFile /\ j.claim = mem[i].claim
      /\ pending.now.claim = mem[i].claim
      /\ TruthOf(j.claim, j) /\ OrderOf(j)
      /\ l = "recordSync" =>
           \A p \in Panes : j.entries[p] \in {"pending", "applied", "skipped"}
  <2>1. /\ o = "skipped" => sent[mem[i].claim][mem[i].pane] = 0
        /\ o = "applied" => got[mem[i].claim][mem[i].pane] = 1
        /\ l = "recordSync" => o # "failed"
    BY <1>4
  <2> QED
    BY <1>2, <1>j, <1>5, <2>1, Outcomes
<1>7. pending' = Renamed(pending, j) /\ Goto(i, l)
  BY <1>4 DEF Persist, j
<1>8. LocalOK' /\ LockInv' /\ Others(i) /\ pc'[i] = l /\ mem'[i] = mem[i]
  <2>1. l # "idle" /\ l \in Labels /\ l \in Working
    BY <1>2
  <2> QED
    BY <1>2, <1>7, <2>1, HolderMoves
<1>9. TypeOK'
  <2>1. pending' \in Files
    BY <1>3, <1>6, <1>7, FileTypes DEF Contents
  <2> QED
    BY <1>1, <1>8, <2>1 DEF IInv, TypeOK, LocalOK, Files, Contents
<1>10. EvidenceInv'
  BY <1>1, <1>6, <1>7, Renaming
<1>11. pending'.now = j
  BY <1>7 DEF Renamed
<1>12. AutoAt(i)' /\ ExecAt(i)' /\ FinishAt(i)'
  <2>1. AutoAt(i)'
    BY <1>4, <1>8, Parts DEF AutoAt, Manual, Unclaimed
  <2>2. ExecAt(i)'
    BY <1>1, <1>3, <1>4, <1>6, <1>8, <1>11 DEF ExecAt, Executing, AtPane, Unsent, Durable, Between
  <2>3. FinishAt(i)'
    BY <1>4, <1>8 DEF FinishAt
  <2> QED
    BY <2>1, <2>2, <2>3
<1>13. ProcessInv'
  BY <1>1, <1>2, <1>8, <1>12, HolderStep DEF IInv, ProcessInv, GenInv
<1>14. ClaimInv'
  BY <1>1, <1>6, <1>8, <1>11, StaysClaimed
<1> QED
  BY <1>9, <1>10, <1>13, <1>14 DEF IInv

\* The next pane becomes sending (app::execute, before the revalidation).
LEMMA MarkStep ==
    ASSUME IInv, NEW i \in Invocations, Mark(i)
    PROVE  IInv'
<1>1. PICK p \in PanesLeft :
        /\ \A q \in PanesLeft : p <= q
        /\ pending' = Renamed(pending, WithOutcome(journal, p, "sending"))
        /\ mem' = [mem EXCEPT ![i].pane = p]
  BY DEF Mark
<1>2. /\ UNCHANGED <<lock, boots, rebuilding, saves, conf, gen, booted, cuts, wire, sent, got, opened>>
      /\ pc[i] = "next" /\ pc' = [pc EXCEPT ![i] = "markSync"]
  BY DEF Mark, OutsideUnchanged, HistoryUnchanged, server, traffic
<1>3. /\ mem[i].claim \in Claims /\ journal # NoFile /\ journal.claim = mem[i].claim
      /\ boots[mem[i].claim] = Stored(NoFile)
      /\ \A q \in Panes : journal.entries[q] \in {"pending", "applied", "skipped"}
  BY <1>2, Parts DEF ExecAt, Executing, Between, journal
<1>4. /\ pending \in Files /\ journal \in Journal /\ journal \in pending.after
      /\ journal.entries \in [Panes -> Outcome]
  BY <1>3, Parts, FileTypes DEF Contents, journal, Journal
<1>5. p \in Panes /\ journal.entries[p] = "pending"
  BY DEF PanesLeft
<1> DEFINE j == WithOutcome(journal, p, "sending")
<1>6. /\ j \in Journal /\ j.claim = journal.claim
      /\ j.entries = [journal.entries EXCEPT ![p] = "sending"]
  BY <1>4, <1>5 DEF WithOutcome, Journal, Outcome
<1> HIDE DEF j
<1>7. pending' = Renamed(pending, j) /\ pending'.now = j /\ j # NoFile
  BY <1>1, <1>6, FileAssumption DEF j, Renamed
<1>8. TruthOf(mem[i].claim, journal) /\ OrderOf(journal)
  <2>1. journal \in Versions(mem[i].claim)
    BY <1>3, <1>4 DEF Versions, PendingVersions
  <2> QED
    BY <1>3, <2>1 DEF IInv, EvidenceInv, JournalTruthful, OrderInv, TruthOf, OrderOf
<1>9. TruthOf(j.claim, j) /\ OrderOf(j)
  <2>1. TruthOf(j.claim, j)
    BY <1>3, <1>4, <1>6, <1>8 DEF TruthOf
  <2>2. \A q \in Panes : q < p => journal.entries[q] # "pending"
    BY <1>1, <1>5, BoundAssumption DEF PanesLeft, Panes
  <2>3. OrderOf(j)
    BY <1>3, <1>4, <1>5, <1>6, <1>8, <2>2 DEF OrderOf
  <2> QED
    BY <2>1, <2>3
<1>10. EvidenceInv'
  BY <1>2, <1>3, <1>6, <1>7, <1>9, Renaming DEF journal
<1>11. LocalOK' /\ Others(i) /\ LockInv' /\ pc'[i] = "markSync"
  <2>1. "markSync" \in Labels /\ "markSync" \in Working /\ "next" \in Working
    BY DEF Labels, Working
  <2>2. LocalOK' /\ Others(i) /\ pc'[i] = "markSync"
    <3>1. [mem[i] EXCEPT !.pane = p] \in Memory
      BY <1>5, Parts, BoundAssumption DEF LocalOK, Memory, Panes
    <3> QED
      BY <1>1, <1>2, <2>1, <3>1, Parts DEF LocalOK, Others
  <2> QED
    BY <1>2, <2>1, <2>2, Parts, LockKept
<1>12. /\ mem'[i].claim = mem[i].claim /\ mem'[i].pane = p /\ mem'[i].gen = mem[i].gen
       /\ mem'[i].auto = mem[i].auto
  BY <1>1, Parts DEF LocalOK, Memory
<1>13. TypeOK'
  <2>1. pending' \in Files
    BY <1>4, <1>6, <1>7, FileTypes DEF Contents
  <2> QED
    BY <1>2, <1>11, <2>1 DEF IInv, TypeOK, LocalOK, Files, Contents
<1>14. AutoAt(i)' /\ ExecAt(i)' /\ FinishAt(i)'
  <2>1. AutoAt(i)' /\ FinishAt(i)'
    BY <1>2, <1>11, <1>12, Parts DEF AutoAt, FinishAt, Manual, Unclaimed
  <2>2. sent[mem[i].claim][p] = 0
    BY <1>5, <1>8 DEF TruthOf
  <2>3. j.entries[p] = "sending"
    BY <1>4, <1>5, <1>6
  <2>4. ExecAt(i)'
    BY <1>2, <1>3, <1>5, <1>6, <1>7, <1>11, <1>12, <2>2, <2>3 DEF ExecAt, Executing, AtPane,
       Unsent, Durable, Between
  <2> QED
    BY <2>1, <2>4
<1>15. ProcessInv'
  <2>1. pc[i] \in Working
    BY <1>2 DEF Working
  <2> QED
    BY <1>2, <1>11, <1>12, <1>14, <2>1, HolderStep DEF IInv, ProcessInv, GenInv
<1>16. ClaimInv'
  BY <1>2, <1>3, <1>6, <1>7, <1>11, <1>12, StaysClaimed DEF journal
<1> QED
  BY <1>10, <1>13, <1>15, <1>16 DEF IInv

\* Without a record a claim was never used: nothing was sent under it.
LEMMA Unused ==
    ASSUME IInv, NEW c \in Claims, boots[c].now = NoFile,
           pending.now # NoFile => pending.now.claim # c
    PROVE  /\ \A p \in Panes : sent[c][p] = 0
           /\ boots[c] = Stored(NoFile)
<1>1. boots[c] \in Files /\ pending \in Files
  BY DEF IInv, TypeOK, Files, Contents
<1>2. NoFile \in boots[c].after /\ pending.now \in pending.after
  BY <1>1 DEF Files, FileOf
<1>3. boots[c] = Stored(NoFile)
  <2>1. boots[c].after = {NoFile}
    BY DEF IInv, EvidenceInv, FileInv
  <2> QED
    BY <1>1, <2>1 DEF Stored, Files, FileOf
<1>4. \A p \in Panes : sent[c][p] \in Nat /\ ~(sent[c][p] > 0)
  <2> TAKE p \in Panes
  <2>1. sent[c][p] \in Nat
    BY DEF IInv, TypeOK
  <2>2. ~(\A v \in pending.after : v # NoFile /\ v.claim = c)
    BY <1>2
  <2> QED
    BY <1>2, <2>1, <2>2 DEF IInv, EvidenceInv, RecordInv
<1> QED
  BY <1>3, <1>4

\* The claim is taken (app::restore's choice of the claim, app::execute).
LEMMA OpenStep ==
    ASSUME IInv, NEW i \in Invocations, Open(i)
    PROVE  IInv'
<1>1. PICK c \in ClaimsFor(mem[i].gen), candidates \in SUBSET Panes :
        /\ boots[c].now = NoFile
        /\ pending' = Renamed(pending, NewJournal(c, candidates))
        /\ mem' = [mem EXCEPT ![i].claim = c]
        /\ opened' = [opened EXCEPT ![c] = @ + 1]
  BY DEF Open
<1>2. /\ UNCHANGED <<lock, boots, rebuilding, saves, conf, gen, booted, cuts, wire, sent, got>>
      /\ pc[i] = "settle" /\ pc' = [pc EXCEPT ![i] = "openSync"]
      /\ pending.now = NoFile
  BY DEF Open, Clear, OutsideUnchanged, server, traffic
<1>3. /\ mem[i].gen \in Generations
      /\ mem[i].claim = None
      /\ mem[i].auto => boots[mem[i].gen].now = NoFile
  BY <1>2, Parts DEF AutoAt, Unclaimed
<1>4. c \in Claims /\ (mem[i].auto => c = mem[i].gen)
  BY <1>3 DEF ClaimsFor, Claims
<1>5. opened[c] = 0
  <2>1. opened[c] \in Nat
    BY <1>4 DEF IInv, TypeOK
  <2>2. c \in ManualClaims => c \notin Generations
    BY ClaimAssumption
  <2>3. c = mem[i].gen \/ (c \in ManualClaims /\ opened[c] = 0)
    BY DEF ClaimsFor
  <2>4. c = mem[i].gen => ~(opened[c] > 0)
    BY <1>1, <1>2, <1>3 DEF IInv, ClaimInv, ClaimedInv
  <2> QED
    BY <2>1, <2>3, <2>4
<1>6. (\A p \in Panes : sent[c][p] = 0) /\ boots[c] = Stored(NoFile)
  BY <1>1, <1>2, <1>4, Unused
<1> DEFINE j == NewJournal(c, candidates)
<1>7. /\ j \in Journal /\ j.claim = c
      /\ \A p \in Panes : j.entries[p] \in {"pending", "skipped"}
  BY <1>4, NewJournalType DEF NewJournal
<1> HIDE DEF j
<1>8. pending' = Renamed(pending, j) /\ pending'.now = j /\ j # NoFile
  BY <1>1, <1>7, FileAssumption DEF j, Renamed
<1>9. EvidenceInv'
  <2>1. TruthOf(j.claim, j) /\ OrderOf(j)
    BY <1>6, <1>7 DEF TruthOf, OrderOf
  <2> QED
    BY <1>2, <1>7, <1>8, <2>1, Renaming
<1>10. LocalOK' /\ Others(i) /\ LockInv' /\ pc'[i] = "openSync"
  <2>1. "openSync" \in Labels /\ "openSync" \in Working /\ "settle" \in Working
    BY DEF Labels, Working
  <2>2. LocalOK' /\ Others(i) /\ pc'[i] = "openSync"
    <3>1. [mem[i] EXCEPT !.claim = c] \in Memory
      BY <1>4, Parts DEF LocalOK, Memory
    <3> QED
      BY <1>1, <1>2, <2>1, <3>1, Parts DEF LocalOK, Others
  <2> QED
    BY <1>2, <2>1, <2>2, Parts, LockKept
<1>11. mem'[i].claim = c /\ mem'[i].gen = mem[i].gen /\ mem'[i].auto = mem[i].auto
  BY <1>1, Parts DEF LocalOK, Memory
<1>12. opened' \in [Claims -> Nat] /\ opened'[c] = 1
       /\ \A d \in Claims \ {c} : opened'[d] = opened[d]
  BY <1>1, <1>4, <1>5 DEF IInv, TypeOK
<1>13. TypeOK'
  <2>1. pending' \in Files
    BY <1>7, <1>8, Parts, FileTypes DEF Contents
  <2> QED
    BY <1>2, <1>10, <1>12, <2>1 DEF IInv, TypeOK, LocalOK, Files, Contents
<1>14. AutoAt(i)' /\ ExecAt(i)' /\ FinishAt(i)'
  <2>1. AutoAt(i)' /\ FinishAt(i)'
    BY <1>3, <1>4, <1>10, <1>11 DEF AutoAt, FinishAt, Manual, Unclaimed
  <2>2. ExecAt(i)'
    BY <1>2, <1>4, <1>6, <1>7, <1>8, <1>10, <1>11 DEF ExecAt, Executing, AtPane,
       Unsent, Durable, Between
  <2> QED
    BY <2>1, <2>2
<1>15. mem[i].gen \in booted
  BY <1>3, ClaimAssumption DEF IInv, ProcessInv, GenInv, Claims
<1>16. ProcessInv'
  <2>1. pc[i] \in Working
    BY <1>2 DEF Working
  <2>2. \A g \in Generations : opened'[g] > 0 => g \in booted
    <3>1. c \in Generations => c = mem[i].gen
      BY ClaimAssumption DEF ClaimsFor
    <3> QED
      BY <1>12, <1>15, <3>1 DEF IInv, ProcessInv, GenInv, Claims
  <2> QED
    BY <1>2, <1>10, <1>11, <1>14, <2>1, <2>2, HolderStep
<1>17. ClaimInv'
  <2>1. OpenedInv'
    BY <1>12 DEF IInv, ClaimInv, OpenedInv
  <2>2. \A k \in Invocations : mem'[k].gen = mem[k].gen
    BY <1>10, <1>11 DEF Others
  <2>3. ClaimedInv'
    BY <1>2, <1>7, <1>8, <1>12, <2>2 DEF IInv, ClaimInv, ClaimedInv, Claims
  <2> QED
    BY <2>1, <2>3 DEF ClaimInv
<1> QED
  BY <1>9, <1>13, <1>16, <1>17 DEF IInv

\* The request goes out (transport::run).
LEMMA SendStep ==
    ASSUME IInv, NEW i \in Invocations, Send(i)
    PROVE  IInv'
<1> DEFINE c == mem[i].claim
           p == mem[i].pane
<1>1. /\ wire' = wire \union {<<c, p>>}
      /\ sent' = [sent EXCEPT ![c][p] = @ + 1]
      /\ UNCHANGED <<pending, boots, rebuilding, saves, conf, gen, booted, cuts, got, opened>>
      /\ pc[i] = "send" /\ Goto(i, "await")
  BY DEF Send, FilesUnchanged, OutsideUnchanged, evidence, server
<1>2. /\ c \in Claims /\ p \in Panes /\ sent[c][p] = 0
      /\ pending.now # NoFile /\ pending.now.claim = c
      /\ pending.now.entries[p] = "sending"
      /\ pending.after = {pending.now}
      /\ boots[c] = Stored(NoFile)
  BY <1>1, Parts DEF ExecAt, Executing, Durable, AtPane, Unsent
<1> HIDE DEF c, p
<1>3. /\ sent' \in [Claims -> [Panes -> Nat]]
      /\ sent'[c][p] = 1
      /\ \A d \in Claims, q \in Panes : <<d, q>> # <<c, p>> => sent'[d][q] = sent[d][q]
  BY <1>1, <1>2 DEF IInv, TypeOK
<1>4. got[c][p] = 0
  <2>1. got[c][p] \in Nat /\ got[c][p] <= sent[c][p]
    BY <1>2 DEF IInv, TypeOK, EvidenceInv, AtMostOnce
  <2> QED
    BY <1>2, <2>1
<1>5. pc[i] \in Working /\ "await" \in Working \intersect Labels
  BY <1>1 DEF Working, Labels
<1>6. LocalOK' /\ LockInv' /\ Others(i) /\ pc'[i] = "await" /\ mem'[i] = mem[i]
  BY <1>1, <1>5, HolderMoves
<1>7. TypeOK'
  <2>1. wire' \in SUBSET (Claims \X Panes)
    BY <1>1, <1>2 DEF IInv, TypeOK
  <2> QED
    BY <1>1, <1>3, <1>6, <2>1 DEF IInv, TypeOK, LocalOK
<1>8. EvidenceInv'
  <2>1. FileInv'
    BY <1>1 DEF IInv, EvidenceInv, FileInv
  <2>2. WireInv'
    BY <1>1, <1>2, <1>3, <1>4 DEF IInv, EvidenceInv, WireInv
  <2>3. AtMostOnce'
    BY <1>1, <1>3, <1>4 DEF IInv, EvidenceInv, AtMostOnce
  <2>4. \A d \in Claims : Versions(d)' = Versions(d)
    BY <1>1 DEF Versions, PendingVersions
  <2>5. Versions(c) = {pending.now}
    BY <1>2 DEF Versions, PendingVersions, Stored
  <2>6. JournalTruthful'
    BY <1>1, <1>2, <1>3, <2>4, <2>5 DEF IInv, EvidenceInv, JournalTruthful
  <2>7. OrderInv'
    BY <2>4 DEF IInv, EvidenceInv, OrderInv
  <2>8. RecordInv'
    BY <1>1, <1>2, <1>3 DEF IInv, EvidenceInv, RecordInv
  <2> QED
    BY <2>1, <2>2, <2>3, <2>6, <2>7, <2>8 DEF EvidenceInv
<1>9. AutoAt(i)' /\ ExecAt(i)' /\ FinishAt(i)'
  <2>1. AutoAt(i)' /\ FinishAt(i)'
    BY <1>1, <1>6, Parts DEF AutoAt, FinishAt, Manual, Unclaimed
  <2>2. ExecAt(i)'
    BY <1>1, <1>2, <1>6 DEF c, p, ExecAt, Executing, AtPane, Unsent, Durable, Between
  <2> QED
    BY <2>1, <2>2
<1>10. ProcessInv'
  BY <1>1, <1>5, <1>6, <1>9, HolderStep DEF IInv, ProcessInv, GenInv
<1>11. ClaimInv'
  BY <1>1, <1>6, StaysClaimed
<1> QED
  BY <1>7, <1>8, <1>10, <1>11 DEF IInv

\* A Done record is renamed into boots/ (app::finish).
LEMMA ArchiveStep ==
    ASSUME IInv, NEW i \in Invocations, pc[i] \in Working, NEW j \in Journal,
           Archive(i, j), UNCHANGED <<rebuilding, saves, conf, gen, booted, cuts, wire, sent, got, opened>>,
           TruthOf(j.claim, j), OrderOf(j),
           pending.now # NoFile => pending.now.claim = j.claim,
           mem[i].auto => mem[i].gen = j.claim
    PROVE  IInv'
<1>1. /\ boots' = [boots EXCEPT ![j.claim] = Renamed(@, j)]
      /\ pc' = [pc EXCEPT ![i] = "bootSync"]
      /\ mem' = [mem EXCEPT ![i].claim = j.claim]
      /\ UNCHANGED <<lock, pending>>
  BY DEF Archive
<1>2. j.claim \in Claims /\ j # NoFile
  BY FileAssumption DEF Journal
<1>3. /\ boots' \in [Claims -> Files]
      /\ boots'[j.claim].now = j
      /\ \A c \in Claims \ {j.claim} : boots'[c] = boots[c]
  BY <1>1, <1>2, Parts, FileTypes DEF Contents, Renamed
<1>4. LocalOK' /\ Others(i) /\ LockInv' /\ pc'[i] = "bootSync"
  <2>1. "bootSync" \in Labels /\ "bootSync" \in Working
    BY DEF Labels, Working
  <2>2. LocalOK' /\ Others(i) /\ pc'[i] = "bootSync"
    <3>1. [mem[i] EXCEPT !.claim = j.claim] \in Memory
      BY <1>2, Parts DEF LocalOK, Memory
    <3> QED
      BY <1>1, <2>1, <3>1, Parts DEF LocalOK, Others
  <2> QED
    BY <1>1, <2>1, <2>2, Parts, LockKept
<1>5. mem'[i].claim = j.claim /\ mem'[i].gen = mem[i].gen /\ mem'[i].auto = mem[i].auto
  BY <1>1, Parts DEF LocalOK, Memory
<1>6. TypeOK'
  BY <1>1, <1>3, <1>4 DEF IInv, TypeOK, LocalOK, Files, Contents
<1>7. EvidenceInv'
  BY <1>1, <1>2, Archiving
<1>8. AutoAt(i)' /\ ExecAt(i)' /\ FinishAt(i)'
  <2>1. AutoAt(i)'
    BY <1>4, <1>5 DEF AutoAt, Manual, Unclaimed
  <2>2. ExecAt(i)'
    BY <1>4 DEF ExecAt, Executing, AtPane, Unsent, Durable, Between
  <2>3. FinishAt(i)'
    BY <1>1, <1>2, <1>3, <1>4, <1>5 DEF FinishAt
  <2> QED
    BY <2>1, <2>2, <2>3
<1>9. ProcessInv'
  BY <1>4, <1>5, <1>8, HolderStep DEF IInv, ProcessInv, GenInv
<1>10. ClaimInv'
  BY <1>1, <1>2, <1>3, <1>4, <1>5, StaysClaimed
<1> QED
  BY <1>6, <1>7, <1>9, <1>10 DEF IInv

\* The journal on the disk, marked done, is a record that may be archived.
LEMMA Archivable ==
    ASSUME IInv, pending.now # NoFile, NEW j,
           j = Done(pending.now) \/ j = [Done(pending.now) EXCEPT !.acknowledged = TRUE]
    PROVE  /\ j \in Journal /\ j.claim = pending.now.claim
           /\ TruthOf(j.claim, j) /\ OrderOf(j)
<1>1. pending.now \in Journal /\ pending.now \in pending.after
  BY FileTypes DEF IInv, TypeOK, Files, Contents, FileOf
<1>2. j \in Journal /\ j.claim = pending.now.claim /\ j.entries = pending.now.entries
  <2>1. CASE j = Done(pending.now)
    BY <1>1, <2>1 DEF Done, Journal, BootState
  <2>2. CASE j = [Done(pending.now) EXCEPT !.acknowledged = TRUE]
    BY <1>1, <2>2 DEF Done, Journal, BootState
  <2> QED
    BY <2>1, <2>2
<1>3. pending.now \in Versions(j.claim) /\ j.claim \in Claims
  BY <1>1, <1>2 DEF Versions, PendingVersions, Journal
<1>4. TruthOf(j.claim, pending.now) /\ OrderOf(pending.now)
  BY <1>3 DEF IInv, EvidenceInv, JournalTruthful, OrderInv, TruthOf, OrderOf
<1> QED
  BY <1>2, <1>4 DEF TruthOf, OrderOf

\* The three ways to write a Done record keep the invariant.
LEMMA Archives ==
    ASSUME IInv, NEW i \in Invocations, HookNoSnapshot(i) \/ Finish(i) \/ Acknowledge(i)
    PROVE  IInv'
<1>1. UNCHANGED <<rebuilding, saves, conf, gen, booted, cuts, wire, sent, got, opened>>
  BY DEF HookNoSnapshot, Finish, Acknowledge, OutsideUnchanged, HistoryUnchanged, server, traffic
<1>2. pc[i] \in Working
  BY DEF HookNoSnapshot, Finish, Acknowledge, Working
<1>3. CASE HookNoSnapshot(i)
  <2> DEFINE j == Done(NewJournal(gen, {}))
  <2>1. Archive(i, j) /\ pending.now = NoFile /\ boots[gen].now = NoFile
    BY <1>3 DEF HookNoSnapshot, Clear, RestoreDue
  <2>2. gen \in Claims
    BY DEF IInv, TypeOK, Claims
  <2>3. /\ j \in Journal /\ j.claim = gen
        /\ \A p \in Panes : j.entries[p] = "skipped"
    <3>1. NewJournal(gen, {}) \in Journal
      BY <2>2, NewJournalType
    <3> QED
      BY <3>1 DEF Done, NewJournal, Journal, BootState
  <2>4. \A p \in Panes : sent[gen][p] = 0
    BY <2>1, <2>2, Unused
  <2> HIDE DEF j
  <2>5. TruthOf(j.claim, j) /\ OrderOf(j)
    BY <2>3, <2>4 DEF TruthOf, OrderOf
  <2>6. ~mem[i].auto
    BY <1>3, Parts DEF HookNoSnapshot, AutoAt, Manual
  <2> QED
    BY <1>1, <1>2, <2>1, <2>3, <2>5, <2>6, ArchiveStep
<1>4. CASE Finish(i)
  <2>1. pending.now # NoFile /\ pending.now.claim = mem[i].claim /\ mem[i].claim \in Claims
    BY <1>4, Parts DEF Finish, ExecAt, Executing
  <2>2. mem[i].auto => mem[i].claim = mem[i].gen
    BY <2>1, Parts, ClaimAssumption DEF AutoAt
  <2> DEFINE j == Done(pending.now)
  <2>3. Archive(i, j)
    BY <1>4 DEF Finish, journal
  <2>4. /\ j \in Journal /\ j.claim = pending.now.claim
        /\ TruthOf(j.claim, j) /\ OrderOf(j)
    BY <2>1, Archivable
  <2> HIDE DEF j
  <2> QED
    BY <1>1, <1>2, <2>1, <2>2, <2>3, <2>4, ArchiveStep
<1>5. CASE Acknowledge(i)
  <2>1. pending.now # NoFile
    BY <1>5 DEF Acknowledge
  <2>2. ~mem[i].auto
    BY <1>5, Parts DEF Acknowledge, AutoAt, Manual
  <2> DEFINE j == [Done(pending.now) EXCEPT !.acknowledged = TRUE]
  <2>3. Archive(i, j)
    BY <1>5 DEF Acknowledge
  <2>4. /\ j \in Journal /\ j.claim = pending.now.claim
        /\ TruthOf(j.claim, j) /\ OrderOf(j)
    BY <2>1, Archivable
  <2> HIDE DEF j
  <2> QED
    BY <1>1, <1>2, <2>1, <2>2, <2>3, <2>4, ArchiveStep
<1> QED
  BY <1>3, <1>4, <1>5

\* The Done record becomes durable, before the journal may go (app::finish).
LEMMA BootSyncStep ==
    ASSUME IInv, NEW i \in Invocations, BootSync(i)
    PROVE  IInv'
<1>1. /\ boots' = [boots EXCEPT ![mem[i].claim] = Synced(@)]
      /\ UNCHANGED <<pending, rebuilding, saves, conf, gen, booted, cuts, wire, sent, got, opened>>
      /\ pc[i] = "bootSync"
      /\ IF pending.now # NoFile THEN Goto(i, "remove") ELSE Exit(i)
  BY DEF BootSync, OutsideUnchanged, HistoryUnchanged, server, traffic
<1> DEFINE c == mem[i].claim
<1>2. /\ c \in Claims /\ boots[c].now # NoFile
      /\ pending.now # NoFile => pending.now.claim = c
  BY <1>1, Parts DEF FinishAt
<1> HIDE DEF c
<1>3. boots[c] \in Files /\ boots \in [Claims -> Files]
  BY <1>2, Parts
<1>4. /\ boots' \in [Claims -> Files]
      /\ boots'[c].now = boots[c].now /\ boots'[c].after = {boots[c].now}
      /\ boots[c].now \in boots[c].after
      /\ \A d \in Claims \ {c} : boots'[d] = boots[d]
  <2>1. Synced(boots[c]) \in Files /\ boots[c].now \in boots[c].after
    BY <1>3, FileTypes DEF Contents
  <2>2. boots' = [boots EXCEPT ![c] = Synced(boots[c])]
    BY <1>1 DEF c
  <2> QED
    BY <1>2, <1>3, <2>1, <2>2 DEF Synced
<1>5. PICK l \in {"remove", "idle"} :
        \/ l = "remove" /\ Goto(i, l) /\ pending.now # NoFile
        \/ l = "idle" /\ Exit(i)
  BY <1>1, Zenon
<1>6. pc[i] \in Working /\ l \in Labels /\ (l = "remove" => l \in Working)
  BY <1>1 DEF Working, Labels
<1>7. /\ LocalOK' /\ LockInv' /\ Others(i) /\ pc'[i] = l
      /\ l = "idle" => mem'[i] = Blank
      /\ l # "idle" => mem'[i] = mem[i]
      /\ mem'[i].gen \in {mem[i].gen, None}
  BY <1>5, <1>6, HolderMoves
<1>8. TypeOK'
  BY <1>1, <1>4, <1>7 DEF IInv, TypeOK, LocalOK, Files, Contents
<1>9. EvidenceInv'
  <2>1. \A d \in Claims : \A v \in Versions(d)' : v \in Versions(d)
    BY <1>1, <1>4 DEF Versions, PendingVersions
  <2>2. FileInv'
    BY <1>2, <1>4 DEF IInv, EvidenceInv, FileInv
  <2>3. WireInv' /\ AtMostOnce'
    BY <1>1 DEF IInv, EvidenceInv, WireInv, AtMostOnce
  <2>4. JournalTruthful' /\ OrderInv'
    BY <1>1, <2>1 DEF IInv, EvidenceInv, JournalTruthful, OrderInv
  <2>5. RecordInv'
    BY <1>1, <1>2, <1>4 DEF IInv, EvidenceInv, RecordInv
  <2> QED
    BY <2>2, <2>3, <2>4, <2>5 DEF EvidenceInv
<1>10. AutoAt(i)' /\ ExecAt(i)' /\ FinishAt(i)'
  <2>1. AutoAt(i)'
    <3>1. CASE l = "idle"
      BY <1>7, <3>1 DEF AutoAt, Blank, Manual, Unclaimed
    <3>2. CASE l = "remove"
      BY <1>7, <3>2, Parts DEF AutoAt, Manual, Unclaimed
    <3> QED
      BY <3>1, <3>2
  <2>2. ExecAt(i)'
    BY <1>7 DEF ExecAt, Executing, AtPane, Unsent, Durable, Between
  <2>3. FinishAt(i)'
    BY <1>1, <1>2, <1>4, <1>5, <1>7 DEF FinishAt, c
  <2> QED
    BY <2>1, <2>2, <2>3
<1>11. ProcessInv'
  BY <1>1, <1>6, <1>7, <1>10, HolderStep DEF IInv, ProcessInv, GenInv
<1>12. ClaimInv'
  <2>1. \A d \in Claims : boots[d].now # NoFile => boots'[d].now # NoFile
    BY <1>4
  <2> QED
    BY <1>1, <1>7, <2>1, StaysClaimed
<1> QED
  BY <1>8, <1>9, <1>11, <1>12 DEF IInv

\* The journal goes, its boot record being durable (app::finish).
LEMMA RemoveStep ==
    ASSUME IInv, NEW i \in Invocations, Remove(i)
    PROVE  IInv'
<1>1. /\ pending' = Renamed(pending, NoFile) /\ Goto(i, "removeSync")
      /\ UNCHANGED <<boots, rebuilding, saves, conf, gen, booted, cuts, wire, sent, got, opened>>
      /\ pc[i] = "remove"
  BY DEF Remove, Persist, OutsideUnchanged, HistoryUnchanged, server, traffic
<1> DEFINE c == mem[i].claim
<1>2. /\ c \in Claims /\ NoFile \notin boots[c].after
      /\ pending.now # NoFile /\ pending.now.claim = c
  BY <1>1, Parts DEF FinishAt
<1> HIDE DEF c
<1>3. pc[i] \in Working /\ "removeSync" \in Labels \intersect Working
  BY <1>1 DEF Working, Labels
<1>4. LocalOK' /\ LockInv' /\ Others(i) /\ pc'[i] = "removeSync" /\ mem'[i] = mem[i]
  BY <1>1, <1>3, HolderMoves
<1>5. pending \in Files /\ pending.now \in pending.after
  BY Parts, FileTypes DEF Contents
<1>6. boots[c].now # NoFile
  <2>1. boots[c].now \in boots[c].after
    BY <1>2, Parts, FileTypes DEF Contents
  <2> QED
    BY <1>2, <2>1
<1>7. TypeOK'
  <2>1. pending' \in Files
    BY <1>1, <1>5, FileTypes DEF Contents
  <2> QED
    BY <1>1, <1>4, <2>1 DEF IInv, TypeOK, LocalOK, Files, Contents
<1>8. EvidenceInv'
  <2>1. \A d \in Claims : \A v \in Versions(d)' : v \in Versions(d)
    BY <1>1 DEF Versions, PendingVersions, Renamed
  <2>2. FileInv' /\ WireInv' /\ AtMostOnce'
    BY <1>1 DEF IInv, EvidenceInv, FileInv, WireInv, AtMostOnce
  <2>3. JournalTruthful' /\ OrderInv'
    BY <1>1, <2>1 DEF IInv, EvidenceInv, JournalTruthful, OrderInv
  <2>4. RecordInv'
    BY <1>1, <1>2, <1>5 DEF IInv, EvidenceInv, RecordInv
  <2> QED
    BY <2>2, <2>3, <2>4 DEF EvidenceInv
<1>9. AutoAt(i)' /\ ExecAt(i)' /\ FinishAt(i)'
  BY <1>4, Parts DEF AutoAt, ExecAt, FinishAt, Manual, Unclaimed, Executing, AtPane,
     Unsent, Durable, Between
<1>10. ProcessInv'
  BY <1>1, <1>3, <1>4, <1>9, HolderStep DEF IInv, ProcessInv, GenInv
<1>11. ClaimInv'
  BY <1>1, <1>2, <1>4, <1>6, StaysClaimed
<1> QED
  BY <1>7, <1>8, <1>10, <1>11 DEF IInv

-----------------------------------------------------------------------------
(* The server, the user and the power *)

\* A request is acted on or dropped; config.toml is edited.
LEMMA TrafficStep ==
    ASSUME IInv, Deliver \/ Drop \/ EditConfig
    PROVE  IInv'
<1>1. UNCHANGED <<pc, mem, lock, pending, boots, rebuilding, saves, gen, booted, cuts, sent, opened>>
  BY DEF Deliver, Drop, EditConfig, FilesUnchanged, HistoryUnchanged, local, evidence,
         server, traffic
<1>2. /\ \A c \in Claims, p \in Panes : got[c][p] \in Nat /\ sent[c][p] \in Nat
      /\ wire \in SUBSET (Claims \X Panes) /\ conf \in Config
      /\ got \in [Claims -> [Panes -> Nat]]
  BY DEF IInv, TypeOK
<1>3. /\ wire' \in SUBSET wire
      /\ got' \in [Claims -> [Panes -> Nat]]
      /\ \A c \in Claims, p \in Panes :
           \/ got'[c][p] = got[c][p]
           \/ <<c, p>> \in wire /\ <<c, p>> \notin wire' /\ got'[c][p] = got[c][p] + 1
      /\ conf' \in Config
  <2>1. CASE Deliver
    <3>1. PICK w \in wire : /\ wire' = wire \ {w}
                            /\ got' = [got EXCEPT ![w[1]][w[2]] = @ + 1]
                            /\ UNCHANGED conf
      BY <2>1 DEF Deliver
    <3>2. PICK d \in Claims, q \in Panes : w = <<d, q>>
      BY <1>2
    <3>3. got' = [got EXCEPT ![d][q] = @ + 1]
      BY <3>1, <3>2
    <3>4. got' \in [Claims -> [Panes -> Nat]]
      BY <1>2, <3>2, <3>3
    <3>5. \A c \in Claims, p \in Panes :
            IF c = d /\ p = q THEN got'[c][p] = got[c][p] + 1 ELSE got'[c][p] = got[c][p]
      BY <1>2, <3>2, <3>3
    <3> QED
      BY <1>2, <3>1, <3>2, <3>4, <3>5
  <2>2. CASE Drop
    BY <1>2, <2>2 DEF Drop
  <2>3. CASE EditConfig
    BY <1>2, <2>3, KindAssumption DEF EditConfig, HistoryUnchanged, traffic
  <2> QED
    BY <2>1, <2>2, <2>3
<1>4. TypeOK'
  BY <1>1, <1>2, <1>3 DEF IInv, TypeOK
<1>5. ProcessInv' /\ ClaimInv'
  BY <1>1 DEF IInv, ProcessInv, LockInv, GenInv, AutoInv, AutoAt, ExecInv, ExecAt,
     FinishInv, FinishAt, ClaimInv, ClaimedInv, OpenedInv
<1>6. EvidenceInv'
  <2>1. FileInv' /\ RecordInv'
    BY <1>1 DEF IInv, EvidenceInv, FileInv, RecordInv
  <2>2. WireInv'
    BY <1>1, <1>2, <1>3 DEF IInv, EvidenceInv, WireInv
  <2>3. AtMostOnce'
    <3> SUFFICES ASSUME NEW c \in Claims, NEW p \in Panes
                 PROVE  got'[c][p] <= sent'[c][p] /\ sent'[c][p] <= 1
      BY DEF AtMostOnce
    <3>1. got[c][p] <= sent[c][p] /\ sent[c][p] <= 1 /\ sent'[c][p] = sent[c][p]
      BY <1>1 DEF IInv, EvidenceInv, AtMostOnce
    <3>2. <<c, p>> \in wire => sent[c][p] = 1 /\ got[c][p] = 0
      BY DEF IInv, EvidenceInv, WireInv
    <3> QED
      BY <1>2, <1>3, <3>1, <3>2
  <2>4. \A c \in Claims : Versions(c)' = Versions(c)
    BY <1>1 DEF Versions, PendingVersions
  <2>5. JournalTruthful'
    <3> SUFFICES ASSUME NEW c \in Claims, NEW v \in Versions(c), NEW p \in Panes
                 PROVE  /\ v.entries[p] \in {"pending", "skipped"} => sent'[c][p] = 0
                        /\ v.entries[p] = "applied" => got'[c][p] = 1
      BY <2>4 DEF JournalTruthful
    <3>1. /\ v.entries[p] \in {"pending", "skipped"} => sent[c][p] = 0
          /\ v.entries[p] = "applied" => got[c][p] = 1
      BY DEF IInv, EvidenceInv, JournalTruthful
    <3>2. <<c, p>> \in wire => got[c][p] = 0
      BY DEF IInv, EvidenceInv, WireInv
    <3> QED
      BY <1>1, <1>3, <3>1, <3>2
  <2>6. OrderInv'
    BY <2>4 DEF IInv, EvidenceInv, OrderInv
  <2> QED
    BY <2>1, <2>2, <2>3, <2>5, <2>6 DEF EvidenceInv
<1> QED
  BY <1>4, <1>5, <1>6 DEF IInv

\* A generation the server takes is one nobody read or claimed.
LEMMA RestartStep ==
    ASSUME IInv, Restart
    PROVE  IInv'
<1>1. PICK g \in Generations \ booted : gen' = g /\ booted' = booted \union {g}
  BY DEF Restart
<1>2. UNCHANGED <<pc, mem, lock, pending, boots, rebuilding, saves, conf, cuts, wire, sent, got, opened>>
  BY DEF Restart, local, evidence, traffic
<1>3. TypeOK'
  BY <1>1, <1>2 DEF IInv, TypeOK
<1>4. LockInv' /\ AutoInv' /\ ExecInv' /\ FinishInv'
  BY <1>2 DEF IInv, ProcessInv, LockInv, AutoInv, AutoAt, ExecInv, ExecAt, FinishInv, FinishAt
<1>5. GenInv'
  BY <1>1, <1>2 DEF IInv, ProcessInv, GenInv
<1>6. EvidenceInv'
  BY <1>2 DEF IInv, EvidenceInv, FileInv, WireInv, AtMostOnce, JournalTruthful, OrderInv,
     RecordInv, Versions, PendingVersions
<1>7. ClaimInv'
  BY <1>1, <1>2 DEF IInv, ProcessInv, GenInv, ClaimInv, ClaimedInv, OpenedInv
<1> QED
  BY <1>3, <1>4, <1>5, <1>6, <1>7 DEF IInv, ProcessInv

\* After a power cut every file has a version the invariant already speaks of.
LEMMA PowerCutStep ==
    ASSUME IInv, PowerCut
    PROVE  IInv'
<1>1. PICK g \in Generations \ booted, v \in pending.after :
        /\ gen' = g /\ booted' = booted \union {g} /\ cuts' = cuts + 1 /\ pending' = Stored(v)
        /\ \E kept \in [Claims -> UNION {boots[c].after : c \in Claims}] :
             /\ \A c \in Claims : kept[c] \in boots[c].after
             /\ boots' = [c \in Claims |-> Stored(kept[c])]
  BY DEF PowerCut
<1>2. PICK kept \in [Claims -> UNION {boots[c].after : c \in Claims}] :
        /\ \A c \in Claims : kept[c] \in boots[c].after
        /\ boots' = [c \in Claims |-> Stored(kept[c])]
  BY <1>1
<1>3. /\ wire' = {} /\ lock' = None
      /\ pc' = [i \in Invocations |-> "idle"]
      /\ mem' = [i \in Invocations |-> Blank]
      /\ UNCHANGED <<rebuilding, saves, conf, sent, got, opened>>
  BY DEF PowerCut
<1>4. /\ pending' \in Files /\ pending'.now = v /\ pending'.after = {v}
      /\ \A c \in Claims : /\ boots'[c] \in Files /\ boots'[c].now = kept[c]
                           /\ boots'[c].after = {kept[c]}
  <2>1. v \in Contents /\ \A c \in Claims : kept[c] \in Contents
    BY <1>2 DEF IInv, TypeOK, FileOf, Contents
  <2> QED
    BY <1>1, <1>2, <2>1 DEF Stored, Files, FileOf
<1>5. TypeOK'
  <2>1. boots' \in [Claims -> Files]
    BY <1>2, <1>4
  <2>2. LocalOK'
    BY <1>3, BlankType DEF LocalOK, Labels
  <2>3. cuts' \in Nat
    BY <1>1 DEF IInv, TypeOK
  <2> QED
    BY <1>1, <1>3, <1>4, <2>1, <2>2, <2>3 DEF IInv, TypeOK, LocalOK, Files, Contents
<1>6. \A i \in Invocations : pc'[i] = "idle" /\ mem'[i] = Blank
  BY <1>3
<1>7. ProcessInv'
  <2>1. LockInv'
    BY <1>3, <1>6, ProcessAssumption DEF LockInv, Working
  <2>2. GenInv'
    BY <1>1, <1>3, <1>6 DEF IInv, ProcessInv, GenInv, Blank
  <2>3. AutoInv'
    BY <1>6 DEF AutoInv, AutoAt, Blank, Manual, Unclaimed
  <2>4. ExecInv' /\ FinishInv'
    BY <1>6 DEF ExecInv, ExecAt, FinishInv, FinishAt, Executing, AtPane, Unsent, Durable, Between
  <2> QED
    BY <2>1, <2>2, <2>3, <2>4 DEF ProcessInv
<1>8. EvidenceInv'
  <2>1. \A c \in Claims : \A w \in Versions(c)' : w \in Versions(c)
    <3> SUFFICES ASSUME NEW c \in Claims, NEW w \in Versions(c)' PROVE w \in Versions(c)
      OBVIOUS
    <3>1. w # NoFile /\ ((w = v /\ w.claim = c) \/ w = kept[c])
      BY <1>4 DEF Versions, PendingVersions
    <3> QED
      BY <1>2, <3>1 DEF Versions, PendingVersions
  <2>2. FileInv'
    BY <1>2, <1>4 DEF IInv, EvidenceInv, FileInv
  <2>3. WireInv' /\ AtMostOnce'
    BY <1>3 DEF IInv, EvidenceInv, WireInv, AtMostOnce
  <2>4. JournalTruthful' /\ OrderInv'
    BY <1>3, <2>1 DEF IInv, EvidenceInv, JournalTruthful, OrderInv
  <2>5. RecordInv'
    <3> SUFFICES ASSUME NEW c \in Claims, NEW p \in Panes, sent[c][p] > 0
                 PROVE  \/ \A w \in pending'.after : w # NoFile /\ w.claim = c
                        \/ NoFile \notin boots'[c].after
      BY <1>3 DEF RecordInv
    <3>1. CASE \A w \in pending.after : w # NoFile /\ w.claim = c
      BY <1>4, <3>1
    <3>2. CASE NoFile \notin boots[c].after
      BY <1>2, <1>4, <3>2
    <3> QED
      BY <3>1, <3>2 DEF IInv, EvidenceInv, RecordInv
  <2> QED
    BY <2>2, <2>3, <2>4, <2>5 DEF EvidenceInv
<1>9. ClaimInv'
  <2>1. OpenedInv'
    BY <1>3 DEF IInv, ClaimInv, OpenedInv
  <2>2. \A d \in Generations : opened[d] > 0 => d # g /\ d # None
    BY <1>1, ClaimAssumption DEF IInv, ProcessInv, GenInv, Claims
  <2>3. ClaimedInv'
    BY <1>1, <1>3, <1>6, <2>2 DEF ClaimedInv, Blank
  <2> QED
    BY <2>1, <2>3 DEF ClaimInv
<1> QED
  BY <1>5, <1>7, <1>8, <1>9 DEF IInv

-----------------------------------------------------------------------------
(* The invariant *)

\* The session starts with no process, no evidence and no claim.
LEMMA InitInv == Init => IInv
<1> SUFFICES ASSUME Init PROVE IInv
  OBVIOUS
<1>1. TypeOK
  <2>1. LocalOK
    BY BlankType DEF Init, LocalOK, Labels
  <2>2. Stored(NoFile) \in FileOf(Journal \union {NoFile})
    BY DEF Stored, FileOf
  <2>3. saves \in 0 .. MaxSaves
    BY BoundAssumption DEF Init
  <2>4. conf \in Config
    BY KindAssumption DEF Init
  <2>5. rebuilding \in BOOLEAN
    BY DEF Init
  <2> QED
    BY <2>1, <2>2, <2>3, <2>4, <2>5 DEF Init, TypeOK, LocalOK
<1>2. ProcessInv
  BY ProcessAssumption DEF Init, ProcessInv, LockInv, GenInv, AutoInv, AutoAt, ExecInv,
     ExecAt, FinishInv, FinishAt, Blank, Working, Manual, Unclaimed, Executing, AtPane,
     Unsent, Durable, Between, Claims
<1>3. EvidenceInv
  BY DEF Init, EvidenceInv, FileInv, WireInv, AtMostOnce, JournalTruthful, OrderInv,
     RecordInv, Versions, PendingVersions, Stored
<1>4. ClaimInv
  BY DEF Init, ClaimInv, ClaimedInv, OpenedInv, Claims
<1> QED
  BY <1>1, <1>2, <1>3, <1>4 DEF IInv

\* Every step of a process, of the server, of the user and every failure keeps it.
LEMMA NextInv == IInv /\ [Next]_vars => IInv'
<1> SUFFICES ASSUME IInv, [Next]_vars PROVE IInv'
  OBVIOUS
<1>1. ASSUME NEW i \in Invocations, Step(i) PROVE IInv'
  BY <1>1, Exits, Moves, AcquireStep, Reads, OpenStep, MarkStep, SendStep, Results, Syncs,
     Archives, BootSyncStep, RemoveStep DEF Step
<1>2. ASSUME NEW i \in Invocations, Abort(i) PROVE IInv'
  BY <1>2, Exits
<1>3. ASSUME NEW i \in Invocations, NEW k \in Kinds, Start(i, k) PROVE IInv'
  BY <1>3, StartStep
<1>4. CASE Environment
  BY <1>4, TrafficStep, RestartStep, PowerCutStep DEF Environment
<1>5. CASE UNCHANGED vars
  <2>1. /\ UNCHANGED <<pc, mem, lock, pending, boots, rebuilding, saves, conf, gen, booted, cuts>>
        /\ UNCHANGED <<wire, opened, sent, got>>
    BY <1>5 DEF vars, local, evidence, server, traffic
  <2>2. TypeOK'
    BY <2>1 DEF IInv, TypeOK
  <2>3. ProcessInv'
    BY <2>1 DEF IInv, ProcessInv, LockInv, GenInv, AutoInv, AutoAt, ExecInv, ExecAt,
       FinishInv, FinishAt
  <2>4. EvidenceInv'
    BY <2>1 DEF IInv, EvidenceInv, FileInv, WireInv, AtMostOnce, JournalTruthful, OrderInv,
       RecordInv, Versions, PendingVersions
  <2>5. ClaimInv'
    BY <2>1 DEF IInv, ClaimInv, ClaimedInv, OpenedInv
  <2> QED
    BY <2>2, <2>3, <2>4, <2>5 DEF IInv
<1> QED
  BY <1>1, <1>2, <1>3, <1>4, <1>5 DEF Next

\* The inductive invariant holds of every behaviour, whatever fails (app::run and all
\* it calls under the operation lock).
THEOREM Invariance == Spec => []IInv
BY InitInv, NextInv, PTL DEF Spec

-----------------------------------------------------------------------------
(* What a session guarantees *)

\* Every variable keeps to its type, for any number of processes, panes and server
\* generations (the state app::run and its files can be in).
THEOREM TypeCorrect == Spec => []TypeOK
<1>1. IInv => TypeOK
  BY DEF IInv
<1> QED
  BY <1>1, Invariance, PTL

\* A pane is never sent a second command under a claim (app::execute persists Sending
\* first and stops at the first doubt; transport::request never retries).
THEOREM CommandsOnce == Spec => []AtMostOnce
<1>1. IInv => AtMostOnce
  BY DEF IInv, EvidenceInv
<1> QED
  BY <1>1, Invariance, PTL

\* A claim is opened once and an automatic restore uses its own generation's claim
\* (app::restore under the lock, boot records that are never removed).
THEOREM BootsOnce == Spec => []OncePerBoot
<1>1. IInv => OncePerBoot
  BY DEF IInv, ClaimInv, OpenedInv, ProcessInv, AutoInv, AutoAt, OncePerBoot
<1> QED
  BY <1>1, Invariance, PTL

\* Every record a reader or a power cut may find tells the truth about what was sent
\* (the order of persist_pending and host.run in app::execute).
THEOREM RecordsTruthful == Spec => []JournalTruthful
<1>1. IInv => JournalTruthful
  BY DEF IInv, EvidenceInv
<1> QED
  BY <1>1, Invariance, PTL

\* A version of a record of a claim has an entry that is some outcome.
LEMMA VersionEntry ==
    ASSUME IInv, NEW c \in Claims, NEW v \in Versions(c), NEW p \in Panes
    PROVE  v.entries[p] \in Outcome
<1>1. pending.after \subseteq Journal \union {NoFile}
  BY DEF IInv, TypeOK, FileOf
<1>2. boots[c].after \subseteq Journal \union {NoFile}
  BY DEF IInv, TypeOK, FileOf
<1>3. v \in Journal
  BY <1>1, <1>2 DEF Versions, PendingVersions
<1> QED
  BY <1>3 DEF Journal

\* What was sent has a record that says so in every version of one file.
LEMMA EvidenceKept == IInv => EvidenceSurvives
<1> SUFFICES ASSUME IInv, NEW c \in Claims, NEW p \in Panes, sent[c][p] > 0
             PROVE  \/ \A v \in pending.after :
                         v # NoFile /\ v.claim = c /\ v.entries[p] \in Attempted
                    \/ \A v \in boots[c].after : v # NoFile /\ v.entries[p] \in Attempted
  BY DEF EvidenceSurvives
<1>1. ASSUME NEW v \in Versions(c) PROVE v.entries[p] \in Attempted
  <2>1. v.entries[p] \in Outcome
    BY VersionEntry
  <2>2. v.entries[p] \notin {"pending", "skipped"}
    BY DEF IInv, EvidenceInv, JournalTruthful
  <2> QED
    BY <2>1, <2>2 DEF Outcome, Attempted
<1>2. CASE \A v \in pending.after : v # NoFile /\ v.claim = c
  <2>1. \A v \in pending.after : v \in Versions(c)
    BY <1>2 DEF Versions, PendingVersions
  <2> QED
    BY <1>1, <1>2, <2>1
<1>3. CASE NoFile \notin boots[c].after
  <2>1. \A v \in boots[c].after : v # NoFile /\ v \in Versions(c)
    BY <1>3 DEF Versions
  <2> QED
    BY <1>1, <2>1
<1> QED
  BY <1>2, <1>3 DEF IInv, EvidenceInv, RecordInv

\* The evidence of a command outlives every crash and power cut (store::atomic_write
\* and the order of the two files in app::finish).
THEOREM EvidenceAlways == Spec => []EvidenceSurvives
BY EvidenceKept, Invariance, PTL

\* The panes in front of an uncertain one are settled, those behind it untried.
LEMMA OneUncertain == IInv => OneUncertainPane
<1> SUFFICES ASSUME IInv, NEW c \in Claims, NEW v \in Versions(c), NEW p \in Panes,
                    v.entries[p] \in {"sending", "failed"}
             PROVE  /\ \A q \in 1 .. (p - 1) : v.entries[q] \in {"applied", "skipped"}
                    /\ \A q \in (p + 1) .. NumPanes : v.entries[q] \in {"pending", "skipped"}
  BY DEF OneUncertainPane
<1>1. ASSUME NEW q \in 1 .. (p - 1) PROVE v.entries[q] \in {"applied", "skipped"}
  <2>1. q \in Panes /\ q < p
    BY BoundAssumption DEF Panes
  <2>2. v.entries[q] \in Outcome
    BY <2>1, VersionEntry
  <2>3. v.entries[q] \notin {"pending", "sending", "failed"}
    BY <2>1 DEF IInv, EvidenceInv, OrderInv
  <2> QED
    BY <2>2, <2>3 DEF Outcome
<1>2. ASSUME NEW q \in (p + 1) .. NumPanes PROVE v.entries[q] \in {"pending", "skipped"}
  <2>1. q \in Panes /\ p < q
    BY BoundAssumption DEF Panes
  <2> QED
    BY <2>1 DEF IInv, EvidenceInv, OrderInv
<1> QED
  BY <1>1, <1>2

\* A restore has one uncertain pane at most, whatever it is interrupted by
\* (app::execute: in order, and no further after a failure).
THEOREM UncertainOnce == Spec => []OneUncertainPane
BY OneUncertain, Invariance, PTL

\* A step that sends is a Send of the lock's holder for the pane its journal marks.
LEMMA SendUnderTheLock ==
    ASSUME IInv, [Next]_vars, NEW c \in Claims, NEW p \in Panes, sent'[c][p] # sent[c][p]
    PROVE  /\ lock # None /\ mem[lock].claim = c
           /\ pending = Stored(pending.now) /\ pending.now.claim = c
           /\ pending.now.entries[p] = "sending"
<1>1. sent' # sent
  OBVIOUS
<1>2. PICK i \in Invocations : Send(i)
  BY <1>1, ZenonT(30) DEF Next, Step, Environment, vars, traffic, Abort, Start, Acquire, WaitForLock,
     GiveUp, Expire, HookBlocked, HookRestore, HookNoSnapshot, HookSave, HookDone,
     SaveBegin, SaveBlocked, SaveWrite, SaveFails, Begin, BeginRefused, Open, OpenSync,
     PlanFails, Mark, MarkSync, Revalidate, Probe, Skip, Reply, Fail, RecordSync,
     FailSync, Finish, Acknowledge, AcknowledgeRebuild, AcknowledgeRefused, BootSync,
     Remove, RemoveSync, RebuildBegin, RebuildRefused, RebuildEnd, Deliver, Drop, Restart,
     PowerCut, EditConfig, HistoryUnchanged
<1>3. /\ pc[i] = "send"
      /\ sent' = [sent EXCEPT ![mem[i].claim][mem[i].pane] = @ + 1]
  BY <1>2 DEF Send
<1>4. lock = i
  BY <1>3 DEF IInv, ProcessInv, LockInv, Working
<1>5. /\ mem[i].claim \in Claims /\ mem[i].pane \in Panes
      /\ pending.now.claim = mem[i].claim
      /\ pending.after = {pending.now}
      /\ pending.now.entries[mem[i].pane] = "sending"
  BY <1>3 DEF IInv, ProcessInv, ExecInv, ExecAt, Executing, Durable, AtPane
<1>6. mem[i].claim = c /\ mem[i].pane = p
  BY <1>3, <1>5 DEF IInv, TypeOK
<1>7. pending = Stored(pending.now)
  BY <1>5 DEF IInv, TypeOK, FileOf, Stored
<1> QED
  BY <1>4, <1>5, <1>6, <1>7, ProcessAssumption

\* Commands are sent by the lock's holder for the pane its durable journal marks
\* (app::execute).
THEOREM SendsLocked == Spec => SentUnderTheLock
<1>1. IInv /\ [Next]_vars =>
        [\A c \in Claims, p \in Panes : sent'[c][p] # sent[c][p] =>
           /\ lock # None /\ mem[lock].claim = c
           /\ pending = Stored(pending.now) /\ pending.now.claim = c
           /\ pending.now.entries[p] = "sending"]_vars
  BY SendUnderTheLock
<1> QED
  BY <1>1, Invariance, PTL DEF Spec, SentUnderTheLock
=============================================================================
