------------------------ MODULE RestoreContractProof ------------------------
(***************************************************************************)
(* Proofs that Restore implements RestoreContract, that outcomes are final *)
(* and that evidence blocks, for every instance.  The invariant of         *)
(* RestoreProof says what states are like; here every step is reduced to   *)
(* its effect on the evidence and on what was sent, and the three          *)
(* properties are proved of the effects.                                   *)
(***************************************************************************)
EXTENDS RestoreProof

-----------------------------------------------------------------------------
(* The effects a step can have *)

\* The journal is open and durable, and the entry of one pane becomes o (app::execute).
Rewrites(p, o) ==
    \E j \in Journal :
        /\ pending.now # NoFile /\ pending.after = {pending.now}
        /\ pending' = Renamed(pending, j)
        /\ j.claim = pending.now.claim
        /\ j.entries = [pending.now.entries EXCEPT ![p] = o]
        /\ UNCHANGED <<boots, sent>>

\* A pane that waits is marked.
Marks == \E p \in Panes : pending.now.entries[p] = "pending" /\ Rewrites(p, "sending")

\* A pane that is marked gets its result, applied after its command, skipped without.
Records ==
    \E p \in Panes, o \in {"applied", "skipped", "failed"} :
        /\ pending.now.entries[p] = "sending"
        /\ o = "applied" => sent[pending.now.claim][p] = 1
        /\ o = "skipped" => sent[pending.now.claim][p] = 0
        /\ Rewrites(p, o)

\* The journal is copied under boots/ (app::finish).
Copies ==
    \E j \in Journal :
        /\ pending.now # NoFile
        /\ j.claim = pending.now.claim /\ j.entries = pending.now.entries
        /\ boots' = [boots EXCEPT ![pending.now.claim] = Renamed(@, j)]
        /\ UNCHANGED <<pending, sent>>

\* A directory is synced (store::atomic_write).
Settles ==
    \/ pending' = Synced(pending) /\ UNCHANGED <<boots, sent>>
    \/ \E c \in Claims : boots' = [boots EXCEPT ![c] = Synced(@)] /\ UNCHANGED <<pending, sent>>

\* A claim that is free is taken.
Opens ==
    \E c \in Claims, j \in Journal :
        /\ pending.now = NoFile /\ boots[c].now = NoFile
        /\ j.claim = c /\ j.entries \in [Panes -> {"pending", "skipped"}]
        /\ pending' = Renamed(pending, j)
        /\ UNCHANGED <<boots, sent>>

\* A boot that has nothing to restore is recorded.
Waives ==
    \E c \in Claims, j \in Journal :
        /\ pending.now = NoFile /\ boots[c].now = NoFile
        /\ j.entries = [p \in Panes |-> "skipped"]
        /\ boots' = [boots EXCEPT ![c] = Renamed(@, j)]
        /\ UNCHANGED <<pending, sent>>

\* A command is sent under the open claim.
Sends ==
    \E p \in Panes :
        /\ pending.now # NoFile /\ pending.after = {pending.now}
        /\ pending.now.entries[p] = "sending"
        /\ sent[pending.now.claim][p] = 0
        /\ sent' = [sent EXCEPT ![pending.now.claim][p] = 1]
        /\ UNCHANGED <<pending, boots>>

\* The journal goes, and its record stays, durable already.
Removes ==
    /\ pending.now # NoFile
    /\ boots[pending.now.claim].now # NoFile
    /\ boots[pending.now.claim].after = {boots[pending.now.claim].now}
    /\ boots[pending.now.claim].now.entries = pending.now.entries
    /\ pending' = Renamed(pending, NoFile)
    /\ UNCHANGED <<boots, sent>>

Effect ==
    \/ UNCHANGED <<pending, boots, sent>>
    \/ Marks \/ Records \/ Copies \/ Settles \/ Opens \/ Waives \/ Sends \/ Removes
    \/ PowerCut

\* The steps that touch the evidence or send; all others leave both alone.
LEMMA Touching ==
    ASSUME [Next]_vars, ~ UNCHANGED <<pending, boots, sent>>
    PROVE  \/ \E i \in Invocations :
                \/ Open(i) \/ OpenSync(i) \/ Mark(i) \/ MarkSync(i) \/ Skip(i) \/ Send(i)
                \/ Reply(i) \/ Fail(i) \/ RecordSync(i) \/ FailSync(i) \/ Finish(i)
                \/ Acknowledge(i) \/ HookNoSnapshot(i) \/ BootSync(i) \/ Remove(i)
                \/ RemoveSync(i)
           \/ PowerCut
BY ZenonT(60) DEF Next, Step, Environment, vars, evidence, traffic, Abort, Start, Acquire, WaitForLock,
   GiveUp, Expire, HookBlocked, HookRestore, HookSave, HookDone, SaveBegin, SaveBlocked,
   SaveWrite, SaveFails, Begin, BeginRefused, PlanFails, Revalidate, Probe,
   AcknowledgeRebuild, AcknowledgeRefused, RebuildBegin, RebuildRefused, RebuildEnd,
   Deliver, Drop, Restart, EditConfig, HistoryUnchanged, FilesUnchanged

\* The journal of a process that executes a restore.
LEMMA OpenJournal ==
    ASSUME IInv, NEW i \in Invocations, pc[i] \in Executing
    PROVE  /\ mem[i].claim \in Claims
           /\ pending.now \in Journal /\ pending.now # NoFile
           /\ pending.now.claim = mem[i].claim
           /\ pc[i] \in Durable => pending.after = {pending.now}
           /\ pc[i] \in AtPane =>
                mem[i].pane \in Panes /\ pending.now.entries[mem[i].pane] = "sending"
           /\ pc[i] \in Unsent => sent[mem[i].claim][mem[i].pane] = 0
<1>1. pending.now \in Journal \union {NoFile}
  BY DEF IInv, TypeOK, FileOf
<1> QED
  BY <1>1 DEF IInv, ProcessInv, ExecInv, ExecAt

\* A journal that is rewritten has the new entry and all others as they were.
LEMMA RewrittenEntries ==
    ASSUME NEW j \in Journal, NEW p \in Panes, NEW o \in Outcome
    PROVE  /\ WithOutcome(j, p, o) \in Journal
           /\ WithOutcome(j, p, o).claim = j.claim
           /\ WithOutcome(j, p, o).entries = [j.entries EXCEPT ![p] = o]
<1>1. WithOutcome(j, p, o) \in Journal
  BY JournalTypes, "done" \in BootState DEF BootState
<1> QED
  BY <1>1, ZenonT(30) DEF WithOutcome, Journal

\* A result that is recorded is the one the pane was waiting for.
LEMMA ResultEffect ==
    ASSUME IInv, NEW i \in Invocations, Skip(i) \/ Reply(i) \/ Fail(i)
    PROVE  Records
<1>1. pc[i] \in Executing /\ pc[i] \in AtPane /\ pc[i] \in Durable
  BY DEF Skip, Reply, Fail, Executing, AtPane, Durable
<1>2. /\ pending.now \in Journal /\ pending.now # NoFile /\ pending.after = {pending.now}
      /\ pending.now.claim = mem[i].claim /\ mem[i].claim \in Claims
      /\ mem[i].pane \in Panes /\ pending.now.entries[mem[i].pane] = "sending"
  BY <1>1, OpenJournal
<1> DEFINE p == mem[i].pane
           j(o) == WithOutcome(pending.now, p, o)
<1>3. Skip(i) => sent[mem[i].claim][p] = 0
  BY <1>1, OpenJournal DEF Skip, Unsent
<1>4. Reply(i) => sent[mem[i].claim][p] = 1
  <2>1. sent[mem[i].claim][p] \in Nat /\ got[mem[i].claim][p] \in Nat
    BY <1>2 DEF IInv, TypeOK
  <2>2. got[mem[i].claim][p] <= sent[mem[i].claim][p] /\ sent[mem[i].claim][p] <= 1
    BY <1>2 DEF IInv, EvidenceInv, AtMostOnce
  <2> QED
    BY <2>1, <2>2, SMTT(20) DEF Reply
<1>5. PICK o \in {"applied", "skipped", "failed"} :
        /\ \/ pending' = Renamed(pending, j(o))
           \/ pending' = Renamed(pending, [j(o) EXCEPT !.state = "failed"])
        /\ o = "applied" => sent[mem[i].claim][p] = 1
        /\ o = "skipped" => sent[mem[i].claim][p] = 0
        /\ UNCHANGED <<boots, sent>>
  BY <1>3, <1>4 DEF Skip, Reply, Fail, Persist, journal, HistoryUnchanged, traffic
<1>6. /\ j(o) \in Journal /\ j(o).claim = pending.now.claim
      /\ j(o).entries = [pending.now.entries EXCEPT ![p] = o]
  <2>1. pending.now \in Journal /\ p \in Panes /\ o \in Outcome
    BY <1>2 DEF Outcome
  <2> HIDE DEF p
  <2> QED
    BY <2>1, RewrittenEntries
<1>7. /\ [j(o) EXCEPT !.state = "failed"] \in Journal
      /\ [j(o) EXCEPT !.state = "failed"].claim = j(o).claim
      /\ [j(o) EXCEPT !.state = "failed"].entries = j(o).entries
  BY <1>6, ZenonT(30) DEF Journal, BootState
<1> HIDE DEF j, p
<1>8. PICK k \in Journal :
        /\ pending' = Renamed(pending, k)
        /\ k.claim = pending.now.claim
        /\ k.entries = [pending.now.entries EXCEPT ![p] = o]
  BY <1>5, <1>6, <1>7
<1>9. Rewrites(p, o)
  BY <1>2, <1>5, <1>8 DEF Rewrites
<1> QED
  BY <1>2, <1>5, <1>9 DEF Records, p

\* So is a pane that is marked: it was pending.
LEMMA MarkEffect ==
    ASSUME IInv, NEW i \in Invocations, Mark(i)
    PROVE  Marks
<1>1. pending.now \in Journal /\ pending.now # NoFile /\ pending.after = {pending.now}
  BY OpenJournal DEF Mark, Executing, Durable
<1>2. PICK p \in PanesLeft :
        /\ pending' = Renamed(pending, WithOutcome(pending.now, p, "sending"))
        /\ UNCHANGED <<boots, sent>>
  BY DEF Mark, journal, HistoryUnchanged, traffic
<1>3. p \in Panes /\ pending.now.entries[p] = "pending"
  BY DEF PanesLeft, journal
<1> DEFINE j == WithOutcome(pending.now, p, "sending")
<1>4. /\ j \in Journal /\ j.claim = pending.now.claim
      /\ j.entries = [pending.now.entries EXCEPT ![p] = "sending"]
  BY <1>1, <1>3, RewrittenEntries DEF Outcome
<1>5. pending' = Renamed(pending, j)
  BY <1>2
<1> HIDE DEF j
<1> QED
  BY <1>1, <1>2, <1>3, <1>4, <1>5 DEF Marks, Rewrites

\* A finished or acknowledged journal is copied with its claim and its outcomes.
LEMMA CopyEffect ==
    ASSUME IInv, NEW i \in Invocations, Finish(i) \/ Acknowledge(i)
    PROVE  Copies /\ pc'[i] = "bootSync" /\ mem'[i].claim = pending.now.claim
<1>1. /\ pending.now \in Journal /\ pending.now # NoFile
      /\ mem \in [Invocations -> Memory] /\ pc \in [Invocations -> Labels]
  <2>1. pending.now \in Journal \union {NoFile}
    BY DEF IInv, TypeOK, FileOf
  <2>2. CASE Finish(i)
    BY <2>1, <2>2, OpenJournal DEF Finish, Executing, IInv, TypeOK
  <2>3. CASE Acknowledge(i)
    BY <2>1, <2>3 DEF Acknowledge, IInv, TypeOK
  <2> QED
    BY <2>2, <2>3
<1>2. PICK j \in {Done(pending.now), [Done(pending.now) EXCEPT !.acknowledged = TRUE]} :
        Archive(i, j) /\ UNCHANGED sent
  BY DEF Finish, Acknowledge, journal, HistoryUnchanged, traffic
<1>3. j \in Journal /\ j.claim = pending.now.claim /\ j.entries = pending.now.entries
  BY <1>1, <1>2 DEF Done, Journal, BootState
<1>4. boots' = [boots EXCEPT ![pending.now.claim] = Renamed(@, j)] /\ UNCHANGED pending
  BY <1>2, <1>3 DEF Archive
<1>5. pc'[i] = "bootSync" /\ mem'[i].claim = pending.now.claim
  BY <1>1, <1>2, <1>3 DEF Archive, Memory
<1> QED
  BY <1>1, <1>2, <1>3, <1>4, <1>5 DEF Copies

\* A restore that opens its journal takes a claim that has no evidence.
LEMMA OpenEffect ==
    ASSUME IInv, NEW i \in Invocations, Open(i)
    PROVE  Opens
<1>1. mem[i].gen \in Generations
  BY DEF IInv, ProcessInv, AutoInv, AutoAt, Open
<1>2. PICK c \in ClaimsFor(mem[i].gen), candidates \in SUBSET Panes :
        boots[c].now = NoFile /\ pending' = Renamed(pending, NewJournal(c, candidates))
  BY DEF Open
<1>3. c \in Claims /\ pending.now = NoFile /\ UNCHANGED <<boots, sent>>
  BY <1>1 DEF ClaimsFor, Claims, Open, Clear, traffic
<1>4. NewJournal(c, candidates) \in Journal
  BY <1>3, NewJournalType
<1>5. /\ NewJournal(c, candidates).claim = c
      /\ NewJournal(c, candidates).entries \in [Panes -> {"pending", "skipped"}]
  BY DEF NewJournal
<1> QED
  BY <1>2, <1>3, <1>4, <1>5 DEF Opens

\* The syncs of the journal's directory, and that of boots/.
LEMMA SyncEffect ==
    ASSUME IInv, NEW i \in Invocations,
           \/ OpenSync(i) \/ MarkSync(i) \/ RecordSync(i) \/ FailSync(i) \/ RemoveSync(i)
           \/ BootSync(i)
    PROVE  Settles
<1>1. CASE BootSync(i)
  <2>1. mem[i].claim \in Claims
    BY <1>1 DEF BootSync, IInv, ProcessInv, FinishInv, FinishAt
  <2> QED
    BY <1>1, <2>1 DEF BootSync, Settles, HistoryUnchanged, traffic
<1> QED
  BY <1>1 DEF OpenSync, MarkSync, RecordSync, FailSync, RemoveSync, PersistSync, Settles,
     HistoryUnchanged, traffic

\* A first boot with no snapshot records its own generation.
LEMMA WaiveEffect ==
    ASSUME IInv, NEW i \in Invocations, HookNoSnapshot(i)
    PROVE  Waives /\ pending.now = NoFile
<1> DEFINE j == Done(NewJournal(gen, {}))
<1>1. gen \in Claims /\ pending.now = NoFile /\ boots[gen].now = NoFile /\ UNCHANGED sent
  BY DEF IInv, TypeOK, Claims, HookNoSnapshot, Clear, RestoreDue, HistoryUnchanged, traffic
<1>2. /\ NewJournal(gen, {}) \in Journal /\ NewJournal(gen, {}).claim = gen
      /\ NewJournal(gen, {}).entries = [p \in Panes |-> "skipped"]
  <2>1. NewJournal(gen, {}) \in Journal
    BY <1>1, NewJournalType
  <2> QED
    BY <2>1 DEF NewJournal
<1>3. j \in Journal /\ j.claim = gen /\ j.entries = [p \in Panes |-> "skipped"]
  BY <1>2 DEF Done, Journal, BootState
<1>4. boots' = [boots EXCEPT ![gen] = Renamed(@, j)] /\ UNCHANGED pending
  BY <1>3 DEF HookNoSnapshot, Archive
<1> QED
  BY <1>1, <1>3, <1>4 DEF Waives

\* A command is sent to a pane that was sent none under the open claim.
LEMMA SendEffect ==
    ASSUME IInv, NEW i \in Invocations, Send(i)
    PROVE  Sends
<1>1. /\ mem[i].claim \in Claims /\ mem[i].pane \in Panes
      /\ pending.now # NoFile /\ pending.now.claim = mem[i].claim
      /\ pending.after = {pending.now} /\ pending.now.entries[mem[i].pane] = "sending"
      /\ sent[mem[i].claim][mem[i].pane] = 0
  BY OpenJournal DEF Send, Executing, AtPane, Durable, Unsent
<1>2. sent' = [sent EXCEPT ![mem[i].claim][mem[i].pane] = 1] /\ UNCHANGED <<pending, boots>>
  BY <1>1 DEF Send, FilesUnchanged, evidence, IInv, TypeOK
<1> QED
  BY <1>1, <1>2 DEF Sends

\* The journal goes when its record is durable and has its outcomes.
LEMMA RemoveEffect ==
    ASSUME IInv, ArchivedInv, NEW i \in Invocations, Remove(i)
    PROVE  Removes
<1>1. /\ mem[i].claim \in Claims /\ NoFile \notin boots[mem[i].claim].after
      /\ pending.now # NoFile /\ pending.now.claim = mem[i].claim
  BY DEF Remove, IInv, ProcessInv, FinishInv, FinishAt
<1>2. boots[mem[i].claim].now # NoFile
  BY <1>1 DEF IInv, TypeOK, FileOf
<1>3. /\ boots[mem[i].claim].now.entries = pending.now.entries
      /\ boots[mem[i].claim].after = {boots[mem[i].claim].now}
  BY <1>1 DEF ArchivedInv, Remove
<1>4. pending' = Renamed(pending, NoFile) /\ UNCHANGED <<boots, sent>>
  BY DEF Remove, Persist, HistoryUnchanged, traffic
<1> QED
  BY <1>1, <1>2, <1>3, <1>4 DEF Removes

\* Every step has one of the effects.
LEMMA Effects ==
    ASSUME IInv, ArchivedInv, [Next]_vars
    PROVE  Effect
<1>1. CASE UNCHANGED <<pending, boots, sent>>
  BY <1>1 DEF Effect
<1>2. CASE ~ UNCHANGED <<pending, boots, sent>>
  <2>1. CASE PowerCut
    BY <2>1 DEF Effect
  <2>2. CASE ~ PowerCut
    <3>1. PICK i \in Invocations :
            \/ Open(i) \/ OpenSync(i) \/ Mark(i) \/ MarkSync(i) \/ Skip(i) \/ Send(i)
            \/ Reply(i) \/ Fail(i) \/ RecordSync(i) \/ FailSync(i) \/ Finish(i)
            \/ Acknowledge(i) \/ HookNoSnapshot(i) \/ BootSync(i) \/ Remove(i)
            \/ RemoveSync(i)
      BY <1>2, <2>2, Touching
    <3> QED
      BY <3>1, OpenEffect, SyncEffect, WaiveEffect, SendEffect, RemoveEffect, ResultEffect,
         MarkEffect, CopyEffect DEF Effect
  <2> QED
    BY <2>1, <2>2
<1> QED
  BY <1>1, <1>2

-----------------------------------------------------------------------------
(* The second inductive invariant *)

\* A process that works holds the lock: a step is its own, or leaves it and what it
\* relies on alone, or is a power cut.
LEMMA Turns ==
    ASSUME IInv, [Next]_vars, NEW i \in Invocations, pc[i] \in Working
    PROVE  \/ Step(i) \/ Abort(i) \/ PowerCut
           \/ /\ UNCHANGED <<pending, boots, rebuilding>>
              /\ pc'[i] = pc[i] /\ mem'[i] = mem[i]
<1> DEFINE Alone == /\ UNCHANGED <<pending, boots, rebuilding>>
                    /\ pc'[i] = pc[i] /\ mem'[i] = mem[i]
<1>1. /\ LocalOK /\ pc[i] \notin {"idle", "start", "waiting"}
      /\ \A k \in Invocations \ {i} : pc[k] \notin Working
  BY HolderAlone DEF IInv, TypeOK, LocalOK, ProcessInv, Working
<1>2. ASSUME NEW k \in Invocations, Exit(k), k # i, UNCHANGED <<pending, boots, rebuilding>>
      PROVE  Alone
  BY <1>1, <1>2 DEF Exit, LocalOK
<1>3. ASSUME NEW k \in Invocations, k # i, Step(k) PROVE Alone
  <2>1. pc[k] \in {"idle", "start", "waiting"}
    BY <1>1, <1>3 DEF LocalOK, Labels
  <2>2. Acquire(k) \/ WaitForLock(k) \/ GiveUp(k) \/ Expire(k)
    BY <1>3, <2>1 DEF Step, HookBlocked, HookRestore, HookNoSnapshot, HookSave, HookDone,
       SaveBegin, SaveBlocked, SaveWrite, SaveFails, Begin, BeginRefused, Open, OpenSync,
       PlanFails, Mark, MarkSync, Revalidate, Probe, Skip, Send, Reply, Fail, RecordSync,
       FailSync, Finish, Acknowledge, AcknowledgeRebuild, AcknowledgeRefused, BootSync,
       Remove, RemoveSync, RebuildBegin, RebuildRefused, RebuildEnd
  <2>3. UNCHANGED <<pending, boots, rebuilding>>
    BY <2>2 DEF Acquire, WaitForLock, GiveUp, Expire, FilesUnchanged, evidence
  <2>4. CASE GiveUp(k) \/ Expire(k)
    BY <1>2, <1>3, <2>3, <2>4 DEF GiveUp, Expire
  <2>5. CASE Acquire(k) \/ WaitForLock(k)
    BY <1>1, <1>3, <2>3, <2>5 DEF Acquire, WaitForLock, Goto, LocalOK
  <2> QED
    BY <2>2, <2>4, <2>5
<1>4. ASSUME NEW k \in Invocations, k # i, Abort(k) PROVE Alone
  BY <1>2, <1>4 DEF Abort, FilesUnchanged, evidence
<1>5. ASSUME NEW k \in Invocations, NEW kind \in Kinds, Start(k, kind) PROVE Alone
  <2>1. k # i
    BY <1>1, <1>5 DEF Start
  <2> QED
    BY <1>1, <1>5, <2>1 DEF Start, FilesUnchanged, evidence, LocalOK
<1>6. CASE Deliver \/ Drop \/ Restart \/ EditConfig
  BY <1>6 DEF Deliver, Drop, Restart, EditConfig, FilesUnchanged, evidence, local
<1>7. CASE UNCHANGED vars
  BY <1>7 DEF vars, evidence, local
<1> HIDE DEF Alone
<1>8. ASSUME NEW k \in Invocations, Step(k) \/ Abort(k)
      PROVE  Step(i) \/ Abort(i) \/ Alone
  BY <1>3, <1>4, <1>8
<1>9. CASE \E k \in Invocations : Step(k) \/ Abort(k)
  BY <1>8, <1>9 DEF Alone
<1>10. CASE \E k \in Invocations, kind \in Kinds : Start(k, kind)
  BY <1>5, <1>10 DEF Alone
<1>11. CASE Environment
  BY <1>6, <1>11 DEF Environment, Alone
<1>12. CASE UNCHANGED vars
  BY <1>7, <1>12 DEF Alone
<1> QED
  BY <1>9, <1>10, <1>11, <1>12 DEF Next

\* A step of a process moves that process alone.
LEMMA OwnMove ==
    ASSUME NEW k \in Invocations, Step(k) \/ Abort(k) \/ \E kind \in Kinds : Start(k, kind)
    PROVE  \E l : pc' = [pc EXCEPT ![k] = l]
BY DEF Step, Abort, Start, Acquire, WaitForLock, GiveUp, Expire, HookBlocked, HookRestore,
   HookNoSnapshot, HookSave, HookDone, SaveBegin, SaveBlocked, SaveWrite, SaveFails, Begin,
   BeginRefused, Open, OpenSync, PlanFails, Mark, MarkSync, Revalidate, Probe, Skip, Send,
   Reply, Fail, RecordSync, FailSync, Finish, Acknowledge, AcknowledgeRebuild,
   AcknowledgeRefused, BootSync, Remove, RemoveSync, RebuildBegin, RebuildRefused,
   RebuildEnd, Archive, Persist, Goto, Exit

\* A process that begins to work begins where its operation does.
LEMMA Entrances ==
    ASSUME IInv, [Next]_vars, NEW i \in Invocations, pc[i] \notin Working, pc'[i] \in Working
    PROVE  pc'[i] \in {"dispatch", "begin", "save", "rebuild", "acknowledge"}
<1>1. LocalOK
  BY DEF IInv, TypeOK, LocalOK
<1>2. ~PowerCut /\ ~Exit(i) /\ pc'[i] # pc[i] /\ pc'[i] \notin {"idle", "start", "waiting"}
  BY <1>1 DEF PowerCut, Exit, LocalOK, Working
<1>3. ASSUME NEW k \in Invocations, Step(k)
      PROVE  pc'[i] \in {"dispatch", "begin", "save", "rebuild", "acknowledge"}
  <2>1. PICK l : pc' = [pc EXCEPT ![k] = l]
    BY <1>3, OwnMove
  <2>2. k = i
    BY <1>1, <1>2, <2>1 DEF LocalOK
  <2>3. Acquire(i)
    BY <1>1, <1>2, <1>3, <2>2 DEF Step, WaitForLock, GiveUp, Expire, HookBlocked,
       HookRestore, HookNoSnapshot, HookSave, HookDone, SaveBegin, SaveBlocked, SaveWrite,
       SaveFails, Begin, BeginRefused, Open, OpenSync, PlanFails, Mark, MarkSync,
       Revalidate, Probe, Skip, Send, Reply, Fail, RecordSync, FailSync, Finish,
       Acknowledge, AcknowledgeRebuild, AcknowledgeRefused, BootSync, Remove, RemoveSync,
       RebuildBegin, RebuildRefused, RebuildEnd, Goto, LocalOK, Working
  <2>4. pc'[i] = FirstLabel(mem[i].kind) /\ mem[i].kind \in AllKinds
    BY <1>1, <2>3 DEF Acquire, LocalOK, IInv, ProcessInv, AutoInv, AutoAt
  <2> QED
    BY <2>4 DEF FirstLabel, AllKinds, Hooks
<1>4. ASSUME NEW k \in Invocations, Abort(k) \/ \E kind \in Kinds : Start(k, kind)
      PROVE  FALSE
  BY <1>1, <1>2, <1>4 DEF Abort, Start, Exit, LocalOK
<1> QED
  BY <1>2, <1>3, <1>4 DEF Next, Environment, Deliver, Drop, Restart, EditConfig, vars, local

\* The steps by which a process comes to a point that the invariant speaks of.
LEMMA Entries ==
    ASSUME IInv, [Next]_vars, NEW i \in Invocations,
           pc'[i] \in {"capture", "rebuilding", "bootSync", "remove"}
    PROVE  \/ pc'[i] = "capture" /\ SaveBegin(i)
           \/ pc'[i] = "rebuilding" /\ RebuildBegin(i)
           \/ pc'[i] = "bootSync" /\ (HookNoSnapshot(i) \/ Finish(i) \/ Acknowledge(i))
           \/ pc'[i] = "remove" /\ BootSync(i)
           \/ /\ UNCHANGED <<pending, boots, rebuilding>>
              /\ pc'[i] = pc[i] /\ mem'[i] = mem[i]
<1>1. LocalOK
  BY DEF IInv, TypeOK, LocalOK
<1>2. ~PowerCut /\ ~Exit(i)
  BY <1>1 DEF PowerCut, Exit, LocalOK
<1>3. CASE pc[i] \in Working
  <2>1. CASE Step(i)
    <3>1. ~Acquire(i)
      BY <1>3 DEF Acquire, Working
    <3> QED
      BY <1>1, <1>2, <2>1, <3>1, SMTT(20) DEF Step, WaitForLock, GiveUp, Expire, HookBlocked,
         HookRestore, HookSave, HookDone, SaveBlocked, SaveWrite, SaveFails, Begin,
         BeginRefused, Open, OpenSync, PlanFails, Mark, MarkSync, Revalidate, Probe, Skip,
         Send, Reply, Fail, RecordSync, FailSync, AcknowledgeRebuild, AcknowledgeRefused,
         BootSync, Remove, RemoveSync, RebuildBegin, RebuildRefused, RebuildEnd, SaveBegin,
         HookNoSnapshot, Finish, Acknowledge, Archive, Persist, Goto, LocalOK
  <2> QED
    BY <1>2, <1>3, <2>1, Turns DEF Abort
<1>4. CASE pc[i] \notin Working
  BY <1>4, Entrances DEF Working
<1> QED
  BY <1>3, <1>4

\* A reader of a surviving file finds a journal, with its claim.
LEMMA FileShape ==
    ASSUME IInv
    PROVE  /\ pending \in Files /\ boots \in [Claims -> Files]
           /\ \A v \in pending.after \ {NoFile} : v \in Journal /\ v.claim \in Claims
           /\ pending.now # NoFile => pending.now \in Journal /\ pending.now.claim \in Claims
<1>1. pending \in Files /\ boots \in [Claims -> Files]
  BY DEF IInv, TypeOK, Files, Contents
<1>2. \A v \in pending.after \union {pending.now} : v \in Journal \union {NoFile}
  BY <1>1 DEF Files, Contents, FileOf
<1> QED
  BY <1>1, <1>2 DEF Journal

\* No effect but a power cut loses a boot record.
LEMMA RecordsStay ==
    ASSUME IInv, Effect, ~PowerCut, NEW c \in Claims, boots[c].now # NoFile
    PROVE  boots'[c].now # NoFile
<1>1. boots \in [Claims -> Files]
  BY FileShape
<1>2. CASE Copies \/ Waives
  <2>1. PICK d \in Claims, j \in Journal : boots' = [boots EXCEPT ![d] = Renamed(@, j)]
    BY <1>2, FileShape DEF Copies, Waives
  <2> QED
    BY <1>1, <2>1, FileAssumption DEF Renamed
<1>3. CASE Settles
  BY <1>1, <1>3 DEF Settles, Synced
<1> QED
  BY <1>2, <1>3 DEF Effect, Marks, Records, Rewrites, Opens, Sends, Removes

\* What a power cut may bring back stays accounted for.
LEMMA KeptStep ==
    ASSUME IInv, KeptInv, Effect
    PROVE  KeptInv'
<1> SUFFICES ASSUME NEW v \in pending'.after \ {NoFile}
             PROVE  \/ pending'.now # NoFile /\ v.claim = pending'.now.claim
                    \/ boots'[v.claim].now # NoFile
  BY DEF KeptInv
<1>1. CASE PowerCut
  BY <1>1 DEF PowerCut, Stored
<1>2. ASSUME ~PowerCut, v \in pending.after, v.claim \in Claims,
             pending.now # NoFile =>
                \/ pending'.now # NoFile /\ pending'.now.claim = pending.now.claim
                \/ boots'[pending.now.claim].now # NoFile
      PROVE  \/ pending'.now # NoFile /\ v.claim = pending'.now.claim
             \/ boots'[v.claim].now # NoFile
  BY <1>2, RecordsStay DEF KeptInv
<1>3. CASE ~PowerCut /\ UNCHANGED pending
  BY <1>2, <1>3, FileShape
<1>4. ASSUME ~PowerCut, NEW j \in Journal, pending' = Renamed(pending, j),
             pending.now # NoFile => j.claim = pending.now.claim
      PROVE  \/ pending'.now # NoFile /\ v.claim = pending'.now.claim
             \/ boots'[v.claim].now # NoFile
  <2>1. pending'.now = j /\ j # NoFile /\ (v = j \/ v \in pending.after)
    BY <1>4, FileAssumption DEF Renamed
  <2> QED
    BY <1>2, <1>4, <2>1, FileShape
<1>5. CASE ~PowerCut /\ pending' = Synced(pending)
  BY <1>2, <1>5, FileShape DEF Synced, Files, Contents, FileOf
<1>6. CASE ~PowerCut /\ Removes
  BY <1>2, <1>6, FileShape DEF Removes, Renamed
<1> QED
  BY <1>1, <1>3, <1>4, <1>5, <1>6
     DEF Effect, Marks, Records, Rewrites, Copies, Settles, Opens, Waives, Sends

\* A save and a reconstruction under way keep what they checked: nobody else can
\* change the evidence meanwhile.
LEMMA BlockStep ==
    ASSUME IInv, BlockInv, [Next]_vars
    PROVE  BlockInv'
<1> SUFFICES ASSUME NEW i \in Invocations
             PROVE  /\ pc'[i] = "capture" => Clear'
                    /\ pc'[i] = "rebuilding" => rebuilding'
  BY DEF BlockInv
<1>1. CASE UNCHANGED <<pending, boots, rebuilding>> /\ pc'[i] = pc[i]
  BY <1>1 DEF BlockInv, Clear
<1>2. CASE SaveBegin(i)
  BY <1>2 DEF SaveBegin, Clear, FilesUnchanged, evidence, IInv, TypeOK
<1>3. CASE RebuildBegin(i)
  BY <1>3 DEF RebuildBegin, Goto, IInv, TypeOK
<1> QED
  BY <1>1, <1>2, <1>3, Entries

\* So does a process that replaces a journal by its record.
LEMMA ArchivedStep ==
    ASSUME IInv, ArchivedInv, [Next]_vars
    PROVE  ArchivedInv'
<1> SUFFICES ASSUME NEW i \in Invocations, pc'[i] \in {"bootSync", "remove"}
             PROVE  /\ pending'.now # NoFile =>
                         boots'[mem'[i].claim].now.entries = pending'.now.entries
                    /\ pc'[i] = "remove" =>
                         boots'[mem'[i].claim].after = {boots'[mem'[i].claim].now}
  BY DEF ArchivedInv
<1>1. CASE UNCHANGED <<pending, boots, rebuilding>> /\ pc'[i] = pc[i] /\ mem'[i] = mem[i]
  BY <1>1 DEF ArchivedInv
<1>2. CASE HookNoSnapshot(i)
  <2>1. UNCHANGED pending /\ pending.now = NoFile
    BY <1>2, WaiveEffect DEF HookNoSnapshot, Archive
  <2>2. pc'[i] = "bootSync"
    BY <1>2 DEF HookNoSnapshot, Archive, IInv, TypeOK
  <2> QED
    BY <2>1, <2>2
<1>3. CASE Finish(i) \/ Acknowledge(i)
  <2>1. Copies /\ pc'[i] = "bootSync" /\ mem'[i].claim = pending.now.claim
    BY <1>3, CopyEffect
  <2> QED
    BY <2>1, FileShape DEF Copies, Renamed
<1>4. CASE pc'[i] = "remove" /\ BootSync(i)
  <2>1. /\ boots' = [boots EXCEPT ![mem[i].claim] = Synced(@)]
        /\ UNCHANGED pending /\ mem'[i] = mem[i] /\ pc[i] = "bootSync"
    BY <1>4 DEF BootSync, Goto, Exit, IInv, TypeOK
  <2>2. mem[i].claim \in Claims
    BY <2>1 DEF IInv, ProcessInv, FinishInv, FinishAt
  <2> QED
    BY <2>1, <2>2, FileShape DEF ArchivedInv, Synced
<1> QED
  BY <1>1, <1>2, <1>3, <1>4, Entries

-----------------------------------------------------------------------------
(* What a reader is told, step by step *)

\* A rewrite changes what is told of one pane of the open claim.
LEMMA RewriteTold ==
    ASSUME IInv, NEW p \in Panes, NEW o, Rewrites(p, o), NEW c \in Claims, NEW q \in Panes
    PROVE  OutcomeOf(c, q)' = IF c = pending.now.claim /\ q = p THEN o ELSE OutcomeOf(c, q)
<1>1. PICK j \in Journal :
        /\ pending.now # NoFile /\ pending' = Renamed(pending, j)
        /\ j.claim = pending.now.claim
        /\ j.entries = [pending.now.entries EXCEPT ![p] = o]
        /\ UNCHANGED boots
  BY DEF Rewrites
<1>2. pending'.now = j /\ j # NoFile
  BY <1>1, FileAssumption DEF Renamed
<1>3. pending.now.entries \in [Panes -> Outcome]
  BY <1>1, FileShape DEF Journal
<1>4. j.entries[q] = IF q = p THEN o ELSE pending.now.entries[q]
  BY <1>1, <1>3
<1> QED
  BY <1>1, <1>2, <1>4 DEF OutcomeOf

\* A claim that is taken or waived has the entries of its journal; nothing else changes.
LEMMA NewTold ==
    ASSUME IInv, NEW d \in Claims, NEW j \in Journal,
           pending.now = NoFile, boots[d].now = NoFile,
           \/ j.claim = d /\ pending' = Renamed(pending, j) /\ UNCHANGED boots
           \/ boots' = [boots EXCEPT ![d] = Renamed(@, j)] /\ UNCHANGED pending,
           NEW c \in Claims, NEW q \in Panes
    PROVE  OutcomeOf(c, q)' = IF c = d THEN j.entries[q] ELSE OutcomeOf(c, q)
<1>1. boots \in [Claims -> Files]
  BY FileShape
<1>2. CASE j.claim = d /\ pending' = Renamed(pending, j) /\ UNCHANGED boots
  BY <1>2, FileAssumption DEF Renamed, OutcomeOf
<1>3. CASE boots' = [boots EXCEPT ![d] = Renamed(@, j)] /\ UNCHANGED pending
  BY <1>1, <1>3, FileAssumption DEF Renamed, OutcomeOf
<1> QED
  BY <1>2, <1>3

\* No other effect changes what is told.
LEMMA SameTold ==
    ASSUME IInv, Copies \/ Settles \/ Sends \/ Removes, NEW c \in Claims, NEW q \in Panes
    PROVE  OutcomeOf(c, q)' = OutcomeOf(c, q)
<1>1. boots \in [Claims -> Files]
  BY FileShape
<1>2. CASE Copies
  <2>1. PICK j \in Journal :
          boots' = [boots EXCEPT ![pending.now.claim] = Renamed(@, j)] /\ UNCHANGED pending
    BY <1>2 DEF Copies
  <2> QED
    BY <1>1, <1>2, <2>1 DEF Copies, OutcomeOf
<1>3. CASE Settles
  <2>1. pending'.now = pending.now /\ \A d \in Claims : boots'[d].now = boots[d].now
    BY <1>1, <1>3 DEF Settles, Synced
  <2> QED
    BY <2>1 DEF OutcomeOf
<1>4. CASE Removes
  <2>1. pending'.now = NoFile /\ UNCHANGED boots
    BY <1>4 DEF Removes, Renamed
  <2> QED
    BY <1>4, <2>1 DEF OutcomeOf, Removes
<1>5. CASE Sends
  BY <1>5 DEF Sends, OutcomeOf
<1> QED
  BY <1>2, <1>3, <1>4, <1>5

\* What pending.json may have after a step: what it may have now, and what is renamed.
LEMMA PendingAfter ==
    ASSUME IInv, Effect, ~PowerCut, NEW v \in pending'.after, v # pending'.now
    PROVE  v \in pending.after
<1>1. CASE \E w : pending' = Renamed(pending, w)
  BY <1>1 DEF Renamed
<1>2. CASE pending' = Synced(pending) \/ UNCHANGED pending
  BY <1>2 DEF Synced
<1> QED
  BY <1>1, <1>2 DEF Effect, Marks, Records, Rewrites, Copies, Settles, Opens, Waives, Sends,
     Removes

\* A journal that a power cut may bring back stays behind by one step at most.
LEMMA BehindStep ==
    ASSUME IInv, KeptInv, BehindInv, Effect
    PROVE  BehindInv'
<1> DEFINE Behind(v, c, q) ==
             \/ v.entries[q] = OutcomeOf(c, q)
             \/ v.entries[q] = "pending" /\ OutcomeOf(c, q) = "sending"
             \/ v.entries[q] = "sending" /\ OutcomeOf(c, q) \in {"applied", "skipped", "failed"}
<1> SUFFICES ASSUME NEW c \in Claims, NEW v \in pending'.after, v # NoFile, v.claim = c,
                    NEW q \in Panes
             PROVE  Behind(v, c, q)'
  BY DEF BehindInv, PendingVersions
<1>1. CASE v = pending'.now
  BY <1>1 DEF OutcomeOf
<1>2. CASE PowerCut
  BY <1>1, <1>2 DEF PowerCut, Stored
<1>3. ASSUME ~PowerCut, v # pending'.now
      PROVE  v \in pending.after /\ Behind(v, c, q)
  <2>1. v \in pending.after
    BY <1>3, PendingAfter
  <2> QED
    BY <2>1 DEF BehindInv, PendingVersions
<1>4. CASE v # pending'.now /\ (Copies \/ Settles \/ Sends \/ Removes \/ UNCHANGED <<pending, boots>>)
  <2>1. OutcomeOf(c, q)' = OutcomeOf(c, q)
    BY <1>4, SameTold DEF OutcomeOf
  <2> QED
    BY <1>2, <1>3, <1>4, <2>1
<1>5. CASE v # pending'.now /\ ~PowerCut /\ (Opens \/ Waives)
  <2>1. PICK d \in Claims, j \in Journal :
          /\ pending.now = NoFile /\ boots[d].now = NoFile
          /\ \/ j.claim = d /\ pending' = Renamed(pending, j) /\ UNCHANGED boots
             \/ boots' = [boots EXCEPT ![d] = Renamed(@, j)] /\ UNCHANGED pending
    BY <1>5 DEF Opens, Waives
  <2>2. c # d
    BY <1>3, <1>5, <2>1 DEF KeptInv
  <2>3. OutcomeOf(c, q)' = OutcomeOf(c, q)
    BY <2>1, <2>2, NewTold
  <2> QED
    BY <1>3, <1>5, <2>3
<1>6. CASE v # pending'.now /\ ~PowerCut /\ (Marks \/ Records)
  <2>1. v = pending.now
    BY <1>3, <1>6 DEF Marks, Records, Rewrites
  <2>2. PICK p \in Panes, o \in {"sending", "applied", "skipped", "failed"} :
          /\ Rewrites(p, o)
          /\ \/ pending.now.entries[p] = "pending" /\ o = "sending"
             \/ pending.now.entries[p] = "sending" /\ o \in {"applied", "skipped", "failed"}
    BY <1>6 DEF Marks, Records
  <2>3. OutcomeOf(c, q) = v.entries[q]
    BY <2>1 DEF OutcomeOf
  <2>4. OutcomeOf(c, q)' = IF q = p THEN o ELSE OutcomeOf(c, q)
    BY <2>1, <2>2, RewriteTold
  <2> QED
    BY <2>1, <2>2, <2>3, <2>4
<1> QED
  BY <1>1, <1>2, <1>4, <1>5, <1>6 DEF Effect

\* So does a record that may be left alone agree with what is told.
LEMMA AloneStep ==
    ASSUME IInv, AloneInv, Effect
    PROVE  AloneInv'
<1> SUFFICES ASSUME NEW c \in Claims, ~OnlyJournalOf(c)', NEW v \in boots'[c].after, v # NoFile,
                    NEW q \in Panes
             PROVE  v.entries[q] = OutcomeOf(c, q)'
  BY DEF AloneInv
<1>1. boots \in [Claims -> Files] /\ pending.now \in pending.after
  BY FileShape DEF Files, FileOf
<1>2. CASE PowerCut
  <2>1. ~(pending'.now # NoFile /\ pending'.now.claim = c)
    BY <1>2 DEF PowerCut, Stored, OnlyJournalOf
  <2>2. v = boots'[c].now
    BY <1>2 DEF PowerCut, Stored
  <2> QED
    BY <2>1, <2>2 DEF OutcomeOf
<1>3. ASSUME ~OnlyJournalOf(c), v \in boots[c].after
      PROVE  v.entries[q] = OutcomeOf(c, q)
  BY <1>3 DEF AloneInv
<1>4. CASE UNCHANGED <<pending, boots>> \/ Sends
  BY <1>3, <1>4 DEF Sends, OutcomeOf, OnlyJournalOf
<1>5. CASE Settles
  <2>1. OutcomeOf(c, q)' = OutcomeOf(c, q)
    BY <1>5, SameTold
  <2>2. pending'.after \subseteq pending.after /\ boots'[c].after \subseteq boots[c].after
    BY <1>1, <1>5, FileShape DEF Settles, Synced, Files, FileOf
  <2> QED
    BY <1>3, <2>1, <2>2 DEF OnlyJournalOf
<1>6. CASE Marks \/ Records
  <2>1. PICK p \in Panes, o \in {"sending", "applied", "skipped", "failed"} : Rewrites(p, o)
    BY <1>6 DEF Marks, Records
  <2>2. /\ pending.now # NoFile /\ pending.after = {pending.now} /\ UNCHANGED boots
        /\ \E j \in Journal : pending' = Renamed(pending, j) /\ j.claim = pending.now.claim
    BY <2>1 DEF Rewrites
  <2>3. c # pending.now.claim
    BY <2>2, FileAssumption DEF OnlyJournalOf, Renamed
  <2>4. OutcomeOf(c, q)' = OutcomeOf(c, q)
    BY <2>1, <2>3, RewriteTold
  <2> QED
    BY <1>3, <2>2, <2>3, <2>4 DEF OnlyJournalOf
<1>7. CASE Copies
  <2>1. OutcomeOf(c, q)' = OutcomeOf(c, q) /\ ~OnlyJournalOf(c)
    BY <1>7, SameTold DEF Copies, OnlyJournalOf
  <2>2. PICK j \in Journal :
          /\ pending.now # NoFile /\ j.entries = pending.now.entries
          /\ boots' = [boots EXCEPT ![pending.now.claim] = Renamed(@, j)]
    BY <1>7 DEF Copies
  <2>3. CASE v \in boots[c].after
    BY <1>3, <2>1, <2>3
  <2>4. CASE v \notin boots[c].after
    <3>1. c = pending.now.claim /\ v = j
      BY <1>1, <2>2, <2>4 DEF Renamed
    <3> QED
      BY <2>1, <2>2, <3>1 DEF OutcomeOf
  <2> QED
    BY <2>3, <2>4
<1>8. CASE Opens \/ Waives
  <2>1. PICK d \in Claims, j \in Journal :
          /\ pending.now = NoFile /\ boots[d].now = NoFile
          /\ \/ j.claim = d /\ pending' = Renamed(pending, j) /\ UNCHANGED boots
             \/ boots' = [boots EXCEPT ![d] = Renamed(@, j)] /\ UNCHANGED pending
    BY <1>8 DEF Opens, Waives
  <2>2. OutcomeOf(c, q)' = IF c = d THEN j.entries[q] ELSE OutcomeOf(c, q)
    BY <2>1, NewTold
  <2>3. ~OnlyJournalOf(c)
    BY <1>1, <2>1 DEF OnlyJournalOf
  <2>4. CASE v \in boots[c].after
    <3>1. boots[d].after = {NoFile}
      BY <2>1 DEF IInv, EvidenceInv, FileInv
    <3> QED
      BY <1>3, <2>2, <2>3, <2>4, <3>1
  <2>5. CASE v \notin boots[c].after
    <3>1. c = d /\ v = j
      BY <1>1, <2>1, <2>5 DEF Renamed
    <3> QED
      BY <2>2, <3>1
  <2> QED
    BY <2>4, <2>5
<1>9. CASE Removes
  <2>1. OutcomeOf(c, q)' = OutcomeOf(c, q)
    BY <1>9, SameTold
  <2>2. /\ pending.now # NoFile /\ boots' = boots
        /\ boots[pending.now.claim].after = {boots[pending.now.claim].now}
        /\ boots[pending.now.claim].now.entries = pending.now.entries
    BY <1>9 DEF Removes
  <2>3. CASE c = pending.now.claim
    BY <2>1, <2>2, <2>3 DEF OutcomeOf
  <2>4. CASE c # pending.now.claim
    BY <1>1, <1>3, <2>1, <2>2, <2>4 DEF OnlyJournalOf
  <2> QED
    BY <2>3, <2>4
<1> QED
  BY <1>2, <1>4, <1>5, <1>6, <1>7, <1>8, <1>9 DEF Effect

\* In every reachable state, what survives a power cut is accounted for, a save and a
\* reconstruction have what they checked, and a record agrees with its journal.
THEOREM StepInvariance == Spec => [](IInv /\ StepInv)
<1>1. Init => StepInv
  BY DEF Init, StepInv, KeptInv, BlockInv, ArchivedInv, BehindInv, AloneInv, PendingVersions,
     Stored
<1>2. IInv /\ StepInv /\ [Next]_vars => StepInv'
  BY Effects, KeptStep, BlockStep, ArchivedStep, BehindStep, AloneStep DEF StepInv
<1> QED
  BY <1>1, <1>2, InitInv, NextInv, PTL DEF Spec

-----------------------------------------------------------------------------
(* What a session guarantees of its steps *)

\* Unresolved evidence stops saves, claims and reconstructions, whatever runs beside
\* and wherever a process is killed (app::require_clear, the lock of app::run).
THEOREM EvidenceStops == Spec => EvidenceBlocks
<1>1. ASSUME IInv, BlockInv, [Next]_vars, pending.now # NoFile \/ rebuilding
      PROVE  saves' = saves /\ opened' = opened
  <2>1. ~Clear
    BY <1>1 DEF Clear
  <2>2. ASSUME NEW i \in Invocations PROVE ~SaveWrite(i) /\ ~Open(i)
    BY <1>1, <2>1 DEF SaveWrite, Open, BlockInv
  <2> QED
    BY <1>1, <2>2, ZenonT(60) DEF Next, Step, Environment, vars, Abort, Start, Acquire, WaitForLock,
       GiveUp, Expire, HookBlocked, HookRestore, HookNoSnapshot, HookSave, HookDone,
       SaveBegin, SaveBlocked, SaveFails, Begin, BeginRefused, OpenSync, PlanFails, Mark,
       MarkSync, Revalidate, Probe, Skip, Send, Reply, Fail, RecordSync, FailSync, Finish,
       Acknowledge, AcknowledgeRebuild, AcknowledgeRefused, BootSync, Remove, RemoveSync,
       RebuildBegin, RebuildRefused, RebuildEnd, Deliver, Drop, Restart, PowerCut,
       EditConfig, HistoryUnchanged, FilesUnchanged
<1>2. ASSUME IInv, BlockInv, [Next]_vars, pending.now # NoFile, rebuilding'
      PROVE  rebuilding
  <2>1. ASSUME NEW i \in Invocations PROVE ~RebuildBegin(i)
    BY <1>2 DEF RebuildBegin, Clear
  <2>2. ASSUME NEW i \in Invocations, RebuildEnd(i) PROVE rebuilding
    BY <1>2, <2>2 DEF RebuildEnd, BlockInv
  <2> QED
    BY <1>2, <2>1, <2>2, ZenonT(30) DEF Next, Step, Environment, vars, Abort, Start, Acquire,
       WaitForLock, GiveUp, Expire, HookBlocked, HookRestore, HookNoSnapshot, HookSave,
       HookDone, SaveBegin, SaveBlocked, SaveWrite, SaveFails, Begin, BeginRefused, Open,
       OpenSync, PlanFails, Mark, MarkSync, Revalidate, Probe, Skip, Send, Reply, Fail,
       RecordSync, FailSync, Finish, Acknowledge, AcknowledgeRebuild, AcknowledgeRefused,
       BootSync, Remove, RemoveSync, RebuildRefused, Deliver, Drop, Restart, PowerCut,
       EditConfig, FilesUnchanged
<1>3. IInv /\ StepInv /\ [Next]_vars =>
        [/\ pending.now # NoFile \/ rebuilding => saves' = saves /\ opened' = opened
         /\ pending.now # NoFile => (rebuilding' => rebuilding)]_vars
  BY <1>1, <1>2 DEF StepInv
<1> QED
  BY <1>3, StepInvariance, PTL DEF Spec, EvidenceBlocks

\* An effect keeps every outcome a reader sees, or moves on from sending.
LEMMA OutcomeStep ==
    ASSUME IInv, Effect, ~PowerCut, NEW c \in Claims, NEW p \in Panes,
           OutcomeOf(c, p) \in Attempted, OutcomeOf(c, p)' # OutcomeOf(c, p)
    PROVE  /\ OutcomeOf(c, p) = "sending"
           /\ OutcomeOf(c, p)' \in {"applied", "skipped", "failed"}
<1>1. CASE Marks \/ Records
  <2>1. PICK r \in Panes, o \in {"sending", "applied", "skipped", "failed"} :
          /\ Rewrites(r, o) /\ pending.now # NoFile
          /\ \/ pending.now.entries[r] = "pending"
             \/ pending.now.entries[r] = "sending" /\ o \in {"applied", "skipped", "failed"}
    BY <1>1 DEF Marks, Records, Rewrites
  <2>2. OutcomeOf(c, p)' = IF c = pending.now.claim /\ p = r THEN o ELSE OutcomeOf(c, p)
    BY <2>1, RewriteTold
  <2> QED
    BY <2>1, <2>2 DEF OutcomeOf, Attempted
<1>2. CASE Opens \/ Waives
  <2>1. PICK d \in Claims, j \in Journal :
          /\ pending.now = NoFile /\ boots[d].now = NoFile
          /\ \/ j.claim = d /\ pending' = Renamed(pending, j) /\ UNCHANGED boots
             \/ boots' = [boots EXCEPT ![d] = Renamed(@, j)] /\ UNCHANGED pending
    BY <1>2 DEF Opens, Waives
  <2>2. OutcomeOf(c, p)' = IF c = d THEN j.entries[p] ELSE OutcomeOf(c, p)
    BY <2>1, NewTold
  <2>3. c = d => OutcomeOf(c, p) = "none"
    BY <2>1 DEF OutcomeOf
  <2> QED
    BY <2>2, <2>3 DEF Attempted
<1>3. CASE Copies \/ Settles \/ Sends \/ Removes
  BY <1>3, SameTold
<1>4. CASE UNCHANGED <<pending, boots, sent>>
  BY <1>4 DEF OutcomeOf
<1> QED
  BY <1>1, <1>2, <1>3, <1>4 DEF Effect

\* What a pane was given is never forgotten or rewritten by a restore, an
\* acknowledgement, a crash or a restart (app::execute, app::finish).
THEOREM OutcomesKept == Spec => OutcomesAreFinal
<1>1. ASSUME IInv, ArchivedInv, [Next]_vars, NEW c \in Claims, NEW p \in Panes,
             OutcomeOf(c, p) \in Attempted, OutcomeOf(c, p)' # OutcomeOf(c, p)
      PROVE  \/ /\ OutcomeOf(c, p) = "sending"
                /\ OutcomeOf(c, p)' \in {"applied", "skipped", "failed"}
             \/ cuts' # cuts
  <2>1. CASE PowerCut
    BY <2>1 DEF PowerCut, IInv, TypeOK
  <2>2. CASE ~PowerCut
    BY <1>1, <2>2, Effects, OutcomeStep
  <2> QED
    BY <2>1, <2>2
<1>2. IInv /\ StepInv /\ [Next]_vars =>
        [\A c \in Claims, p \in Panes :
           OutcomeOf(c, p) \in Attempted /\ OutcomeOf(c, p)' # OutcomeOf(c, p)
           => \/ OutcomeOf(c, p) = "sending" /\ OutcomeOf(c, p)' \in {"applied", "skipped", "failed"}
              \/ cuts' # cuts]_vars
  BY <1>1 DEF StepInv
<1> QED
  BY <1>2, StepInvariance, PTL DEF Spec, OutcomesAreFinal

-----------------------------------------------------------------------------
(* The contract *)

Standing == [c \in Claims |-> StatusOf(c)]
Safe == [c \in Claims |-> KeptOf(c)]
Told == [c \in Claims |-> [p \in Panes |-> OutcomeOf(c, p)]]

\* Only a power cut counts as one.
LEMMA CutsStay ==
    ASSUME [Next]_vars, ~PowerCut
    PROVE  cuts' = cuts
BY ZenonT(60) DEF Next, Step, Environment, vars, server, Abort, Start, Acquire, WaitForLock,
   GiveUp, Expire, HookBlocked, HookRestore, HookNoSnapshot, HookSave, HookDone, SaveBegin,
   SaveBlocked, SaveWrite, SaveFails, Begin, BeginRefused, Open, OpenSync, PlanFails, Mark,
   MarkSync, Revalidate, Probe, Skip, Send, Reply, Fail, RecordSync, FailSync, Finish,
   Acknowledge, AcknowledgeRebuild, AcknowledgeRefused, BootSync, Remove, RemoveSync,
   RebuildBegin, RebuildRefused, RebuildEnd, Deliver, Drop, Restart, EditConfig,
   OutsideUnchanged

\* What a power cut leaves of a claim, in one formula without nested conditions.
LEMMA KeptCases ==
    ASSUME NEW c \in Claims
    PROVE  /\ KeptOf(c) = "closed" <=> NoFile \notin boots[c].after /\ PendingVersions(c) = {}
           /\ KeptOf(c) = "free" <=> NoFile \in boots[c].after /\ ~OnlyJournalOf(c)
           /\ KeptOf(c) \in {"free", "open", "closed"}
BY Zenon DEF KeptOf

\* Where neither the record nor the versions of the journal change in kind, a power cut
\* leaves the same.
LEMMA SameKept ==
    ASSUME NEW c \in Claims,
           NoFile \in boots'[c].after <=> NoFile \in boots[c].after,
           OnlyJournalOf(c)' <=> OnlyJournalOf(c),
           PendingVersions(c)' = {} <=> PendingVersions(c) = {}
    PROVE  KeptOf(c)' = KeptOf(c)
BY Zenon DEF KeptOf

\* A journal that is rewritten under its claim leaves the same after a power cut.
LEMMA RewriteKept ==
    ASSUME IInv, NEW p \in Panes, NEW o, Rewrites(p, o), NEW c \in Claims
    PROVE  KeptOf(c)' = KeptOf(c)
<1>1. PICK j \in Journal :
        /\ pending.now # NoFile /\ pending.after = {pending.now}
        /\ pending' = Renamed(pending, j)
        /\ j.claim = pending.now.claim
        /\ UNCHANGED boots
  BY DEF Rewrites
<1>2. pending'.after = {pending.now, j} /\ j # NoFile
  BY <1>1, FileAssumption DEF Renamed
<1>3. OnlyJournalOf(c)' <=> OnlyJournalOf(c)
  BY <1>1, <1>2 DEF OnlyJournalOf
<1>4. PendingVersions(c)' = {} <=> PendingVersions(c) = {}
  BY <1>1, <1>2 DEF PendingVersions
<1> QED
  BY <1>1, <1>3, <1>4, SameKept

\* Neither do a copy, a command, a new claim before it is durable, or the removal of a
\* journal whose record is durable.
LEMMA OtherKept ==
    ASSUME IInv, KeptInv, Copies \/ Sends \/ Opens \/ Waives \/ Removes, NEW c \in Claims
    PROVE  KeptOf(c)' = KeptOf(c)
<1>1. boots \in [Claims -> Files] /\ pending.now \in pending.after
  BY FileShape DEF Files, FileOf
<1>2. CASE Copies \/ Waives
  <2>1. PICK d \in Claims, j \in Journal :
          boots' = [boots EXCEPT ![d] = Renamed(@, j)] /\ UNCHANGED pending
    BY <1>2, FileShape DEF Copies, Waives
  <2>2. NoFile \in boots'[c].after <=> NoFile \in boots[c].after
    BY <1>1, <2>1, FileAssumption DEF Renamed
  <2> QED
    BY <2>1, <2>2, SameKept DEF OnlyJournalOf, PendingVersions
<1>3. CASE Sends
  BY <1>3, SameKept DEF Sends, OnlyJournalOf, PendingVersions
<1>4. CASE Opens
  <2>1. PICK d \in Claims, j \in Journal :
          /\ pending.now = NoFile /\ boots[d].now = NoFile /\ j.claim = d
          /\ pending' = Renamed(pending, j) /\ UNCHANGED boots
    BY <1>4 DEF Opens
  <2>2. pending'.after = pending.after \union {j} /\ NoFile \in pending.after /\ j # NoFile
    BY <1>1, <2>1, FileAssumption DEF Renamed
  <2>3. ~OnlyJournalOf(c) /\ ~OnlyJournalOf(c)'
    BY <2>2 DEF OnlyJournalOf
  <2>4. CASE c = d
    <3>1. NoFile \in boots[c].after
      BY <2>1, <2>4 DEF IInv, EvidenceInv, FileInv
    <3> QED
      BY <2>1, <2>3, <3>1, KeptCases DEF KeptOf
  <2>5. CASE c # d
    <3>1. PendingVersions(c)' = PendingVersions(c)
      BY <2>1, <2>2, <2>5 DEF PendingVersions
    <3> QED
      BY <2>1, <2>3, <3>1, SameKept
  <2> QED
    BY <2>4, <2>5
<1>5. CASE Removes
  <2>1. /\ pending.now # NoFile /\ boots' = boots
        /\ boots[pending.now.claim].now # NoFile
        /\ boots[pending.now.claim].after = {boots[pending.now.claim].now}
        /\ pending'.after = pending.after \union {NoFile}
    BY <1>5 DEF Removes, Renamed
  <2>2. PendingVersions(c)' = PendingVersions(c) /\ ~OnlyJournalOf(c)'
    BY <2>1 DEF PendingVersions, OnlyJournalOf
  <2>3. CASE c = pending.now.claim
    BY <2>1, <2>2, <2>3 DEF KeptOf
  <2>4. CASE c # pending.now.claim
    <3>1. ~OnlyJournalOf(c)
      BY <1>1, <2>4 DEF OnlyJournalOf
    <3> QED
      BY <2>1, <2>2, <3>1, SameKept
  <2> QED
    BY <2>3, <2>4
<1> QED
  BY <1>2, <1>3, <1>4, <1>5

\* A sync lets a power cut leave more of a claim, never more than there is.
LEMMA SettleKept ==
    ASSUME IInv, Settles, NEW c \in Claims
    PROVE  /\ StatusOf(c)' = StatusOf(c)
           /\ Contract!AtLeast(KeptOf(c)', KeptOf(c))
           /\ Contract!AtLeast(StatusOf(c), KeptOf(c)')
<1>1. /\ boots \in [Claims -> Files] /\ pending.now \in pending.after
      /\ boots[c].now \in boots[c].after
  BY FileShape DEF Files, FileOf
<1>2. pending'.now = pending.now /\ boots'[c].now = boots[c].now
  BY <1>1 DEF Settles, Synced
<1>3. /\ pending'.now \in pending'.after /\ pending'.after \subseteq pending.after
      /\ boots'[c].now \in boots'[c].after /\ boots'[c].after \subseteq boots[c].after
  BY <1>1 DEF Settles, Synced
<1>4. StatusOf(c)' = StatusOf(c)
  BY <1>2 DEF StatusOf
<1>5. /\ PendingVersions(c) = {} => PendingVersions(c)' = {}
      /\ OnlyJournalOf(c) => OnlyJournalOf(c)'
      /\ NoFile \notin boots[c].after => NoFile \notin boots'[c].after
  BY <1>3 DEF PendingVersions, OnlyJournalOf
<1>6. Contract!AtLeast(KeptOf(c)', KeptOf(c))
  BY <1>5, Zenon DEF KeptOf, Contract!AtLeast
<1>7. CASE pending.now # NoFile /\ pending.now.claim = c
  <2>1. PendingVersions(c)' # {} /\ StatusOf(c) = "open"
    BY <1>2, <1>3, <1>7 DEF PendingVersions, StatusOf
  <2> QED
    BY <1>4, <1>6, <2>1, Zenon DEF KeptOf, Contract!AtLeast
<1>8. CASE ~(pending.now # NoFile /\ pending.now.claim = c)
  <2>1. ~OnlyJournalOf(c)'
    BY <1>2, <1>3, <1>8 DEF OnlyJournalOf
  <2>2. CASE boots[c].now # NoFile
    BY <1>4, <1>6, <1>8, <2>2 DEF StatusOf, Contract!AtLeast
  <2>3. CASE boots[c].now = NoFile
    BY <1>2, <1>3, <1>4, <1>6, <2>1, <2>3 DEF KeptOf, Contract!AtLeast
  <2> QED
    BY <2>2, <2>3
<1> QED
  BY <1>4, <1>6, <1>7, <1>8

\* A claim that is taken was free, and no other was open; its panes wait or are skipped.
LEMMA TakeStep ==
    ASSUME IInv, KeptInv, Opens, cuts' = cuts
    PROVE  \E c \in Claims : Contract!Take(c)
<1>1. PICK c \in Claims, j \in Journal :
        /\ pending.now = NoFile /\ boots[c].now = NoFile
        /\ j.claim = c /\ j.entries \in [Panes -> {"pending", "skipped"}]
        /\ pending' = Renamed(pending, j) /\ UNCHANGED <<boots, sent>>
  BY DEF Opens
<1>2. pending'.now = j /\ j # NoFile
  BY <1>1, FileAssumption DEF Renamed
<1>3. Standing[c] = "free" /\ \A d \in Claims : Standing[d] # "open"
  BY <1>1 DEF Standing, StatusOf
<1>4. Standing' = [Standing EXCEPT ![c] = "open"]
  BY <1>1, <1>2 DEF Standing, StatusOf
<1>5. Told' = [Told EXCEPT ![c] = j.entries]
  <2>1. \A d \in Claims, q \in Panes :
          OutcomeOf(d, q)' = IF d = c THEN j.entries[q] ELSE OutcomeOf(d, q)
    BY <1>1, NewTold
  <2>2. [q \in Panes |-> j.entries[q]] = j.entries
    BY <1>1
  <2> QED
    BY <2>1, <2>2 DEF Told
<1>6. Safe' = Safe
  BY OtherKept DEF Safe
<1> QED
  BY <1>1, <1>3, <1>4, <1>5, <1>6 DEF Standing, Safe, Told, Contract!Take, Contract!NoneOpen

\* A boot that is recorded with nothing to restore was free.
LEMMA WaiveStep ==
    ASSUME IInv, KeptInv, Waives, cuts' = cuts
    PROVE  \E c \in Claims : Contract!Waive(c)
<1>1. PICK c \in Claims, j \in Journal :
        /\ pending.now = NoFile /\ boots[c].now = NoFile
        /\ j.entries = [p \in Panes |-> "skipped"]
        /\ boots' = [boots EXCEPT ![c] = Renamed(@, j)] /\ UNCHANGED <<pending, sent>>
  BY DEF Waives
<1>2. j # NoFile /\ boots \in [Claims -> Files]
  BY FileShape, FileAssumption
<1>3. Standing[c] = "free" /\ \A d \in Claims : Standing[d] # "open"
  BY <1>1 DEF Standing, StatusOf
<1>4. Standing' = [Standing EXCEPT ![c] = "closed"]
  BY <1>1, <1>2 DEF Standing, StatusOf, Renamed
<1>5. Told' = [Told EXCEPT ![c] = [p \in Panes |-> "skipped"]]
  <2>1. \A d \in Claims, q \in Panes :
          OutcomeOf(d, q)' = IF d = c THEN j.entries[q] ELSE OutcomeOf(d, q)
    BY <1>1, NewTold
  <2> QED
    BY <1>1, <2>1 DEF Told
<1>6. Safe' = Safe
  BY OtherKept DEF Safe
<1> QED
  BY <1>1, <1>3, <1>4, <1>5, <1>6 DEF Standing, Safe, Told, Contract!Waive, Contract!NoneOpen

\* What a rewrite of the journal is to the contract.
LEMMA RewriteStep ==
    ASSUME IInv, NEW p \in Panes, NEW o, Rewrites(p, o)
    PROVE  /\ pending.now.claim \in Claims
           /\ Standing[pending.now.claim] = "open"
           /\ Told[pending.now.claim][p] = pending.now.entries[p]
           /\ Told' = [Told EXCEPT ![pending.now.claim][p] = o]
           /\ UNCHANGED <<Standing, Safe, sent>>
<1>1. /\ pending.now # NoFile /\ UNCHANGED <<boots, sent>>
      /\ \E j \in Journal : pending' = Renamed(pending, j) /\ j.claim = pending.now.claim
  BY DEF Rewrites
<1>2. pending.now.claim \in Claims
  BY <1>1, FileShape
<1>3. /\ Standing[pending.now.claim] = "open"
      /\ Told[pending.now.claim][p] = pending.now.entries[p]
  BY <1>1, <1>2 DEF Standing, StatusOf, Told, OutcomeOf
<1>4. pending'.now # NoFile /\ pending'.now.claim = pending.now.claim
  BY <1>1, FileAssumption DEF Renamed
<1>5. Standing' = Standing
  BY <1>1, <1>4 DEF Standing, StatusOf
<1>6. Told' = [Told EXCEPT ![pending.now.claim][p] = o]
  <2>1. \A d \in Claims, q \in Panes :
          OutcomeOf(d, q)' = IF d = pending.now.claim /\ q = p THEN o ELSE OutcomeOf(d, q)
    BY RewriteTold
  <2> QED
    BY <1>2, <2>1 DEF Told
<1>7. Safe' = Safe
  BY RewriteKept DEF Safe
<1> QED
  BY <1>1, <1>2, <1>3, <1>5, <1>6, <1>7

\* A pane that is marked waited.
LEMMA MarkingStep ==
    ASSUME IInv, Marks, cuts' = cuts
    PROVE  \E c \in Claims : \E p \in Panes : Contract!Mark(c, p)
<1>1. PICK p \in Panes : pending.now.entries[p] = "pending" /\ Rewrites(p, "sending")
  BY DEF Marks
<1>2. /\ pending.now.claim \in Claims
      /\ Standing[pending.now.claim] = "open"
      /\ Told[pending.now.claim][p] = "pending"
      /\ Told' = [Told EXCEPT ![pending.now.claim][p] = "sending"]
      /\ UNCHANGED <<Standing, Safe, sent>>
  BY <1>1, RewriteStep
<1>3. Contract!Mark(pending.now.claim, p)
  BY <1>2 DEF Contract!Mark, Contract!claims, Standing, Safe, Told
<1> QED
  BY <1>2, <1>3

\* A result is of a marked pane, and says what was sent.
LEMMA RecordStep ==
    ASSUME IInv, Records, cuts' = cuts
    PROVE  \E c \in Claims : \E p \in Panes : \E result \in Contract!Results :
             Contract!Record(c, p, result)
<1>1. PICK p \in Panes, o \in {"applied", "skipped", "failed"} :
        /\ pending.now.entries[p] = "sending"
        /\ o = "applied" => sent[pending.now.claim][p] = 1
        /\ o = "skipped" => sent[pending.now.claim][p] = 0
        /\ Rewrites(p, o)
  BY DEF Records
<1>2. o \in Contract!Results
  BY DEF Contract!Results
<1>3. /\ pending.now.claim \in Claims
      /\ Standing[pending.now.claim] = "open"
      /\ Told[pending.now.claim][p] = "sending"
      /\ Told' = [Told EXCEPT ![pending.now.claim][p] = o]
      /\ UNCHANGED <<Standing, Safe, sent>>
  BY <1>1, RewriteStep
<1>4. Contract!Record(pending.now.claim, p, o)
  BY <1>1, <1>3 DEF Contract!Record, Contract!claims, Standing, Safe, Told
<1> QED
  BY <1>2, <1>3, <1>4

\* A command is the first one for its pane under the open claim, which is durable.
LEMMA TryStep ==
    ASSUME IInv, KeptInv, Sends, cuts' = cuts
    PROVE  \E c \in Claims : \E p \in Panes : Contract!Try(c, p)
<1>1. PICK p \in Panes :
        /\ pending.now # NoFile /\ pending.after = {pending.now}
        /\ pending.now.entries[p] = "sending"
        /\ sent[pending.now.claim][p] = 0
        /\ sent' = [sent EXCEPT ![pending.now.claim][p] = 1]
        /\ UNCHANGED <<pending, boots>>
  BY DEF Sends
<1>2. pending.now.claim \in Claims
  BY <1>1, FileShape
<1>3. /\ Standing[pending.now.claim] = "open"
      /\ Told[pending.now.claim][p] = "sending"
  BY <1>1, <1>2 DEF Standing, StatusOf, Told, OutcomeOf
<1>4. Safe[pending.now.claim] # "free"
  <2>1. OnlyJournalOf(pending.now.claim)
    BY <1>1 DEF OnlyJournalOf
  <2> QED
    BY <1>2, <2>1, KeptCases DEF Safe
<1>5. UNCHANGED <<Standing, Told>>
  BY <1>1 DEF Standing, StatusOf, Told, OutcomeOf
<1>6. Safe' = Safe
  BY OtherKept DEF Safe
<1> QED
  BY <1>1, <1>2, <1>3, <1>4, <1>5, <1>6
     DEF Standing, Safe, Told, Contract!Try, Contract!claims

\* A journal that goes closes its claim: the record is there and durable.
LEMMA CloseStep ==
    ASSUME IInv, KeptInv, Removes, cuts' = cuts
    PROVE  \E c \in Claims : Contract!Close(c)
<1> DEFINE c == pending.now.claim
<1>1. /\ c \in Claims /\ pending.now # NoFile /\ boots[c].now # NoFile
      /\ boots[c].after = {boots[c].now}
      /\ pending'.now = NoFile /\ UNCHANGED <<boots, sent>>
  BY FileShape DEF Removes, Renamed
<1>2. Standing[c] = "open" /\ Safe[c] # "free"
  BY <1>1, KeptCases DEF Standing, StatusOf, Safe
<1>3. Standing' = [Standing EXCEPT ![c] = "closed"]
  BY <1>1 DEF Standing, StatusOf
<1>4. Told' = Told
  BY SameTold DEF Told
<1>5. Safe' = Safe
  BY OtherKept DEF Safe
<1> QED
  BY <1>1, <1>2, <1>3, <1>4, <1>5 DEF Standing, Safe, Told, Contract!Close, Contract!panes

\* A sync hardens what there is.
LEMMA HardenStep ==
    ASSUME IInv, Settles, cuts' = cuts
    PROVE  Contract!Harden
<1>1. Safe' \in [Claims -> Contract!Status]
  BY DEF Safe, KeptOf, Contract!Status
<1>2. \A c \in Claims :
        /\ Contract!AtLeast(KeptOf(c)', KeptOf(c))
        /\ Contract!AtLeast(StatusOf(c), KeptOf(c)')
  BY SettleKept
<1>3. Standing' = Standing
  BY SettleKept DEF Standing
<1>4. Told' = Told
  BY SameTold DEF Told
<1>5. sent' = sent
  BY DEF Settles
<1> QED
  BY <1>1, <1>2, <1>3, <1>4, <1>5 DEF Standing, Safe, Told, Contract!Harden, Contract!panes

\* The copy of a journal shows only once the journal is gone.
LEMMA CopyStep ==
    ASSUME IInv, KeptInv, Copies
    PROVE  UNCHANGED <<Standing, Safe, Told, sent>>
<1>1. boots \in [Claims -> Files]
  BY FileShape
<1>2. PICK j \in Journal :
        /\ boots' = [boots EXCEPT ![pending.now.claim] = Renamed(@, j)]
        /\ pending.now # NoFile /\ UNCHANGED <<pending, sent>>
  BY DEF Copies
<1>3. Standing' = Standing
  BY <1>1, <1>2 DEF Standing, StatusOf
<1>4. Told' = Told
  BY SameTold DEF Told
<1>5. Safe' = Safe
  BY OtherKept DEF Safe
<1> QED
  BY <1>2, <1>3, <1>4, <1>5

\* A power cut frees no claim that is safe, takes none, leaves one open at most, and
\* takes no record of a pane back by more than a step.
LEMMA CutStep ==
    ASSUME IInv, StepInv, PowerCut
    PROVE  Contract!PowerCut
<1>1. PICK v \in pending.after : pending' = Stored(v)
  BY DEF PowerCut
<1>2. PICK left \in [Claims -> UNION {boots[c].after : c \in Claims}] :
        /\ \A c \in Claims : left[c] \in boots[c].after
        /\ boots' = [c \in Claims |-> Stored(left[c])]
  BY DEF PowerCut
<1>3. /\ pending'.now = v /\ pending'.after = {v}
      /\ \A c \in Claims : boots'[c].now = left[c] /\ boots'[c].after = {left[c]}
      /\ UNCHANGED sent /\ cuts' = cuts + 1
  BY <1>1, <1>2 DEF Stored, PowerCut
<1>4. /\ v # NoFile => v \in Journal
      /\ \A c \in Claims : left[c] # NoFile => left[c] \in Journal
  BY <1>1, <1>2, FileShape DEF Files, FileOf, Contents
<1>5. Standing' \in [Claims -> Contract!Status]
  BY DEF Standing, StatusOf, Contract!Status
<1>6. Safe' = Standing'
  <2> SUFFICES ASSUME NEW c \in Claims PROVE KeptOf(c)' = StatusOf(c)'
    BY DEF Safe, Standing
  <2>1. PendingVersions(c)' = {} <=> ~(v # NoFile /\ v.claim = c)
    BY <1>3 DEF PendingVersions
  <2>2. OnlyJournalOf(c)' <=> v # NoFile /\ v.claim = c
    BY <1>3 DEF OnlyJournalOf
  <2>3. CASE v # NoFile /\ v.claim = c
    <3>1. KeptOf(c)' = "open"
      BY <2>1, <2>2, <2>3 DEF KeptOf
    <3> QED
      BY <1>3, <2>3, <3>1 DEF StatusOf
  <2>4. CASE ~(v # NoFile /\ v.claim = c)
    <3>1. KeptOf(c)' = IF NoFile \notin boots[c]'.after THEN "closed" ELSE "free"
      BY <2>1, <2>2, <2>4 DEF KeptOf
    <3>2. NoFile \notin boots[c]'.after <=> boots[c]'.now # NoFile
      BY <1>3
    <3>3. StatusOf(c)' = IF boots[c]'.now # NoFile THEN "closed" ELSE "free"
      BY <1>3, <2>4 DEF StatusOf
    <3> QED
      BY <3>1, <3>2, <3>3
  <2> QED
    BY <2>3, <2>4
<1>7. Told' \in [Claims -> [Panes -> Contract!Tried \union Contract!Results \union {"none", "pending"}]]
  <2> SUFFICES ASSUME NEW c \in Claims, NEW p \in Panes
               PROVE  OutcomeOf(c, p)' \in Outcome \union {"none"}
    BY DEF Told, Outcome, Contract!Tried, Contract!Results
  <2>1. \A j \in Journal : j.entries[p] \in Outcome
    BY DEF Journal
  <2> QED
    BY <1>3, <1>4, <2>1 DEF OutcomeOf
<1>8. ASSUME NEW c \in Claims
      PROVE  /\ Standing[c] = "free" => Standing'[c] = "free"
             /\ Contract!AtLeast(Standing'[c], Safe[c])
  <2>1. Standing[c] = StatusOf(c) /\ Standing'[c] = StatusOf(c)' /\ Safe[c] = KeptOf(c)
    BY DEF Standing, Safe
  <2>2. StatusOf(c) = "free" => StatusOf(c)' = "free"
    <3> SUFFICES ASSUME StatusOf(c) = "free" PROVE StatusOf(c)' = "free"
      OBVIOUS
    <3>1. boots[c].now = NoFile /\ (pending.now # NoFile => pending.now.claim # c)
      BY DEF StatusOf
    <3>2. v # NoFile => v.claim # c
      BY <3>1 DEF StepInv, KeptInv
    <3>3. left[c] = NoFile
      BY <1>2, <3>1 DEF IInv, EvidenceInv, FileInv
    <3> QED
      BY <1>3, <3>2, <3>3 DEF StatusOf
  <2>3. NoFile \notin boots[c].after => StatusOf(c)' # "free"
    BY <1>2, <1>3 DEF StatusOf
  <2>4. OnlyJournalOf(c) => StatusOf(c)' = "open"
    BY <1>3 DEF OnlyJournalOf, StatusOf
  <2>5. PendingVersions(c) = {} => StatusOf(c)' # "open"
    BY <1>3 DEF PendingVersions, StatusOf
  <2>6. StatusOf(c)' \in {"free", "open", "closed"}
    BY Zenon DEF StatusOf
  <2>7. Contract!AtLeast(StatusOf(c)', KeptOf(c))
    BY <2>3, <2>4, <2>5, <2>6, KeptCases DEF Contract!AtLeast
  <2> QED
    BY <2>1, <2>2, <2>7
<1>9. ASSUME NEW c \in Claims, NEW d \in Claims,
             Standing'[c] = "open", Standing'[d] = "open"
      PROVE  c = d
  BY <1>3, <1>9 DEF Standing, StatusOf
<1>10. ASSUME NEW c \in Claims, NEW p \in Panes
       PROVE  IF Standing'[c] = "free" THEN Told'[c][p] = "none" /\ sent[c][p] = 0
              ELSE /\ \/ Told'[c][p] = Told[c][p]
                      \/ Told'[c][p] = "pending" /\ Told[c][p] = "sending"
                      \/ Told'[c][p] = "sending" /\ Told[c][p] \in Contract!Results
                   /\ sent[c][p] > 0 => Told'[c][p] \in Contract!Tried
  <2>1. /\ Standing'[c] = StatusOf(c)'
        /\ Told[c][p] = OutcomeOf(c, p) /\ Told'[c][p] = OutcomeOf(c, p)'
    BY DEF Standing, Told
  <2>2. sent[c][p] \in Nat
    BY DEF IInv, TypeOK
  <2>3. \A j \in Versions(c) : j \in Journal => (sent[c][p] > 0 => j.entries[p] \in Contract!Tried)
    <3> SUFFICES ASSUME NEW j \in Versions(c), j \in Journal, sent[c][p] > 0
                 PROVE  j.entries[p] \in Contract!Tried
      OBVIOUS
    <3>1. j.entries[p] \in {"pending", "skipped"} => sent[c][p] = 0
      BY DEF IInv, EvidenceInv, JournalTruthful
    <3>2. j.entries[p] \in Outcome
      BY DEF Journal
    <3> QED
      BY <2>2, <3>1, <3>2 DEF Outcome, Contract!Tried
  <2>4. CASE v # NoFile /\ v.claim = c
    <3>1. StatusOf(c)' = "open" /\ OutcomeOf(c, p)' = v.entries[p]
      BY <1>3, <2>4 DEF StatusOf, OutcomeOf
    <3>2. v \in PendingVersions(c) /\ v \in Versions(c)
      BY <2>4 DEF PendingVersions, Versions
    <3>3. \/ v.entries[p] = OutcomeOf(c, p)
          \/ v.entries[p] = "pending" /\ OutcomeOf(c, p) = "sending"
          \/ v.entries[p] = "sending" /\ OutcomeOf(c, p) \in Contract!Results
      BY <3>2 DEF StepInv, BehindInv, Contract!Results
    <3> QED
      BY <1>4, <2>1, <2>3, <2>4, <3>1, <3>2, <3>3
  <2>5. CASE ~(v # NoFile /\ v.claim = c) /\ left[c] # NoFile
    <3>1. StatusOf(c)' = "closed" /\ OutcomeOf(c, p)' = left[c].entries[p]
      BY <1>3, <2>5 DEF StatusOf, OutcomeOf
    <3>2. left[c] \in boots[c].after \ {NoFile} /\ left[c] \in Versions(c)
      BY <1>2, <2>5 DEF Versions
    <3>3. left[c].entries[p] = OutcomeOf(c, p)
      BY <2>5, <3>2 DEF StepInv, AloneInv, OnlyJournalOf
    <3> QED
      BY <1>4, <2>1, <2>3, <2>5, <3>1, <3>2, <3>3
  <2>6. CASE ~(v # NoFile /\ v.claim = c) /\ left[c] = NoFile
    <3>1. StatusOf(c)' = "free" /\ OutcomeOf(c, p)' = "none"
      BY <1>3, <2>6 DEF StatusOf, OutcomeOf
    <3>2. ~(sent[c][p] > 0)
      BY <1>2, <2>6 DEF IInv, EvidenceInv, RecordInv
    <3> QED
      BY <2>1, <2>2, <3>1, <3>2
  <2> QED
    BY <2>4, <2>5, <2>6
<1> QED
  BY <1>3, <1>5, <1>6, <1>7, <1>8, <1>9, <1>10 DEF Standing, Safe, Told, Contract!PowerCut

\* Processes, the lock, renames and syncs, crashes and power cuts implement the contract
\* of RestoreContract: between power cuts a claim is taken and closed once, one at a
\* time, and a pane under it is marked, tried and given its result once; a power cut
\* undoes only what was not durable, and never a claim or a mark under which a command
\* was sent (app::restore, execute, finish, store::atomic_write).
THEOREM ContractImplemented == Spec => ImplementsContract
<1>1. Init => Contract!ContractInit
  BY DEF Init, Contract!ContractInit, StatusOf, KeptOf, OnlyJournalOf, OutcomeOf, Stored
<1>2. ASSUME IInv, StepInv, [Next]_vars
      PROVE  Contract!ContractNext \/ UNCHANGED <<Standing, Safe, Told, sent, cuts>>
  <2>1. CASE PowerCut
    BY <1>2, <2>1, CutStep DEF Contract!ContractNext
  <2>2. CASE ~PowerCut
    <3>1. cuts' = cuts
      BY <1>2, <2>2, CutsStay
    <3>2. CASE UNCHANGED <<pending, boots, sent>>
      <4>1. UNCHANGED <<Standing, Told>>
        BY <3>2 DEF Standing, StatusOf, Told, OutcomeOf
      <4>2. Safe' = Safe
        BY <3>2 DEF Safe, KeptOf, PendingVersions, OnlyJournalOf
      <4> QED
        BY <3>1, <3>2, <4>1, <4>2
    <3>3. CASE Copies
      BY <1>2, <3>1, <3>3, CopyStep DEF StepInv
    <3>4. CASE Opens \/ Waives \/ Removes \/ Settles
      BY <1>2, <3>1, <3>4, TakeStep, WaiveStep, CloseStep, HardenStep
         DEF StepInv, Contract!ContractNext
    <3>5. CASE Marks
      BY <1>2, <3>1, <3>5, MarkingStep DEF Contract!ContractNext
    <3>6. CASE Records
      BY <1>2, <3>1, <3>6, RecordStep DEF Contract!ContractNext
    <3>7. CASE Sends
      BY <1>2, <3>1, <3>7, TryStep DEF StepInv, Contract!ContractNext
    <3> QED
      BY <1>2, <2>2, <3>2, <3>3, <3>4, <3>5, <3>6, <3>7, Effects DEF StepInv, Effect
  <2> QED
    BY <2>1, <2>2
<1>3. IInv /\ StepInv /\ [Next]_vars =>
        [Contract!ContractNext]_<<Contract!claims, Contract!panes, cuts>>
  BY <1>2 DEF Standing, Safe, Told, Contract!claims, Contract!panes
<1> QED
  BY <1>1, <1>3, StepInvariance, PTL DEF Spec, ImplementsContract, Contract!ContractSpec
=============================================================================
