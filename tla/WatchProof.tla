----------------------------- MODULE WatchProof -----------------------------
(***************************************************************************)
(* Proofs that a restore stops when it is switched off and when its server *)
(* is replaced, for every instance of Restore.                             *)
(***************************************************************************)
EXTENDS RestoreContractProof

\* Points between the last checks of a pane and its command.
Checked == {"probe", "send"}

\* A generation claimed by a restore is the one it read.
OwnAt(i) ==
    pc[i] \in Executing /\ mem[i].claim \in Generations => mem[i].claim = mem[i].gen

\* After a late command, no automatic restore is past its checks.
LateInv ==
    /\ late \in {0, 1}
    /\ late = 1 =>
         /\ ~conf.auto_restore
         /\ \A i \in Invocations : mem[i].auto => pc[i] \notin Checked

\* After a stray command, its server is gone and no restore of it is past its checks.
AstrayAt(g) ==
    /\ astray[g] \in {0, 1}
    /\ astray[g] = 1 =>
         /\ g \in booted /\ g # gen
         /\ \A i \in Invocations : mem[i].claim = g => pc[i] \notin Checked

WInv ==
    /\ \A i \in Invocations : OwnAt(i)
    /\ LateInv
    /\ astray \in [Generations -> {0, 1}]
    /\ \A g \in Generations : AstrayAt(g)

-----------------------------------------------------------------------------
(* What a step does to a restore that runs *)

\* A restore keeps what it claimed and read; it passes its checks by Revalidate alone.
LEMMA Arrivals ==
    ASSUME IInv, [Next]_vars, NEW i \in Invocations, pc'[i] \in Executing
    PROVE  \/ Open(i) /\ pc'[i] = "openSync"
           \/ /\ pc[i] \in Executing
              /\ mem'[i].claim = mem[i].claim /\ mem'[i].gen = mem[i].gen
              /\ mem'[i].auto = mem[i].auto
              /\ pc'[i] \in Checked => pc[i] \in Checked \/ Revalidate(i)
<1>1. LocalOK
  BY DEF IInv, TypeOK, LocalOK
<1>2. pc[i] \in Working
  BY Entrances DEF Executing, Working
<1>3. ~PowerCut /\ ~Exit(i)
  BY <1>1 DEF PowerCut, Exit, LocalOK, Executing
<1>4. CASE pc'[i] = pc[i] /\ mem'[i] = mem[i]
  BY <1>4
<1>5. CASE Step(i)
  <2>1. CASE Open(i)
    BY <1>1, <2>1 DEF Open, LocalOK
  <2>2. CASE Mark(i)
    <3>1. pc[i] = "next" /\ pc'[i] = "markSync" /\ \E p : mem' = [mem EXCEPT ![i].pane = p]
      BY <1>1, <2>2 DEF Mark, LocalOK
    <3>2. mem'[i].claim = mem[i].claim /\ mem'[i].gen = mem[i].gen /\ mem'[i].auto = mem[i].auto
      BY <1>1, <3>1 DEF LocalOK, Memory
    <3> QED
      BY <3>1, <3>2 DEF Executing, Checked
  <2>3. CASE OpenSync(i) \/ MarkSync(i) \/ Revalidate(i) \/ Probe(i) \/ Skip(i) \/ Send(i)
             \/ Reply(i) \/ Fail(i) \/ RecordSync(i)
    <3>1. pc[i] \in Executing /\ mem' = mem
      BY <2>3 DEF OpenSync, MarkSync, Revalidate, Probe, Skip, Send, Reply, Fail, RecordSync,
         Persist, Goto, Executing
    <3>2. pc'[i] \in Checked => pc[i] \in Checked \/ Revalidate(i)
      BY <1>1, <2>3 DEF OpenSync, MarkSync, Probe, Skip, Send, Reply, Fail, RecordSync,
         Persist, Goto, Checked, LocalOK
    <3> QED
      BY <3>1, <3>2
  <2> QED
    BY <1>1, <1>2, <1>3, <1>5, <2>1, <2>2, <2>3 DEF Step, Acquire, WaitForLock, GiveUp, Expire,
       HookBlocked, HookRestore, HookNoSnapshot, HookSave, HookDone, SaveBegin, SaveBlocked,
       SaveWrite, SaveFails, Begin, BeginRefused, PlanFails, FailSync, Finish, Acknowledge,
       AcknowledgeRebuild, AcknowledgeRefused, BootSync, Remove, RemoveSync, RebuildBegin,
       RebuildRefused, RebuildEnd, Archive, Persist, Goto, LocalOK, Executing, Working
<1> QED
  BY <1>2, <1>3, <1>4, <1>5, Turns DEF Abort

\* A command is sent by the holder of the lock, which then waits.
LEMMA Sending ==
    ASSUME IInv, NEW i \in Invocations, Send(i)
    PROVE  /\ pc[i] = "send" /\ pc'[i] = "await" /\ UNCHANGED <<mem, conf, server>>
           /\ \A j \in Invocations \ {i} : pc[j] \notin Working /\ pc'[j] = pc[j]
<1>1. LocalOK /\ LockInv
  BY DEF IInv, TypeOK, LocalOK, ProcessInv
<1>2. pc[i] = "send" /\ pc' = [pc EXCEPT ![i] = "await"] /\ UNCHANGED <<mem, conf, server>>
  BY DEF Send, Goto, OutsideUnchanged
<1>3. \A j \in Invocations \ {i} : pc[j] \notin Working
  BY <1>1, <1>2, HolderAlone DEF Working
<1> QED
  BY <1>1, <1>2, <1>3 DEF LocalOK

\* The counters change where a command is sent and where the configuration is edited.
LEMMA Counting ==
    ASSUME [Next]_vars
    PROVE  \/ UNCHANGED <<conf, watch>>
           \/ late' = 0 /\ UNCHANGED astray
           \/ \E i \in Invocations : Send(i)
<1>1. CASE UNCHANGED vars
  BY <1>1 DEF vars
<1>2. ASSUME NEW i \in Invocations, Step(i), ~Send(i) PROVE UNCHANGED <<conf, watch>>
  BY <1>2 DEF Step, vars, Acquire, WaitForLock, GiveUp, Expire, HookBlocked, HookRestore,
     HookNoSnapshot, HookSave, HookDone, SaveBegin, SaveBlocked, SaveWrite, SaveFails, Begin,
     BeginRefused, Open, OpenSync, PlanFails, Mark, MarkSync, Revalidate, Probe, Skip, Reply,
     Fail, RecordSync, FailSync, Finish, Acknowledge, AcknowledgeRebuild, AcknowledgeRefused,
     BootSync, Remove, RemoveSync, RebuildBegin, RebuildRefused, RebuildEnd,
     OutsideUnchanged, HistoryUnchanged
<1>3. ASSUME NEW i \in Invocations, Abort(i) \/ \E k \in Kinds : Start(i, k)
      PROVE  UNCHANGED <<conf, watch>>
  BY <1>3 DEF Abort, Start, OutsideUnchanged, HistoryUnchanged
<1>4. CASE Environment
  BY <1>4 DEF Environment, Deliver, Drop, Restart, PowerCut, EditConfig
<1> QED
  BY <1>1, <1>2, <1>3, <1>4 DEF Next

\* A server that is gone does not come back.
LEMMA ServersPass ==
    ASSUME IInv, [Next]_vars
    PROVE  booted \subseteq booted' /\ (gen' = gen \/ gen' \notin booted)
BY ZenonT(30) DEF Next, Step, Environment, vars, server, Abort, Start, Acquire, WaitForLock,
   GiveUp, Expire, HookBlocked, HookRestore, HookNoSnapshot, HookSave, HookDone,
   SaveBegin, SaveBlocked, SaveWrite, SaveFails, Begin, BeginRefused, Open, OpenSync,
   PlanFails, Mark, MarkSync, Revalidate, Probe, Skip, Send, Reply, Fail, RecordSync,
   FailSync, Finish, Acknowledge, AcknowledgeRebuild, AcknowledgeRefused, BootSync,
   Remove, RemoveSync, RebuildBegin, RebuildRefused, RebuildEnd, Deliver, Drop, Restart,
   PowerCut, EditConfig, OutsideUnchanged

-----------------------------------------------------------------------------
(* The invariant *)

\* A restore opens its journal under the generation it read or a digest of its own.
LEMMA OwnStep ==
    ASSUME IInv, [Next]_vars, NEW i \in Invocations, OwnAt(i)
    PROVE  OwnAt(i)'
<1> SUFFICES ASSUME pc'[i] \in Executing, mem'[i].claim \in Generations
             PROVE  mem'[i].claim = mem'[i].gen
  BY DEF OwnAt
<1>1. CASE Open(i)
  <2>1. PICK c \in ClaimsFor(mem[i].gen) : mem' = [mem EXCEPT ![i].claim = c]
    BY <1>1 DEF Open
  <2>2. mem'[i].claim = c /\ mem'[i].gen = mem[i].gen
    BY <2>1 DEF IInv, TypeOK, Memory
  <2>3. c = mem[i].gen \/ c \in ManualClaims
    BY <2>1 DEF ClaimsFor
  <2> QED
    BY <2>2, <2>3, ClaimAssumption
<1> QED
  BY <1>1, Arrivals DEF OwnAt

\* The counter of late commands.
LEMMA LateStep ==
    ASSUME IInv, WInv, [Next]_vars
    PROVE  LateInv'
<1>1. LateInv
  BY DEF WInv
<1>2. CASE late' = 0
  BY <1>2 DEF LateInv
<1>3. ASSUME NEW i \in Invocations, Send(i), late' # 0 PROVE LateInv'
  <2>1. late' = IF mem[i].auto /\ ~conf.auto_restore THEN late + 1 ELSE late
    BY <1>3 DEF Send
  <2>2. \A j \in Invocations : pc'[j] \notin Checked
    BY <1>3, Sending DEF Checked, Working
  <2>3. late = 1 => ~mem[i].auto
    BY <1>1, <1>3, Sending DEF LateInv, Checked
  <2>4. late' = 1 /\ ~conf.auto_restore
    BY <1>1, <1>3, <2>1, <2>3 DEF LateInv
  <2> QED
    BY <1>3, <2>2, <2>4, Sending DEF LateInv
<1>4. CASE UNCHANGED <<conf, watch>>
  <2>1. SUFFICES ASSUME late = 1, NEW i \in Invocations, mem'[i].auto, pc'[i] \in Checked
                 PROVE  FALSE
    BY <1>1, <1>4 DEF LateInv, watch
  <2>2. pc'[i] \in Executing /\ pc'[i] # "openSync"
    BY <2>1 DEF Checked, Executing
  <2>3. mem[i].auto /\ (pc[i] \in Checked \/ Revalidate(i))
    BY <2>1, <2>2, Arrivals
  <2> QED
    BY <1>1, <2>1, <2>3 DEF LateInv, Revalidate
<1> QED
  BY <1>2, <1>3, <1>4, Counting

\* The counters of stray commands.
LEMMA AstrayStep ==
    ASSUME IInv, WInv, [Next]_vars, NEW g \in Generations
    PROVE  AstrayAt(g)'
<1>1. AstrayAt(g) /\ \A i \in Invocations : OwnAt(i)
  BY DEF WInv
<1>2. ASSUME NEW i \in Invocations, Send(i), g = mem[i].claim, g # gen PROVE AstrayAt(g)'
  <2>1. pc[i] = "send" /\ UNCHANGED <<mem, conf, server>>
    BY <1>2, Sending
  <2>2. astray[g] = 0
    BY <1>1, <1>2, <2>1 DEF AstrayAt, Checked
  <2>3. astray'[g] = 1
    BY <1>2, <2>2 DEF Send
  <2>4. g \in booted
    <3>1. mem[i].gen = g
      BY <1>1, <1>2, <2>1 DEF OwnAt, Executing
    <3> QED
      BY <3>1, ClaimAssumption DEF IInv, ProcessInv, GenInv, Claims
  <2>5. \A j \in Invocations : pc'[j] \notin Checked
    BY <1>2, Sending DEF Checked, Working
  <2> QED
    BY <1>2, <2>1, <2>3, <2>4, <2>5 DEF AstrayAt, server
<1>3. CASE astray'[g] = astray[g]
  <2>1. SUFFICES ASSUME astray[g] = 1
                 PROVE  /\ g \in booted' /\ g # gen'
                        /\ \A i \in Invocations : mem'[i].claim = g => pc'[i] \notin Checked
    BY <1>1, <1>3 DEF AstrayAt
  <2>2. g \in booted' /\ g # gen'
    BY <1>1, <2>1, ServersPass DEF AstrayAt
  <2>3. ASSUME NEW i \in Invocations, mem'[i].claim = g, pc'[i] \in Checked PROVE FALSE
    <3>1. pc'[i] \in Executing /\ pc'[i] # "openSync"
      BY <2>3 DEF Checked, Executing
    <3>2. /\ pc[i] \in Executing /\ mem[i].claim = g
          /\ pc[i] \in Checked \/ Revalidate(i)
      BY <2>3, <3>1, Arrivals
    <3>3. mem[i].gen = g
      BY <1>1, <3>2 DEF OwnAt
    <3> QED
      BY <1>1, <2>1, <3>2, <3>3 DEF AstrayAt, Revalidate
  <2> QED
    BY <2>2, <2>3
<1>4. \/ astray'[g] = astray[g]
      \/ \E i \in Invocations : Send(i) /\ g = mem[i].claim /\ g # gen
  BY Counting DEF watch, Send
<1> QED
  BY <1>2, <1>3, <1>4

-----------------------------------------------------------------------------
(* The theorems *)

\* Every step keeps the invariant of the counters, beside that of the restore.
LEMMA WatchNextInv == IInv /\ WInv /\ [Next]_vars => WInv'
<1> SUFFICES ASSUME IInv, WInv, [Next]_vars PROVE WInv'
  OBVIOUS
<1>1. LateInv' /\ \A g \in Generations : AstrayAt(g)'
  BY LateStep, AstrayStep
<1>2. astray' = astray \/ astray' = [g \in Generations |-> astray'[g]]
  BY Counting DEF watch, Send
<1>3. astray' \in [Generations -> {0, 1}]
  BY <1>1, <1>2 DEF AstrayAt, WInv
<1>4. \A i \in Invocations : OwnAt(i)'
  BY OwnStep DEF WInv
<1> QED
  BY <1>1, <1>3, <1>4 DEF WInv

\* In every reachable state the invariant of the counters holds.
THEOREM WatchInvariance == Spec => [](IInv /\ WInv)
<1>1. Init => IInv /\ WInv
  <2>1. Init => WInv
    BY DEF Init, WInv, OwnAt, LateInv, AstrayAt, Executing, Checked
  <2> QED
    BY <2>1, InitInv
<1>2. IInv /\ WInv /\ [Next]_vars => (IInv /\ WInv)'
  BY WatchNextInv, NextInv
<1> QED
  BY <1>1, <1>2, PTL DEF Spec

\* At most one more pane gets its command after auto_restore was switched off, for any
\* number of panes and any edits (app::restore reads the configuration for each pane).
THEOREM SwitchedOff == Spec => []StopsWhenSwitchedOff
<1>1. WInv => StopsWhenSwitchedOff
  BY DEF WInv, LateInv, StopsWhenSwitchedOff
<1> QED
  BY <1>1, WatchInvariance, PTL

\* At most one command of a boot's restore reaches a later server, for any number of
\* panes and restarts (app::restore checks the generation twice for each pane).
THEOREM ServerGone == Spec => []StopsWithItsServer
<1>1. WInv => StopsWithItsServer
  BY DEF WInv, AstrayAt, StopsWithItsServer
<1> QED
  BY <1>1, WatchInvariance, PTL
=============================================================================
