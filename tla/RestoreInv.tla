----------------------------- MODULE RestoreInv -----------------------------
(***************************************************************************)
(* The inductive invariant from which Restore's safety follows.            *)
(***************************************************************************)
EXTENDS Restore

\* Points at which a journal is open under mem[i].claim.
Executing == {"openSync", "next", "markSync", "revalidate", "probe", "send",
              "await", "recordSync", "failSync"}
AtPane == {"markSync", "revalidate", "probe", "send", "await"}
Unsent == {"markSync", "revalidate", "probe", "send"}
Durable == {"next", "revalidate", "probe", "send", "await"}
Between == {"openSync", "next", "recordSync"}

\* Points that only a process with no automatic restore reaches, and points before
\* a claim is chosen.
Manual == {"idle", "start", "waiting", "dispatch", "acknowledge", "save", "capture"}
Unclaimed == {"start", "waiting", "dispatch", "begin", "settle"}

\* The processes at work are the holder of the lock.
LockInv == \A i \in Invocations : pc[i] \in Working <=> lock = i

\* A generation is known before it is read, and used after it is read.
GenInv ==
    /\ gen \in booted
    /\ \A i \in Invocations : mem[i].gen \in booted \union {None}
    /\ \A g \in Generations : opened[g] > 0 => g \in booted

\* A generation that was claimed has evidence, or nobody can claim it any more.
ClaimedInv ==
    \A g \in Generations : opened[g] > 0 =>
        \/ boots[g].now # NoFile
        \/ pending.now # NoFile /\ pending.now.claim = g
        \/ g # gen /\ \A i \in Invocations : mem[i].gen # g

\* What a process knows before its restore claims, and what it claims by itself.
AutoAt(i) ==
    /\ pc[i] \in {"start", "waiting"} => mem[i].kind \in AllKinds
    /\ pc[i] \in Manual => ~mem[i].auto
    /\ pc[i] \in Unclaimed => mem[i].claim = None
    /\ pc[i] = "settle" =>
         /\ mem[i].gen \in Generations
         /\ mem[i].auto => boots[mem[i].gen].now = NoFile
    /\ mem[i].auto /\ mem[i].claim # None => mem[i].claim = mem[i].gen

AutoInv == \A i \in Invocations : AutoAt(i)

\* Boot records are never removed, and each is about its own claim.
FileInv ==
    \A c \in Claims :
        /\ boots[c].now = NoFile => boots[c].after = {NoFile}
        /\ \A v \in boots[c].after : v # NoFile => v.claim = c

\* A request under way was sent once and not received.
WireInv ==
    \A c \in Claims, p \in Panes : <<c, p>> \in wire => sent[c][p] = 1 /\ got[c][p] = 0

\* Panes are tried in order: behind one that is not settled, nothing was tried.
OrderInv ==
    \A c \in Claims : \A v \in Versions(c) : \A p, q \in Panes :
        p < q /\ v.entries[p] \in {"pending", "sending", "failed"}
            => v.entries[q] \in {"pending", "skipped"}

\* A claim with a command sent has its record in every surviving version of one file.
RecordInv ==
    \A c \in Claims, p \in Panes : sent[c][p] > 0 =>
        \/ \A v \in pending.after : v # NoFile /\ v.claim = c
        \/ NoFile \notin boots[c].after

\* The journal of a running restore.
ExecAt(i) ==
    /\ pc[i] \in Executing =>
         /\ mem[i].claim \in Claims
         /\ pending.now # NoFile /\ pending.now.claim = mem[i].claim
         /\ boots[mem[i].claim] = Stored(NoFile)
    /\ pc[i] \in Durable => pending.after = {pending.now}
    /\ pc[i] \in AtPane =>
         mem[i].pane \in Panes /\ pending.now.entries[mem[i].pane] = "sending"
    /\ pc[i] \in Unsent => sent[mem[i].claim][mem[i].pane] = 0
    /\ pc[i] \in Between =>
         \A p \in Panes : pending.now.entries[p] \in {"pending", "applied", "skipped"}

ExecInv == \A i \in Invocations : ExecAt(i)

\* The record that replaces the journal.
FinishAt(i) ==
    /\ pc[i] = "bootSync" =>
         /\ mem[i].claim \in Claims
         /\ boots[mem[i].claim].now # NoFile
         /\ pending.now # NoFile => pending.now.claim = mem[i].claim
    /\ pc[i] = "remove" =>
         /\ mem[i].claim \in Claims
         /\ NoFile \notin boots[mem[i].claim].after
         /\ pending.now # NoFile /\ pending.now.claim = mem[i].claim

FinishInv == \A i \in Invocations : FinishAt(i)

ProcessInv == LockInv /\ GenInv /\ AutoInv /\ ExecInv /\ FinishInv
EvidenceInv == FileInv /\ WireInv /\ AtMostOnce /\ JournalTruthful /\ OrderInv /\ RecordInv
OpenedInv == \A c \in Claims : opened[c] <= 1
ClaimInv == ClaimedInv /\ OpenedInv

\* The inductive invariant: every reachable state satisfies it, every step from a
\* state that satisfies it keeps it, and the safety properties follow from it.
IInv == TypeOK /\ ProcessInv /\ EvidenceInv /\ ClaimInv

-----------------------------------------------------------------------------
(* What the steps of a restore, rather than its states, rest on *)

\* A journal that a power cut may bring back is of the open claim, or of a claim that
\* has its record.
KeptInv ==
    \A v \in pending.after \ {NoFile} :
        \/ pending.now # NoFile /\ v.claim = pending.now.claim
        \/ boots[v.claim].now # NoFile

\* A save goes on only while there is no evidence, a reconstruction with its own.
BlockInv ==
    \A i \in Invocations :
        /\ pc[i] = "capture" => Clear
        /\ pc[i] = "rebuilding" => rebuilding

\* The record has the outcomes of the journal it replaces, and is durable before the
\* journal goes.
ArchivedInv ==
    \A i \in Invocations :
        /\ pc[i] \in {"bootSync", "remove"} /\ pending.now # NoFile =>
             boots[mem[i].claim].now.entries = pending.now.entries
        /\ pc[i] = "remove" => boots[mem[i].claim].after = {boots[mem[i].claim].now}

\* A journal that a power cut may bring back is behind by one step at most.
BehindInv ==
    \A c \in Claims : \A v \in PendingVersions(c) : \A p \in Panes :
        \/ v.entries[p] = OutcomeOf(c, p)
        \/ v.entries[p] = "pending" /\ OutcomeOf(c, p) = "sending"
        \/ v.entries[p] = "sending" /\ OutcomeOf(c, p) \in {"applied", "skipped", "failed"}

\* Where a power cut may leave the record of a claim alone, it has its outcomes.
AloneInv ==
    \A c \in Claims : ~OnlyJournalOf(c) =>
        \A v \in boots[c].after \ {NoFile} : \A p \in Panes : v.entries[p] = OutcomeOf(c, p)

\* Inductive as well, on top of IInv.
StepInv == KeptInv /\ BlockInv /\ ArchivedInv /\ BehindInv /\ AloneInv
=============================================================================
