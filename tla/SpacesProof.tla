---------------------------- MODULE SpacesProof ----------------------------
(***************************************************************************)
(* Proofs about the library of named spaces, for any number of sessions,   *)
(* processes, names and panes.  Whoever works on the library has the lock  *)
(* of its session and that of the library; what it relies on is changed by *)
(* nobody else, and what it writes was validated.                          *)
(***************************************************************************)
EXTENDS Spaces, FiniteSetTheorems, TLAPS

\* Where a process has the lock of its session, and that of the library as well.
InLibrary == {"begin", "look", "export", "write", "writeSync", "remove", "removeSync", "opening"}
InSession == InLibrary \union {"library", "acknowledge"}
Changing == {"look", "export", "write", "remove"}

\* StoredAsSeen of one content.
Seen(c) ==
    c # NoFile /\ c.to # <<>> =>
        /\ \A t \in DOMAIN c.leaves : c.leaves[t] = {p \in Images(c.to) : c.at[p] = t}
        /\ Images(c.to) = UNION Images(c.leaves)
        /\ Cardinality(Images(c.to)) = Cardinality(DOMAIN c.to)
        /\ \A p, q \in Images(c.to) : SpaceOf[c.at[p]] = SpaceOf[c.at[q]]

\* The variables are functions and records, of whatever contents.
LocalShape ==
    /\ pc \in [Invocations -> Labels]
    /\ mem = [i \in Invocations |-> [op |-> mem[i].op, session |-> mem[i].session,
                                     name |-> mem[i].name, content |-> mem[i].content]]
    /\ lock \in [Sessions -> Invocations \union {None}]

FileShape ==
    /\ evidence \in [Sessions -> BOOLEAN]
    /\ told = [n \in Names |-> told[n]]
    /\ files = [n \in Names |-> [now |-> files[n].now, after |-> files[n].after]]
    /\ \A n \in Names : files[n].now \in files[n].after

\* The locks a process has, and what they keep true for it.
HolderAt(i) ==
    /\ pc[i] # "idle" => mem[i].op \in Ops /\ mem[i].session \in Sessions /\ mem[i].name \in Names
    /\ pc[i] \in InLibrary \union {"library"} => mem[i].op # "acknowledge"
    /\ pc[i] \in InSession => lock[mem[i].session] = i
    /\ pc[i] \in InLibrary => library = i
    /\ pc[i] \in Changing => ~evidence[mem[i].session]

\* What it writes, and what it has written.
ContentAt(i) ==
    /\ pc[i] = "export" => IsFiniteSet(DOMAIN mem[i].content.to)
    /\ pc[i] = "write" => Seen(mem[i].content)
    /\ pc[i] = "writeSync" => files[mem[i].name].now = mem[i].content /\ told[mem[i].name] = None
    /\ pc[i] = "removeSync" => files[mem[i].name].now = NoFile /\ told[mem[i].name] = None

SeenInv == \A n \in Names : \A c \in files[n].after : Seen(c)

SInv ==
    /\ LocalShape /\ FileShape
    /\ \A i \in Invocations : HolderAt(i) /\ ContentAt(i)
    /\ SeenInv /\ ReportsLast

-----------------------------------------------------------------------------
(* One process at a time *)

\* The step of a process leaves every other process and its locks alone.
Others(i) ==
    \A j \in Invocations \ {i} :
        /\ pc'[j] = pc[j] /\ mem'[j] = mem[j]
        /\ \A s \in Sessions : lock[s] = j => lock'[s] = j
        /\ library = j => library' = j

\* A process changes evidence of its own session and files of the library it holds; no
\* other process relies on them.
LEMMA OthersKept ==
    ASSUME SInv, NEW i \in Invocations, Others(i),
           \/ UNCHANGED evidence
           \/ /\ pc[i] \in InSession
              /\ \E b \in BOOLEAN : evidence' = [evidence EXCEPT ![mem[i].session] = b],
           UNCHANGED <<files, told>> \/ pc[i] \in InLibrary,
           NEW j \in Invocations \ {i}
    PROVE  HolderAt(j)' /\ ContentAt(j)'
<1>1. HolderAt(i) /\ HolderAt(j) /\ ContentAt(j) /\ FileShape
  BY DEF SInv
<1>2. pc'[j] = pc[j] /\ mem'[j] = mem[j] /\ Labels \ {"idle", "start"} = InSession
  BY DEF Others, Labels, InSession, InLibrary
<1>3. pc[j] \in InSession => pc[j] # "idle" /\ lock'[mem[j].session] = j
  BY <1>1 DEF Others, HolderAt, InSession, InLibrary
<1>4. pc[j] \in InLibrary => library' = j
  BY <1>1 DEF Others, HolderAt
<1>5. ASSUME pc[j] \in Changing PROVE ~evidence'[mem[j].session]
  <2>1. /\ ~evidence[mem[j].session] /\ mem[j].session \in Sessions
        /\ lock[mem[j].session] = j
    BY <1>1, <1>5 DEF HolderAt, Changing, InSession, InLibrary
  <2>2. pc[i] \in InSession => lock[mem[i].session] = i /\ mem[i].session \in Sessions
    BY <1>1 DEF HolderAt, InSession, InLibrary
  <2> QED
    BY <1>1, <2>1, <2>2 DEF FileShape
<1>6. HolderAt(j)'
  BY <1>1, <1>2, <1>3, <1>4, <1>5 DEF HolderAt
<1>7. ContentAt(j)'
  <2>1. CASE pc[j] \in {"writeSync", "removeSync"}
    <3>1. pc[i] \notin InLibrary
      BY <1>1, <2>1 DEF HolderAt, InLibrary
    <3> QED
      BY <1>1, <1>2, <3>1 DEF ContentAt
  <2>2. CASE pc[j] \notin {"writeSync", "removeSync"}
    BY <1>1, <1>2, <2>2 DEF ContentAt
  <2> QED
    BY <2>1, <2>2
<1> QED
  BY <1>6, <1>7

\* An exit releases the locks of the process and keeps those of the others.
LEMMA Exits ==
    ASSUME SInv, NEW i \in Invocations, Exit(i)
    PROVE  LocalShape' /\ Others(i) /\ pc'[i] = "idle"
<1>1. LocalShape
  BY DEF SInv
<1>2. pc'[i] = "idle" /\ pc' \in [Invocations -> Labels]
  BY <1>1 DEF Exit, LocalShape, Labels
<1>3. lock' \in [Sessions -> Invocations \union {None}]
  BY <1>1 DEF Exit, LocalShape
<1>4. mem'[i] = Blank /\ \A j \in Invocations \ {i} : mem'[j] = mem[j] /\ pc'[j] = pc[j]
  BY <1>1 DEF Exit, LocalShape
<1>5. mem' = [j \in Invocations |-> IF j = i THEN Blank ELSE mem[j]]
  BY <1>1 DEF Exit, LocalShape
<1>6. \A j \in Invocations : mem'[j] = [op |-> mem'[j].op, session |-> mem'[j].session,
                                        name |-> mem'[j].name, content |-> mem'[j].content]
  BY <1>1, <1>4 DEF Blank, LocalShape
<1>7. LocalShape'
  BY <1>2, <1>3, <1>5, <1>6 DEF LocalShape
<1> QED
  BY <1>2, <1>4, <1>7 DEF Others, Exit

\* A process that goes on, with new content or not, keeps its locks.
LEMMA Moves ==
    ASSUME SInv, NEW i \in Invocations, NEW l \in Labels, pc' = [pc EXCEPT ![i] = l],
           UNCHANGED mem \/ \E c : mem' = [mem EXCEPT ![i].content = c],
           UNCHANGED <<lock, library>>
    PROVE  /\ LocalShape' /\ Others(i) /\ pc'[i] = l
           /\ mem'[i].op = mem[i].op /\ mem'[i].session = mem[i].session
           /\ mem'[i].name = mem[i].name
<1>1. LocalShape
  BY DEF SInv
<1>2. pc'[i] = l /\ pc' \in [Invocations -> Labels]
  BY <1>1 DEF LocalShape
<1>3. CASE UNCHANGED mem
  BY <1>1, <1>2, <1>3 DEF LocalShape, Others
<1>4. ASSUME NEW c, mem' = [mem EXCEPT ![i].content = c]
      PROVE  /\ LocalShape' /\ \A j \in Invocations \ {i} : mem'[j] = mem[j]
             /\ mem'[i].op = mem[i].op /\ mem'[i].session = mem[i].session
             /\ mem'[i].name = mem[i].name
  <2>1. mem' = [j \in Invocations |-> IF j = i THEN [mem[i] EXCEPT !.content = c] ELSE mem[j]]
    BY <1>1, <1>4 DEF LocalShape
  <2>2. mem[i] = [op |-> mem[i].op, session |-> mem[i].session,
                  name |-> mem[i].name, content |-> mem[i].content]
    BY <1>1 DEF LocalShape
  <2>3. [mem[i] EXCEPT !.content = c] = [op |-> mem[i].op, session |-> mem[i].session,
                                         name |-> mem[i].name, content |-> c]
    BY <2>2
  <2>4. \A j \in Invocations : mem'[j] = [op |-> mem'[j].op, session |-> mem'[j].session,
                                          name |-> mem'[j].name, content |-> mem'[j].content]
    BY <1>1, <2>1, <2>3 DEF LocalShape
  <2> QED
    BY <1>1, <1>2, <2>1, <2>3, <2>4 DEF LocalShape
<1> QED
  BY <1>1, <1>2, <1>3, <1>4 DEF LocalShape, Others

\* The invariant holds after a step if it holds for the process that took it.
LEMMA Together ==
    ASSUME SInv, NEW i \in Invocations, Others(i), LocalShape', FileShape',
           HolderAt(i)', ContentAt(i)', SeenInv', ReportsLast',
           \/ UNCHANGED evidence
           \/ /\ pc[i] \in InSession
              /\ \E b \in BOOLEAN : evidence' = [evidence EXCEPT ![mem[i].session] = b],
           UNCHANGED <<files, told>> \/ pc[i] \in InLibrary
    PROVE  SInv'
BY OthersKept DEF SInv

\* What a step that leaves the files alone keeps of them.
LEMMA FilesAlone ==
    ASSUME SInv, UNCHANGED <<files, told>>, evidence' \in [Sessions -> BOOLEAN]
    PROVE  FileShape' /\ SeenInv' /\ ReportsLast'
BY DEF SInv, FileShape, SeenInv, ReportsLast

\* A process that has ended holds nothing.
LEMMA Ended == ASSUME NEW i, pc'[i] = "idle" PROVE HolderAt(i)' /\ ContentAt(i)'
BY DEF HolderAt, ContentAt, InLibrary, InSession, Changing

-----------------------------------------------------------------------------
(* The steps *)

\* Exits that change no file: failures, the end of a reconstruction, an acknowledgement.
LEMMA ExitSteps ==
    ASSUME SInv, NEW i \in Invocations, Fail(i) \/ Opened(i) \/ Acknowledge(i)
    PROVE  SInv'
<1>1. Exit(i) /\ UNCHANGED <<files, told>>
  BY DEF Fail, Opened, Acknowledge, Quiet
<1>2. \/ UNCHANGED evidence
      \/ /\ pc[i] \in InSession
         /\ \E b \in BOOLEAN : evidence' = [evidence EXCEPT ![mem[i].session] = b]
  BY DEF Fail, Opened, Acknowledge, Quiet, InSession, InLibrary
<1>3. evidence' \in [Sessions -> BOOLEAN]
  BY <1>2 DEF SInv, FileShape
<1> QED
  BY <1>1, <1>2, <1>3, Exits, Ended, FilesAlone, Together

\* A process is started, and locks what is free.
LEMMA StartSteps ==
    ASSUME SInv, NEW i \in Invocations,
           \/ \E o \in Ops, s \in Sessions, n \in Names : Start(i, o, s, n)
           \/ TakeSession(i) \/ TakeLibrary(i)
    PROVE  SInv'
<1>1. Quiet /\ HolderAt(i) /\ LocalShape /\ evidence \in [Sessions -> BOOLEAN]
  BY DEF Start, TakeSession, TakeLibrary, SInv, FileShape
<1>2. FileShape' /\ SeenInv' /\ ReportsLast'
  BY <1>1, FilesAlone DEF Quiet
<1>3. CASE \E o \in Ops, s \in Sessions, n \in Names : Start(i, o, s, n)
  <2>1. PICK o \in Ops, s \in Sessions, n \in Names : Start(i, o, s, n)
    BY <1>3
  <2> DEFINE m == [op |-> o, session |-> s, name |-> n, content |-> None]
  <2>2. mem' = [j \in Invocations |-> IF j = i THEN m ELSE mem[j]]
    <3>1. mem' = [mem EXCEPT ![i] = m]
      BY <2>1 DEF Start
    <3> HIDE DEF m
    <3> QED
      BY <1>1, <3>1 DEF LocalShape
  <2>3. /\ pc' \in [Invocations -> Labels] /\ pc'[i] = "start"
        /\ \A j \in Invocations \ {i} : pc'[j] = pc[j]
        /\ UNCHANGED <<lock, library>>
    BY <1>1, <2>1 DEF Start, LocalShape, Labels
  <2>4. \A j \in Invocations : mem'[j] = [op |-> mem'[j].op, session |-> mem'[j].session,
                                          name |-> mem'[j].name, content |-> mem'[j].content]
    BY <1>1, <2>2 DEF LocalShape
  <2>5. LocalShape' /\ Others(i)
    BY <1>1, <2>2, <2>3, <2>4 DEF LocalShape, Others
  <2>6. HolderAt(i)' /\ ContentAt(i)'
    BY <2>2, <2>3 DEF HolderAt, ContentAt, InLibrary, InSession, Changing
  <2> QED
    BY <1>1, <1>2, <2>5, <2>6, Together DEF Quiet
<1>4. CASE TakeSession(i)
  <2>1. PICK l \in {"acknowledge", "library"} :
          pc' = [pc EXCEPT ![i] = l] /\ (l = "acknowledge" <=> mem[i].op = "acknowledge")
    BY <1>4 DEF TakeSession
  <2>2. /\ UNCHANGED <<mem, library>> /\ lock[mem[i].session] = None
        /\ lock' = [lock EXCEPT ![mem[i].session] = i]
        /\ mem[i].op \in Ops /\ mem[i].session \in Sessions /\ mem[i].name \in Names
    BY <1>1, <1>4 DEF TakeSession, HolderAt
  <2>3. LocalShape' /\ Others(i) /\ pc'[i] = l /\ lock'[mem[i].session] = i
    BY <1>1, <2>1, <2>2, ProcessAssumption DEF LocalShape, Others, Labels
  <2>4. HolderAt(i)' /\ ContentAt(i)'
    BY <2>1, <2>2, <2>3 DEF HolderAt, ContentAt, InLibrary, InSession, Changing
  <2> QED
    BY <1>1, <1>2, <2>3, <2>4, Together DEF Quiet
<1>5. CASE TakeLibrary(i)
  <2>1. /\ pc[i] = "library" /\ library = None /\ library' = i
        /\ pc' = [pc EXCEPT ![i] = "begin"] /\ UNCHANGED <<mem, lock>>
    BY <1>5 DEF TakeLibrary
  <2>2. LocalShape' /\ Others(i) /\ pc'[i] = "begin"
    BY <1>1, <2>1, ProcessAssumption DEF LocalShape, Others, Labels
  <2>3. HolderAt(i)' /\ ContentAt(i)'
    BY <1>1, <2>1, <2>2 DEF HolderAt, ContentAt, InLibrary, InSession, Changing
  <2> QED
    BY <1>1, <1>2, <2>2, <2>3, Together DEF Quiet
<1> QED
  BY <1>3, <1>4, <1>5

\* A change begins only without evidence.
LEMMA BeginStep ==
    ASSUME SInv, NEW i \in Invocations, Begin(i)
    PROVE  SInv'
<1>1. HolderAt(i) /\ evidence \in [Sessions -> BOOLEAN]
  BY DEF SInv, FileShape
<1>2. mem[i].op \in {"save", "import", "delete", "open"}
  BY <1>1 DEF HolderAt, Begin, InLibrary, Ops
<1>3. PICK l \in {"look", "remove", "opening"} :
        /\ Goto(i, l) /\ ~evidence[mem[i].session]
        /\ l # "opening" => UNCHANGED evidence
        /\ l = "opening" => evidence' = [evidence EXCEPT ![mem[i].session] = TRUE]
  BY <1>2 DEF Begin
<1>4. pc[i] = "begin" /\ UNCHANGED <<files, told>>
  BY DEF Begin
<1>5. /\ LocalShape' /\ Others(i) /\ pc'[i] = l /\ UNCHANGED <<mem, lock, library>>
  BY <1>3, Moves DEF Goto, Labels
<1>6. evidence' \in [Sessions -> BOOLEAN]
  BY <1>1, <1>3
<1>7. HolderAt(i)' /\ ContentAt(i)'
  BY <1>1, <1>3, <1>4, <1>5 DEF HolderAt, ContentAt, InLibrary, InSession, Changing
<1>8. FileShape' /\ SeenInv' /\ ReportsLast'
  BY <1>4, <1>6, FilesAlone
<1>9. \/ UNCHANGED evidence
      \/ /\ pc[i] \in InSession
         /\ \E b \in BOOLEAN : evidence' = [evidence EXCEPT ![mem[i].session] = b]
  BY <1>3, <1>4 DEF InSession, InLibrary
<1> QED
  BY <1>4, <1>5, <1>7, <1>8, <1>9, Together

\* What was validated is as it was seen.
LEMMA ValidSeen ==
    ASSUME NEW space, NEW to, NEW at, NEW leaves, Valid(space, to, at, leaves),
           IsFiniteSet(DOMAIN to), NEW c, c.to = to, c.at = at, c.leaves = leaves
    PROVE  Seen(c)
<1>1. /\ \A a, b \in DOMAIN to : to[a] = to[b] => a = b
      /\ \A p \in Images(to) : SpaceOf[at[p]] = space
      /\ \A t \in DOMAIN leaves : \A p \in leaves[t] : p \in Images(to) /\ at[p] = t
      /\ \A p \in Images(to) : \E t \in DOMAIN leaves : p \in leaves[t]
  BY DEF Valid, Images
<1>2. ASSUME NEW t \in DOMAIN leaves PROVE leaves[t] = {p \in Images(to) : at[p] = t}
  BY <1>1
<1>3. Images(to) = UNION Images(leaves)
  BY <1>1 DEF Images
<1>4. Cardinality(Images(to)) = Cardinality(DOMAIN to)
  <2> DEFINE f == [x \in DOMAIN to |-> to[x]]
  <2>1. f \in [DOMAIN to -> Images(to)]
    BY DEF Images
  <2>2. f \in Bijection(DOMAIN to, Images(to))
    BY <1>1, <2>1 DEF Bijection, Injection, Surjection, IsInjective, Images
  <2> QED
    BY <2>2, FS_Bijection DEF ExistsBijection
<1> QED
  BY <1>1, <1>2, <1>3, <1>4 DEF Seen

\* The views are read, and the layouts exported.
LEMMA ContentSteps ==
    ASSUME SInv, NEW i \in Invocations,
           SaveLook(i) \/ ImportLook(i) \/ ImportPlain(i) \/ Export(i)
    PROVE  SInv'
<1>1. /\ Quiet /\ UNCHANGED <<lock, library>> /\ pc[i] \in {"look", "export"}
      /\ HolderAt(i) /\ ContentAt(i) /\ LocalShape /\ evidence \in [Sessions -> BOOLEAN]
  BY DEF SaveLook, ImportLook, ImportPlain, Export, Looked, Ready, SInv, FileShape
<1>2. PICK l \in {"export", "write"} : \E c :
        /\ pc' = [pc EXCEPT ![i] = l]
        /\ mem' = [mem EXCEPT ![i].content = c]
        /\ l = "export" => IsFiniteSet(DOMAIN c.to)
        /\ l = "write" => Seen(c)
  <2>1. ASSUME NEW to, NEW space, NEW live, Looked(i, to, space, live), IsFiniteSet(DOMAIN to)
        PROVE  \E c : /\ pc' = [pc EXCEPT ![i] = "export"]
                      /\ mem' = [mem EXCEPT ![i].content = c] /\ IsFiniteSet(DOMAIN c.to)
    <3> DEFINE c == [to |-> to, space |-> space, at |-> [p \in Images(to) |-> live[p]],
                     tabs |-> {t \in Tabs : SpaceOf[t] = space /\ \E p \in Panes : live[p] = t}]
    <3>1. pc' = [pc EXCEPT ![i] = "export"] /\ mem' = [mem EXCEPT ![i].content = c]
      BY <2>1 DEF Looked
    <3>2. c.to = to
      OBVIOUS
    <3> HIDE DEF c
    <3> QED
      BY <2>1, <3>1, <3>2
  <2>2. CASE SaveLook(i)
    <3>1. PICK live \in Placements, space \in Images(SpaceOf) :
            Looked(i, [p \in {q \in Panes : live[q] # None /\ SpaceOf[live[q]] = space} |-> p],
                   space, live)
      BY <2>2 DEF SaveLook
    <3> DEFINE panes == {q \in Panes : live[q] # None /\ SpaceOf[live[q]] = space}
               to == [p \in panes |-> p]
    <3>2. IsFiniteSet(panes) /\ DOMAIN to = panes
      BY SpaceAssumption, FS_Subset
    <3>3. Looked(i, to, space, live) /\ IsFiniteSet(DOMAIN to)
      BY <3>1, <3>2
    <3> HIDE DEF panes, to
    <3> QED
      BY <2>1, <3>3
  <2>3. CASE ImportLook(i)
    <3>1. PICK maps \in Mappings, live \in Placements :
            Looked(i, [s \in Sources |-> maps[CHOOSE k \in DOMAIN maps : maps[k].source = s].pane],
                   SpaceOf[maps[1].tab], live)
      BY <2>3 DEF ImportLook
    <3> DEFINE to == [s \in Sources |-> maps[CHOOSE k \in DOMAIN maps : maps[k].source = s].pane]
    <3>2. Looked(i, to, SpaceOf[maps[1].tab], live) /\ IsFiniteSet(DOMAIN to)
      BY <3>1, SpaceAssumption
    <3> HIDE DEF to
    <3> QED
      BY <2>1, <3>2
  <2>4. CASE ImportPlain(i)
    <3> DEFINE c == Plain(mem[i].session)
    <3>1. Seen(c)
      BY DEF Seen, Plain
    <3>2. pc' = [pc EXCEPT ![i] = "write"] /\ mem' = [mem EXCEPT ![i].content = c]
      BY <2>4 DEF ImportPlain, Ready
    <3> HIDE DEF c
    <3> QED
      BY <3>1, <3>2
  <2>5. CASE Export(i)
    <3> DEFINE v == mem[i].content
    <3>1. PICK leaves : /\ Valid(v.space, v.to, v.at, leaves)
                        /\ Ready(i, [by |-> None, to |-> v.to, at |-> v.at, leaves |-> leaves])
      BY <2>5 DEF Export
    <3>2. IsFiniteSet(DOMAIN v.to)
      BY <1>1, <2>5 DEF Export, ContentAt
    <3> DEFINE c == [by |-> None, to |-> v.to, at |-> v.at, leaves |-> leaves]
    <3>3. Seen(c)
      BY <3>1, <3>2, ValidSeen
    <3>4. pc' = [pc EXCEPT ![i] = "write"] /\ mem' = [mem EXCEPT ![i].content = c]
      BY <3>1 DEF Ready
    <3> HIDE DEF c
    <3> QED
      BY <3>3, <3>4
  <2> QED
    BY <2>2, <2>3, <2>4, <2>5
<1>3. PICK c :
        /\ pc' = [pc EXCEPT ![i] = l]
        /\ mem' = [mem EXCEPT ![i].content = c]
        /\ l = "export" => IsFiniteSet(DOMAIN c.to)
        /\ l = "write" => Seen(c)
  BY <1>2
<1>4. /\ LocalShape' /\ Others(i) /\ pc'[i] = l
      /\ mem'[i].op = mem[i].op /\ mem'[i].session = mem[i].session /\ mem'[i].name = mem[i].name
  BY <1>1, <1>3, Moves DEF Labels
<1>5. mem'[i].content = c
  BY <1>1, <1>3 DEF LocalShape
<1>6. HolderAt(i)' /\ ContentAt(i)'
  BY <1>1, <1>3, <1>4, <1>5 DEF HolderAt, ContentAt, InLibrary, InSession, Changing, Quiet
<1> QED
  BY <1>1, <1>4, <1>6, FilesAlone, Together DEF Quiet

\* A write and a removal change the named file, the syncs that follow report it.
LEMMA WriteSteps ==
    ASSUME SInv, NEW i \in Invocations,
           Write(i) \/ WriteSync(i) \/ Remove(i) \/ RemoveSync(i)
    PROVE  SInv'
<1> DEFINE n == mem[i].name
<1>1. /\ HolderAt(i) /\ ContentAt(i) /\ LocalShape /\ FileShape /\ SeenInv /\ ReportsLast
  BY DEF SInv
<1>2. /\ pc[i] \in InLibrary /\ pc[i] # "idle" /\ UNCHANGED evidence
  BY DEF Write, WriteSync, Remove, RemoveSync, InLibrary
<1>3. n \in Names
  BY <1>1, <1>2 DEF HolderAt
<1>4. ASSUME NEW f, NEW v, files' = [files EXCEPT ![n] = f], told' = [told EXCEPT ![n] = v],
             f = [now |-> f.now, after |-> f.after], f.now \in f.after,
             \A c \in f.after : Seen(c), v = None \/ f = Stored(v)
      PROVE  /\ FileShape' /\ SeenInv' /\ ReportsLast'
             /\ files'[n] = f /\ told'[n] = v
  <2>1. files'[n] = f /\ told'[n] = v
    BY <1>1, <1>3, <1>4 DEF FileShape
  <2>2. \A m \in Names \ {n} : files'[m] = files[m] /\ told'[m] = told[m]
    BY <1>1, <1>3, <1>4 DEF FileShape
  <2>3. /\ files' = [m \in Names |-> files'[m]] /\ told' = [m \in Names |-> told'[m]]
    BY <1>1, <1>3, <1>4 DEF FileShape
  <2>4. \A m \in Names : /\ files'[m] = [now |-> files'[m].now, after |-> files'[m].after]
                        /\ files'[m].now \in files'[m].after
    BY <1>1, <1>4, <2>1, <2>2 DEF FileShape
  <2> HIDE DEF n
  <2>5. FileShape'
    BY <1>1, <1>2, <2>3, <2>4 DEF FileShape
  <2>6. SeenInv'
    BY <1>1, <1>4, <2>1, <2>2 DEF SeenInv
  <2>7. ReportsLast'
    BY <1>1, <1>4, <2>1, <2>2 DEF ReportsLast
  <2> QED
    BY <2>1, <2>5, <2>6, <2>7
<1>5. CASE Write(i)
  <2> DEFINE f == Renamed(files[n], mem[i].content)
  <2>1. /\ files' = [files EXCEPT ![n] = f] /\ told' = [told EXCEPT ![n] = None]
        /\ Goto(i, "writeSync") /\ Seen(mem[i].content)
    BY <1>1, <1>5 DEF Write, ContentAt
  <2>2. /\ f = [now |-> f.now, after |-> f.after] /\ f.now \in f.after
        /\ f.now = mem[i].content /\ \A c \in f.after : Seen(c)
    BY <1>1, <1>3, <2>1 DEF Renamed, SeenInv
  <2> HIDE DEF f
  <2>3. /\ FileShape' /\ SeenInv' /\ ReportsLast' /\ files'[n] = f /\ told'[n] = None
    BY <1>4, <2>1, <2>2
  <2>4. LocalShape' /\ Others(i) /\ pc'[i] = "writeSync" /\ UNCHANGED <<mem, lock, library>>
    BY <2>1, Moves DEF Goto, Labels
  <2>5. HolderAt(i)' /\ ContentAt(i)'
    BY <1>1, <1>2, <2>2, <2>3, <2>4 DEF HolderAt, ContentAt, InLibrary, InSession, Changing
  <2> QED
    BY <1>2, <2>3, <2>4, <2>5, Together
<1>6. CASE Remove(i)
  <2> DEFINE f == Renamed(files[n], NoFile)
  <2>1. /\ files' = [files EXCEPT ![n] = f] /\ told' = [told EXCEPT ![n] = None]
        /\ Goto(i, "removeSync")
    BY <1>6 DEF Remove
  <2>2. /\ f = [now |-> f.now, after |-> f.after] /\ f.now \in f.after
        /\ f.now = NoFile /\ \A c \in f.after : Seen(c)
    BY <1>1, <1>3 DEF Renamed, SeenInv, Seen
  <2> HIDE DEF f
  <2>3. /\ FileShape' /\ SeenInv' /\ ReportsLast' /\ files'[n] = f /\ told'[n] = None
    BY <1>4, <2>1, <2>2
  <2>4. LocalShape' /\ Others(i) /\ pc'[i] = "removeSync" /\ UNCHANGED <<mem, lock, library>>
    BY <2>1, Moves DEF Goto, Labels
  <2>5. HolderAt(i)' /\ ContentAt(i)'
    BY <1>1, <1>2, <2>2, <2>3, <2>4 DEF HolderAt, ContentAt, InLibrary, InSession, Changing
  <2> QED
    BY <1>2, <2>3, <2>4, <2>5, Together
<1>7. CASE WriteSync(i) \/ RemoveSync(i)
  <2> DEFINE f == Synced(files[n])
  <2>1. /\ files' = [files EXCEPT ![n] = f] /\ told' = [told EXCEPT ![n] = files[n].now]
        /\ Exit(i)
    BY <1>1, <1>7 DEF WriteSync, RemoveSync, ContentAt
  <2>2. /\ f = [now |-> f.now, after |-> f.after] /\ f.now \in f.after
        /\ f = Stored(files[n].now) /\ \A c \in f.after : Seen(c)
    BY <1>1, <1>3 DEF Synced, Stored, SeenInv, FileShape
  <2> HIDE DEF f
  <2>3. /\ FileShape' /\ SeenInv' /\ ReportsLast'
    BY <1>4, <2>1, <2>2
  <2> QED
    BY <1>2, <2>1, <2>3, Exits, Ended, Together
<1> QED
  BY <1>5, <1>6, <1>7

\* A power cut ends every process, and keeps what was reported.
LEMMA PowerCutStep ==
    ASSUME SInv, PowerCut
    PROVE  SInv'
<1>1. PICK kept \in [Names -> UNION {files[n].after : n \in Names}] :
        /\ \A n \in Names : kept[n] \in files[n].after
        /\ files' = [n \in Names |-> Stored(kept[n])]
  BY DEF PowerCut
<1>2. FileShape /\ SeenInv /\ ReportsLast
  BY DEF SInv
<1>3. LocalShape'
  <2>1. \A i \in Invocations : mem'[i] = Blank /\ pc'[i] = "idle"
    BY DEF PowerCut
  <2>2. \A i \in Invocations :
          mem'[i] = [op |-> mem'[i].op, session |-> mem'[i].session,
                     name |-> mem'[i].name, content |-> mem'[i].content]
    BY <2>1 DEF Blank
  <2> QED
    BY <2>1, <2>2 DEF PowerCut, LocalShape, Labels
<1>4. FileShape'
  BY <1>1, <1>2 DEF FileShape, Stored, PowerCut
<1>5. SeenInv'
  BY <1>1, <1>2 DEF SeenInv, Stored
<1>6. ReportsLast'
  <2>1. ASSUME NEW n \in Names, told[n] # None PROVE kept[n] = told[n]
    <3>1. files[n] = Stored(told[n])
      BY <1>2, <2>1 DEF ReportsLast
    <3>2. kept[n] \in Stored(told[n]).after
      BY <1>1, <3>1
    <3> QED
      BY <3>2 DEF Stored
  <2> QED
    BY <1>1, <2>1 DEF ReportsLast, PowerCut
<1>7. ASSUME NEW i \in Invocations PROVE HolderAt(i)' /\ ContentAt(i)'
  <2>1. pc'[i] = "idle"
    BY DEF PowerCut
  <2> QED
    BY <2>1, Ended
<1> QED
  BY <1>3, <1>4, <1>5, <1>6, <1>7 DEF SInv

-----------------------------------------------------------------------------
\* Every reachable state satisfies the invariant.
LEMMA NextKeeps == SInv /\ [Next]_vars => SInv'
<1> SUFFICES ASSUME SInv, [Next]_vars PROVE SInv'
  OBVIOUS
<1>1. ASSUME NEW i \in Invocations, Step(i) \/ Fail(i) PROVE SInv'
  BY <1>1, StartSteps, BeginStep, WriteSteps, ExitSteps, ContentSteps DEF Step
<1>2. ASSUME NEW i \in Invocations, \E o \in Ops, s \in Sessions, n \in Names : Start(i, o, s, n)
      PROVE  SInv'
  BY <1>2, StartSteps
<1>3. CASE UNCHANGED vars
  BY <1>3 DEF vars, SInv, LocalShape, FileShape, HolderAt, ContentAt, SeenInv, ReportsLast
<1> QED
  BY <1>1, <1>2, <1>3, PowerCutStep DEF Next

\* Whoever works on the library has both locks, and files hold what was validated.
THEOREM SpacesInvariance == Spec => []SInv
<1>1. Init => SInv
  <2> SUFFICES ASSUME Init PROVE SInv
    OBVIOUS
  <2>1. LocalShape /\ FileShape
    BY DEF Init, LocalShape, FileShape, Blank, Stored, Labels
  <2>2. ASSUME NEW i \in Invocations PROVE HolderAt(i) /\ ContentAt(i)
    BY DEF Init, HolderAt, ContentAt, InLibrary, InSession, Changing
  <2>3. SeenInv /\ ReportsLast
    BY DEF Init, SeenInv, ReportsLast, Seen, Stored
  <2> QED
    BY <2>1, <2>2, <2>3 DEF SInv
<1> QED
  BY <1>1, NextKeeps, PTL DEF Spec

\* What a free slot holds, and who may hold the library.
SlotType ==
    /\ \A i \in Invocations : mem[i].op \in Ops \union {None} /\ mem[i].name \in Names \union {None}
    /\ library \in Invocations \union {None}

LEMMA SlotStep == SInv /\ SlotType /\ [Next]_vars => SlotType'
<1> SUFFICES ASSUME SInv, SlotType, [Next]_vars PROVE SlotType'
  OBVIOUS
<1> USE DEF SlotType
<1>1. LocalShape
  BY DEF SInv
<1>2. ASSUME NEW i \in Invocations, Exit(i) PROVE SlotType'
  BY <1>1, <1>2 DEF Exit, Blank, LocalShape
<1>3. ASSUME NEW i \in Invocations, Step(i) \/ Fail(i) PROVE SlotType'
  <2>1. CASE SaveLook(i) \/ ImportLook(i) \/ ImportPlain(i) \/ Export(i)
    <3>1. UNCHANGED library /\ \E c : mem' = [mem EXCEPT ![i].content = c]
      BY <2>1 DEF SaveLook, ImportLook, ImportPlain, Export, Looked, Ready
    <3> QED
      BY <1>1, <3>1 DEF LocalShape
  <2>2. CASE TakeSession(i) \/ TakeLibrary(i) \/ Begin(i) \/ Write(i) \/ Remove(i)
    BY <2>2 DEF TakeSession, TakeLibrary, Begin, Write, Remove, Goto
  <2>3. CASE WriteSync(i) \/ RemoveSync(i) \/ Opened(i) \/ Acknowledge(i) \/ Fail(i)
    BY <1>2, <2>3 DEF WriteSync, RemoveSync, Opened, Acknowledge, Fail
  <2> QED
    BY <1>3, <2>1, <2>2, <2>3 DEF Step
<1>4. ASSUME NEW i \in Invocations, NEW o \in Ops, NEW s \in Sessions, NEW n \in Names,
             Start(i, o, s, n)
      PROVE  SlotType'
  BY <1>1, <1>4 DEF Start, LocalShape
<1>5. CASE PowerCut
  BY <1>5 DEF PowerCut, Blank
<1>6. CASE UNCHANGED vars
  BY <1>6 DEF vars
<1> QED
  BY <1>3, <1>4, <1>5, <1>6 DEF Next

\* Every slot, lock and file has its type, and whoever changes the library holds both
\* locks (app::run, the two locks of a space command).
THEOREM SpaceTypes == Spec => []SpaceTypeOK
<1>1. Init => SlotType
  BY DEF Init, SlotType, Blank
<1>2. SInv /\ SlotType => SpaceTypeOK
  BY DEF SInv, SlotType, SpaceTypeOK, LocalShape, FileShape, HolderAt, InLibrary, InSession
<1> QED
  BY <1>1, <1>2, SlotStep, SpacesInvariance, PTL DEF Spec

\* What a space command reports lasts until the next change of the name, for all
\* sessions and through power cuts (the lock of the library, Store::save, delete).
THEOREM ReportsKept == Spec => []ReportsLast
<1>1. SInv => ReportsLast
  BY DEF SInv
<1> QED
  BY <1>1, SpacesInvariance, PTL

\* Every stored space is the workspace as host.snapshot saw it, however panes moved while
\* the layouts were exported (capture_once, import_space, layout::validate).
THEOREM StoredSpaces == Spec => []StoredAsSeen
<1>1. SInv => StoredAsSeen
  BY DEF SInv, SeenInv, Seen, StoredAsSeen
<1> QED
  BY <1>1, SpacesInvariance, PTL

\* The library is changed by the holder of both locks whose session has no evidence of
\* a reconstruction (app::run, require_clear).
THEOREM ChangesLocked == Spec => ChangedByHolder
<1>1. ASSUME SInv, [Next]_vars, NEW n \in Names, files'[n].now # files[n].now, library' # None
      PROVE  \E s \in Sessions : lock[s] = library /\ ~evidence[s] /\ ~evidence'[s]
  <2>1. ~PowerCut
    BY <1>1 DEF PowerCut
  <2>2. ASSUME NEW i \in Invocations, WriteSync(i) \/ RemoveSync(i) PROVE FALSE
    <3>1. files' = [files EXCEPT ![mem[i].name] = Synced(@)]
      BY <2>2 DEF WriteSync, RemoveSync
    <3>2. FileShape
      BY <1>1 DEF SInv
    <3> QED
      BY <1>1, <3>1, <3>2 DEF FileShape, Synced
  <2>3. PICK i \in Invocations : Write(i) \/ Remove(i)
    BY <1>1, <2>1, <2>2 DEF Next, Step, vars, Start, TakeSession, TakeLibrary, Begin, Opened,
       Acknowledge, SaveLook, ImportLook, ImportPlain, Export, Fail, Quiet
  <2>4. pc[i] \in Changing /\ pc[i] \in InLibrary /\ pc[i] # "idle" /\ UNCHANGED evidence
    BY <2>3 DEF Write, Remove, Changing, InLibrary
  <2>5. HolderAt(i)
    BY <1>1 DEF SInv
  <2> QED
    BY <2>4, <2>5 DEF HolderAt, InSession
<1>2. SInv /\ [Next]_vars =>
        [\A n \in Names : files'[n].now # files[n].now /\ library' # None =>
           \E s \in Sessions : lock[s] = library /\ ~evidence[s] /\ ~evidence'[s]]_vars
  BY <1>1
<1> QED
  BY <1>2, SpacesInvariance, PTL DEF Spec, ChangedByHolder
=============================================================================
