------------------------------- MODULE Spaces -------------------------------
(***************************************************************************)
(* The library of named spaces, which every session's processes share.     *)
(* A space command takes the operation lock of its session, then the lock  *)
(* of the library; both are tried, never waited for.  It saves, opens,     *)
(* imports or deletes one named file.  Opening is a reconstruction and     *)
(* leaves its evidence with the session when it is cut off.                *)
(***************************************************************************)
EXTENDS Integers, Sequences, FiniteSets, DurableFile

CONSTANTS
    Sessions,       \* herdr servers, each with its own state directory
    Invocations,    \* slots for plugin processes
    Names,          \* names of spaces
    Sources,        \* panes of the space file that is imported
    Panes, Tabs,    \* live panes and tabs an import may be mapped to
    SpaceOf,        \* the workspace of each tab
    MaxUnsynced,    \* bound: contents of a name a power cut may choose from
    NoFile,         \* the content of a file that does not exist
    None            \* nothing, nobody

ASSUME SpaceAssumption ==
    /\ SpaceOf \in [Tabs -> Tabs]      \* a workspace is named by a tab
    /\ IsFiniteSet(Panes) /\ IsFiniteSet(Sources)
    /\ MaxUnsynced \in Nat \ {0}
ASSUME ProcessAssumption == None \notin Invocations

Ops == {"save", "open", "import", "delete", "acknowledge"}
Labels == {"idle", "start", "library", "begin", "look", "export", "write",
           "writeSync", "remove", "removeSync", "opening", "acknowledge"}

\* A named snapshot: of which session; of an import with a mapping instead where each source pane
\* went, the tab of each live pane and the panes in each exported tab.
Plain(s) == [by |-> s, to |-> <<>>, at |-> <<>>, leaves |-> <<>>]

VARIABLES
    pc, mem,        \* the processes
    lock,           \* of each session: the process that holds its operation.lock
    library,        \* the process that holds library.lock
    files,          \* spaces/<name>.json
    evidence,       \* of each session: rebuild-pending.json exists
    told            \* history: what the last finished operation said a name holds

vars == <<pc, mem, lock, library, files, evidence, told>>

Blank == [op |-> None, session |-> None, name |-> None, content |-> None]

SpaceTypeOK ==
    /\ pc \in [Invocations -> Labels]
    /\ \A i \in Invocations :
         /\ mem[i].op \in Ops \union {None} /\ mem[i].name \in Names \union {None}
         /\ pc[i] # "idle" => mem[i].session \in Sessions
         /\ pc[i] \in {"begin", "write", "remove", "writeSync", "removeSync", "opening"} =>
              library = i /\ lock[mem[i].session] = i
    /\ lock \in [Sessions -> Invocations \union {None}]
    /\ library \in Invocations \union {None}
    /\ evidence \in [Sessions -> BOOLEAN]
    /\ \A n \in Names : files[n].now \in files[n].after

Init ==
    /\ pc = [i \in Invocations |-> "idle"]
    /\ mem = [i \in Invocations |-> Blank]
    /\ lock = [s \in Sessions |-> None]
    /\ library = None
    /\ files = [n \in Names |-> Stored(NoFile)]
    /\ evidence = [s \in Sessions |-> FALSE]
    /\ told = [n \in Names |-> NoFile]

-----------------------------------------------------------------------------
(* Locks *)

Goto(i, l) == pc' = [pc EXCEPT ![i] = l] /\ UNCHANGED <<mem, lock, library>>

Exit(i) ==
    /\ pc' = [pc EXCEPT ![i] = "idle"]
    /\ mem' = [mem EXCEPT ![i] = Blank]
    /\ lock' = [s \in Sessions |-> IF lock[s] = i THEN None ELSE lock[s]]
    /\ library' = IF library = i THEN None ELSE library

Quiet == UNCHANGED <<files, evidence, told>>

Start(i, o, s, n) ==
    /\ pc[i] = "idle"
    /\ pc' = [pc EXCEPT ![i] = "start"]
    /\ mem' = [mem EXCEPT ![i] = [op |-> o, session |-> s, name |-> n, content |-> None]]
    /\ Quiet /\ UNCHANGED <<lock, library>>

\* operation.lock of the session; only a space command goes on to the library.
TakeSession(i) ==
    /\ pc[i] = "start"
    /\ lock[mem[i].session] = None
    /\ lock' = [lock EXCEPT ![mem[i].session] = i]
    /\ pc' = [pc EXCEPT ![i] = IF mem[i].op = "acknowledge" THEN "acknowledge" ELSE "library"]
    /\ Quiet /\ UNCHANGED <<mem, library>>

\* Mutant: each session has a library.lock of its own.
TakeOwnLibrary(i) ==
    /\ pc[i] = "library"
    /\ library' = i
    /\ pc' = [pc EXCEPT ![i] = "begin"]
    /\ Quiet /\ UNCHANGED <<mem, lock>>

TakeLibrary(i) ==
    /\ pc[i] = "library"
    /\ library = None
    /\ library' = i
    /\ pc' = [pc EXCEPT ![i] = "begin"]
    /\ Quiet /\ UNCHANGED <<mem, lock>>

-----------------------------------------------------------------------------
(* Save, import and delete change the file, open reads it: require_clear comes first *)

\* Mutant: only the reconstruction looks for unresolved evidence.
BeginUnchecked(i) ==
    /\ pc[i] = "begin"
    /\ mem[i].op = "open" => ~evidence[mem[i].session]
    /\ Goto(i, CASE mem[i].op \in {"save", "import"} -> "look"
                 [] mem[i].op = "delete" -> "remove"
                 [] mem[i].op = "open" -> "opening")
    /\ IF mem[i].op = "open"
       THEN /\ files[mem[i].name].now # NoFile
            /\ evidence' = [evidence EXCEPT ![mem[i].session] = TRUE]
       ELSE UNCHANGED evidence
    /\ UNCHANGED <<files, told>>

Begin(i) ==
    /\ pc[i] = "begin"
    /\ ~evidence[mem[i].session]
    /\ Goto(i, CASE mem[i].op \in {"save", "import"} -> "look"
                 [] mem[i].op = "delete" -> "remove"
                 [] mem[i].op = "open" -> "opening")
    /\ IF mem[i].op = "open"
       THEN /\ files[mem[i].name].now # NoFile
            /\ evidence' = [evidence EXCEPT ![mem[i].session] = TRUE]
       ELSE UNCHANGED evidence
    /\ UNCHANGED <<files, told>>

Ready(i, content) ==
    /\ mem' = [mem EXCEPT ![i].content = content]
    /\ pc' = [pc EXCEPT ![i] = "write"]
    /\ UNCHANGED <<lock, library>>

Room(n) == Cardinality(files[n].after) < MaxUnsynced

\* Store::save: no history, the named file alone.
Write(i) ==
    /\ pc[i] = "write"
    /\ Room(mem[i].name)
    /\ files' = [files EXCEPT ![mem[i].name] = Renamed(@, mem[i].content)]
    /\ told' = [told EXCEPT ![mem[i].name] = None]
    /\ Goto(i, "writeSync")
    /\ UNCHANGED evidence

\* The directory is synced and the operation reports what it did.
WriteSync(i) ==
    /\ pc[i] = "writeSync"
    /\ files' = [files EXCEPT ![mem[i].name] = Synced(@)]
    /\ told' = [told EXCEPT ![mem[i].name] = mem[i].content]
    /\ Exit(i)
    /\ UNCHANGED evidence

Remove(i) ==
    /\ pc[i] = "remove"
    /\ Room(mem[i].name)
    /\ files[mem[i].name].now # NoFile
    /\ files' = [files EXCEPT ![mem[i].name] = Renamed(@, NoFile)]
    /\ told' = [told EXCEPT ![mem[i].name] = None]
    /\ Goto(i, "removeSync")
    /\ UNCHANGED evidence

\* Mutant: the deletion is reported before the directory is synced.
RemoveUnsynced(i) ==
    /\ pc[i] = "removeSync"
    /\ told' = [told EXCEPT ![mem[i].name] = NoFile]
    /\ Exit(i)
    /\ UNCHANGED <<files, evidence>>

RemoveSync(i) ==
    /\ pc[i] = "removeSync"
    /\ files' = [files EXCEPT ![mem[i].name] = Synced(@)]
    /\ told' = [told EXCEPT ![mem[i].name] = NoFile]
    /\ Exit(i)
    /\ UNCHANGED evidence

\* The reconstruction ends and removes its evidence, or fails and leaves it.
Opened(i) ==
    /\ pc[i] = "opening"
    /\ \E left \in BOOLEAN : evidence' = [evidence EXCEPT ![mem[i].session] = left]
    /\ Exit(i)
    /\ UNCHANGED <<files, told>>

Acknowledge(i) ==
    /\ pc[i] = "acknowledge"
    /\ evidence' = [evidence EXCEPT ![mem[i].session] = FALSE]
    /\ Exit(i)
    /\ UNCHANGED <<files, told>>

-----------------------------------------------------------------------------
(* What is written: a capture, or an import *)

Images(f) == {f[x] : x \in DOMAIN f}
Placements == [Panes -> Tabs \union {None}]
Mappings == [1 .. Cardinality(Sources) -> [source : Sources, pane : Panes, tab : Tabs]]

\* The mapping names each pane of the file once, and live panes where they are.
Accepted(maps, live) ==
    /\ \A j, k \in DOMAIN maps : maps[j].source = maps[k].source => j = k
    /\ \A s \in Sources : \E k \in DOMAIN maps : maps[k].source = s
    /\ \A k \in DOMAIN maps : live[maps[k].pane] = maps[k].tab

\* Mutant: panes that no layout has are let through.
ValidOmitting(space, to, at, leaves) ==
    /\ \A a, b \in DOMAIN to : to[a] = to[b] => a = b
    /\ \A p \in Images(to) : SpaceOf[at[p]] = space
    /\ \A t \in DOMAIN leaves : \A p \in leaves[t] : p \in Images(to) /\ at[p] = t

\* Snapshot::validate with layout::validate: panes are named once and lie in the space;
\* every leaf is one of them, in its tab, and none is left out.
Valid(space, to, at, leaves) ==
    /\ \A a, b \in DOMAIN to : to[a] = to[b] => a = b
    /\ \A p \in Images(to) : SpaceOf[at[p]] = space
    /\ \A t \in DOMAIN leaves : \A p \in leaves[t] : p \in Images(to) /\ at[p] = t
    /\ Images(to) \subseteq UNION Images(leaves)

\* What host.snapshot says of the panes that are saved, and the tabs to export.
Looked(i, to, space, live) ==
    /\ mem' = [mem EXCEPT ![i].content =
         [to |-> to, space |-> space, at |-> [p \in Images(to) |-> live[p]],
          tabs |-> {t \in Tabs : SpaceOf[t] = space /\ \E p \in Panes : live[p] = t}]]
    /\ pc' = [pc EXCEPT ![i] = "export"]
    /\ UNCHANGED <<lock, library>>

\* capture_once of one workspace: every pane it has, each for itself.
SaveLook(i) ==
    /\ pc[i] = "look" /\ mem[i].op = "save"
    /\ \E live \in Placements, space \in Images(SpaceOf) :
         LET panes == {p \in Panes : live[p] # None /\ SpaceOf[live[p]] = space}
         IN panes # {} /\ Looked(i, [p \in panes |-> p], space, live)
    /\ Quiet

\* import_space: the mapping is applied to the live panes.
ImportLook(i) ==
    /\ pc[i] = "look" /\ mem[i].op = "import"
    /\ \E maps \in Mappings, live \in Placements :
         LET of(s) == CHOOSE k \in DOMAIN maps : maps[k].source = s
         IN Accepted(maps, live)
            /\ Looked(i, [s \in Sources |-> maps[of(s)].pane], SpaceOf[maps[1].tab], live)
    /\ Quiet

\* Without a mapping the file is stored as it is.
ImportPlain(i) ==
    /\ pc[i] = "look" /\ mem[i].op = "import"
    /\ Ready(i, Plain(mem[i].session))
    /\ Quiet

\* layout::capture asks for the tabs one after the other while panes move, open and
\* close; the snapshot is validated before it is written.
Export(i) ==
    /\ pc[i] = "export"
    /\ LET c == mem[i].content
       IN \E leaves \in [c.tabs -> SUBSET Panes \ {{}}] :
            /\ Valid(c.space, c.to, c.at, leaves)
            /\ Ready(i, [by |-> None, to |-> c.to, at |-> c.at, leaves |-> leaves])
    /\ Quiet

-----------------------------------------------------------------------------
(* Failures *)

\* An error, a busy lock, unresolved evidence, no such space, a kill: the process ends
\* and the kernel releases both locks.
Fail(i) ==
    /\ pc[i] # "idle"
    /\ Exit(i)
    /\ Quiet

\* The machine loses power: of a change not yet synced either content may be left.
PowerCut ==
    /\ pc' = [i \in Invocations |-> "idle"]
    /\ mem' = [i \in Invocations |-> Blank]
    /\ lock' = [s \in Sessions |-> None]
    /\ library' = None
    /\ \E kept \in [Names -> UNION {files[n].after : n \in Names}] :
         /\ \A n \in Names : kept[n] \in files[n].after
         /\ files' = [n \in Names |-> Stored(kept[n])]
    /\ UNCHANGED <<evidence, told>>

Step(i) ==
    \/ TakeSession(i) \/ TakeLibrary(i) \/ Begin(i)
    \/ Write(i) \/ WriteSync(i) \/ Remove(i) \/ RemoveSync(i)
    \/ Opened(i) \/ Acknowledge(i)
    \/ SaveLook(i) \/ ImportLook(i) \/ ImportPlain(i) \/ Export(i)

Next ==
    \/ \E i \in Invocations :
         \/ Step(i) \/ Fail(i)
         \/ \E o \in Ops, s \in Sessions, n \in Names : Start(i, o, s, n)
    \/ PowerCut

Spec == Init /\ [][Next]_vars

-----------------------------------------------------------------------------
(* Safety *)

\* What a space command reports lasts: until another command changes the name, every
\* reader and every power cut finds what the last one reported, whichever sessions they
\* come from (the lock of the library, Store::save, SpaceAction::Delete).
ReportsLast == \A n \in Names : told[n] # None => files[n] = Stored(told[n])

\* What is stored is the workspace as it was at one moment, when host.snapshot was read:
\* each pane once, all of them and no other, each in the tab it was in, though panes
\* move, open and close while the layouts are exported; and a mapping gives each pane of
\* the file a live pane of its own (capture_once, import_space, layout::validate).
StoredAsSeen ==
    \A n \in Names : \A c \in files[n].after \ {NoFile} : c.to # <<>> =>
        /\ \A t \in DOMAIN c.leaves : c.leaves[t] = {p \in Images(c.to) : c.at[p] = t}
        /\ Images(c.to) = UNION Images(c.leaves)
        /\ Cardinality(Images(c.to)) = Cardinality(DOMAIN c.to)
        /\ \A p, q \in Images(c.to) : SpaceOf[c.at[p]] = SpaceOf[c.at[q]]

\* A session whose reconstruction is unresolved changes nothing in the library, while the
\* other sessions still may: a change is made by the holder of both locks, whose session
\* has no evidence (app::run, require_clear).
ChangedByHolder ==
    [][\A n \in Names : files'[n].now # files[n].now /\ library' # None =>
         \E s \in Sessions : lock[s] = library /\ ~evidence[s] /\ ~evidence'[s]]_vars
=============================================================================
