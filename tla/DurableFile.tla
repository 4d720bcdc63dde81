---------------------------- MODULE DurableFile ----------------------------
(***************************************************************************)
(* A file replaced by store::atomic_write: the temporary file is written   *)
(* and synced, renamed over the path, and the directory is synced.         *)
(*                                                                         *)
(*   now   - what every reader sees: it changes with the rename;           *)
(*   after - what a power cut may leave behind: the old and the new        *)
(*           content until the directory is synced, the new one after.     *)
(*                                                                         *)
(* A removal is a rename to the value that stands for "no such file".      *)
(***************************************************************************)

\* A file whose content is v and is durable: every power cut keeps it.
Stored(v) == [now |-> v, after |-> {v}]

\* The visible content becomes v; the old content may still come back.
Renamed(f, v) == [now |-> v, after |-> f.after \union {v}]

\* The directory entry is on the disk: what is visible is what survives.
Synced(f) == [now |-> f.now, after |-> {f.now}]

\* The files whose content is a member of S.
FileOf(S) == {f \in [now : S, after : SUBSET S] : f.now \in f.after}
=============================================================================
