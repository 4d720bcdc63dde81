--------------------------- MODULE TransportProof ---------------------------
(***************************************************************************)
(* Proofs of Transport's safety, for requests, socket buffers, limits and  *)
(* timeouts of every size.  The bytes of the request are conserved: they   *)
(* are with the client, in the socket or with the server until the server  *)
(* answers, and nobody makes new ones.                                     *)
(***************************************************************************)
EXTENDS Transport, TLAPS

Points == {"begin", "write", "read", "waitWrite", "waitRead", "sleep", "poll", "reap",
           "ok", "failed"}

\* Where the bytes of the request are.
ByteInv ==
    /\ left \in Nat /\ unread \in Nat /\ received \in Nat /\ acted \in 0 .. 1
    /\ verdict \in {"none", "ok", "error"}
    /\ verdict = "none" => left + unread + received = RequestSize /\ acted = 0
    /\ verdict # "none" => left + unread + received = 0
    /\ verdict = "ok" => acted = 1

\* A success is the server's.
ResultInv ==
    /\ pc \in Points
    /\ pc = "ok" => verdict = "ok"
    /\ child = "succeeded" => verdict = "ok"

\* A child that may still send has a process that waits for it.
ChildInv == child \in {"running", "dying"} => pc \in {"poll", "sleep", "reap"}

\* One deadline, set once; no wait goes past it.
TimeInv ==
    /\ clock \in Nat
    /\ pc = "begin" => clock = 0
    /\ pc \notin Ended \union {"begin", "reap"} => clock <= Timeout /\ deadline = Timeout
    /\ pc \in Waits => wake \in Nat /\ wake <= Timeout

TInv == ByteInv /\ ResultInv /\ ChildInv /\ TimeInv

-----------------------------------------------------------------------------
\* The bytes of the request are conserved, and a request is carried out once.
LEMMA BytesKept == TInv /\ [Next]_vars => ByteInv'
<1> SUFFICES ASSUME TInv, [Next]_vars PROVE ByteInv'
  OBVIOUS
<1> USE SizeAssumption
<1>1. CASE Write \/ ChildSends \/ ServerReads
  BY <1>1 DEF Write, ChildSends, ServerReads, TInv, ByteInv, client, server
<1>2. CASE ServerActs
  BY <1>2 DEF ServerActs, TInv, ByteInv, client
<1>3. CASE UNCHANGED <<left, unread, received, verdict, acted>>
  BY <1>3 DEF TInv, ByteInv
<1> QED
  BY <1>1, <1>2, <1>3 DEF Next, Client, Connect, WriteBlocked, ReadBlocked, Block, Wake, Read,
     Expire, Error, Spawn, Exited, NotYet, Kill, Reap, ChildExits, ChildEnds, ServerWrites,
     ServerCloses, Tick, client, server, vars

\* Nobody tells a success before the server does.
LEMMA ResultKept == TInv /\ [Next]_vars => ResultInv'
<1> SUFFICES ASSUME TInv, [Next]_vars PROVE ResultInv'
  OBVIOUS
<1>1. CASE Read
  <2>1. Judge(response') \in {"read", "failed", "ok"} /\ (Judge(response') = "ok" => verdict = "ok")
    BY DEF Judge
  <2> QED
    BY <1>1, <2>1 DEF Read, TInv, ResultInv, Points
<1>2. CASE ServerActs
  BY <1>2, SizeAssumption DEF ServerActs, TInv, ByteInv, ResultInv, client
<1>3. CASE ~Read /\ ~ServerActs
  BY <1>3 DEF TInv, ResultInv, Points, Waits, Next, Client, Connect, Write, WriteBlocked,
     ReadBlocked, Block, Wake, Expire, Error, Spawn, Exited, NotYet, Kill, Reap, ChildSends,
     ChildExits, ChildEnds, ServerReads, ServerWrites, ServerCloses, Tick, client, server, vars
<1> QED
  BY <1>1, <1>2, <1>3

\* A child is waited for until it has ended.
LEMMA ChildKept == TInv /\ [Next]_vars => ChildInv'
<1> SUFFICES ASSUME TInv, [Next]_vars PROVE ChildInv'
  OBVIOUS
<1> QED
  BY DEF TInv, ChildInv, ResultInv, Waits, Next, Client, Connect, Write, WriteBlocked,
     ReadBlocked, Block, Wake, Read, Expire, Error, Spawn, Exited, NotYet, Kill, Reap,
     ChildSends, ChildExits, ChildEnds, ServerReads, ServerActs, ServerWrites, ServerCloses,
     Tick, client, server, vars

\* Waits end at the deadline at the latest.
LEMMA TimeKept == TInv /\ [Next]_vars => TimeInv'
<1> SUFFICES ASSUME TInv, [Next]_vars PROVE TimeInv'
  OBVIOUS
<1> USE SizeAssumption
<1>1. CASE Read
  <2>1. Judge(response') \in {"read", "failed", "ok"}
    BY DEF Judge
  <2> QED
    BY <1>1, <2>1 DEF Read, InTime, TInv, TimeInv, Ended, Waits
<1>2. CASE Tick
  BY <1>2 DEF Tick, TInv, TimeInv, Ended, Waits, client
<1>3. CASE Connect \/ Spawn
  BY <1>3 DEF Connect, Spawn, TInv, TimeInv, Ended, Waits
<1>4. CASE WriteBlocked \/ ReadBlocked \/ NotYet
  BY <1>4 DEF WriteBlocked, ReadBlocked, Block, NotYet, InTime, TInv, TimeInv, Ended, Waits
<1>5. CASE Wake
  BY <1>5 DEF Wake, Ready, TInv, TimeInv, Ended, Waits
<1>6. CASE Write
  BY <1>6 DEF Write, TInv, TimeInv, Ended, Waits
<1>7. CASE Expire \/ Error \/ Exited \/ Kill \/ Reap
  BY <1>7 DEF Expire, Error, Exited, Kill, Reap, TInv, TimeInv, Ended, Waits
<1>8. CASE UNCHANGED <<pc, clock, deadline, wake>>
  BY <1>8 DEF TInv, TimeInv
<1> QED
  BY <1>1, <1>2, <1>3, <1>4, <1>5, <1>6, <1>7, <1>8 DEF Next, Client, ChildSends, ChildExits,
     ChildEnds, ServerReads, ServerActs, ServerWrites, ServerCloses, client, vars

\* The invariant holds in every reachable state.
THEOREM RequestInvariance == Spec => []TInv
<1>1. Init => TInv
  BY SizeAssumption DEF Init, TInv, ByteInv, ResultInv, ChildInv, TimeInv, Points, Ended, Waits
<1>2. TInv /\ [Next]_vars => TInv'
  BY BytesKept, ResultKept, ChildKept, TimeKept DEF TInv
<1> QED
  BY <1>1, <1>2, PTL DEF Spec

\* A request that succeeds was carried out exactly once, every other at most once, for
\* all sizes of buffers and all orders of partial writes, late replies and kills
\* (transport::request: "mutations are never retried").
THEOREM RequestsOnce == Spec => []ConfirmedOnce
<1>1. TInv => ConfirmedOnce
  BY DEF TInv, ByteInv, ResultInv, ConfirmedOnce
<1> QED
  BY <1>1, RequestInvariance, PTL

\* No request is at work past its deadline (direct_request, cli_request).
THEOREM InTimeAlways == Spec => []EndsInTime
<1>1. TInv => EndsInTime
  BY DEF TInv, TimeInv, EndsInTime
<1> QED
  BY <1>1, RequestInvariance, PTL

\* After the result is told nothing is sent: the socket is dropped, the child reaped
\* (cli_request).
THEOREM SilentAfterwards == Spec => NothingSentLater
<1>1. TInv /\ [Next]_vars => [left' # left => pc \notin Ended]_vars
  <2> SUFFICES ASSUME TInv, [Next]_vars, left' # left PROVE pc \notin Ended
    OBVIOUS
  <2>1. CASE Write
    BY <2>1 DEF Write, Ended
  <2>2. CASE ChildSends
    BY <2>2 DEF ChildSends, TInv, ChildInv, Ended
  <2> QED
    BY <2>1, <2>2 DEF Next, Client, Connect, WriteBlocked, ReadBlocked, Block, Wake, Read,
       Expire, Error, Spawn, Exited, NotYet, Kill, Reap, ChildExits, ChildEnds, ServerReads,
       ServerActs, ServerWrites, ServerCloses, Tick, client, server, vars
<1> QED
  BY <1>1, RequestInvariance, PTL DEF Spec, NothingSentLater
=============================================================================
