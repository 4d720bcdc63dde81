------------------------------ MODULE Transport ------------------------------
(***************************************************************************)
(* One mutating request to the herdr server, over its socket or through    *)
(* its command line tool, under one deadline.                              *)
(*                                                                         *)
(* Direct: the request is written and the reply read on a non-blocking     *)
(* socket; partial writes, a dribbling or silent server, a closed          *)
(* connection and more than one line of reply are what can happen.  Cli:   *)
(* `herdr pane run` is spawned, which sends the request and tells the      *)
(* result by its exit status; the child is killed when the deadline has    *)
(* passed, and waited for in any case.                                     *)
(*                                                                         *)
(* The requesting process is faster than the clock: time passes only while *)
(* it waits.  Bytes are counted, and those of a reply are told apart as    *)
(* far as the reader does.                                                 *)
(***************************************************************************)
EXTENDS Integers, Sequences, SequencesExt

CONSTANTS
    RequestSize,    \* bytes of the request
    Capacity,       \* bytes the socket holds for the server
    MaxBytes,       \* the limit on a reply
    Replies,        \* what a server may write: sequences of bytes
    Timeout,        \* timeout_ms
    MaxClock        \* bound: the clock stops there

Bytes == {"byte", "end", "space"}       \* of a line, its end, white space
ASSUME SizeAssumption == {RequestSize, Capacity, MaxBytes, Timeout} \subseteq Nat \ {0}
ASSUME ReplyAssumption == Replies \subseteq Seq(Bytes)

VARIABLES
    kind,           \* the transport: direct or cli
    pc,             \* what the request is at
    clock, deadline,
    wake,           \* when the wait is over at the latest
    left,           \* bytes of the request that are not sent
    response,       \* what was read of the reply
    child,          \* the tool
    unread,         \* bytes the server has not read
    received,       \* bytes the server has read and not acted on
    verdict,        \* what the server answers
    script,         \* what it has still to write of the answer
    reply,          \* what it wrote and nobody has read
    closed,         \* it closed the connection
    acted           \* history: how often it carried the request out

client == <<kind, pc, deadline, wake, left, response>>
server == <<received, verdict, script, reply, closed, acted>>
vars == <<client, clock, child, unread, server>>

Ended == {"ok", "failed"}
Waits == {"waitWrite", "waitRead", "sleep"}

Init ==
    /\ kind \in {"direct", "cli"}
    /\ pc = "begin" /\ clock = 0 /\ deadline = 0 /\ wake = 0
    /\ left = RequestSize /\ response = <<>> /\ child = "none"
    /\ unread = 0 /\ received = 0 /\ verdict = "none"
    /\ script = <<>> /\ reply = <<>> /\ closed = FALSE /\ acted = 0

-----------------------------------------------------------------------------
(* direct_request *)

InTime == clock < deadline

Connect ==
    /\ pc = "begin" /\ kind = "direct"
    /\ ~closed
    /\ pc' = "write"
    /\ deadline' = clock + Timeout
    /\ UNCHANGED <<kind, wake, left, response, clock, child, unread, server>>

Write ==
    /\ pc = "write" /\ InTime
    /\ ~closed
    /\ \E n \in 1 .. left :
         /\ unread + n <= Capacity
         /\ unread' = unread + n
         /\ left' = left - n
    /\ pc' = IF left' = 0 THEN "read" ELSE "write"
    /\ UNCHANGED <<kind, deadline, wake, response, clock, child, server>>

\* wait_ready: until the socket is ready, and no longer than to the deadline.
Block(at, wait) ==
    /\ pc = at /\ InTime
    /\ pc' = wait
    /\ wake' = deadline
    /\ UNCHANGED <<kind, deadline, left, response, clock, child, unread, server>>

WriteBlocked == unread = Capacity /\ ~closed /\ Block("write", "waitWrite")
ReadBlocked == reply = <<>> /\ ~closed /\ Block("read", "waitRead")

Ready ==
    \/ pc = "waitWrite" /\ (unread < Capacity \/ closed)
    \/ pc = "waitRead" /\ (reply # <<>> \/ closed)

Wake ==
    /\ Ready \/ (pc \in Waits /\ clock >= wake)
    /\ pc' = CASE pc = "waitWrite" -> "write" [] pc = "waitRead" -> "read" [] OTHER -> "poll"
    /\ UNCHANGED <<kind, deadline, wake, left, response, clock, child, unread, server>>

\* A line was read: nothing may follow it, and it must be a result (decode_response).
Judge(bytes) ==
    LET end == SelectInSeq(bytes, LAMBDA b : b = "end") IN
    IF Len(bytes) > MaxBytes THEN "failed"
    ELSE IF end = 0 THEN "read"
    ELSE IF (\A k \in end + 1 .. Len(bytes) : bytes[k] # "byte") /\ verdict = "ok"
    THEN "ok" ELSE "failed"

\* Mutant: each part of a reply renews the deadline.
ReadRenewed ==
    /\ pc = "read" /\ InTime
    /\ \E n \in 1 .. Len(reply) :
         /\ response' = response \o SubSeq(reply, 1, n)
         /\ reply' = SubSeq(reply, n + 1, Len(reply))
    /\ pc' = Judge(response')
    /\ deadline' = clock + Timeout
    /\ UNCHANGED <<kind, wake, left, clock, child, unread, received, verdict,
                   script, closed, acted>>

Read ==
    /\ pc = "read" /\ InTime
    /\ \E n \in 1 .. Len(reply) :
         /\ response' = response \o SubSeq(reply, 1, n)
         /\ reply' = SubSeq(reply, n + 1, Len(reply))
    /\ pc' = Judge(response')
    /\ UNCHANGED <<kind, deadline, wake, left, clock, child, unread, received, verdict,
                   script, closed, acted>>

\* Mutant: a reply that does not come in time makes the request be sent again.
ExpireAndRetry ==
    /\ pc \in {"write", "read"} /\ ~InTime
    /\ pc' = "write"
    /\ left' = RequestSize
    /\ deadline' = clock + Timeout
    /\ UNCHANGED <<kind, wake, response, clock, child, unread, server>>

Expire ==
    /\ pc \in {"write", "read"} /\ ~InTime
    /\ pc' = "failed"
    /\ UNCHANGED <<kind, deadline, wake, left, response, clock, child, unread, server>>

\* The connection is closed or refused, or a system call fails.
Error ==
    /\ pc \in {"begin", "write", "read", "waitWrite", "waitRead"}
    /\ kind = "direct"
    /\ pc' = "failed"
    /\ UNCHANGED <<kind, deadline, wake, left, response, clock, child, unread, server>>

-----------------------------------------------------------------------------
(* cli_request, of `pane run` *)

Spawn ==
    /\ pc = "begin" /\ kind = "cli"
    /\ child' = "running"
    /\ pc' = "poll"
    /\ deadline' = clock + Timeout
    /\ UNCHANGED <<kind, wake, left, response, clock, unread, server>>

\* The child has exited: its status is the result.
Exited ==
    /\ pc = "poll" /\ InTime
    /\ child \in {"succeeded", "failed"}
    /\ pc' = IF child = "succeeded" THEN "ok" ELSE "failed"
    /\ UNCHANGED <<kind, deadline, wake, left, response, clock, child, unread, server>>

\* Nothing yet: look again after a millisecond.
NotYet ==
    /\ pc = "poll" /\ InTime
    /\ child = "running"
    /\ pc' = "sleep"
    /\ wake' = clock + 1
    /\ UNCHANGED <<kind, deadline, left, response, clock, child, unread, server>>

\* Mutant: the child is not killed.
NoKill ==
    /\ pc = "poll"
    /\ pc' = "reap"
    /\ UNCHANGED <<kind, deadline, wake, left, response, clock, child, unread, server>>

\* The deadline has passed, or the child wrote what it should not: it is killed.
Kill ==
    /\ pc = "poll"
    /\ pc' = "reap"
    /\ child' = IF child = "running" THEN "dying" ELSE child
    /\ UNCHANGED <<kind, deadline, wake, left, response, clock, unread, server>>

\* Mutant: nobody waits for the child.
ReapNothing ==
    /\ pc = "reap"
    /\ pc' = "failed"
    /\ UNCHANGED <<kind, deadline, wake, left, response, clock, child, unread, server>>

Reap ==
    /\ pc = "reap"
    /\ child \in {"succeeded", "failed"}
    /\ pc' = "failed"
    /\ UNCHANGED <<kind, deadline, wake, left, response, clock, child, unread, server>>

\* The child sends the request.
ChildSends ==
    /\ child \in {"running", "dying"}
    /\ left > 0 /\ ~closed
    /\ left' = 0
    /\ received' = received + left
    /\ UNCHANGED <<kind, pc, deadline, wake, response, clock, child, unread, verdict,
                   script, reply, closed, acted>>

\* It exits with the result, or fails.
ChildExits ==
    /\ child = "running"
    /\ \/ verdict = "ok" /\ script = <<>> /\ child' = "succeeded"
       \/ child' = "failed"
    /\ UNCHANGED <<client, clock, unread, server>>

\* The kernel ends the child that was killed.
ChildEnds ==
    /\ child = "dying"
    /\ child' = "failed"
    /\ UNCHANGED <<client, clock, unread, server>>

-----------------------------------------------------------------------------
(* The server, and time *)

ServerReads ==
    /\ unread > 0
    /\ unread' = 0
    /\ received' = received + unread
    /\ UNCHANGED <<client, clock, child, verdict, script, reply, closed, acted>>

\* It carries a whole request out, or refuses it, and answers.
ServerActs ==
    /\ received >= RequestSize
    /\ received' = received - RequestSize
    /\ \/ verdict' = "ok" /\ acted' = acted + 1
       \/ verdict' = "error" /\ UNCHANGED acted
    /\ script' \in Replies
    /\ UNCHANGED <<client, clock, child, unread, reply, closed>>

ServerWrites ==
    /\ ~closed
    /\ \E n \in 1 .. Len(script) :
         /\ reply' = reply \o SubSeq(script, 1, n)
         /\ script' = SubSeq(script, n + 1, Len(script))
    /\ UNCHANGED <<client, clock, child, unread, received, verdict, closed, acted>>

ServerCloses ==
    /\ ~closed
    /\ closed' = TRUE
    /\ UNCHANGED <<client, clock, child, unread, received, verdict, script, reply, acted>>

\* Time passes while the process waits.
Tick ==
    /\ clock < MaxClock
    /\ \/ pc \in Waits /\ ~Ready /\ clock < wake
       \/ pc = "reap"
    /\ clock' = clock + 1
    /\ UNCHANGED <<client, child, unread, server>>

-----------------------------------------------------------------------------
Client ==
    \/ Connect \/ Write \/ WriteBlocked \/ ReadBlocked \/ Wake \/ Read \/ Expire \/ Error
    \/ Spawn \/ Exited \/ NotYet \/ Kill \/ Reap

Next ==
    \/ Client \/ ChildSends \/ ChildExits \/ ChildEnds
    \/ ServerReads \/ ServerActs \/ ServerWrites \/ ServerCloses \/ Tick

\* The process runs, time passes, a killed child ends; the server may never answer.
Spec == Init /\ [][Next]_vars /\ WF_vars(Client) /\ WF_vars(Tick) /\ WF_vars(ChildEnds)

-----------------------------------------------------------------------------
(* Safety *)

\* A request that succeeds was carried out once, and one that fails at most once: what
\* the server read in parts or late, or answered late, is never asked for again
\* (transport::request, "mutations are never retried").
ConfirmedOnce == acted <= 1 /\ (pc = "ok" => acted = 1)

\* A failure is told before the clock passes the deadline, however the server dribbles;
\* only the end of a killed child is waited for longer (direct_request, cli_request).
EndsInTime == pc \notin Ended \union {"begin", "reap"} => clock <= Timeout

\* Once the result is told, no byte of the request is sent any more: a failed run cannot
\* reach the server later, though the server may act late on what it got (cli_request).
NothingSentLater == [][left' # left => pc \notin Ended]_vars

-----------------------------------------------------------------------------
(* Liveness *)

\* Every request ends, with a server and a child that never answer.
RequestEnds == <>(pc \in Ended)
=============================================================================
