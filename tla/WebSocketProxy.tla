--------------------------- MODULE WebSocketProxy ---------------------------
(***************************************************************************)
(* One WebSocket session of internal/gateway/gateway.go: handleWebSocket   *)
(* upgrades the client's connection, dials the tunnel's local service and  *)
(* copies in both directions, upstream (client to service) in a goroutine  *)
(* of its own and downstream in the handler.  Sessions share nothing.      *)
(*                                                                         *)
(* Either socket buffers Capacity messages on the way out, and a Write     *)
(* waits for room: there is no deadline.  Messages are numbered as they    *)
(* are sent; TCP's regrouping of the bytes is left out.                    *)
(***************************************************************************)
EXTENDS Naturals, Sequences

CONSTANTS
    MaxMessages,    \* bound on what each end sends
    Capacity        \* messages a socket buffers in one direction

ASSUME MessagesAssumption == MaxMessages \in Nat
ASSUME CapacityAssumption == Capacity \in Nat \ {0}

VARIABLES
    handler,    \* where handleWebSocket is: see HandlerSteps
    reader,     \* where its goroutine is: see ReaderSteps
    client,     \* the client's end of the WebSocket
    service,    \* the service's end of the local connection
    conn,       \* the gateway's end of the WebSocket
    local,      \* the gateway's end of the local connection
    up, down    \* the two streams: see Stream

ends    == <<client, service>>
sockets == <<conn, local>>
vars    == <<handler, reader, client, service, conn, local, up, down>>

HandlerSteps == {"lookup", "dial", "read", "write", "done"}

ReaderSteps == {"none", "read", "write", "done"}

EndStates == {"open", "closed"}

SocketStates == {"none", "open", "closed"}

\* A stream: how many messages were sent, those the gateway has not read,
\* the one it holds, those in the buffer of the far socket and those the
\* far end has got.
Messages == Seq(Nat)

Stream == [sent : 0..MaxMessages, queue : Messages, held : Messages,
           buffer : Messages, got : Messages]

Quiet == [sent |-> 0, queue |-> <<>>, held |-> <<>>, buffer |-> <<>>, got |-> <<>>]

TypeOK ==
    /\ handler \in HandlerSteps
    /\ reader \in ReaderSteps
    /\ client \in EndStates /\ service \in EndStates
    /\ conn \in SocketStates /\ local \in SocketStates
    /\ up \in Stream /\ down \in Stream
    /\ Len(up.buffer) <= Capacity /\ Len(down.buffer) <= Capacity

Init ==
    /\ handler = "lookup"
    /\ reader = "none"
    /\ client = "open" /\ service = "open"
    /\ conn = "none" /\ local = "none"
    /\ up = Quiet /\ down = Quiet

-----------------------------------------------------------------------------
(* The two ends.                                                           *)

ClientSends ==
    /\ client = "open" /\ conn = "open"
    /\ up.sent < MaxMessages
    /\ up' = [up EXCEPT !.sent = @ + 1, !.queue = Append(@, up.sent + 1)]
    /\ UNCHANGED <<handler, reader, ends, sockets, down>>

ServiceSends ==
    /\ service = "open" /\ local = "open"
    /\ down.sent < MaxMessages
    /\ down' = [down EXCEPT !.sent = @ + 1, !.queue = Append(@, down.sent + 1)]
    /\ UNCHANGED <<handler, reader, ends, sockets, up>>

\* The far end takes the next message out of its socket.
Take(s) == [s EXCEPT !.got = Append(@, Head(s.buffer)), !.buffer = Tail(@)]

ClientReads ==
    /\ client = "open"
    /\ down.buffer /= <<>>
    /\ down' = Take(down)
    /\ UNCHANGED <<handler, reader, ends, sockets, up>>

ServiceReads ==
    /\ service = "open"
    /\ up.buffer /= <<>>
    /\ up' = Take(up)
    /\ UNCHANGED <<handler, reader, ends, sockets, down>>

ClientCloses ==
    /\ client = "open"
    /\ client' = "closed"
    /\ UNCHANGED <<handler, reader, service, sockets, up, down>>

ServiceCloses ==
    /\ service = "open" /\ local /= "none"
    /\ service' = "closed"
    /\ UNCHANGED <<handler, reader, client, sockets, up, down>>

-----------------------------------------------------------------------------
(* handleWebSocket.                                                        *)

\* No tunnel of that name (its status is not looked at), or no upgrade.
Refuse ==
    /\ handler = "lookup"
    /\ handler' = "done"
    /\ UNCHANGED <<reader, ends, sockets, up, down>>

Upgrade ==
    /\ handler = "lookup"
    /\ handler' = "dial"
    /\ conn' = "open"
    /\ UNCHANGED <<reader, ends, local, up, down>>

\* Mutant: the WebSocket is not closed with the handler.
LeaveOpen ==
    /\ handler' = "done"
    /\ local' = IF local = "open" THEN "closed" ELSE local
    /\ UNCHANGED conn

\* The handler returns: its deferred calls close the sockets it has opened.
Leave ==
    /\ handler' = "done"
    /\ conn' = "closed"
    /\ local' = IF local = "open" THEN "closed" ELSE local

DialFails ==
    /\ handler = "dial"
    /\ Leave
    /\ UNCHANGED <<reader, ends, up, down>>

Dial ==
    /\ handler = "dial"
    /\ local' = "open"
    /\ reader' = "read"
    /\ handler' = "read"
    /\ UNCHANGED <<ends, conn, up, down>>

\* The next message of s is in the gateway's hands.
Pick(s) == [s EXCEPT !.held = <<Head(s.queue)>>, !.queue = Tail(@)]

\* The held message of s is put in the buffer of an open far end; the error
\* of a Write to a closed one is ignored.
Put(s, far) ==
    [s EXCEPT !.held = <<>>,
              !.buffer = IF far = "open" THEN @ \o s.held ELSE @]

\* A Write can return: there is room, or the connection is broken.
CanPut(s, near, far) == near = "closed" \/ far = "closed" \/ Len(s.buffer) < Capacity

ReadLocal ==
    /\ handler = "read"
    /\ down.queue /= <<>>
    /\ down' = Pick(down)
    /\ handler' = "write"
    /\ UNCHANGED <<reader, ends, sockets, up>>

\* Read fails once the service has closed; what it sent last may be lost.
ReadLocalFails ==
    /\ handler = "read"
    /\ service = "closed"
    /\ Leave
    /\ UNCHANGED <<reader, ends, up, down>>

\* Mutant: a message the client's buffer has no room for is dropped.
WriteClientDrops ==
    /\ handler = "write"
    /\ down' = Put(down, IF Len(down.buffer) < Capacity THEN client ELSE "closed")
    /\ handler' = "read"
    /\ UNCHANGED <<reader, ends, sockets, up>>

WriteClient ==
    /\ handler = "write"
    /\ CanPut(down, conn, client)
    /\ down' = Put(down, client)
    /\ handler' = "read"
    /\ UNCHANGED <<reader, ends, sockets, up>>

-----------------------------------------------------------------------------
(* The goroutine that reads the client.                                    *)

ReadMessage ==
    /\ reader = "read"
    /\ conn = "open"
    /\ up.queue /= <<>>
    /\ up' = Pick(up)
    /\ reader' = "write"
    /\ UNCHANGED <<handler, ends, sockets, down>>

\* ReadMessage fails on a closed connection.  The goroutine closes nothing.
ReadMessageFails ==
    /\ reader = "read"
    /\ conn = "closed" \/ client = "closed"
    /\ reader' = "done"
    /\ UNCHANGED <<handler, ends, sockets, up, down>>

\* Mutant: the message overtakes those that wait in the socket.
WriteLocalAhead ==
    /\ reader = "write"
    /\ up' = [up EXCEPT !.held = <<>>, !.buffer = up.held \o @]
    /\ reader' = "read"
    /\ UNCHANGED <<handler, ends, sockets, down>>

WriteLocal ==
    /\ reader = "write"
    /\ CanPut(up, local, service)
    /\ up' = Put(up, IF local = "closed" THEN "closed" ELSE service)
    /\ reader' = "read"
    /\ UNCHANGED <<handler, ends, sockets, down>>

-----------------------------------------------------------------------------

HandlerStep ==
    \/ Refuse
    \/ Upgrade
    \/ DialFails
    \/ Dial
    \/ ReadLocal
    \/ ReadLocalFails
    \/ WriteClient

ReaderStep ==
    \/ ReadMessage
    \/ ReadMessageFails
    \/ WriteLocal

Next ==
    \/ HandlerStep
    \/ ReaderStep
    \/ ClientSends
    \/ ServiceSends
    \/ ClientReads
    \/ ServiceReads
    \/ ClientCloses
    \/ ServiceCloses

Spec == Init /\ [][Next]_vars

(* Both goroutines run when they can.  Of the client it is assumed that it *)
(* reads what it is sent or goes away; without that a Write to it, which   *)
(* has no deadline, keeps the handler for ever.                            *)
Fairness ==
    /\ WF_vars(HandlerStep)
    /\ WF_vars(ReaderStep)
    /\ WF_vars(ClientReads)

FairSpec == Spec /\ Fairness

-----------------------------------------------------------------------------
(* Safety.                                                                 *)

Numbered(n) == [k \in 1..n |-> k]

\* Everything of s that has left its sender, the oldest message first.
Flow(s) == s.got \o s.buffer \o s.held \o s.queue

\* Messages arrive in the order they were sent and, while a session has all
\* its connections, none is lost or doubled between the reading goroutine
\* and the copying handler (gateway.go:551-568).  However the session ends,
\* what an end has got is the beginning of what was sent to it.
StreamsKept ==
    /\ service = "open" /\ local /= "closed" => Flow(up) = Numbered(up.sent)
    /\ client = "open" /\ conn /= "closed" => Flow(down) = Numbered(down.sent)
    /\ up.got = Numbered(Len(up.got))
    /\ down.got = Numbered(Len(down.got))

\* The session has let go of everything it had.
Released ==
    /\ handler = "done" /\ reader \in {"none", "done"}
    /\ conn /= "open" /\ local /= "open"

\* A client that goes away ends its reader; the handler goes on while the
\* service stays: gateway.go:551-568.  A service that goes away ends both
\* and closes both connections.
ServiceEndsSession == service = "closed" ~> Released
=============================================================================
