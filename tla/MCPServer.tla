----------------------------- MODULE MCPServer -----------------------------
(***************************************************************************)
(* The MCP server of internal/mcp/mcp.go in front of the tunnel registry:  *)
(* the accept loop and one goroutine for each connection, which takes what *)
(* one Read returns for one JSON request, handles it and writes the answer *)
(* before it reads again.                                                  *)
(*                                                                         *)
(* TCP is a stream: a request is sent as two halves, and a Read returns    *)
(* whatever part of the stream has come.  json.Unmarshal accepts the two   *)
(* halves of one request and nothing else; requests fit into the buffer.   *)
(* What a request asks is settled when it is read.                         *)
(*                                                                         *)
(* List and Get hold the manager's lock, so each is one step on Registry.  *)
(* The statuses that json.Marshal reads afterwards are left out.           *)
(***************************************************************************)
EXTENDS Registry, Sequences

CONSTANTS
    MCPConns,       \* connections a client may open, each of them once
    Requests,       \* requests a client may send: see RequestType
    TokenSet,       \* whether mcp_token is configured
    NoArgument,     \* a get_tunnel_stats request without "arguments"
    MaxSends,       \* bound on the requests of a connection
    SocketCap       \* answers a connection holds for a client that does not read

Ops == {"tools/list", "list_tunnels", "get_tunnel_stats", "other tool", "other method"}

\* token tells whether the request carries the configured token.
RequestType == [op    : Ops,
                arg   : Ids \cup Names \cup {NoArgument},
                token : BOOLEAN]

ASSUME MCPAssumption ==
    /\ Requests \subseteq RequestType
    /\ NoArgument \notin Ids \cup Names
    /\ Ids \cap Names = {}
    /\ TokenSet \in BOOLEAN
    /\ MaxSends \in Nat
    /\ SocketCap \in Nat \ {0}

VARIABLES
    alive,      \* FALSE once a panic has ended the process
    accepting,  \* FALSE once the accept loop has returned
    conn,       \* the client's end: unused, up, gone
    mpc,        \* where the goroutine of a connection is
    sent,       \* how many requests a client has sent
    inbox,      \* the stream that was not read yet: two halves per request
    cur,        \* the request that is being handled, its place in sent
    request,    \* what it asks for
    draft,      \* the answer to it
    unread,     \* answers the client has not read yet
    owed,       \* history: requests read whole and not answered yet
    views,      \* history: what was registered since the request was read
    floor       \* history: the counter of its tunnel when it was read

mcpvars == <<alive, accepting, conn, mpc, sent, inbox, cur, request, draft, unread,
             owed, views, floor>>

\* A connection waits to be accepted (queued); its goroutine is in Read, in
\* handleRequest (serve), in GetStats with the tunnel found (fetch) or in
\* Write; or it has returned (over).
MCPSteps == {"unused", "queued", "read", "serve", "fetch", "write", "over"}

Results == [kind : {"none", "tools", "list", "stats", "unknown tunnel",
                    "unauthorized", "no such method"},
            ids  : SUBSET Ids,
            n    : 0..MaxRequests]

NoResult == [kind |-> "none", ids |-> {}, n |-> 0]

NoRequest == [op |-> "none", arg |-> NoArgument, token |-> FALSE]

Serving(c) == mpc[c] \in {"serve", "fetch", "write"}

MTypeOK ==
    /\ alive \in BOOLEAN /\ accepting \in BOOLEAN
    /\ conn \in [MCPConns -> {"unused", "up", "gone"}]
    /\ mpc \in [MCPConns -> MCPSteps]
    /\ sent \in [MCPConns -> 0..MaxSends]
    /\ inbox \in [MCPConns -> Seq(1..MaxSends)]
    /\ cur \in [MCPConns -> 0..MaxSends]
    /\ request \in [MCPConns -> Requests \cup {NoRequest}]
    /\ draft \in [MCPConns -> Results]
    /\ unread \in [MCPConns -> 0..SocketCap]
    /\ owed \in [MCPConns -> SUBSET (1..MaxSends)]
    /\ views \in [MCPConns -> SUBSET SUBSET Ids]
    /\ floor \in [MCPConns -> 0..MaxRequests]
    /\ \A c \in MCPConns : Serving(c) => cur[c] > 0 /\ request[c] \in Requests

MInit ==
    /\ alive = TRUE
    /\ accepting = TRUE
    /\ conn = [c \in MCPConns |-> "unused"]
    /\ mpc = [c \in MCPConns |-> "unused"]
    /\ sent = [c \in MCPConns |-> 0]
    /\ inbox = [c \in MCPConns |-> <<>>]
    /\ cur = [c \in MCPConns |-> 0]
    /\ request = [c \in MCPConns |-> NoRequest]
    /\ draft = [c \in MCPConns |-> NoResult]
    /\ unread = [c \in MCPConns |-> 0]
    /\ owed = [c \in MCPConns |-> {}]
    /\ views = [c \in MCPConns |-> {}]
    /\ floor = [c \in MCPConns |-> 0]

-----------------------------------------------------------------------------
(* The clients.  They need not wait for an answer before the next request, *)
(* and they may go away at any time.                                       *)

MCPConnect(c) ==
    /\ conn[c] = "unused"
    /\ conn' = [conn EXCEPT ![c] = "up"]
    /\ mpc' = [mpc EXCEPT ![c] = "queued"]
    /\ UNCHANGED <<alive, accepting, sent, inbox, cur, request, draft, unread, owed, views, floor>>

MCPSend(c) ==
    /\ conn[c] = "up"
    /\ sent[c] < MaxSends
    /\ sent' = [sent EXCEPT ![c] = @ + 1]
    /\ inbox' = [inbox EXCEPT ![c] = @ \o <<sent'[c], sent'[c]>>]
    /\ UNCHANGED <<alive, accepting, conn, mpc, cur, request, draft, unread, owed, views, floor>>

MCPTake(c) ==
    /\ conn[c] = "up"
    /\ unread[c] > 0
    /\ unread' = [unread EXCEPT ![c] = @ - 1]
    /\ UNCHANGED <<alive, accepting, conn, mpc, sent, inbox, cur, request, draft, owed, views, floor>>

MCPLeave(c) ==
    /\ conn[c] = "up"
    /\ conn' = [conn EXCEPT ![c] = "gone"]
    /\ unread' = [unread EXCEPT ![c] = 0]
    /\ UNCHANGED <<alive, accepting, mpc, sent, inbox, cur, request, draft, owed, views, floor>>

-----------------------------------------------------------------------------
(* The accept loop.                                                        *)

AcceptWhen(c, free) ==
    /\ accepting
    /\ mpc[c] = "queued"
    /\ free
    /\ mpc' = [mpc EXCEPT ![c] = "read"]
    /\ UNCHANGED <<alive, accepting, conn, sent, inbox, cur, request, draft, unread,
                   owed, views, floor>>

\* Mutant: handleConnection is called without go.
MCPAcceptSerial(c) ==
    AcceptWhen(c, \A d \in MCPConns : mpc[d] \in {"unused", "queued", "over"})

MCPAccept(c) == AcceptWhen(c, TRUE)

\* The first error of Accept, whatever it is, ends the loop; the listener
\* stays open, and connections go on queueing.
MCPAcceptFails ==
    /\ accepting
    /\ accepting' = FALSE
    /\ UNCHANGED <<alive, conn, mpc, sent, inbox, cur, request, draft, unread, owed, views, floor>>

-----------------------------------------------------------------------------
(* handleConnection.                                                       *)

\* A Read returns the first n halves of the stream.  One whole request goes
\* on to handleRequest; anything else is dropped without an answer.
ReadWhen(c, ready) ==
    /\ ready
    /\ \E n \in 1..Len(inbox[c]) :
        LET chunk == SubSeq(inbox[c], 1, n)
            k     == Head(chunk)
        IN  /\ inbox' = [inbox EXCEPT ![c] = SubSeq(@, n + 1, Len(@))]
            /\ IF chunk = <<k, k>>
               THEN \E r \in Requests :
                    /\ cur' = [cur EXCEPT ![c] = k]
                    /\ request' = [request EXCEPT ![c] = r]
                    /\ mpc' = [mpc EXCEPT ![c] = "serve"]
                    /\ owed' = [owed EXCEPT ![c] = @ \cup {k}]
                    /\ views' = [views EXCEPT ![c] = {Registered}]
                    /\ floor' = [floor EXCEPT ![c] =
                            IF r.arg \in Ids THEN count[r.arg] ELSE 0]
               ELSE UNCHANGED <<cur, request, mpc, owed, views, floor>>
    /\ UNCHANGED <<alive, accepting, conn, sent, draft, unread>>

\* Mutant: the request is handled in a goroutine of its own.
MCPReadAhead(c) == ReadWhen(c, mpc[c] \in {"read", "serve", "fetch", "write"})

MCPRead(c) == ReadWhen(c, mpc[c] = "read")

\* Mutant: an error of Read is taken for bad JSON.
MCPReadGoesOn(c) ==
    /\ mpc[c] = "read"
    /\ conn[c] = "gone"
    /\ UNCHANGED mcpvars

\* Mutant: an error of Read is passed on to handleRequest.
MCPReadStale(c) ==
    /\ mpc[c] = "read"
    /\ conn[c] = "gone"
    /\ mpc' = [mpc EXCEPT ![c] = "serve"]
    /\ UNCHANGED <<alive, accepting, conn, sent, inbox, cur, request, draft, unread,
                   owed, views, floor>>

\* The client has closed; a reset may come before what it sent last.
MCPReadFails(c) ==
    /\ mpc[c] = "read"
    /\ conn[c] = "gone"
    /\ mpc' = [mpc EXCEPT ![c] = "over"]
    /\ inbox' = [inbox EXCEPT ![c] = <<>>]
    /\ UNCHANGED <<alive, accepting, conn, sent, cur, request, draft, unread,
                   owed, views, floor>>

Answer(c, kind, ids, n) ==
    /\ draft' = [draft EXCEPT ![c] = [kind |-> kind, ids |-> ids, n |-> n]]
    /\ mpc' = [mpc EXCEPT ![c] = "write"]
    /\ UNCHANGED alive

Authorized(r) == TokenSet => r.token

\* handleRequest and handleToolCall.  Only two of the announced tools exist.
\* get_tunnel_stats hands the argument "name" to GetStats, which looks for an
\* ID; a request without "arguments" panics, and no goroutine recovers.
MCPServe(c) ==
    /\ mpc[c] = "serve"
    /\ LET r == request[c]
       IN  \/ /\ ~Authorized(r)
              /\ Answer(c, "unauthorized", {}, 0)
           \/ /\ Authorized(r)
              /\ r.op = "tools/list"
              /\ Answer(c, "tools", {}, 0)
           \/ /\ Authorized(r)
              /\ r.op \in {"other tool", "other method"}
              /\ Answer(c, "no such method", {}, 0)
           \/ /\ Authorized(r)
              /\ r.op = "list_tunnels"
              /\ Answer(c, "list", Registered, 0)
           \/ /\ Authorized(r)
              /\ r.op = "get_tunnel_stats" /\ r.arg = NoArgument
              /\ alive' = FALSE
              /\ UNCHANGED <<draft, mpc>>
           \/ /\ Authorized(r)
              /\ r.op = "get_tunnel_stats" /\ r.arg \in Registered
              /\ mpc' = [mpc EXCEPT ![c] = "fetch"]
              /\ UNCHANGED <<alive, draft>>
           \/ /\ Authorized(r)
              /\ r.op = "get_tunnel_stats"
              /\ r.arg \notin Registered \cup {NoArgument}
              /\ Answer(c, "unknown tunnel", {}, 0)
    /\ UNCHANGED <<accepting, conn, sent, inbox, cur, request, unread, owed, views, floor>>

\* The second half of GetStats: the counters are read through the pointer.
MCPFetch(c) ==
    /\ mpc[c] = "fetch"
    /\ Answer(c, "stats", {}, count[request[c].arg])
    /\ UNCHANGED <<accepting, conn, sent, inbox, cur, request, unread, owed, views, floor>>

\* Write has no deadline: it waits while the client does not read.  Its error
\* is ignored.
MCPWrite(c) ==
    /\ mpc[c] = "write"
    /\ \/ conn[c] = "gone" /\ UNCHANGED unread
       \/ /\ conn[c] = "up"
          /\ unread[c] < SocketCap
          /\ unread' = [unread EXCEPT ![c] = @ + 1]
    /\ mpc' = [mpc EXCEPT ![c] = "read"]
    /\ owed' = [owed EXCEPT ![c] = @ \ {cur[c]}]
    /\ draft' = [draft EXCEPT ![c] = NoResult]
    /\ views' = [views EXCEPT ![c] = {}]
    /\ floor' = [floor EXCEPT ![c] = 0]
    /\ cur' = [cur EXCEPT ![c] = 0]
    /\ request' = [request EXCEPT ![c] = NoRequest]
    /\ UNCHANGED <<alive, accepting, conn, sent, inbox>>

-----------------------------------------------------------------------------

MCPStep(c) ==
    MCPRead(c) \/ MCPReadFails(c) \/ MCPServe(c) \/ MCPFetch(c) \/ MCPWrite(c)

MCPClient ==
    \/ \E c \in MCPConns : MCPConnect(c)
    \/ \E c \in MCPConns : MCPSend(c)
    \/ \E c \in MCPConns : MCPTake(c)
    \/ \E c \in MCPConns : MCPLeave(c)

MCPNext ==
    \/ MCPClient
    \/ \E c \in MCPConns : MCPAccept(c)
    \/ MCPAcceptFails
    \/ \E c \in MCPConns : MCPRead(c)
    \/ \E c \in MCPConns : MCPReadFails(c)
    \/ \E c \in MCPConns : MCPServe(c)
    \/ \E c \in MCPConns : MCPFetch(c)
    \/ \E c \in MCPConns : MCPWrite(c)

\* A step of the registry, seen by the requests that have no answer yet.
Witness ==
    views' = [c \in MCPConns |->
                IF mpc[c] \in {"serve", "fetch"}
                THEN views[c] \cup {Registered'} ELSE views[c]]
=============================================================================
