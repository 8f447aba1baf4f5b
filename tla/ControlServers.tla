--------------------------- MODULE ControlServers ---------------------------
(***************************************************************************)
(* The MCP server and the SSH server of one process, in front of the same  *)
(* tunnel registry, which others change meanwhile.  A panic in one of them *)
(* ends all of them.                                                       *)
(***************************************************************************)
EXTENDS MCPServer, SSHServer, FiniteSetsExt

CONSTANTS
    MaxConns,   \* bound on the connections of both servers together
    MaxInputs   \* bound on what the clients send, see Inputs

vars == <<rvars, mcpvars, sshvars>>

Opened == Cardinality({c \in MCPConns : conn[c] /= "unused"})
            + Cardinality({c \in SSHConns : sconn[c] /= "unused"})

\* A request of an MCP client weighs as much as two packets of an SSH client.
Inputs == 2 * MapThenSumSet(LAMBDA c : sent[c], MCPConns)
            + MapThenSumSet(LAMBDA c : npackets[c], SSHConns)

Bounded == Opened <= MaxConns /\ Inputs <= MaxInputs

TypeOK == RTypeOK /\ MTypeOK /\ STypeOK

Init == RInit /\ MInit /\ SInit

\* A step of the manager, on behalf of the gateway, the cleanup or others.
RegistryStep ==
    /\ RNext
    /\ Witness
    /\ UNCHANGED <<alive, accepting, conn, mpc, sent, inbox, cur, request, draft, unread,
                   owed, floor, sshvars>>

MCPSide ==
    /\ MCPNext
    /\ UNCHANGED <<rvars, sshvars>>
    /\ Bounded'

SSHSide ==
    /\ SSHNext
    /\ UNCHANGED <<rvars, mcpvars>>
    /\ Bounded'

Next == alive /\ (RegistryStep \/ MCPSide \/ SSHSide)

Spec == Init /\ [][Next]_vars

(* Goroutines that can run do, and connections that wait are accepted.     *)
(* Clients owe nothing: they may neither send nor read nor leave.          *)
Fairness ==
    /\ \A c \in MCPConns :
        /\ WF_mcpvars(alive /\ MCPAccept(c))
        /\ WF_mcpvars(alive /\ MCPStep(c))
    /\ \A c \in SSHConns :
        /\ WF_sshvars(alive /\ SSHAccept(c))
        /\ WF_sshvars(alive /\ HandOn(c))
        /\ WF_sshvars(alive /\ SSHStep(c))

FairSpec == Spec /\ Fairness

-----------------------------------------------------------------------------
(* Safety.                                                                 *)

\* The requests that were read whole are answered one by one, in the order in
\* which they came and none left out or answered twice: the goroutine of a
\* connection owes an answer to the request it is at and to no other, and
\* what it has not read yet was sent after that one (mcp.go:76-90).
InTurn(c) ==
    /\ owed[c] = IF Serving(c) THEN {cur[c]} ELSE {}
    /\ \A k \in 1..Len(inbox[c]) : Serving(c) => inbox[c][k] > cur[c]

\* An answer tells of the registry as it was at some moment after its request
\* was read: a list is what was registered then, a tunnel that is not found
\* was not registered then, and statistics are not older than the request.
Current(c) ==
    mpc[c] = "write" =>
        /\ draft[c].kind = "list" => draft[c].ids \in views[c]
        /\ draft[c].kind = "unknown tunnel" =>
                \E v \in views[c] : request[c].arg \notin v
        /\ draft[c].kind = "stats" =>
                /\ \E v \in views[c] : request[c].arg \in v
                /\ draft[c].n \in floor[c]..count[request[c].arg]

AnswersFaithful == \A c \in MCPConns : InTurn(c) /\ (alive => Current(c))

\* The session waits for what only the multiplexer can bring, a line or room
\* for its output, and the multiplexer waits for the session.
Hung(c) ==
    /\ Stuck(c) /\ ~ended[c]
    /\ \/ spc[c] = "shell" /\ data[c] = 0
       \/ spc[c] \in {"exec", "prompt"} /\ window[c] = 0

\* Nothing wakes such a session: not a client that reads, types or closes, nor
\* the loss of its connection.  The two goroutines stay with the process
\* (ssh/server.go:97-138).
HungForGood == [][\A c \in SSHConns : Hung(c) => Hung(c)']_vars

(* Liveness.                                                               *)

\* The client does not read what was written for it, and a Write waits.
MCPFull(c) == mpc[c] = "write" /\ conn[c] = "up" /\ unread[c] = SocketCap

\* The same for SSH: there is no packet on its way that would end the wait.
SSHFull(c) ==
    /\ spc[c] \in {"exec", "prompt"}
    /\ window[c] = 0 /\ ~ended[c]
    /\ \A k \in 1..Len(wire[c]) : wire[c][k] \notin {"adjust", "end"}

\* The session has output to write or input before it.  Requests do not
\* concern a shell.
Busy(c) ==
    \/ spc[c] \in {"exec", "prompt"}
    \/ spc[c] = "shell" /\ (wire[c] /= <<>> \/ data[c] > 0)
    \/ spc[c] = "requests" /\ (wire[c] /= <<>> \/ reqs[c] > 0)

\* Connections do not wait for each other: each one is accepted, whatever the
\* others do, and the requests and lines that reach the server are dealt with
\* unless the client of that very connection does not read.  What may keep an
\* MCP connection waiting is an accept loop that has ended, what may keep an
\* SSH session a full queue of requests, and all of them a panic.
SessionsServed ==
    /\ \A c \in MCPConns :
        /\ []<>(mpc[c] /= "queued" \/ ~accepting \/ ~alive)
        /\ []<>(~Serving(c) \/ MCPFull(c) \/ ~alive)
    /\ \A c \in SSHConns :
        /\ []<>(spc[c] /= "queued" \/ ~alive)
        /\ []<>(~Busy(c) \/ Hung(c) \/ SSHFull(c) \/ ~alive)

\* The goroutines of a client that has gone away return, whether it closed its
\* connection or lost it, unless a session that takes no requests has left the
\* multiplexer with one in its hand: then the end of the connection is behind
\* it, and nobody ever sees it.
SessionsEnd ==
    /\ \A c \in MCPConns :
        []<>(conn[c] /= "gone" \/ mpc[c] \in {"queued", "over"} \/ ~alive)
    /\ \A c \in SSHConns :
        []<>(\/ sconn[c] /= "gone"
             \/ spc[c] = "over"
             \/ Hung(c)
             \/ ~alive)
=============================================================================
