-------------------------- MODULE ServerLifecycle --------------------------
(***************************************************************************)
(* How the server comes up and goes down: main of cmd/server, the Start    *)
(* functions of the gateway, the API, the MCP and the SSH server, and      *)
(* their Stop functions, with the goroutines that listen and the requests  *)
(* in flight.  main goes through the servers one by one; the goroutines it *)
(* starts open their sockets whenever they run, even after main has begun  *)
(* to stop.                                                                *)
(*                                                                         *)
(* HTTPS is left out: main gives the gateway no certificate, so StartHTTPS *)
(* always returns without a server.  The cleanup goroutine is modelled in  *)
(* TunnelCleanup.                                                          *)
(***************************************************************************)
EXTENDS Naturals

CONSTANT MaxConns   \* bound on the requests in flight in one server

HttpServers == {"http", "ws", "api"}

Services == HttpServers \cup {"tcp", "mcp", "ssh"}

ASSUME MaxConnsAssumption == MaxConns \in Nat

VARIABLES
    enabled,    \* the servers the configuration enables
    phase,      \* of main: see Phases
    at,         \* the server main starts or stops next
    sock,       \* the listening socket of each server: see SockStates
    shut,       \* HTTP servers whose Shutdown has been called
    conns,      \* requests in flight in each HTTP server
    cancelled,  \* the context of main is cancelled
    acceptor    \* the loop of acceptTCPConnections

vars == <<enabled, phase, at, sock, shut, conns, cancelled, acceptor>>

-----------------------------------------------------------------------------

(* The process is gone when a signal came before signal.Notify (killed),   *)
(* when main has returned (stopped) or when it has panicked (crashed).     *)
Phases == {"starting", "serving", "cancelling", "stopping", "killed", "stopped", "crashed"}

\* A goroutine that has not reached net.Listen yet leaves its socket pending.
SockStates == {"none", "pending", "open", "failed", "closed"}

\* A spinning acceptor calls Accept on a closed listener again and again.
LoopStates == {"none", "running", "spinning", "ended"}

\* The order in which main starts the servers, and stops them.
StartNext == [http |-> "tcp", tcp |-> "ws", ws |-> "api",
              api |-> "mcp", mcp |-> "ssh", ssh |-> "end"]

StopNext == [http |-> "tcp", tcp |-> "ws", ws |-> "api",
             api |-> "mcp", mcp |-> "end"]

TypeOK ==
    /\ enabled \subseteq Services
    /\ phase \in Phases
    /\ at \in Services \cup {"end"}
    /\ sock \in [Services -> SockStates]
    /\ shut \subseteq HttpServers
    /\ conns \in [HttpServers -> 0..MaxConns]
    /\ cancelled \in BOOLEAN
    /\ acceptor \in LoopStates
    \* The accept loop has a listener to call.
    /\ acceptor = "none" \/ sock["tcp"] \in {"open", "closed"}

Init ==
    /\ enabled \in SUBSET Services
    /\ phase = "starting"
    /\ at = "http"
    /\ sock = [s \in Services |-> "none"]
    /\ shut = {}
    /\ conns = [s \in HttpServers |-> 0]
    /\ cancelled = FALSE
    /\ acceptor = "none"

Alive == phase \notin {"killed", "stopped", "crashed"}

-----------------------------------------------------------------------------
(* main comes up.                                                          *)

Starting(s) ==
    /\ phase = "starting"
    /\ at = s
    /\ at' = StartNext[s]

SkipStart(s) ==
    /\ Starting(s)
    /\ s \notin enabled
    /\ UNCHANGED <<enabled, phase, sock, shut, conns, cancelled, acceptor>>

\* The server is set up and a goroutine is started that will listen.
Spawn(s) ==
    /\ Starting(s)
    /\ s \in enabled
    /\ sock' = [sock EXCEPT ![s] = "pending"]
    /\ UNCHANGED <<enabled, phase, shut, conns, cancelled, acceptor>>

StartHTTP      == Spawn("http")
StartWebSocket == Spawn("ws")
StartAPI       == Spawn("api")
StartMCP       == Spawn("mcp")
StartSSH       == Spawn("ssh")

\* Mutant: the accept loop is started although net.Listen failed.
StartTCPAnyway ==
    /\ Starting("tcp")
    /\ "tcp" \in enabled
    /\ \E r \in {"open", "failed"} : sock' = [sock EXCEPT !["tcp"] = r]
    /\ acceptor' = "running"
    /\ UNCHANGED <<enabled, phase, shut, conns, cancelled>>

\* StartTCP listens itself; its error is logged and main goes on.
StartTCP ==
    /\ Starting("tcp")
    /\ "tcp" \in enabled
    /\ \/ sock' = [sock EXCEPT !["tcp"] = "open"] /\ acceptor' = "running"
       \/ sock' = [sock EXCEPT !["tcp"] = "failed"] /\ UNCHANGED acceptor
    /\ UNCHANGED <<enabled, phase, shut, conns, cancelled>>

\* Everything is started and signal.Notify is called.
AllStarted ==
    /\ phase = "starting"
    /\ at = "end"
    /\ phase' = "serving"
    /\ UNCHANGED <<enabled, at, sock, shut, conns, cancelled, acceptor>>

-----------------------------------------------------------------------------
(* The goroutines.                                                         *)

\* ListenAndServe does not listen once Shutdown has been called; net.Listen
\* in the goroutines of MCP and SSH knows nothing of main.
Listen(s) ==
    /\ Alive
    /\ sock[s] = "pending"
    /\ IF s \in shut
       THEN sock' = [sock EXCEPT ![s] = "closed"]
       ELSE \E r \in {"open", "failed"} : sock' = [sock EXCEPT ![s] = r]
    /\ UNCHANGED <<enabled, phase, at, shut, conns, cancelled, acceptor>>

Accept(s) ==
    /\ Alive
    /\ sock[s] = "open"
    /\ conns[s] < MaxConns
    /\ conns' = [conns EXCEPT ![s] = @ + 1]
    /\ UNCHANGED <<enabled, phase, at, sock, shut, cancelled, acceptor>>

\* A request is answered, or becomes a WebSocket: the server no longer
\* counts a connection that was upgraded.
Answer(s) ==
    /\ Alive
    /\ conns[s] > 0
    /\ conns' = [conns EXCEPT ![s] = @ - 1]
    /\ UNCHANGED <<enabled, phase, at, sock, shut, cancelled, acceptor>>

\* Accept fails on a closed listener: the loop of acceptTCPConnections
\* returns if the context is done and goes round otherwise.
AcceptError ==
    /\ Alive
    /\ acceptor \in {"running", "spinning"}
    /\ sock["tcp"] = "closed"
    /\ acceptor' = IF cancelled THEN "ended" ELSE "spinning"
    /\ UNCHANGED <<enabled, phase, at, sock, shut, conns, cancelled>>

-----------------------------------------------------------------------------
(* main goes down.                                                         *)

\* SIGINT or SIGTERM.  A second one stays in the channel, unread.
Signal ==
    /\ phase \in {"starting", "serving"}
    /\ phase' = IF phase = "starting" THEN "killed" ELSE "cancelling"
    /\ UNCHANGED <<enabled, at, sock, shut, conns, cancelled, acceptor>>

\* Mutant: cancel is left to the defer.
CancelDeferred ==
    /\ phase = "cancelling"
    /\ phase' = "stopping"
    /\ at' = "http"
    /\ UNCHANGED <<enabled, sock, shut, conns, cancelled, acceptor>>

Cancel ==
    /\ phase = "cancelling"
    /\ cancelled' = TRUE
    /\ phase' = "stopping"
    /\ at' = "http"
    /\ UNCHANGED <<enabled, sock, shut, conns, acceptor>>

Stopping(s) == phase = "stopping" /\ at = s

Close(s) == sock' = [sock EXCEPT ![s] = IF @ = "open" THEN "closed" ELSE @]

\* Mutant: Shutdown leaves the listener open.
ShutdownStillOpen(s) ==
    /\ Stopping(s)
    /\ s \in enabled \ shut
    /\ shut' = shut \cup {s}
    /\ UNCHANGED <<enabled, phase, at, sock, conns, cancelled, acceptor>>

\* http.Server.Shutdown closes the listener ...
Shutdown(s) ==
    /\ Stopping(s)
    /\ s \in enabled \ shut
    /\ shut' = shut \cup {s}
    /\ Close(s)
    /\ UNCHANGED <<enabled, phase, at, conns, cancelled, acceptor>>

\* Mutant: nobody waits for the requests in flight.
DrainedUnchecked(s) ==
    /\ Stopping(s)
    /\ s \notin enabled \/ s \in shut
    /\ at' = StopNext[s]
    /\ UNCHANGED <<enabled, phase, sock, shut, conns, cancelled, acceptor>>

\* ... and waits for the requests in flight.  A server that was never made
\* is passed over.
Drained(s) ==
    /\ Stopping(s)
    /\ s \notin enabled \/ (s \in shut /\ conns[s] = 0)
    /\ at' = StopNext[s]
    /\ UNCHANGED <<enabled, phase, sock, shut, conns, cancelled, acceptor>>

\* API.Stop passes a nil context, which Shutdown dereferences as soon as it
\* has to wait: main panics.
ShutdownPanics ==
    /\ Stopping("api")
    /\ "api" \in shut /\ conns["api"] > 0
    /\ phase' = "crashed"
    /\ UNCHANGED <<enabled, at, sock, shut, conns, cancelled, acceptor>>

\* A listener is closed if there is one; nobody waits for its connections.
StopListener(s) ==
    /\ Stopping(s)
    /\ Close(s)
    /\ at' = StopNext[s]
    /\ UNCHANGED <<enabled, phase, shut, conns, cancelled, acceptor>>

\* main returns.  The SSH server and saves of the shortener are left as they
\* are.
Exit ==
    /\ Stopping("end")
    /\ phase' = "stopped"
    /\ UNCHANGED <<enabled, at, sock, shut, conns, cancelled, acceptor>>

-----------------------------------------------------------------------------

\* What main does by itself; it waits for requests only in Drained.
MainStep ==
    \/ \E s \in Services : SkipStart(s)
    \/ StartHTTP
    \/ StartTCP
    \/ StartWebSocket
    \/ StartAPI
    \/ StartMCP
    \/ StartSSH
    \/ AllStarted
    \/ Cancel
    \/ \E s \in HttpServers : Shutdown(s)
    \/ \E s \in HttpServers : Drained(s)
    \/ ShutdownPanics
    \/ \E s \in {"tcp", "mcp"} : StopListener(s)
    \/ Exit

Next ==
    \/ MainStep
    \/ \E s \in Services : Listen(s)
    \/ \E s \in HttpServers : Accept(s)
    \/ \E s \in HttpServers : Answer(s)
    \/ AcceptError
    \/ Signal

Spec == Init /\ [][Next]_vars

(* Go runs main whenever it can run.  A request is answered some time: the *)
(* gateway gives the local service 30 s, and clients are taken to read     *)
(* their answers (the servers set no write timeout).                       *)
Fairness ==
    /\ WF_vars(MainStep)
    /\ \A s \in HttpServers : WF_vars(Answer(s))

FairSpec == Spec /\ Fairness

-----------------------------------------------------------------------------
(* Safety.                                                                 *)

\* A server that has been stopped listens no more and has nothing in flight.
Quiet(s) == sock[s] /= "open" /\ (s \in HttpServers => conns[s] = 0)

\* Once main is past the gateway, whether it returns or panics in the API's
\* Stop, no gateway socket is open and no gateway request was cut off, not
\* even by a goroutine that came to listen after Shutdown (main.go:163-172,
\* gateway.go:602-616).  When it returns, the API has answered what it had
\* accepted as well.
ServersDrained ==
    /\ phase \in {"stopped", "crashed"} => \A s \in {"http", "tcp", "ws"} : Quiet(s)
    /\ phase = "stopped" => Quiet("api")

\* The accept loop never spins on the closed listener: the context is
\* cancelled before the listener is closed.
NeverSpins == acceptor /= "spinning"

(* Liveness.                                                               *)

\* A signal to a running server ends it, however long requests keep coming.
ShutdownEnds == phase = "cancelling" ~> phase \in {"stopped", "crashed"}
=============================================================================
