---------------------------- MODULE ClientAgent ----------------------------
(***************************************************************************)
(* The client agent of cmd/client/main.go: one goroutine for each tunnel   *)
(* of its configuration, which registers the tunnel, listens on a port and *)
(* relays what connects there to the local service; the process ends with  *)
(* a signal, unregisters nothing, and may be started again.                *)
(***************************************************************************)
EXTENDS ManagementAPI

CONSTANTS
    Entries,     \* tunnels of the configuration, each a caller of the API
    Name,        \* their names
    Protocol,    \* their protocols
    Visitors,    \* connections to a listening port
    MaxStarts    \* bound on the starts of the agent

ASSUME AgentAssumption ==
    /\ Entries \subseteq Callers
    /\ Name \in [Entries -> Names]
    /\ Protocol \in [Entries -> {"http", "tcp", "websocket", "other"}]
    /\ MaxStarts \in Nat

VARIABLES
    token,      \* what the configuration has for a token
    starts,
    apc,        \* where the goroutine of an entry is
    relay,      \* where the goroutine of a visitor's connection is
    visitor,    \* the visitor's end of it: none, up, gone
    service,    \* the local service's end of it: none, up, gone
    inhand      \* bytes from the service that are being written to the visitor

agentvars == <<token, starts, apc, relay, visitor, service, inhand>>

\* A goroutine is off with the process; it sends its registration (register),
\* waits for the answer (waiting), sleeps after a failed one (sleep), opens
\* its port (listen) and accepts (listening).  It ends without a port, and
\* has nothing to do for a protocol other than http (over).
AgentSteps == {"off", "register", "waiting", "sleep", "listen", "listening",
               "no port", "over"}

AgentTypeOK ==
    /\ token \in Tokens
    /\ starts \in 0..MaxStarts
    /\ apc \in [Entries -> AgentSteps]
    /\ relay \in [Visitors -> {"none", "dial", "copy", "over"}]
    /\ visitor \in [Visitors -> {"none", "up", "gone"}]
    /\ service \in [Visitors -> {"none", "up", "gone"}]
    /\ inhand \in [Visitors -> BOOLEAN]
    /\ \A e \in Entries : (apc[e] = "waiting") = (call[e] /= NoCall)
    /\ \A v \in Visitors : relay[v] = "copy" => service[v] /= "none"

AgentInit ==
    /\ token \in Tokens
    /\ starts = 0
    /\ apc = [e \in Entries |-> "off"]
    /\ relay = [v \in Visitors |-> "none"]
    /\ visitor = [v \in Visitors |-> "none"]
    /\ service = [v \in Visitors |-> "none"]
    /\ inhand = [v \in Visitors |-> FALSE]

Running == \E e \in Entries : apc[e] /= "off"

-----------------------------------------------------------------------------
(* The process.                                                            *)

\* Connect starts a goroutine for each entry; only "http" is implemented.
StartAgent ==
    /\ ~Running
    /\ starts < MaxStarts
    /\ starts' = starts + 1
    /\ apc' = [e \in Entries |-> IF Protocol[e] = "http" THEN "register" ELSE "over"]
    /\ UNCHANGED <<token, relay, visitor, service, inhand, apivars>>

\* A signal: Disconnect, and main returns; the connections go with it.
StopAgent ==
    /\ Running
    /\ apc' = [e \in Entries |-> "off"]
    /\ Abandon(Entries)
    /\ relay' = [v \in Visitors |-> IF relay[v] = "none" THEN "none" ELSE "over"]
    /\ visitor' = [v \in Visitors |-> IF visitor[v] = "none" THEN "none" ELSE "gone"]
    /\ service' = [v \in Visitors |-> IF service[v] = "none" THEN "none" ELSE "gone"]
    /\ inhand' = [v \in Visitors |-> FALSE]
    /\ UNCHANGED <<token, starts>>

-----------------------------------------------------------------------------
(* startHTTPTunnel.                                                        *)

At(e, from, to) ==
    /\ apc[e] = from
    /\ apc' = [apc EXCEPT ![e] = to]
    /\ UNCHANGED <<token, starts, relay, visitor, service, inhand>>

Register(e) ==
    /\ At(e, "register", "waiting")
    /\ Send(e, "create", Name[e], token)

Registered(e) ==
    /\ answer[e] = "ok"
    /\ At(e, "waiting", "listen")
    /\ Close(e)

Failed(e, to) ==
    /\ answer[e] \notin {"none", "ok"}
    /\ At(e, "waiting", to)
    /\ Close(e)

\* Mutant: the continue after the pause is missing.
NotRegisteredGoesOn(e) == Failed(e, "listen")

\* Mutant: the goroutine returns with the error.
NotRegisteredGivesUp(e) == Failed(e, "over")

NotRegistered(e) == Failed(e, "sleep")

Wake(e) ==
    /\ At(e, "sleep", "register")
    /\ UNCHANGED apivars

Listen(e) ==
    /\ At(e, "listen", "listening") \/ At(e, "listen", "no port")
    /\ UNCHANGED apivars

-----------------------------------------------------------------------------
(* handleConnection.                                                       *)

\* Any listening entry takes it.
Visit(v) ==
    /\ relay[v] = "none"
    /\ \E e \in Entries : apc[e] = "listening"
    /\ relay' = [relay EXCEPT ![v] = "dial"]
    /\ visitor' = [visitor EXCEPT ![v] = "up"]
    /\ UNCHANGED <<token, starts, apc, service, inhand>>

DialLocal(v) ==
    /\ relay[v] = "dial"
    /\ \/ /\ relay' = [relay EXCEPT ![v] = "copy"]
          /\ service' = [service EXCEPT ![v] = "up"]
          /\ UNCHANGED visitor
       \/ /\ relay' = [relay EXCEPT ![v] = "over"]
          /\ visitor' = [visitor EXCEPT ![v] = "gone"]
          /\ UNCHANGED service
    /\ UNCHANGED <<token, starts, apc, inhand>>

\* The copying goroutine towards the service ends with the visitor and closes
\* nothing.
VisitorLeaves(v) ==
    /\ visitor[v] = "up"
    /\ visitor' = [visitor EXCEPT ![v] = "gone"]
    /\ UNCHANGED <<token, starts, apc, relay, service, inhand>>

ServiceLeaves(v) ==
    /\ service[v] = "up"
    /\ service' = [service EXCEPT ![v] = "gone"]
    /\ UNCHANGED <<token, starts, apc, relay, visitor, inhand>>

ServiceSends(v) ==
    /\ relay[v] = "copy"
    /\ service[v] = "up"
    /\ ~inhand[v]
    /\ inhand' = [inhand EXCEPT ![v] = TRUE]
    /\ UNCHANGED <<token, starts, apc, relay, visitor, service>>

VisitorTakes(v) ==
    /\ relay[v] = "copy"
    /\ visitor[v] = "up"
    /\ inhand[v]
    /\ inhand' = [inhand EXCEPT ![v] = FALSE]
    /\ UNCHANGED <<token, starts, apc, relay, visitor, service>>

EndRelayWhen(v, ends) ==
    /\ relay[v] = "copy"
    /\ ends
    /\ relay' = [relay EXCEPT ![v] = "over"]
    /\ visitor' = [visitor EXCEPT ![v] = "gone"]
    /\ service' = [service EXCEPT ![v] = "gone"]
    /\ inhand' = [inhand EXCEPT ![v] = FALSE]
    /\ UNCHANGED <<token, starts, apc>>

\* Mutant: the copy towards the service is the one that is waited for.
EndRelayOfVisitor(v) == EndRelayWhen(v, visitor[v] = "gone")

\* The copy towards the visitor ends when the service has closed and all is
\* written, or when a write fails; then both connections are closed.
EndRelay(v) ==
    EndRelayWhen(v, IF inhand[v] THEN visitor[v] = "gone" ELSE service[v] = "gone")

-----------------------------------------------------------------------------

EntryStep(e) == Register(e) \/ Registered(e) \/ NotRegistered(e) \/ Wake(e) \/ Listen(e)

EntryNext ==
    \/ StartAgent
    \/ StopAgent
    \/ \E e \in Entries : Register(e)
    \/ \E e \in Entries : Registered(e)
    \/ \E e \in Entries : NotRegistered(e)
    \/ \E e \in Entries : Wake(e)
    \/ \E e \in Entries : Listen(e)

RelayNext ==
    \/ \E v \in Visitors : Visit(v)
    \/ \E v \in Visitors : DialLocal(v)
    \/ \E v \in Visitors : VisitorLeaves(v)
    \/ \E v \in Visitors : ServiceLeaves(v)
    \/ \E v \in Visitors : ServiceSends(v)
    \/ \E v \in Visitors : VisitorTakes(v)
    \/ \E v \in Visitors : EndRelay(v)
=============================================================================
