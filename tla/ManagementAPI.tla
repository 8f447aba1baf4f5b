--------------------------- MODULE ManagementAPI ---------------------------
(***************************************************************************)
(* The management API of internal/api, as the programs that call it see    *)
(* it: requests that travel, take effect, and are answered or lost.  A     *)
(* caller has one request at a time (the SDK's doRequest, registerTunnel,  *)
(* getLogs).                                                               *)
(*                                                                         *)
(* The callers use routes that this repository documents (SPEC.md:104-111) *)
(* and its tests emulate, but its server does not have.  The server at the *)
(* URL is "this" one or a "documented" one, which has them, behind TLS for *)
(* the callers that use it (external).                                     *)
(***************************************************************************)
EXTENDS Naturals

CONSTANTS
    Names,       \* tunnel names
    NoName,      \* the name in a request that has none
    Callers,     \* processes and goroutines that call the API
    TLSCallers,  \* those that use https://
    MaxLosses,   \* bound on the connections that fail
    MaxCrashes   \* bound on the restarts of the server

ASSUME APIAssumption ==
    /\ NoName \notin Names
    /\ TLSCallers \subseteq Callers
    /\ MaxLosses \in Nat
    /\ MaxCrashes \in Nat

VARIABLES
    server,      \* which server is at the URL, "this" or "documented"
    up,          \* whether it runs
    registered,  \* the names of its tunnels
    call,        \* the request of a caller, NoCall when it has none
    answer,      \* what came of it or of the last one, "none" as long as it travels
    offered,     \* the generated name in the answer
    stray,       \* requests that still travel when their caller has given up
    losses,
    crashes,
    took,        \* history: the last request of a caller was carried out
    freed        \* history: names that were registered and are not any more

apivars == <<server, up, registered, call, answer, offered, stray, losses, crashes,
             took, freed>>

\* The routes of NewAPI, and the documented ones.
Routes == [this       |-> {"health", "metrics", "generate-name"},
           documented |-> {"health", "metrics", "generate-name", "list", "get",
                           "create", "delete", "stats", "restart", "logs"}]

\* Those that are about a tunnel that exists.
NamedRoutes == {"get", "delete", "stats", "restart", "logs"}

\* The Authorization header: "Bearer " and a key, and without one just
\* "Bearer", because HTTP cuts the space off.
Tokens == {"valid", "other", "empty"}

CallType == [op    : Routes.documented,
             name  : Names \cup {NoName},
             token : Tokens]

NoCall == [op |-> "none", name |-> NoName, token |-> "valid"]

Answers == {"ok", "not found", "unauthorized", "name taken", "error"}

APITypeOK ==
    /\ server \in DOMAIN Routes
    /\ up \in BOOLEAN
    /\ registered \subseteq Names
    /\ call \in [Callers -> CallType \cup {NoCall}]
    /\ answer \in [Callers -> Answers \cup {"none"}]
    /\ offered \in [Callers -> Names \cup {NoName}]
    /\ stray \subseteq CallType
    /\ losses \in 0..MaxLosses
    /\ crashes \in 0..MaxCrashes
    /\ took \in [Callers -> BOOLEAN]
    /\ freed \subseteq Names
    /\ \A c \in Callers :
            call[c].op \in NamedRoutes \cup {"create"} => call[c].name \in Names
    /\ \A r \in stray : r.op \in NamedRoutes \cup {"create"} => r.name \in Names

APIInit ==
    /\ server \in DOMAIN Routes
    /\ up = TRUE
    /\ registered = {}
    /\ call = [c \in Callers |-> NoCall]
    /\ answer = [c \in Callers |-> "none"]
    /\ offered = [c \in Callers |-> NoName]
    /\ stray = {}
    /\ losses = 0
    /\ crashes = 0
    /\ took = [c \in Callers |-> FALSE]
    /\ freed = {}

Travels(c) == call[c] /= NoCall /\ answer[c] = "none"

-----------------------------------------------------------------------------
(* What the callers do.                                                    *)

Send(c, op, n, t) ==
    /\ call' = [call EXCEPT ![c] = [op |-> op, name |-> n, token |-> t]]
    /\ answer' = [answer EXCEPT ![c] = "none"]
    /\ offered' = [offered EXCEPT ![c] = NoName]
    /\ took' = [took EXCEPT ![c] = FALSE]
    /\ UNCHANGED <<server, up, registered, stray, losses, crashes, freed>>

\* The caller takes note of the answer.
Close(c) ==
    /\ call' = [call EXCEPT ![c] = NoCall]
    /\ UNCHANGED <<server, up, registered, answer, offered, stray, losses, crashes, took,
                   freed>>

\* The callers of gone end; what they have sent is not called back.
Abandon(gone) ==
    /\ call' = [c \in Callers |-> IF c \in gone THEN NoCall ELSE call[c]]
    /\ answer' = [c \in Callers |-> IF c \in gone THEN "none" ELSE answer[c]]
    /\ offered' = [c \in Callers |-> IF c \in gone THEN NoName ELSE offered[c]]
    /\ took' = [c \in Callers |-> took[c] /\ c \notin gone]
    /\ \E s \in SUBSET {call[c] : c \in {d \in gone : Travels(d)}} : stray' = stray \cup s
    /\ UNCHANGED <<server, up, registered, losses, crashes, freed>>

-----------------------------------------------------------------------------
(* What the server does.                                                   *)

\* The router comes before the middleware: an unknown route is not found
\* without a token.  The middleware cuts seven characters off the header; at
\* a shorter one it panics, and net/http closes the connection.
Outcome(r) ==
    CASE r.op \notin Routes[server]                              -> "not found"
      [] r.op \in Routes[server] /\ r.token = "empty"            -> "error"
      [] r.op \in Routes[server] /\ r.token = "other"            -> "unauthorized"
      [] r.op \in Routes[server] /\ r.token = "valid" ->
            IF r.op = "create" /\ r.name \in registered THEN "name taken"
            ELSE IF r.op \in NamedRoutes /\ r.name \notin registered THEN "not found"
            ELSE "ok"

CarryOut(r) ==
    LET done == Outcome(r) = "ok"
    IN  /\ registered' = IF done /\ r.op = "create" THEN registered \cup {r.name}
                         ELSE IF done /\ r.op = "delete" THEN registered \ {r.name}
                         ELSE registered
        /\ freed' = freed \cup (registered \ registered')

\* The server of this repository does not speak TLS on its API port.
Reached(c) == c \in TLSCallers => server = "documented"

\* handleGenerateName offers any name, a taken one too.
Handle(c) ==
    /\ up
    /\ Travels(c)
    /\ Reached(c)
    /\ CarryOut(call[c])
    /\ answer' = [answer EXCEPT ![c] = Outcome(call[c])]
    /\ took' = [took EXCEPT ![c] = Outcome(call[c]) = "ok"]
    /\ IF call[c].op = "generate-name" /\ Outcome(call[c]) = "ok"
       THEN \E n \in Names : offered' = [offered EXCEPT ![c] = n]
       ELSE UNCHANGED offered
    /\ UNCHANGED <<server, up, call, stray, losses, crashes>>

HandleStray(r) ==
    /\ up
    /\ r \in stray
    /\ CarryOut(r)
    /\ stray' = stray \ {r}
    /\ UNCHANGED <<server, up, call, answer, offered, losses, crashes, took>>

-----------------------------------------------------------------------------
(* What goes wrong.                                                        *)

\* Nobody is there who would answer.
Refuse(c) ==
    /\ Travels(c)
    /\ ~up \/ ~Reached(c)
    /\ answer' = [answer EXCEPT ![c] = "error"]
    /\ UNCHANGED <<server, up, registered, call, offered, stray, losses, crashes, took, freed>>

\* The connection fails, or 30 seconds pass: before the request has arrived,
\* on its way, or when it was carried out and the answer is on its way.
Lose(c) ==
    /\ losses < MaxLosses
    /\ losses' = losses + 1
    /\ call[c] /= NoCall
    /\ answer[c] /= "error"
    /\ answer' = [answer EXCEPT ![c] = "error"]
    /\ offered' = [offered EXCEPT ![c] = NoName]
    /\ \/ UNCHANGED stray
       \/ Travels(c) /\ stray' = stray \cup {call[c]}
    /\ UNCHANGED <<server, up, registered, call, crashes, took, freed>>

\* The manager is memory: a server that ends forgets all tunnels.
Crash ==
    /\ up
    /\ crashes < MaxCrashes
    /\ crashes' = crashes + 1
    /\ up' = FALSE
    /\ registered' = {}
    /\ freed' = freed \cup registered
    /\ answer' = [c \in Callers |-> IF Travels(c) THEN "error" ELSE answer[c]]
    /\ stray' = {}
    /\ UNCHANGED <<server, call, offered, losses, took>>

Boot ==
    /\ ~up
    /\ up' = TRUE
    /\ UNCHANGED <<server, registered, call, answer, offered, stray, losses, crashes, took, freed>>

APINext ==
    \/ \E c \in Callers : Handle(c)
    \/ \E r \in stray : HandleStray(r)
    \/ \E c \in Callers : Refuse(c)
    \/ \E c \in Callers : Lose(c)
    \/ Crash
    \/ Boot
=============================================================================
