# A TLA+ model of a-tunnels

a-tunnels exposes local services through a public server: clients register
tunnels, the server's gateway forwards HTTP and WebSocket traffic to them, and
a URL shortener, a management API, an MCP server and an SSH console run in the
same process; a client agent and a command line client talk to it from
elsewhere. This directory holds TLA+ modules for the parts that have state,
TLC configurations that check them on small instances, and proofs checked by
TLAPS.

    tlc -workers 2 -config MC_TunnelManager.cfg MC_TunnelManager.tla
    tlapm TunnelProofs.tla

## 1. The system

| Part | Code | State | Operations |
|---|---|---|---|
| Tunnel manager | `internal/tunnel/types.go` | two maps of tunnels (by ID, by name) under one lock; each tunnel's status and its statistics under locks of their own; a channel of 100 events | Create, Delete, Get, GetByName, List, Start, Stop, Restart, Disable, Enable, UpdateStats, Subscribe |
| Inactivity cleanup | `cmd/server/main.go:182-262` | the list and the decisions of a pass | runCleanup, runCleanupOnce |
| Gateway: HTTP | `internal/gateway/gateway.go` | one server per port, the two limiters | handleHTTPRequest, handleMetrics, the redirect of short URLs, `/api/shorten` |
| Gateway: WebSocket, TCP | same file, 524-600 | two sockets and two goroutines per session | handleWebSocket, acceptTCPConnections |
| Rate limiter | same file, 26-103 | visitors under one mutex | Allow, cleanup |
| URL shortener | `internal/shortener` | two maps under one lock; the storage's two maps; a file and its mutex | Create, Get, GetByCode, Resolve, Delete, Cleanup; SaveURL, saveToFile, loadFromFile |
| Server process | `cmd/server/main.go`, `Start`/`Stop` of the servers | the listeners, requests in flight, the context | start, signal, stop |
| MCP server | `internal/mcp` | a goroutine per connection; the stream it reads | the accept loop, handleRequest with its methods and tools |
| SSH server | `internal/ssh` | a goroutine per connection, one per session; the library's multiplexer with its queues | handshake, shell, exec, the commands of handleCommand |
| Management API | `internal/api` | none of its own | three routes behind a token |
| Client agent | `cmd/client/main.go` | a goroutine and a listener per tunnel, a relay per visitor | registerTunnel with its retries, startHTTPTunnel, the relays |
| Command line, Go SDK, i18n | `cmd/cli`, `pkg/sdk/go`, `internal/i18n` | the texts of a language, a request | every command, doRequest, Load and T |
| Configuration | `internal/config` | none | setDefaults |
| Metrics, auth helpers, tunnel storage, other SDKs | `internal/*`, `pkg/sdk` | little or none | |

How they interact. Every request handler, the cleanup goroutine, the MCP
server and the SSH sessions call the one manager from goroutines of their own,
and hold `*Tunnel` pointers after the manager has released its lock. The
gateway owns the shortener and two limiters. Each change of a link starts a
goroutine that writes the whole file. `main` starts everything, waits for a
signal and stops the gateway, the API and the MCP server, in that order. The
agent, the commands and the SDK reach the server by HTTP only. The server of
this repository has three routes (`/health`, `/metrics`, `/generate-name`,
`api.go:31-33`); the others that these programs use are documented
(`SPEC.md:104-111`) and missing.

What is hard. Status and event are written in two steps; pointers outlive the
registration of their tunnel; the cleanup decides first and acts later; savers
run in any order, read links while they change, fail and are cut off by
crashes; shutdown meets requests in flight and listeners that are not up yet;
a WebSocket session has two goroutines that do not tell each other when they
end; one `Read` is taken for one MCP request; a shell reads no requests while
the multiplexer waits to hand one over; the agent registers a name again whose
first registration was carried out and its answer lost. `PROJECT.json` lists
these places one by one, with their lines and the properties that watch them.

## 2. The modules

| Module | Models | Correspondence |
|---|---|---|
| `TunnelManager` | the manager | `tunnels`, `byName`, `name` are the two maps and the tunnels' names; `status`, `requests` the fields behind the other locks; `queued` the length of the channel. A goroutine in a call is at `pc`: "set" after a successful Get, "emit" after SetStatus, "get" between the halves of a Restart, "stats" inside UpdateStats. One step per stretch of code under one lock. |
| `TunnelCleanup` (extends it) | runCleanupOnce, handleHTTPRequest | the same manager with one goroutine that is the `Cleaner`; `age` is the time since LastRequestAt (or CreatedAt); `phase`, `listed`, `toDelete`, `toDisable` are the locals of a pass, `hpc` and `target` those of a request |
| `Registry` | what the manager promises to the servers in front of it | names, and counters that only grow; `TunnelManager` implements it (`RegistrySpec`), and the MCP server is composed with it instead of the manager |
| `RateLimiter` | the limiter | one step per way `Allow` returns, one for a tick of the cleanup |
| `GatewayFront` (two instances of `RateLimiter`) | what the constructor makes of the configuration, the rate-limited wrappers, `/api/shorten`, the cleanup ticker of links | `req...` and `new...` are the two limiters on one clock |
| `Shortener` | the shortener and its FileStorage | `urls`, `codeIndex`, `stored` are the maps, `pc`, `lock`, `todo`, `buf` the savers, `tmp`, `file`, `torn` the files. saveToFile is cut where others can come in: the mutex and the list, each link read, the truncation, the end of the write, the rename |
| `URLStore` | what the shortener promises | counts in memory and on disk; a checkpoint may lag behind but not go back |
| `ServerLifecycle` | `main` with the Start and Stop functions | `at` is the place in main's two sequences, `sock` and `conns` the listeners and the requests in flight |
| `WebSocketProxy` | one session of handleWebSocket | `handler` and `reader` are the two goroutines; a stream has the messages that wait, the one in hand and the ones in the socket's buffer |
| `MCPServer` (extends `Registry`) | the MCP server | `conn` and `mpc` are the client and the goroutine of a connection, `inbox` the stream as halves of requests, `cur`, `request`, `draft` its locals; `owed`, `views`, `floor` remember what was registered while a request was handled |
| `SSHServer` | the SSH server | `spc` is the goroutine of a session, `wire`, `reqs`, `data` the packets behind, in and beyond the multiplexer; `window` and `unseen` the room for output and what the client has not read. What a client's reads give back (`adjust`) and the end come as packets, behind all others; a connection that is lost (`SSHLost`) takes with it what the server has not read |
| `ControlServers` (extends both) | the two servers in one process | a panic of a session ends all |
| `ManagementAPI` | the routes, the token, restarts of the server | `call`, `answer` and `stray` are requests that travel, what came of them, and those whose caller gave up; `server` is this one or one with the documented routes |
| `ClientAgent` (extends it) | the agent | `apc` a tunnel's goroutine, `relay`, `visitor`, `service`, `inhand` a connection through it |
| `AdminCLI` (extends `ManagementAPI`) | the commands with SDK and texts | one process per command: `typed`, what it waits for, its exit code; texts fall back to English and panic without it, as `T` does |
| `RemoteSide` (extends the last two) | agent and commands on the same names | |

`MC_*` modules instantiate them; `*Proofs` modules hold the theorems. An
operator commented "Mutant" is the definition below it with a plausible bug;
no specification uses it, it serves to see that a property notices.

## 3. What the runs show

| Run | Instance | Shows |
|---|---|---|
| `MC_TunnelManager` | 2 goroutines, 2 tunnels that take turns at one name, a channel of 1, 1 counted request | `IndexConsistent`, `SerialEventsTellStatus`, `RestartLeavesNoneStopped`, `AtMostOneLateEvent`, and that calls return although nobody reads the channel (`CallsReturn`); the manager is a `Registry` (`RegistrySpec`) |
| `MC_TunnelCleanup` | cleaner and 1 handler, 2 names, 2 tunnels, ages 0..2 | `OnlyIdleTouched`, `PassComplete`; every step is one of the manager (`ManagerSpec`) |
| `MC_TunnelCleanup_live` | 2 handlers, 1 tunnel, all operations | `IdleDisabled` |
| `MC_RateLimiter` | 2 clients, limit 2, window 2, 6 ticks | `AtMostQuotaPerWindow`, `RefusedOnlyAfterAdmission` |
| `MC_GatewayFront` | 1 client, 2 links, limits of 1, windows 1 and 2, TTLs -1..3 | `LinksWithinQuota`, `LinkKept` (which also bounds a link's TTL), `LimiterSpecs`; its `TypeOK` has the types of both limiters |
| `MC_Shortener` | 2 links, 2 savers, 1 click | `MapsAgree`, `FileComplete`, `NoUpdateForgotten`, `StoreSpec` (refinement of `URLStore`), `SavesEnd` |
| `MC_ServerLifecycle` | every subset of the six servers, 2 requests in flight in each | `ServersDrained`, `NeverSpins`, `ShutdownEnds` |
| `MC_WebSocketProxy` | 3 messages each way, buffers of 1 | `StreamsKept`, `ServiceEndsSession` |
| `MC_ControlServers` | 2 MCP connections, or one of each server; 1 tunnel that comes and goes; 7 kinds of requests, with and without the token | `AnswersFaithful`: requests are answered in turn and tell of the registry of their time; `SessionsServed`: connections do not hold each other up; `SessionsEnd`: goroutines of a client that left or was lost return, unless its session hangs behind its own packets; `HungForGood`: such a session hangs for ever |
| `MC_RemoteSide` | an agent with 3 tunnels (two of one name), 1 terminal, 1 visitor, 1 lost connection, 1 restart of the server, 2 starts of the agent | `ListensOnlyAccepted`, `ExitTellsTruth`, `AgentSettles` |

Two runs look for a statement of the repository that the code does not keep:

* `MC_TunnelCleanup_overdue`: "Delete after 1 year of inactivity"
  (`atunnels.yml:16`). A tunnel is disabled first, and passes skip disabled
  tunnels (`main.go:225`), so none that was disabled is ever deleted.
* `MC_Shortener_deleted`: "Remove from storage if configured"
  (`shortener.go:171`). FileStorage inherits DeleteURL, which writes nothing:
  a link deleted after the last save is back after a restart. (`Delete` has no
  caller in the server: the run is about the package.)

Three more divergences show in how properties had to be stated. `LinkKept` bounds
a TTL by the larger of `max_ttl` and `default_ttl`, as nothing compares the two
("limited by max allowed TTL from config", `gateway.go:334`): `max_ttl: 12`
with the default of 24 gives links of 24 hours. A limiter's limit is not a
number of "Requests per time window" (`gateway.go:130`) but a bound on it:
every admission starts the window anew, so a steady client is refused with
fewer admissions in the last window. And `ExitTellsTruth` cannot have `health`:
`Health` drops every error (`client.go:135`), so the command exits with 0 when
the server refuses, fails or is away, where two tests of the repository expect
an error (`client_test.go:273`, `main_test.go:193`) and fail on this code.

### Bounds

Each bound is a constant or named in a guard. Two goroutines are the least
that interleave, and every property of the manager is about one goroutine or a
pair; three is left to the proofs. Two tunnels on one name let a name be freed
and taken again, two names let one pass act on two tunnels. `EventCap = 1`
makes the channel full at once. `MaxRequests` (counts saturate) and
`MaxClicks = 1` are enough to tell a stale count from a present one. Ages
saturate at `DeleteAfter`; nothing in the code tells older ages apart. Six
ticks hold three windows of two. `MaxConns = 2` tells "one request answered"
from "all answered". Three messages through a buffer of one leave one waiting,
one in hand and one behind.

`MC_ControlServers` opens two connections in all (`MaxConns`): two MCP
connections or an MCP and an SSH one interleave, a third would only do what one
of them does. `MaxInputs = 4` weighs a request of an MCP client with 2 and a packet of a
session with 1, so that two requests, or four packets, or a request and two
packets come; `MaxSends = 2` lets a request follow another in the same
stream, which is what a `Read` can run together, `MaxPackets = 4` is
what it takes to leave a Write behind a stuck multiplexer: a shell request, a
line whose output finds no room after the welcome (`OutCap = 1` is the window),
a request that fills the queue (`ReqCap = 1` for the library's 16) and one that
stops the multiplexer. A session that reads nothing but waits for a line there
needs three. `SocketCap = 1` makes an unread answer block the next. In `MC_RemoteSide` the two http entries share a name, so
that one meets the other's registration, and the third has a protocol the agent
has no listener for; `MaxInputs = 1` gives a behaviour a command or a visitor,
`MaxStarts = 2` a start that meets what the one before has left registered.

The proofs have none of these bounds but those the
modules build into actions (`MaxRequests`, `MaxClicks`, `MaxTime`,
`MaxConns`, `MaxLosses` and their like), which are parameters there.

Deadlock is checked for the shortener, the cleanup and what its violations
need. It is not for the manager (IDs run out), the limiters and the gateway
front (the clock stops at `MaxTime`), the server process (it ends), a
WebSocket session (it ends), the control servers and the remote side (their clients may
do no more, and the bounds are reached).

### Fairness

* Manager: weak fairness of each goroutine inside a call. Its steps are
  computation and short critical sections; nothing is assumed of callers, or
  of a reader of the channel.
* Cleanup: weak fairness of the next pass (`time.Ticker`) and of the steps of
  a pass. Requests, operators and the clock are free.
* Shortener: weak fairness of a saver's steps and strong fairness of taking
  the file mutex: Go's `sync.Mutex` hands itself to a goroutine that has
  waited for a millisecond. A saver's goroutine may be cut off by a restart.
* Server process: weak fairness of main, and of answering requests in flight:
  the proxy gives a local service 30 seconds; that clients read their answers
  is assumed (no write timeout is set).
* WebSocket: weak fairness of both goroutines, and of the client reading what
  waits for it. The last one is an assumption about clients: without it
  `WriteMessage`, which has no deadline, keeps the handler for ever. Nothing
  is assumed of the service.
* Control servers: weak fairness of accepting a connection, of the
  multiplexer, and of the goroutine of each connection. Nothing is assumed of
  clients: the properties name the ones that wait for a client to read.
* Remote side: weak fairness of the agent's goroutines, of a running server's
  answer or refusal to each of its requests, and of its relays. Nothing is
  assumed of operators, visitors and the local service, and a server that is
  down may stay down.

### What properties do not say

`ServersDrained` holds for the gateway when main panics in the API's Stop
(`Shutdown(nil)`, `api.go:70`), which the model has as `ShutdownPanics`; it
says nothing of the MCP and SSH listeners, which nobody waits for. A client
that goes away does not end its WebSocket session as long as the local
service is silent (`gateway.go:551-568`): the model has these behaviours, and
`ServiceEndsSession` is about the other end only. `FileComplete` takes
`os.Rename` for atomic and does not cover a loss of power that loses written
data. Reads of `Tunnel.Status` without its lock are modelled as reads of the
old or the new value.

`AnswersFaithful` is about requests that came whole: two in one segment, or a
part of one, are dropped without an answer (`mcp.go:81`), as the model has it,
and a client that waits for the answer waits for ever. `get_tunnel_stats` takes
the name of a tunnel where `GetStats` expects an ID (`mcp.go:170`): the model
passes what the request has, so names are not found. The MCP accept loop ends
with its first error, after which nothing is accepted; the SSH loop goes on.
`SessionsEnd` makes an exception of a session that waits for a line, or for room
in its window, while the multiplexer holds a request nobody takes (`Hung`):
its goroutines stay with the process, as `HungForGood` says. An EOF that a
client sends without closing its channel is left out.

`SerialEventsTellStatus` is about a tunnel whose callers did not overlap: with
overlapping ones the last event may tell another status, and nothing in the
code promises otherwise. `OnlyIdleTouched` exempts a tunnel with a request
counted since the pass began. `AgentSettles` is about the agent's goroutines:
that a visitor has gone is not told to the local service.

`ExitTellsTruth` leaves out an exit code of 0 of `logs` and `health`, which
they have whatever status the server answers with. For `health` the tests say
otherwise, see above; nothing in the repository says what `logs` should do. It
also leaves out a code of 2: `T` panics when neither the
language nor English was loaded, even after the request has been carried out.
`AgentSettles` makes an exception of a name that is registered already: an
agent that was started again, or lost the answer to its first request, is
refused its own name until somebody deletes it. On the server of this
repository no entry ever gets its tunnel.

## 4. What is proved

Assumptions are the ones named in the modules: `LimitAssumption` and its
companions say that parameters are numbers, `NoSaverAssumption` and the like
that a marker is no member of its set. No proof uses fairness.

* `TunnelProofs`, for any sets of goroutines, names and tunnels and any
  capacity, about `TunnelManager` and `TunnelCleanup`. For the manager the type
  invariant and the four safety properties: `Inv` adds to
  them what the history variables remember (`Announcing`: who is between
  SetStatus and emit of a tunnel) and that a tunnel with `overlap` clear has at
  most one goroutine changing it (`Alone`); without that the event property is
  not inductive, as a second goroutine could be anywhere in its call.
  `RegistryCorrect` is the refinement of `Registry`: a step that changes the
  maps or a counter is one step there, all others are stutters. For the
  cleanup `CSpec => ManagerSpec`, step by step (`CleanupUsesManager`), and
  `OnlyIdleTouched` and `PassComplete` from an invariant that follows overdue
  tunnels through `listed`, `skipped` and `toDelete` (`OverdueKept`). The
  manager's properties and its refinement of `Registry` hold for `CSpec` too
  (`ManagerKeptByCleanup`, `CleanupKeepsRegistry`): what the servers rely on
  survives the cleanup and the requests that count on a tunnel after it is gone.
* `RateLimiterProofs`, for any limit (0 and negative ones included) and
  window: types, `AtMostQuotaPerWindow` and `RefusedOnlyAfterAdmission`. The
  invariant ties a visitor's count n to the history: any admission that is
  not one of the last n is more than a window older than the one Quota places
  after it (`Gap`, `Spread`), and a visitor forgotten by the cleanup was last
  seen more than a window ago (`Seen`).
* `ShortenerProofs`, for any links and savers: maps, file and pending updates,
  and `Spec => StoreSpec`. The invariant says who owns the mutex, that a file
  being written belongs to its owner, and that a saver has read each link
  between its present and its saved count (`ReadBetween`), so that a rename is
  a `Checkpoint`.
* `ServerLifecycleProofs`, for any number of requests: types, `ServersDrained`
  and `NeverSpins`, from an invariant that says which servers main
  has passed (`Passed`) and that a passed server is down for good (`Done`).
  That an accept loop always has a listener is part of `TypeOK`; it needs that
  no loop runs before main reaches the TCP gateway.
* `WebSocketProxyProofs`, for streams of any length and sockets of any size:
  types and `StreamsKept`. A stream is read as one sequence from what has
  arrived back to what waits; the invariant says which connections there are
  where the handler is (`Places`) and which goroutine has a message in hand
  (`Hands`), so that each step moves a message within the sequence and a lost
  tail leaves a beginning.
* `GatewayFrontProofs`, for any limits, windows, TTLs and links: both limiters
  are used as `RateLimiter` allows (`LimitersCorrect`), types, `LinkKept`, that
  each limiter keeps its quota (`QuotasKept`), and that the quota of the
  creation limiter is one of links: each link has an admission of its own
  (`Placed`), and of more links than the quota two have admissions a quota
  apart (a pigeonhole argument), so more than a window apart. `LinksCorrect`
  has no premise. tlapm cannot cite the theorems of an instance, so the
  argument of `RateLimiterProofs` is here once more, as lemmas about one
  client's visitor and admissions for any quota and window (`Paced`, kept by
  `PacedAdmit`, `PacedForget`, `PacedTick`), which both limiters use.
* `ControlServersProofs`, for any connections, tunnels, requests and
  capacities: types, `AnswersFaithful` and `HungForGood`. For answers the
  invariant adds what is in a stream
  (`Streamed`: the halves of requests in the order in which they were sent, at
  most two of each, none later than the last one sent; a `Read` that takes two
  neighbours as one request would break the turn otherwise) and what is
  remembered of the registry (`Watched`: the present is among the `views` of
  a request that is being handled, the counter never below `floor`, and a
  tunnel that was found was registered in one of the views). The registry's steps come
  in between, and only its lemma `RegistryFacts` (counters do not go back) is
  used of it. The window keeps its type because the room the server knows
  of, the output at the client and the reads on their way never make up more
  than it (`Windowed`, by the cardinality of the adjusts in a stream).
  `HungForGood` goes through every step of a session, its multiplexer and its
  client: what is appended, or cut off with the connection, is behind the
  request in the multiplexer's hand (`HungStep`).
* `RemoteSideProofs`, for any entries, terminals, commands, losses and
  restarts: types, `ListensOnlyAccepted` and `ExitTellsTruth`. The invariant
  says that a good answer was told by a server that carried the request out
  (`Told`), that its name is registered or was freed since (`Held`), that two
  entries do not hold one name (`Apart`), and that a terminal between two
  commands has no request under way (`Resting`).

Every safety invariant, action property and refinement that a passing run
checks is a theorem.
Only model-checked are the liveness properties (`CallsReturn`, `IdleDisabled`,
`SavesEnd`, `ShutdownEnds`, `ServiceEndsSession`, `SessionsServed`,
`SessionsEnd`, `AgentSettles`), as TLAPS has no rules for fairness, and the two
statements the code does not keep, which have counterexamples.

## 5. Not modelled

Byte counters, headers, bodies, random names and codes, formatting and
logging; colliding short IDs (32 random bits, `shortener.go:209`); TCP
forwarding (`handleTCPConnection` dials `localhost:0`, which nothing listens
on, so a connection is accepted and closed); HTTPS of the gateway (main passes
no certificate, so `StartHTTPS` returns at once); YAML parsing (values of a
configuration are constants); `internal/metrics`, the helpers of
`internal/auth` and `internal/storage`, which no other package uses; the
JavaScript and Python SDKs, which repeat the Go one. The read-write lock
of the shortener is not split into its acquisitions: `GetByCode`, which takes
it twice (`shortener.go:128`), has no caller. Unlocked reads and writes of one
word (`Status`, the listener of the MCP server) are taken for old or new
values.

## 6. Plan

Done: the modules above, in the order manager, limiter, shortener, cleanup,
process, gateway front, WebSocket session, registry, control servers, API with
agent and commands; proofs of the safety of all of them.

Next, in this order:

1. Theorems about steps: what no single call of the manager, the shortener or
   the agent may do, as action properties proved from the invariants there
   are.
2. A module for the lock of the shortener, with GetByCode's nested read lock
   and a waiting writer, if something comes to call it; colliding IDs.
