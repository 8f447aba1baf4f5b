--------------------------- MODULE TunnelManager ---------------------------
(***************************************************************************)
(* The in-memory tunnel registry of internal/tunnel/types.go: the manager  *)
(* with its two maps (tunnels by ID, byName), the tunnels they point to    *)
(* and the events channel.  Create and Delete hold m.mu from end to end    *)
(* and are one step each.  Start, Stop, Disable, Enable, Restart and       *)
(* UpdateStats release every lock between their parts, so each goroutine   *)
(* runs them as a sequence of steps:                                       *)
(*                                                                         *)
(*     Get (m.mu) -> SetStatus (t.mu) -> emit (no lock)                    *)
(*     Get (m.mu) -> Stats update (Stats.mu)                               *)
(*                                                                         *)
(* A tunnel ID stands for the *Tunnel pointer it was allocated with: 48    *)
(* random bits (generateID) are taken never to repeat.                     *)
(***************************************************************************)
EXTENDS Naturals

CONSTANTS
    Procs,          \* goroutines that call the manager
    Names,          \* tunnel names a configuration may ask for
    Ids,            \* tunnel IDs; their number bounds the creations of a run
    NoTunnel,       \* byName of a name that is not registered
    NoName,         \* name of a tunnel that was never created
    EventCap,       \* capacity of the events channel (100 in the code)
    MaxRequests     \* bound on the request counter of a tunnel

ASSUME NoTunnelAssumption == NoTunnel \notin Ids
ASSUME NoNameAssumption   == NoName \notin Names
ASSUME EventCapAssumption == EventCap \in Nat \ {0}
ASSUME MaxRequestsAssumption == MaxRequests \in Nat

VARIABLES
    created,    \* IDs allocated so far
    tunnels,    \* keys of manager.tunnels
    byName,     \* manager.byName
    name,       \* Tunnel.Name
    status,     \* Tunnel.Status
    requests,   \* Tunnel.Stats.TotalRequests
    queued,     \* number of events in manager.events, a buffered channel
    pc,         \* where each goroutine is: see Steps
    call,       \* the call each goroutine is in: see Calls
    restarted,  \* history: registered tunnels a Restart gave their status
    lastChange, \* history: the last status event offered, while registered
    overlap,    \* history: registered tunnels two goroutines changed at once
    late        \* history: goroutines that offered an event of the tunnel
                \* after it was deleted

registry == <<created, tunnels, byName, name>>
stats    == requests
channel  == <<queued, lastChange, late>>
vars     == <<created, tunnels, byName, name, status, requests, queued,
              pc, call, restarted, lastChange, overlap, late>>

-----------------------------------------------------------------------------
(* The vocabulary of the code.                                             *)

Statuses == {"pending", "active", "stopped", "disabled"}

StatusOps == {"start", "stop", "restart", "disable", "enable"}

\* The event an operation emits first; Restart is Stop followed by Start.
FirstEvent == [start   |-> "started",
               stop    |-> "stopped",
               restart |-> "stopped",
               disable |-> "disabled",
               enable  |-> "enabled"]

\* The status that goes with the event of an operation.
StatusOf == [started  |-> "active",
             stopped  |-> "stopped",
             disabled |-> "disabled",
             enabled  |-> "active"]

ChangeEvents == {"started", "stopped", "disabled", "enabled"}

(* A goroutine is idle, about to look the tunnel up again (get, only in    *)
(* the Start half of Restart), about to set the status (set), about to     *)
(* emit (emit), or about to add to the statistics (stats).                 *)
Steps == {"idle", "get", "set", "emit", "stats"}

NoCall == [op |-> "none", id |-> NoTunnel, event |-> "none"]

Calls == [op    : StatusOps \cup {"stats", "none"},
          id    : Ids \cup {NoTunnel},
          event : ChangeEvents \cup {"none"}]

-----------------------------------------------------------------------------

TypeOK ==
    /\ created \subseteq Ids
    /\ tunnels \subseteq created
    /\ byName \in [Names -> Ids \cup {NoTunnel}]
    /\ name \in [Ids -> Names \cup {NoName}]
    /\ status \in [Ids -> Statuses]
    /\ requests \in [Ids -> 0..MaxRequests]
    /\ queued \in 0..EventCap
    /\ pc \in [Procs -> Steps]
    /\ call \in [Procs -> Calls]
    /\ restarted \subseteq tunnels
    /\ lastChange \in [Ids -> ChangeEvents \cup {"none"}]
    /\ overlap \subseteq tunnels
    /\ late \in [Ids -> SUBSET Procs]

Init ==
    /\ created = {}
    /\ tunnels = {}
    /\ byName = [n \in Names |-> NoTunnel]
    /\ name = [i \in Ids |-> NoName]
    /\ status = [i \in Ids |-> "pending"]
    /\ requests = [i \in Ids |-> 0]
    /\ queued = 0
    /\ pc = [p \in Procs |-> "idle"]
    /\ call = [p \in Procs |-> NoCall]
    /\ restarted = {}
    /\ lastChange = [i \in Ids |-> "none"]
    /\ overlap = {}
    /\ late = [i \in Ids |-> {}]

-----------------------------------------------------------------------------
(* emit: a select with a default case.  The event is queued when the       *)
(* channel has room and is dropped otherwise; the sender never waits.  The *)
(* channel is kept as its length; what is offered to it, in lastChange.      *)

\* Mutants: a channel without a bound, and a send without the default case.
OfferUnbounded == queued' = queued + 1
OfferBlocking  == queued < EventCap /\ queued' = queued + 1

Offer == queued' = IF queued < EventCap THEN queued + 1 ELSE queued

\* Mutant: the name is not looked up.
CreateUnchecked(n) ==
    \E i \in Ids \ created :
        /\ created' = created \cup {i}
        /\ tunnels' = tunnels \cup {i}
        /\ byName' = [byName EXCEPT ![n] = i]
        /\ name' = [name EXCEPT ![i] = n]
        /\ Offer
        /\ UNCHANGED <<status, stats, pc, call, restarted, lastChange, overlap, late>>

\* Create: rejected when the name is taken, otherwise both maps get the new
\* tunnel and "created" is emitted before m.mu is released.
Create(n) ==
    /\ byName[n] = NoTunnel
    /\ \E i \in Ids \ created :
        /\ created' = created \cup {i}
        /\ tunnels' = tunnels \cup {i}
        /\ byName' = [byName EXCEPT ![n] = i]
        /\ name' = [name EXCEPT ![i] = n]
        /\ Offer
    /\ UNCHANGED <<status, stats, pc, call, restarted, lastChange, overlap, late>>

\* Mutant: Delete forgets the second map.
DeleteKeepsName(i) ==
    /\ i \in tunnels
    /\ tunnels' = tunnels \ {i}
    /\ Offer
    /\ restarted' = restarted \ {i}
    /\ lastChange' = [lastChange EXCEPT ![i] = "none"]
    /\ overlap' = overlap \ {i}
    /\ UNCHANGED <<created, byName, name, status, stats, pc, call, late>>

\* Delete: an error when the ID is unknown, otherwise the tunnel leaves both
\* maps and "deleted" is emitted before m.mu is released.
Delete(i) ==
    /\ i \in tunnels
    /\ tunnels' = tunnels \ {i}
    /\ byName' = [byName EXCEPT ![name[i]] = NoTunnel]
    /\ Offer
    /\ restarted' = restarted \ {i}
    /\ lastChange' = [lastChange EXCEPT ![i] = "none"]
    /\ overlap' = overlap \ {i}
    /\ UNCHANGED <<created, name, status, stats, pc, call, late>>

-----------------------------------------------------------------------------
(* Start, Stop, Restart, Disable and Enable, one step for each part.  A    *)
(* call on an unknown ID returns an error and changes nothing.             *)

\* The goroutines between the lookup of tunnel i and the event about it.
Changing(i) == {p \in Procs : pc[p] \in {"set", "emit"} /\ call[p].id = i}

\* A lookup has succeeded: the goroutine goes on to set the status.
Found(p, i) ==
    /\ pc' = [pc EXCEPT ![p] = "set"]
    /\ overlap' = IF Changing(i) = {} THEN overlap ELSE overlap \cup {i}

Begin(p, op, i) ==
    /\ pc[p] = "idle"
    /\ i \in tunnels
    /\ Found(p, i)
    /\ call' = [call EXCEPT ![p] = [op |-> op, id |-> i, event |-> FirstEvent[op]]]
    /\ UNCHANGED <<registry, status, stats, channel, restarted>>

WriteStatus(p, new) ==
    /\ pc[p] = "set"
    /\ status' = [status EXCEPT ![call[p].id] = new]
    /\ restarted' = IF call[p].op = "restart"
                    THEN restarted \cup ({call[p].id} \cap tunnels)
                    ELSE restarted \ {call[p].id}
    /\ pc' = [pc EXCEPT ![p] = "emit"]
    /\ UNCHANGED <<registry, stats, channel, call, overlap>>

\* Mutant: a disabled tunnel keeps its status.
SetStatusUnlessDisabled(p) ==
    WriteStatus(p, IF status[call[p].id] = "disabled"
                   THEN "disabled" ELSE StatusOf[call[p].event])

SetStatus(p) == WriteStatus(p, StatusOf[call[p].event])

\* Restart goes on with Start once its Stop has returned without an error.
Continues(p) == call[p].op = "restart" /\ call[p].event = "stopped"

Return(p) ==
    /\ pc' = [pc EXCEPT ![p] = "idle"]
    /\ call' = [call EXCEPT ![p] = NoCall]

Emit(p) ==
    /\ pc[p] = "emit"
    /\ Offer
    /\ IF call[p].id \in tunnels
       THEN /\ lastChange' = [lastChange EXCEPT ![call[p].id] = call[p].event]
            /\ UNCHANGED late
       ELSE /\ late' = [late EXCEPT ![call[p].id] = @ \cup {p}]
            /\ UNCHANGED lastChange
    /\ IF Continues(p)
       THEN pc' = [pc EXCEPT ![p] = "get"] /\ UNCHANGED call
       ELSE Return(p)
    /\ UNCHANGED <<registry, status, stats, restarted, overlap>>

\* The Get of Restart's Start: the tunnel may be gone by now, and Restart
\* then returns the error with its Stop already done.
RestartWhen(p, found) ==
    /\ pc[p] = "get"
    /\ IF found
       THEN /\ Found(p, call[p].id)
            /\ call' = [call EXCEPT ![p].event = "started"]
       ELSE Return(p) /\ UNCHANGED overlap
    /\ UNCHANGED <<registry, status, stats, channel, restarted>>

\* Mutants: Restart reuses the pointer of its Stop, or starts only a tunnel
\* it finds active.
RestartCached(p)   == RestartWhen(p, TRUE)
RestartIfActive(p) == RestartWhen(p, status[call[p].id] = "active")

RestartGet(p) == RestartWhen(p, call[p].id \in tunnels)

-----------------------------------------------------------------------------
(* UpdateStats: the lookup, then the counters under the statistics' lock.  *)
(* The update is dropped without an error when the tunnel is gone.         *)

StatsGet(p, i) ==
    /\ pc[p] = "idle"
    /\ i \in tunnels
    /\ pc' = [pc EXCEPT ![p] = "stats"]
    /\ call' = [call EXCEPT ![p] = [op |-> "stats", id |-> i, event |-> "none"]]
    /\ UNCHANGED <<registry, status, stats, channel, restarted, overlap>>

StatsAdd(p) ==
    /\ pc[p] = "stats"
    /\ requests' = [requests EXCEPT ![call[p].id] =
                        IF @ < MaxRequests THEN @ + 1 ELSE @]
    /\ Return(p)
    /\ UNCHANGED <<registry, status, channel, restarted, overlap>>

\* A reader of Subscribe's channel (outside src/) takes the oldest event.
Receive ==
    /\ queued > 0
    /\ queued' = queued - 1
    /\ UNCHANGED <<registry, status, stats, pc, call, restarted, lastChange, overlap, late>>

-----------------------------------------------------------------------------

Step(p) == SetStatus(p) \/ Emit(p) \/ RestartGet(p) \/ StatsAdd(p)

Next ==
    \/ \E n \in Names : Create(n)
    \/ \E i \in Ids : Delete(i)
    \/ \E p \in Procs, i \in Ids, op \in StatusOps : Begin(p, op, i)
    \/ \E p \in Procs, i \in Ids : StatsGet(p, i)
    \/ \E p \in Procs : SetStatus(p)
    \/ \E p \in Procs : Emit(p)
    \/ \E p \in Procs : RestartGet(p)
    \/ \E p \in Procs : StatsAdd(p)
    \/ Receive

Spec == Init /\ [][Next]_vars

(* The Go scheduler runs every goroutine that can run; t.mu and Stats.mu   *)
(* are held for a few assignments only.  Nothing obliges a subscriber to   *)
(* read the channel.                                                       *)
Fairness == \A p \in Procs : WF_vars(Step(p))

FairSpec == Spec /\ Fairness

-----------------------------------------------------------------------------
(* Safety.                                                                 *)

\* The two maps of the manager agree: every name leads to a registered
\* tunnel that bears it, and every registered tunnel is found by its name.
\* (Create and Delete write both maps, types.go:172-191 and 226-245.)
IndexConsistent ==
    /\ \A n \in Names : byName[n] /= NoTunnel =>
            byName[n] \in tunnels /\ name[byName[n]] = n
    /\ \A i \in tunnels : name[i] \in Names /\ byName[name[i]] = i

\* While the callers of a tunnel take turns, its last event tells its status
\* whenever none of them is about to emit: status and event are written in
\* two steps (SetStatus, then emit), so this is lost as soon as two of them
\* overlap.
SerialEventsTellStatus ==
    \A i \in tunnels :
        i \notin overlap /\ (\A p \in Changing(i) : pc[p] = "set") =>
            IF lastChange[i] = "none"
            THEN status[i] = "pending"
            ELSE status[i] = StatusOf[lastChange[i]]

\* A restart does not leave its tunnel stopped: as long as the tunnel is
\* registered and stopped by a restart, some Restart still has its Start
\* half before it (types.go:281-286).
RestartInProgress(p, i) ==
    /\ call[p].op = "restart"
    /\ call[p].id = i
    /\ \/ pc[p] = "emit" /\ call[p].event = "stopped"
       \/ pc[p] = "get"
       \/ pc[p] = "set" /\ call[p].event = "started"

RestartLeavesNoneStopped ==
    \A i \in tunnels :
        i \in restarted /\ status[i] = "stopped" =>
            \E p \in Procs : RestartInProgress(p, i)

\* After a tunnel is deleted a goroutine that had looked it up before may
\* still announce a change of it, once: whoever did so is not about to
\* change or announce that tunnel again (Get fails from then on).
AtMostOneLateEvent ==
    \A i \in created \ tunnels : late[i] \cap Changing(i) = {}

\* The manager implements Registry: names are unique among the registered
\* tunnels, IDs are not given out twice and counters only grow, whatever the
\* goroutines do between their lookups and their updates (types.go:172-338).
Reg == INSTANCE Registry WITH
    used  <- created,
    reg   <- [i \in Ids |-> IF i \in tunnels THEN name[i] ELSE NoName],
    count <- requests

RegistrySpec == Reg!RSpec

(* Liveness.                                                               *)

\* Every call returns, even when no subscriber ever reads the channel and it
\* stays full (emit never blocks, types.go:344-349).
CallsReturn == \A p \in Procs : pc[p] /= "idle" ~> pc[p] = "idle"
=============================================================================
