--------------------------- MODULE TunnelCleanup ---------------------------
(***************************************************************************)
(* The inactivity cleanup of cmd/server/main.go and the HTTP requests of   *)
(* internal/gateway/gateway.go at work on one TunnelManager.               *)
(*                                                                         *)
(* A pass of runCleanupOnce lists the tunnels, looks at each of them, and  *)
(* only then applies its decisions one by one through the manager.  An     *)
(* HTTP request looks its tunnel up, checks that it is active, forwards    *)
(* the request and counts it.  Both work on pointers they looked up        *)
(* before, with no lock in between, while other goroutines (Begin) call    *)
(* the manager.                                                            *)
(*                                                                         *)
(* Time is kept as the age of each tunnel: the ticks since its last        *)
(* counted request, or since its creation.                                 *)
(***************************************************************************)
EXTENDS TunnelManager

CONSTANTS
    Cleaner,        \* the goroutine of runCleanup
    OperatorOps,    \* what the other goroutines may ask of a tunnel
    DisableAfter,   \* ServerConfig.DisableAfter, in ticks
    DeleteAfter     \* ServerConfig.DeleteAfter, in ticks

ASSUME CleanerAssumption == Cleaner \in Procs
ASSUME OpsAssumption     == OperatorOps \subseteq StatusOps
ASSUME PeriodAssumption  == DisableAfter \in Nat \ {0} /\ DeleteAfter \in Nat \ {0}

VARIABLES
    age,        \* now - LastRequestAt (or CreatedAt), up to MaxAge
    phase,      \* of the pass: sleep, examine, apply
    listed,     \* tunnels listed by the pass and not examined yet
    toDelete,   \* decisions not applied yet
    toDisable,
    target,     \* the tunnel an HTTP handler serves
    hpc,        \* where an HTTP handler is: idle, found, proxy
    fresh,      \* history: tunnels a request was counted for since the scan
    overdue,    \* history: tunnels past DeleteAfter when the last pass began
    skipped     \* history: tunnels the last pass found disabled

pass     == <<phase, listed, toDelete, toDisable, overdue, skipped>>
handlers == <<target, hpc>>
cvars    == <<vars, age, phase, listed, toDelete, toDisable, target, hpc,
              fresh, overdue, skipped>>

Handlers == Procs \ {Cleaner}

\* Ages are compared with the two periods only, so they may stop there.
MaxAge == IF DisableAfter > DeleteAfter THEN DisableAfter ELSE DeleteAfter

CTypeOK ==
    /\ TypeOK
    /\ age \in [Ids -> 0..MaxAge]
    /\ phase \in {"sleep", "examine", "apply"}
    /\ listed \subseteq created
    /\ toDelete \subseteq created
    /\ toDisable \subseteq created
    /\ target \in [Handlers -> Ids \cup {NoTunnel}]
    /\ hpc \in [Handlers -> {"idle", "found", "proxy"}]
    /\ fresh \subseteq created
    /\ overdue \subseteq created
    /\ skipped \subseteq created

CInit ==
    /\ Init
    /\ age = [i \in Ids |-> 0]
    /\ phase = "sleep"
    /\ listed = {} /\ toDelete = {} /\ toDisable = {}
    /\ target = [h \in Handlers |-> NoTunnel]
    /\ hpc = [h \in Handlers |-> "idle"]
    /\ fresh = {} /\ overdue = {} /\ skipped = {}

-----------------------------------------------------------------------------
(* A tick is long (hours) against the examination of the list, which reads *)
(* the clock once; it may fall between any other two steps.                *)

Tick ==
    /\ phase /= "examine"
    /\ age' = [i \in Ids |-> IF i \in created /\ age[i] < MaxAge
                             THEN age[i] + 1 ELSE age[i]]
    /\ UNCHANGED <<vars, pass, handlers, fresh>>

-----------------------------------------------------------------------------
(* runCleanupOnce.                                                         *)

StartPass ==
    /\ phase = "sleep"
    /\ phase' = "examine"
    /\ listed' = tunnels
    /\ fresh' = {}
    /\ overdue' = {i \in tunnels : age[i] >= DeleteAfter}
    /\ skipped' = {}
    /\ UNCHANGED <<vars, age, toDelete, toDisable, handlers>>

\* The decision about tunnel i: nothing for a disabled one.
Decide(i, skip, delete, disable) ==
    /\ phase = "examine"
    /\ i \in listed
    /\ listed' = listed \ {i}
    /\ skipped' = IF skip THEN skipped \cup {i} ELSE skipped
    /\ toDelete' = IF ~skip /\ delete THEN toDelete \cup {i} ELSE toDelete
    /\ toDisable' = IF ~skip /\ ~delete /\ disable
                    THEN toDisable \cup {i} ELSE toDisable
    /\ UNCHANGED <<vars, age, phase, handlers, fresh, overdue>>

\* Mutants: the periods are swapped; the shorter period is tried first; only
\* active tunnels are considered.
ExamineSwapped(i) ==
    Decide(i, status[i] = "disabled", age[i] >= DisableAfter, age[i] >= DeleteAfter)
ExamineDisableFirst(i) ==
    Decide(i, status[i] = "disabled",
           age[i] >= DeleteAfter /\ age[i] < DisableAfter, age[i] >= DisableAfter)
ExamineActive(i) ==
    Decide(i, status[i] /= "active", age[i] >= DeleteAfter, age[i] >= DisableAfter)

Examine(i) ==
    Decide(i, status[i] = "disabled", age[i] >= DeleteAfter, age[i] >= DisableAfter)

Examined ==
    /\ phase = "examine"
    /\ listed = {}
    /\ phase' = "apply"
    /\ UNCHANGED <<vars, age, listed, toDelete, toDisable, handlers, fresh, overdue, skipped>>

\* The cleaner is between two decisions.
Ready == phase = "apply" /\ pc[Cleaner] = "idle"

ApplyDelete(i) ==
    /\ Ready
    /\ i \in toDelete
    /\ toDelete' = toDelete \ {i}
    /\ Delete(i)
    /\ UNCHANGED <<age, phase, listed, toDisable, handlers, fresh, overdue, skipped>>

\* Mutant: the cleaner writes the status itself.
ApplyDisableDirect(i) ==
    /\ Ready
    /\ i \in toDisable
    /\ toDisable' = toDisable \ {i}
    /\ status' = [status EXCEPT ![i] = "disabled"]
    /\ UNCHANGED <<registry, stats, channel, pc, call, restarted, overlap,
                   age, phase, listed, toDelete, handlers, fresh, overdue, skipped>>

ApplyDisable(i) ==
    /\ Ready
    /\ i \in toDisable
    /\ toDisable' = toDisable \ {i}
    /\ Begin(Cleaner, "disable", i)
    /\ UNCHANGED <<age, phase, listed, toDelete, handlers, fresh, overdue, skipped>>

\* The manager returns an error for a tunnel deleted since; it is logged.
ApplyError(i) ==
    /\ Ready
    /\ i \in toDelete \cup toDisable
    /\ i \notin tunnels
    /\ toDelete' = toDelete \ {i}
    /\ toDisable' = toDisable \ {i}
    /\ UNCHANGED <<vars, age, phase, listed, handlers, fresh, overdue, skipped>>

EndPass ==
    /\ Ready
    /\ toDelete = {} /\ toDisable = {}
    /\ phase' = "sleep"
    /\ UNCHANGED <<vars, age, listed, toDelete, toDisable, handlers, fresh, overdue, skipped>>

-----------------------------------------------------------------------------
(* handleHTTPRequest.  Requests refused before the lookup, for an unknown  *)
(* name or for a local address change nothing and are left out.            *)

Lookup(h, n) ==
    /\ pc[h] = "idle" /\ hpc[h] = "idle"
    /\ byName[n] /= NoTunnel
    /\ hpc' = [hpc EXCEPT ![h] = "found"]
    /\ target' = [target EXCEPT ![h] = byName[n]]
    /\ UNCHANGED <<vars, age, pass, fresh>>

Finish(h) ==
    /\ hpc' = [hpc EXCEPT ![h] = "idle"]
    /\ target' = [target EXCEPT ![h] = NoTunnel]

\* The status is read without a lock; other than active means 503.
CheckActive(h) ==
    /\ hpc[h] = "found"
    /\ IF status[target[h]] = "active"
       THEN hpc' = [hpc EXCEPT ![h] = "proxy"] /\ UNCHANGED target
       ELSE Finish(h)
    /\ UNCHANGED <<vars, age, pass, fresh>>

\* The local service does not answer (502): the request is not counted.
ProxyFails(h) ==
    /\ hpc[h] = "proxy"
    /\ Finish(h)
    /\ UNCHANGED <<vars, age, pass, fresh>>

\* The answer has been copied; UpdateStats begins, or finds no tunnel.
ProxyDone(h) ==
    /\ hpc[h] = "proxy"
    /\ IF target[h] \in tunnels THEN StatsGet(h, target[h]) ELSE UNCHANGED vars
    /\ Finish(h)
    /\ UNCHANGED <<age, pass, fresh>>

\* The end of UpdateStats, LastRequestAt = now included.
Count(p) ==
    /\ StatsAdd(p)
    /\ age' = [age EXCEPT ![call[p].id] = 0]
    /\ fresh' = fresh \cup {call[p].id}
    /\ UNCHANGED <<pass, handlers>>

-----------------------------------------------------------------------------
(* The steps of the manager itself, for every goroutine.                   *)

ManagerStep ==
    /\ \/ \E n \in Names : Create(n)
       \/ \E i \in Ids : Delete(i)
       \/ \E p \in Handlers, i \in Ids, op \in OperatorOps :
             hpc[p] = "idle" /\ Begin(p, op, i)
       \/ Receive
    /\ UNCHANGED <<age, pass, handlers, fresh>>

CallStep(p) ==
    /\ SetStatus(p) \/ Emit(p) \/ RestartGet(p)
    /\ UNCHANGED <<age, pass, handlers, fresh>>

CleanerStep ==
    \/ \E i \in Ids : Examine(i)
    \/ Examined
    \/ \E i \in Ids : ApplyDelete(i)
    \/ \E i \in Ids : ApplyDisable(i)
    \/ \E i \in Ids : ApplyError(i)
    \/ EndPass
    \/ CallStep(Cleaner)

CNext ==
    \/ Tick
    \/ StartPass
    \/ CleanerStep
    \/ \E h \in Handlers, n \in Names : Lookup(h, n)
    \/ \E h \in Handlers : CheckActive(h)
    \/ \E h \in Handlers : ProxyFails(h)
    \/ \E h \in Handlers : ProxyDone(h)
    \/ \E h \in Handlers : Count(h)
    \/ \E h \in Handlers : CallStep(h)
    \/ ManagerStep

CSpec == CInit /\ [][CNext]_cvars

(* time.Ticker starts pass after pass, and a goroutine that can run does.  *)
(* Clients, operators and the clock are free.                              *)
CFairness ==
    /\ WF_cvars(StartPass)
    /\ WF_cvars(CleanerStep)

CFairSpec == CSpec /\ CFairness

-----------------------------------------------------------------------------
(* Safety.                                                                 *)

\* Only a request counted after the pass had begun can make the cleaner touch
\* a tunnel in use: what it has decided to delete has otherwise been idle for
\* DeleteAfter, and what it has decided or is about to disable for
\* DisableAfter (main.go:208-262).
OnlyIdleTouched ==
    /\ \A i \in toDelete \ fresh : age[i] >= DeleteAfter
    /\ \A i \in toDisable \ fresh : age[i] >= DisableAfter
    /\ pc[Cleaner] = "set" /\ call[Cleaner].id \notin fresh =>
            age[call[Cleaner].id] >= DisableAfter

\* A pass leaves no work undone: when it is over, every tunnel that was past
\* DeleteAfter when it began is gone, unless it was disabled when the pass
\* came to it or a request was counted for it since.  One failing decision
\* does not keep the pass from the others (main.go:244-261).
PassComplete ==
    phase = "sleep" => overdue \cap tunnels \subseteq fresh \cup skipped

\* "delete_after: Delete after 1 year of inactivity" (atunnels.yml): when a
\* pass is over, no tunnel that was past DeleteAfter when it began is still
\* registered, unless a request was counted for it since.  Passes skip
\* disabled tunnels, and DisableAfter comes first: this does not hold.
OverdueDeleted ==
    phase = "sleep" => overdue \cap tunnels \subseteq fresh

\* Every step of the cleanup and of the requests is a step of the manager
\* or leaves it alone, so what TunnelManager guarantees still holds.
ManagerSpec == Spec

(* Liveness.                                                               *)

\* A tunnel that stays registered and idle past DisableAfter is disabled
\* again and again, whoever enables it in the meantime.
IdleDisabled ==
    \A i \in Ids :
        <>[](i \in tunnels /\ age[i] >= DisableAfter) => []<>(status[i] = "disabled")
=============================================================================
