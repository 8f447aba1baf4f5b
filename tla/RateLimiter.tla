---------------------------- MODULE RateLimiter ----------------------------
(***************************************************************************)
(* The per-client request limiter of internal/gateway/gateway.go: a map of *)
(* visitors guarded by one mutex, Allow, and the goroutine that removes    *)
(* visitors not seen for a window.  The gateway has two of them, one for   *)
(* requests, metrics and redirects and one for /api/shorten.               *)
(*                                                                         *)
(* Each call reads the clock while it holds the mutex, so calls happen in  *)
(* the order of the times they use and each one is a single step.          *)
(***************************************************************************)
EXTENDS Integers, Sequences, FiniteSets

CONSTANTS
    Clients,    \* the IP addresses getClientIP returns
    Limit,      \* RateLimiter.limit, any integer of the configuration
    Window,     \* RateLimiter.window
    MaxTime     \* bound on the clock

ASSUME LimitAssumption  == Limit \in Int
ASSUME WindowAssumption == Window \in Nat
ASSUME TimeAssumption   == MaxTime \in Nat

VARIABLES
    now,        \* the clock
    visitors,   \* RateLimiter.visitors: a Visitor for each known client
    admitted,   \* history: the times at which each client was let through
    refused     \* history: the time of each client's last refusal

vars == <<now, visitors, admitted, refused>>

Never == -1

\* A client without a map entry has no requests.
Unknown == [Requests |-> 0, LastSeen |-> 0]

Visitor == [Requests : Nat, LastSeen : Nat]

\* A new visitor is let through whatever the limit is.
Quota == IF Limit > 1 THEN Limit ELSE 1

-----------------------------------------------------------------------------

TypeOK ==
    /\ now \in Nat
    /\ visitors \in [Clients -> Visitor]
    /\ \A c \in Clients : visitors[c].Requests <= Quota
    /\ admitted \in [Clients -> Seq(Nat)]
    /\ refused \in [Clients -> Nat \cup {Never}]

Init ==
    /\ now = 0
    /\ visitors = [c \in Clients |-> Unknown]
    /\ admitted = [c \in Clients |-> <<>>]
    /\ refused = [c \in Clients |-> Never]

Tick ==
    /\ now < MaxTime
    /\ now' = now + 1
    /\ UNCHANGED <<visitors, admitted, refused>>

-----------------------------------------------------------------------------
(* Allow(c), by the way it returns.                                        *)

Exists(c) == visitors[c].Requests > 0

\* A window has passed since the client was let through for the last time.
Expired(c) == now - visitors[c].LastSeen > Window

\* The client goes through and its map entry counts n requests.
Admit(c, n) ==
    /\ visitors' = [visitors EXCEPT ![c] = [Requests |-> n, LastSeen |-> now]]
    /\ admitted' = [admitted EXCEPT ![c] = Append(@, now)]
    /\ UNCHANGED <<now, refused>>

AllowFirst(c) == (~Exists(c) \/ Expired(c)) /\ Admit(c, 1)

\* Mutant: the limit is compared with > instead of >=.
AllowOneTooMany(c) ==
    /\ Exists(c) /\ ~Expired(c)
    /\ visitors[c].Requests <= Limit
    /\ Admit(c, visitors[c].Requests + 1)

AllowNext(c) ==
    /\ Exists(c) /\ ~Expired(c)
    /\ visitors[c].Requests < Limit
    /\ Admit(c, visitors[c].Requests + 1)

\* Mutant: a refused request counts as a visit.
RefuseAndRefresh(c) ==
    /\ Exists(c) /\ ~Expired(c)
    /\ visitors[c].Requests >= Limit
    /\ refused' = [refused EXCEPT ![c] = now]
    /\ visitors' = [visitors EXCEPT ![c].LastSeen = now]
    /\ UNCHANGED <<now, admitted>>

\* The refusal returns before LastSeen is written.
Refuse(c) ==
    /\ Exists(c) /\ ~Expired(c)
    /\ visitors[c].Requests >= Limit
    /\ refused' = [refused EXCEPT ![c] = now]
    /\ UNCHANGED <<now, visitors, admitted>>

\* Mutant: the cleanup forgets every visitor.
CleanupAll ==
    /\ visitors' = [c \in Clients |-> Unknown]
    /\ UNCHANGED <<now, admitted, refused>>

\* A tick of the cleanup goroutine, every minute whatever the window is.
Cleanup ==
    /\ visitors' = [c \in Clients |-> IF Expired(c) THEN Unknown ELSE visitors[c]]
    /\ UNCHANGED <<now, admitted, refused>>

Next ==
    \/ Tick
    \/ \E c \in Clients : AllowFirst(c)
    \/ \E c \in Clients : AllowNext(c)
    \/ \E c \in Clients : Refuse(c)
    \/ Cleanup

Spec == Init /\ [][Next]_vars

-----------------------------------------------------------------------------
(* Safety.                                                                 *)

\* No interval as long as the window sees more than Quota requests of one
\* client go through, wherever the interval starts and however the cleanup
\* is timed: a request and the one Quota places after it are more than a
\* window apart.
AtMostQuotaPerWindow ==
    \A c \in Clients : \A k \in 1..(Len(admitted[c]) - Quota) :
        admitted[c][k + Quota] - admitted[c][k] > Window

\* A client that is refused was let through less than a window ago: asking
\* again and again does not lock it out, because a refusal leaves LastSeen
\* alone (gateway.go:73-77).
RefusedOnlyAfterAdmission ==
    \A c \in Clients : refused[c] /= Never =>
        \E k \in DOMAIN admitted[c] :
            refused[c] - Window <= admitted[c][k] /\ admitted[c][k] <= refused[c]
=============================================================================
