---------------------------- MODULE GatewayFront ----------------------------
(***************************************************************************)
(* The front door of internal/gateway/gateway.go: what the constructor     *)
(* makes of the configuration, the limiter every rate-limited handler asks *)
(* first, and POST /api/shorten, which asks a limiter of its own and gives *)
(* out links that live for a time.                                         *)
(*                                                                         *)
(* Both limiters are instances of RateLimiter and share its clock, which   *)
(* also runs the TTLs and the cleanup of expired links.  What happens to a *)
(* request once it is admitted is modelled in TunnelCleanup and what       *)
(* happens to a stored link in Shortener.                                  *)
(***************************************************************************)
EXTENDS Integers, Sequences, FiniteSets

CONSTANTS
    Clients,            \* the addresses getClientIP returns
    Links,              \* links; their number bounds the creations of a run
    RateLimit,          \* GatewayConfig.RateLimit
    ShortenerRateLimit, \* GatewayConfig.ShortenerRateLimit
    ShortenerPeriod,    \* GatewayConfig.ShortenerPeriod
    CleanupFreq,        \* GatewayConfig.Shortener.CleanupFreq
    Enabled,            \* GatewayConfig.Shortener.Enabled
    Minute, Hour,       \* the constructor's fallbacks, in ticks
    ConfigTTLs,         \* values of default_ttl and max_ttl a file may give
    RequestTTLs,        \* values of "ttl" a request may give
    DefaultDefault,     \* what setDefaults puts for a default_ttl of 0
    DefaultMax,         \* and for a max_ttl of 0
    MaxTime             \* bound on the clock

ASSUME FrontAssumption ==
    /\ RateLimit \in Int /\ ShortenerRateLimit \in Int
    /\ ShortenerPeriod \in Int /\ CleanupFreq \in Int
    /\ Enabled \in BOOLEAN
    /\ Minute \in Nat /\ Hour \in Nat /\ MaxTime \in Nat
    /\ ConfigTTLs \subseteq Int /\ RequestTTLs \subseteq Int
    /\ DefaultDefault \in Nat /\ DefaultMax \in Nat

VARIABLES
    now,            \* the clock
    defaultTTL,     \* GatewayConfig.Shortener.DefaultTTL
    maxTTL,         \* GatewayConfig.Shortener.MaxTTL
    reqVisitors, reqAdmitted, reqRefused,   \* Gateway.rateLimiter
    newVisitors, newAdmitted, newRefused,   \* Gateway.shortenLimiter
    links,          \* links the shortener holds
    issued          \* what was answered for each link: see Answer

config   == <<defaultTTL, maxTTL>>
requests == <<reqVisitors, reqAdmitted, reqRefused>>
creation == <<newVisitors, newAdmitted, newRefused>>
vars     == <<now, defaultTTL, maxTTL, reqVisitors, reqAdmitted, reqRefused,
              newVisitors, newAdmitted, newRefused, links, issued>>

-----------------------------------------------------------------------------
(* The constructor.  The window of the request limiter is the period of    *)
(* the link cleanup; limits.rate_limit_period does not reach the gateway.  *)

RateWindow == IF Enabled /\ CleanupFreq > 0 THEN CleanupFreq ELSE Minute

ShortenWindow == IF ShortenerPeriod > 0 THEN ShortenerPeriod ELSE Hour

Requests == INSTANCE RateLimiter
                WITH Limit <- RateLimit, Window <- RateWindow,
                     visitors <- reqVisitors, admitted <- reqAdmitted,
                     refused <- reqRefused

Creation == INSTANCE RateLimiter
                WITH Limit <- ShortenerRateLimit, Window <- ShortenWindow,
                     visitors <- newVisitors, admitted <- newAdmitted,
                     refused <- newRefused

Defaulted(v, default) == IF v = 0 THEN default ELSE v

\* ShortenResponse, with the client it went to.
Answer == [client : Clients, at : Nat, expires : Int]

TypeOK ==
    /\ Requests!TypeOK
    /\ Creation!TypeOK
    /\ defaultTTL \in Int /\ maxTTL \in Int
    /\ links \subseteq DOMAIN issued
    /\ DOMAIN issued \subseteq Links
    /\ \A i \in DOMAIN issued : issued[i] \in Answer

Init ==
    /\ Requests!Init
    /\ Creation!Init
    /\ \E d, m \in ConfigTTLs :
          /\ defaultTTL = Defaulted(d, DefaultDefault)
          /\ maxTTL = Defaulted(m, DefaultMax)
    /\ links = {}
    /\ issued = [i \in {} |-> 0]

-----------------------------------------------------------------------------

Tick ==
    /\ Requests!Tick
    /\ Creation!Tick
    /\ UNCHANGED <<config, links, issued>>

\* The ticker goroutines of the two limiters.
CleanupRequests ==
    /\ Requests!Cleanup
    /\ UNCHANGED <<config, creation, links, issued>>

CleanupCreation ==
    /\ Creation!Cleanup
    /\ UNCHANGED <<config, requests, links, issued>>

(* A request to /, /metrics or the short URLs: admitted and handed to its  *)
(* handler, or answered with 429.  /health asks no limiter.                *)

Admit(c) ==
    /\ Requests!AllowFirst(c) \/ Requests!AllowNext(c)
    /\ UNCHANGED <<config, creation, links, issued>>

TooMany(c) ==
    /\ Requests!Refuse(c)
    /\ UNCHANGED <<config, creation, links, issued>>

-----------------------------------------------------------------------------
(* handleShortenURL.                                                       *)

AllowCreation(c) == Creation!AllowFirst(c) \/ Creation!AllowNext(c)

TooManyLinks(c) ==
    /\ Creation!Refuse(c)
    /\ UNCHANGED <<config, requests, links, issued>>

\* Mutant: a rejected request is taken off the visitor's count again.
RejectBodyGivesBack(c) ==
    /\ Creation!Exists(c)
    /\ newVisitors' = [newVisitors EXCEPT ![c].Requests = @ - 1]
    /\ UNCHANGED <<now, newAdmitted, newRefused, config, requests, links, issued>>

\* The limiter has counted a request whose body or URL is then rejected.
RejectBody(c) ==
    /\ AllowCreation(c)
    /\ UNCHANGED <<config, requests, links, issued>>

\* The hours a link gets when the request asks for ttl.
TTL(ttl) ==
    IF 0 < ttl /\ ttl <= maxTTL THEN ttl
    ELSE IF ttl > maxTTL THEN maxTTL ELSE defaultTTL

Give(c, i, hours) ==
    /\ i \in Links \ DOMAIN issued
    /\ links' = links \cup {i}
    /\ issued' = [j \in DOMAIN issued \cup {i} |->
                    IF j = i THEN [client |-> c, at |-> now, expires |-> now + hours]
                    ELSE issued[j]]
    /\ UNCHANGED <<config, requests>>

\* Mutants: the limiter is not asked; the TTL asked for is taken as it is.
ShortenUnlimited(c, i, ttl) == Give(c, i, TTL(ttl)) /\ UNCHANGED <<now, creation>>
ShortenAsAsked(c, i, ttl)   == AllowCreation(c) /\ Give(c, i, ttl)

Shorten(c, i, ttl) == AllowCreation(c) /\ Give(c, i, TTL(ttl))

\* Mutant: a link is removed a tick early.
CleanupLinksEarly ==
    /\ CleanupFreq > 0
    /\ links' = {i \in links : issued[i].expires > now}
    /\ UNCHANGED <<now, config, requests, creation, issued>>

\* Shortener.Cleanup, when startCleanupTicker has started it.
CleanupLinks ==
    /\ CleanupFreq > 0
    /\ links' = {i \in links : issued[i].expires >= now}
    /\ UNCHANGED <<now, config, requests, creation, issued>>

-----------------------------------------------------------------------------

Next ==
    \/ Tick
    \/ CleanupRequests
    \/ CleanupCreation
    \/ \E c \in Clients : Admit(c)
    \/ \E c \in Clients : TooMany(c)
    \/ \E c \in Clients : TooManyLinks(c)
    \/ \E c \in Clients : RejectBody(c)
    \/ \E c \in Clients, i \in Links, ttl \in RequestTTLs : Shorten(c, i, ttl)
    \/ CleanupLinks

Spec == Init /\ [][Next]_vars

-----------------------------------------------------------------------------
(* Safety.                                                                 *)

\* No client is given more links in a window than its limit allows, whatever
\* it does at the other endpoints and however the cleanups are timed
\* (gateway.go:315-321).
LinksWithinQuota ==
    \A S \in SUBSET DOMAIN issued :
        /\ Cardinality(S) > Creation!Quota
        /\ \A i, j \in S : issued[i].client = issued[j].client
        => \E i, j \in S : issued[j].at - issued[i].at > ShortenWindow

\* A link is kept until the time its answer gave: expires_at is a promise
\* the cleanup keeps (gateway.go:354-359, shortener.go:191-207).  That time is
\* within the larger TTL of the configuration, whatever is asked; within
\* max_ttl it need not be, as default_ttl is not compared with it.
LinkKept ==
    \A i \in DOMAIN issued :
        /\ now <= issued[i].expires => i \in links
        /\ issued[i].expires - issued[i].at <= (IF maxTTL > defaultTTL THEN maxTTL ELSE defaultTTL)

\* The gateway uses each limiter as RateLimiter allows, and no endpoint
\* spends the quota of another.
LimiterSpecs == Requests!Spec /\ Creation!Spec
=============================================================================
