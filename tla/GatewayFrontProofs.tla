------------------------- MODULE GatewayFrontProofs -------------------------
(***************************************************************************)
(* Proofs about GatewayFront, for any limits, windows, TTLs and links: the *)
(* front uses both limiters as RateLimiter allows, so that each keeps its  *)
(* quota, keeps its promises of expires_at, and hands the quota of the     *)
(* second limiter on to the links.                                         *)
(***************************************************************************)
EXTENDS GatewayFront, FiniteSetTheorems, WellFoundedInduction, TLAPS

USE FrontAssumption

-----------------------------------------------------------------------------
(* Each limiter is used as RateLimiter allows.                             *)

LEMMA RequestsStep == [Next]_vars => [Requests!Next]_(Requests!vars)
<1> SUFFICES ASSUME [Next]_vars PROVE [Requests!Next]_(Requests!vars)
  OBVIOUS
<1> USE DEF Requests!Next, Requests!vars
<1>1. CASE Tick
  BY <1>1 DEF Tick
<1>2. CASE CleanupRequests
  BY <1>2 DEF CleanupRequests
<1>3. ASSUME NEW c \in Clients, Admit(c) \/ TooMany(c)
      PROVE  Requests!Next
  BY <1>3 DEF Admit, TooMany
<1>4. ASSUME NEW c \in Clients, TooManyLinks(c) \/ RejectBody(c)
      PROVE  UNCHANGED Requests!vars
  BY <1>4 DEF TooManyLinks, RejectBody, AllowCreation, Creation!Refuse, Creation!AllowFirst,
              Creation!AllowNext, Creation!Admit, requests
<1>5. ASSUME NEW c \in Clients, NEW i \in Links, NEW ttl \in RequestTTLs, Shorten(c, i, ttl)
      PROVE  UNCHANGED Requests!vars
  BY <1>5 DEF Shorten, Give, AllowCreation, Creation!AllowFirst, Creation!AllowNext,
              Creation!Admit, requests
<1>6. CASE CleanupCreation \/ CleanupLinks
  BY <1>6 DEF CleanupCreation, Creation!Cleanup, CleanupLinks, requests
<1>7. CASE UNCHANGED vars
  BY <1>7 DEF vars
<1> QED
  BY <1>1, <1>2, <1>3, <1>4, <1>5, <1>6, <1>7 DEF Next

LEMMA CreationStep == [Next]_vars => [Creation!Next]_(Creation!vars)
<1> SUFFICES ASSUME [Next]_vars PROVE [Creation!Next]_(Creation!vars)
  OBVIOUS
<1> USE DEF Creation!Next, Creation!vars
<1>1. CASE Tick
  BY <1>1 DEF Tick
<1>2. CASE CleanupCreation
  BY <1>2 DEF CleanupCreation
<1>3. ASSUME NEW c \in Clients, TooManyLinks(c) \/ RejectBody(c)
      PROVE  Creation!Next
  BY <1>3 DEF TooManyLinks, RejectBody, AllowCreation
<1>4. ASSUME NEW c \in Clients, NEW i \in Links, NEW ttl \in RequestTTLs, Shorten(c, i, ttl)
      PROVE  Creation!Next
  BY <1>4 DEF Shorten, AllowCreation
<1>5. ASSUME NEW c \in Clients, Admit(c) \/ TooMany(c)
      PROVE  UNCHANGED Creation!vars
  BY <1>5 DEF Admit, TooMany, Requests!Refuse, Requests!AllowFirst, Requests!AllowNext,
              Requests!Admit, creation
<1>6. CASE CleanupRequests \/ CleanupLinks
  BY <1>6 DEF CleanupRequests, Requests!Cleanup, CleanupLinks, creation
<1>7. CASE UNCHANGED vars
  BY <1>7 DEF vars
<1> QED
  BY <1>1, <1>2, <1>3, <1>4, <1>5, <1>6, <1>7 DEF Next

\* The handlers that share a limiter, the ticker goroutines and the handlers
\* that charge a request and then reject it all keep to Allow: neither limiter
\* sees a step that RateLimiter does not have (gateway.go:130-170).
THEOREM LimitersCorrect == Spec => LimiterSpecs
<1>1. Init => Requests!Init /\ Creation!Init
  BY DEF Init
<1> QED
  BY <1>1, RequestsStep, CreationStep, PTL DEF Spec, LimiterSpecs, Requests!Spec, Creation!Spec

-----------------------------------------------------------------------------
(* Types.                                                                  *)

LEMMA QuotaTypes ==
    /\ Requests!Quota \in Nat \ {0} /\ (\A n \in Nat : n < RateLimit => n + 1 <= Requests!Quota)
    /\ Creation!Quota \in Nat \ {0}
    /\ \A n \in Nat : n < ShortenerRateLimit => n + 1 <= Creation!Quota
BY DEF Requests!Quota, Creation!Quota

LEMMA BelowRequestsQuota ==
    ASSUME NEW n \in Nat, n < RateLimit
    PROVE  n + 1 \in Nat /\ n + 1 <= Requests!Quota
BY QuotaTypes

LEMMA BelowCreationQuota ==
    ASSUME NEW n \in Nat, n < ShortenerRateLimit
    PROVE  n + 1 \in Nat /\ n + 1 <= Creation!Quota
BY QuotaTypes

LEMMA RequestsType ==
    Requests!TypeOK /\ [Requests!Next]_(Requests!vars) => Requests!TypeOK'
<1> SUFFICES ASSUME Requests!TypeOK, [Requests!Next]_(Requests!vars) PROVE Requests!TypeOK'
  OBVIOUS
<1> USE DEF Requests!TypeOK, Requests!Visitor
<1>1. ASSUME NEW c \in Clients, NEW n \in Nat, n <= Requests!Quota, Requests!Admit(c, n)
      PROVE  Requests!TypeOK'
  <2>1. /\ reqVisitors' \in [Clients -> Requests!Visitor]
        /\ \A d \in Clients : reqVisitors'[d].Requests <= Requests!Quota
    BY <1>1 DEF Requests!Admit
  <2>2. Append(reqAdmitted[c], now) \in Seq(Nat)
    OBVIOUS
  <2>3. reqAdmitted' \in [Clients -> Seq(Nat)]
    BY <1>1, <2>2 DEF Requests!Admit
  <2> QED
    BY <1>1, <2>1, <2>3 DEF Requests!Admit
<1>2. ASSUME NEW c \in Clients, Requests!AllowFirst(c)
      PROVE  Requests!TypeOK'
  BY <1>1, <1>2, QuotaTypes DEF Requests!AllowFirst
<1>3. ASSUME NEW c \in Clients, Requests!AllowNext(c)
      PROVE  Requests!TypeOK'
  <2>1. reqVisitors[c].Requests + 1 \in Nat /\ reqVisitors[c].Requests + 1 <= Requests!Quota
    <3>1. reqVisitors[c].Requests \in Nat /\ reqVisitors[c].Requests < RateLimit
      BY <1>3 DEF Requests!AllowNext
    <3> QED
      BY ONLY <3>1, BelowRequestsQuota
  <2> QED
    BY <1>1, <1>3, <2>1 DEF Requests!AllowNext
<1>4. CASE Requests!Tick
  BY <1>4 DEF Requests!Tick
<1>5. ASSUME NEW c \in Clients, Requests!Refuse(c)
      PROVE  Requests!TypeOK'
  BY <1>5 DEF Requests!Refuse
<1>6. CASE Requests!Cleanup
  BY <1>6, QuotaTypes DEF Requests!Cleanup, Requests!Unknown
<1>7. CASE UNCHANGED Requests!vars
  BY <1>7 DEF Requests!vars
<1> QED
  BY <1>2, <1>3, <1>4, <1>5, <1>6, <1>7 DEF Requests!Next

LEMMA CreationType ==
    Creation!TypeOK /\ [Creation!Next]_(Creation!vars) => Creation!TypeOK'
<1> SUFFICES ASSUME Creation!TypeOK, [Creation!Next]_(Creation!vars) PROVE Creation!TypeOK'
  OBVIOUS
<1> USE DEF Creation!TypeOK, Creation!Visitor
<1>1. ASSUME NEW c \in Clients, NEW n \in Nat, n <= Creation!Quota, Creation!Admit(c, n)
      PROVE  Creation!TypeOK'
  <2>1. /\ newVisitors' \in [Clients -> Creation!Visitor]
        /\ \A d \in Clients : newVisitors'[d].Requests <= Creation!Quota
    BY <1>1 DEF Creation!Admit
  <2>2. Append(newAdmitted[c], now) \in Seq(Nat)
    OBVIOUS
  <2>3. newAdmitted' \in [Clients -> Seq(Nat)]
    BY <1>1, <2>2 DEF Creation!Admit
  <2> QED
    BY <1>1, <2>1, <2>3 DEF Creation!Admit
<1>2. ASSUME NEW c \in Clients, Creation!AllowFirst(c)
      PROVE  Creation!TypeOK'
  BY <1>1, <1>2, QuotaTypes DEF Creation!AllowFirst
<1>3. ASSUME NEW c \in Clients, Creation!AllowNext(c)
      PROVE  Creation!TypeOK'
  <2>1. newVisitors[c].Requests + 1 \in Nat /\ newVisitors[c].Requests + 1 <= Creation!Quota
    <3>1. newVisitors[c].Requests \in Nat /\ newVisitors[c].Requests < ShortenerRateLimit
      BY <1>3 DEF Creation!AllowNext
    <3> QED
      BY ONLY <3>1, BelowCreationQuota
  <2> QED
    BY <1>1, <1>3, <2>1 DEF Creation!AllowNext
<1>4. CASE Creation!Tick
  BY <1>4 DEF Creation!Tick
<1>5. ASSUME NEW c \in Clients, Creation!Refuse(c)
      PROVE  Creation!TypeOK'
  BY <1>5 DEF Creation!Refuse
<1>6. CASE Creation!Cleanup
  BY <1>6, QuotaTypes DEF Creation!Cleanup, Creation!Unknown
<1>7. CASE UNCHANGED Creation!vars
  BY <1>7 DEF Creation!vars
<1> QED
  BY <1>2, <1>3, <1>4, <1>5, <1>6, <1>7 DEF Creation!Next

-----------------------------------------------------------------------------
(* Pace: what Allow keeps for one visitor v with the admissions s, for any *)
(* quota q and window w, so that it is proved once for both limiters.      *)

\* Admissions are in the order of their times, none in the future.
InTime(s, time) ==
    /\ \A k \in 1..Len(s) : s[k] <= time
    /\ \A j, k \in 1..Len(s) : j <= k => s[j] <= s[k]

\* The counter is the length of the last burst, which began more than a window
\* after whatever came before; a visitor that is not known may begin one now.
Burst(v, s, time, w) ==
    /\ v.Requests <= Len(s)
    /\ v.Requests > 0 => v.LastSeen = s[Len(s)]
    /\ \A k \in 1..(Len(s) - v.Requests) :
          (IF v.Requests = 0 THEN time ELSE s[Len(s) - v.Requests + 1]) - s[k] > w

Spread(s, q, w) == \A k \in 1..(Len(s) - q) : s[k + q] - s[k] > w

Paced(v, s, time, q, w) == InTime(s, time) /\ Burst(v, s, time, w) /\ Spread(s, q, w)

Visits == [Requests : Nat, LastSeen : Nat]

LEMMA AppendFacts ==
    ASSUME NEW s \in Seq(Nat), NEW time \in Nat, InTime(s, time)
    PROVE  /\ Append(s, time) \in Seq(Nat) /\ Len(s) \in Nat
           /\ Len(Append(s, time)) = Len(s) + 1
           /\ Append(s, time)[Len(s) + 1] = time
           /\ \A k \in 1..Len(s) : Append(s, time)[k] = s[k] /\ s[k] \in Nat
           /\ InTime(Append(s, time), time)
<1> DEFINE t == Append(s, time)
<1>1. /\ t \in Seq(Nat) /\ Len(s) \in Nat /\ Len(t) = Len(s) + 1 /\ t[Len(s) + 1] = time
      /\ \A k \in 1..Len(s) : t[k] = s[k] /\ s[k] \in Nat
  OBVIOUS
<1>2. /\ \A k \in 1..Len(s) : s[k] <= time
      /\ \A j, k \in 1..Len(s) : j <= k => s[j] <= s[k]
  BY DEF InTime
<1> HIDE DEF t
<1>3. \A k \in 1..Len(t) : k \in 1..Len(s) \/ k = Len(s) + 1
  BY <1>1
<1>4. \A k \in 1..Len(t) : t[k] <= time
  BY <1>1, <1>2, <1>3
<1>5. ASSUME NEW j \in 1..Len(t), NEW k \in 1..Len(t), j <= k
      PROVE  t[j] <= t[k]
  <2>1. CASE k = Len(s) + 1
    BY <2>1, <1>1, <1>4
  <2>2. CASE k \in 1..Len(s)
    <3>1. j \in 1..Len(s)
      BY <2>2, <1>5, <1>1
    <3> QED
      BY <2>2, <3>1, <1>1, <1>2, <1>5
  <2> QED
    BY <2>1, <2>2, <1>3
<1>6. InTime(t, time)
  BY <1>4, <1>5 DEF InTime
<1> QED
  BY <1>1, <1>6 DEF t

\* Letting a visitor through keeps the pace: the burst grows by one while it
\* is within the quota, or a new one begins a window after the last.
LEMMA PacedAdmit ==
    ASSUME NEW v \in Visits, NEW s \in Seq(Nat), NEW time \in Nat,
           NEW q \in Nat \ {0}, NEW w \in Nat, Paced(v, s, time, q, w),
           NEW n \in Nat \ {0}, n <= q,
           \/ n = 1 /\ (v.Requests = 0 \/ time - v.LastSeen > w)
           \/ n = v.Requests + 1 /\ v.Requests > 0
    PROVE  Paced([Requests |-> n, LastSeen |-> time], Append(s, time), time, q, w)
<1> DEFINE m == Len(s)
           t == Append(s, time)
           old == v.Requests
<1>1. /\ m \in Nat /\ Len(t) = m + 1 /\ t[m + 1] = time /\ t \in Seq(Nat)
      /\ \A k \in 1..m : t[k] = s[k] /\ s[k] \in Nat
      /\ InTime(s, time) /\ InTime(t, time)
  BY AppendFacts DEF Paced
<1>2. /\ \A k \in 1..m : s[k] <= time
      /\ \A j, k \in 1..m : j <= k => s[j] <= s[k]
      /\ \A j, k \in 1..(m + 1) : j <= k => t[j] <= t[k]
  BY <1>1 DEF InTime
<1>3. /\ old \in Nat /\ old <= m /\ (old > 0 => v.LastSeen = s[m])
      /\ old > 0 => \A k \in 1..(m - old) : s[m - old + 1] - s[k] > w
      /\ old = 0 => \A k \in 1..m : time - s[k] > w
      /\ \A k \in 1..(m - q) : s[k + q] - s[k] > w
  <2>1. old \in Nat /\ Burst(v, s, time, w) /\ Spread(s, q, w)
    BY DEF Paced, Visits
  <2>2. \A k \in 1..(m - old) : (IF old = 0 THEN time ELSE s[m - old + 1]) - s[k] > w
    BY <2>1 DEF Burst
  <2>3. old = 0 => m - old = m
    BY <1>1
  <2> QED
    BY <2>1, <2>2, <2>3 DEF Burst, Spread
<1>4. \/ n = 1 /\ (old = 0 \/ time - v.LastSeen > w)
      \/ n = old + 1 /\ old > 0
  OBVIOUS
<1> HIDE DEF m, t, old
<1>5. n <= m + 1
  BY <1>1, <1>3, <1>4
\* The burst, however it grew, begins a window after what came before.
<1>6. ASSUME NEW k \in 1..(m + 1 - n)
      PROVE  t[m + 2 - n] - t[k] > w
  <2>1. k \in 1..m /\ t[k] = s[k] /\ s[k] \in Nat
    BY <1>1, <1>5
  <2>2. CASE n = 1
    <3>1. m + 2 - n = m + 1 /\ t[m + 2 - n] = time
      BY <2>2, <1>1
    <3>2. CASE old = 0
      BY <2>1, <3>1, <3>2, <1>3
    <3>3. CASE old > 0 /\ time - s[m] > w
      <4>1. m \in 1..m /\ s[k] <= s[m] /\ s[m] \in Nat
        BY <2>1, <1>1, <1>2
      <4> QED
        BY <2>1, <3>1, <3>3, <4>1
    <3> QED
      BY <2>2, <3>2, <3>3, <1>3, <1>4
  <2>3. CASE n = old + 1 /\ old > 0
    <3>1. /\ m + 2 - n = m - old + 1 /\ m - old + 1 \in 1..m /\ k \in 1..(m - old)
      BY <2>3, <1>1, <1>3
    <3> QED
      BY <2>1, <2>3, <3>1, <1>1, <1>3
  <2> QED
    BY <2>2, <2>3, <1>4
<1>7. ASSUME NEW k \in 1..(m + 1 - q)
      PROVE  t[k + q] - t[k] > w
  <2>1. CASE k + q <= m
    <3>1. k \in 1..(m - q) /\ k \in 1..m /\ k + q \in 1..m
      BY <2>1, <1>1
    <3> QED
      BY <3>1, <1>1, <1>3
  <2>2. CASE k + q = m + 1
    <3>1. k \in 1..(m + 1 - n) /\ m + 2 - n \in 1..(m + 1)
      BY <2>2, <1>1, <1>5
    <3>2. t[m + 2 - n] - t[k] > w /\ t[m + 2 - n] <= t[m + 1]
      BY <3>1, <1>1, <1>2, <1>6
    <3>3. t[k] \in Nat /\ t[m + 2 - n] \in Nat /\ t[m + 1] \in Nat
      BY <3>1, <1>1
    <3> QED
      BY <2>2, <3>2, <3>3
  <2> QED
    BY <2>1, <2>2, <1>1
<1>8. Burst([Requests |-> n, LastSeen |-> time], t, time, w)
  <2>1. (m + 1) - n + 1 = m + 2 - n /\ n > 0
    BY <1>1
  <2> QED
    BY <2>1, <1>1, <1>5, <1>6 DEF Burst
<1>9. Spread(t, q, w)
  BY <1>1, <1>7 DEF Spread
<1> QED
  BY <1>1, <1>8, <1>9 DEF Paced, t

\* A visitor that is forgotten begins anew, a window after its last request.
LEMMA PacedForget ==
    ASSUME NEW v \in Visits, NEW s \in Seq(Nat), NEW time \in Nat,
           NEW q \in Nat \ {0}, NEW w \in Nat, Paced(v, s, time, q, w),
           time - v.LastSeen > w, NEW u, u.Requests = 0
    PROVE  Paced(u, s, time, q, w)
<1>1. /\ InTime(s, time) /\ Spread(s, q, w) /\ Burst(v, s, time, w)
      /\ v.Requests \in Nat /\ Len(s) \in Nat /\ \A k \in 1..Len(s) : s[k] \in Nat
  BY DEF Paced, Visits
<1>2. ASSUME NEW k \in 1..Len(s)
      PROVE  time - s[k] > w
  <2>1. CASE v.Requests = 0
    BY <2>1, <1>1 DEF Burst
  <2>2. CASE v.Requests > 0
    <3>1. Len(s) \in 1..Len(s) /\ v.LastSeen = s[Len(s)]
      BY <2>2, <1>1 DEF Burst
    <3>2. s[k] <= s[Len(s)]
      BY <3>1, <1>1 DEF InTime
    <3> QED
      BY <3>1, <3>2, <1>1
  <2> QED
    BY <2>1, <2>2, <1>1
<1>3. Burst(u, s, time, w)
  BY <1>1, <1>2 DEF Burst
<1> QED
  BY <1>1, <1>3 DEF Paced

\* Time passes.
LEMMA PacedTick ==
    ASSUME NEW v \in Visits, NEW s \in Seq(Nat), NEW time \in Nat,
           NEW q \in Nat \ {0}, NEW w \in Nat, Paced(v, s, time, q, w)
    PROVE  Paced(v, s, time + 1, q, w)
<1>1. /\ InTime(s, time) /\ Spread(s, q, w) /\ Burst(v, s, time, w)
      /\ v.Requests \in Nat /\ Len(s) \in Nat /\ \A k \in 1..Len(s) : s[k] \in Nat
  BY DEF Paced, Visits
<1>2. InTime(s, time + 1)
  BY <1>1 DEF InTime
<1>3. Burst(v, s, time + 1, w)
  <2>1. \A k \in 1..(Len(s) - v.Requests) : k \in 1..Len(s)
    BY <1>1
  <2>2. CASE v.Requests = 0
    BY <2>1, <2>2, <1>1 DEF Burst
  <2>3. CASE v.Requests /= 0
    BY <2>3, <1>1 DEF Burst
  <2> QED
    BY <2>2, <2>3
<1> QED
  BY <1>1, <1>2, <1>3 DEF Paced

RequestsPaced ==
    \A c \in Clients : Paced(reqVisitors[c], reqAdmitted[c], now, Requests!Quota, RateWindow)

LEMMA RequestsPace ==
    Requests!TypeOK /\ RequestsPaced /\ [Requests!Next]_(Requests!vars) => RequestsPaced'
<1> SUFFICES ASSUME Requests!TypeOK, RequestsPaced, [Requests!Next]_(Requests!vars) PROVE RequestsPaced'
  OBVIOUS
<1>1. Requests!Quota \in Nat \ {0} /\ RateWindow \in Nat
  BY QuotaTypes DEF RateWindow
<1>2. /\ now \in Nat
      /\ \A c \in Clients :
            /\ reqVisitors[c] \in Visits /\ reqAdmitted[c] \in Seq(Nat)
            /\ Paced(reqVisitors[c], reqAdmitted[c], now, Requests!Quota, RateWindow)
  BY DEF Requests!TypeOK, Requests!Visitor, Visits, RequestsPaced
<1>3. ASSUME NEW c \in Clients, NEW n \in Nat \ {0}, n <= Requests!Quota, Requests!Admit(c, n),
             \/ n = 1 /\ (reqVisitors[c].Requests = 0 \/ now - reqVisitors[c].LastSeen > RateWindow)
             \/ n = reqVisitors[c].Requests + 1 /\ reqVisitors[c].Requests > 0
      PROVE  RequestsPaced'
  <2>1. /\ reqVisitors'[c] = [Requests |-> n, LastSeen |-> now]
        /\ reqAdmitted'[c] = Append(reqAdmitted[c], now) /\ now' = now
        /\ \A d \in Clients \ {c} : reqVisitors'[d] = reqVisitors[d] /\ reqAdmitted'[d] = reqAdmitted[d]
    BY <1>3 DEF Requests!Admit, Requests!TypeOK
  <2>2. Paced([Requests |-> n, LastSeen |-> now], Append(reqAdmitted[c], now), now,
              Requests!Quota, RateWindow)
    BY <1>1, <1>2, <1>3, PacedAdmit
  <2> QED
    BY <2>1, <2>2, <1>2 DEF RequestsPaced
<1>4. ASSUME NEW c \in Clients, Requests!AllowFirst(c)
      PROVE  RequestsPaced'
  <2>1. reqVisitors[c].Requests = 0 \/ now - reqVisitors[c].LastSeen > RateWindow
    BY <1>2, <1>4 DEF Requests!AllowFirst, Requests!Exists, Requests!Expired, Visits
  <2>2. 1 <= Requests!Quota /\ Requests!Admit(c, 1)
    BY <1>1, <1>4 DEF Requests!AllowFirst
  <2> QED
    BY <2>1, <2>2, <1>3
<1>5. ASSUME NEW c \in Clients, Requests!AllowNext(c)
      PROVE  RequestsPaced'
  <2>1. /\ reqVisitors[c].Requests \in Nat /\ reqVisitors[c].Requests > 0
        /\ reqVisitors[c].Requests < RateLimit /\ Requests!Admit(c, reqVisitors[c].Requests + 1)
    BY <1>2, <1>5 DEF Requests!AllowNext, Requests!Exists, Visits
  <2>2. reqVisitors[c].Requests + 1 \in Nat /\ reqVisitors[c].Requests + 1 <= Requests!Quota
    BY ONLY <2>1, BelowRequestsQuota
  <2>3. reqVisitors[c].Requests + 1 \in Nat \ {0}
    BY <2>1
  <2> QED
    BY <2>1, <2>2, <2>3, <1>3
<1>6. CASE Requests!Tick
  BY <1>1, <1>2, <1>6, PacedTick DEF Requests!Tick, RequestsPaced
<1>7. CASE Requests!Cleanup
  <2>1. /\ reqVisitors' = [c \in Clients |-> IF Requests!Expired(c) THEN Requests!Unknown ELSE reqVisitors[c]]
        /\ now' = now /\ reqAdmitted' = reqAdmitted
    BY <1>7 DEF Requests!Cleanup
  <2>2. ASSUME NEW c \in Clients
        PROVE  Paced(reqVisitors'[c], reqAdmitted[c], now, Requests!Quota, RateWindow)
    <3>1. CASE Requests!Expired(c)
      <4>1. reqVisitors'[c].Requests = 0 /\ now - reqVisitors[c].LastSeen > RateWindow
        BY <2>1, <3>1 DEF Requests!Expired, Requests!Unknown
      <4> QED
        BY <4>1, <1>1, <1>2, PacedForget
    <3>2. CASE ~Requests!Expired(c)
      BY <2>1, <3>2, <1>2
    <3> QED
      BY <3>1, <3>2
  <2> QED
    BY <2>1, <2>2 DEF RequestsPaced
<1>8. UNCHANGED <<now, reqVisitors, reqAdmitted>> => RequestsPaced'
  BY DEF RequestsPaced
<1>9. ASSUME NEW c \in Clients, Requests!Refuse(c)
      PROVE  RequestsPaced'
  BY <1>8, <1>9 DEF Requests!Refuse
<1> QED
  BY <1>4, <1>5, <1>6, <1>7, <1>8, <1>9 DEF Requests!Next, Requests!vars

CreationPaced ==
    \A c \in Clients : Paced(newVisitors[c], newAdmitted[c], now, Creation!Quota, ShortenWindow)

LEMMA CreationPace ==
    Creation!TypeOK /\ CreationPaced /\ [Creation!Next]_(Creation!vars) => CreationPaced'
<1> SUFFICES ASSUME Creation!TypeOK, CreationPaced, [Creation!Next]_(Creation!vars) PROVE CreationPaced'
  OBVIOUS
<1>1. Creation!Quota \in Nat \ {0} /\ ShortenWindow \in Nat
  BY QuotaTypes DEF ShortenWindow
<1>2. /\ now \in Nat
      /\ \A c \in Clients :
            /\ newVisitors[c] \in Visits /\ newAdmitted[c] \in Seq(Nat)
            /\ Paced(newVisitors[c], newAdmitted[c], now, Creation!Quota, ShortenWindow)
  BY DEF Creation!TypeOK, Creation!Visitor, Visits, CreationPaced
<1>3. ASSUME NEW c \in Clients, NEW n \in Nat \ {0}, n <= Creation!Quota, Creation!Admit(c, n),
             \/ n = 1 /\ (newVisitors[c].Requests = 0 \/ now - newVisitors[c].LastSeen > ShortenWindow)
             \/ n = newVisitors[c].Requests + 1 /\ newVisitors[c].Requests > 0
      PROVE  CreationPaced'
  <2>1. /\ newVisitors'[c] = [Requests |-> n, LastSeen |-> now]
        /\ newAdmitted'[c] = Append(newAdmitted[c], now) /\ now' = now
        /\ \A d \in Clients \ {c} : newVisitors'[d] = newVisitors[d] /\ newAdmitted'[d] = newAdmitted[d]
    BY <1>3 DEF Creation!Admit, Creation!TypeOK
  <2>2. Paced([Requests |-> n, LastSeen |-> now], Append(newAdmitted[c], now), now,
              Creation!Quota, ShortenWindow)
    BY <1>1, <1>2, <1>3, PacedAdmit
  <2> QED
    BY <2>1, <2>2, <1>2 DEF CreationPaced
<1>4. ASSUME NEW c \in Clients, Creation!AllowFirst(c)
      PROVE  CreationPaced'
  <2>1. newVisitors[c].Requests = 0 \/ now - newVisitors[c].LastSeen > ShortenWindow
    BY <1>2, <1>4 DEF Creation!AllowFirst, Creation!Exists, Creation!Expired, Visits
  <2>2. 1 <= Creation!Quota /\ Creation!Admit(c, 1)
    BY <1>1, <1>4 DEF Creation!AllowFirst
  <2> QED
    BY <2>1, <2>2, <1>3
<1>5. ASSUME NEW c \in Clients, Creation!AllowNext(c)
      PROVE  CreationPaced'
  <2>1. /\ newVisitors[c].Requests \in Nat /\ newVisitors[c].Requests > 0
        /\ newVisitors[c].Requests < ShortenerRateLimit /\ Creation!Admit(c, newVisitors[c].Requests + 1)
    BY <1>2, <1>5 DEF Creation!AllowNext, Creation!Exists, Visits
  <2>2. newVisitors[c].Requests + 1 \in Nat /\ newVisitors[c].Requests + 1 <= Creation!Quota
    BY ONLY <2>1, BelowCreationQuota
  <2>3. newVisitors[c].Requests + 1 \in Nat \ {0}
    BY <2>1
  <2> QED
    BY <2>1, <2>2, <2>3, <1>3
<1>6. CASE Creation!Tick
  BY <1>1, <1>2, <1>6, PacedTick DEF Creation!Tick, CreationPaced
<1>7. CASE Creation!Cleanup
  <2>1. /\ newVisitors' = [c \in Clients |-> IF Creation!Expired(c) THEN Creation!Unknown ELSE newVisitors[c]]
        /\ now' = now /\ newAdmitted' = newAdmitted
    BY <1>7 DEF Creation!Cleanup
  <2>2. ASSUME NEW c \in Clients
        PROVE  Paced(newVisitors'[c], newAdmitted[c], now, Creation!Quota, ShortenWindow)
    <3>1. CASE Creation!Expired(c)
      <4>1. newVisitors'[c].Requests = 0 /\ now - newVisitors[c].LastSeen > ShortenWindow
        BY <2>1, <3>1 DEF Creation!Expired, Creation!Unknown
      <4> QED
        BY <4>1, <1>1, <1>2, PacedForget
    <3>2. CASE ~Creation!Expired(c)
      BY <2>1, <3>2, <1>2
    <3> QED
      BY <3>1, <3>2
  <2> QED
    BY <2>1, <2>2 DEF CreationPaced
<1>8. UNCHANGED <<now, newVisitors, newAdmitted>> => CreationPaced'
  BY DEF CreationPaced
<1>9. ASSUME NEW c \in Clients, Creation!Refuse(c)
      PROVE  CreationPaced'
  BY <1>8, <1>9 DEF Creation!Refuse
<1> QED
  BY <1>4, <1>5, <1>6, <1>7, <1>8, <1>9 DEF Creation!Next, Creation!vars

-----------------------------------------------------------------------------
(* Links.                                                                  *)

\* place gives each link the admission it was created with, and no two links
\* of a client the same one.
PlacedAt(place) ==
    /\ place \in [DOMAIN issued -> Nat]
    /\ \A i \in DOMAIN issued :
        /\ place[i] \in 1..Len(newAdmitted[issued[i].client])
        /\ newAdmitted[issued[i].client][place[i]] = issued[i].at
    /\ \A i, j \in DOMAIN issued :
        issued[i].client = issued[j].client /\ place[i] = place[j] => i = j

Placed == \E place : PlacedAt(place)

Inv ==
    /\ TypeOK
    /\ RequestsPaced /\ CreationPaced
    /\ LinkKept
    /\ IsFiniteSet(DOMAIN issued)
    /\ Placed

LEMMA InitInv == Init => Inv
<1> SUFFICES ASSUME Init PROVE Inv
  OBVIOUS
<1>1. /\ now = 0 /\ issued = [i \in {} |-> 0] /\ DOMAIN issued = {} /\ links = {}
      /\ reqVisitors = [c \in Clients |-> [Requests |-> 0, LastSeen |-> 0]]
      /\ newVisitors = [c \in Clients |-> [Requests |-> 0, LastSeen |-> 0]]
      /\ reqAdmitted = [c \in Clients |-> <<>>] /\ newAdmitted = [c \in Clients |-> <<>>]
      /\ reqRefused = [c \in Clients |-> -1] /\ newRefused = [c \in Clients |-> -1]
      /\ defaultTTL \in Int /\ maxTTL \in Int
  BY DEF Init, Requests!Init, Creation!Init, Requests!Unknown, Creation!Unknown,
         Requests!Never, Creation!Never, Defaulted
<1>2. Requests!TypeOK /\ Creation!TypeOK
  BY <1>1, QuotaTypes DEF Requests!TypeOK, Creation!TypeOK, Requests!Visitor, Creation!Visitor,
         Requests!Never, Creation!Never
<1>3. TypeOK /\ LinkKept
  BY <1>1, <1>2 DEF TypeOK, LinkKept
<1>4. RequestsPaced /\ CreationPaced
  <2>1. \A k \in 1..Len(<<>>) : FALSE
    OBVIOUS
  <2>2. ASSUME NEW q \in Nat, NEW w
        PROVE  Paced([Requests |-> 0, LastSeen |-> 0], <<>>, 0, q, w)
    <3>1. Len(<<>>) = 0 /\ (\A k \in 1..(Len(<<>>) - 0) : FALSE)
          /\ (\A k \in 1..(Len(<<>>) - q) : FALSE)
      OBVIOUS
    <3> QED
      BY <2>1, <3>1 DEF Paced, InTime, Burst, Spread
  <2> QED
    BY <1>1, <2>2, QuotaTypes DEF RequestsPaced, CreationPaced
<1>5. PlacedAt(issued)
  BY <1>1 DEF PlacedAt
<1> QED
  BY <1>1, <1>3, <1>4, <1>5, FS_EmptySet DEF Inv, Placed

LEMMA LimitersKept ==
    Inv /\ [Next]_vars => /\ Requests!TypeOK' /\ Creation!TypeOK'
                         /\ RequestsPaced' /\ CreationPaced'
BY RequestsStep, CreationStep, RequestsType, CreationType, RequestsPace, CreationPace
   DEF Inv, TypeOK

\* What an admission changes for the clients' histories.
LEMMA AdmissionFacts ==
    ASSUME Inv, NEW c \in Clients, AllowCreation(c)
    PROVE  /\ now' = now
           /\ \A d \in Clients \ {c} : newAdmitted'[d] = newAdmitted[d]
           /\ Len(newAdmitted[c]) \in Nat
           /\ Len(newAdmitted'[c]) = Len(newAdmitted[c]) + 1
           /\ newAdmitted'[c][Len(newAdmitted[c]) + 1] = now
           /\ \A k \in 1..Len(newAdmitted[c]) : newAdmitted'[c][k] = newAdmitted[c][k]
<1>1. /\ now' = now /\ now \in Nat
      /\ newAdmitted[c] \in Seq(Nat)
      /\ newAdmitted'[c] = Append(newAdmitted[c], now)
      /\ \A d \in Clients \ {c} : newAdmitted'[d] = newAdmitted[d]
  BY DEF AllowCreation, Creation!AllowFirst, Creation!AllowNext, Creation!Admit, Inv, TypeOK,
         Creation!TypeOK
<1>2. InTime(newAdmitted[c], now)
  BY DEF Inv, CreationPaced, Paced
<1> QED
  BY <1>1, <1>2, AppendFacts

\* A step that admits no creation and makes no link.
LEMMA OtherInv ==
    ASSUME Inv, [Next]_vars, UNCHANGED <<newAdmitted, issued, defaultTTL, maxTTL>>,
           now' \in Nat, now <= now', links' \subseteq links,
           \A i \in links : now' <= issued[i].expires => i \in links'
    PROVE  Inv'
<1>1. Requests!TypeOK' /\ Creation!TypeOK' /\ RequestsPaced' /\ CreationPaced'
  BY LimitersKept
<1>2. now \in Nat /\ (\A i \in DOMAIN issued : issued[i].expires \in Int)
  BY DEF Inv, TypeOK, Answer, Creation!TypeOK
<1>3. TypeOK'
  BY <1>1 DEF Inv, TypeOK
<1>4. LinkKept'
  <2> SUFFICES ASSUME NEW i \in DOMAIN issued
               PROVE  /\ now' <= issued[i].expires => i \in links'
                      /\ issued[i].expires - issued[i].at
                            <= (IF maxTTL > defaultTTL THEN maxTTL ELSE defaultTTL)
    BY DEF LinkKept
  <2>1. /\ now <= issued[i].expires => i \in links
        /\ issued[i].expires - issued[i].at
              <= (IF maxTTL > defaultTTL THEN maxTTL ELSE defaultTTL)
    BY DEF Inv, LinkKept
  <2>2. now' <= issued[i].expires => now <= issued[i].expires
    BY <1>2
  <2> QED
    BY <2>1, <2>2
<1>5. IsFiniteSet(DOMAIN issued') /\ Placed'
  BY DEF Inv, Placed, PlacedAt
<1> QED
  BY <1>1, <1>3, <1>4, <1>5 DEF Inv

LEMMA RejectBodyInv ==
    ASSUME Inv, [Next]_vars, NEW c \in Clients, RejectBody(c)
    PROVE  Inv'
<1>1. AllowCreation(c) /\ UNCHANGED <<defaultTTL, maxTTL, links, issued>>
  BY DEF RejectBody, config
<1>2. /\ now' = now
      /\ \A d \in Clients \ {c} : newAdmitted'[d] = newAdmitted[d]
      /\ Len(newAdmitted[c]) \in Nat
      /\ Len(newAdmitted'[c]) = Len(newAdmitted[c]) + 1
      /\ \A k \in 1..Len(newAdmitted[c]) : newAdmitted'[c][k] = newAdmitted[c][k]
  BY <1>1, AdmissionFacts
<1>3. TypeOK' /\ LinkKept'
  BY <1>1, <1>2, LimitersKept DEF Inv, TypeOK, LinkKept
<1>4. PICK place : PlacedAt(place)
  BY DEF Inv, Placed
<1>5. ASSUME NEW i \in DOMAIN issued
      PROVE  /\ place[i] \in 1..Len(newAdmitted'[issued[i].client])
             /\ newAdmitted'[issued[i].client][place[i]] = issued[i].at
  <2>1. /\ place[i] \in 1..Len(newAdmitted[issued[i].client])
        /\ newAdmitted[issued[i].client][place[i]] = issued[i].at
        /\ issued[i].client \in Clients
    BY <1>4 DEF PlacedAt, Inv, TypeOK, Answer
  <2> QED
    BY <2>1, <1>2
<1>6. PlacedAt(place)'
  BY <1>1, <1>4, <1>5 DEF PlacedAt
<1> QED
  BY <1>1, <1>2, <1>3, <1>6, LimitersKept DEF Inv, Placed

LEMMA ShortenInv ==
    ASSUME Inv, [Next]_vars, NEW c \in Clients, NEW i \in Links, NEW ttl \in RequestTTLs,
           Shorten(c, i, ttl)
    PROVE  Inv'
<1> DEFINE hours == TTL(ttl)
           answer == [client |-> c, at |-> now, expires |-> now + hours]
<1>1. /\ AllowCreation(c) /\ i \notin DOMAIN issued
      /\ links' = links \cup {i}
      /\ issued' = [j \in DOMAIN issued \cup {i} |-> IF j = i THEN answer ELSE issued[j]]
      /\ UNCHANGED <<defaultTTL, maxTTL>>
  BY DEF Shorten, Give, config
<1>2. /\ now' = now
      /\ \A d \in Clients \ {c} : newAdmitted'[d] = newAdmitted[d]
      /\ Len(newAdmitted[c]) \in Nat
      /\ Len(newAdmitted'[c]) = Len(newAdmitted[c]) + 1
      /\ newAdmitted'[c][Len(newAdmitted[c]) + 1] = now
      /\ \A k \in 1..Len(newAdmitted[c]) : newAdmitted'[c][k] = newAdmitted[c][k]
  BY <1>1, AdmissionFacts
<1>3. /\ hours \in Int /\ now \in Nat /\ maxTTL \in Int /\ defaultTTL \in Int
      /\ hours <= (IF maxTTL > defaultTTL THEN maxTTL ELSE defaultTTL)
  BY DEF Inv, TypeOK, TTL, Creation!TypeOK
<1> HIDE DEF hours
<1>4. /\ DOMAIN issued' = DOMAIN issued \cup {i}
      /\ issued'[i] = answer /\ answer \in Answer
      /\ \A j \in DOMAIN issued : issued'[j] = issued[j]
  BY <1>1, <1>3 DEF Answer
<1>5. TypeOK'
  BY <1>1, <1>4, LimitersKept DEF Inv, TypeOK
<1>6. LinkKept'
  <2> SUFFICES ASSUME NEW j \in DOMAIN issued'
               PROVE  /\ now' <= issued'[j].expires => j \in links'
                      /\ issued'[j].expires - issued'[j].at
                            <= (IF maxTTL > defaultTTL THEN maxTTL ELSE defaultTTL)
    BY <1>1 DEF LinkKept
  <2>1. CASE j = i
    BY <2>1, <1>1, <1>3, <1>4
  <2>2. CASE j /= i
    BY <2>2, <1>1, <1>2, <1>4 DEF Inv, LinkKept
  <2> QED
    BY <2>1, <2>2
<1>7. IsFiniteSet(DOMAIN issued')
  BY <1>4, FS_AddElement DEF Inv
<1>8. Placed'
  <2> DEFINE m == Len(newAdmitted[c])
  <2>1. PICK place : PlacedAt(place)
    BY DEF Inv, Placed
  <2> DEFINE next == [j \in DOMAIN issued \cup {i} |-> IF j = i THEN m + 1 ELSE place[j]]
  <2>2. ASSUME NEW j \in DOMAIN issued
        PROVE  /\ place[j] \in 1..Len(newAdmitted[issued[j].client])
               /\ newAdmitted[issued[j].client][place[j]] = issued[j].at
               /\ issued[j].client \in Clients
    BY <2>1 DEF PlacedAt, Inv, TypeOK, Answer
  <2>3. next \in [DOMAIN issued' -> Nat]
    BY <2>1, <1>2, <1>4 DEF PlacedAt
  <2>4. ASSUME NEW j \in DOMAIN issued'
        PROVE  /\ next[j] \in 1..Len(newAdmitted'[issued'[j].client])
               /\ newAdmitted'[issued'[j].client][next[j]] = issued'[j].at
    <3>1. CASE j = i
      BY <3>1, <1>2, <1>4
    <3>2. CASE j /= i
      BY <3>2, <2>2, <1>2, <1>4
    <3> QED
      BY <3>1, <3>2
  <2>5. ASSUME NEW j \in DOMAIN issued, issued[j].client = c
        PROVE  next[j] /= next[i]
    <3>1. j /= i /\ place[j] \in 1..m
      BY <2>2, <2>5, <1>1
    <3> QED
      BY <3>1, <1>2
  <2>6. ASSUME NEW j \in DOMAIN issued', NEW k \in DOMAIN issued',
               issued'[j].client = issued'[k].client, next[j] = next[k]
        PROVE  j = k
    <3>1. CASE j /= i /\ k /= i
      BY <3>1, <2>1, <2>6, <1>4 DEF PlacedAt
    <3>2. CASE j = i \/ k = i
      BY <3>2, <2>5, <2>6, <1>4
    <3> QED
      BY <3>1, <3>2
  <2>7. PICK f : f = next
    OBVIOUS
  <2> HIDE DEF next
  <2>8. PlacedAt(f)'
    BY <2>3, <2>4, <2>6, <2>7 DEF PlacedAt
  <2> QED
    BY <2>8 DEF Placed
<1> QED
  BY <1>2, <1>5, <1>6, <1>7, <1>8, LimitersKept DEF Inv

LEMMA StepInv == Inv /\ [Next]_vars => Inv'
<1> SUFFICES ASSUME Inv, [Next]_vars PROVE Inv'
  OBVIOUS
<1>1. now \in Nat /\ (\A i \in links : issued[i].expires \in Int)
  BY DEF Inv, TypeOK, Answer, Creation!TypeOK
<1>2. CASE Tick
  <2>1. now' = now + 1 /\ UNCHANGED <<newAdmitted, issued, links, defaultTTL, maxTTL>>
    BY <1>2 DEF Tick, Creation!Tick, config
  <2> QED
    BY <2>1, <1>1, OtherInv
<1>3. CASE CleanupLinks
  <2>1. /\ links' = {i \in links : issued[i].expires >= now}
        /\ UNCHANGED <<now, newAdmitted, issued, defaultTTL, maxTTL>>
    BY <1>3 DEF CleanupLinks, config, creation
  <2>2. \A i \in links : now' <= issued[i].expires => i \in links'
    BY <2>1, <1>1
  <2> QED
    BY <2>1, <2>2, <1>1, OtherInv
<1>4. ASSUME UNCHANGED <<now, newAdmitted, issued, links, defaultTTL, maxTTL>>
      PROVE  Inv'
  BY <1>1, <1>4, OtherInv
<1>5. CASE CleanupRequests \/ CleanupCreation \/ UNCHANGED vars
  BY <1>4, <1>5 DEF CleanupRequests, CleanupCreation, Requests!Cleanup, Creation!Cleanup,
                    config, creation, vars
<1>6. ASSUME NEW c \in Clients, Admit(c) \/ TooMany(c) \/ TooManyLinks(c)
      PROVE  Inv'
  BY <1>4, <1>6 DEF Admit, TooMany, TooManyLinks, Requests!AllowFirst, Requests!AllowNext,
                    Requests!Admit, Requests!Refuse, Creation!Refuse, config, creation
<1> QED
  BY <1>2, <1>3, <1>5, <1>6, RejectBodyInv, ShortenInv DEF Next

LEMMA InvHolds == Spec => []Inv
BY InitInv, StepInv, PTL DEF Spec

\* The answers, expiry times and limiters keep their types: an answer's
\* expiry is a number whatever TTLs the configuration and a request give
\* (gateway.go:333-340).
THEOREM FrontTypeCorrect == Spec => []TypeOK
BY InvHolds, PTL DEF Inv

\* A link is kept until the time its answer promised, which is within the
\* larger TTL of the configuration (gateway.go:354-359, shortener.go:191-207).
THEOREM LinkKeptCorrect == Spec => []LinkKept
BY InvHolds, PTL DEF Inv

-----------------------------------------------------------------------------
(* The quota of the limiter is the quota of the links.                     *)

\* Of more than n links of one client, two have places n or more apart.
LEMMA FarApart ==
    ASSUME NEW S, IsFiniteSet(S), NEW n \in Nat \ {0}, Cardinality(S) > n,
           NEW place \in [S -> Nat],
           \A i, j \in S : place[i] = place[j] => i = j
    PROVE  \E i, j \in S : place[i] + n <= place[j]
<1>1. PICK i0 \in S : TRUE
  <2>1. S /= {}
    BY FS_EmptySet
  <2> QED
    BY <2>1
<1> DEFINE P == {place[i] : i \in S}
<1>2. PICK a \in S : \A j \in S : place[a] <= place[j]
  <2> DEFINE less == OpToRel(<, Nat)
  <2>1. P \subseteq Nat /\ P /= {}
    BY <1>1
  <2>2. less = {m \in Nat \X Nat : m[1] < m[2]}
    BY DEF OpToRel
  <2>3. IsWellFoundedOn(less, Nat)
    BY NatLessThanWellFounded
  <2> HIDE DEF less
  <2>4. PICK x \in P : \A y \in P : <<y, x>> \notin less
    <3> HIDE DEF P
    <3> QED
      BY <2>1, <2>3, WFMin
  <2>5. \A j \in S : place[j] \in P /\ <<place[j], x>> \notin less
    BY <2>4
  <2>6. \A j \in S : ~(place[j] < x)
    BY <2>1, <2>2, <2>5
  <2> QED
    BY <2>1, <2>4, <2>6
<1> DEFINE T == place[a]..(place[a] + n - 1)
<1>3. IsFiniteSet(T) /\ Cardinality(T) = n
  <2>1. /\ place[a] \in Int /\ place[a] + n - 1 \in Int
        /\ ~(place[a] > place[a] + n - 1)
        /\ place[a] + n - 1 - place[a] + 1 = n
    OBVIOUS
  <2>2. Cardinality(T) = (IF place[a] > place[a] + n - 1 THEN 0
                          ELSE place[a] + n - 1 - place[a] + 1)
    BY ONLY <2>1, FS_Interval
  <2>3. IsFiniteSet(T)
    BY ONLY <2>1, FS_Interval
  <2> QED
    BY <2>1, <2>2, <2>3
<1>4. SUFFICES ASSUME \A j \in S : ~(place[a] + n <= place[j])
               PROVE  FALSE
  OBVIOUS
<1>5. place \in [S -> T]
  BY <1>2, <1>4
<1>6. \E i, j \in S : i /= j /\ place[i] = place[j]
  <2> HIDE DEF T
  <2>1. Cardinality(S) \in Nat
    BY FS_CardinalityType
  <2> QED
    BY <1>3, <1>5, <2>1, FS_PigeonHole
<1> QED
  BY <1>6

LEMMA QuotaPassedOn == Inv => LinksWithinQuota
<1> SUFFICES ASSUME Inv,
                    NEW S \in SUBSET DOMAIN issued, Cardinality(S) > Creation!Quota,
                    \A i, j \in S : issued[i].client = issued[j].client
             PROVE  \E i, j \in S : issued[j].at - issued[i].at > ShortenWindow
  BY DEF LinksWithinQuota
<1> DEFINE q == Creation!Quota
<1>1. q \in Nat \ {0} /\ ShortenWindow \in Nat
  BY QuotaTypes DEF ShortenWindow
<1>2. IsFiniteSet(S)
  BY FS_Subset DEF Inv
<1>3. PICK place : PlacedAt(place)
  BY DEF Inv, Placed
<1> DEFINE f == [k \in S |-> place[k]]
<1>4. /\ f \in [S -> Nat] /\ \A k \in S : f[k] = place[k]
      /\ \A i, j \in S : f[i] = f[j] => i = j
  BY <1>3 DEF PlacedAt
<1>5. PICK i \in S, j \in S : place[i] + q <= place[j]
  <2>1. Cardinality(S) > q
    OBVIOUS
  <2> HIDE DEF f, q
  <2>2. \E i, j \in S : f[i] + q <= f[j]
    BY <1>1, <1>2, <1>4, <2>1, FarApart
  <2> QED
    BY <1>4, <2>2
<1> HIDE DEF q
<1> DEFINE c == issued[i].client
           s == newAdmitted[c]
<1>6. /\ c \in Clients /\ issued[j].client = c
      /\ s \in Seq(Nat)
  BY DEF Inv, TypeOK, Answer, Creation!TypeOK
<1>7. /\ place[i] \in 1..Len(s) /\ place[j] \in 1..Len(s)
      /\ s[place[i]] = issued[i].at /\ s[place[j]] = issued[j].at
  BY <1>3, <1>6 DEF PlacedAt
<1>8. /\ \A k \in 1..(Len(s) - q) : s[k + q] - s[k] > ShortenWindow
      /\ \A k, l \in 1..Len(s) : k <= l => s[k] <= s[l]
  BY <1>6 DEF Inv, CreationPaced, Paced, InTime, Spread, q
<1> HIDE DEF s, c
<1>9. /\ place[i] \in 1..(Len(s) - q) /\ place[i] + q \in 1..Len(s)
  BY <1>1, <1>5, <1>6, <1>7
<1>10. s[place[i] + q] - s[place[i]] > ShortenWindow /\ s[place[i] + q] <= s[place[j]]
  BY <1>5, <1>7, <1>8, <1>9
<1>11. /\ s[place[i]] \in Int /\ s[place[j]] \in Int /\ s[place[i] + q] \in Int
       /\ ShortenWindow \in Int
  <2>1. \A k \in 1..Len(s) : s[k] \in Int
    BY ONLY <1>6
  <2> QED
    BY ONLY <2>1, <1>1, <1>7, <1>9
<1>12. s[place[j]] - s[place[i]] > ShortenWindow
  BY <1>10, <1>11
<1> QED
  BY <1>7, <1>12

\* Both limiters keep their quotas while handlers of several endpoints, two
\* cleanup goroutines and requests that are charged and then rejected share
\* one clock (gateway.go:51-102, 279-321).
THEOREM QuotasKept ==
    Spec => [](Requests!AtMostQuotaPerWindow /\ Creation!AtMostQuotaPerWindow)
<1>1. Inv => Requests!AtMostQuotaPerWindow /\ Creation!AtMostQuotaPerWindow
  BY DEF Inv, RequestsPaced, CreationPaced, Paced, Spread,
         Requests!AtMostQuotaPerWindow, Creation!AtMostQuotaPerWindow
<1> QED
  BY <1>1, InvHolds, PTL

\* Links are given out no faster than their limiter lets creations through:
\* no client is given more of them in a window than its quota, whatever it
\* asks elsewhere and however the cleanups are timed (gateway.go:315-321).
THEOREM LinksCorrect == Spec => []LinksWithinQuota
<1> QED
  BY QuotaPassedOn, InvHolds, PTL
=============================================================================
