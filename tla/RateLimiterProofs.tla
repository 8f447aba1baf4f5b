------------------------- MODULE RateLimiterProofs -------------------------
(***************************************************************************)
(* Proofs about RateLimiter, for any clients, limit, window and horizon.   *)
(* A visitor's counter tells how many of the last admissions belong to the *)
(* current burst; a gap longer than the window precedes the burst.  Since  *)
(* the counter never exceeds Quota, Quota + 1 admissions in a row contain  *)
(* such a gap.                                                             *)
(***************************************************************************)
EXTENDS RateLimiter, TLAPS

USE LimitAssumption, WindowAssumption, TimeAssumption

\* The times s are ordered and not in the future of time.
Ordered(s, time) ==
    /\ \A k \in 1..Len(s) : s[k] <= time
    /\ \A j, k \in 1..Len(s) : j <= k => s[j] <= s[k]

\* A known visitor (n requests counted) was last seen at its last admission;
\* an unknown one has none within the window.
Seen(n, last, s, time) ==
    /\ n <= Len(s)
    /\ n > 0 => last = s[Len(s)]
    /\ n = 0 /\ Len(s) > 0 => time - s[Len(s)] > Window

\* The burst of the last n admissions comes after a gap.
Gap(n, s) ==
    n > 0 /\ n < Len(s) => s[Len(s) - n + 1] - s[Len(s) - n] > Window

\* An admission and the one Quota places later are a window apart.
Spread(s) == \A k \in 1..(Len(s) - Quota) : s[k + Quota] - s[k] > Window

Fits(n, last, s, time) ==
    Ordered(s, time) /\ Seen(n, last, s, time) /\ Gap(n, s) /\ Spread(s)

Inv ==
    /\ TypeOK
    /\ \A c \in Clients :
          Fits(visitors[c].Requests, visitors[c].LastSeen, admitted[c], now)
    /\ RefusedOnlyAfterAdmission

LEMMA QuotaType == Quota \in Nat \ {0} /\ (\A n \in Nat : n < Limit => n + 1 <= Quota)
BY DEF Quota

LEMMA AppendFacts ==
    ASSUME NEW s \in Seq(Nat), NEW time \in Nat
    PROVE  /\ Append(s, time) \in Seq(Nat)
           /\ Len(s) \in Nat
           /\ Len(Append(s, time)) = Len(s) + 1
           /\ Append(s, time)[Len(s) + 1] = time
           /\ \A k \in 1..Len(s) : Append(s, time)[k] = s[k] /\ s[k] \in Nat
OBVIOUS

\* Times further out are further apart.
LEMMA Wider ==
    ASSUME NEW a \in Nat, NEW b \in Nat, NEW c \in Nat, NEW d \in Nat,
           a <= b, c <= d, c - b > Window
    PROVE  d - a > Window
BY WindowAssumption

\* Letting a request through keeps the counter and the history in step.
LEMMA AppendFits ==
    ASSUME NEW s \in Seq(Nat), NEW time \in Nat, NEW old \in Nat, NEW last \in Nat,
           Fits(old, last, s, time),
           NEW n \in Nat \ {0}, n <= Quota,
           \/ n = 1 /\ (Len(s) > 0 => time - s[Len(s)] > Window)
           \/ n > 1 /\ n = old + 1
    PROVE  Fits(n, time, Append(s, time), time)
<1>0. Quota \in Nat \ {0}
  BY QuotaType
<1> DEFINE m == Len(s)
           t == Append(s, time)
<1>1. /\ m \in Nat /\ Len(t) = m + 1 /\ t[m + 1] = time
      /\ \A k \in 1..m : t[k] = s[k] /\ s[k] \in Nat
  BY AppendFacts
<1>2. /\ \A k \in 1..m : s[k] <= time
      /\ \A j, k \in 1..m : j <= k => s[j] <= s[k]
      /\ old <= m
      /\ old > 0 /\ old < m => s[m - old + 1] - s[m - old] > Window
      /\ \A k \in 1..(m - Quota) : s[k + Quota] - s[k] > Window
  BY DEF Fits, Ordered, Seen, Gap, Spread
<1> HIDE DEF m, t
<1>3. \A k \in 1..(m + 1) : t[k] \in Nat /\ t[k] <= time
  <2> TAKE k \in 1..(m + 1)
  <2>1. CASE k = m + 1
    BY <2>1, <1>1
  <2>2. CASE k \in 1..m
    BY <2>2, <1>1, <1>2
  <2> QED
    BY <2>1, <2>2, <1>1
<1>4. \A j, k \in 1..(m + 1) : j <= k => t[j] <= t[k]
  <2> TAKE j, k \in 1..(m + 1)
  <2>1. CASE k = m + 1
    BY <2>1, <1>1, <1>3
  <2>2. CASE k \in 1..m /\ j \in 1..m
    BY <2>2, <1>1, <1>2
  <2> QED
    BY <2>1, <2>2, <1>1
<1>5. n <= m + 1
  BY <1>1, <1>2 DEF m
<1>6. n <= m => t[m + 2 - n] - t[m + 1 - n] > Window
  <2> SUFFICES ASSUME n <= m PROVE t[m + 2 - n] - t[m + 1 - n] > Window
    OBVIOUS
  <2>1. CASE n = 1
    BY <2>1, <1>1 DEF m
  <2>2. CASE n > 1
    <3>1. n = old + 1 /\ m + 2 - n = m - old + 1 /\ m + 1 - n = m - old
      BY <2>2, <1>1
    <3>2. m - old + 1 \in 1..m /\ m - old \in 1..m
      BY <2>2, <3>1, <1>1
    <3> QED
      BY <2>2, <3>1, <3>2, <1>1, <1>2
  <2> QED
    BY <2>1, <2>2
<1>7. \A k \in 1..(m + 1 - Quota) : t[k + Quota] - t[k] > Window
  <2> TAKE k \in 1..(m + 1 - Quota)
  <2>1. CASE k + Quota <= m
    <3>1. k \in 1..(m - Quota) /\ k \in 1..m /\ k + Quota \in 1..m
      BY <2>1, <1>0, <1>1
    <3> QED
      BY <3>1, <1>1, <1>2
  <2>2. CASE k + Quota = m + 1
    <3>1. k <= m + 1 - n /\ n <= m
      BY <2>2, <1>0, <1>1
    <3>2. k \in 1..(m + 1) /\ m + 1 - n \in 1..(m + 1) /\ m + 2 - n \in 1..(m + 1)
      BY <3>1, <1>1
    <3>3. t[k] <= t[m + 1 - n] /\ t[m + 2 - n] <= t[m + 1]
      BY <3>1, <3>2, <1>1, <1>4
    <3>4. /\ t[k] \in Nat /\ t[m + 1] \in Nat
          /\ t[m + 1 - n] \in Nat /\ t[m + 2 - n] \in Nat
      BY <3>2, <1>1, <1>3
    <3>5. t[m + 2 - n] - t[m + 1 - n] > Window
      BY <3>1, <1>6
    <3>6. t[m + 1] - t[k] > Window
      BY <3>3, <3>4, <3>5, Wider
    <3> QED
      BY <2>2, <3>6
  <2> QED
    BY <2>1, <2>2, <1>0, <1>1
<1>8. Ordered(t, time)
  BY <1>1, <1>3, <1>4 DEF Ordered
<1>9. Seen(n, time, t, time)
  BY <1>1, <1>5 DEF Seen
<1>10. Gap(n, t)
  <2> SUFFICES ASSUME n < m + 1 PROVE t[(m + 1) - n + 1] - t[(m + 1) - n] > Window
    BY <1>1 DEF Gap
  <2>1. (m + 1) - n + 1 = m + 2 - n /\ n <= m
    BY <1>1
  <2> QED
    BY <2>1, <1>1, <1>6
<1>11. Spread(t)
  BY <1>0, <1>1, <1>7 DEF Spread
<1> QED
  BY <1>8, <1>9, <1>10, <1>11 DEF Fits, t

\* Time passing keeps them in step.
LEMMA TickFits ==
    ASSUME NEW s \in Seq(Nat), NEW time \in Nat, NEW n \in Nat, NEW last \in Nat,
           Fits(n, last, s, time)
    PROVE  Fits(n, last, s, time + 1)
<1>1. \A k \in 1..Len(s) : s[k] \in Nat
  OBVIOUS
<1>2. Ordered(s, time + 1)
  BY <1>1 DEF Fits, Ordered
<1>3. Seen(n, last, s, time + 1)
  BY <1>1 DEF Fits, Seen
<1> QED
  BY <1>2, <1>3 DEF Fits

LEMMA AdmitInv ==
    ASSUME Inv, NEW c \in Clients, NEW n \in Nat \ {0}, n <= Quota, Admit(c, n),
           \/ n = 1 /\ (~Exists(c) \/ Expired(c))
           \/ n > 1 /\ n = visitors[c].Requests + 1
    PROVE  Inv'
<1> DEFINE s == admitted[c]
           old == visitors[c].Requests
           last == visitors[c].LastSeen
<1>1. /\ s \in Seq(Nat) /\ now \in Nat /\ old \in Nat /\ last \in Nat
      /\ Fits(old, last, s, now)
  BY DEF Inv, TypeOK, Visitor
<1>2. /\ now' = now /\ refused' = refused
      /\ admitted'[c] = Append(s, now)
      /\ visitors'[c] = [Requests |-> n, LastSeen |-> now]
      /\ \A d \in Clients \ {c} : admitted'[d] = admitted[d] /\ visitors'[d] = visitors[d]
  BY DEF Inv, TypeOK, Admit
<1>3. n = 1 => (Len(s) > 0 => now - s[Len(s)] > Window)
  <2> SUFFICES ASSUME n = 1, Len(s) > 0 PROVE now - s[Len(s)] > Window
    OBVIOUS
  <2>1. Seen(old, last, s, now)
    BY <1>1 DEF Fits
  <2>2. old = 0 \/ now - last > Window
    BY <1>1 DEF Exists, Expired
  <2> QED
    BY <1>1, <2>1, <2>2 DEF Seen
<1>4. Fits(n, now, Append(s, now), now)
  <2> HIDE DEF s, old, last
  <2>1. \/ n = 1 /\ (Len(s) > 0 => now - s[Len(s)] > Window)
        \/ n > 1 /\ n = old + 1
    BY <1>3 DEF old
  <2> QED
    BY <1>1, <2>1, AppendFits
<1>5. TypeOK'
  <2>1. visitors' \in [Clients -> Visitor]
    BY <1>1 DEF Admit, Inv, TypeOK, Visitor
  <2>2. admitted' \in [Clients -> Seq(Nat)]
    BY <1>1, AppendFacts DEF Admit, Inv, TypeOK
  <2>3. \A d \in Clients : visitors'[d].Requests <= Quota
    <3> TAKE d \in Clients
    <3>1. CASE d = c
      BY <3>1, <1>2
    <3>2. CASE d /= c
      BY <3>2, <1>2 DEF Inv, TypeOK
    <3> QED
      BY <3>1, <3>2
  <2> QED
    BY <1>2, <2>1, <2>2, <2>3 DEF Inv, TypeOK
<1>6. \A d \in Clients :
         Fits(visitors'[d].Requests, visitors'[d].LastSeen, admitted'[d], now')
  <2> TAKE d \in Clients
  <2>1. CASE d = c
    BY <2>1, <1>2, <1>4
  <2>2. CASE d /= c
    BY <2>2, <1>2 DEF Inv
  <2> QED
    BY <2>1, <2>2
<1>7. RefusedOnlyAfterAdmission'
  <2> SUFFICES ASSUME NEW d \in Clients, refused[d] /= Never
               PROVE  \E k \in DOMAIN admitted'[d] :
                        refused[d] - Window <= admitted'[d][k] /\ admitted'[d][k] <= refused[d]
    BY <1>2 DEF RefusedOnlyAfterAdmission
  <2>1. PICK k \in DOMAIN admitted[d] :
             refused[d] - Window <= admitted[d][k] /\ admitted[d][k] <= refused[d]
    BY DEF Inv, RefusedOnlyAfterAdmission
  <2>2. k \in DOMAIN admitted'[d] /\ admitted'[d][k] = admitted[d][k]
    <3>1. CASE d = c
      BY <3>1, <2>1, <1>1, <1>2
    <3>2. CASE d /= c
      BY <3>2, <2>1, <1>2
    <3> QED
      BY <3>1, <3>2
  <2> QED
    BY <2>1, <2>2
<1> QED
  BY <1>5, <1>6, <1>7 DEF Inv

LEMMA InitInv == Init => Inv
<1> SUFFICES ASSUME Init PROVE Inv
  OBVIOUS
<1>1. TypeOK
  BY QuotaType DEF Init, TypeOK, Visitor, Unknown
<1>2. Fits(0, 0, <<>>, 0)
  BY QuotaType DEF Fits, Ordered, Seen, Gap, Spread
<1>3. RefusedOnlyAfterAdmission
  BY DEF Init, RefusedOnlyAfterAdmission
<1> QED
  BY <1>1, <1>2, <1>3 DEF Init, Inv, Unknown

LEMMA NextInv == Inv /\ [Next]_vars => Inv'
<1> SUFFICES ASSUME Inv, [Next]_vars PROVE Inv'
  OBVIOUS
<1>1. CASE Tick
  <2>1. now \in Nat /\ now' = now + 1 /\ UNCHANGED <<visitors, admitted, refused>>
    BY <1>1 DEF Tick, Inv, TypeOK
  <2>2. TypeOK' /\ RefusedOnlyAfterAdmission'
    BY <2>1 DEF Inv, TypeOK, RefusedOnlyAfterAdmission
  <2>3. ASSUME NEW c \in Clients
        PROVE  Fits(visitors[c].Requests, visitors[c].LastSeen, admitted[c], now + 1)
    BY <2>1, TickFits DEF Inv, TypeOK, Visitor
  <2> QED
    BY <2>1, <2>2, <2>3 DEF Inv
<1>2. ASSUME NEW c \in Clients, AllowFirst(c) PROVE Inv'
  BY <1>2, AdmitInv, QuotaType DEF AllowFirst
<1>3. ASSUME NEW c \in Clients, AllowNext(c) PROVE Inv'
  <2>1. /\ visitors[c].Requests + 1 \in Nat \ {0}
        /\ visitors[c].Requests + 1 > 1
        /\ visitors[c].Requests + 1 <= Quota
    <3>1. /\ visitors[c].Requests \in Nat
          /\ visitors[c].Requests > 0 /\ visitors[c].Requests < Limit
      BY <1>3 DEF AllowNext, Exists, Inv, TypeOK, Visitor
    <3> QED
      BY <3>1, QuotaType
  <2> QED
    BY <1>3, <2>1, AdmitInv DEF AllowNext
<1>4. ASSUME NEW c \in Clients, Refuse(c) PROVE Inv'
  <2> DEFINE s == admitted[c]
  <2>1. /\ refused' = [refused EXCEPT ![c] = now]
        /\ now' = now /\ visitors' = visitors /\ admitted' = admitted
    BY <1>4 DEF Refuse
  <2>2. Len(s) \in DOMAIN s /\ now - Window <= s[Len(s)] /\ s[Len(s)] <= now
    <3>1. /\ s \in Seq(Nat) /\ now \in Nat
          /\ visitors[c].Requests \in Nat /\ visitors[c].LastSeen \in Nat
          /\ Fits(visitors[c].Requests, visitors[c].LastSeen, s, now)
      BY DEF Inv, TypeOK, Visitor
    <3>2. visitors[c].Requests > 0 /\ now - visitors[c].LastSeen <= Window
      BY <1>4, <3>1 DEF Refuse, Exists, Expired
    <3>3. Len(s) \in 1..Len(s) /\ visitors[c].LastSeen = s[Len(s)]
      BY <3>1, <3>2 DEF Fits, Seen
    <3>4. s[Len(s)] <= now
      BY <3>1, <3>3 DEF Fits, Ordered
    <3> QED
      BY <3>1, <3>2, <3>3, <3>4
  <2>3. RefusedOnlyAfterAdmission'
    <3> SUFFICES ASSUME NEW d \in Clients, refused'[d] /= Never
                 PROVE  \E k \in DOMAIN admitted[d] :
                          refused'[d] - Window <= admitted[d][k] /\ admitted[d][k] <= refused'[d]
      BY <2>1 DEF RefusedOnlyAfterAdmission
    <3>1. CASE d = c
      BY <3>1, <2>1, <2>2 DEF Inv, TypeOK
    <3>2. CASE d /= c
      BY <3>2, <2>1 DEF Inv, TypeOK, RefusedOnlyAfterAdmission
    <3> QED
      BY <3>1, <3>2
  <2>4. TypeOK'
    BY <2>1 DEF Inv, TypeOK
  <2> QED
    BY <2>1, <2>3, <2>4 DEF Inv
<1>5. CASE Cleanup
  <2>1. /\ visitors' = [c \in Clients |-> IF Expired(c) THEN Unknown ELSE visitors[c]]
        /\ now' = now /\ admitted' = admitted /\ refused' = refused
    BY <1>5 DEF Cleanup
  <2>2. TypeOK'
    BY <2>1, QuotaType DEF Inv, TypeOK, Visitor, Unknown
  <2>3. ASSUME NEW c \in Clients
        PROVE  Fits(visitors'[c].Requests, visitors'[c].LastSeen, admitted[c], now)
    <3>1. Fits(visitors[c].Requests, visitors[c].LastSeen, admitted[c], now)
      BY DEF Inv
    <3>2. CASE ~Expired(c)
      BY <3>1, <3>2, <2>1
    <3>3. CASE Expired(c)
      <4>1. visitors'[c].Requests = 0 /\ visitors'[c].LastSeen = 0
        BY <3>3, <2>1 DEF Unknown
      <4>2. Seen(0, 0, admitted[c], now)
        BY <3>1, <3>3 DEF Fits, Seen, Expired, Inv, TypeOK, Visitor
      <4>3. Gap(0, admitted[c])
        BY DEF Gap
      <4> QED
        BY <3>1, <4>1, <4>2, <4>3 DEF Fits
    <3> QED
      BY <3>2, <3>3
  <2> QED
    BY <2>1, <2>2, <2>3 DEF Inv, RefusedOnlyAfterAdmission
<1>6. CASE UNCHANGED vars
  BY <1>6 DEF vars, Inv, TypeOK, RefusedOnlyAfterAdmission
<1> QED
  BY <1>1, <1>2, <1>3, <1>4, <1>5, <1>6 DEF Next

LEMMA InvHolds == Spec => []Inv
<1> QED
  BY InitInv, NextInv, PTL DEF Spec

\* Counters stay between 0 and the quota and times are natural numbers.
THEOREM LimiterTypeCorrect == Spec => []TypeOK
<1>1. Inv => TypeOK
  BY DEF Inv
<1> QED
  BY <1>1, InvHolds, PTL

\* At most Quota requests of a client go through in any window.
THEOREM QuotaCorrect == Spec => []AtMostQuotaPerWindow
<1>1. Inv => AtMostQuotaPerWindow
  BY DEF Inv, Fits, Spread, AtMostQuotaPerWindow
<1> QED
  BY <1>1, InvHolds, PTL

\* A refusal follows an admission of the same client within the window.
THEOREM RefusalCorrect == Spec => []RefusedOnlyAfterAdmission
<1>1. Inv => RefusedOnlyAfterAdmission
  BY DEF Inv
<1> QED
  BY <1>1, InvHolds, PTL
=============================================================================
