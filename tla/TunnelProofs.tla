---------------------------- MODULE TunnelProofs ----------------------------
(***************************************************************************)
(* Proofs about TunnelManager and about TunnelCleanup, for any set of      *)
(* goroutines, names and IDs, any capacity of the channel and any periods. *)
(*                                                                         *)
(* Inv is the manager's inductive invariant: the properties the runs       *)
(* check, plus what each goroutine in the middle of a call knows, and the  *)
(* fact that histories are blank for tunnels that are not registered.  The *)
(* manager then implements Registry.                                       *)
(*                                                                         *)
(* The cleanup implements the manager, which hands it the manager's        *)
(* invariant; CInv adds what the cleaner knows, and its decisions are      *)
(* sound and complete.                                                     *)
(***************************************************************************)
EXTENDS TunnelCleanup, TLAPS

\* What a goroutine holds at each of its steps.
CallOK ==
    \A p \in Procs :
        /\ pc[p] /= "idle" => call[p].id \in created
        /\ pc[p] \in {"set", "emit"} =>
                call[p].event \in ChangeEvents /\ call[p].op \in StatusOps
        /\ pc[p] = "get" => call[p].op = "restart" /\ call[p].event = "stopped"
        /\ pc[p] = "stats" => call[p].op = "stats"

\* Histories and status of a tunnel that is not in the registry.
Blank ==
    /\ \A i \in Ids \ tunnels : lastChange[i] = "none"
    /\ \A i \in Ids \ created : status[i] = "pending"
    /\ \A i \in Ids : i \in tunnels \/ i \notin created => late[i] = {}

\* Without an overlap at most one goroutine is changing a tunnel.
Alone ==
    \A i \in tunnels \ overlap :
        \A p, q \in Changing(i) : p = q

\* A goroutine that has the tunnel for itself emits the status it has set.
Announcing ==
    \A p \in Procs :
        pc[p] = "emit" /\ call[p].id \in tunnels \ overlap =>
            status[call[p].id] = StatusOf[call[p].event]

Inv ==
    /\ TypeOK
    /\ IndexConsistent
    /\ CallOK
    /\ Blank
    /\ Alone
    /\ Announcing
    /\ SerialEventsTellStatus
    /\ RestartLeavesNoneStopped
    /\ AtMostOneLateEvent

USE NoTunnelAssumption, NoNameAssumption, EventCapAssumption,
    MaxRequestsAssumption

LEMMA CreatePreserves ==
    ASSUME Inv, NEW n \in Names, Create(n)
    PROVE  Inv'
<1>1. TypeOK'
  BY DEF Create, Offer, stats, Inv, TypeOK
<1>2. IndexConsistent'
  BY DEF Create, Inv, TypeOK, IndexConsistent
<1>3. CallOK'
  BY DEF Create, Inv, CallOK
<1>4. Blank'
  BY DEF Create, Inv, Blank
<1>5. Alone'
  BY DEF Create, Changing, Inv, CallOK, Alone
<1>6. SerialEventsTellStatus'
  BY DEF Create, Changing, Inv, Blank, SerialEventsTellStatus
<1>7. RestartLeavesNoneStopped'
  BY DEF Create, RestartInProgress, Inv, TypeOK, RestartLeavesNoneStopped
<1>8. AtMostOneLateEvent'
  BY DEF Create, Changing, Inv, AtMostOneLateEvent
<1>9. Announcing'
  BY DEF Create, Announcing, Inv, CallOK
<1> QED
  BY <1>1, <1>2, <1>3, <1>4, <1>5, <1>6, <1>7, <1>8, <1>9 DEF Inv

LEMMA DeletePreserves ==
    ASSUME Inv, NEW i \in Ids, Delete(i)
    PROVE  Inv'
<1>1. TypeOK'
  BY DEF Delete, Offer, stats, Inv, TypeOK, IndexConsistent
<1>2. IndexConsistent'
  BY DEF Delete, Inv, TypeOK, IndexConsistent
<1>3. CallOK'
  BY DEF Delete, Inv, CallOK
<1>4. Blank'
  BY DEF Delete, Inv, TypeOK, Blank
<1>5. Alone'
  BY DEF Delete, Changing, Inv, Alone
<1>6. SerialEventsTellStatus'
  BY DEF Delete, Changing, Inv, SerialEventsTellStatus
<1>7. RestartLeavesNoneStopped'
  BY DEF Delete, RestartInProgress, Inv, RestartLeavesNoneStopped
<1>8. AtMostOneLateEvent'
  BY DEF Delete, Changing, Inv, Blank, AtMostOneLateEvent
<1>9. Announcing'
  BY DEF Delete, Announcing, Inv
<1> QED
  BY <1>1, <1>2, <1>3, <1>4, <1>5, <1>6, <1>7, <1>8, <1>9 DEF Inv

LEMMA BeginPreserves ==
    ASSUME Inv, NEW p \in Procs, NEW i \in Ids, NEW op \in StatusOps, Begin(p, op, i)
    PROVE  Inv'
<1>1. TypeOK'
  BY DEF Begin, Found, registry, stats, channel, Steps, Calls, StatusOps,
     ChangeEvents, FirstEvent, Inv, TypeOK
<1>2. IndexConsistent'
  BY DEF Begin, registry, Inv, IndexConsistent
<1>3. CallOK'
  BY DEF Begin, Found, registry, FirstEvent, ChangeEvents, StatusOps,
     Inv, TypeOK, CallOK
<1>4. Blank'
  BY DEF Begin, registry, channel, Inv, Blank
<1>5. Alone'
  BY DEF Begin, Found, Changing, registry, Inv, TypeOK, Alone
<1>6. SerialEventsTellStatus'
  BY DEF Begin, Found, Changing, registry, channel, Inv,
     SerialEventsTellStatus
<1>7. RestartLeavesNoneStopped'
  BY DEF Begin, Found, registry, RestartInProgress, Inv,
     RestartLeavesNoneStopped
<1>8. AtMostOneLateEvent'
  BY DEF Begin, Found, Changing, registry, channel, Inv, TypeOK,
     AtMostOneLateEvent
<1>9. Announcing'
  BY DEF Begin, Found, registry, Announcing, Inv
<1> QED
  BY <1>1, <1>2, <1>3, <1>4, <1>5, <1>6, <1>7, <1>8, <1>9 DEF Inv

LEMMA StatsGetPreserves ==
    ASSUME Inv, NEW p \in Procs, NEW i \in Ids, StatsGet(p, i)
    PROVE  Inv'
<1>1. TypeOK'
  BY DEF StatsGet, registry, stats, channel, Steps, Calls, Inv, TypeOK
<1>2. IndexConsistent'
  BY DEF StatsGet, registry, Inv, IndexConsistent
<1>3. CallOK'
  BY DEF StatsGet, registry, Inv, TypeOK, CallOK
<1>4. Blank'
  BY DEF StatsGet, registry, channel, Inv, Blank
<1>5. Alone'
  BY DEF StatsGet, registry, Changing, Inv, Alone
<1>6. SerialEventsTellStatus'
  BY DEF StatsGet, registry, channel, Changing, Inv, SerialEventsTellStatus
<1>7. RestartLeavesNoneStopped'
  BY DEF StatsGet, registry, RestartInProgress, Inv, RestartLeavesNoneStopped
<1>8. AtMostOneLateEvent'
  BY DEF StatsGet, registry, channel, Changing, Inv, AtMostOneLateEvent
<1>9. Announcing'
  BY DEF StatsGet, registry, Announcing, Inv
<1> QED
  BY <1>1, <1>2, <1>3, <1>4, <1>5, <1>6, <1>7, <1>8, <1>9 DEF Inv

LEMMA SetStatusPreserves ==
    ASSUME Inv, NEW p \in Procs, SetStatus(p)
    PROVE  Inv'
<1>1. TypeOK'
  BY DEF SetStatus, WriteStatus, registry, stats, channel, Steps,
     Statuses, ChangeEvents, StatusOf, Inv, TypeOK, CallOK
<1>2. IndexConsistent'
  BY DEF SetStatus, WriteStatus, registry, Inv, IndexConsistent
<1>3. CallOK'
  BY DEF SetStatus, WriteStatus, registry, Inv, CallOK
<1>4. Blank'
  BY DEF SetStatus, WriteStatus, registry, channel, Inv, CallOK, Blank
<1>5. Alone'
  BY DEF SetStatus, WriteStatus, registry, Changing, Inv, Alone
<1>6. SerialEventsTellStatus'
  BY DEF SetStatus, WriteStatus, registry, channel, Changing, Inv,
     TypeOK, SerialEventsTellStatus
<1>7. RestartLeavesNoneStopped'
  BY DEF SetStatus, WriteStatus, RestartInProgress, StatusOf,
     ChangeEvents, Inv, TypeOK, CallOK, RestartLeavesNoneStopped
<1>8. AtMostOneLateEvent'
  BY DEF SetStatus, WriteStatus, registry, channel, Changing, Inv,
     AtMostOneLateEvent
<1>9. Announcing'
  BY DEF SetStatus, WriteStatus, Changing, Alone, registry, Announcing,
     Inv, TypeOK
<1> QED
  BY <1>1, <1>2, <1>3, <1>4, <1>5, <1>6, <1>7, <1>8, <1>9 DEF Inv

LEMMA EmitPreserves ==
    ASSUME Inv, NEW p \in Procs, Emit(p)
    PROVE  Inv'
<1>0. PICK i \in created :
      /\ i = call[p].id /\ i \in Ids /\ pc[p] = "emit" /\ call[p] \in Calls
      /\ call[p].event \in ChangeEvents /\ call[p].op \in StatusOps
  BY DEF Emit, Inv, TypeOK, CallOK
<1>a. UNCHANGED <<created, tunnels, byName, name, status, requests,
                  restarted, overlap>>
  BY DEF Emit, registry, stats
<1>b. queued' \in 0..EventCap
  BY DEF Emit, Offer, Inv, TypeOK
<1>c. \/ /\ Continues(p) /\ pc' = [pc EXCEPT ![p] = "get"] /\ call' = call
      \/ /\ ~Continues(p) /\ pc' = [pc EXCEPT ![p] = "idle"]
         /\ call' = [call EXCEPT ![p] = NoCall]
  BY DEF Emit, Return
<1>d. IF i \in tunnels
      THEN lastChange' = [lastChange EXCEPT ![i] = call[p].event] /\ late' = late
      ELSE late' = [late EXCEPT ![i] = @ \cup {p}] /\ lastChange' = lastChange
  BY <1>0 DEF Emit
<1>e. p \notin Changing(i)' /\ \A j \in Ids : Changing(j)' = Changing(j) \ {p}
  BY <1>c DEF Changing, Inv, TypeOK
<1>1. TypeOK'
  <2>1. pc' \in [Procs -> Steps] /\ call' \in [Procs -> Calls]
    <3>1. NoCall \in Calls
      BY DEF NoCall, Calls
    <3> QED
      BY <1>c, <3>1 DEF Inv, TypeOK, Steps
  <2>2. lastChange' \in [Ids -> ChangeEvents \cup {"none"}] /\ late' \in [Ids -> SUBSET Procs]
    BY <1>0, <1>d DEF Inv, TypeOK
  <2> QED
    BY <1>a, <1>b, <2>1, <2>2 DEF Inv, TypeOK
<1>2. IndexConsistent'
  BY <1>a DEF Inv, IndexConsistent
<1>3. CallOK'
  BY <1>0, <1>a, <1>c DEF Inv, TypeOK, CallOK, Continues
<1>4. Blank'
  BY <1>a, <1>d DEF Inv, TypeOK, Blank
<1>5. Alone'
  BY <1>a, <1>e DEF Inv, TypeOK, Alone
<1>6. SerialEventsTellStatus'
  <2> SUFFICES ASSUME NEW j \in tunnels, j \notin overlap,
                      \A q \in Changing(j)' : pc'[q] = "set"
               PROVE  IF lastChange'[j] = "none"
                      THEN status[j] = "pending"
                      ELSE status[j] = StatusOf[lastChange'[j]]
    BY <1>a DEF SerialEventsTellStatus
  <2>1. CASE j /= i
    <3>1. Changing(j) = Changing(j)' /\ \A q \in Changing(j) : pc'[q] = pc[q]
      BY <2>1, <1>0, <1>c DEF Inv, TypeOK, Changing
    <3> QED
      BY <2>1, <3>1, <1>d DEF Inv, TypeOK, SerialEventsTellStatus
  <2>2. CASE j = i
    <3>1. lastChange'[i] = call[p].event
      BY <2>2, <1>d DEF Inv, TypeOK
    <3>2. status[i] = StatusOf[call[p].event]
      BY <2>2, <1>0 DEF Inv, Announcing
    <3> QED
      BY <2>2, <3>1, <3>2, <1>0 DEF ChangeEvents
  <2> QED
    BY <2>1, <2>2
<1>7. RestartLeavesNoneStopped'
  <2>1. \A j \in tunnels, q \in Procs :
          RestartInProgress(q, j) => RestartInProgress(q, j)'
    BY <1>0, <1>c DEF RestartInProgress, Continues, Inv, TypeOK
  <2> QED
    BY <2>1, <1>a DEF Inv, RestartLeavesNoneStopped
<1>8. AtMostOneLateEvent'
  BY <1>a, <1>d, <1>e DEF Inv, TypeOK, AtMostOneLateEvent
<1>9. Announcing'
  BY <1>a, <1>c DEF Inv, TypeOK, Announcing
<1> QED
  BY <1>1, <1>2, <1>3, <1>4, <1>5, <1>6, <1>7, <1>8, <1>9 DEF Inv

LEMMA RestartGetPreserves ==
    ASSUME Inv, NEW p \in Procs, RestartGet(p)
    PROVE  Inv'
<1>0. PICK i \in created :
      /\ i = call[p].id /\ i \in Ids /\ pc[p] = "get" /\ call[p] \in Calls
      /\ call[p].op = "restart" /\ call[p].event = "stopped"
  BY DEF RestartGet, RestartWhen, Inv, TypeOK, CallOK
<1>a. UNCHANGED <<created, tunnels, byName, name, status, requests, queued,
                  restarted, lastChange, late>>
  BY DEF RestartGet, RestartWhen, registry, stats, channel
<1>c. CASE i \in tunnels
  <2>1. /\ pc' = [pc EXCEPT ![p] = "set"]
        /\ overlap' = IF Changing(i) = {} THEN overlap ELSE overlap \cup {i}
        /\ call' = [call EXCEPT ![p].event = "started"]
    BY <1>0, <1>c DEF RestartGet, RestartWhen, Found
  <2>2. /\ call' \in [Procs -> Calls]
        /\ call'[p] = [op |-> "restart", id |-> i, event |-> "started"]
        /\ \A q \in Procs \ {p} : call'[q] = call[q]
    BY <1>0, <2>1 DEF Inv, TypeOK, Calls, ChangeEvents
  <2>3. pc'[p] = "set" /\ \A q \in Procs \ {p} : pc'[q] = pc[q]
    BY <2>1 DEF Inv, TypeOK
  <2>4. TypeOK'
    BY <1>a, <1>c, <2>1, <2>2 DEF Inv, TypeOK, Steps
  <2>5. IndexConsistent'
    BY <1>a DEF Inv, IndexConsistent
  <2>6. CallOK'
    BY <1>a, <2>2, <2>3 DEF Inv, CallOK, ChangeEvents, StatusOps
  <2>7. Blank'
    BY <1>a DEF Inv, Blank
  <2>8. Changing(i)' = Changing(i) \cup {p}
    BY <2>2, <2>3 DEF Changing
  <2>9. \A j \in Ids \ {i} : Changing(j)' = Changing(j)
    BY <1>0, <2>1 DEF Changing
  <2>11. Alone'
    <3>1. i \notin overlap' => Changing(i)' = {p}
      BY <2>1, <2>8
    <3>2. \A j \in tunnels \ {i} : j \notin overlap' => j \notin overlap
      BY <2>1
    <3>3. \A j \in tunnels \ {i} : Changing(j)' = Changing(j)
      BY <2>9 DEF Inv, TypeOK
    <3> QED
      BY <1>a, <3>1, <3>2, <3>3 DEF Inv, Alone
  <2>12. SerialEventsTellStatus'
    BY <1>0, <1>a, <2>1 DEF Inv, SerialEventsTellStatus, Changing
  <2>13. RestartLeavesNoneStopped'
    <3>1. \A j \in Ids, q \in Procs :
            RestartInProgress(q, j) => RestartInProgress(q, j)'
      BY <1>0, <2>2, <2>3 DEF RestartInProgress
    <3> QED
      BY <3>1, <1>a DEF Inv, TypeOK, RestartLeavesNoneStopped
  <2>14. AtMostOneLateEvent'
    BY <1>a, <1>c, <2>9 DEF Inv, TypeOK, AtMostOneLateEvent
  <2>15. Announcing'
    BY <1>a, <2>1, <2>3 DEF Inv, Announcing
  <2> QED
    BY <2>4, <2>5, <2>6, <2>7, <2>11, <2>12, <2>13, <2>14, <2>15 DEF Inv
<1>d. CASE i \notin tunnels
  <2>1. pc' = [pc EXCEPT ![p] = "idle"] /\ call' = [call EXCEPT ![p] = NoCall]
        /\ overlap' = overlap
    BY <1>0, <1>d DEF RestartGet, RestartWhen, Return
  <2>2. \A j \in Ids : Changing(j)' = Changing(j)
    BY <1>0, <2>1 DEF Changing
  <2>3. TypeOK'
    BY <1>a, <2>1 DEF Inv, TypeOK, Steps, Calls, NoCall
  <2>4. IndexConsistent'
    BY <1>a DEF Inv, IndexConsistent
  <2>5. CallOK'
    BY <1>a, <2>1 DEF Inv, TypeOK, CallOK
  <2>6. Blank'
    BY <1>a DEF Inv, Blank
  <2>7. Alone'
    BY <1>a, <2>1, <2>2 DEF Inv, TypeOK, Alone
  <2>8. SerialEventsTellStatus'
    BY <1>a, <2>1, <2>2 DEF Inv, TypeOK, SerialEventsTellStatus
  <2>9. RestartLeavesNoneStopped'
    <3>1. \A j \in tunnels, q \in Procs :
            RestartInProgress(q, j) => RestartInProgress(q, j)'
      BY <1>0, <1>d, <2>1 DEF RestartInProgress
    <3> QED
      BY <3>1, <1>a DEF Inv, RestartLeavesNoneStopped
  <2>10. AtMostOneLateEvent'
    BY <1>a, <2>2 DEF Inv, TypeOK, AtMostOneLateEvent
  <2>11. Announcing'
    BY <1>a, <2>1 DEF Inv, TypeOK, Announcing
  <2> QED
    BY <2>3, <2>4, <2>5, <2>6, <2>7, <2>8, <2>9, <2>10, <2>11 DEF Inv
<1> QED
  BY <1>c, <1>d

LEMMA StatsAddPreserves ==
    ASSUME Inv, NEW p \in Procs, StatsAdd(p)
    PROVE  Inv'
<1>1. TypeOK'
  BY DEF StatsAdd, Return, registry, channel, Steps, Calls, NoCall, Inv,
     TypeOK, CallOK
<1>2. IndexConsistent'
  BY DEF StatsAdd, registry, Inv, IndexConsistent
<1>3. CallOK'
  BY DEF StatsAdd, Return, registry, Inv, TypeOK, CallOK
<1>4. Blank'
  BY DEF StatsAdd, registry, channel, Inv, Blank
<1>5. Alone'
  BY DEF StatsAdd, Return, registry, Changing, Inv, Alone
<1>6. SerialEventsTellStatus'
  BY DEF StatsAdd, Return, registry, channel, Changing, Inv,
     SerialEventsTellStatus
<1>7. RestartLeavesNoneStopped'
  BY DEF StatsAdd, Return, registry, RestartInProgress, Inv,
     RestartLeavesNoneStopped
<1>8. AtMostOneLateEvent'
  BY DEF StatsAdd, Return, registry, channel, Changing, Inv,
     AtMostOneLateEvent
<1>9. Announcing'
  BY DEF StatsAdd, Return, registry, Announcing, Inv
<1> QED
  BY <1>1, <1>2, <1>3, <1>4, <1>5, <1>6, <1>7, <1>8, <1>9 DEF Inv

LEMMA ReceivePreserves ==
    ASSUME Inv, Receive
    PROVE  Inv'
<1>1. TypeOK'
  BY DEF Receive, registry, stats, Inv, TypeOK
<1>2. IndexConsistent'
  BY DEF Receive, registry, Inv, IndexConsistent
<1>3. CallOK'
  BY DEF Receive, registry, Inv, CallOK
<1>4. Blank'
  BY DEF Receive, registry, Inv, Blank
<1>5. Alone'
  BY DEF Receive, registry, Changing, Inv, Alone
<1>6. SerialEventsTellStatus'
  BY DEF Receive, registry, Changing, Inv, SerialEventsTellStatus
<1>7. RestartLeavesNoneStopped'
  BY DEF Receive, registry, RestartInProgress, Inv, RestartLeavesNoneStopped
<1>8. AtMostOneLateEvent'
  BY DEF Receive, registry, Changing, Inv, AtMostOneLateEvent
<1>9. Announcing'
  BY DEF Receive, registry, Announcing, Inv
<1> QED
  BY <1>1, <1>2, <1>3, <1>4, <1>5, <1>6, <1>7, <1>8, <1>9 DEF Inv

LEMMA InitInv == Init => Inv
<1> SUFFICES ASSUME Init PROVE Inv
  OBVIOUS
<1>1. TypeOK /\ CallOK /\ Blank
  BY DEF Init, TypeOK, CallOK, Blank, Statuses, Steps, Calls, NoCall
<1>2. IndexConsistent /\ Alone /\ Announcing /\ AtMostOneLateEvent
  BY DEF Init, IndexConsistent, Alone, Announcing, AtMostOneLateEvent
<1>3. SerialEventsTellStatus /\ RestartLeavesNoneStopped
  BY DEF Init, SerialEventsTellStatus, RestartLeavesNoneStopped
<1> QED
  BY <1>1, <1>2, <1>3 DEF Inv

LEMMA NextInv == Inv /\ [Next]_vars => Inv'
<1> SUFFICES ASSUME Inv, [Next]_vars PROVE Inv'
  OBVIOUS
<1>1. ASSUME NEW n \in Names, Create(n) PROVE Inv'
  BY <1>1, CreatePreserves
<1>2. ASSUME NEW i \in Ids, Delete(i) PROVE Inv'
  BY <1>2, DeletePreserves
<1>3. ASSUME NEW p \in Procs, NEW i \in Ids, NEW op \in StatusOps, Begin(p, op, i)
      PROVE Inv'
  BY <1>3, BeginPreserves
<1>4. ASSUME NEW p \in Procs, NEW i \in Ids, StatsGet(p, i) PROVE Inv'
  BY <1>4, StatsGetPreserves
<1>5. ASSUME NEW p \in Procs, SetStatus(p) PROVE Inv'
  BY <1>5, SetStatusPreserves
<1>6. ASSUME NEW p \in Procs, Emit(p) PROVE Inv'
  BY <1>6, EmitPreserves
<1>7. ASSUME NEW p \in Procs, RestartGet(p) PROVE Inv'
  BY <1>7, RestartGetPreserves
<1>8. ASSUME NEW p \in Procs, StatsAdd(p) PROVE Inv'
  BY <1>8, StatsAddPreserves
<1>9. CASE Receive
  BY <1>9, ReceivePreserves
<1>10. CASE UNCHANGED vars
  BY <1>10 DEF vars, Inv, TypeOK, IndexConsistent, CallOK, Blank, Alone,
     Announcing, SerialEventsTellStatus, RestartLeavesNoneStopped,
     AtMostOneLateEvent, Changing, RestartInProgress
<1> QED
  BY <1>1, <1>2, <1>3, <1>4, <1>5, <1>6, <1>7, <1>8, <1>9, <1>10 DEF Next

LEMMA InvHolds == Spec => []Inv
<1> QED
  BY InitInv, NextInv, PTL DEF Spec

\* The registry keeps its types; in particular the channel never holds more
\* than EventCap events.
THEOREM TypeCorrect == Spec => []TypeOK
<1>1. Inv => TypeOK
  BY DEF Inv
<1> QED
  BY <1>1, InvHolds, PTL

\* The two maps of the manager never disagree.
THEOREM IndexCorrect == Spec => []IndexConsistent
<1>1. Inv => IndexConsistent
  BY DEF Inv
<1> QED
  BY <1>1, InvHolds, PTL

\* Callers that take turns leave the status their last event told.
THEOREM EventsCorrect == Spec => []SerialEventsTellStatus
<1>1. Inv => SerialEventsTellStatus
  BY DEF Inv
<1> QED
  BY <1>1, InvHolds, PTL

\* No restart that is over leaves a registered tunnel stopped.
THEOREM RestartCorrect == Spec => []RestartLeavesNoneStopped
<1>1. Inv => RestartLeavesNoneStopped
  BY DEF Inv
<1> QED
  BY <1>1, InvHolds, PTL

\* A deleted tunnel is announced at most once more by each goroutine.
THEOREM LateEventsBounded == Spec => []AtMostOneLateEvent
<1>1. Inv => AtMostOneLateEvent
  BY DEF Inv
<1> QED
  BY <1>1, InvHolds, PTL

-----------------------------------------------------------------------------
(* The refinement of Registry.  shown is what the manager shows of itself. *)

shown == <<created, [i \in Ids |-> IF i \in tunnels THEN name[i] ELSE NoName], requests>>

LEMMA InitRegistry == Init => Reg!RInit
<1> QED
  BY DEF Init, Reg!RInit

LEMMA CreateRegisters ==
    ASSUME Inv, NEW n \in Names, Create(n)
    PROVE  \E i \in Ids : Reg!Register(n, i)
<1>1. PICK i \in Ids \ created :
        /\ created' = created \cup {i}
        /\ tunnels' = tunnels \cup {i}
        /\ name' = [name EXCEPT ![i] = n]
        /\ requests' = requests
  BY DEF Create, stats
<1>2. \A j \in tunnels : name[j] /= n
  BY DEF Create, Inv, TypeOK, IndexConsistent
<1>3. Reg!Bearing(n) = {}
  BY <1>2 DEF Reg!Bearing
<1>4. [j \in Ids |-> IF j \in tunnels THEN name[j] ELSE NoName]'
        = [[j \in Ids |-> IF j \in tunnels THEN name[j] ELSE NoName]
            EXCEPT ![i] = n]
  BY <1>1 DEF Inv, TypeOK
<1>5. Reg!Register(n, i)
  BY <1>1, <1>3, <1>4 DEF Reg!Register
<1> QED
  BY <1>5

LEMMA DeleteUnregisters ==
    ASSUME Inv, NEW i \in Ids, Delete(i)
    PROVE  Reg!Unregister(i)
<1>1. [j \in Ids |-> IF j \in tunnels THEN name[j] ELSE NoName][i] /= NoName
  BY DEF Delete, Inv, IndexConsistent
<1>2. [j \in Ids |-> IF j \in tunnels THEN name[j] ELSE NoName]'
        = [[j \in Ids |-> IF j \in tunnels THEN name[j] ELSE NoName]
            EXCEPT ![i] = NoName]
  BY DEF Delete, Inv, TypeOK
<1> QED
  BY <1>1, <1>2 DEF Delete, stats, Reg!Unregister

LEMMA StatsAddCounts ==
    ASSUME Inv, NEW p \in Procs, StatsAdd(p)
    PROVE  (\E i \in Ids : Reg!Count(i)) \/ UNCHANGED shown
<1> DEFINE i == call[p].id
<1>1. i \in created /\ i \in Ids
  BY DEF StatsAdd, Inv, TypeOK, CallOK
<1>2. requests[i] \in 0..MaxRequests
  BY <1>1 DEF Inv, TypeOK
<1>3. UNCHANGED <<created, tunnels, name>>
  BY DEF StatsAdd, registry
<1>4. CASE requests[i] < MaxRequests
  <2>1. requests' = [requests EXCEPT ![i] = @ + 1]
    BY <1>4 DEF StatsAdd
  <2>2. Reg!Count(i)
    BY <1>1, <1>3, <1>4, <2>1 DEF Reg!Count
  <2> QED
    BY <1>1, <2>2
<1>5. CASE ~(requests[i] < MaxRequests)
  <2>1. requests' = [requests EXCEPT ![i] = requests[i]]
    BY <1>5 DEF StatsAdd
  <2>2. requests' = requests
    BY <1>1, <2>1 DEF Inv, TypeOK
  <2> QED
    BY <1>3, <2>2 DEF shown
<1> QED
  BY <1>4, <1>5

LEMMA StepRegistry ==
    ASSUME Inv, [Next]_vars
    PROVE  [Reg!RNext]_(Reg!rvars)
<1>1. ASSUME NEW n \in Names, Create(n) PROVE Reg!RNext
  BY <1>1, CreateRegisters DEF Reg!RNext
<1>2. ASSUME NEW i \in Ids, Delete(i) PROVE Reg!RNext
  BY <1>2, DeleteUnregisters DEF Reg!RNext
<1>3. ASSUME NEW p \in Procs, StatsAdd(p) PROVE Reg!RNext \/ UNCHANGED shown
  BY <1>3, StatsAddCounts DEF Reg!RNext
<1>4. ASSUME UNCHANGED <<created, tunnels, name, requests>> PROVE UNCHANGED shown
  BY <1>4 DEF shown
<1>5. ASSUME NEW p \in Procs, NEW i \in Ids, NEW op \in StatusOps, Begin(p, op, i)
      PROVE UNCHANGED shown
  BY <1>5, <1>4 DEF Begin, registry, stats
<1>6. ASSUME NEW p \in Procs, NEW i \in Ids, StatsGet(p, i) PROVE UNCHANGED shown
  BY <1>6, <1>4 DEF StatsGet, registry, stats
<1>7. ASSUME NEW p \in Procs, SetStatus(p) \/ Emit(p) \/ RestartGet(p)
      PROVE UNCHANGED shown
  BY <1>7, <1>4 DEF SetStatus, WriteStatus, Emit, RestartGet, RestartWhen,
     registry, stats
<1>8. Receive \/ UNCHANGED vars => UNCHANGED shown
  BY <1>4 DEF Receive, vars, registry, stats
<1>9. UNCHANGED shown => UNCHANGED Reg!rvars
  BY DEF shown, Reg!rvars
<1> QED
  BY <1>1, <1>2, <1>3, <1>5, <1>6, <1>7, <1>8, <1>9 DEF Next

\* The manager keeps the promise the servers in front of it rely on.
THEOREM RegistryCorrect == Spec => RegistrySpec
<1> QED
  BY InitRegistry, StepRegistry, InvHolds, PTL DEF Spec, RegistrySpec, Reg!RSpec

-----------------------------------------------------------------------------
(* TunnelCleanup.  What the cleaner knows.                                 *)


\* What a pass holds between its steps: nothing is listed outside the
\* examination, nothing is decided while it sleeps, and its goroutine is in
\* the manager only to disable a tunnel.
PassOK ==
    /\ phase /= "examine" => listed = {}
    /\ phase = "sleep" => toDelete = {} /\ toDisable = {}
    /\ phase /= "apply" => pc[Cleaner] = "idle"
    /\ pc[Cleaner] \in {"idle", "set", "emit"}
    /\ pc[Cleaner] /= "idle" => call[Cleaner].op = "disable"

\* The tunnels a pass has to delete are on their way, and still idle.
OverdueKept ==
    /\ overdue \cap tunnels \subseteq fresh \cup skipped \cup listed \cup toDelete
    /\ \A i \in overdue \ fresh : age[i] >= DeleteAfter

Rest == CTypeOK /\ PassOK /\ OnlyIdleTouched /\ OverdueKept

CInv == Inv /\ Rest

-----------------------------------------------------------------------------
(* Refinement.                                                             *)

LEMMA StepRefines ==
    ASSUME TypeOK, CNext
    PROVE  [Next]_vars
<1>1. CASE Tick
  BY <1>1 DEF Tick
<1>2. CASE StartPass
  BY <1>2 DEF StartPass
<1>3. CASE CleanerStep
  <2>1. CASE \E i \in Ids : Examine(i)
    BY <2>1 DEF Examine, Decide
  <2>2. CASE Examined
    BY <2>2 DEF Examined
  <2>3. CASE \E i \in Ids : ApplyDelete(i)
    BY <2>3 DEF ApplyDelete, Next
  <2>4. CASE \E i \in Ids : ApplyDisable(i)
    BY <2>4, CleanerAssumption DEF ApplyDisable, Next, StatusOps
  <2>5. CASE \E i \in Ids : ApplyError(i)
    BY <2>5 DEF ApplyError
  <2>6. CASE EndPass
    BY <2>6 DEF EndPass
  <2>7. CASE CallStep(Cleaner)
    BY <2>7, CleanerAssumption DEF CallStep, Next
  <2> QED
    BY <1>3, <2>1, <2>2, <2>3, <2>4, <2>5, <2>6, <2>7 DEF CleanerStep
<1>4. CASE \E h \in Handlers, n \in Names : Lookup(h, n)
  BY <1>4 DEF Lookup
<1>5. CASE \E h \in Handlers : CheckActive(h)
  BY <1>5 DEF CheckActive
<1>6. CASE \E h \in Handlers : ProxyFails(h)
  BY <1>6 DEF ProxyFails
<1>7. CASE \E h \in Handlers : ProxyDone(h)
  <2>1. PICK h \in Handlers : ProxyDone(h)
    BY <1>7
  <2>2. CASE target[h] \in tunnels
    <3>1. h \in Procs /\ target[h] \in Ids
      BY <2>2 DEF Handlers, TypeOK
    <3> QED
      BY <2>1, <2>2, <3>1 DEF ProxyDone, Next
  <2> QED
    BY <2>1, <2>2 DEF ProxyDone
<1>8. CASE \E h \in Handlers : Count(h)
  BY <1>8 DEF Count, Next, Handlers
<1>9. CASE \E h \in Handlers : CallStep(h)
  BY <1>9 DEF CallStep, Next, Handlers
<1>10. CASE ManagerStep
  BY <1>10, OpsAssumption DEF ManagerStep, Next, Handlers
<1> QED
  BY <1>1, <1>2, <1>3, <1>4, <1>5, <1>6, <1>7, <1>8, <1>9, <1>10 DEF CNext

LEMMA BoxRefines ==
    ASSUME TypeOK, [CNext]_cvars
    PROVE  [Next]_vars
<1>1. CASE CNext
  BY <1>1, StepRefines
<1>2. CASE UNCHANGED cvars
  BY <1>2 DEF cvars
<1> QED
  BY <1>1, <1>2

\* The manager's own inductive invariant holds under the cleanup.
LEMMA ManagerInv == CSpec => []Inv
<1>1. CInit => Inv
  BY InitInv DEF CInit
<1>2. Inv /\ [CNext]_cvars => Inv'
  <2> SUFFICES ASSUME Inv, [CNext]_cvars PROVE Inv'
    OBVIOUS
  <2>1. TypeOK
    BY DEF Inv
  <2> QED
    BY <2>1, BoxRefines, NextInv
<1> QED
  BY <1>1, <1>2, PTL DEF CSpec

\* The cleanup and the requests use the manager as TunnelManager allows:
\* every behaviour of TunnelCleanup is one of TunnelManager.
THEOREM CleanupUsesManager == CSpec => ManagerSpec
<1>1. CInit => Init
  BY DEF CInit
<1>2. Inv /\ [CNext]_cvars => [Next]_vars
  BY BoxRefines DEF Inv
<1> QED
  BY <1>1, <1>2, ManagerInv, PTL DEF CSpec, ManagerSpec, Spec

-----------------------------------------------------------------------------
(* The cleaner's own invariant.                                            *)

HandlersOK ==
    /\ target \in [Handlers -> Ids \cup {NoTunnel}]
    /\ hpc \in [Handlers -> {"idle", "found", "proxy"}]

\* A step that leaves the pass, the ages and the cleaner's call alone, and
\* registers no tunnel but new ones, cannot disturb it.
LEMMA Frame ==
    ASSUME CInv, Inv', HandlersOK', UNCHANGED <<age, pass, fresh>>,
           created \subseteq created', tunnels' \cap created \subseteq tunnels,
           pc'[Cleaner] = pc[Cleaner], call'[Cleaner] = call[Cleaner]
    PROVE  Rest'
<1>1. CTypeOK'
  BY DEF CInv, Rest, Inv, CTypeOK, HandlersOK, pass
<1>2. PassOK'
  BY DEF CInv, Rest, PassOK, pass
<1>3. OnlyIdleTouched'
  BY DEF CInv, Rest, OnlyIdleTouched, pass
<1>4. OverdueKept'
  BY DEF CInv, Rest, CTypeOK, OverdueKept, pass
<1> QED
  BY <1>1, <1>2, <1>3, <1>4 DEF Rest

LEMMA TickPreserves ==
    ASSUME CInv, Inv', Tick
    PROVE  Rest'
<1>1. age' \in [Ids -> 0..MaxAge] /\ \A i \in Ids : age'[i] >= age[i]
  BY PeriodAssumption DEF CInv, Rest, CTypeOK, Tick, MaxAge
<1>2. pc[Cleaner] = "set" => call[Cleaner].id \in Ids
  BY CleanerAssumption DEF CInv, Inv, TypeOK, CallOK
<1>3. CTypeOK'
  BY <1>1 DEF CInv, Rest, Inv, CTypeOK, Tick, pass, handlers, vars
<1>4. PassOK'
  BY DEF CInv, Rest, PassOK, Tick, pass, vars
<1>5. OnlyIdleTouched'
  BY <1>1, <1>2, PeriodAssumption
     DEF CInv, Rest, Inv, TypeOK, CTypeOK, OnlyIdleTouched, Tick, pass, vars
<1>6. OverdueKept'
  BY <1>1, PeriodAssumption
     DEF CInv, Rest, Inv, TypeOK, CTypeOK, OverdueKept, Tick, pass, vars
<1> QED
  BY <1>3, <1>4, <1>5, <1>6 DEF Rest

LEMMA StartPassPreserves ==
    ASSUME CInv, Inv', StartPass
    PROVE  Rest'
<1>1. CTypeOK'
  BY DEF CInv, Rest, Inv, TypeOK, CTypeOK, StartPass, handlers, vars
<1>2. PassOK'
  BY DEF CInv, Rest, PassOK, StartPass, vars
<1>3. OnlyIdleTouched'
  BY DEF CInv, Rest, PassOK, OnlyIdleTouched, StartPass, vars
<1>4. OverdueKept'
  BY DEF CInv, Rest, OverdueKept, StartPass, vars
<1> QED
  BY <1>1, <1>2, <1>3, <1>4 DEF Rest

LEMMA ExaminePreserves ==
    ASSUME CInv, Inv', NEW i \in Ids, Examine(i)
    PROVE  Rest'
<1>1. CTypeOK'
  BY DEF CInv, Rest, Inv, CTypeOK, Examine, Decide, handlers, vars
<1>2. PassOK'
  BY DEF CInv, Rest, PassOK, Examine, Decide, vars
<1>3. OnlyIdleTouched'
  BY DEF CInv, Rest, OnlyIdleTouched, Examine, Decide, vars
<1>4. OverdueKept'
  BY DEF CInv, Rest, OverdueKept, Examine, Decide, vars
<1> QED
  BY <1>1, <1>2, <1>3, <1>4 DEF Rest

LEMMA ExaminedPreserves ==
    ASSUME CInv, Inv', Examined
    PROVE  Rest'
<1>1. CTypeOK'
  BY DEF CInv, Rest, Inv, CTypeOK, Examined, handlers, vars
<1>2. PassOK'
  BY DEF CInv, Rest, PassOK, Examined, vars
<1>3. OnlyIdleTouched'
  BY DEF CInv, Rest, OnlyIdleTouched, Examined, vars
<1>4. OverdueKept'
  BY DEF CInv, Rest, OverdueKept, Examined, vars
<1> QED
  BY <1>1, <1>2, <1>3, <1>4 DEF Rest

LEMMA ApplyDeletePreserves ==
    ASSUME CInv, Inv', NEW i \in Ids, ApplyDelete(i)
    PROVE  Rest'
<1>1. CTypeOK'
  BY DEF CInv, Rest, Inv, CTypeOK, ApplyDelete, Delete, handlers, stats
<1>2. PassOK'
  BY DEF CInv, Rest, PassOK, ApplyDelete, Delete, Ready
<1>3. OnlyIdleTouched'
  BY DEF CInv, Rest, OnlyIdleTouched, ApplyDelete, Delete
<1>4. OverdueKept'
  BY DEF CInv, Rest, OverdueKept, ApplyDelete, Delete
<1> QED
  BY <1>1, <1>2, <1>3, <1>4 DEF Rest

LEMMA ApplyDisablePreserves ==
    ASSUME CInv, Inv', NEW i \in Ids, ApplyDisable(i)
    PROVE  Rest'
<1>1. /\ pc' = [pc EXCEPT ![Cleaner] = "set"]
      /\ call' = [call EXCEPT ![Cleaner] =
                    [op |-> "disable", id |-> i, event |-> FirstEvent["disable"]]]
      /\ Cleaner \in DOMAIN pc /\ Cleaner \in DOMAIN call
  BY CleanerAssumption DEF ApplyDisable, Begin, Found, CInv, Inv, TypeOK
<1>2. CTypeOK'
  BY DEF CInv, Rest, Inv, CTypeOK, ApplyDisable, Begin, registry, handlers
<1>3. PassOK'
  BY <1>1 DEF CInv, Rest, PassOK, ApplyDisable, Ready
<1>4. OnlyIdleTouched'
  BY <1>1 DEF CInv, Rest, OnlyIdleTouched, ApplyDisable
<1>5. OverdueKept'
  BY DEF CInv, Rest, OverdueKept, ApplyDisable, Begin, registry
<1> QED
  BY <1>2, <1>3, <1>4, <1>5 DEF Rest

LEMMA ApplyErrorPreserves ==
    ASSUME CInv, Inv', NEW i \in Ids, ApplyError(i)
    PROVE  Rest'
<1>1. CTypeOK'
  BY DEF CInv, Rest, Inv, CTypeOK, ApplyError, handlers, vars
<1>2. PassOK'
  BY DEF CInv, Rest, PassOK, ApplyError, Ready, vars
<1>3. OnlyIdleTouched'
  BY DEF CInv, Rest, OnlyIdleTouched, ApplyError, vars
<1>4. OverdueKept'
  BY DEF CInv, Rest, OverdueKept, ApplyError, vars
<1> QED
  BY <1>1, <1>2, <1>3, <1>4 DEF Rest

LEMMA EndPassPreserves ==
    ASSUME CInv, Inv', EndPass
    PROVE  Rest'
<1>1. CTypeOK'
  BY DEF CInv, Rest, Inv, CTypeOK, EndPass, handlers, vars
<1>2. PassOK'
  BY DEF CInv, Rest, PassOK, EndPass, Ready, vars
<1>3. OnlyIdleTouched'
  BY DEF CInv, Rest, OnlyIdleTouched, EndPass, vars
<1>4. OverdueKept'
  BY DEF CInv, Rest, OverdueKept, EndPass, vars
<1> QED
  BY <1>1, <1>2, <1>3, <1>4 DEF Rest

\* The cleaner's Disable: SetStatus and Emit; it never restarts a tunnel.
LEMMA CleanerCallPreserves ==
    ASSUME CInv, Inv', CallStep(Cleaner)
    PROVE  Rest'
<1>1. HandlersOK'
  BY DEF CInv, Rest, CTypeOK, CallStep, handlers, HandlersOK
<1>2. /\ pc[Cleaner] /= "get"
      /\ pc[Cleaner] = "emit" => ~Continues(Cleaner)
      /\ Cleaner \in DOMAIN pc
  BY CleanerAssumption DEF CInv, Rest, PassOK, Inv, TypeOK, Continues
<1>3. CASE SetStatus(Cleaner)
  <2>1. /\ UNCHANGED <<registry, call>>
        /\ pc[Cleaner] = "set" /\ pc'[Cleaner] = "emit"
    BY <1>2, <1>3 DEF SetStatus, WriteStatus
  <2>2. UNCHANGED <<age, pass, fresh>>
    BY DEF CallStep
  <2>3. CTypeOK'
    BY <2>1, <2>2, <1>1 DEF CInv, Rest, Inv, CTypeOK, HandlersOK, pass, registry
  <2>4. PassOK'
    BY <2>1, <2>2 DEF CInv, Rest, PassOK, pass
  <2>5. OnlyIdleTouched'
    BY <2>1, <2>2 DEF CInv, Rest, OnlyIdleTouched, pass
  <2>6. OverdueKept'
    BY <2>1, <2>2 DEF CInv, Rest, OverdueKept, pass, registry
  <2> QED
    BY <2>3, <2>4, <2>5, <2>6 DEF Rest
<1>4. CASE Emit(Cleaner)
  <2>1. /\ UNCHANGED registry
        /\ pc[Cleaner] = "emit" /\ pc'[Cleaner] = "idle"
    BY <1>2, <1>4 DEF Emit, Return
  <2>2. UNCHANGED <<age, pass, fresh>>
    BY DEF CallStep
  <2>3. CTypeOK'
    BY <2>1, <2>2, <1>1 DEF CInv, Rest, Inv, CTypeOK, HandlersOK, pass, registry
  <2>4. PassOK'
    BY <2>1, <2>2 DEF CInv, Rest, PassOK, pass
  <2>5. OnlyIdleTouched'
    BY <2>1, <2>2 DEF CInv, Rest, OnlyIdleTouched, pass
  <2>6. OverdueKept'
    BY <2>1, <2>2 DEF CInv, Rest, OverdueKept, pass, registry
  <2> QED
    BY <2>3, <2>4, <2>5, <2>6 DEF Rest
<1> QED
  BY <1>2, <1>3, <1>4 DEF CallStep, RestartGet, RestartWhen

LEMMA CountPreserves ==
    ASSUME CInv, Inv', NEW h \in Handlers, Count(h)
    PROVE  Rest'
<1>1. PICK i \in created : i = call[h].id /\ i \in Ids
  BY DEF Count, StatsAdd, Handlers, CInv, Inv, CallOK, TypeOK
<1>2. /\ UNCHANGED registry /\ UNCHANGED <<pass, handlers>>
      /\ pc'[Cleaner] = pc[Cleaner] /\ call'[Cleaner] = call[Cleaner]
      /\ age' = [age EXCEPT ![i] = 0] /\ fresh' = fresh \cup {i}
  BY <1>1 DEF Count, StatsAdd, Return, Handlers, CInv, Inv, TypeOK
<1>3. CTypeOK'
  BY <1>1, <1>2, PeriodAssumption
     DEF CInv, Rest, Inv, CTypeOK, registry, pass, handlers, MaxAge
<1>4. PassOK'
  BY <1>2 DEF CInv, Rest, PassOK, pass
<1>5. OnlyIdleTouched'
  BY <1>1, <1>2 DEF CInv, Rest, CTypeOK, OnlyIdleTouched, pass
<1>6. OverdueKept'
  BY <1>1, <1>2 DEF CInv, Rest, CTypeOK, OverdueKept, pass, registry
<1> QED
  BY <1>3, <1>4, <1>5, <1>6 DEF Rest

\* The steps of the manager and of its other callers.
LEMMA ManagerStepPreserves ==
    ASSUME CInv, Inv', ManagerStep
    PROVE  Rest'
<1>1. HandlersOK' /\ UNCHANGED <<age, pass, fresh>>
  BY DEF CInv, Rest, CTypeOK, ManagerStep, handlers, HandlersOK
<1>2. CASE \E n \in Names : Create(n)
  BY <1>1, <1>2, Frame DEF Create
<1>3. CASE \E i \in Ids : Delete(i)
  BY <1>1, <1>3, Frame DEF Delete
<1>4. CASE \E p \in Handlers, i \in Ids, op \in OperatorOps :
              hpc[p] = "idle" /\ Begin(p, op, i)
  <2>1. PICK p \in Handlers, i \in Ids, op \in OperatorOps : Begin(p, op, i)
    BY <1>4
  <2>2. pc'[Cleaner] = pc[Cleaner] /\ call'[Cleaner] = call[Cleaner]
    BY <2>1 DEF Begin, Found, Handlers, CInv, Inv, TypeOK
  <2> QED
    BY <1>1, <2>1, <2>2, Frame DEF Begin, registry
<1>5. CASE Receive
  BY <1>1, <1>5, Frame DEF Receive, registry
<1> QED
  BY <1>2, <1>3, <1>4, <1>5 DEF ManagerStep

LEMMA HandlerCallPreserves ==
    ASSUME CInv, Inv', NEW h \in Handlers, CallStep(h)
    PROVE  Rest'
<1>1. HandlersOK' /\ UNCHANGED <<age, pass, fresh>>
  BY DEF CInv, Rest, CTypeOK, CallStep, handlers, HandlersOK
<1>2. h /= Cleaner /\ h \in Procs
  BY DEF Handlers
<1>3. pc'[Cleaner] = pc[Cleaner] /\ call'[Cleaner] = call[Cleaner]
  <2>1. CASE SetStatus(h)
    BY <1>2, <2>1, CleanerAssumption DEF SetStatus, WriteStatus, CInv, Inv, TypeOK
  <2>2. CASE Emit(h)
    BY <1>2, <2>2, CleanerAssumption DEF Emit, Return, CInv, Inv, TypeOK
  <2>3. CASE RestartGet(h)
    BY <1>2, <2>3, CleanerAssumption
       DEF RestartGet, RestartWhen, Found, Return, CInv, Inv, TypeOK
  <2> QED
    BY <2>1, <2>2, <2>3 DEF CallStep
<1>4. UNCHANGED registry
  BY DEF CallStep, SetStatus, WriteStatus, Emit, RestartGet, RestartWhen
<1> QED
  BY <1>1, <1>3, <1>4, Frame DEF registry

\* The steps of a request before it is counted.
LEMMA RequestPreserves ==
    ASSUME CInv, Inv', NEW h \in Handlers,
           \/ \E n \in Names : Lookup(h, n)
           \/ CheckActive(h)
           \/ ProxyFails(h)
           \/ ProxyDone(h)
    PROVE  Rest'
<1>1. UNCHANGED <<age, pass, fresh>>
  BY DEF Lookup, CheckActive, ProxyFails, ProxyDone
<1>2. HandlersOK'
  BY DEF Lookup, CheckActive, ProxyFails, ProxyDone, Finish, HandlersOK,
         CInv, Rest, CTypeOK, Inv, TypeOK
<1>3. UNCHANGED vars \/ StatsGet(h, target[h])
  BY DEF Lookup, CheckActive, ProxyFails, ProxyDone
<1>4. /\ UNCHANGED registry
      /\ pc'[Cleaner] = pc[Cleaner] /\ call'[Cleaner] = call[Cleaner]
  BY <1>3, CleanerAssumption DEF vars, registry, StatsGet, Handlers, CInv, Inv, TypeOK
<1> QED
  BY <1>1, <1>2, <1>4, Frame DEF registry

LEMMA NextRest ==
    ASSUME CInv, Inv', [CNext]_cvars
    PROVE  Rest'
<1>1. CASE CleanerStep
  BY <1>1, ExaminePreserves, ExaminedPreserves, ApplyDeletePreserves,
     ApplyDisablePreserves, ApplyErrorPreserves, EndPassPreserves,
     CleanerCallPreserves DEF CleanerStep
<1>2. CASE \E h \in Handlers :
              \/ \E n \in Names : Lookup(h, n)
              \/ CheckActive(h)
              \/ ProxyFails(h)
              \/ ProxyDone(h)
  BY <1>2, RequestPreserves
<1>3. CASE \E h \in Handlers : Count(h)
  BY <1>3, CountPreserves
<1>4. CASE \E h \in Handlers : CallStep(h)
  BY <1>4, HandlerCallPreserves
<1>5. CASE UNCHANGED cvars
  BY <1>5, Frame DEF cvars, pass, vars, HandlersOK, CInv, Rest, CTypeOK
<1> QED
  BY <1>1, <1>2, <1>3, <1>4, <1>5, TickPreserves, StartPassPreserves,
     ManagerStepPreserves DEF CNext

LEMMA CInvHolds == CSpec => []CInv
<1>1. CInit => Rest
  <2> SUFFICES ASSUME CInit PROVE Rest
    OBVIOUS
  <2>1. TypeOK
    BY InitInv DEF CInit, Inv
  <2>2. CTypeOK
    BY <2>1, PeriodAssumption DEF CInit, CTypeOK, MaxAge
  <2>3. PassOK /\ OnlyIdleTouched /\ OverdueKept
    BY CleanerAssumption DEF CInit, Init, PassOK, OnlyIdleTouched, OverdueKept
  <2> QED
    BY <2>2, <2>3 DEF Rest
<1>2. Inv /\ Rest /\ Inv' /\ [CNext]_cvars => Rest'
  BY NextRest DEF CInv
<1>3. Inv /\ Rest => CInv
  BY DEF CInv
<1> QED
  BY <1>1, <1>2, <1>3, ManagerInv, PTL DEF CSpec

\* The variables of the pass and of the requests keep their types; what is
\* listed, decided and served are tunnels that were created.
THEOREM CleanupTypeCorrect == CSpec => []CTypeOK
<1>1. CInv => CTypeOK
  BY DEF CInv, Rest
<1> QED
  BY <1>1, CInvHolds, PTL

\* However requests, operators and the pass interleave, only a request
\* counted during the pass can make the cleaner touch a tunnel in use.
THEOREM CleanupSound == CSpec => []OnlyIdleTouched
<1>1. CInv => OnlyIdleTouched
  BY DEF CInv, Rest
<1> QED
  BY <1>1, CInvHolds, PTL

\* A pass that is over has deleted every tunnel it had to delete.
THEOREM CleanupComplete == CSpec => []PassComplete
<1>1. CInv => PassComplete
  BY DEF CInv, Rest, PassOK, OverdueKept, PassComplete
<1> QED
  BY <1>1, CInvHolds, PTL

\* What the manager promises its callers still holds with the cleaner and the
\* requests among them, which hold pointers to tunnels that may be deleted or
\* disabled meanwhile: its maps agree, callers that take turns leave the
\* status they announced, a restart leaves no tunnel stopped, and a deleted
\* tunnel is announced once more at most (types.go:130-345, main.go:208-262).
THEOREM ManagerKeptByCleanup ==
    CSpec => [](/\ IndexConsistent
                /\ SerialEventsTellStatus
                /\ RestartLeavesNoneStopped
                /\ AtMostOneLateEvent)
<1>1. Inv => /\ IndexConsistent
             /\ SerialEventsTellStatus
             /\ RestartLeavesNoneStopped
             /\ AtMostOneLateEvent
  BY DEF Inv
<1> QED
  BY <1>1, ManagerInv, PTL

\* What the servers see of the manager is a registry, the cleanup's deletions
\* and the counted requests included (main.go:208-262, gateway.go:416-462).
THEOREM CleanupKeepsRegistry == CSpec => RegistrySpec
<1> QED
  BY CleanupUsesManager, RegistryCorrect DEF ManagerSpec
=============================================================================
