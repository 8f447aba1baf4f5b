----------------------- MODULE ServerLifecycleProofs -----------------------
(***************************************************************************)
(* Proofs of the safety properties of ServerLifecycle for every            *)
(* configuration and every number of requests in flight.                   *)
(***************************************************************************)
EXTENDS ServerLifecycle, TLAPS

\* What the sockets tell, whatever main does.
SocketsOK ==
    /\ \A s \in HttpServers : s \in shut => sock[s] /= "open"
    /\ \A s \in HttpServers \ enabled : sock[s] = "none" /\ conns[s] = 0
    /\ sock["tcp"] /= "pending"
    /\ sock["tcp"] = "closed" => cancelled
    /\ phase = "starting" /\ at \in {"http", "tcp"} => acceptor = "none"

Down == {"stopping", "stopped", "crashed"}

\* The servers main has stopped when it is at s.
Passed == [http |-> {},
           tcp  |-> {"http"},
           ws   |-> {"http", "tcp"},
           api  |-> {"http", "tcp", "ws"},
           mcp  |-> {"http", "tcp", "ws", "api"},
           end  |-> {"http", "tcp", "ws", "api"}]

\* An HTTP server that main is past is down for good.
Done(s) ==
    IF s \in HttpServers
    THEN s \notin enabled \/ (s \in shut /\ conns[s] = 0)
    ELSE sock[s] /= "open"

OrderOK ==
    /\ phase \in Down => at \in DOMAIN Passed /\ cancelled
                         /\ \A s \in Passed[at] : Done(s)
    /\ phase = "stopped" => at = "end"
    /\ phase = "crashed" => at = "api"

LInv == TypeOK /\ SocketsOK /\ OrderOK /\ NeverSpins

-----------------------------------------------------------------------------

LEMMA InitLInv == Init => LInv
<1> SUFFICES ASSUME Init PROVE LInv
  OBVIOUS
<1>1. TypeOK
  <2>1. 0 \in 0..MaxConns
    BY MaxConnsAssumption
  <2>2. conns \in [HttpServers -> 0..MaxConns]
    BY <2>1 DEF Init
  <2>3. sock \in [Services -> SockStates]
    BY DEF Init, SockStates
  <2> QED
    BY <2>2, <2>3 DEF Init, TypeOK, Phases, LoopStates, Services, HttpServers
<1>2. SocketsOK
  BY DEF Init, SocketsOK, Services
<1>3. OrderOK /\ NeverSpins
  BY DEF Init, OrderOK, NeverSpins, Down
<1> QED
  BY <1>1, <1>2, <1>3 DEF LInv

\* The servers whose sockets goroutines open.
Spawned == Services \ {"tcp"}

\* While main comes up.
LEMMA UpPreserves ==
    ASSUME LInv,
           \/ \E s \in Services : SkipStart(s)
           \/ \E s \in Spawned : Spawn(s)
           \/ StartTCP
           \/ AllStarted
           \/ Signal
           \/ Cancel
    PROVE  LInv'
<1>1. CASE \E s \in Services : SkipStart(s)
  BY <1>1 DEF SkipStart, Starting, StartNext, LInv, TypeOK, SocketsOK,
     OrderOK, NeverSpins, Services, HttpServers, Down
<1>2. CASE \E s \in Spawned : Spawn(s)
  BY <1>2 DEF Spawned, Spawn, Starting, StartNext, LInv, TypeOK,
     SocketsOK, OrderOK, NeverSpins, SockStates, Services, HttpServers,
     Down
<1>3. CASE StartTCP
  <2>1. acceptor = "none"
    BY <1>3 DEF StartTCP, Starting, LInv, SocketsOK
  <2>2. at' \in Services
    BY <1>3 DEF StartTCP, Starting, StartNext, Services, HttpServers
  <2>3. "tcp" \in Services
    BY DEF Services
  <2>4. CASE sock' = [sock EXCEPT !["tcp"] = "open"] /\ acceptor' = "running"
    <3>1. sock' \in [Services -> SockStates] /\ sock'["tcp"] = "open"
      BY <2>3, <2>4 DEF LInv, TypeOK, SockStates
    <3>2. TypeOK'
      BY <1>3, <2>2, <2>4, <3>1 DEF StartTCP, Starting, LInv, TypeOK, LoopStates
    <3> QED
      BY <1>3, <2>4, <3>2 DEF StartTCP, Starting, StartNext, LInv, TypeOK,
         SocketsOK, OrderOK, NeverSpins, Services, HttpServers, Down
  <2>5. CASE sock' = [sock EXCEPT !["tcp"] = "failed"] /\ UNCHANGED acceptor
    <3>1. sock' \in [Services -> SockStates]
      BY <2>5 DEF LInv, TypeOK, SockStates
    <3>2. TypeOK'
      BY <1>3, <2>1, <2>2, <2>5, <3>1 DEF StartTCP, Starting, LInv, TypeOK
    <3> QED
      BY <1>3, <2>1, <2>5, <3>2 DEF StartTCP, Starting, StartNext, LInv, TypeOK,
         SocketsOK, OrderOK, NeverSpins, Services, HttpServers, Down
  <2> QED
    BY <1>3, <2>4, <2>5 DEF StartTCP
<1>4. CASE AllStarted
  BY <1>4 DEF AllStarted, LInv, TypeOK, SocketsOK, OrderOK, NeverSpins,
     Phases, Down
<1>5. CASE Signal
  BY <1>5 DEF Signal, LInv, TypeOK, SocketsOK, OrderOK, NeverSpins,
     Phases, Down
<1>6. CASE Cancel
  BY <1>6 DEF Cancel, LInv, TypeOK, SocketsOK, OrderOK, NeverSpins,
     Phases, Passed, Services, HttpServers
<1> QED
  BY <1>1, <1>2, <1>3, <1>4, <1>5, <1>6

\* While requests come and goroutines run.
LEMMA ServePreserves ==
    ASSUME LInv,
           \/ \E s \in Services : Listen(s)
           \/ \E s \in HttpServers : Accept(s) \/ Answer(s)
           \/ AcceptError
    PROVE  LInv'
<1>1. CASE \E s \in Services : Listen(s)
  <2>1. PICK s \in Services : Listen(s)
    BY <1>1
  <2>2. s /= "tcp"
    BY <2>1 DEF Listen, LInv, SocketsOK
  <2>3. TypeOK'
    <3>1. sock' \in [Services -> SockStates]
      BY <2>1 DEF Listen, LInv, TypeOK, SockStates
    <3>2. sock'["tcp"] = sock["tcp"]
      BY <2>1, <2>2 DEF Listen, LInv, TypeOK, Services
    <3> QED
      BY <2>1, <3>1, <3>2 DEF Listen, LInv, TypeOK
  <2>4. SocketsOK'
    BY <2>1 DEF Listen, LInv, TypeOK, SocketsOK, Services
  <2>5. OrderOK'
    BY <2>1, <2>2 DEF Listen, LInv, TypeOK, OrderOK, Done, Passed,
       Services, HttpServers
  <2> QED
    BY <2>1, <2>3, <2>4, <2>5 DEF Listen, LInv, NeverSpins
<1>2. ASSUME NEW s \in HttpServers, Accept(s) PROVE LInv'
  <2>1. TypeOK'
    BY <1>2, MaxConnsAssumption DEF Accept, LInv, TypeOK
  <2>2. SocketsOK'
    BY <1>2 DEF Accept, LInv, SocketsOK
  <2>3. OrderOK'
    BY <1>2 DEF Accept, LInv, SocketsOK, OrderOK, Done
  <2> QED
    BY <1>2, <2>1, <2>2, <2>3 DEF Accept, LInv, NeverSpins
<1>3. ASSUME NEW s \in HttpServers, Answer(s) PROVE LInv'
  <2>1. TypeOK'
    BY <1>3, MaxConnsAssumption DEF Answer, LInv, TypeOK
  <2>2. SocketsOK'
    BY <1>3 DEF Answer, LInv, SocketsOK
  <2>3. OrderOK'
    BY <1>3 DEF Answer, LInv, OrderOK, Done
  <2> QED
    BY <1>3, <2>1, <2>2, <2>3 DEF Answer, LInv, NeverSpins
<1>4. CASE AcceptError
  BY <1>4 DEF AcceptError, LInv, TypeOK, SocketsOK, OrderOK, NeverSpins,
     LoopStates, Done
<1> QED
  BY <1>1, <1>2, <1>3, <1>4

\* While main goes down.
LEMMA ShutdownPreserves ==
    ASSUME LInv, NEW s \in HttpServers, Shutdown(s)
    PROVE  LInv'
<1>1. TypeOK'
  BY DEF Shutdown, Close, LInv, TypeOK, SockStates
<1>2. SocketsOK'
  BY DEF Shutdown, Close, LInv, TypeOK, SocketsOK, HttpServers
<1>3. OrderOK'
  BY DEF Shutdown, Close, LInv, OrderOK, Done
<1> QED
  BY <1>1, <1>2, <1>3 DEF Shutdown, LInv, NeverSpins

LEMMA DrainedPreserves ==
    ASSUME LInv, NEW s \in HttpServers, Drained(s)
    PROVE  LInv'
<1>1. TypeOK'
  BY DEF Drained, StopNext, LInv, TypeOK, HttpServers, Services
<1>2. SocketsOK'
  BY DEF Drained, Stopping, LInv, SocketsOK
<1>3. OrderOK'
  BY DEF Drained, Stopping, StopNext, LInv, OrderOK, Done, Passed, HttpServers
<1> QED
  BY <1>1, <1>2, <1>3 DEF Drained, LInv, NeverSpins

LEMMA StopListenerPreserves ==
    ASSUME LInv, NEW s \in {"tcp", "mcp"}, StopListener(s)
    PROVE  LInv'
<1>1. TypeOK'
  BY DEF StopListener, Close, StopNext, LInv, TypeOK, SockStates,
     HttpServers, Services
<1>2. SocketsOK'
  BY DEF StopListener, Stopping, Close, LInv, SocketsOK, OrderOK, Down
<1>3. OrderOK'
  BY DEF StopListener, Stopping, Close, StopNext, LInv, TypeOK, OrderOK,
     Done, Passed, HttpServers
<1> QED
  BY <1>1, <1>2, <1>3 DEF StopListener, LInv, NeverSpins

LEMMA EndPreserves ==
    ASSUME LInv, ShutdownPanics \/ Exit
    PROVE  LInv'
BY DEF ShutdownPanics, Exit, Stopping, LInv, TypeOK, SocketsOK, OrderOK,
   NeverSpins, Phases, Down, Done

LEMMA NextLInv == LInv /\ [Next]_vars => LInv'
<1> SUFFICES ASSUME LInv, [Next]_vars PROVE LInv'
  OBVIOUS
<1>1. CASE MainStep
  <2>1. CASE \/ StartHTTP
             \/ StartWebSocket
             \/ StartAPI
             \/ StartMCP
             \/ StartSSH
    <3>1. \E s \in Spawned : Spawn(s)
      BY <2>1 DEF StartHTTP, StartWebSocket, StartAPI, StartMCP,
         StartSSH, Spawned, Services, HttpServers
    <3> QED
      BY <3>1, UpPreserves
  <2> QED
    BY <1>1, <2>1, UpPreserves, ShutdownPreserves, DrainedPreserves,
       StopListenerPreserves, EndPreserves DEF MainStep
<1>2. CASE UNCHANGED vars
  BY <1>2 DEF vars, LInv, TypeOK, SocketsOK, OrderOK, Done, NeverSpins
<1> QED
  BY <1>1, <1>2, UpPreserves, ServePreserves DEF Next

LEMMA LInvHolds == Spec => []LInv
<1> QED
  BY InitLInv, NextLInv, PTL DEF Spec

\* main, the sockets and the requests in flight keep their types.
THEOREM LifecycleTypeCorrect == Spec => []TypeOK
<1>1. LInv => TypeOK
  BY DEF LInv
<1> QED
  BY <1>1, LInvHolds, PTL

\* A shutdown, survived by main or not, leaves no gateway socket open and
\* cuts no gateway request off; one that it survives cuts no API request off.
THEOREM DrainCorrect == Spec => []ServersDrained
<1>1. LInv => ServersDrained
  BY DEF LInv, SocketsOK, OrderOK, Done, Passed, Down, ServersDrained, Quiet
<1> QED
  BY <1>1, LInvHolds, PTL

\* The TCP accept loop never meets a closed listener before the cancelled
\* context.
THEOREM AcceptLoopCorrect == Spec => []NeverSpins
<1>1. LInv => NeverSpins
  BY DEF LInv
<1> QED
  BY <1>1, LInvHolds, PTL
=============================================================================
