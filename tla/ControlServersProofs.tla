------------------------ MODULE ControlServersProofs ------------------------
(***************************************************************************)
(* Proofs about ControlServers, for any connections, requests, tunnels and *)
(* capacities: the answers of the MCP server are faithful, whatever the    *)
(* registry does between a request and its answer, the windows of the SSH  *)
(* server are kept, and an SSH session that waits for its multiplexer      *)
(* while that waits for the session does so for ever.                      *)
(***************************************************************************)
EXTENDS ControlServers, SequenceTheorems, FiniteSetTheorems, TLAPS

USE RegistryAssumption, MCPAssumption, SSHAssumption

\* A stream that was not read yet holds the halves of requests in the order
\* in which they were sent, two of each at most.
Streamed(c) ==
    /\ Serving(c) => cur[c] <= sent[c]
    /\ \A k \in 1..Len(inbox[c]) : inbox[c][k] <= sent[c]
    /\ \A j, k \in 1..Len(inbox[c]) :
        /\ j < k => inbox[c][j] <= inbox[c][k]
        /\ j + 1 < k => inbox[c][j] < inbox[c][k]

\* What is remembered of the registry since a request was read: it has the
\* present, and a tunnel that was found.
Watched(c) ==
    /\ conn[c] = "unused" => mpc[c] = "unused"
    /\ mpc[c] \in {"serve", "fetch"} => Registered \in views[c]
    /\ Serving(c) /\ request[c].arg \in Ids => floor[c] <= count[request[c].arg]
    /\ mpc[c] = "fetch" => \E v \in views[c] : request[c].arg \in v

Answering(c) == InTurn(c) /\ Current(c) /\ Streamed(c) /\ Watched(c)

\* The reads of the client that the multiplexer has not handed on.
AdjustsIn(w) == {k \in 1..Len(w) : w[k] = "adjust"}

\* The room the server knows of, the output at the client and the reads on
\* their way make up the window, less what was written to nobody.
Windowed(c) == window[c] + unseen[c] + Cardinality(AdjustsIn(wire[c])) <= OutCap

Inv ==
    /\ TypeOK
    /\ \A c \in MCPConns : Answering(c)
    /\ \A c \in SSHConns : Windowed(c)

-----------------------------------------------------------------------------
(* The registry.                                                           *)

LEMMA RegistryFacts ==
    ASSUME RTypeOK, RNext
    PROVE  /\ RTypeOK'
           /\ \A i \in Ids : count[i] \in Nat /\ count'[i] \in Nat /\ count[i] <= count'[i]
<1> USE DEF RTypeOK, Registered
<1>1. ASSUME NEW n \in Names, NEW i \in Ids, Register(n, i)
      PROVE  RTypeOK' /\ UNCHANGED count
  BY <1>1 DEF Register
<1>2. ASSUME NEW i \in Ids, Unregister(i)
      PROVE  RTypeOK' /\ UNCHANGED count
  BY <1>2 DEF Unregister
<1>3. ASSUME NEW i \in Ids, Count(i)
      PROVE  RTypeOK' /\ \A j \in Ids : count'[j] \in Nat /\ count[j] <= count'[j]
  BY <1>3 DEF Count
<1> QED
  BY <1>1, <1>2, <1>3 DEF RNext

LEMMA RegistryInv ==
    ASSUME Inv, RegistryStep
    PROVE  Inv'
<1>1. /\ RTypeOK'
      /\ \A i \in Ids : count[i] \in Nat /\ count'[i] \in Nat /\ count[i] <= count'[i]
  BY RegistryFacts DEF Inv, TypeOK, RegistryStep
<1>2. UNCHANGED <<alive, accepting, conn, mpc, sent, inbox, cur, request, draft, unread,
                  owed, floor, sshvars>>
  BY DEF RegistryStep
<1>3. Registered' \subseteq Ids
  BY DEF Registered
<1>4. /\ views' \in [MCPConns -> SUBSET SUBSET Ids]
      /\ \A c \in MCPConns : views[c] \subseteq views'[c] /\ (mpc[c] = "write" => views'[c] = views[c])
      /\ \A c \in MCPConns : mpc[c] \in {"serve", "fetch"} => Registered' \in views'[c]
  <2> HIDE DEF Registered
  <2> QED
    BY <1>3 DEF RegistryStep, Witness, Inv, TypeOK, MTypeOK
<1>5. TypeOK'
  BY <1>1, <1>2, <1>4 DEF Inv, TypeOK, MTypeOK, STypeOK, sshvars, Serving
<1>6. ASSUME NEW c \in MCPConns
      PROVE  Answering(c)'
  <2>1. Answering(c)
    BY DEF Inv
  <2>2. InTurn(c)' /\ Streamed(c)'
    BY <2>1, <1>2 DEF Answering, InTurn, Streamed, Serving
  <2>3. floor[c] \in Nat /\ draft[c].n \in Nat
    <3>1. floor[c] \in 0..MaxRequests /\ draft[c] \in Results
      BY DEF Inv, TypeOK, MTypeOK
    <3>2. draft[c].n \in 0..MaxRequests
      BY <3>1 DEF Results
    <3> QED
      BY <3>1, <3>2
  <2>4. /\ views[c] \subseteq views'[c] /\ views[c] \subseteq SUBSET Ids
        /\ mpc[c] = "write" => views'[c] = views[c]
        /\ mpc[c] \in {"serve", "fetch"} => Registered' \in views'[c]
    BY <1>4 DEF Inv, TypeOK, MTypeOK
  <2>5. Watched(c)'
    <3>1. request[c].arg \in Ids =>
            /\ count[request[c].arg] \in Nat /\ count'[request[c].arg] \in Nat
            /\ count[request[c].arg] <= count'[request[c].arg]
      BY <1>1
    <3>2. Serving(c) /\ request[c].arg \in Ids => floor[c] <= count'[request[c].arg]
      BY <2>1, <2>3, <3>1 DEF Answering, Watched
    <3>3. mpc[c] = "fetch" => \E v \in views'[c] : request[c].arg \in v
      BY <2>1, <2>4 DEF Answering, Watched
    <3>4. conn[c] = "unused" => mpc[c] = "unused"
      BY <2>1 DEF Answering, Watched
    <3> HIDE DEF Registered
    <3> QED
      BY <2>4, <3>2, <3>3, <3>4, <1>2 DEF Watched, Serving
  <2>6. Current(c)'
    <3> SUFFICES ASSUME mpc[c] = "write"
                 PROVE  Current(c)'
      BY <1>2 DEF Current
    <3>1. Current(c)
      BY <2>1 DEF Answering
    <3>2. CASE draft[c].kind = "stats"
      <4>1. request[c].arg \in Ids /\ draft[c].n \in floor[c]..count[request[c].arg]
        BY <3>1, <3>2, <2>4 DEF Current
      <4>2. draft[c].n \in floor[c]..count'[request[c].arg]
        BY <4>1, <2>3, <1>1
      <4> QED
        BY <4>2, <3>1, <3>2, <2>4, <1>2 DEF Current
    <3>3. CASE draft[c].kind /= "stats"
      BY <3>1, <3>3, <2>4, <1>2 DEF Current
    <3> QED
      BY <3>2, <3>3
  <2> QED
    BY <2>2, <2>5, <2>6 DEF Answering
<1>7. \A c \in SSHConns : Windowed(c)'
  BY <1>2 DEF Inv, Windowed, sshvars
<1> QED
  BY <1>5, <1>6, <1>7 DEF Inv

-----------------------------------------------------------------------------
(* The MCP server: a step is one of a connection, and the others keep what *)
(* they have.                                                              *)

Same(d) ==
    /\ conn'[d] = conn[d] /\ mpc'[d] = mpc[d] /\ sent'[d] = sent[d] /\ inbox'[d] = inbox[d]
    /\ cur'[d] = cur[d] /\ request'[d] = request[d] /\ draft'[d] = draft[d]
    /\ owed'[d] = owed[d] /\ views'[d] = views[d] /\ floor'[d] = floor[d]

LEMMA MCPLocal ==
    ASSUME Inv, UNCHANGED <<rvars, sshvars>>,
           NEW c \in MCPConns, MTypeOK', Answering(c)', \A d \in MCPConns \ {c} : Same(d)
    PROVE  Inv'
<1>1. TypeOK'
  BY DEF Inv, TypeOK, RTypeOK, STypeOK, Registered, rvars, sshvars
<1>2. \A d \in SSHConns : Windowed(d)'
  BY DEF Inv, Windowed, sshvars
<1>3. ASSUME NEW d \in MCPConns, d /= c
      PROVE  Answering(d)'
  <2>1. Same(d) /\ Answering(d) /\ reg' = reg /\ count' = count
    BY <1>3 DEF Inv, rvars
  <2>2. InTurn(d)' /\ Streamed(d)'
    BY <2>1 DEF Same, Answering, InTurn, Streamed, Serving
  <2>3. Watched(d)' /\ Current(d)'
    BY <2>1 DEF Same, Answering, Watched, Current, Serving, Registered
  <2> QED
    BY <2>2, <2>3 DEF Answering
<1> QED
  BY <1>1, <1>2, <1>3 DEF Inv

LEMMA ConnectInv ==
    ASSUME Inv, UNCHANGED <<rvars, sshvars>>, NEW c \in MCPConns, MCPConnect(c)
    PROVE  Inv'
<1>1. /\ conn'[c] = "up" /\ mpc[c] = "unused" /\ mpc'[c] = "queued"
      /\ owed' = owed /\ inbox' = inbox /\ sent' = sent
  BY DEF MCPConnect, Inv, TypeOK, MTypeOK, Answering, Watched
<1>2. MTypeOK' /\ \A d \in MCPConns \ {c} : Same(d)
  <2>1. mpc' \in [MCPConns -> MCPSteps] /\ conn' \in [MCPConns -> {"unused", "up", "gone"}]
    BY DEF MCPConnect, Inv, TypeOK, MTypeOK, MCPSteps
  <2>2. \A d \in MCPConns : Serving(d)' => Serving(d)
    BY DEF MCPConnect, Inv, TypeOK, MTypeOK, Serving
  <2>3. MTypeOK'
    BY <2>1, <2>2 DEF MCPConnect, Inv, TypeOK, MTypeOK
  <2> QED
    BY <2>3 DEF MCPConnect, Inv, TypeOK, MTypeOK, Same
<1>3. Answering(c)'
  BY <1>1 DEF Inv, Answering, InTurn, Streamed, Watched, Current, Serving
<1> QED
  BY <1>2, <1>3, MCPLocal

LEMMA SendInv ==
    ASSUME Inv, UNCHANGED <<rvars, sshvars>>, NEW c \in MCPConns, MCPSend(c)
    PROVE  Inv'
<1> DEFINE s == inbox[c]
           n == sent[c] + 1
           t == inbox'[c]
<1>1. /\ n \in 1..MaxSends /\ sent'[c] = n /\ s \in Seq(1..MaxSends) /\ t = s \o <<n, n>>
      /\ sent[c] \in Nat /\ cur[c] \in Nat
  BY DEF MCPSend, Inv, TypeOK, MTypeOK
<1>2. /\ t \in Seq(1..MaxSends) /\ Len(s) \in Nat /\ Len(t) = Len(s) + 2
      /\ \A k \in 1..Len(s) : t[k] = s[k] /\ s[k] \in Nat
      /\ t[Len(s) + 1] = n /\ t[Len(s) + 2] = n
  BY <1>1
<1>3. /\ MTypeOK' /\ \A d \in MCPConns \ {c} : Same(d)
  BY <1>1, <1>2 DEF MCPSend, Inv, TypeOK, MTypeOK, Same, Serving
<1>4. /\ Serving(c) => cur[c] <= sent[c]
      /\ Serving(c) => \A k \in 1..Len(s) : s[k] > cur[c]
      /\ \A k \in 1..Len(s) : s[k] <= sent[c]
      /\ \A j, k \in 1..Len(s) : (j < k => s[j] <= s[k]) /\ (j + 1 < k => s[j] < s[k])
  BY DEF Inv, Answering, InTurn, Streamed
<1>5. /\ Serving(c) => cur[c] <= n
      /\ Serving(c) => \A k \in 1..Len(t) : t[k] > cur[c]
      /\ \A k \in 1..Len(t) : t[k] <= n
      /\ \A j, k \in 1..Len(t) : (j < k => t[j] <= t[k]) /\ (j + 1 < k => t[j] < t[k])
  <2> HIDE DEF s, t
  <2>1. \A k \in 1..Len(t) : k \in 1..Len(s) \/ k = Len(s) + 1 \/ k = Len(s) + 2
    BY <1>2
  <2>2. \A k \in 1..Len(t) : t[k] <= n /\ t[k] \in Nat
    BY <2>1, <1>1, <1>2, <1>4
  <2>3. Serving(c) => \A k \in 1..Len(t) : t[k] > cur[c]
    BY <2>1, <1>1, <1>2, <1>4
  <2>4. ASSUME NEW j \in 1..Len(t), NEW k \in 1..Len(t)
        PROVE  (j < k => t[j] <= t[k]) /\ (j + 1 < k => t[j] < t[k])
    <3>1. CASE k \in 1..Len(s)
      <4>1. j < k => j \in 1..Len(s)
        BY <3>1, <1>2
      <4> QED
        BY <3>1, <4>1, <1>2, <1>4
    <3>2. CASE k = Len(s) + 1 \/ k = Len(s) + 2
      <4>1. t[k] = n /\ t[j] <= n
        BY <3>2, <2>2, <1>2
      <4>2. j + 1 < k => j \in 1..Len(s) /\ t[j] <= sent[c]
        BY <3>2, <1>2, <1>4
      <4> QED
        BY <4>1, <4>2, <1>1, <1>2
    <3> QED
      BY <3>1, <3>2, <2>1
  <2>5. Serving(c) => cur[c] <= n
    BY <1>1, <1>4
  <2> HIDE DEF n
  <2> QED
    BY <2>2, <2>3, <2>4, <2>5
<1>6. Answering(c)
  BY DEF Inv
<1>7. UNCHANGED <<conn, mpc, cur, request, draft, owed, views, floor>>
  BY DEF MCPSend
<1>8. InTurn(c)' /\ Streamed(c)'
  <2> HIDE DEF s, n
  <2>1. t = inbox'[c]
    OBVIOUS
  <2> HIDE DEF t
  <2> QED
    BY <2>1, <1>1, <1>5, <1>6, <1>7 DEF Answering, InTurn, Streamed, Serving
<1>9. Watched(c)' /\ Current(c)'
  BY <1>6, <1>7 DEF Answering, Watched, Current, Serving, Registered, rvars
<1> QED
  BY <1>3, <1>8, <1>9, MCPLocal DEF Answering

\* Steps in which no connection moves but for the reading end of a client.
LEMMA StillInv ==
    ASSUME Inv, UNCHANGED <<rvars, sshvars>>, MTypeOK',
           \A d \in MCPConns : Same(d)
    PROVE  Inv'
<1>1. CASE MCPConns = {}
  BY <1>1 DEF Inv, TypeOK, RTypeOK, STypeOK, Registered, rvars, Windowed, sshvars
<1>2. ASSUME NEW c \in MCPConns
      PROVE  Inv'
  <2>1. Same(c) /\ Answering(c) /\ reg' = reg /\ count' = count
    BY DEF Inv, rvars
  <2>2. InTurn(c)' /\ Streamed(c)'
    BY <2>1 DEF Same, Answering, InTurn, Streamed, Serving
  <2>3. Watched(c)' /\ Current(c)'
    BY <2>1 DEF Same, Answering, Watched, Current, Serving, Registered
  <2> QED
    BY <2>2, <2>3, MCPLocal DEF Answering
<1> QED
  BY <1>1, <1>2

LEMMA TakeInv ==
    ASSUME Inv, UNCHANGED <<rvars, sshvars>>, NEW c \in MCPConns, MCPTake(c)
    PROVE  Inv'
<1>1. MTypeOK' /\ \A d \in MCPConns : Same(d)
  BY DEF MCPTake, Inv, TypeOK, MTypeOK, Same, Serving
<1> QED
  BY <1>1, StillInv

LEMMA AcceptFailsInv ==
    ASSUME Inv, UNCHANGED <<rvars, sshvars>>, MCPAcceptFails
    PROVE  Inv'
<1>1. MTypeOK' /\ \A d \in MCPConns : Same(d)
  BY DEF MCPAcceptFails, Inv, TypeOK, MTypeOK, Same, Serving
<1> QED
  BY <1>1, StillInv

LEMMA LeaveInv ==
    ASSUME Inv, UNCHANGED <<rvars, sshvars>>, NEW c \in MCPConns, MCPLeave(c)
    PROVE  Inv'
<1>1. MTypeOK' /\ \A d \in MCPConns \ {c} : Same(d)
  BY DEF MCPLeave, Inv, TypeOK, MTypeOK, Same, Serving
<1>2. /\ conn'[c] = "gone" /\ reg' = reg /\ count' = count
      /\ UNCHANGED <<mpc, sent, inbox, cur, request, draft, owed, views, floor>>
  BY DEF MCPLeave, Inv, TypeOK, MTypeOK, rvars
<1>3. Answering(c)
  BY DEF Inv
<1>4. InTurn(c)' /\ Streamed(c)'
  BY <1>2, <1>3 DEF Answering, InTurn, Streamed, Serving
<1>5. Watched(c)' /\ Current(c)'
  BY <1>2, <1>3 DEF Answering, Watched, Current, Serving, Registered
<1> QED
  BY <1>1, <1>4, <1>5, MCPLocal DEF Answering

LEMMA AcceptInv ==
    ASSUME Inv, UNCHANGED <<rvars, sshvars>>, NEW c \in MCPConns, MCPAccept(c)
    PROVE  Inv'
<1>1. /\ mpc[c] = "queued" /\ mpc'[c] = "read"
      /\ UNCHANGED <<conn, sent, inbox, cur, request, draft, owed, views, floor>>
  BY DEF MCPAccept, AcceptWhen, Inv, TypeOK, MTypeOK
<1>2. MTypeOK' /\ \A d \in MCPConns \ {c} : Same(d)
  <2>1. mpc' \in [MCPConns -> MCPSteps]
    BY DEF MCPAccept, AcceptWhen, Inv, TypeOK, MTypeOK, MCPSteps
  <2>2. \A d \in MCPConns : Serving(d)' => Serving(d)
    BY DEF MCPAccept, AcceptWhen, Inv, TypeOK, MTypeOK, Serving
  <2> QED
    BY <2>1, <2>2 DEF MCPAccept, AcceptWhen, Inv, TypeOK, MTypeOK, Same
<1>3. Answering(c)'
  BY <1>1 DEF Inv, Answering, InTurn, Streamed, Watched, Current, Serving
<1> QED
  BY <1>2, <1>3, MCPLocal

LEMMA ReadFailsInv ==
    ASSUME Inv, UNCHANGED <<rvars, sshvars>>, NEW c \in MCPConns, MCPReadFails(c)
    PROVE  Inv'
<1>1. /\ mpc[c] = "read" /\ mpc'[c] = "over" /\ conn[c] = "gone" /\ inbox'[c] = <<>>
      /\ UNCHANGED <<conn, sent, cur, request, draft, owed, views, floor>>
  BY DEF MCPReadFails, Inv, TypeOK, MTypeOK
<1>2. MTypeOK' /\ \A d \in MCPConns \ {c} : Same(d)
  <2>1. mpc' \in [MCPConns -> MCPSteps] /\ inbox' \in [MCPConns -> Seq(1..MaxSends)]
    BY DEF MCPReadFails, Inv, TypeOK, MTypeOK, MCPSteps
  <2>2. \A d \in MCPConns : Serving(d)' => Serving(d)
    BY DEF MCPReadFails, Inv, TypeOK, MTypeOK, Serving
  <2> QED
    BY <2>1, <2>2 DEF MCPReadFails, Inv, TypeOK, MTypeOK, Same
<1>3. Answering(c)'
  <2>1. ~Serving(c)' /\ owed'[c] = {}
    BY <1>1 DEF Inv, Answering, InTurn, Serving
  <2>2. 1..Len(inbox'[c]) = {}
    BY <1>1
  <2>3. InTurn(c)' /\ Streamed(c)'
    BY <2>1, <2>2 DEF InTurn, Streamed
  <2>4. Watched(c)' /\ Current(c)'
    BY <1>1, <2>1 DEF Watched, Current
  <2> QED
    BY <2>3, <2>4 DEF Answering
<1> QED
  BY <1>2, <1>3, MCPLocal

LEMMA FetchInv ==
    ASSUME Inv, UNCHANGED <<rvars, sshvars>>, NEW c \in MCPConns, MCPFetch(c)
    PROVE  Inv'
<1> DEFINE i == request[c].arg
<1>1. /\ mpc[c] = "fetch" /\ mpc'[c] = "write"
      /\ draft' = [draft EXCEPT ![c] = [kind |-> "stats", ids |-> {}, n |-> count[i]]]
      /\ mpc' = [mpc EXCEPT ![c] = "write"]
      /\ UNCHANGED <<alive, accepting, conn, sent, inbox, cur, request, unread, owed, views, floor>>
  BY DEF MCPFetch, Answer, Inv, TypeOK, MTypeOK
<1>2. Answering(c) /\ views[c] \subseteq SUBSET Ids
  BY DEF Inv, TypeOK, MTypeOK
<1>3. /\ i \in Ids /\ count[i] \in 0..MaxRequests /\ floor[c] <= count[i] /\ floor[c] \in Nat
      /\ \E v \in views[c] : i \in v
  BY <1>1, <1>2 DEF Answering, Watched, Serving, Inv, TypeOK, RTypeOK, MTypeOK
<1>4. MTypeOK' /\ \A d \in MCPConns \ {c} : Same(d)
  <2>1. [kind |-> "stats", ids |-> {}, n |-> count[i]] \in Results
    BY <1>3 DEF Results
  <2>2. draft' \in [MCPConns -> Results] /\ mpc' \in [MCPConns -> MCPSteps]
    BY <1>1, <2>1 DEF Inv, TypeOK, MTypeOK, MCPSteps
  <2>3. \A d \in MCPConns : Serving(d)' => Serving(d)
    BY <1>1 DEF Inv, TypeOK, MTypeOK, Serving
  <2> QED
    BY <1>1, <2>2, <2>3 DEF Inv, TypeOK, MTypeOK, Same
<1>5. draft'[c].kind = "stats" /\ draft'[c].n = count[i] /\ count' = count /\ reg' = reg
  BY <1>1 DEF Inv, TypeOK, MTypeOK, rvars
<1>6. InTurn(c)' /\ Streamed(c)'
  BY <1>1, <1>2 DEF Answering, InTurn, Streamed, Serving
<1>7. Watched(c)'
  BY <1>1, <1>2, <1>3, <1>5 DEF Answering, Watched, Serving
<1>8. Current(c)'
  <2>1. count[i] \in floor[c]..count[i]
    BY <1>3
  <2> QED
    BY <1>1, <1>3, <1>5, <2>1 DEF Current
<1> QED
  BY <1>4, <1>6, <1>7, <1>8, MCPLocal DEF Answering

LEMMA WriteInv ==
    ASSUME Inv, UNCHANGED <<rvars, sshvars>>, NEW c \in MCPConns, MCPWrite(c)
    PROVE  Inv'
<1>1. /\ mpc[c] = "write" /\ mpc'[c] = "read" /\ owed'[c] = owed[c] \ {cur[c]}
      /\ UNCHANGED <<conn, sent, inbox>>
  BY DEF MCPWrite, Inv, TypeOK, MTypeOK
<1>2. MTypeOK' /\ \A d \in MCPConns \ {c} : Same(d)
  <2>1. /\ mpc' \in [MCPConns -> MCPSteps] /\ owed' \in [MCPConns -> SUBSET (1..MaxSends)]
        /\ draft' \in [MCPConns -> Results] /\ views' \in [MCPConns -> SUBSET SUBSET Ids]
        /\ floor' \in [MCPConns -> 0..MaxRequests] /\ cur' \in [MCPConns -> 0..MaxSends]
        /\ request' \in [MCPConns -> Requests \cup {NoRequest}]
        /\ unread' \in [MCPConns -> 0..SocketCap]
    <3>1. NoResult \in Results
      BY DEF NoResult, Results
    <3>2. MTypeOK
      BY DEF Inv, TypeOK
    <3>3. mpc' \in [MCPConns -> MCPSteps] /\ draft' \in [MCPConns -> Results]
      BY <3>1, <3>2 DEF MCPWrite, MTypeOK, MCPSteps
    <3>4. /\ owed' \in [MCPConns -> SUBSET (1..MaxSends)]
          /\ views' \in [MCPConns -> SUBSET SUBSET Ids]
      BY <3>2 DEF MCPWrite, MTypeOK
    <3>5. floor' \in [MCPConns -> 0..MaxRequests] /\ cur' \in [MCPConns -> 0..MaxSends]
      BY <3>2 DEF MCPWrite, MTypeOK
    <3>6. /\ request' \in [MCPConns -> Requests \cup {NoRequest}]
          /\ unread' \in [MCPConns -> 0..SocketCap]
      BY <3>2 DEF MCPWrite, MTypeOK
    <3> QED
      BY <3>3, <3>4, <3>5, <3>6
  <2>2. \A d \in MCPConns : Serving(d)' => Serving(d) /\ d /= c
    BY DEF MCPWrite, Inv, TypeOK, MTypeOK, Serving
  <2>3. \A d \in MCPConns \ {c} : Same(d)
    BY DEF MCPWrite, Inv, TypeOK, MTypeOK, Same
  <2> QED
    BY <2>1, <2>2, <2>3 DEF MCPWrite, Inv, TypeOK, MTypeOK, Same
<1>3. Answering(c)'
  <2>1. owed'[c] = {}
    BY <1>1 DEF Inv, Answering, InTurn, Serving
  <2> QED
    BY <1>1, <2>1 DEF Inv, Answering, InTurn, Streamed, Watched, Current, Serving
<1> QED
  BY <1>2, <1>3, MCPLocal

LEMMA ServeInv ==
    ASSUME Inv, UNCHANGED <<rvars, sshvars>>, NEW c \in MCPConns, MCPServe(c)
    PROVE  Inv'
<1> DEFINE r == request[c]
<1>1. /\ mpc[c] = "serve" /\ Serving(c) /\ reg' = reg /\ count' = count
      /\ UNCHANGED <<accepting, conn, sent, inbox, cur, request, unread, owed, views, floor>>
  BY DEF MCPServe, rvars, Serving
<1>2. Answering(c) /\ Registered \subseteq Ids /\ Registered \in views[c]
  BY <1>1 DEF Inv, Answering, Watched, Registered
<1> HIDE DEF Registered
\* The three ways on: an answer, a panic, the second half of GetStats.
<1>3. ASSUME NEW kind, NEW ids, Answer(c, kind, ids, 0), ids \subseteq Ids,
             \/ kind \in {"tools", "unauthorized", "no such method"}
             \/ kind = "list" /\ ids = Registered
             \/ kind = "unknown tunnel" /\ r.arg \notin Registered
      PROVE  Inv'
  <2>1. /\ mpc' = [mpc EXCEPT ![c] = "write"] /\ alive' = alive
        /\ draft' = [draft EXCEPT ![c] = [kind |-> kind, ids |-> ids, n |-> 0]]
    BY <1>3 DEF Answer
  <2>2. /\ mpc'[c] = "write" /\ draft'[c].kind = kind /\ draft'[c].ids = ids
        /\ [kind |-> kind, ids |-> ids, n |-> 0] \in Results
    <3>1. kind \in {"none", "tools", "list", "stats", "unknown tunnel",
                    "unauthorized", "no such method"}
      BY <1>3
    <3>2. 0 \in 0..MaxRequests /\ ids \in SUBSET Ids
      <4>1. 0 \in 0..MaxRequests
        OBVIOUS
      <4>2. ids \in SUBSET Ids
        BY <1>3
      <4> QED
        BY <4>1, <4>2
    <3>3. [kind |-> kind, ids |-> ids, n |-> 0] \in Results
      BY <3>1, <3>2 DEF Results
    <3>4. draft'[c] = [kind |-> kind, ids |-> ids, n |-> 0] /\ mpc'[c] = "write"
      BY <2>1 DEF Inv, TypeOK, MTypeOK
    <3> QED
      BY <3>3, <3>4
  <2>3. MTypeOK' /\ \A d \in MCPConns \ {c} : Same(d)
    <3>1. draft' \in [MCPConns -> Results] /\ mpc' \in [MCPConns -> MCPSteps]
      BY <2>1, <2>2 DEF Inv, TypeOK, MTypeOK, MCPSteps
    <3>2. \A d \in MCPConns : Serving(d)' => Serving(d)
      BY <1>1, <2>1 DEF Inv, TypeOK, MTypeOK, Serving
    <3> QED
      BY <1>1, <2>1, <3>1, <3>2 DEF Inv, TypeOK, MTypeOK, Same
  <2>4. InTurn(c)' /\ Streamed(c)'
    BY <1>1, <1>2, <2>2 DEF Answering, InTurn, Streamed, Serving
  <2>5. Watched(c)'
    BY <1>1, <1>2, <2>2 DEF Answering, Watched, Serving
  <2>6. Current(c)'
    BY <1>1, <1>2, <1>3, <2>2 DEF Current
  <2> QED
    BY <2>3, <2>4, <2>5, <2>6, MCPLocal DEF Answering
<1>4. ASSUME alive' = FALSE, UNCHANGED <<draft, mpc>>
      PROVE  Inv'
  <2>1. MTypeOK' /\ \A d \in MCPConns : Same(d)
    BY <1>1, <1>4 DEF Inv, TypeOK, MTypeOK, Same, Serving
  <2> QED
    BY <2>1, StillInv
<1>5. ASSUME r.arg \in Registered, mpc' = [mpc EXCEPT ![c] = "fetch"], UNCHANGED <<alive, draft>>
      PROVE  Inv'
  <2>1. mpc'[c] = "fetch"
    BY <1>5 DEF Inv, TypeOK, MTypeOK
  <2>2. MTypeOK' /\ \A d \in MCPConns \ {c} : Same(d)
    <3>1. mpc' \in [MCPConns -> MCPSteps]
      BY <1>5 DEF Inv, TypeOK, MTypeOK, MCPSteps
    <3>2. \A d \in MCPConns : Serving(d)' => Serving(d)
      BY <1>1, <1>5 DEF Inv, TypeOK, MTypeOK, Serving
    <3> QED
      BY <1>1, <1>5, <3>1, <3>2 DEF Inv, TypeOK, MTypeOK, Same
  <2>3. InTurn(c)' /\ Streamed(c)' /\ Current(c)'
    BY <1>1, <1>2, <2>1 DEF Answering, InTurn, Streamed, Serving, Current
  <2>4. Watched(c)'
    <3>1. Registered' = Registered
      BY <1>1 DEF Registered
    <3> QED
      BY <1>1, <1>2, <1>5, <2>1, <3>1 DEF Answering, Watched, Serving
  <2> QED
    BY <2>2, <2>3, <2>4, MCPLocal DEF Answering
<1> QED
  BY <1>2, <1>3, <1>4, <1>5 DEF MCPServe

\* A request that was read leaves a stream that came after it.
LEMMA ReadStream ==
    ASSUME NEW s \in Seq(1..MaxSends), NEW n \in 1..Len(s),
           \A j, k \in 1..Len(s) : (j < k => s[j] <= s[k]) /\ (j + 1 < k => s[j] < s[k])
    PROVE  LET rest == SubSeq(s, n + 1, Len(s))
               k    == Head(SubSeq(s, 1, n))
           IN  /\ k \in 1..MaxSends /\ k = s[1] /\ 1 \in 1..Len(s)
               /\ rest \in Seq(1..MaxSends)
               /\ \A j \in 1..Len(rest) : j + n \in 1..Len(s) /\ rest[j] = s[j + n]
               /\ SubSeq(s, 1, n) = <<k, k>> => \A j \in 1..Len(rest) : rest[j] > k
<1> DEFINE rest == SubSeq(s, n + 1, Len(s))
           chunk == SubSeq(s, 1, n)
<1>1. Len(s) \in Nat /\ n \in Nat /\ n <= Len(s) /\ 1 \in 1..Len(s)
  OBVIOUS
<1>2. /\ chunk \in Seq(1..MaxSends) /\ Len(chunk) = n /\ chunk[1] = s[1]
      /\ rest \in Seq(1..MaxSends) /\ Len(rest) = Len(s) - n
      /\ \A j \in 1..Len(rest) : rest[j] = s[j + n]
  <2>1. \A k \in n + 1..Len(s) : s[k] \in 1..MaxSends
    BY <1>1
  <2>2. \A k \in 1..n : s[k] \in 1..MaxSends
    BY <1>1
  <2> QED
    BY <1>1, <2>1, <2>2, SubSeqProperties
<1>3. Head(chunk) = s[1]
  BY <1>2
<1>4. \A j \in 1..Len(rest) : j + n \in 1..Len(s) /\ rest[j] = s[j + n]
  BY <1>1, <1>2
<1>5. ASSUME chunk = <<s[1], s[1]>>, NEW j \in 1..Len(rest)
      PROVE  rest[j] > s[1]
  <2>1. n = 2
    BY <1>2, <1>5
  <2>2. 1 + 1 < j + n /\ j + n \in 1..Len(s)
    BY <2>1, <1>4
  <2>3. s[1] < s[j + n]
    BY <2>2, <1>1
  <2> QED
    BY <2>3, <1>1, <1>4
<1> QED
  BY <1>1, <1>2, <1>3, <1>4, <1>5

LEMMA ReadInv ==
    ASSUME Inv, UNCHANGED <<rvars, sshvars>>, NEW c \in MCPConns, MCPRead(c)
    PROVE  Inv'
<1> DEFINE s == inbox[c]
<1>1. PICK n \in 1..Len(s) :
        LET chunk == SubSeq(s, 1, n)
            k     == Head(chunk)
        IN  /\ inbox' = [inbox EXCEPT ![c] = SubSeq(s, n + 1, Len(s))]
            /\ IF chunk = <<k, k>>
               THEN \E r \in Requests :
                    /\ cur' = [cur EXCEPT ![c] = k]
                    /\ request' = [request EXCEPT ![c] = r]
                    /\ mpc' = [mpc EXCEPT ![c] = "serve"]
                    /\ owed' = [owed EXCEPT ![c] = @ \cup {k}]
                    /\ views' = [views EXCEPT ![c] = {Registered}]
                    /\ floor' = [floor EXCEPT ![c] =
                            IF r.arg \in Ids THEN count[r.arg] ELSE 0]
               ELSE UNCHANGED <<cur, request, mpc, owed, views, floor>>
  BY DEF MCPRead, ReadWhen, Inv, TypeOK, MTypeOK
<1> DEFINE rest == SubSeq(s, n + 1, Len(s))
           k == Head(SubSeq(s, 1, n))
<1>2. /\ mpc[c] = "read" /\ ~Serving(c) /\ reg' = reg /\ count' = count
      /\ UNCHANGED <<alive, accepting, conn, sent, draft, unread>>
  BY DEF MCPRead, ReadWhen, rvars, Serving
<1>3. /\ s \in Seq(1..MaxSends) /\ sent[c] \in Nat /\ Answering(c) /\ owed[c] = {}
      /\ conn[c] /= "unused"
  BY <1>2 DEF Inv, TypeOK, MTypeOK, Answering, InTurn, Watched
<1>4. /\ \A j \in 1..Len(s) : s[j] <= sent[c] /\ s[j] \in Nat
      /\ \A i, j \in 1..Len(s) : (i < j => s[i] <= s[j]) /\ (i + 1 < j => s[i] < s[j])
  BY <1>3 DEF Answering, Streamed
<1>5. /\ k \in 1..MaxSends /\ k = s[1] /\ 1 \in 1..Len(s)
      /\ rest \in Seq(1..MaxSends)
      /\ \A j \in 1..Len(rest) : j + n \in 1..Len(s) /\ rest[j] = s[j + n]
      /\ SubSeq(s, 1, n) = <<k, k>> => \A j \in 1..Len(rest) : rest[j] > k
  <2> HIDE DEF s
  <2> QED
    BY <1>3, <1>4, ReadStream
<1>6. k <= sent[c]
  BY <1>4, <1>5
<1>7. inbox' = [inbox EXCEPT ![c] = rest] /\ inbox'[c] = rest
  BY <1>1 DEF Inv, TypeOK, MTypeOK
<1>8. /\ \A j \in 1..Len(rest) : rest[j] <= sent[c]
      /\ \A i, j \in 1..Len(rest) :
            (i < j => rest[i] <= rest[j]) /\ (i + 1 < j => rest[i] < rest[j])
  <2>1. n \in Nat /\ Len(rest) \in Nat
    BY <1>5
  <2> HIDE DEF rest, s
  <2>2. \A j \in 1..Len(rest) : rest[j] <= sent[c]
    BY <1>4, <1>5
  <2>3. ASSUME NEW i \in 1..Len(rest), NEW j \in 1..Len(rest)
        PROVE  (i < j => rest[i] <= rest[j]) /\ (i + 1 < j => rest[i] < rest[j])
    <3>1. /\ i + n \in 1..Len(s) /\ j + n \in 1..Len(s)
          /\ rest[i] = s[i + n] /\ rest[j] = s[j + n]
      BY <1>5
    <3>2. (i < j => i + n < j + n) /\ (i + 1 < j => (i + n) + 1 < j + n)
      BY <2>1
    <3> QED
      BY <3>1, <3>2, <1>4
  <2> QED
    BY <2>2, <2>3
<1>9. inbox' \in [MCPConns -> Seq(1..MaxSends)]
  BY <1>5, <1>7 DEF Inv, TypeOK, MTypeOK
<1> HIDE DEF rest, s
<1>10. CASE SubSeq(s, 1, n) = <<k, k>>
  <2> HIDE DEF k
  <2> HIDE DEF Registered
  <2>1. PICK r \in Requests :
            /\ cur' = [cur EXCEPT ![c] = k]
            /\ request' = [request EXCEPT ![c] = r]
            /\ mpc' = [mpc EXCEPT ![c] = "serve"]
            /\ owed' = [owed EXCEPT ![c] = @ \cup {k}]
            /\ views' = [views EXCEPT ![c] = {Registered}]
            /\ floor' = [floor EXCEPT ![c] = IF r.arg \in Ids THEN count[r.arg] ELSE 0]
    BY <1>1, <1>10 DEF k
  <2> DEFINE f == IF r.arg \in Ids THEN count[r.arg] ELSE 0
  <2>2. f \in 0..MaxRequests
    BY DEF Inv, TypeOK, RTypeOK
  <2>3. Registered \subseteq Ids /\ Registered' = Registered
    BY <1>2 DEF Registered
  <2>4. /\ cur'[c] = k /\ request'[c] = r /\ mpc'[c] = "serve" /\ owed'[c] = {k}
        /\ views'[c] = {Registered} /\ floor'[c] = f
    BY <2>1, <1>3 DEF Inv, TypeOK, MTypeOK
  <2>5. MTypeOK' /\ \A d \in MCPConns \ {c} : Same(d)
    <3>1. /\ cur' \in [MCPConns -> 0..MaxSends]
          /\ request' \in [MCPConns -> Requests \cup {NoRequest}]
          /\ mpc' \in [MCPConns -> MCPSteps]
      BY <2>1, <1>5 DEF Inv, TypeOK, MTypeOK, MCPSteps
    <3>2. /\ owed' \in [MCPConns -> SUBSET (1..MaxSends)]
          /\ views' \in [MCPConns -> SUBSET SUBSET Ids]
          /\ floor' \in [MCPConns -> 0..MaxRequests]
      BY <2>1, <2>2, <2>3, <1>5 DEF Inv, TypeOK, MTypeOK
    <3>3. ASSUME NEW d \in MCPConns, Serving(d)'
          PROVE  cur'[d] > 0 /\ request'[d] \in Requests
      <4>1. CASE d = c
        BY <4>1, <2>4, <1>5
      <4>2. CASE d /= c
        BY <4>2, <3>3, <2>1 DEF Inv, TypeOK, MTypeOK, Serving
      <4> QED
        BY <4>1, <4>2
    <3>4. \A d \in MCPConns \ {c} : Same(d)
      BY <1>2, <1>7, <2>1 DEF Inv, TypeOK, MTypeOK, Same
    <3> QED
      BY <1>2, <1>9, <3>1, <3>2, <3>3, <3>4 DEF Inv, TypeOK, MTypeOK
  <2>6. InTurn(c)'
    BY <2>4, <1>5, <1>7, <1>10 DEF InTurn, Serving
  <2>7. Streamed(c)'
    BY <2>4, <1>2, <1>6, <1>7, <1>8 DEF Streamed
  <2>8. Watched(c)'
    <3>1. r.arg \in Ids => f \in Nat /\ f = count'[r.arg]
      BY <2>2, <1>2
    <3> HIDE DEF f
    <3> QED
      BY <2>3, <2>4, <3>1, <1>2, <1>3 DEF Watched
  <2>9. Current(c)'
    BY <2>4 DEF Current
  <2> QED
    BY <2>5, <2>6, <2>7, <2>8, <2>9, MCPLocal DEF Answering
<1>11. CASE SubSeq(s, 1, n) /= <<k, k>>
  <2>1. UNCHANGED <<cur, request, mpc, owed, views, floor>>
    BY <1>1, <1>11 DEF s
  <2>2. MTypeOK' /\ \A d \in MCPConns \ {c} : Same(d)
    BY <1>2, <1>7, <1>9, <2>1 DEF Inv, TypeOK, MTypeOK, Same, Serving
  <2>3. InTurn(c)' /\ Streamed(c)'
    BY <2>1, <1>2, <1>3, <1>7, <1>8 DEF InTurn, Streamed, Serving
  <2>4. Watched(c)' /\ Current(c)'
    BY <2>1, <1>2, <1>3 DEF Answering, Watched, Current, Serving
  <2> QED
    BY <2>2, <2>3, <2>4, MCPLocal DEF Answering
<1> QED
  BY <1>10, <1>11

-----------------------------------------------------------------------------
(* The SSH server.                                                         *)

\* The adjusts of a stream when a packet is added, taken or lost.
LEMMA AdjustsFinite ==
    ASSUME NEW w \in Seq(Packets)
    PROVE  IsFiniteSet(AdjustsIn(w)) /\ Cardinality(AdjustsIn(w)) \in Nat
<1>1. AdjustsIn(w) \in SUBSET (1..Len(w)) /\ Len(w) \in Nat
  BY DEF AdjustsIn
<1>2. IsFiniteSet(1..Len(w))
  BY <1>1, FS_Interval
<1> QED
  BY <1>1, <1>2, FS_Subset, FS_CardinalityType

LEMMA AdjustsAppend ==
    ASSUME NEW w \in Seq(Packets), NEW m \in Packets
    PROVE  /\ Append(w, m) \in Seq(Packets)
           /\ Cardinality(AdjustsIn(Append(w, m))) =
                Cardinality(AdjustsIn(w)) + (IF m = "adjust" THEN 1 ELSE 0)
<1> DEFINE v == Append(w, m)
           n == Len(w) + 1
<1>1. /\ v \in Seq(Packets) /\ Len(w) \in Nat /\ Len(v) = n /\ v[n] = m
      /\ \A k \in 1..Len(w) : v[k] = w[k]
  OBVIOUS
<1>2. 1..n = 1..Len(w) \cup {n} /\ n \notin 1..Len(w)
  BY <1>1
<1> HIDE DEF v, n
<1>3. AdjustsIn(v) = IF m = "adjust" THEN AdjustsIn(w) \cup {n} ELSE AdjustsIn(w)
  BY <1>1, <1>2 DEF AdjustsIn
<1>4. n \notin AdjustsIn(w)
  BY <1>2 DEF AdjustsIn
<1>5. /\ Cardinality(AdjustsIn(w)) \in Nat
      /\ Cardinality(AdjustsIn(w) \cup {n}) = Cardinality(AdjustsIn(w)) + 1
  BY <1>4, AdjustsFinite, FS_AddElement
<1>6. Cardinality(AdjustsIn(v)) = Cardinality(AdjustsIn(w)) + (IF m = "adjust" THEN 1 ELSE 0)
  <2>1. CASE m = "adjust"
    BY <2>1, <1>3, <1>5
  <2>2. CASE m /= "adjust"
    BY <2>2, <1>3, <1>5
  <2> QED
    BY <2>1, <2>2
<1> QED
  BY <1>1, <1>6 DEF v

LEMMA AdjustsTail ==
    ASSUME NEW w \in Seq(Packets), w /= <<>>
    PROVE  /\ Tail(w) \in Seq(Packets)
           /\ Cardinality(AdjustsIn(Tail(w))) <=
                Cardinality(AdjustsIn(w)) - (IF Head(w) = "adjust" THEN 1 ELSE 0)
<1> DEFINE t == Tail(w)
           S == AdjustsIn(w) \ {1}
           f == [k \in AdjustsIn(t) |-> k + 1]
<1>1. /\ t \in Seq(Packets) /\ Len(w) \in Nat /\ Len(w) >= 1 /\ Len(t) = Len(w) - 1
      /\ Head(w) = w[1] /\ \A k \in 1..Len(t) : t[k] = w[k + 1]
  OBVIOUS
<1> HIDE DEF t
<1>2. f \in Injection(AdjustsIn(t), S)
  <2>1. \A k \in AdjustsIn(t) : k \in 1..Len(t) /\ k + 1 \in 1..Len(w) /\ k + 1 /= 1
                                  /\ w[k + 1] = "adjust"
    BY <1>1 DEF AdjustsIn
  <2>2. f \in [AdjustsIn(t) -> S]
    BY <2>1 DEF AdjustsIn
  <2>3. \A j, k \in AdjustsIn(t) : f[j] = f[k] => j = k
    BY <2>1
  <2> QED
    BY <2>2, <2>3 DEF Injection, IsInjective
<1>3. IsFiniteSet(AdjustsIn(w)) /\ Cardinality(AdjustsIn(w)) \in Nat
  BY AdjustsFinite
<1>4. /\ IsFiniteSet(S)
      /\ Cardinality(S) = IF 1 \in AdjustsIn(w) THEN Cardinality(AdjustsIn(w)) - 1
                                               ELSE Cardinality(AdjustsIn(w))
  BY <1>3, FS_RemoveElement
<1>5. 1 \in AdjustsIn(w) <=> Head(w) = "adjust"
  BY <1>1 DEF AdjustsIn
<1> HIDE DEF S, f
<1>6. Cardinality(AdjustsIn(t)) <= Cardinality(S)
  BY <1>2, <1>4, FS_Injection
<1>7. Cardinality(AdjustsIn(t)) <=
        Cardinality(AdjustsIn(w)) - (IF Head(w) = "adjust" THEN 1 ELSE 0)
  <2>1. Cardinality(AdjustsIn(t)) \in Nat
    BY <1>1, AdjustsFinite
  <2> QED
    BY <2>1, <1>3, <1>4, <1>5, <1>6
<1> QED
  BY <1>1, <1>7 DEF t

LEMMA AdjustsCut ==
    ASSUME NEW w \in Seq(Packets), NEW n \in 0..Len(w)
    PROVE  /\ SubSeq(w, 1, n) \in Seq(Packets)
           /\ Cardinality(AdjustsIn(SubSeq(w, 1, n))) <= Cardinality(AdjustsIn(w))
<1> DEFINE v == SubSeq(w, 1, n)
<1>1. v \in Seq(Packets) /\ Len(v) = n /\ n \in Nat /\ \A k \in 1..n : v[k] = w[k]
  OBVIOUS
<1> HIDE DEF v
<1>2. AdjustsIn(v) \in SUBSET AdjustsIn(w)
  BY <1>1 DEF AdjustsIn
<1>3. Cardinality(AdjustsIn(v)) <= Cardinality(AdjustsIn(w))
  BY <1>2, AdjustsFinite, FS_Subset
<1> QED
  BY <1>1, <1>3 DEF v

\* A step of one connection: the windows of the others stay as they are.
LEMMA SSHLocal ==
    ASSUME Inv, UNCHANGED <<rvars, mcpvars>>,
           NEW c \in SSHConns, STypeOK', Windowed(c)',
           \A d \in SSHConns \ {c} :
                window'[d] = window[d] /\ unseen'[d] = unseen[d] /\ wire'[d] = wire[d]
    PROVE  Inv'
<1>1. TypeOK'
  BY DEF Inv, TypeOK, RTypeOK, MTypeOK, Serving, Registered, rvars, mcpvars
<1>2. \A d \in MCPConns : Answering(d)'
  <2> TAKE d \in MCPConns
  <2>1. Answering(d)
    BY DEF Inv
  <2>2. InTurn(d)' /\ Streamed(d)'
    BY <2>1 DEF Answering, InTurn, Streamed, Serving, mcpvars
  <2>3. Watched(d)' /\ Current(d)'
    BY <2>1 DEF Answering, Watched, Current, Serving, Registered, rvars, mcpvars
  <2> QED
    BY <2>2, <2>3 DEF Answering
<1>3. ASSUME NEW d \in SSHConns, d /= c
      PROVE  Windowed(d)'
  <2>1. Windowed(d)
    BY DEF Inv
  <2> QED
    BY <2>1, <1>3 DEF Windowed
<1> QED
  BY <1>1, <1>2, <1>3 DEF Inv

\* What a connection has of its window, in numbers.
LEMMA WindowFacts ==
    ASSUME Inv, NEW c \in SSHConns
    PROVE  /\ wire[c] \in Seq(Packets) /\ window[c] \in Nat /\ unseen[c] \in Nat
           /\ Cardinality(AdjustsIn(wire[c])) \in Nat /\ OutCap \in Nat
           /\ window[c] + unseen[c] + Cardinality(AdjustsIn(wire[c])) <= OutCap
<1>1. wire[c] \in Seq(Packets) /\ window[c] \in 0..OutCap /\ unseen[c] \in 0..OutCap
  BY DEF Inv, TypeOK, STypeOK
<1> QED
  BY <1>1, AdjustsFinite DEF Inv, Windowed

\* A packet is added: by a client that sends, reads, or answers the close.
LEMMA AddInv ==
    ASSUME Inv, UNCHANGED <<rvars, mcpvars>>, NEW c \in SSHConns,
           \/ \E m \in {"request", "line"} : SSHSend(c, m)
           \/ SSHTake(c) \/ AckClose(c)
    PROVE  Inv'
<1>0. STypeOK
  BY DEF Inv, TypeOK
<1>1. PICK m \in Packets :
        /\ wire' = [wire EXCEPT ![c] = Append(@, m)]
        /\ m = "adjust" <=> SSHTake(c)
        /\ m /= "adjust" => unseen' = unseen
  BY DEF SSHSend, SSHTake, AckClose, Packets
<1>2. /\ wire'[c] = Append(wire[c], m) /\ Append(wire[c], m) \in Seq(Packets)
      /\ Cardinality(AdjustsIn(wire'[c])) =
            Cardinality(AdjustsIn(wire[c])) + (IF m = "adjust" THEN 1 ELSE 0)
  <2>1. wire[c] \in Seq(Packets) /\ wire'[c] = Append(wire[c], m)
    BY <1>0, <1>1 DEF STypeOK
  <2> QED
    BY <2>1, AdjustsAppend
<1>3. wire' \in [SSHConns -> Seq(Packets)] /\ \A d \in SSHConns \ {c} : wire'[d] = wire[d]
  BY <1>0, <1>1, <1>2 DEF STypeOK
<1>4. /\ UNCHANGED <<sconn, spc, reqs, data, ended, shut, window>>
      /\ npackets' \in [SSHConns -> 0..MaxPackets]
  BY <1>0 DEF STypeOK, SSHSend, SSHTake, AckClose
<1>5. /\ unseen' \in [SSHConns -> 0..OutCap]
      /\ unseen'[c] = unseen[c] - (IF m = "adjust" THEN 1 ELSE 0)
      /\ \A d \in SSHConns \ {c} : unseen'[d] = unseen[d]
  <2>1. CASE m = "adjust"
    <3>1. unseen' = [unseen EXCEPT ![c] = @ - 1] /\ unseen[c] > 0 /\ unseen[c] \in 0..OutCap
      BY <2>1, <1>0, <1>1 DEF SSHTake, STypeOK
    <3> QED
      BY <2>1, <3>1, <1>0 DEF STypeOK
  <2>2. CASE m /= "adjust"
    <3>1. unseen' = unseen /\ unseen[c] \in 0..OutCap
      BY <2>2, <1>0, <1>1 DEF STypeOK
    <3> QED
      BY <2>2, <3>1, <1>0 DEF STypeOK
  <2> QED
    BY <2>1, <2>2
<1>6. STypeOK'
  BY <1>0, <1>3, <1>4, <1>5 DEF STypeOK
<1>7. Windowed(c)'
  BY <1>2, <1>4, <1>5, WindowFacts DEF Windowed
<1> QED
  BY <1>3, <1>4, <1>5, <1>6, <1>7, SSHLocal

\* The client goes away, with what it has not read and what was on its way.
LEMMA GoAwayInv ==
    ASSUME Inv, UNCHANGED <<rvars, mcpvars>>, NEW c \in SSHConns,
           SSHLeave(c) \/ SSHLost(c)
    PROVE  Inv'
<1>0. STypeOK
  BY DEF Inv, TypeOK
<1>1. PICK kept \in 0..Len(wire[c]) : GoAway(c, kept)
  <2>1. Len(wire[c]) \in 0..Len(wire[c])
    BY <1>0 DEF STypeOK
  <2> QED
    BY <2>1 DEF SSHLeave, SSHLost
<1> DEFINE v == SubSeq(wire[c], 1, kept)
<1>2. v \in Seq(Packets) /\ Cardinality(AdjustsIn(v)) <= Cardinality(AdjustsIn(wire[c]))
  BY <1>0, AdjustsCut DEF STypeOK
<1>3. wire' = [wire EXCEPT ![c] = Append(v, "end")]
  BY <1>1 DEF GoAway
<1> HIDE DEF v
<1>4. /\ Append(v, "end") \in Seq(Packets) /\ Cardinality(AdjustsIn(v)) \in Nat
      /\ Cardinality(AdjustsIn(Append(v, "end"))) = Cardinality(AdjustsIn(v))
  <2>1. "end" \in Packets
    BY DEF Packets
  <2> QED
    BY <1>2, <2>1, AdjustsAppend, AdjustsFinite
<1>5. /\ wire' \in [SSHConns -> Seq(Packets)] /\ wire'[c] = Append(v, "end")
      /\ \A d \in SSHConns \ {c} : wire'[d] = wire[d]
  BY <1>0, <1>3, <1>4 DEF STypeOK
<1>6. /\ unseen' = [unseen EXCEPT ![c] = 0] /\ sconn' = [sconn EXCEPT ![c] = "gone"]
      /\ UNCHANGED <<spc, npackets, reqs, data, ended, shut, window>>
  BY <1>1 DEF GoAway
<1>7. unseen' \in [SSHConns -> 0..OutCap] /\ unseen'[c] = 0
  BY <1>0, <1>6 DEF STypeOK
<1>8. STypeOK'
  BY <1>0, <1>5, <1>6, <1>7 DEF STypeOK
<1>9. Windowed(c)'
  BY <1>2, <1>4, <1>5, <1>6, <1>7, WindowFacts DEF Windowed
<1>10. \A d \in SSHConns \ {c} : window'[d] = window[d] /\ unseen'[d] = unseen[d]
  BY <1>0, <1>6 DEF STypeOK
<1> QED
  BY <1>5, <1>8, <1>9, <1>10, SSHLocal

LEMMA HandOnInv ==
    ASSUME Inv, UNCHANGED <<rvars, mcpvars>>, NEW c \in SSHConns, HandOn(c)
    PROVE  Inv'
<1> DEFINE w == wire[c]
           m == Head(w)
<1>0. STypeOK
  BY DEF Inv, TypeOK
<1>1. /\ w \in Seq(Packets) /\ w /= <<>> /\ m \in Packets /\ wire' = [wire EXCEPT ![c] = Tail(w)]
      /\ reqs' = [reqs EXCEPT ![c] = IF m = "request" THEN @ + 1 ELSE @]
      /\ data' = [data EXCEPT ![c] = IF m = "line" THEN @ + 1 ELSE @]
      /\ window' = [window EXCEPT ![c] = IF m = "adjust" THEN @ + 1 ELSE @]
      /\ ended' = [ended EXCEPT ![c] = @ \/ m = "end"]
      /\ UNCHANGED <<sconn, spc, npackets, shut, unseen>>
  BY <1>0 DEF HandOn, STypeOK
<1>2. /\ Tail(w) \in Seq(Packets) /\ wire'[c] = Tail(w)
      /\ Cardinality(AdjustsIn(Tail(w))) <=
            Cardinality(AdjustsIn(w)) - (IF m = "adjust" THEN 1 ELSE 0)
  BY <1>0, <1>1, AdjustsTail DEF STypeOK
<1>3. Cardinality(AdjustsIn(Tail(w))) \in Nat
  BY <1>2, AdjustsFinite
<1>4. m = "request" => reqs[c] < ReqCap
  BY <1>0, <1>1 DEF HandOn, Stuck, STypeOK
<1>5. window'[c] = window[c] + (IF m = "adjust" THEN 1 ELSE 0)
  BY <1>0, <1>1 DEF STypeOK
<1> HIDE DEF m, w
<1>6. Windowed(c)' /\ window'[c] \in 0..OutCap
  <2>1. /\ window[c] \in Nat /\ unseen[c] \in Nat /\ Cardinality(AdjustsIn(w)) \in Nat
        /\ OutCap \in Nat /\ window[c] + unseen[c] + Cardinality(AdjustsIn(w)) <= OutCap
    BY WindowFacts DEF w
  <2>2. unseen'[c] = unseen[c]
    BY <1>1
  <2> QED
    BY <2>1, <2>2, <1>2, <1>3, <1>5 DEF Windowed
<1>7. STypeOK'
  <2>1. reqs' \in [SSHConns -> 0..ReqCap] /\ data' \in [SSHConns -> Nat]
    BY <1>0, <1>1, <1>4 DEF STypeOK
  <2>2. window' \in [SSHConns -> 0..OutCap] /\ ended' \in [SSHConns -> BOOLEAN]
    BY <1>0, <1>1, <1>6 DEF STypeOK
  <2>3. wire' \in [SSHConns -> Seq(Packets)]
    BY <1>0, <1>1, <1>2 DEF STypeOK
  <2> QED
    BY <1>0, <1>1, <2>1, <2>2, <2>3 DEF STypeOK
<1>8. \A d \in SSHConns \ {c} :
        window'[d] = window[d] /\ unseen'[d] = unseen[d] /\ wire'[d] = wire[d]
  BY <1>0, <1>1 DEF STypeOK
<1> QED
  BY <1>6, <1>7, <1>8, SSHLocal

\* The session writes: what it takes of the window is at the client, or lost.
LEMMA WriteInvSSH ==
    ASSUME Inv, UNCHANGED <<rvars, mcpvars>>, NEW c \in SSHConns,
           ExecCommand(c) \/ WritePrompt(c)
    PROVE  Inv'
<1>0. STypeOK
  BY DEF Inv, TypeOK
<1>1. /\ Writes(c) /\ UNCHANGED <<sconn, npackets, wire, reqs, data, ended, shut>>
      /\ spc' \in [SSHConns -> SSHSteps]
  BY <1>0 DEF ExecCommand, WritePrompt, STypeOK, SSHSteps
<1>2. CASE UNCHANGED <<window, unseen>>
  <2>1. STypeOK' /\ Windowed(c)'
    BY <1>0, <1>1, <1>2 DEF STypeOK, Inv, Windowed
  <2> QED
    BY <2>1, <1>1, <1>2, SSHLocal
<1>3. CASE ~UNCHANGED <<window, unseen>>
  <2>1. /\ window[c] > 0 /\ window' = [window EXCEPT ![c] = @ - 1]
        /\ \/ unseen' = [unseen EXCEPT ![c] = @ + 1]
           \/ unseen' = [unseen EXCEPT ![c] = @]
    BY <1>1, <1>3 DEF Writes
  <2>2. /\ window'[c] = window[c] - 1 /\ wire'[c] = wire[c]
        /\ unseen'[c] = unseen[c] \/ unseen'[c] = unseen[c] + 1
        /\ \A d \in SSHConns \ {c} : window'[d] = window[d] /\ unseen'[d] = unseen[d]
    BY <1>0, <1>1, <2>1 DEF STypeOK
  <2>3. /\ window'[c] \in 0..OutCap /\ unseen'[c] \in 0..OutCap /\ Windowed(c)'
    <3> DEFINE a == Cardinality(AdjustsIn(wire[c]))
    <3>1. /\ window[c] \in Nat /\ unseen[c] \in Nat /\ a \in Nat /\ OutCap \in Nat
          /\ window[c] + unseen[c] + a <= OutCap
      BY WindowFacts
    <3>2. Cardinality(AdjustsIn(wire'[c])) = a
      BY <2>2
    <3> HIDE DEF a
    <3>3. window'[c] \in 0..OutCap /\ unseen'[c] \in 0..OutCap
          /\ window'[c] + unseen'[c] + a <= OutCap
      BY <2>1, <2>2, <3>1
    <3> QED
      BY <3>2, <3>3 DEF Windowed
  <2>4. window' \in [SSHConns -> 0..OutCap] /\ unseen' \in [SSHConns -> 0..OutCap]
    BY <1>0, <2>1, <2>3 DEF STypeOK
  <2>5. STypeOK'
    BY <1>0, <1>1, <2>4 DEF STypeOK
  <2> QED
    BY <1>1, <2>2, <2>3, <2>5, SSHLocal
<1> QED
  BY <1>2, <1>3

\* All other steps leave the windows alone.
LEMMA SessionInv ==
    ASSUME Inv, UNCHANGED <<rvars, mcpvars>>, NEW c \in SSHConns,
           \/ SSHConnect(c) \/ SSHAccept(c) \/ SSHLogin(c) \/ SSHRefuse(c)
           \/ HandshakeFails(c) \/ \E r \in SSHRequests : NextRequest(c, r)
           \/ SessionEnds(c) \/ ShellRead(c) \/ ShellReadFails(c)
    PROVE  Inv'
<1>0. STypeOK
  BY DEF Inv, TypeOK
<1>1. UNCHANGED <<wire, window, unseen, npackets, ended>>
  BY DEF SSHConnect, SSHAccept, SSHLogin, SSHRefuse, HandshakeFails, NextRequest,
         NextRequestWhen, SessionEnds, ShellRead, ShellReadFails
<1>2. /\ sconn' \in [SSHConns -> {"unused", "up", "gone"}]
      /\ shut' \in [SSHConns -> BOOLEAN]
  BY <1>0 DEF STypeOK, SSHConnect, SSHAccept, SSHLogin, SSHRefuse, HandshakeFails, NextRequest,
         NextRequestWhen, SessionEnds, ShellRead, ShellReadFails, HandleCommand
<1>3. spc' \in [SSHConns -> SSHSteps]
  <2>1. CASE \E r \in SSHRequests : NextRequest(c, r)
    BY <1>0, <2>1 DEF STypeOK, SSHSteps, SSHRequests, NextRequest, NextRequestWhen
  <2>2. CASE ~\E r \in SSHRequests : NextRequest(c, r)
    BY <1>0, <2>2 DEF STypeOK, SSHSteps, SSHConnect, SSHAccept, SSHLogin, SSHRefuse,
           HandshakeFails, SessionEnds, ShellRead, ShellReadFails
  <2> QED
    BY <2>1, <2>2
<1>4. reqs' \in [SSHConns -> 0..ReqCap]
  <2>1. CASE \E r \in SSHRequests : NextRequest(c, r)
    <3>1. reqs[c] \in 0..ReqCap /\ reqs[c] > 0 /\ reqs' = [reqs EXCEPT ![c] = @ - 1]
      BY <1>0, <2>1 DEF STypeOK, NextRequest, NextRequestWhen
    <3> QED
      BY <1>0, <3>1 DEF STypeOK
  <2>2. CASE ~\E r \in SSHRequests : NextRequest(c, r)
    BY <1>0, <2>2 DEF STypeOK, SSHConnect, SSHAccept, SSHLogin, SSHRefuse,
           HandshakeFails, SessionEnds, ShellRead, ShellReadFails
  <2> QED
    BY <2>1, <2>2
<1>5. data' \in [SSHConns -> Nat]
  <2>1. CASE ShellRead(c)
    <3>1. PICK n \in 1..data[c] : data' = [data EXCEPT ![c] = @ - n]
      BY <2>1 DEF ShellRead
    <3>2. data[c] \in Nat
      BY <1>0 DEF STypeOK
    <3>3. data[c] - n \in Nat
      BY <3>2
    <3> QED
      BY <1>0, <3>1, <3>3 DEF STypeOK
  <2>2. CASE ~ShellRead(c)
    BY <1>0, <2>2 DEF STypeOK, SSHConnect, SSHAccept, SSHLogin, SSHRefuse, HandshakeFails,
           NextRequest, NextRequestWhen, SessionEnds, ShellReadFails
  <2> QED
    BY <2>1, <2>2
<1>6. STypeOK'
  BY <1>0, <1>1, <1>2, <1>3, <1>4, <1>5 DEF STypeOK
<1>7. Windowed(c)'
  BY <1>1 DEF Inv, Windowed
<1> QED
  BY <1>1, <1>6, <1>7, SSHLocal

LEMMA SSHSideInv ==
    ASSUME Inv, UNCHANGED <<rvars, mcpvars>>, SSHNext
    PROVE  Inv'
<1> PICK c \in SSHConns :
        \/ \/ SSHConnect(c) \/ SSHAccept(c) \/ SSHLogin(c) \/ SSHRefuse(c)
           \/ HandshakeFails(c) \/ \E r \in SSHRequests : NextRequest(c, r)
           \/ SessionEnds(c) \/ ShellRead(c) \/ ShellReadFails(c)
        \/ \/ \E m \in {"request", "line"} : SSHSend(c, m)
           \/ SSHTake(c) \/ AckClose(c)
        \/ SSHLeave(c) \/ SSHLost(c)
        \/ HandOn(c)
        \/ ExecCommand(c) \/ WritePrompt(c)
  BY DEF SSHNext
<1> QED
  BY AddInv, GoAwayInv, HandOnInv, WriteInvSSH, SessionInv

-----------------------------------------------------------------------------
(* The invariant.                                                          *)

LEMMA InitInv == Init => Inv
<1> SUFFICES ASSUME Init
             PROVE  Inv
  OBVIOUS
<1>1. RTypeOK
  BY DEF Init, RInit, RTypeOK, Registered
<1>2. MTypeOK
  <2>1. NoResult \in Results
    BY DEF NoResult, Results
  <2>2. \A c \in MCPConns : ~Serving(c)
    BY DEF Init, MInit, Serving
  <2>3. /\ mpc \in [MCPConns -> MCPSteps] /\ inbox \in [MCPConns -> Seq(1..MaxSends)]
        /\ views \in [MCPConns -> SUBSET SUBSET Ids]
    BY DEF Init, MInit, MCPSteps
  <2> QED
    BY <2>1, <2>2, <2>3 DEF Init, MInit, MTypeOK
<1>3. STypeOK
  BY DEF Init, SInit, STypeOK, SSHSteps
<1>4. ASSUME NEW c \in MCPConns
      PROVE  Answering(c)
  <2>1. ~Serving(c) /\ owed[c] = {} /\ inbox[c] = <<>> /\ mpc[c] = "unused"
    BY DEF Init, MInit, Serving
  <2>2. 1..Len(inbox[c]) = {}
    BY <2>1
  <2> QED
    BY <2>1, <2>2 DEF Answering, InTurn, Streamed, Watched, Current
<1>5. ASSUME NEW c \in SSHConns
      PROVE  Windowed(c)
  <2>1. wire[c] = <<>> /\ window[c] = OutCap /\ unseen[c] = 0
    BY DEF Init, SInit
  <2>2. AdjustsIn(wire[c]) = {}
    BY <2>1 DEF AdjustsIn
  <2>3. Cardinality(AdjustsIn(wire[c])) = 0
    BY <2>2, FS_EmptySet
  <2> QED
    BY <2>1, <2>3 DEF Windowed
<1> QED
  BY <1>1, <1>2, <1>3, <1>4, <1>5 DEF Inv, TypeOK

LEMMA NextInv == Inv /\ [Next]_vars => Inv'
<1> SUFFICES ASSUME Inv, [Next]_vars
             PROVE  Inv'
  OBVIOUS
<1>1. CASE RegistryStep
  BY <1>1, RegistryInv
<1>2. CASE MCPSide
  <2>1. MCPNext /\ UNCHANGED <<rvars, sshvars>>
    BY <1>2 DEF MCPSide
  <2> QED
    BY <2>1, ConnectInv, SendInv, TakeInv, LeaveInv, AcceptInv, AcceptFailsInv, ReadInv,
       ReadFailsInv, ServeInv, FetchInv, WriteInv DEF MCPNext, MCPClient
<1>3. CASE SSHSide
  <2>1. SSHNext /\ UNCHANGED <<rvars, mcpvars>>
    BY <1>3 DEF SSHSide
  <2> QED
    BY <2>1, SSHSideInv
<1>4. CASE UNCHANGED vars
  <2>1. /\ UNCHANGED <<rvars, sshvars>> /\ MTypeOK'
        /\ \A d \in MCPConns : Same(d)
    BY <1>4 DEF vars, mcpvars, Inv, TypeOK, MTypeOK, Serving, Same
  <2> QED
    BY <2>1, StillInv
<1> QED
  BY <1>1, <1>2, <1>3, <1>4 DEF Next

LEMMA InvHolds == Spec => []Inv
<1> QED
  BY InitInv, NextInv, PTL DEF Spec

-----------------------------------------------------------------------------
(* Sessions that hang.                                                     *)

\* A connection that was never opened has no goroutine.
Begun == \A c \in SSHConns : sconn[c] = "unused" => spc[c] = "unused"

LEMMA BegunHolds == Spec => []Begun
<1>1. Init => Begun
  BY DEF Init, SInit, Begun
<1>2. Inv /\ Begun /\ [Next]_vars => Begun'
  <2> SUFFICES ASSUME Inv, Begun, [Next]_vars
               PROVE  Begun'
    OBVIOUS
  <2>0. STypeOK
    BY DEF Inv, TypeOK
  <2>1. CASE UNCHANGED sshvars
    BY <2>1 DEF Begun, sshvars
  <2>2. ASSUME NEW c \in SSHConns, sconn[c] = "unused", SSHNext
        PROVE  sconn'[c] /= "unused" \/ spc'[c] = "unused"
    BY <2>0, <2>2 DEF Begun, STypeOK, SSHNext, GoAway, SSHConnect, SSHSend, SSHTake, SSHLeave,
           SSHLost, SSHAccept, SSHLogin, SSHRefuse, HandshakeFails, HandOn, AckClose,
           NextRequest, NextRequestWhen, ExecCommand, SessionEnds, WritePrompt, ShellRead,
           ShellReadFails
  <2>3. ASSUME NEW c \in SSHConns, sconn[c] /= "unused", SSHNext
        PROVE  sconn'[c] /= "unused"
    BY <2>0, <2>3 DEF STypeOK, SSHNext, GoAway, SSHConnect, SSHSend, SSHTake, SSHLeave,
           SSHLost, SSHAccept, SSHLogin, SSHRefuse, HandshakeFails, HandOn, AckClose,
           NextRequest, NextRequestWhen, ExecCommand, SessionEnds, WritePrompt, ShellRead,
           ShellReadFails
  <2> QED
    BY <2>1, <2>2, <2>3 DEF Begun, Next, RegistryStep, MCPSide, SSHSide, vars, sshvars
<1> QED
  BY <1>1, <1>2, InvHolds, PTL DEF Spec

\* The two goroutines of a hung session wait for each other: no step of the
\* session is possible, the multiplexer keeps the request in its hand, and
\* what a client adds or loses is behind that one.
LEMMA HungStep ==
    ASSUME Inv, Begun, SSHNext, NEW c \in SSHConns, Hung(c)
    PROVE  Hung(c)'
<1>0. STypeOK
  BY DEF Inv, TypeOK
<1> DEFINE w == wire[c]
<1>1. /\ w \in Seq(Packets) /\ w /= <<>> /\ Head(w) = "request" /\ reqs[c] = ReqCap
      /\ ReqCap \in Nat \ {0} /\ ~ended[c] /\ sconn[c] \in {"unused", "up", "gone"}
  BY <1>0 DEF Hung, Stuck, STypeOK
<1>2. /\ spc[c] \in {"shell", "exec", "prompt"}
      /\ spc[c] = "shell" => data[c] = 0
      /\ spc[c] /= "shell" => window[c] = 0
  BY DEF Hung
<1>3. PICK d \in SSHConns :
        \/ SSHConnect(d)
        \/ \E m \in {"request", "line"} : SSHSend(d, m)
        \/ SSHTake(d) \/ SSHLeave(d) \/ SSHLost(d) \/ SSHAccept(d) \/ SSHLogin(d)
        \/ SSHRefuse(d) \/ HandshakeFails(d) \/ HandOn(d) \/ AckClose(d)
        \/ \E r \in SSHRequests : NextRequest(d, r)
        \/ ExecCommand(d) \/ SessionEnds(d) \/ WritePrompt(d) \/ ShellRead(d)
        \/ ShellReadFails(d)
  BY DEF SSHNext
<1>4. CASE d /= c
  <2>1. wire'[c] = wire[c] /\ ended'[c] = ended[c]
    BY <1>0, <1>3, <1>4 DEF STypeOK, GoAway, SSHConnect, SSHSend, SSHTake, SSHLeave, SSHLost,
           SSHAccept, SSHLogin, SSHRefuse, HandshakeFails, HandOn, AckClose, NextRequest,
           NextRequestWhen, ExecCommand, SessionEnds, WritePrompt, ShellRead, ShellReadFails
  <2>2. reqs'[c] = reqs[c] /\ data'[c] = data[c]
    BY <1>0, <1>3, <1>4 DEF STypeOK, GoAway, SSHConnect, SSHSend, SSHTake, SSHLeave, SSHLost,
           SSHAccept, SSHLogin, SSHRefuse, HandshakeFails, HandOn, AckClose, NextRequest,
           NextRequestWhen, ExecCommand, SessionEnds, WritePrompt, ShellRead, ShellReadFails
  <2>3. spc'[c] = spc[c] /\ window'[c] = window[c]
    BY <1>0, <1>3, <1>4 DEF STypeOK, GoAway, SSHConnect, SSHSend, SSHTake, SSHLeave, SSHLost,
           SSHAccept, SSHLogin, SSHRefuse, HandshakeFails, HandOn, AckClose, NextRequest,
           NextRequestWhen, ExecCommand, SessionEnds, WritePrompt, ShellRead, ShellReadFails,
           Writes
  <2> QED
    BY <2>1, <2>2, <2>3 DEF Hung, Stuck
<1>5. CASE d = c
  <2>1. /\ UNCHANGED <<spc, reqs, data, ended, window>>
        /\ \/ UNCHANGED wire
           \/ \E m \in Packets : wire' = [wire EXCEPT ![c] = Append(@, m)]
           \/ \E kept \in 1..Len(w) : wire' = [wire EXCEPT ![c] = Append(SubSeq(@, 1, kept), "end")]
    <3>1. /\ ~SSHConnect(c) /\ ~SSHAccept(c) /\ ~SSHLogin(c) /\ ~SSHRefuse(c)
          /\ ~HandshakeFails(c) /\ ~SessionEnds(c) /\ ~ShellReadFails(c)
          /\ ~\E r \in SSHRequests : NextRequest(c, r)
      <4>1. ~SSHConnect(c)
        BY <1>2 DEF SSHConnect, Begun
      <4> QED
        BY <4>1, <1>1, <1>2 DEF SSHAccept, SSHLogin, SSHRefuse, HandshakeFails,
           SessionEnds, ShellReadFails, NextRequest, NextRequestWhen
    <3>2. ~HandOn(c) /\ ~ExecCommand(c) /\ ~WritePrompt(c)
      BY <1>1, <1>2 DEF HandOn, Stuck, ExecCommand, WritePrompt, Writes
    <3>3. ~ShellRead(c)
      BY <1>2 DEF ShellRead
    <3>4. CASE \/ \E m \in {"request", "line"} : SSHSend(c, m)
               \/ SSHTake(c) \/ AckClose(c)
      BY <3>4 DEF SSHSend, SSHTake, AckClose, Packets
    <3>5. CASE SSHLeave(c) \/ SSHLost(c)
      <4>1. Stuck(c) /\ Len(w) \in 1..Len(w)
        BY <1>1 DEF Hung
      <4>2. PICK kept \in 1..Len(w) : GoAway(c, kept)
        BY <3>5, <4>1 DEF SSHLeave, SSHLost
      <4> QED
        BY <4>2 DEF GoAway
    <3> QED
      BY <1>3, <1>5, <3>1, <3>2, <3>3, <3>4, <3>5
  <2>2. wire'[c] /= <<>> /\ Head(wire'[c]) = "request"
    <3>1. CASE UNCHANGED wire
      BY <3>1, <1>1
    <3>2. CASE \E m \in Packets : wire' = [wire EXCEPT ![c] = Append(@, m)]
      <4>1. PICK m \in Packets : wire'[c] = Append(w, m)
        BY <1>0, <3>2 DEF STypeOK
      <4> QED
        BY <4>1, <1>1
    <3>3. CASE \E kept \in 1..Len(w) :
                    wire' = [wire EXCEPT ![c] = Append(SubSeq(@, 1, kept), "end")]
      <4>1. PICK kept \in 1..Len(w) : wire'[c] = Append(SubSeq(w, 1, kept), "end")
        BY <1>0, <3>3 DEF STypeOK
      <4> DEFINE v == SubSeq(w, 1, kept)
      <4>2. v \in Seq(Packets) /\ Len(v) >= 1 /\ v[1] = "request"
        BY <1>1
      <4> HIDE DEF v
      <4>3. Append(v, "end") /= <<>> /\ Append(v, "end")[1] = "request"
        BY <4>2
      <4> QED
        BY <4>1, <4>3 DEF v
    <3> QED
      BY <2>1, <3>1, <3>2, <3>3
  <2> QED
    BY <1>1, <1>2, <2>1, <2>2 DEF Hung, Stuck
<1> QED
  BY <1>4, <1>5

-----------------------------------------------------------------------------
(* The theorems.                                                           *)

\* Both servers and the registry keep the types of their state: the ends of
\* the connections, the places of the goroutines, the requests of a stream,
\* and the packets; the queue of requests and the window are never exceeded,
\* also when output goes to nobody or a connection is lost
\* (mcp.go:66-95, ssh/server.go:46-155).
THEOREM ControlTypeCorrect == Spec => []TypeOK
<1>1. Inv => TypeOK
  BY DEF Inv
<1> QED
  BY <1>1, InvHolds, PTL

\* Each request that was read whole is answered once and in its turn, and the
\* answer tells of the registry as it was at some moment after the request was
\* read, whatever the gateway, the API and the cleanup do to it meanwhile
\* (mcp.go:76-191).
THEOREM AnswersCorrect == Spec => []AnswersFaithful
<1>1. Inv => AnswersFaithful
  BY DEF Inv, Answering, AnswersFaithful
<1> QED
  BY <1>1, InvHolds, PTL

\* An SSH session that waits for a line or for room in its window, with a
\* request in the multiplexer's hand that nobody takes, waits for ever,
\* whatever the client does: this leak has no way out (ssh/server.go:97-138).
THEOREM HangIsFinal == Spec => HungForGood
<1>1. Inv /\ Begun /\ [Next]_vars => [\A c \in SSHConns : Hung(c) => Hung(c)']_vars
  <2> SUFFICES ASSUME Inv, Begun, Next, NEW c \in SSHConns, Hung(c)
               PROVE  Hung(c)'
    OBVIOUS
  <2>1. CASE SSHSide
    BY <2>1, HungStep DEF SSHSide
  <2>2. CASE RegistryStep \/ MCPSide
    BY <2>2 DEF RegistryStep, MCPSide, sshvars, Hung, Stuck
  <2> QED
    BY <2>1, <2>2 DEF Next
<1> QED
  BY <1>1, InvHolds, BegunHolds, PTL DEF Spec, HungForGood
=============================================================================
