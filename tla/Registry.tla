------------------------------ MODULE Registry ------------------------------
(***************************************************************************)
(* What the tunnel manager promises to the servers in front of it: a set   *)
(* of registered tunnels, no two of one name, and a request counter for    *)
(* each that only grows.  TunnelManager implements this specification      *)
(* (RegistrySpec there); MCPServer, which sees nothing else of the         *)
(* manager, is composed with it in its place.                              *)
(***************************************************************************)
EXTENDS Naturals

CONSTANTS
    Names,          \* tunnel names
    Ids,            \* tunnel IDs
    NoName,         \* name under which an unregistered tunnel is known
    MaxRequests     \* bound on the request counter of a tunnel

ASSUME RegistryAssumption == NoName \notin Names /\ MaxRequests \in Nat

VARIABLES
    used,   \* IDs given out so far: none is given out twice
    reg,    \* the name a registered tunnel bears, NoName for the others
    count   \* the requests counted for a tunnel

rvars == <<used, reg, count>>

Registered == {i \in Ids : reg[i] /= NoName}

\* The registered tunnels of a name: one at most.
Bearing(n) == {i \in Ids : reg[i] = n}

RTypeOK ==
    /\ used \subseteq Ids
    /\ reg \in [Ids -> Names \cup {NoName}]
    /\ Registered \subseteq used
    /\ count \in [Ids -> 0..MaxRequests]

RInit ==
    /\ used = {}
    /\ reg = [i \in Ids |-> NoName]
    /\ count = [i \in Ids |-> 0]

Register(n, i) ==
    /\ i \notin used
    /\ used' = used \cup {i}
    /\ Bearing(n) = {}
    /\ reg' = [reg EXCEPT ![i] = n]
    /\ UNCHANGED count

Unregister(i) ==
    /\ reg[i] /= NoName
    /\ reg' = [reg EXCEPT ![i] = NoName]
    /\ UNCHANGED <<used, count>>

\* A request may still be counted when its tunnel is gone.
Count(i) ==
    /\ i \in used
    /\ count[i] < MaxRequests
    /\ count' = [count EXCEPT ![i] = @ + 1]
    /\ UNCHANGED <<used, reg>>

RNext ==
    \/ \E n \in Names, i \in Ids : Register(n, i)
    \/ \E i \in Ids : Unregister(i)
    \/ \E i \in Ids : Count(i)

RSpec == RInit /\ [][RNext]_rvars
=============================================================================
