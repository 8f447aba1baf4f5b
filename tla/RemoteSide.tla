----------------------------- MODULE RemoteSide -----------------------------
(***************************************************************************)
(* The programs away from the server: a client agent and people at the     *)
(* command line, who use the same tunnel names through the management API. *)
(***************************************************************************)
EXTENDS ClientAgent, AdminCLI, FiniteSetsExt

CONSTANT MaxInputs  \* bound on commands and visitors together

ASSUME RemoteAssumption == Entries \cap CLIs = {} /\ MaxInputs \in Nat

vars == <<apivars, agentvars, clivars>>

TypeOK == APITypeOK /\ AgentTypeOK /\ CLITypeOK

Init == APIInit /\ AgentInit /\ CLIInit

Inputs == MapThenSumSet(LAMBDA c : commands[c], CLIs)
            + Cardinality({v \in Visitors : relay[v] /= "none"})

Next ==
    \/ APINext /\ UNCHANGED <<agentvars, clivars>>
    \/ EntryNext /\ UNCHANGED clivars
    \/ RelayNext /\ UNCHANGED <<apivars, clivars>> /\ Inputs' <= MaxInputs
    \/ CLINext /\ UNCHANGED agentvars /\ Inputs' <= MaxInputs

Spec == Init /\ [][Next]_vars

(* The agent's goroutines run, and a request that is not lost is answered  *)
(* by a server that runs.  Nothing is assumed of operators, visitors and   *)
(* the local service, and a server that has ended may stay away.           *)
Fairness ==
    /\ \A e \in Entries :
        /\ WF_vars(EntryStep(e) /\ UNCHANGED clivars)
        /\ WF_vars(Handle(e) /\ UNCHANGED <<agentvars, clivars>>)
        /\ WF_vars(Refuse(e) /\ UNCHANGED <<agentvars, clivars>>)
    /\ \A v \in Visitors :
        WF_vars((DialLocal(v) \/ EndRelay(v)) /\ UNCHANGED <<apivars, clivars>>)

FairSpec == Spec /\ Fairness

-----------------------------------------------------------------------------
(* Safety.                                                                 *)

Listening(e) == apc[e] \in {"listen", "listening"}

\* An entry opens its port only when the server has carried out the request
\* that this run of the agent has sent for it: no answer to another request,
\* no lost one and no refusal opens it.  As long as nothing was deleted and
\* the server was not restarted, its name is registered, and of two entries
\* of one name one listens.
ListensOnlyAccepted ==
    /\ \A e \in Entries : Listening(e) =>
            took[e] /\ Name[e] \in registered \cup freed
    /\ \A e, f \in Entries :
            Listening(e) /\ Listening(f) /\ Name[e] = Name[f] /\ e /= f => Name[e] \in freed

\* The exit code tells what a command has done.  0 says that the request was
\* carried out, for all commands but logs and health; 1 says that it was not,
\* unless the answer was lost.  (2 is a panic and says nothing.)
ExitTellsTruth ==
    \A c \in CLIs : typed[c] /= NoCommand /\ cpc[c] = "idle" =>
        /\ exit[c] = 0 /\ typed[c].command \in Remote \ {"logs", "health"} => took[c]
        /\ exit[c] = 1 /\ Asks(typed[c]) /\ took[c] => answer[c] = "error"

(* Liveness.                                                               *)

\* An http entry of a running agent does not stay without its tunnel unless
\* the server is away, is not one that takes it, refuses its token, or has
\* its name: the name that somebody else took, or that the agent itself took
\* with a request whose answer was lost or before it was started again.
EntrySettles(e) ==
    Protocol[e] = "http" =>
        []<>(\/ apc[e] \in {"listening", "no port", "off"}
             \/ ~up \/ server = "this" \/ token /= "valid"
             \/ Name[e] \in registered)

\* The relay of a service that has closed ends, unless the visitor neither
\* reads what there is for it nor leaves.
RelaySettles(v) ==
    []<>(\/ relay[v] \notin {"dial", "copy"}
         \/ service[v] = "up"
         \/ inhand[v] /\ visitor[v] = "up")

AgentSettles ==
    /\ \A e \in Entries : EntrySettles(e)
    /\ \A v \in Visitors : RelaySettles(v)
=============================================================================
