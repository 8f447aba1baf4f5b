-------------------------- MODULE RemoteSideProofs --------------------------
(***************************************************************************)
(* Proofs about RemoteSide, for any names, entries, terminals and          *)
(* commands.  What a caller has been told and what the server has done are *)
(* tied together by took: an "ok" was carried out, what was carried out    *)
(* was answered with "ok" unless the answer was lost, and a name that was  *)
(* taken for an entry is registered or was freed since.                    *)
(***************************************************************************)
EXTENDS RemoteSide, TLAPS

USE APIAssumption, AgentAssumption, CLIAssumption, RemoteAssumption

\* What an answer says of the request.
Told ==
    \A c \in Callers :
        /\ answer[c] = "ok" => took[c]
        /\ took[c] => answer[c] \in {"ok", "error"}
        /\ call[c].op = "generate-name" /\ answer[c] = "ok" => offered[c] \in Names

\* An entry asks for its own name only, and what it was given was free.
Held ==
    \A e \in Entries :
        /\ call[e] /= NoCall => call[e].op = "create" /\ call[e].name = Name[e]
        /\ Listening(e) => took[e]
        /\ took[e] => Name[e] \in registered \cup freed

Apart ==
    \A e, f \in Entries :
        took[e] /\ took[f] /\ Name[e] = Name[f] /\ e /= f => Name[e] \in freed

\* A terminal between two commands has no request under way.
Resting ==
    \A c \in CLIs :
        /\ cpc[c] = "idle" => call[c] = NoCall
        /\ cpc[c] = "naming" => call[c].op = "generate-name"

Inv == TypeOK /\ Told /\ Held /\ Apart /\ Resting /\ ExitTellsTruth

-----------------------------------------------------------------------------

LEMMA NoCallFacts == NoCall.op = "none" /\ NoCall \notin CallType
BY DEF NoCall, CallType, Routes

LEMMA InitInv == Init => Inv
<1> SUFFICES ASSUME Init PROVE Inv
  OBVIOUS
<1> USE DEF Init, APIInit, AgentInit, CLIInit
<1>1. APITypeOK
  BY NoCallFacts DEF APITypeOK, NamedRoutes, Answers
<1>2. AgentTypeOK
  BY DEF AgentTypeOK, AgentSteps
<1>3. CLITypeOK
  BY DEF CLITypeOK
<1>4. Told /\ Held /\ Apart
  BY DEF Told, Held, Apart, Listening
<1>5. Resting /\ ExitTellsTruth
  BY DEF Resting, ExitTellsTruth
<1> QED
  BY <1>1, <1>2, <1>3, <1>4, <1>5 DEF Inv, TypeOK

LEMMA OutcomeType ==
    ASSUME server \in DOMAIN Routes, NEW r \in CallType
    PROVE  Outcome(r) \in Answers
BY DEF Outcome, Answers, CallType, Routes, Tokens

\* Carrying out a request: names that disappear are remembered, and a create
\* finds its name free and leaves it taken.
LEMMA CarryOutFacts ==
    ASSUME registered \subseteq Names, freed \subseteq Names,
           NEW r \in CallType, CarryOut(r),
           r.op \in NamedRoutes \cup {"create"} => r.name \in Names
    PROVE  /\ registered' \subseteq Names /\ freed' \subseteq Names
           /\ freed \subseteq freed'
           /\ registered \cup freed \subseteq registered' \cup freed'
           /\ Outcome(r) = "ok" /\ r.op = "create" =>
                r.name \notin registered /\ r.name \in registered'
BY DEF CarryOut, Outcome, CallType, Routes, NamedRoutes, Tokens

-----------------------------------------------------------------------------
(* Steps of the server and of the network.                                 *)

LEMMA HandleInv ==
    ASSUME Inv, NEW c \in Callers, Handle(c), UNCHANGED <<agentvars, clivars>>
    PROVE  Inv'
<1> DEFINE r == call[c]
<1>1. /\ APITypeOK /\ AgentTypeOK /\ CLITypeOK
      /\ Told /\ Held /\ Apart /\ Resting /\ ExitTellsTruth
  BY DEF Inv, TypeOK
<1>2. /\ r \in CallType /\ r /= NoCall /\ answer[c] = "none" /\ ~took[c]
      /\ r.op \in NamedRoutes \cup {"create"} => r.name \in Names
  BY <1>1 DEF APITypeOK, Handle, Travels, Told
<1>3. Outcome(r) \in Answers
  BY <1>1, <1>2, OutcomeType DEF APITypeOK
<1>4. /\ registered' \subseteq Names /\ freed' \subseteq Names
      /\ freed \subseteq freed'
      /\ registered \cup freed \subseteq registered' \cup freed'
      /\ Outcome(r) = "ok" /\ r.op = "create" =>
            r.name \notin registered /\ r.name \in registered'
  BY <1>1, <1>2, CarryOutFacts DEF APITypeOK, Handle
<1>5. /\ answer' = [answer EXCEPT ![c] = Outcome(r)]
      /\ took' = [took EXCEPT ![c] = Outcome(r) = "ok"]
      /\ offered' \in [Callers -> Names \cup {NoName}]
      /\ r.op = "generate-name" /\ Outcome(r) = "ok" => offered'[c] \in Names
      /\ \A d \in Callers \ {c} : offered'[d] = offered[d]
      /\ UNCHANGED <<server, up, call, stray, losses, crashes>>
  BY <1>1 DEF Handle, APITypeOK
<1> HIDE DEF r
<1>6. APITypeOK'
  BY <1>1, <1>3, <1>4, <1>5 DEF APITypeOK
<1>7. AgentTypeOK' /\ CLITypeOK' /\ Resting'
  BY <1>1, <1>5 DEF AgentTypeOK, CLITypeOK, Resting, agentvars, clivars
<1>8. Told'
  BY <1>1, <1>2, <1>5 DEF Told, APITypeOK, r
<1>9. Held'
  <2> SUFFICES ASSUME NEW e \in Entries
               PROVE  /\ call'[e] /= NoCall => call'[e].op = "create" /\ call'[e].name = Name[e]
                      /\ Listening(e)' => took'[e]
                      /\ took'[e] => Name[e] \in registered' \cup freed'
    BY DEF Held
  <2>1. CASE e = c
    <3>1. r.op = "create" /\ r.name = Name[e] /\ apc[e] = "waiting"
      BY <2>1, <1>1, <1>2 DEF Held, AgentTypeOK, r
    <3> QED
      BY <2>1, <3>1, <1>1, <1>4, <1>5 DEF Held, Listening, agentvars, APITypeOK, r
  <2>2. CASE e /= c
    BY <2>2, <1>1, <1>4, <1>5 DEF Held, Listening, agentvars, APITypeOK
  <2> QED
    BY <2>1, <2>2
<1>10. Apart'
  <2> SUFFICES ASSUME NEW e \in Entries, NEW f \in Entries,
                      took'[e], took'[f], Name[e] = Name[f], e /= f
               PROVE  Name[e] \in freed'
    BY DEF Apart
  <2>1. CASE e /= c /\ f /= c
    BY <2>1, <1>1, <1>4, <1>5 DEF Apart, APITypeOK
  <2>2. ASSUME NEW g \in Entries, NEW h \in Entries, g = c, h /= c, took'[g], took'[h],
               Name[g] = Name[h]
        PROVE  Name[g] \in freed'
    <3>1. r.op = "create" /\ r.name = Name[g]
      BY <2>2, <1>1, <1>2 DEF Held, r
    <3>2. Outcome(r) = "ok"
      BY <2>2, <1>1, <1>5 DEF APITypeOK
    <3>3. took[h]
      BY <2>2, <1>1, <1>5 DEF APITypeOK
    <3>4. Name[h] \in registered \cup freed
      BY <3>3, <1>1 DEF Held
    <3> QED
      BY <2>2, <3>1, <3>2, <3>4, <1>4
  <2> QED
    BY <2>1, <2>2
<1>11. ExitTellsTruth'
  <2> SUFFICES ASSUME NEW d \in CLIs, typed'[d] /= NoCommand, cpc'[d] = "idle"
               PROVE  /\ exit'[d] = 0 /\ typed'[d].command \in Remote \ {"logs", "health"} => took'[d]
                      /\ exit'[d] = 1 /\ Asks(typed'[d]) /\ took'[d] => answer'[d] = "error"
    BY DEF ExitTellsTruth
  <2>1. d /= c
    BY <1>1, <1>2 DEF Resting, clivars, r
  <2> QED
    BY <2>1, <1>1, <1>5 DEF ExitTellsTruth, clivars, APITypeOK
<1> QED
  BY <1>1, <1>6, <1>7, <1>8, <1>9, <1>10, <1>11 DEF Inv, TypeOK

LEMMA HandleStrayInv ==
    ASSUME Inv, NEW r \in stray, HandleStray(r), UNCHANGED <<agentvars, clivars>>
    PROVE  Inv'
<1>1. /\ APITypeOK /\ AgentTypeOK /\ CLITypeOK
      /\ Told /\ Held /\ Apart /\ Resting /\ ExitTellsTruth
  BY DEF Inv, TypeOK
<1>2. /\ registered' \subseteq Names /\ freed' \subseteq Names
      /\ freed \subseteq freed'
      /\ registered \cup freed \subseteq registered' \cup freed'
  <2>1. r \in CallType /\ (r.op \in NamedRoutes \cup {"create"} => r.name \in Names)
    BY <1>1 DEF APITypeOK
  <2> QED
    BY <1>1, <2>1, CarryOutFacts DEF APITypeOK, HandleStray
<1>3. stray' = stray \ {r}
      /\ UNCHANGED <<server, up, call, answer, offered, losses, crashes, took>>
  BY DEF HandleStray
<1>4. APITypeOK'
  BY <1>1, <1>2, <1>3 DEF APITypeOK
<1>5. AgentTypeOK' /\ CLITypeOK' /\ Resting' /\ Told' /\ ExitTellsTruth'
  BY <1>1, <1>3 DEF AgentTypeOK, CLITypeOK, Resting, Told, ExitTellsTruth, agentvars, clivars
<1>6. Held' /\ Apart'
  BY <1>1, <1>2, <1>3 DEF Held, Apart, Listening, agentvars
<1> QED
  BY <1>1, <1>4, <1>5, <1>6 DEF Inv, TypeOK

LEMMA RefuseInv ==
    ASSUME Inv, NEW c \in Callers, Refuse(c), UNCHANGED <<agentvars, clivars>>
    PROVE  Inv'
<1>1. /\ APITypeOK /\ AgentTypeOK /\ CLITypeOK
      /\ Told /\ Held /\ Apart /\ Resting /\ ExitTellsTruth
  BY DEF Inv, TypeOK
<1>2. /\ answer' = [answer EXCEPT ![c] = "error"]
      /\ UNCHANGED <<server, up, registered, call, offered, stray, losses, crashes, took, freed>>
  BY DEF Refuse
<1>3. APITypeOK'
  BY <1>1, <1>2 DEF APITypeOK, Answers
<1>4. AgentTypeOK' /\ CLITypeOK' /\ Resting'
  BY <1>1, <1>2 DEF AgentTypeOK, CLITypeOK, Resting, agentvars, clivars
<1>5. Told' /\ ExitTellsTruth'
  BY <1>1, <1>2 DEF Told, ExitTellsTruth, APITypeOK, clivars
<1>6. Held' /\ Apart'
  BY <1>1, <1>2 DEF Held, Apart, Listening, agentvars
<1> QED
  BY <1>3, <1>4, <1>5, <1>6 DEF Inv, TypeOK

LEMMA LoseInv ==
    ASSUME Inv, NEW c \in Callers, Lose(c), UNCHANGED <<agentvars, clivars>>
    PROVE  Inv'
<1>1. /\ APITypeOK /\ AgentTypeOK /\ CLITypeOK
      /\ Told /\ Held /\ Apart /\ Resting /\ ExitTellsTruth
  BY DEF Inv, TypeOK
<1>2. /\ answer' = [answer EXCEPT ![c] = "error"]
      /\ offered' = [offered EXCEPT ![c] = NoName]
      /\ call[c] \in CallType
      /\ stray' \subseteq stray \cup {call[c]}
      /\ UNCHANGED <<server, up, registered, call, crashes, took, freed>>
  BY <1>1 DEF Lose, APITypeOK
<1>3. APITypeOK'
  <2>1. losses' \in 0..MaxLosses
    BY <1>1 DEF Lose, APITypeOK
  <2>2. answer' \in [Callers -> Answers \cup {"none"}]
    BY <1>1, <1>2 DEF APITypeOK, Answers
  <2> QED
    BY <1>1, <1>2, <2>1, <2>2 DEF APITypeOK
<1>4. AgentTypeOK' /\ CLITypeOK' /\ Resting'
  BY <1>1, <1>2 DEF AgentTypeOK, CLITypeOK, Resting, agentvars, clivars
<1>5. Told' /\ ExitTellsTruth'
  BY <1>1, <1>2 DEF Told, ExitTellsTruth, APITypeOK, clivars
<1>6. Held' /\ Apart'
  BY <1>1, <1>2 DEF Held, Apart, Listening, agentvars
<1> QED
  BY <1>3, <1>4, <1>5, <1>6 DEF Inv, TypeOK

LEMMA CrashInv ==
    ASSUME Inv, Crash, UNCHANGED <<agentvars, clivars>>
    PROVE  Inv'
<1>1. /\ APITypeOK /\ AgentTypeOK /\ CLITypeOK
      /\ Told /\ Held /\ Apart /\ Resting /\ ExitTellsTruth
  BY DEF Inv, TypeOK
<1>2. /\ up' = FALSE /\ registered' = {} /\ freed' = freed \cup registered /\ stray' = {}
      /\ answer' = [c \in Callers |-> IF Travels(c) THEN "error" ELSE answer[c]]
      /\ UNCHANGED <<server, call, offered, losses, took>>
  BY DEF Crash
<1>3. APITypeOK'
  <2>1. crashes' \in 0..MaxCrashes
    BY <1>1 DEF Crash, APITypeOK
  <2>2. answer' \in [Callers -> Answers \cup {"none"}]
    BY <1>1, <1>2 DEF APITypeOK, Answers
  <2> QED
    BY <1>1, <1>2, <2>1, <2>2 DEF APITypeOK
<1>4. AgentTypeOK' /\ CLITypeOK' /\ Resting'
  BY <1>1, <1>2 DEF AgentTypeOK, CLITypeOK, Resting, agentvars, clivars
<1>5. Told' /\ ExitTellsTruth'
  BY <1>1, <1>2 DEF Told, ExitTellsTruth, APITypeOK, clivars
<1>6. Held' /\ Apart'
  BY <1>1, <1>2 DEF Held, Apart, Listening, agentvars
<1> QED
  BY <1>3, <1>4, <1>5, <1>6 DEF Inv, TypeOK

LEMMA BootInv ==
    ASSUME Inv, Boot, UNCHANGED <<agentvars, clivars>>
    PROVE  Inv'
<1>1. /\ up' = TRUE
      /\ UNCHANGED <<server, registered, call, answer, offered, stray, losses, crashes, took,
                     freed>>
  BY DEF Boot
<1>2. APITypeOK' /\ AgentTypeOK' /\ CLITypeOK'
  BY <1>1 DEF Inv, TypeOK, APITypeOK, AgentTypeOK, CLITypeOK, agentvars, clivars
<1>3. Told' /\ Held' /\ Apart' /\ Resting' /\ ExitTellsTruth'
  BY <1>1 DEF Inv, Told, Held, Apart, Resting, ExitTellsTruth, Listening, agentvars, clivars
<1> QED
  BY <1>2, <1>3 DEF Inv, TypeOK

LEMMA APINextInv ==
    ASSUME Inv, APINext, UNCHANGED <<agentvars, clivars>>
    PROVE  Inv'
BY HandleInv, HandleStrayInv, RefuseInv, LoseInv, CrashInv, BootInv DEF APINext

-----------------------------------------------------------------------------
(* Steps of the agent.                                                     *)

LEMMA StartAgentInv ==
    ASSUME Inv, StartAgent, UNCHANGED clivars
    PROVE  Inv'
<1>1. /\ \A e \in Entries : call[e] = NoCall
      /\ apc' \in [Entries -> {"register", "over"}]
      /\ starts' \in 0..MaxStarts
      /\ UNCHANGED <<token, relay, visitor, service, inhand, apivars, clivars>>
  BY DEF StartAgent, Running, Inv, TypeOK, AgentTypeOK
<1>2. APITypeOK' /\ AgentTypeOK' /\ CLITypeOK'
  <2>1. APITypeOK' /\ CLITypeOK'
    BY <1>1 DEF Inv, TypeOK, APITypeOK, CLITypeOK, apivars, clivars
  <2>2. apc' \in [Entries -> AgentSteps] /\ \A e \in Entries : apc'[e] /= "waiting"
    BY <1>1 DEF AgentSteps
  <2>3. AgentTypeOK'
    BY <1>1, <2>2 DEF Inv, TypeOK, AgentTypeOK, apivars
  <2> QED
    BY <2>1, <2>3
<1>3. Told' /\ Held' /\ Apart' /\ Resting' /\ ExitTellsTruth'
  BY <1>1 DEF Inv, Told, Held, Apart, Resting, ExitTellsTruth, Listening, apivars, clivars
<1> QED
  BY <1>2, <1>3 DEF Inv, TypeOK

LEMMA StopAgentInv ==
    ASSUME Inv, StopAgent, UNCHANGED clivars
    PROVE  Inv'
<1>1. /\ APITypeOK /\ AgentTypeOK /\ CLITypeOK
      /\ Told /\ Held /\ Apart /\ Resting /\ ExitTellsTruth
  BY DEF Inv, TypeOK
<1>2. /\ call' = [c \in Callers |-> IF c \in Entries THEN NoCall ELSE call[c]]
      /\ answer' = [c \in Callers |-> IF c \in Entries THEN "none" ELSE answer[c]]
      /\ offered' = [c \in Callers |-> IF c \in Entries THEN NoName ELSE offered[c]]
      /\ took' = [c \in Callers |-> took[c] /\ c \notin Entries]
      /\ UNCHANGED <<server, up, registered, losses, crashes, freed>>
  BY DEF StopAgent, Abandon
<1>3. stray' \subseteq stray \cup {call[c] : c \in {d \in Entries : Travels(d)}}
  BY DEF StopAgent, Abandon
<1>4. APITypeOK'
  <2>1. /\ server' \in DOMAIN Routes /\ up' \in BOOLEAN /\ registered' \subseteq Names
        /\ losses' \in 0..MaxLosses /\ crashes' \in 0..MaxCrashes /\ freed' \subseteq Names
    BY <1>1, <1>2 DEF APITypeOK
  <2>2. /\ call' \in [Callers -> CallType \cup {NoCall}]
        /\ answer' \in [Callers -> Answers \cup {"none"}]
        /\ offered' \in [Callers -> Names \cup {NoName}]
        /\ took' \in [Callers -> BOOLEAN]
    BY <1>1, <1>2 DEF APITypeOK
  <2>3. \A c \in Callers :
            call'[c].op \in NamedRoutes \cup {"create"} => call'[c].name \in Names
    BY <1>1, <1>2, NoCallFacts DEF APITypeOK, NamedRoutes
  <2>4. /\ stray' \subseteq CallType
        /\ \A r \in stray' : r.op \in NamedRoutes \cup {"create"} => r.name \in Names
    BY <1>1, <1>3 DEF APITypeOK, Travels
  <2> QED
    BY <2>1, <2>2, <2>3, <2>4 DEF APITypeOK
<1>5. AgentTypeOK' /\ (\A e \in Entries : apc'[e] = "off")
  <2>1. /\ token' \in Tokens /\ starts' \in 0..MaxStarts
        /\ apc' = [e \in Entries |-> "off"]
        /\ inhand' = [v \in Visitors |-> FALSE]
    BY <1>1 DEF StopAgent, AgentTypeOK
  <2>2. /\ relay' \in [Visitors -> {"none", "over"}]
        /\ visitor' \in [Visitors -> {"none", "gone"}]
        /\ service' \in [Visitors -> {"none", "gone"}]
    BY DEF StopAgent
  <2> QED
    BY <2>1, <2>2, <1>2 DEF AgentTypeOK, AgentSteps
<1>6. CLITypeOK' /\ Resting'
  BY <1>1, <1>2 DEF CLITypeOK, Resting, clivars
<1>7. Told' /\ ExitTellsTruth'
  BY <1>1, <1>2, NoCallFacts DEF Told, ExitTellsTruth, clivars
<1>8. Held' /\ Apart'
  BY <1>1, <1>2, <1>5 DEF Held, Apart, Listening
<1> QED
  BY <1>4, <1>5, <1>6, <1>7, <1>8 DEF Inv, TypeOK

\* What a request that sets out changes.
LEMMA SendFacts ==
    ASSUME Inv, NEW c \in Callers, NEW op \in Routes.documented, NEW n \in Names \cup {NoName},
           NEW t \in Tokens, op \in NamedRoutes \cup {"create"} => n \in Names,
           Send(c, op, n, t)
    PROVE  /\ APITypeOK' /\ Told'
           /\ call'[c] /= NoCall /\ call'[c].op = op /\ call'[c].name = n
           /\ ~took'[c] /\ answer'[c] = "none"
           /\ \A d \in Callers \ {c} :
                call'[d] = call[d] /\ answer'[d] = answer[d] /\ took'[d] = took[d]
           /\ UNCHANGED <<registered, freed>>
<1> DEFINE r == [op |-> op, name |-> n, token |-> t]
<1>1. r \in CallType /\ r /= NoCall /\ r.op = op /\ r.name = n
  BY NoCallFacts DEF CallType
<1>2. APITypeOK /\ Told
  BY DEF Inv, TypeOK
<1>3. /\ call' = [call EXCEPT ![c] = r]
      /\ answer' = [answer EXCEPT ![c] = "none"]
      /\ offered' = [offered EXCEPT ![c] = NoName]
      /\ took' = [took EXCEPT ![c] = FALSE]
      /\ UNCHANGED <<server, up, registered, stray, losses, crashes, freed>>
  BY DEF Send
<1> HIDE DEF r
<1>4. APITypeOK'
  BY <1>1, <1>2, <1>3 DEF APITypeOK
<1>5. Told'
  BY <1>1, <1>2, <1>3 DEF Told, APITypeOK
<1> QED
  BY <1>1, <1>2, <1>3, <1>4, <1>5 DEF APITypeOK

\* What a caller that has its answer changes.
LEMMA CloseFacts ==
    ASSUME Inv, NEW c \in Callers, Close(c)
    PROVE  /\ APITypeOK' /\ Told'
           /\ call'[c] = NoCall
           /\ \A d \in Callers \ {c} : call'[d] = call[d]
           /\ UNCHANGED <<registered, freed, answer, took>>
<1>1. APITypeOK /\ Told
  BY DEF Inv, TypeOK
<1>2. /\ call' = [call EXCEPT ![c] = NoCall]
      /\ UNCHANGED <<server, up, registered, answer, offered, stray, losses, crashes, took,
                     freed>>
  BY DEF Close
<1>3. APITypeOK'
  BY <1>1, <1>2, NoCallFacts DEF APITypeOK, NamedRoutes
<1>4. Told'
  BY <1>1, <1>2, NoCallFacts DEF Told, APITypeOK
<1> QED
  BY <1>1, <1>2, <1>3, <1>4 DEF APITypeOK

LEMMA RegisterInv ==
    ASSUME Inv, NEW e \in Entries, Register(e), UNCHANGED clivars
    PROVE  Inv'
<1>1. /\ APITypeOK /\ AgentTypeOK /\ CLITypeOK
      /\ Told /\ Held /\ Apart /\ Resting /\ ExitTellsTruth
  BY DEF Inv, TypeOK
<1>2. /\ APITypeOK' /\ Told'
      /\ call'[e] /= NoCall /\ call'[e].op = "create" /\ call'[e].name = Name[e]
      /\ ~took'[e]
      /\ \A d \in Callers \ {e} :
            call'[d] = call[d] /\ answer'[d] = answer[d] /\ took'[d] = took[d]
      /\ UNCHANGED <<registered, freed>>
  BY <1>1, SendFacts DEF Register, Routes, AgentTypeOK
<1>3. /\ apc' = [apc EXCEPT ![e] = "waiting"]
      /\ UNCHANGED <<token, starts, relay, visitor, service, inhand>>
  BY DEF Register, At
<1>4. AgentTypeOK'
  BY <1>1, <1>2, <1>3 DEF AgentTypeOK, AgentSteps
<1>5. CLITypeOK' /\ Resting' /\ ExitTellsTruth'
  BY <1>1, <1>2 DEF CLITypeOK, Resting, ExitTellsTruth, clivars
<1>6. Held' /\ Apart'
  BY <1>1, <1>2, <1>3 DEF Held, Apart, Listening, AgentTypeOK
<1> QED
  BY <1>2, <1>4, <1>5, <1>6 DEF Inv, TypeOK

\* The answer to a registration: the entry goes on, with a port only after an
\* "ok".
LEMMA AnsweredInv ==
    ASSUME Inv, NEW e \in Entries, NEW to \in AgentSteps \ {"waiting", "listening"},
           to = "listen" => answer[e] = "ok",
           At(e, "waiting", to), Close(e), UNCHANGED clivars
    PROVE  Inv'
<1>1. /\ APITypeOK /\ AgentTypeOK /\ CLITypeOK
      /\ Told /\ Held /\ Apart /\ Resting /\ ExitTellsTruth
  BY DEF Inv, TypeOK
<1>2. /\ APITypeOK' /\ Told'
      /\ call'[e] = NoCall
      /\ \A d \in Callers \ {e} : call'[d] = call[d]
      /\ UNCHANGED <<registered, freed, answer, took>>
  BY CloseFacts
<1>3. /\ apc' = [apc EXCEPT ![e] = to]
      /\ UNCHANGED <<token, starts, relay, visitor, service, inhand>>
  BY DEF At
<1>4. AgentTypeOK'
  BY <1>1, <1>2, <1>3 DEF AgentTypeOK
<1>5. CLITypeOK' /\ Resting' /\ ExitTellsTruth'
  BY <1>1, <1>2 DEF CLITypeOK, Resting, ExitTellsTruth, clivars
<1>6. Held' /\ Apart'
  BY <1>1, <1>2, <1>3 DEF Held, Apart, Told, Listening, AgentTypeOK
<1> QED
  BY <1>2, <1>4, <1>5, <1>6 DEF Inv, TypeOK

LEMMA MovesInv ==
    ASSUME Inv, NEW e \in Entries, Wake(e) \/ Listen(e), UNCHANGED clivars
    PROVE  Inv'
<1>1. /\ APITypeOK /\ AgentTypeOK /\ CLITypeOK
      /\ Told /\ Held /\ Apart /\ Resting /\ ExitTellsTruth
  BY DEF Inv, TypeOK
<1>2. PICK to \in {"register", "listening", "no port"} :
            /\ apc[e] \in {"sleep", "listen"}
            /\ to = "listening" => apc[e] = "listen"
            /\ apc' = [apc EXCEPT ![e] = to]
            /\ UNCHANGED <<token, starts, relay, visitor, service, inhand>>
  BY DEF Wake, Listen, At
<1>3. UNCHANGED <<apivars, clivars>>
  BY DEF Wake, Listen
<1>4. AgentTypeOK'
  BY <1>1, <1>2, <1>3 DEF AgentTypeOK, AgentSteps, apivars
<1>5. Held' /\ Apart'
  BY <1>1, <1>2, <1>3 DEF Held, Apart, Listening, AgentTypeOK, apivars
<1>6. APITypeOK' /\ CLITypeOK' /\ Told' /\ Resting' /\ ExitTellsTruth'
  BY <1>1, <1>3 DEF APITypeOK, CLITypeOK, Told, Resting, ExitTellsTruth, apivars, clivars
<1> QED
  BY <1>4, <1>5, <1>6 DEF Inv, TypeOK

LEMMA EntryNextInv ==
    ASSUME Inv, EntryNext, UNCHANGED clivars
    PROVE  Inv'
<1>1. ASSUME NEW e \in Entries, Registered(e)
      PROVE  Inv'
  BY <1>1, AnsweredInv DEF Registered, AgentSteps
<1>2. ASSUME NEW e \in Entries, NotRegistered(e)
      PROVE  Inv'
  BY <1>2, AnsweredInv DEF NotRegistered, Failed, AgentSteps
<1> QED
  BY <1>1, <1>2, StartAgentInv, StopAgentInv, RegisterInv, MovesInv DEF EntryNext

\* The relays change no request and no command.
LEMMA RelayNextInv ==
    ASSUME Inv, RelayNext, UNCHANGED <<apivars, clivars>>
    PROVE  Inv'
<1>1. AgentTypeOK /\ UNCHANGED <<token, starts, apc>>
  BY DEF Inv, TypeOK, RelayNext, Visit, DialLocal, VisitorLeaves, ServiceLeaves, ServiceSends,
         VisitorTakes, EndRelay, EndRelayWhen
<1>2. /\ relay' \in [Visitors -> {"none", "dial", "copy", "over"}]
      /\ visitor' \in [Visitors -> {"none", "up", "gone"}]
      /\ service' \in [Visitors -> {"none", "up", "gone"}]
      /\ inhand' \in [Visitors -> BOOLEAN]
      /\ \A v \in Visitors : relay'[v] = "copy" => service'[v] /= "none"
  <2>1. ASSUME NEW v \in Visitors, Visit(v) \/ DialLocal(v) \/ VisitorLeaves(v)
        PROVE  <1>2!:
    BY <2>1, <1>1 DEF AgentTypeOK, Visit, DialLocal, VisitorLeaves
  <2>2. ASSUME NEW v \in Visitors, ServiceLeaves(v) \/ ServiceSends(v) \/ VisitorTakes(v)
        PROVE  <1>2!:
    BY <2>2, <1>1 DEF AgentTypeOK, ServiceLeaves, ServiceSends, VisitorTakes
  <2>3. ASSUME NEW v \in Visitors, EndRelay(v)
        PROVE  <1>2!:
    BY <2>3, <1>1 DEF AgentTypeOK, EndRelay, EndRelayWhen
  <2> QED
    BY <2>1, <2>2, <2>3 DEF RelayNext
<1>3. AgentTypeOK'
  BY <1>1, <1>2 DEF AgentTypeOK, apivars
<1>4. /\ APITypeOK' /\ CLITypeOK' /\ Told' /\ Resting' /\ ExitTellsTruth'
      /\ Held' /\ Apart'
  BY <1>1 DEF Inv, TypeOK, APITypeOK, CLITypeOK, Told, Resting, ExitTellsTruth, Held, Apart,
              Listening, apivars, clivars
<1> QED
  BY <1>3, <1>4 DEF Inv, TypeOK

-----------------------------------------------------------------------------
(* Steps of the commands.                                                  *)

LEMMA SayingFacts ==
    ASSUME NEW v \in Invocations, NEW code
    PROVE  Saying(v, code) \in {code, 2} /\ Success(v) \in {0, 2}
BY DEF Saying, Success

\* Without a word from the server no command reports one.
LEMMA LocalCodesFacts ==
    ASSUME NEW v \in Invocations, NEW code \in LocalCodes(v)
    PROVE  /\ code \in {0, 1, 2}
           /\ v.command \in Remote => code \in {1, 2}
<1>1. /\ v.command \in Remote \cup Local /\ Saying(v, 0) \in {0, 2} /\ Saying(v, 1) \in {1, 2}
  BY SayingFacts DEF InvocationType
<1> QED
  BY <1>1 DEF LocalCodes, NeedsToken, SkillCodes, Remote, Local

LEMMA RunInv ==
    ASSUME Inv, NEW c \in CLIs, NEW v \in Invocations, Run(c, v), UNCHANGED agentvars
    PROVE  Inv'
<1>1. PICK code \in {0, 1, 2} :
        /\ exit' = [exit EXCEPT ![c] = code]
        /\ v.command \in Remote => code \in {1, 2}
        /\ Asks(v) => code = 2
  BY LocalCodesFacts DEF Run
<1>2. /\ cpc[c] = "idle"
      /\ typed' = [typed EXCEPT ![c] = v]
      /\ commands' \in [CLIs -> 0..MaxCommands]
      /\ UNCHANGED <<cpc, apivars, agentvars>>
  BY DEF Run, Type, Inv, TypeOK, CLITypeOK
<1>3. CLITypeOK'
  BY <1>1, <1>2 DEF Inv, TypeOK, CLITypeOK, apivars
<1>4. ExitTellsTruth'
  BY <1>1, <1>2 DEF Inv, TypeOK, CLITypeOK, ExitTellsTruth, apivars
<1>5. APITypeOK' /\ AgentTypeOK' /\ Told' /\ Held' /\ Apart' /\ Resting'
  BY <1>2 DEF Inv, TypeOK, APITypeOK, AgentTypeOK, Told, Held, Apart, Resting, Listening,
              apivars, agentvars
<1> QED
  BY <1>3, <1>4, <1>5 DEF Inv, TypeOK

\* A request of a terminal leaves the entries and the other terminals alone.
LEMMA CommandSendInv ==
    ASSUME Inv, NEW c \in CLIs, NEW op \in Routes.documented, NEW n \in Names \cup {NoName},
           NEW t \in Tokens, op \in NamedRoutes \cup {"create"} => n \in Names,
           Send(c, op, n, t), NEW step \in {"naming", "asking"},
           step = "naming" => op = "generate-name",
           cpc' = [cpc EXCEPT ![c] = step], CLITypeOK',
           \A d \in CLIs \ {c} : typed'[d] = typed[d] /\ exit'[d] = exit[d],
           UNCHANGED agentvars
    PROVE  Inv'
<1>1. /\ APITypeOK /\ AgentTypeOK /\ CLITypeOK
      /\ Told /\ Held /\ Apart /\ Resting /\ ExitTellsTruth
  BY DEF Inv, TypeOK
<1>2. /\ APITypeOK' /\ Told'
      /\ call'[c] /= NoCall /\ call'[c].op = op
      /\ \A d \in Callers \ {c} :
            call'[d] = call[d] /\ answer'[d] = answer[d] /\ took'[d] = took[d]
      /\ UNCHANGED <<registered, freed>>
  BY SendFacts
<1>3. AgentTypeOK' /\ Held' /\ Apart'
  BY <1>1, <1>2 DEF AgentTypeOK, Held, Apart, Listening, agentvars
<1>4. Resting' /\ ExitTellsTruth'
  BY <1>1, <1>2 DEF Resting, ExitTellsTruth, CLITypeOK
<1> QED
  BY <1>2, <1>3, <1>4 DEF Inv, TypeOK

LEMMA AskInv ==
    ASSUME Inv, NEW c \in CLIs, NEW v \in Invocations, Ask(c, v), UNCHANGED agentvars
    PROVE  Inv'
<1>1. /\ v.command \in Remote /\ v.token \in Tokens /\ v.name \in Names \cup {NoName}
      /\ v.command \in NamedRoutes => v.name \in Names
  BY DEF Ask, Asks, InvocationType, Tokens
<1>2. /\ typed' = [typed EXCEPT ![c] = v]
      /\ exit' = [exit EXCEPT ![c] = -1]
      /\ commands' \in [CLIs -> 0..MaxCommands]
  BY DEF Ask, Type, Inv, TypeOK, CLITypeOK
<1>3. \A d \in CLIs \ {c} : typed'[d] = typed[d] /\ exit'[d] = exit[d]
  BY <1>2 DEF Inv, TypeOK, CLITypeOK
<1>4. ASSUME NEW op \in Routes.documented, NEW n \in Names \cup {NoName},
             op \in NamedRoutes \cup {"create"} => n \in Names,
             Send(c, op, n, v.token), NEW step \in {"naming", "asking"},
             cpc' = [cpc EXCEPT ![c] = step]
      PROVE  CLITypeOK'
  <2>1. call'[c] /= NoCall /\ \A d \in Callers \ {c} : call'[d] = call[d]
    BY <1>1, <1>4, SendFacts
  <2>2. /\ typed' \in [CLIs -> Invocations \cup {NoCommand}]
        /\ cpc' \in [CLIs -> {"idle", "naming", "asking"}]
        /\ exit' \in [CLIs -> {-1, 0, 1, 2}]
    BY <1>2, <1>4 DEF Inv, TypeOK, CLITypeOK
  <2>3. \A d \in CLIs : cpc'[d] /= "idle" => call'[d] /= NoCall /\ typed'[d].command \in Remote
    BY <1>1, <1>2, <1>4, <2>1 DEF Inv, TypeOK, CLITypeOK
  <2> QED
    BY <1>2, <2>2, <2>3 DEF CLITypeOK
<1>5. CASE v.command = "create" /\ v.name = NoName
  <2>1. /\ Send(c, "generate-name", NoName, v.token)
        /\ cpc' = [cpc EXCEPT ![c] = "naming"]
    BY <1>5 DEF Ask
  <2>2. "generate-name" \in Routes.documented
        /\ "generate-name" \notin NamedRoutes \cup {"create"}
    BY DEF Routes, NamedRoutes
  <2> QED
    BY <2>1, <2>2, <1>1, <1>3, <1>4, CommandSendInv
<1>6. CASE ~(v.command = "create" /\ v.name = NoName)
  <2>1. /\ Send(c, v.command, v.name, v.token)
        /\ cpc' = [cpc EXCEPT ![c] = "asking"]
    BY <1>6 DEF Ask
  <2>2. v.command \in Routes.documented
        /\ (v.command \in NamedRoutes \cup {"create"} => v.name \in Names)
    BY <1>1, <1>6 DEF Routes, Remote
  <2> QED
    BY <2>1, <2>2, <1>1, <1>3, <1>4, CommandSendInv
<1> QED
  BY <1>5, <1>6

LEMMA NamedInv ==
    ASSUME Inv, NEW c \in CLIs, Named(c), UNCHANGED agentvars
    PROVE  Inv'
<1>1. /\ cpc[c] = "naming" /\ answer[c] = "ok"
      /\ Send(c, "create", offered[c], call[c].token)
      /\ cpc' = [cpc EXCEPT ![c] = "asking"]
      /\ UNCHANGED <<typed, exit, commands>>
  BY DEF Named, NamedWhen
<1>2. call[c].op = "generate-name" /\ offered[c] \in Names /\ call[c].token \in Tokens
  BY <1>1 DEF Inv, TypeOK, APITypeOK, CLITypeOK, Resting, Told, CallType
<1>3. "create" \in Routes.documented
  BY DEF Routes
<1>4. CLITypeOK'
  <2>1. call'[c] /= NoCall /\ \A d \in Callers \ {c} : call'[d] = call[d]
    BY <1>1, <1>2, <1>3, SendFacts
  <2> QED
    BY <1>1, <2>1 DEF Inv, TypeOK, CLITypeOK
<1> QED
  BY <1>1, <1>2, <1>3, <1>4, CommandSendInv

\* A command that has its answer exits, and its code is true of that answer.
LEMMA ExitInv ==
    ASSUME Inv, NEW c \in CLIs, NEW code \in {0, 1, 2}, cpc[c] /= "idle", Exit(c, code),
           code = 0 /\ typed[c].command \in Remote \ {"logs", "health"} => answer[c] = "ok",
           code = 1 => answer[c] /= "ok",
           UNCHANGED agentvars
    PROVE  Inv'
<1>1. /\ APITypeOK /\ AgentTypeOK /\ CLITypeOK
      /\ Told /\ Held /\ Apart /\ Resting /\ ExitTellsTruth
  BY DEF Inv, TypeOK
<1>2. /\ APITypeOK' /\ Told' /\ call'[c] = NoCall
      /\ \A d \in Callers \ {c} : call'[d] = call[d]
      /\ UNCHANGED <<registered, freed, answer, took>>
  BY CloseFacts DEF Exit
<1>3. /\ exit' = [exit EXCEPT ![c] = code]
      /\ cpc' = [cpc EXCEPT ![c] = "idle"]
      /\ UNCHANGED <<typed, commands>>
  BY DEF Exit
<1>4. AgentTypeOK' /\ Held' /\ Apart'
  BY <1>1, <1>2 DEF AgentTypeOK, Held, Apart, Listening, agentvars
<1>5. CLITypeOK' /\ Resting'
  BY <1>1, <1>2, <1>3 DEF CLITypeOK, Resting
<1>6. ExitTellsTruth'
  BY <1>1, <1>2, <1>3 DEF ExitTellsTruth, Told, CLITypeOK
<1> QED
  BY <1>2, <1>4, <1>5, <1>6 DEF Inv, TypeOK

LEMMA NotNamedInv ==
    ASSUME Inv, NEW c \in CLIs, NotNamed(c), UNCHANGED agentvars
    PROVE  Inv'
<1>1. Saying(typed[c], 1) \in {1, 2}
  BY DEF Saying
<1> QED
  BY <1>1, ExitInv DEF NotNamed

LEMMA ReportInv ==
    ASSUME Inv, NEW c \in CLIs, Report(c), UNCHANGED agentvars
    PROVE  Inv'
<1> DEFINE code == Verdict(typed[c], answer[c])
<1>1. Success(typed[c]) \in {0, 2}
  BY DEF Success, Saying
<1>2. /\ code \in {0, 1, 2}
      /\ code = 0 /\ typed[c].command \in Remote \ {"logs", "health"} => answer[c] = "ok"
      /\ code = 1 => answer[c] /= "ok"
  BY <1>1 DEF Verdict, LogsVerdict, HealthVerdict
<1>3. cpc[c] /= "idle" /\ Exit(c, code)
  BY DEF Report
<1> QED
  BY <1>2, <1>3, ExitInv

LEMMA CLINextInv ==
    ASSUME Inv, CLINext, UNCHANGED agentvars
    PROVE  Inv'
BY RunInv, AskInv, NamedInv, NotNamedInv, ReportInv DEF CLINext

-----------------------------------------------------------------------------

LEMMA StepInv == Inv /\ [Next]_vars => Inv'
<1> SUFFICES ASSUME Inv, [Next]_vars PROVE Inv'
  OBVIOUS
<1>1. CASE UNCHANGED vars
  BY <1>1 DEF vars, Inv, TypeOK, APITypeOK, AgentTypeOK, CLITypeOK, Told, Held, Apart, Resting,
              ExitTellsTruth, Listening, apivars, agentvars, clivars
<1>2. CASE Next
  BY <1>2, APINextInv, EntryNextInv, RelayNextInv, CLINextInv DEF Next
<1> QED
  BY <1>1, <1>2

LEMMA InvHolds == Spec => []Inv
BY InitInv, StepInv, PTL DEF Spec

LEMMA InvImplies == Inv => TypeOK /\ ListensOnlyAccepted /\ ExitTellsTruth
BY DEF Inv, Held, Apart, ListensOnlyAccepted

\* In every state of every execution the variables have their types, whatever
\* the names, entries, terminals and commands are.
THEOREM RemoteTypeCorrect == Spec => []TypeOK
BY InvHolds, InvImplies, PTL

\* startHTTPTunnel of cmd/client/main.go goes on to its port only with a
\* registration that was carried out, and of two entries of one name only one
\* does, as long as the name was not freed: for any number of entries,
\* callers, losses and restarts.
THEOREM ListensCorrect == Spec => []ListensOnlyAccepted
BY InvHolds, InvImplies, PTL

\* The exit code of a command of cmd/cli/main.go is true of what the server
\* has done, 1 for every command and 0 for all but logs and health: for any
\* commands, terminals, losses and restarts.
THEOREM ExitCorrect == Spec => []ExitTellsTruth
BY InvHolds, InvImplies, PTL
=============================================================================
