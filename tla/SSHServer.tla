----------------------------- MODULE SSHServer -----------------------------
(***************************************************************************)
(* The SSH server of internal/ssh/server.go: the accept loop and, for each *)
(* connection, the goroutine that makes the handshake and the one of the   *)
(* session (handleSession, interactiveSession, handleCommand), between     *)
(* them the multiplexer of golang.org/x/crypto/ssh (external).             *)
(*                                                                         *)
(* The multiplexer is one goroutine for a connection.  It hands packets on *)
(* in the order in which they came: data to the buffer of the channel,     *)
(* requests to a Go channel of fixed size.  When that one is full it waits *)
(* with the packet in hand, and so does everything behind it.              *)
(*                                                                         *)
(* Output takes room in the window of the channel, which the client's      *)
(* reads give back with packets of their own (adjust), behind all others.  *)
(* The window stands for the socket as well, which a reader empties sooner.*)
(*                                                                         *)
(* A connection has one session.  A data packet is one line.  Which        *)
(* request or command a packet holds is settled when the session takes it. *)
(* The end is the close of the channel or of the connection; an EOF alone  *)
(* is left out.                                                            *)
(***************************************************************************)
EXTENDS Naturals, Sequences

CONSTANTS
    SSHConns,   \* connections a client may open, each of them once
    ReqCap,     \* requests the multiplexer queues (16 in the library)
    OutCap,     \* the window: output a channel takes from a client that does not read
    MaxPackets  \* bound on the requests and lines of a connection

ASSUME SSHAssumption ==
    ReqCap \in Nat \ {0} /\ OutCap \in Nat \ {0} /\ MaxPackets \in Nat

\* "option" stands for pty-req, env, window-change and the like.
SSHRequests == {"option", "shell", "exec"}
Lines       == {"exit", "other"}
Packets     == {"request", "line", "adjust", "end"}

VARIABLES
    sconn,      \* the client's end: unused, up, gone
    spc,        \* where the server's goroutine for the connection is
    npackets,   \* requests and lines the client has sent
    wire,       \* packets the multiplexer has not handed on
    reqs,       \* requests in the session's Go channel
    data,       \* lines in the channel's buffer
    ended,      \* the multiplexer has seen the end of the channel
    shut,       \* the server has closed the channel
    window,     \* room for output, as far as the server knows
    unseen      \* output the client has not read yet

sshvars == <<sconn, spc, npackets, wire, reqs, data, ended, shut, window, unseen>>

\* A connection waits to be accepted (queued) and for the handshake
\* (handshake); its session waits for a request (requests), for a line
\* (shell), to write a prompt with what comes before it (prompt) or the
\* output of an exec request (exec), or has returned (over).
SSHSteps == {"unused", "queued", "handshake", "requests", "shell", "prompt",
             "exec", "over"}

STypeOK ==
    /\ sconn \in [SSHConns -> {"unused", "up", "gone"}]
    /\ spc \in [SSHConns -> SSHSteps]
    /\ npackets \in [SSHConns -> 0..MaxPackets]
    /\ wire \in [SSHConns -> Seq(Packets)]
    /\ reqs \in [SSHConns -> 0..ReqCap]
    /\ data \in [SSHConns -> Nat]
    /\ ended \in [SSHConns -> BOOLEAN]
    /\ shut \in [SSHConns -> BOOLEAN]
    /\ window \in [SSHConns -> 0..OutCap]
    /\ unseen \in [SSHConns -> 0..OutCap]

SInit ==
    /\ sconn = [c \in SSHConns |-> "unused"]
    /\ spc = [c \in SSHConns |-> "unused"]
    /\ npackets = [c \in SSHConns |-> 0]
    /\ wire = [c \in SSHConns |-> <<>>]
    /\ reqs = [c \in SSHConns |-> 0]
    /\ data = [c \in SSHConns |-> 0]
    /\ ended = [c \in SSHConns |-> FALSE]
    /\ shut = [c \in SSHConns |-> FALSE]
    /\ window = [c \in SSHConns |-> OutCap]
    /\ unseen = [c \in SSHConns |-> 0]

InSession(c) == spc[c] \in {"requests", "shell", "prompt", "exec"}

\* The client has closed the session.
Closing(c) == ended[c] \/ \E k \in 1..Len(wire[c]) : wire[c][k] = "end"

\* The multiplexer holds a request for which the session's channel has no room.
Stuck(c) ==
    /\ wire[c] /= <<>>
    /\ Head(wire[c]) = "request"
    /\ reqs[c] = ReqCap

-----------------------------------------------------------------------------
(* The clients.                                                            *)

SSHConnect(c) ==
    /\ sconn[c] = "unused"
    /\ sconn' = [sconn EXCEPT ![c] = "up"]
    /\ spc' = [spc EXCEPT ![c] = "queued"]
    /\ UNCHANGED <<npackets, wire, reqs, data, ended, shut, window, unseen>>

SSHSend(c, m) ==
    /\ sconn[c] = "up"
    /\ InSession(c)
    /\ ~Closing(c)
    /\ npackets[c] < MaxPackets
    /\ npackets' = [npackets EXCEPT ![c] = @ + 1]
    /\ wire' = [wire EXCEPT ![c] = Append(@, m)]
    /\ UNCHANGED <<sconn, spc, reqs, data, ended, shut, window, unseen>>

\* The client reads, and gives the room back.
SSHTake(c) ==
    /\ sconn[c] = "up"
    /\ ~Closing(c)
    /\ unseen[c] > 0
    /\ unseen' = [unseen EXCEPT ![c] = @ - 1]
    /\ wire' = [wire EXCEPT ![c] = Append(@, "adjust")]
    /\ UNCHANGED <<sconn, spc, npackets, reqs, data, ended, shut, window>>

\* What reaches the server is cut after kept packets, and then the end comes.
GoAway(c, kept) ==
    /\ sconn[c] = "up"
    /\ sconn' = [sconn EXCEPT ![c] = "gone"]
    /\ wire' = [wire EXCEPT ![c] = Append(SubSeq(@, 1, kept), "end")]
    /\ unseen' = [unseen EXCEPT ![c] = 0]
    /\ UNCHANGED <<spc, npackets, reqs, data, ended, shut, window>>

\* The client ends the session, on its own or because the server has closed
\* the channel, and goes away.
SSHLeave(c) == GoAway(c, Len(wire[c]))

\* The connection is reset or lost: packets that were not read from it are
\* gone, but for the one in the multiplexer's hand.
SSHLost(c) ==
    \E kept \in 0..Len(wire[c]) : (Stuck(c) => kept > 0) /\ GoAway(c, kept)

-----------------------------------------------------------------------------
(* The accept loop goes on after an error, so errors that pass leave no    *)
(* trace; ServerLifecycle has the listener that is never closed.           *)

SSHAccept(c) ==
    /\ spc[c] = "queued"
    /\ spc' = [spc EXCEPT ![c] = "handshake"]
    /\ UNCHANGED <<sconn, npackets, wire, reqs, data, ended, shut, window, unseen>>

\* The password is one of api_keys, and the client opens a session.
SSHLogin(c) ==
    /\ spc[c] = "handshake"
    /\ sconn[c] = "up"
    /\ spc' = [spc EXCEPT ![c] = "requests"]
    /\ UNCHANGED <<sconn, npackets, wire, reqs, data, ended, shut, window, unseen>>

\* Another password; a client that says nothing is waited for.
SSHRefuse(c) ==
    /\ spc[c] = "handshake"
    /\ sconn[c] = "up"
    /\ spc' = [spc EXCEPT ![c] = "over"]
    /\ UNCHANGED <<sconn, npackets, wire, reqs, data, ended, shut, window, unseen>>

HandshakeFails(c) ==
    /\ spc[c] = "handshake"
    /\ sconn[c] = "gone"
    /\ spc' = [spc EXCEPT ![c] = "over"]
    /\ UNCHANGED <<sconn, npackets, wire, reqs, data, ended, shut, window, unseen>>

-----------------------------------------------------------------------------
(* The multiplexer.                                                        *)

HandOn(c) ==
    /\ InSession(c)
    /\ wire[c] /= <<>>
    /\ ~Stuck(c)
    /\ LET m == Head(wire[c])
       IN  /\ reqs' = [reqs EXCEPT ![c] = IF m = "request" THEN @ + 1 ELSE @]
           /\ data' = [data EXCEPT ![c] = IF m = "line" THEN @ + 1 ELSE @]
           /\ window' = [window EXCEPT ![c] = IF m = "adjust" THEN @ + 1 ELSE @]
           /\ ended' = [ended EXCEPT ![c] = @ \/ m = "end"]
    /\ wire' = [wire EXCEPT ![c] = Tail(@)]
    /\ UNCHANGED <<sconn, spc, npackets, shut, unseen>>

\* A client that is still there answers the close of the channel.
AckClose(c) ==
    /\ shut[c]
    /\ sconn[c] = "up"
    /\ ~Closing(c)
    /\ wire' = [wire EXCEPT ![c] = Append(@, "end")]
    /\ UNCHANGED <<sconn, spc, npackets, reqs, data, ended, shut, window, unseen>>

-----------------------------------------------------------------------------
(* handleSession.                                                          *)

\* channel.Write waits for room in the window, also when the server has closed
\* the channel or the client is gone without the multiplexer knowing; then the
\* room is taken all the same.  It fails at once when the multiplexer has seen
\* the end.  Nobody looks at the error.
Writes(c) ==
    \/ ended[c] /\ UNCHANGED <<window, unseen>>
    \/ /\ ~ended[c]
       /\ window[c] > 0
       /\ window' = [window EXCEPT ![c] = @ - 1]
       /\ unseen' = [unseen EXCEPT ![c] = IF sconn[c] = "up" /\ ~shut[c] THEN @ + 1 ELSE @]

\* A shell gets its exit status, then the number of tunnels and a prompt;
\* neither shell nor exec are replied to.  An exec's payload has its length in
\* front: no command of this server is recognised in it.
NextRequestWhen(c, r, ready) ==
    /\ ready
    /\ reqs[c] > 0
    /\ reqs' = [reqs EXCEPT ![c] = @ - 1]
    /\ spc' = [spc EXCEPT ![c] = CASE r = "option" -> @
                                   [] r = "shell"  -> "prompt"
                                   [] r = "exec"   -> "exec"]
    /\ UNCHANGED <<sconn, npackets, wire, data, ended, shut, window, unseen>>

\* Mutant: requests are taken from a goroutine of their own.
NextRequestAnyTime(c, r) == NextRequestWhen(c, r, InSession(c))

\* The next request.  A shell reads none until it ends.
NextRequest(c, r) == NextRequestWhen(c, r, spc[c] = "requests")

ExecCommand(c) ==
    /\ spc[c] = "exec"
    /\ Writes(c)
    /\ spc' = [spc EXCEPT ![c] = "requests"]
    /\ UNCHANGED <<sconn, npackets, wire, reqs, data, ended, shut>>

\* The requests channel is closed and empty.
SessionEnds(c) ==
    /\ spc[c] = "requests"
    /\ reqs[c] = 0
    /\ ended[c]
    /\ spc' = [spc EXCEPT ![c] = "over"]
    /\ shut' = [shut EXCEPT ![c] = TRUE]
    /\ UNCHANGED <<sconn, npackets, wire, reqs, data, ended, window, unseen>>

\* interactiveSession: the welcome text or the output of a command, and the
\* next prompt.
WritePrompt(c) ==
    /\ spc[c] = "prompt"
    /\ Writes(c)
    /\ spc' = [spc EXCEPT ![c] = "shell"]
    /\ UNCHANGED <<sconn, npackets, wire, reqs, data, ended, shut>>

\* handleCommand: exit closes the channel, and the shell goes on reading until
\* the client has closed its end too.
HandleCommand(c, cmd) == shut' = [shut EXCEPT ![c] = @ \/ cmd = "exit"]

\* One Read is one command, whatever it returns; lines that came together are
\* none of the commands.
ShellRead(c) ==
    /\ spc[c] = "shell"
    /\ \E n \in 1..data[c], line \in Lines :
        /\ data' = [data EXCEPT ![c] = @ - n]
        /\ HandleCommand(c, IF n = 1 THEN line ELSE "other")
    /\ spc' = [spc EXCEPT ![c] = "prompt"]
    /\ UNCHANGED <<sconn, npackets, wire, reqs, ended, window, unseen>>

ShellReadFails(c) ==
    /\ spc[c] = "shell"
    /\ data[c] = 0
    /\ ended[c]
    /\ spc' = [spc EXCEPT ![c] = "requests"]
    /\ UNCHANGED <<sconn, npackets, wire, reqs, data, ended, shut, window, unseen>>

-----------------------------------------------------------------------------

SSHStep(c) ==
    \/ HandshakeFails(c)
    \/ \E r \in SSHRequests : NextRequest(c, r)
    \/ ExecCommand(c) \/ SessionEnds(c)
    \/ WritePrompt(c) \/ ShellRead(c) \/ ShellReadFails(c)

SSHNext ==
    \E c \in SSHConns :
        \/ SSHConnect(c)
        \/ \E m \in {"request", "line"} : SSHSend(c, m)
        \/ SSHTake(c)
        \/ SSHLeave(c)
        \/ SSHLost(c)
        \/ SSHAccept(c)
        \/ SSHLogin(c)
        \/ SSHRefuse(c)
        \/ HandshakeFails(c)
        \/ HandOn(c)
        \/ AckClose(c)
        \/ \E r \in SSHRequests : NextRequest(c, r)
        \/ ExecCommand(c)
        \/ SessionEnds(c)
        \/ WritePrompt(c)
        \/ ShellRead(c)
        \/ ShellReadFails(c)
=============================================================================
