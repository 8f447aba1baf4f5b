------------------------ MODULE WebSocketProxyProofs ------------------------
(***************************************************************************)
(* Proofs about WebSocketProxy, for any number of messages and any         *)
(* capacity.  A stream is read as one sequence, the Flow from the far end  *)
(* back to the sender: every step of a message within it leaves the        *)
(* sequence as it is, and what has left the gateway remains a beginning of *)
(* the numbers even when the rest is lost.                                 *)
(***************************************************************************)
EXTENDS WebSocketProxy, SequenceTheorems, TLAPS

USE MessagesAssumption, CapacityAssumption

-----------------------------------------------------------------------------
(* Sequences.                                                              *)

LEMMA NumberedFacts ==
    ASSUME NEW n \in Nat
    PROVE  /\ Numbered(n) \in Seq(Nat) /\ Len(Numbered(n)) = n
           /\ \A k \in 1..n : Numbered(n)[k] = k
           /\ Append(Numbered(n), n + 1) = Numbered(n + 1)
<1>1. \A m \in Nat : /\ Numbered(m) \in Seq(Nat) /\ Len(Numbered(m)) = m
                     /\ \A k \in 1..m : Numbered(m)[k] = k
  BY DEF Numbered
<1>2. Append(Numbered(n), n + 1) = Numbered(n + 1)
  <2> DEFINE s == Append(Numbered(n), n + 1)
             t == Numbered(n + 1)
  <2>1. s \in Seq(Nat) /\ t \in Seq(Nat) /\ Len(s) = n + 1 /\ Len(t) = n + 1
    BY <1>1, AppendProperties
  <2>2. ASSUME NEW k \in 1..Len(s)
        PROVE  s[k] = t[k]
    <3>1. k \in 1..n \/ k = n + 1
      BY <2>1
    <3> QED
      BY <3>1, <1>1, AppendProperties
  <2> HIDE DEF s, t
  <2>3. s = t
    BY <2>1, <2>2, SeqEqual
  <2> QED
    BY <2>3 DEF s, t
<1> QED
  BY <1>1, <1>2

\* The first element of b can be read as the last one of a.
LEMMA MoveHead ==
    ASSUME NEW a \in Seq(Nat), NEW b \in Seq(Nat), b /= <<>>
    PROVE  /\ Head(b) \in Nat /\ Tail(b) \in Seq(Nat) /\ Len(Tail(b)) = Len(b) - 1
           /\ Append(a, Head(b)) \o Tail(b) = a \o b
           /\ (a \o <<Head(b)>>) \o Tail(b) = a \o b
<1>1. /\ Head(b) \in Nat /\ Tail(b) \in Seq(Nat) /\ Len(Tail(b)) = Len(b) - 1
      /\ Head(b) = b[1]
      /\ \A k \in 1..Len(Tail(b)) : Tail(b)[k] = b[k + 1]
  BY HeadTailProperties
<1>2. <<Head(b)>> \in Seq(Nat) /\ Append(a, Head(b)) = a \o <<Head(b)>>
  BY <1>1, AppendIsConcat
<1>3. <<Head(b)>> \o Tail(b) = b
  <2> DEFINE s == <<Head(b)>> \o Tail(b)
  <2>1. /\ s \in Seq(Nat) /\ Len(s) = 1 + Len(Tail(b))
        /\ \A k \in 1..(1 + Len(Tail(b))) :
                s[k] = IF k <= 1 THEN <<Head(b)>>[k] ELSE Tail(b)[k - 1]
    BY <1>1, <1>2, ConcatProperties
  <2>2. Len(b) \in Nat /\ Len(s) = Len(b)
    BY <1>1, <2>1
  <2>3. ASSUME NEW k \in 1..Len(s)
        PROVE  s[k] = b[k]
    <3>1. CASE k = 1
      BY <3>1, <2>1, <2>2, <1>1
    <3>2. CASE k /= 1
      BY <3>2, <2>1, <2>2, <1>1
    <3> QED
      BY <3>1, <3>2
  <2> HIDE DEF s
  <2>4. s = b
    BY <2>1, <2>2, <2>3, SeqEqual
  <2> QED
    BY <2>4 DEF s
<1>4. (a \o <<Head(b)>>) \o Tail(b) = a \o (<<Head(b)>> \o Tail(b))
  BY <1>1, <1>2, ConcatAssociative
<1> QED
  BY <1>1, <1>2, <1>3, <1>4

\* A beginning of the numbers is the numbers up to its end.
LEMMA Prefix ==
    ASSUME NEW a \in Seq(Nat), NEW b \in Seq(Nat), NEW n \in Nat, a \o b = Numbered(n)
    PROVE  a = Numbered(Len(a))
<1>1. /\ Len(a) \in Nat /\ Len(b) \in Nat /\ Len(a) + Len(b) = n
      /\ \A k \in 1..(Len(a) + Len(b)) : (a \o b)[k] = IF k <= Len(a) THEN a[k] ELSE b[k - Len(a)]
  <2>1. /\ Len(a) \in Nat /\ Len(b) \in Nat /\ Len(a \o b) = Len(a) + Len(b)
        /\ \A k \in 1..(Len(a) + Len(b)) :
                (a \o b)[k] = IF k <= Len(a) THEN a[k] ELSE b[k - Len(a)]
    BY ConcatProperties
  <2>2. Len(a \o b) = n
    BY NumberedFacts
  <2> QED
    BY <2>1, <2>2
<1>2. \A k \in 1..Len(a) : a[k] = k
  <2>1. ASSUME NEW k \in 1..Len(a)
        PROVE  a[k] = k
    <3>1. k \in 1..(Len(a) + Len(b)) /\ k \in 1..n /\ k <= Len(a)
      BY <1>1
    <3>2. (a \o b)[k] = a[k]
      BY <3>1, <1>1
    <3>3. Numbered(n)[k] = k
      BY <3>1, NumberedFacts
    <3> QED
      BY <3>2, <3>3
  <2> QED
    BY <2>1
<1>3. /\ Numbered(Len(a)) \in Seq(Nat) /\ Len(Numbered(Len(a))) = Len(a)
      /\ \A k \in 1..Len(a) : Numbered(Len(a))[k] = k
  BY <1>1, NumberedFacts
<1> QED
  BY <1>2, <1>3, SeqEqual

LEMMA Associative ==
    ASSUME NEW a \in Seq(Nat), NEW b \in Seq(Nat), NEW c \in Seq(Nat)
    PROVE  a \o (b \o c) = (a \o b) \o c
BY ConcatAssociative

LEMMA AppendConcat ==
    ASSUME NEW a \in Seq(Nat), NEW b \in Seq(Nat), NEW e \in Nat
    PROVE  a \o Append(b, e) = Append(a \o b, e)
<1>1. a \o b \in Seq(Nat) /\ <<e>> \in Seq(Nat)
  BY ConcatProperties
<1>2. Append(b, e) = b \o <<e>> /\ Append(a \o b, e) = (a \o b) \o <<e>>
  BY <1>1, AppendIsConcat
<1> QED
  BY <1>1, <1>2, ConcatAssociative

-----------------------------------------------------------------------------
(* Streams.                                                                *)

\* What has left the gateway is a beginning of what was sent.
Delivered(s) == s.got \o s.buffer = Numbered(Len(s.got \o s.buffer))

\* All that was sent is on its way.
Whole(s) == Flow(s) = Numbered(s.sent)

\* The sender adds the next message to s.
More(s) == [s EXCEPT !.sent = @ + 1, !.queue = Append(@, s.sent + 1)]

LEMMA SendFacts ==
    ASSUME NEW s \in Stream, s.sent < MaxMessages
    PROVE  /\ More(s) \in Stream
           /\ More(s).buffer = s.buffer /\ More(s).held = s.held
           /\ Delivered(s) => Delivered(More(s))
           /\ Whole(s) => Whole(More(s))
<1> DEFINE t == More(s)
<1>1. /\ s.sent \in Nat /\ s.queue \in Seq(Nat) /\ s.held \in Seq(Nat)
      /\ s.buffer \in Seq(Nat) /\ s.got \in Seq(Nat)
  BY DEF Stream, Messages
<1>2. /\ t.sent = s.sent + 1 /\ t.queue = Append(s.queue, s.sent + 1)
      /\ t.buffer = s.buffer /\ t.held = s.held /\ t.got = s.got
  BY DEF Stream, More
<1>3. t \in Stream
  <2>1. Append(s.queue, s.sent + 1) \in Seq(Nat)
    BY <1>1, AppendProperties
  <2>2. s.sent + 1 \in 0..MaxMessages
    BY <1>1
  <2> QED
    BY <2>1, <2>2 DEF Stream, Messages, More
<1> HIDE DEF t
<1>4. ASSUME Whole(s) PROVE Whole(t)
  <2> DEFINE a == s.got \o s.buffer \o s.held
  <2>1. a \in Seq(Nat)
    BY <1>1, ConcatProperties
  <2>2. a \o s.queue = Numbered(s.sent)
    BY <1>4 DEF Whole, Flow
  <2> HIDE DEF a
  <2>3. a \o Append(s.queue, s.sent + 1) = Append(a \o s.queue, s.sent + 1)
    <3>1. s.sent + 1 \in Nat
      BY <1>1
    <3> QED
      BY <3>1, <2>1, <1>1, AppendConcat
  <2>4. a \o Append(s.queue, s.sent + 1) = Numbered(s.sent + 1)
    <3>1. Append(Numbered(s.sent), s.sent + 1) = Numbered(s.sent + 1)
      BY <1>1, NumberedFacts
    <3> QED
      BY <3>1, <2>2, <2>3
  <2> QED
    BY <2>4, <1>2 DEF Whole, Flow, a
<1> QED
  BY <1>2, <1>3, <1>4 DEF Delivered, t

LEMMA TakeFacts ==
    ASSUME NEW s \in Stream, s.buffer /= <<>>
    PROVE  /\ Take(s) \in Stream
           /\ Len(Take(s).buffer) = Len(s.buffer) - 1
           /\ Take(s).held = s.held
           /\ Delivered(s) => Delivered(Take(s))
           /\ Whole(s) => Whole(Take(s))
<1>1. s.buffer \in Seq(Nat) /\ s.got \in Seq(Nat)
  BY DEF Stream, Messages
<1>2. /\ Head(s.buffer) \in Nat /\ Tail(s.buffer) \in Seq(Nat)
      /\ Len(Tail(s.buffer)) = Len(s.buffer) - 1
      /\ Append(s.got, Head(s.buffer)) \o Tail(s.buffer) = s.got \o s.buffer
  BY <1>1, MoveHead
<1>3. /\ Take(s).sent = s.sent /\ Take(s).queue = s.queue /\ Take(s).held = s.held
      /\ Take(s).buffer = Tail(s.buffer)
      /\ Take(s).got = Append(s.got, Head(s.buffer))
  BY DEF Take, Stream
<1>4. Take(s) \in Stream
  <2>1. Append(s.got, Head(s.buffer)) \in Seq(Nat)
    BY <1>1, <1>2, AppendProperties
  <2> QED
    BY <2>1, <1>2 DEF Take, Stream, Messages
<1> QED
  BY <1>2, <1>3, <1>4 DEF Delivered, Whole, Flow

LEMMA PickFacts ==
    ASSUME NEW s \in Stream, s.queue /= <<>>, s.held = <<>>
    PROVE  /\ Pick(s) \in Stream
           /\ Pick(s).buffer = s.buffer
           /\ Len(Pick(s).held) = 1
           /\ Delivered(s) => Delivered(Pick(s))
           /\ Whole(s) => Whole(Pick(s))
<1> DEFINE a == s.got \o s.buffer
<1>1. s.queue \in Seq(Nat) /\ a \in Seq(Nat)
  BY ConcatProperties DEF Stream, Messages
<1>2. /\ Head(s.queue) \in Nat /\ Tail(s.queue) \in Seq(Nat)
      /\ (a \o <<Head(s.queue)>>) \o Tail(s.queue) = a \o s.queue
      /\ a \o <<>> = a
  <2> HIDE DEF a
  <2> QED
    BY <1>1, MoveHead, ConcatEmptySeq
<1>3. /\ Pick(s).sent = s.sent /\ Pick(s).buffer = s.buffer /\ Pick(s).got = s.got
      /\ Pick(s).held = <<Head(s.queue)>> /\ Pick(s).queue = Tail(s.queue)
  BY DEF Pick, Stream
<1>4. Pick(s) \in Stream
  <2>1. <<Head(s.queue)>> \in Seq(Nat)
    BY <1>2
  <2> QED
    BY <2>1, <1>2 DEF Pick, Stream, Messages
<1>5. Whole(s) => Whole(Pick(s))
  BY <1>2, <1>3 DEF Whole, Flow
<1> QED
  BY <1>3, <1>4, <1>5 DEF Delivered

\* A message is put in the far end's buffer, or lost with the connection.
LEMMA PutFacts ==
    ASSUME NEW s \in Stream, Len(s.held) = 1, NEW far \in EndStates
    PROVE  /\ Put(s, far) \in Stream
           /\ Put(s, far).held = <<>>
           /\ far = "open" => Len(Put(s, far).buffer) = Len(s.buffer) + 1
           /\ far = "open" /\ Whole(s) => Delivered(Put(s, far)) /\ Whole(Put(s, far))
           /\ far = "closed" => Put(s, far).buffer = s.buffer
           /\ far = "closed" /\ Delivered(s) => Delivered(Put(s, far))
<1>1. /\ s.sent \in Nat /\ s.queue \in Seq(Nat) /\ s.held \in Seq(Nat)
      /\ s.buffer \in Seq(Nat) /\ s.got \in Seq(Nat)
  BY DEF Stream, Messages
<1>2. <<>> \in Seq(Nat) /\ s.buffer \o s.held \in Seq(Nat)
      /\ Len(s.buffer \o s.held) = Len(s.buffer) + 1
  <2>1. /\ s.buffer \o s.held \in Seq(Nat)
        /\ Len(s.buffer \o s.held) = Len(s.buffer) + Len(s.held)
    BY <1>1, ConcatProperties
  <2> QED
    BY <2>1
<1>3. /\ Put(s, far).sent = s.sent /\ Put(s, far).queue = s.queue /\ Put(s, far).got = s.got
      /\ Put(s, far).held = <<>>
      /\ Put(s, far).buffer = IF far = "open" THEN s.buffer \o s.held ELSE s.buffer
  BY DEF Put, Stream
<1>4. Put(s, far) \in Stream
  BY <1>1, <1>2 DEF Put, Stream, Messages
<1>5. ASSUME far = "open", Whole(s)
      PROVE  Delivered(Put(s, far)) /\ Whole(Put(s, far))
  <2> DEFINE a == s.got \o (s.buffer \o s.held)
  <2>1. a \in Seq(Nat) /\ a = s.got \o s.buffer \o s.held
    <3>1. a \in Seq(Nat)
      BY <1>1, <1>2, ConcatProperties
    <3>2. a = s.got \o s.buffer \o s.held
      BY <1>1, Associative
    <3> QED
      BY <3>1, <3>2
  <2>2. a \o s.queue = Numbered(s.sent)
    BY <1>5, <2>1 DEF Whole, Flow
  <2>3. Put(s, far).got \o Put(s, far).buffer = a
    BY <1>3, <1>5
  <2> HIDE DEF a
  <2>4. a = Numbered(Len(a)) /\ a \o <<>> = a
    BY <2>1, <2>2, <1>1, Prefix, ConcatEmptySeq
  <2> QED
    BY <2>2, <2>3, <2>4, <1>3 DEF Delivered, Whole, Flow
<1> QED
  BY <1>2, <1>3, <1>4, <1>5 DEF Delivered, EndStates

-----------------------------------------------------------------------------
(* The session.                                                            *)

\* What there is where the handler is.
Places ==
    /\ handler = "lookup" => conn = "none" /\ local = "none" /\ reader = "none"
    /\ handler = "dial" => conn = "open" /\ local = "none" /\ reader = "none"
    /\ handler \in {"read", "write"} => conn = "open" /\ local = "open"

\* A goroutine that writes has one message in its hands, others have none.
Hands ==
    /\ IF handler = "write" THEN Len(down.held) = 1 ELSE down.held = <<>>
    /\ IF reader = "write" THEN Len(up.held) = 1 ELSE up.held = <<>>

Flows ==
    /\ Delivered(up) /\ Delivered(down)
    /\ service = "open" /\ local /= "closed" => Whole(up)
    /\ client = "open" /\ conn /= "closed" => Whole(down)

Inv == TypeOK /\ Places /\ Hands /\ Flows

LEMMA InitInv == Init => Inv
<1> SUFFICES ASSUME Init PROVE Inv
  OBVIOUS
<1>1. <<>> \in Seq(Nat) /\ Len(<<>>) = 0 /\ <<>> \o <<>> = <<>>
  BY ConcatEmptySeq
<1>2. Numbered(0) = <<>>
  BY NumberedFacts, EmptySeq
<1>3. Quiet \in Stream /\ Delivered(Quiet) /\ Whole(Quiet)
  BY <1>1, <1>2 DEF Quiet, Stream, Messages, Delivered, Whole, Flow
<1>4. TypeOK
  BY <1>1, <1>3 DEF Init, TypeOK, HandlerSteps, ReaderSteps, EndStates, SocketStates, Quiet
<1>5. Places /\ Hands /\ Flows
  BY <1>3 DEF Init, Places, Hands, Flows, Quiet
<1> QED
  BY <1>4, <1>5 DEF Inv

\* A step of the handler that moves no message.
LEMMA HandlerMoves ==
    ASSUME Inv, Refuse \/ Upgrade \/ DialFails \/ Dial \/ ReadLocalFails
    PROVE  Inv'
<1>1. UNCHANGED <<client, service, up, down>>
  BY DEF Refuse, Upgrade, DialFails, Dial, ReadLocalFails, ends
<1>2. /\ handler' \in HandlerSteps /\ reader' \in ReaderSteps
      /\ conn' \in SocketStates /\ local' \in SocketStates
      /\ handler /= "write" /\ handler' /= "write"
      /\ reader' = reader \/ (reader' = "read" /\ handler = "dial")
  BY DEF Refuse, Upgrade, DialFails, Dial, ReadLocalFails, Leave, Inv, TypeOK, sockets,
         HandlerSteps, ReaderSteps, SocketStates
<1>3. /\ local' /= "closed" => local /= "closed"
      /\ conn' /= "closed" => conn /= "closed"
  BY DEF Refuse, Upgrade, DialFails, Dial, ReadLocalFails, Leave, Inv, Places, sockets
<1>4. Places'
  BY DEF Refuse, Upgrade, DialFails, Dial, ReadLocalFails, Leave, Inv, Places, sockets
<1>5. TypeOK'
  BY <1>1, <1>2 DEF Inv, TypeOK
<1>6. Flows'
  BY <1>1, <1>3 DEF Inv, Flows, Delivered, Whole, Flow
<1>7. up.held = <<>> \/ reader = "write"
  BY DEF Inv, Hands
<1>8. Hands'
  <2>1. reader = "write" => reader' = "write"
    BY DEF Refuse, Upgrade, DialFails, Dial, ReadLocalFails, Inv, Places
  <2> QED
    BY <2>1, <1>1, <1>2, <1>7 DEF Inv, Hands
<1> QED
  BY <1>4, <1>5, <1>6, <1>8 DEF Inv

LEMMA ReadLocalInv == Inv /\ ReadLocal => Inv'
<1> SUFFICES ASSUME Inv, ReadLocal PROVE Inv'
  OBVIOUS
<1>1. /\ handler = "read" /\ handler' = "write" /\ down' = Pick(down)
      /\ UNCHANGED <<reader, client, service, conn, local, up>>
      /\ down.queue /= <<>> /\ down.held = <<>> /\ down \in Stream
  BY DEF ReadLocal, ends, sockets, Inv, TypeOK, Hands
<1>2. /\ down' \in Stream /\ down'.buffer = down.buffer /\ Len(down'.held) = 1
      /\ Delivered(down) => Delivered(down')
      /\ Whole(down) => Whole(down')
  BY <1>1, PickFacts
<1>3. TypeOK' /\ Places' /\ Hands'
  BY <1>1, <1>2 DEF Inv, TypeOK, Places, Hands, HandlerSteps
<1>4. Flows'
  BY <1>1, <1>2 DEF Inv, Flows, Delivered, Whole, Flow
<1> QED
  BY <1>3, <1>4 DEF Inv

LEMMA WriteClientInv == Inv /\ WriteClient => Inv'
<1> SUFFICES ASSUME Inv, WriteClient PROVE Inv'
  OBVIOUS
<1>1. /\ handler = "write" /\ handler' = "read" /\ down' = Put(down, client)
      /\ UNCHANGED <<reader, client, service, conn, local, up>>
      /\ Len(down.held) = 1 /\ down \in Stream /\ client \in EndStates /\ conn = "open"
      /\ client = "closed" \/ Len(down.buffer) < Capacity
  BY DEF WriteClient, CanPut, ends, sockets, Inv, TypeOK, Hands, Places
<1>2. /\ down' \in Stream /\ down'.held = <<>>
      /\ client = "open" => Len(down'.buffer) = Len(down.buffer) + 1
      /\ client = "open" /\ Whole(down) => Delivered(down') /\ Whole(down')
      /\ client = "closed" => down'.buffer = down.buffer
      /\ client = "closed" /\ Delivered(down) => Delivered(down')
  BY <1>1, PutFacts
<1>3. Len(down'.buffer) <= Capacity
  <2>1. Len(down.buffer) \in Nat /\ Len(down.buffer) <= Capacity
    BY DEF Inv, TypeOK, Stream, Messages
  <2> QED
    BY <2>1, <1>1, <1>2 DEF EndStates
<1>4. TypeOK' /\ Places' /\ Hands'
  BY <1>1, <1>2, <1>3 DEF Inv, TypeOK, Places, Hands, HandlerSteps
<1>5. Flows'
  BY <1>1, <1>2 DEF Inv, Flows, Delivered, Whole, Flow, EndStates
<1> QED
  BY <1>4, <1>5 DEF Inv

LEMMA ReadMessageInv == Inv /\ ReadMessage => Inv'
<1> SUFFICES ASSUME Inv, ReadMessage PROVE Inv'
  OBVIOUS
<1>1. /\ reader = "read" /\ reader' = "write" /\ up' = Pick(up)
      /\ UNCHANGED <<handler, client, service, conn, local, down>>
      /\ up.queue /= <<>> /\ up.held = <<>> /\ up \in Stream
  BY DEF ReadMessage, ends, sockets, Inv, TypeOK, Hands
<1>2. /\ up' \in Stream /\ up'.buffer = up.buffer /\ Len(up'.held) = 1
      /\ Delivered(up) => Delivered(up')
      /\ Whole(up) => Whole(up')
  BY <1>1, PickFacts
<1>3. TypeOK' /\ Places' /\ Hands'
  BY <1>1, <1>2 DEF Inv, TypeOK, Places, Hands, ReaderSteps
<1>4. Flows'
  BY <1>1, <1>2 DEF Inv, Flows, Delivered, Whole, Flow
<1> QED
  BY <1>3, <1>4 DEF Inv

LEMMA ReadMessageFailsInv == Inv /\ ReadMessageFails => Inv'
<1> SUFFICES ASSUME Inv, ReadMessageFails PROVE Inv'
  OBVIOUS
<1>1. /\ reader = "read" /\ reader' = "done"
      /\ UNCHANGED <<handler, client, service, conn, local, up, down>>
  BY DEF ReadMessageFails, ends, sockets
<1>2. TypeOK' /\ Places' /\ Hands'
  BY <1>1 DEF Inv, TypeOK, Places, Hands, ReaderSteps
<1>3. Flows'
  BY <1>1 DEF Inv, Flows, Delivered, Whole, Flow
<1> QED
  BY <1>2, <1>3 DEF Inv

LEMMA WriteLocalInv == Inv /\ WriteLocal => Inv'
<1> SUFFICES ASSUME Inv, WriteLocal PROVE Inv'
  OBVIOUS
<1> DEFINE far == IF local = "closed" THEN "closed" ELSE service
<1>1. /\ reader = "write" /\ reader' = "read" /\ up' = Put(up, far)
      /\ UNCHANGED <<handler, client, service, conn, local, down>>
      /\ Len(up.held) = 1 /\ up \in Stream /\ far \in EndStates
      /\ far = "closed" \/ Len(up.buffer) < Capacity
  BY DEF WriteLocal, CanPut, ends, sockets, Inv, TypeOK, Hands, EndStates
<1>2. far = "open" => service = "open" /\ local /= "closed"
  OBVIOUS
<1>3. service = "open" /\ local /= "closed" => far = "open"
  OBVIOUS
<1> HIDE DEF far
<1>4. /\ up' \in Stream /\ up'.held = <<>>
      /\ far = "open" => Len(up'.buffer) = Len(up.buffer) + 1
      /\ far = "open" /\ Whole(up) => Delivered(up') /\ Whole(up')
      /\ far = "closed" => up'.buffer = up.buffer
      /\ far = "closed" /\ Delivered(up) => Delivered(up')
  BY <1>1, PutFacts
<1>5. Len(up'.buffer) <= Capacity
  <2>1. Len(up.buffer) \in Nat /\ Len(up.buffer) <= Capacity
    BY DEF Inv, TypeOK, Stream, Messages
  <2> QED
    BY <2>1, <1>1, <1>4 DEF EndStates
<1>6. TypeOK' /\ Places' /\ Hands'
  BY <1>1, <1>4, <1>5 DEF Inv, TypeOK, Places, Hands, ReaderSteps
<1>7. Flows'
  BY <1>1, <1>2, <1>3, <1>4 DEF Inv, Flows, Delivered, Whole, Flow, EndStates
<1> QED
  BY <1>6, <1>7 DEF Inv

\* A step of one end of the connections.
LEMMA EndsInv ==
    ASSUME Inv,
           \/ ClientSends \/ ServiceSends \/ ClientReads \/ ServiceReads
           \/ ClientCloses \/ ServiceCloses
    PROVE  Inv'
<1>1. /\ UNCHANGED <<handler, reader, conn, local>>
      /\ client' = client \/ client' = "closed"
      /\ service' = service \/ service' = "closed"
  BY DEF ClientSends, ServiceSends, ClientReads, ServiceReads, ClientCloses, ServiceCloses,
         ends, sockets
<1>2. /\ up \in Stream /\ down \in Stream
      /\ Len(up.buffer) \in Nat /\ Len(down.buffer) \in Nat
  BY DEF Inv, TypeOK, Stream, Messages
<1>3. /\ up' \in Stream /\ Len(up'.buffer) <= Len(up.buffer) /\ up'.held = up.held
      /\ Delivered(up) => Delivered(up')
      /\ Whole(up) => Whole(up')
  <2>1. CASE ClientSends
    <3>1. up' = More(up) /\ up.sent < MaxMessages
      BY <2>1 DEF ClientSends, More
    <3> QED
      BY <3>1, <1>2, SendFacts
  <2>2. CASE ServiceReads
    BY <2>2, <1>2, TakeFacts DEF ServiceReads
  <2>3. CASE ServiceSends \/ ClientReads \/ ClientCloses \/ ServiceCloses
    <3>1. up' = up
      BY <2>3 DEF ServiceSends, ClientReads, ClientCloses, ServiceCloses
    <3> QED
      BY <3>1, <1>2
  <2> QED
    BY <2>1, <2>2, <2>3
<1>4. /\ down' \in Stream /\ Len(down'.buffer) <= Len(down.buffer) /\ down'.held = down.held
      /\ Delivered(down) => Delivered(down')
      /\ Whole(down) => Whole(down')
  <2>1. CASE ServiceSends
    <3>1. down' = More(down) /\ down.sent < MaxMessages
      BY <2>1 DEF ServiceSends, More
    <3> QED
      BY <3>1, <1>2, SendFacts
  <2>2. CASE ClientReads
    BY <2>2, <1>2, TakeFacts DEF ClientReads
  <2>3. CASE ClientSends \/ ServiceReads \/ ClientCloses \/ ServiceCloses
    <3>1. down' = down
      BY <2>3 DEF ClientSends, ServiceReads, ClientCloses, ServiceCloses
    <3> QED
      BY <3>1, <1>2
  <2> QED
    BY <2>1, <2>2, <2>3
<1>5. TypeOK'
  <2>1. /\ Len(up'.buffer) \in Nat /\ Len(down'.buffer) \in Nat
    BY <1>3, <1>4 DEF Stream, Messages
  <2>2. Len(up'.buffer) <= Capacity /\ Len(down'.buffer) <= Capacity
    BY <2>1, <1>2, <1>3, <1>4 DEF Inv, TypeOK
  <2> QED
    BY <2>2, <1>1, <1>3, <1>4 DEF Inv, TypeOK, EndStates
<1>6. Places' /\ Hands'
  BY <1>1, <1>3, <1>4 DEF Inv, Places, Hands
<1>7. Flows'
  BY <1>1, <1>3, <1>4 DEF Inv, Flows, Delivered, Whole, Flow
<1> QED
  BY <1>5, <1>6, <1>7 DEF Inv

-----------------------------------------------------------------------------

LEMMA StepInv == Inv /\ [Next]_vars => Inv'
<1> SUFFICES ASSUME Inv, [Next]_vars PROVE Inv'
  OBVIOUS
<1>1. CASE UNCHANGED vars
  BY <1>1 DEF vars, ends, sockets, Inv, TypeOK, Places, Hands, Flows, Delivered, Whole, Flow
<1>2. CASE HandlerStep
  BY <1>2, HandlerMoves, ReadLocalInv, WriteClientInv DEF HandlerStep
<1>3. CASE ReaderStep
  BY <1>3, ReadMessageInv, ReadMessageFailsInv, WriteLocalInv DEF ReaderStep
<1> QED
  BY <1>1, <1>2, <1>3, EndsInv DEF Next

LEMMA InvHolds == Spec => []Inv
BY InitInv, StepInv, PTL DEF Spec

LEMMA InvImplies == Inv => TypeOK /\ StreamsKept
<1> SUFFICES ASSUME Inv PROVE StreamsKept
  BY DEF Inv
<1>1. ASSUME NEW s \in Stream, Delivered(s)
      PROVE  s.got = Numbered(Len(s.got))
  <2>1. s.got \in Seq(Nat) /\ s.buffer \in Seq(Nat)
    BY DEF Stream, Messages
  <2>2. Len(s.got \o s.buffer) \in Nat
    BY <2>1, ConcatProperties, LenProperties
  <2> QED
    BY <1>1, <2>1, <2>2, Prefix DEF Delivered
<1> QED
  BY <1>1 DEF Inv, TypeOK, Flows, Whole, StreamsKept

\* The state of a session keeps its types; no socket holds more than it can.
THEOREM SessionTypeCorrect == Spec => []TypeOK
BY InvHolds, InvImplies, PTL

\* handleWebSocket keeps the order of the messages of both directions and
\* loses none while the connections stand, for any number of messages and
\* any size of the sockets.
THEOREM StreamsCorrect == Spec => []StreamsKept
BY InvHolds, InvImplies, PTL
=============================================================================
