-------------------------- MODULE TestClientProofs --------------------------
(***************************************************************************)
(* Proofs about TestClient: the lock step of the program and the server on *)
(* Control, and what rests on it.  Each side is where the other one's      *)
(* frames have brought it, so that the n-th channel asked for is the n-th  *)
(* granted, the n-th stream opened and the n-th task spawned.              *)
(***************************************************************************)
EXTENDS TestClient, SessionProofs, SequencePicksTheorems

-----------------------------------------------------------------------------
(* The inductive invariant. *)

OpenFrame(k) == [type |-> "OpenChannel", kind |-> Channels[k], id |-> k, stream |-> 0]

\* What has been written on Control, by either side, whatever was read of it.
ClientSaid ==
    /\ Len(fromClient) <= 6
    /\ Len(fromClient) >= 1 => fromClient[1] = Hello
    /\ Len(fromClient) >= 2 => fromClient[2] = PinRequest
    /\ \A k \in 1 .. 4 : Len(fromClient) >= k + 2 => fromClient[k + 2] = OpenFrame(k)
    /\ finished => Len(fromClient) = 6

ServerSaid ==
    /\ Len(toClient) <= 8
    /\ Len(toClient) >= 3 => toClient[3] = Announce("DISPLAY", DisplayId)
    /\ Len(toClient) >= 4 => toClient[4] = Announce("CURSOR", CursorId)
    /\ \A k \in 1 .. 4 : Len(toClient) >= k + 4 => toClient[k + 4] = Ack(k, "OK")

\* The streams the client has opened: the k-th is for the k-th channel, and its ack
\* has been heard.
StreamsOpened ==
    /\ Len(streams) <= 4
    /\ Len(streams) > 0 => Len(streams) + 4 <= heard
    /\ \A s \in 1 .. Len(streams) :
         /\ streams[s].dir = Direction(Channels[s])
         /\ \A i \in DOMAIN streams[s].sent : streams[s].sent[i] # "bad"

\* The tasks: the two senders, then one for each channel, on its own stream.
TasksSpawned ==
    /\ Len(handlers) <= 6
    /\ Len(handlers) >= 1 => handlers[1].kind = "DISPLAY" /\ handlers[1].stream = 0
    /\ Len(handlers) >= 2 => handlers[2].kind = "CURSOR" /\ handlers[2].stream = 0
    /\ \A k \in 1 .. 4 : Len(handlers) >= k + 2 =>
         k <= Len(streams) /\ handlers[k + 2].kind = Channels[k] /\ handlers[k + 2].stream = k

\* Where the program is in its exchanges: w frames written, h heard, s streams open.
At(w, h, s) == Len(fromClient) = w /\ heard = h /\ Len(streams) = s

ProgramPlace ==
    /\ heard <= Len(toClient)
    /\ pc = "hello" => At(0, 0, 0)
    /\ pc = "helloSent" => At(1, 0, 0)
    /\ pc = "auth" => At(1, 1, 0)
    /\ pc = "authSent" => At(2, 1, 0)
    /\ pc = "display" => At(2, 2, 0)
    /\ pc = "cursor" => At(2, 3, 0)
    /\ pc = "accept" => At(2, 4, 0) /\ Len(receivers) < 2
    /\ pc \in {"hello", "helloSent", "auth", "authSent", "display", "cursor"} => receivers = <<>>
    /\ pc \in {"hello", "helloSent", "auth", "authSent", "display", "cursor", "accept"} => turn = 1
    /\ pc = "open" => At(turn + 1, turn + 3, turn - 1) /\ turn <= 4
    /\ pc = "openSent" => At(turn + 2, turn + 3, turn - 1) /\ turn <= 4
    /\ pc = "stream" => At(turn + 2, turn + 4, turn - 1) /\ turn <= 4
    /\ pc = "exercise" => /\ At(turn + 2, turn + 4, turn) /\ turn <= 4
                          /\ op <= Len(Exercise(Kind))
    /\ pc = "endControl" => At(6, 8, 4)
    /\ pc \in {"open", "openSent", "stream", "exercise", "endControl"} => ~finished
    /\ Len(receivers) <= 2
    /\ Len(receivers) >= 1 => receivers[1] = "DISPLAY" /\ heard >= 4
    /\ Len(receivers) = 2 => receivers[2] = "CURSOR"

\* Where the server is: r frames read, w written, t tasks spawned.
Done(r, w, t) == read = r /\ Len(toClient) = w /\ Len(handlers) = t

ServerPlace ==
    /\ phase = "hello" => Done(0, 0, 0)
    /\ phase = "auth" => Done(1, 1, 0)
    /\ phase = "announceDisplay" => Done(2, 2, 0)
    /\ phase = "openDisplay" => Done(2, 3, 0)
    /\ phase = "announceCursor" => Done(2, 3, 1)
    /\ phase = "openCursor" => Done(2, 4, 1)
    /\ phase = "dispatch" => read >= 2 /\ Done(read, read + 2, read)
    /\ phase = "bind" => /\ read >= 3 /\ Done(read, read + 2, read - 1)
                         /\ grant.kind = Channels[read - 2]

ClientInv ==
    /\ TypeInv /\ TestClientTypeOK
    /\ ClientSaid /\ ServerSaid /\ StreamsOpened /\ TasksSpawned
    /\ ProgramPlace /\ ServerPlace
    /\ FaithfulClientIsServed

-----------------------------------------------------------------------------
(* Facts about what is said, and lengths. *)

LEMMA ChannelFacts ==
    /\ Len(Channels) = 4
    /\ \A k \in 1 .. 4 : /\ Channels[k] \in SupportedKinds /\ Channels[k] \in ClientKinds
                         /\ k \in ChannelIds /\ Direction(Channels[k]) \in {"uni", "bi"}
                         /\ Channels[k] \notin SenderKinds
  <1>1. /\ Channels[1] = "INPUT" /\ Channels[2] = "CLIPBOARD"
        /\ Channels[3] = "CHAT" /\ Channels[4] = "FILE" /\ Len(Channels) = 4
    BY DEF Channels
  <1>2. \A k \in 1 .. 4 : k = 1 \/ k = 2 \/ k = 3 \/ k = 4
    OBVIOUS
  <1>3. \A k \in 1 .. 4 : Channels[k] \in SupportedKinds /\ Channels[k] \notin SenderKinds
    BY <1>1, <1>2 DEF SupportedKinds, UniKinds, BiKinds, SenderKinds
  <1>. QED  BY <1>1, <1>3, ChannelsAssumption DEF Direction

LEMMA FramesSaid ==
    ASSUME secret \in Credentials
    PROVE  /\ Hello \in ClientFrame /\ PinRequest \in ClientFrame
           /\ \A k \in 1 .. 4 : OpenFrame(k) \in ClientFrame
  <1>1. Hello \in ClientFrame /\ PinRequest \in ClientFrame
    BY DEF Hello, PinRequest, ClientFrame
  <1>2. ASSUME NEW k \in 1 .. 4 PROVE OpenFrame(k) \in ClientFrame
    <2>1. Channels[k] \in ClientKinds /\ k \in ChannelIds
      BY ChannelFacts
    <2>2. 0 \in 0 .. MaxStreams
      BY BoundsAssumption
    <2>. QED  BY <2>1, <2>2 DEF OpenFrame, ClientFrame
  <1>. QED  BY <1>1, <1>2

LEMMA Lengths ==
    ASSUME TypeInv, TestClientTypeOK
    PROVE  /\ Len(fromClient) \in Nat /\ Len(toClient) \in Nat /\ Len(streams) \in Nat
           /\ Len(handlers) \in Nat /\ Len(receivers) \in Nat
           /\ heard \in Nat /\ turn \in Nat /\ op \in Nat /\ read \in Nat
           /\ turn >= 1 /\ op >= 1
  <1>1. fromClient \in Seq(ClientFrame) /\ toClient \in Seq(ServerFrame)
        /\ streams \in Seq(Stream) /\ handlers \in Seq(Handler) /\ receivers \in Seq(SenderKinds)
    BY DEF TypeInv, TypeOK, TestClientTypeOK
  <1>2. /\ Len(fromClient) \in Nat /\ Len(toClient) \in Nat /\ Len(streams) \in Nat
        /\ Len(handlers) \in Nat /\ Len(receivers) \in Nat
    BY <1>1, LenProperties
  <1>3. heard \in 0 .. Len(toClient) /\ turn \in 1 .. 5 /\ op \in 1 .. 4
        /\ read \in 0 .. Len(fromClient)
    BY ChannelFacts DEF TestClientTypeOK, TypeInv, TypeOK
  <1>. QED  BY <1>2, <1>3

-----------------------------------------------------------------------------
(* The program. *)

\* It writes the next frame on Control.
Speaks(f) ==
    \/ Say(f, "hello", "helloSent") /\ f = Hello
    \/ Say(f, "auth", "authSent") /\ f = PinRequest
    \/ Say(f, "open", "openSent") /\ f = OpenFrame(turn)

\* Where it does, w frames having been written.
SpeaksAt(f, w) ==
    \/ /\ pc = "hello" /\ pc' = "helloSent" /\ f = Hello /\ w = 0
       /\ heard = 0 /\ Len(streams) = 0 /\ turn = 1 /\ receivers = <<>>
    \/ /\ pc = "auth" /\ pc' = "authSent" /\ f = PinRequest /\ w = 1
       /\ heard = 1 /\ Len(streams) = 0 /\ turn = 1 /\ receivers = <<>>
    \/ /\ pc = "open" /\ pc' = "openSent" /\ f = OpenFrame(turn) /\ w = turn + 1
       /\ heard = turn + 3 /\ Len(streams) = turn - 1 /\ turn \in 1 .. 4

LEMMA SayFacts ==
    ASSUME ClientInv, NEW f, Speaks(f), UNCHANGED clientState,
           NEW w \in Nat, w = Len(fromClient)
    PROVE  /\ fromClient' = Append(fromClient, f)
           /\ UNCHANGED <<connected, finished, streams, read, toClient, phase, grant, handlers,
                          heard, secret, cut, turn, op, receivers>>
           /\ ~finished
           /\ SpeaksAt(f, w)
  <1>1. /\ fromClient' = Append(fromClient, f)
        /\ UNCHANGED <<connected, finished, streams, serverVars, heard, secret, cut>>
    BY Zenon DEF Say, Speaks
  <1>2. UNCHANGED <<read, toClient, phase, grant, handlers, turn, op, receivers>>
    BY <1>1, Zenon DEF serverVars, clientState
  <1>3. ProgramPlace /\ ClientSaid /\ turn \in Nat /\ turn >= 1
    BY Lengths DEF ClientInv
  <1>4. /\ pc = "hello" => At(0, 0, 0) /\ turn = 1 /\ receivers = <<>>
        /\ pc = "auth" => At(1, 1, 0) /\ turn = 1 /\ receivers = <<>>
        /\ pc = "open" => At(turn + 1, turn + 3, turn - 1) /\ turn <= 4 /\ ~finished
    BY <1>3 DEF ProgramPlace
  <1>5. /\ pc = "hello" => w = 0 /\ heard = 0 /\ Len(streams) = 0
        /\ pc = "auth" => w = 1 /\ heard = 1 /\ Len(streams) = 0
        /\ pc = "open" => w = turn + 1 /\ heard = turn + 3 /\ Len(streams) = turn - 1
    BY <1>4, Zenon DEF At
  <1>6. \/ pc = "hello" /\ pc' = "helloSent" /\ f = Hello
        \/ pc = "auth" /\ pc' = "authSent" /\ f = PinRequest
        \/ pc = "open" /\ pc' = "openSent" /\ f = OpenFrame(turn)
    BY Zenon DEF Say, Speaks
  <1>7. turn <= 4 => turn \in 1 .. 4
    BY <1>3
  <1>8. SpeaksAt(f, w)
    BY <1>4, <1>5, <1>6, <1>7 DEF SpeaksAt
  <1>9. ~finished
    BY <1>3, <1>4, <1>5, <1>6 DEF ClientSaid
  <1>. QED  BY <1>1, <1>2, <1>8, <1>9

LEMMA SayStep ==
    ASSUME ClientInv, NEW f, Speaks(f), UNCHANGED clientState
    PROVE  ClientInv'
  <1>0. /\ TypeInv /\ TestClientTypeOK /\ ClientSaid /\ ServerSaid /\ StreamsOpened
        /\ TasksSpawned /\ ProgramPlace /\ ServerPlace /\ FaithfulClientIsServed
    BY DEF ClientInv
  <1>1. PICK w \in Nat : w = Len(fromClient)
    BY <1>0, Lengths
  <1>2. /\ fromClient' = Append(fromClient, f)
        /\ UNCHANGED <<connected, finished, streams, read, toClient, phase, grant, handlers,
                       heard, secret, cut, turn, op, receivers>>
        /\ ~finished
        /\ SpeaksAt(f, w)
    BY <1>1, SayFacts
  <1>3. f \in ClientFrame
    <2>1. secret \in Credentials
      BY <1>0 DEF TestClientTypeOK
    <2>. QED  BY <1>2, <2>1, FramesSaid DEF SpeaksAt
  <1>4. /\ fromClient' \in Seq(ClientFrame) /\ Len(fromClient') = w + 1
        /\ fromClient'[w + 1] = f /\ \A i \in 1 .. w : fromClient'[i] = fromClient[i]
    <2>1. fromClient \in Seq(ClientFrame)
      BY <1>0 DEF TypeInv, TypeOK
    <2>. QED  BY <1>1, <1>2, <1>3, <2>1, AppendProperties
  <1>5. TypeInv'
    <2>1. read \in 0 .. w + 1
      BY <1>0, <1>1 DEF TypeInv, TypeOK
    <2>. QED  BY <1>0, <1>2, <1>4, <2>1 DEF TypeInv, TypeOK
  <1>6. TestClientTypeOK'
    <2>1. pc' \in {"helloSent", "authSent", "openSent"}
      BY <1>2 DEF SpeaksAt
    <2>. QED  BY <1>0, <1>2, <1>5, <2>1 DEF TestClientTypeOK, TypeInv
  <1>7. ClientSaid'
    <2>0. Hello' = Hello /\ PinRequest' = PinRequest
      BY <1>2 DEF Hello, PinRequest
    <2>1. CASE pc = "hello"
      <3>1. w = 0 /\ f = Hello
        BY <1>2, <2>1 DEF SpeaksAt
      <3>2. Len(fromClient') = 1 /\ fromClient'[1] = Hello
        BY <1>4, <3>1
      <3>. QED  BY <1>2, <2>0, <3>2 DEF ClientSaid
    <2>2. CASE pc = "auth"
      <3>1. w = 1 /\ f = PinRequest
        BY <1>2, <2>2 DEF SpeaksAt
      <3>2. Len(fromClient') = 2 /\ fromClient'[1] = fromClient[1] /\ fromClient'[2] = PinRequest
        BY <1>4, <3>1
      <3>3. fromClient[1] = Hello
        BY <1>0, <1>1, <3>1 DEF ClientSaid
      <3>. QED  BY <1>2, <2>0, <3>2, <3>3 DEF ClientSaid
    <2>3. CASE pc = "open"
      <3>1. w = turn + 1 /\ turn \in 1 .. 4 /\ f = OpenFrame(turn)
        BY <1>2, <2>3 DEF SpeaksAt
      <3>2. /\ Len(fromClient') = turn + 2 /\ fromClient'[turn + 2] = OpenFrame(turn)
            /\ fromClient'[1] = fromClient[1] /\ fromClient'[2] = fromClient[2]
            /\ \A k \in 1 .. turn - 1 : fromClient'[k + 2] = fromClient[k + 2]
        BY <1>4, <3>1
      <3>3. /\ fromClient[1] = Hello /\ fromClient[2] = PinRequest
            /\ \A k \in 1 .. turn - 1 : fromClient[k + 2] = OpenFrame(k)
        BY <1>0, <1>1, <3>1 DEF ClientSaid
      <3>4. ASSUME NEW k \in 1 .. 4, Len(fromClient') >= k + 2
            PROVE  fromClient'[k + 2] = OpenFrame(k)
        <4>1. k = turn \/ k \in 1 .. turn - 1
          BY <3>1, <3>2, <3>4
        <4>. QED  BY <3>2, <3>3, <4>1
      <3>5. \A k \in 1 .. 4 : OpenFrame(k)' = OpenFrame(k)
        BY DEF OpenFrame, Channels
      <3>. QED  BY <1>2, <2>0, <3>1, <3>2, <3>3, <3>4, <3>5 DEF ClientSaid
    <2>. QED  BY <1>2, <2>1, <2>2, <2>3 DEF SpeaksAt
  <1>8. ServerSaid' /\ StreamsOpened' /\ TasksSpawned' /\ FaithfulClientIsServed' /\ ServerPlace'
    BY <1>0, <1>2 DEF ServerSaid, StreamsOpened, TasksSpawned, FaithfulClientIsServed, ServerPlace,
                      Done, Channels, IsSender
  <1>9. ProgramPlace'
    <2>1. /\ heard <= Len(toClient)
          /\ Len(receivers) <= 2
          /\ Len(receivers) >= 1 => receivers[1] = "DISPLAY" /\ heard >= 4
          /\ Len(receivers) = 2 => receivers[2] = "CURSOR"
      BY <1>0 DEF ProgramPlace
    <2>. QED  BY <1>1, <1>2, <1>4, <2>1 DEF SpeaksAt, ProgramPlace, At
  <1>. QED  BY <1>5, <1>6, <1>7, <1>8, <1>9 DEF ClientInv

\* It reads the next frame on Control.
Hears ==
    \/ Hear(IsServerHello, "helloSent", "auth")
    \/ Hear(IsAdmission, "authSent", "display")
    \/ Hear(Heard.type = "OpenChannel", "display", "cursor")
    \/ Hear(Heard.type = "OpenChannel", "cursor", "accept")
    \/ Hear(IsGrant, "openSent", "stream")

HearsAt ==
    \/ pc = "helloSent" /\ pc' = "auth" /\ At(1, 0, 0) /\ turn = 1 /\ receivers = <<>>
    \/ pc = "authSent" /\ pc' = "display" /\ At(2, 1, 0) /\ turn = 1 /\ receivers = <<>>
    \/ pc = "display" /\ pc' = "cursor" /\ At(2, 2, 0) /\ turn = 1 /\ receivers = <<>>
    \/ pc = "cursor" /\ pc' = "accept" /\ At(2, 3, 0) /\ turn = 1 /\ receivers = <<>>
    \/ /\ pc = "openSent" /\ pc' = "stream" /\ ~finished
       /\ At(turn + 2, turn + 3, turn - 1) /\ turn \in 1 .. 4

LEMMA HearStep ==
    ASSUME ClientInv, Hears, UNCHANGED clientState
    PROVE  ClientInv'
  <1>0. /\ TypeInv /\ TestClientTypeOK /\ ClientSaid /\ ServerSaid /\ StreamsOpened
        /\ TasksSpawned /\ ProgramPlace /\ ServerPlace /\ FaithfulClientIsServed
    BY DEF ClientInv
  <1>1. /\ Len(fromClient) \in Nat /\ Len(toClient) \in Nat /\ Len(streams) \in Nat
        /\ heard \in Nat /\ turn \in Nat /\ turn >= 1
    BY <1>0, Lengths
  <1>2. /\ heard' = heard + 1 /\ UNCHANGED vars /\ UNCHANGED <<secret, cut>>
        /\ heard < Len(toClient)
    BY Zenon DEF Hears, Hear, Spoken
  <1>3. UNCHANGED <<connected, fromClient, finished, streams, read, toClient, phase, grant,
                    handlers, secret, cut, turn, op, receivers>>
    BY <1>2, Zenon DEF vars, clientVars, serverVars, clientState
  <1>4. HearsAt
    <2>1. /\ pc = "helloSent" => At(1, 0, 0) /\ turn = 1 /\ receivers = <<>>
          /\ pc = "authSent" => At(2, 1, 0) /\ turn = 1 /\ receivers = <<>>
          /\ pc = "display" => At(2, 2, 0) /\ turn = 1 /\ receivers = <<>>
          /\ pc = "cursor" => At(2, 3, 0) /\ turn = 1 /\ receivers = <<>>
          /\ pc = "openSent" => At(turn + 2, turn + 3, turn - 1) /\ turn <= 4 /\ ~finished
      BY <1>0 DEF ProgramPlace
    <2>2. \/ pc = "helloSent" /\ pc' = "auth"
          \/ pc = "authSent" /\ pc' = "display"
          \/ pc = "display" /\ pc' = "cursor"
          \/ pc = "cursor" /\ pc' = "accept"
          \/ pc = "openSent" /\ pc' = "stream"
      BY Zenon DEF Hears, Hear
    <2>3. turn <= 4 => turn \in 1 .. 4
      BY <1>1
    <2>. QED  BY <2>1, <2>2, <2>3 DEF HearsAt
  <1>5. TypeInv' /\ ClientSaid' /\ ServerSaid' /\ TasksSpawned' /\ FaithfulClientIsServed'
        /\ ServerPlace'
    <2>1. TypeInv'
      BY <1>0, <1>3 DEF TypeInv, TypeOK
    <2>2. Hello' = Hello /\ PinRequest' = PinRequest
      BY <1>3 DEF Hello, PinRequest
    <2>3. ClientSaid'
      BY <1>0, <1>3, <2>2 DEF ClientSaid, OpenFrame, Channels
    <2>4. ServerSaid' /\ TasksSpawned' /\ ServerPlace'
      BY <1>0, <1>3 DEF ServerSaid, TasksSpawned, ServerPlace, Done, Channels
    <2>5. FaithfulClientIsServed'
      BY <1>0, <1>3 DEF FaithfulClientIsServed, IsSender
    <2>. QED  BY <2>1, <2>3, <2>4, <2>5
  <1>6. TestClientTypeOK'
    <2>1. pc' \in {"auth", "display", "cursor", "accept", "stream"}
      BY <1>4 DEF HearsAt
    <2>2. heard' \in 0 .. Len(toClient')
      BY <1>1, <1>2, <1>3
    <2>. QED  BY <1>0, <1>3, <1>5, <2>1, <2>2 DEF TestClientTypeOK, TypeInv
  <1>7. StreamsOpened'
    BY <1>0, <1>1, <1>2, <1>3 DEF StreamsOpened, Channels
  <1>8. ProgramPlace'
    <2>1. /\ Len(receivers) <= 2
          /\ Len(receivers) >= 1 => receivers[1] = "DISPLAY" /\ heard >= 4
          /\ Len(receivers) = 2 => receivers[2] = "CURSOR"
          /\ Len(<<>>) = 0
      BY <1>0 DEF ProgramPlace
    <2>2. heard' <= Len(toClient') /\ (heard >= 4 => heard' >= 4)
      BY <1>1, <1>2, <1>3
    <2>. QED  BY <1>1, <1>2, <1>3, <1>4, <2>1, <2>2 DEF HearsAt, ProgramPlace, At
  <1>. QED  BY <1>5, <1>6, <1>7, <1>8 DEF ClientInv

\* A sequence of one element and another behind it.
LEMMA OneAndAnother ==
    ASSUME NEW S, NEW s \in Seq(S), NEW x \in S, Len(s) = 1
    PROVE  Len(Append(s, x)) = 2 /\ Append(s, x)[1] = s[1] /\ Append(s, x)[2] = x
  <1>1. Len(Append(s, x)) = Len(s) + 1 /\ Append(s, x)[Len(s) + 1] = x
    BY AppendProperties
  <1>2. \A i \in 1 .. Len(s) : Append(s, x)[i] = s[i]
    BY AppendProperties
  <1>3. 1 \in 1 .. 1 /\ 1 + 1 = 2
    OBVIOUS
  <1>. QED  BY <1>1, <1>2, <1>3, Zenon

\* The streams accept_uni can hand out are the two senders', Display's first.
LEMMA OpenedAre ==
    ASSUME ClientInv
    PROVE  /\ Len(Opened) \in Nat /\ Len(Opened) <= Len(handlers)
           /\ Len(Opened) >= 1 => Opened[1].kind = "DISPLAY"
           /\ Len(Opened) >= 2 => Opened[2].kind = "CURSOR"
  <1>. DEFINE I == {h \in DOMAIN handlers : IsSender(h)}
  <1>0. TypeInv /\ TestClientTypeOK /\ TasksSpawned
    BY DEF ClientInv
  <1>1. handlers \in Seq(Handler)
    BY <1>0 DEF TypeInv, TypeOK
  <1>2. PICK n \in Nat : n = Len(handlers)
    BY <1>1, LenProperties
  <1>3. DOMAIN handlers = 1 .. n
    BY <1>1, <1>2, LenProperties
  <1>4. /\ n <= 6
        /\ n >= 1 => handlers[1].kind = "DISPLAY" /\ 1 \in I /\ handlers[1] \in Handler
        /\ n >= 2 => handlers[2].kind = "CURSOR" /\ 2 \in I /\ handlers[2] \in Handler
    <2>1. n >= 1 => handlers[1].kind = "DISPLAY"
      BY <1>0, <1>2 DEF TasksSpawned
    <2>2. n >= 2 => handlers[2].kind = "CURSOR"
      BY <1>0, <1>2 DEF TasksSpawned
    <2>3. n >= 1 => handlers[1] \in Handler
      BY <1>1, <1>2, ElementOfSeq
    <2>4. n >= 2 => handlers[2] \in Handler
      BY <1>1, <1>2, ElementOfSeq
    <2>. QED  BY <1>0, <1>2, <1>3, <2>1, <2>2, <2>3, <2>4 DEF TasksSpawned, IsSender, SenderKinds
  <1>5. \A i \in 3 .. n : i \notin I
    <2>1. ASSUME NEW i \in 3 .. n PROVE i \notin I
      <3>1. PICK k \in 1 .. 4 : i = k + 2
        BY <1>4, i - 2 \in 1 .. 4
      <3>2. handlers[i].kind = Channels[k]
        BY <1>0, <1>2, <3>1 DEF TasksSpawned
      <3>. QED  BY <3>2, ChannelFacts DEF IsSender
    <2>. QED  BY <2>1
  <1>6. Opened = PickedUpTo(handlers, I, n)
    BY <1>2, Zenon DEF Opened, Picked
  <1>7. PickedUpTo(handlers, I, 0) = <<>> /\ <<>> \in Seq(Handler) /\ Len(<<>>) = 0
    BY UpToStart, EmptySeq
  <1>8. n >= 1 => PickedUpTo(handlers, I, 1) = Append(<<>>, handlers[1])
    <2>1. 0 + 1 \in I =>
            PickedUpTo(handlers, I, 0 + 1) = Append(PickedUpTo(handlers, I, 0), handlers[0 + 1])
      BY UpToNext
    <2>2. 0 + 1 = 1
      OBVIOUS
    <2>. QED  BY <1>4, <1>7, <2>1, <2>2, Zenon
  <1>9. n >= 2 => PickedUpTo(handlers, I, 2) = Append(Append(<<>>, handlers[1]), handlers[2])
    <2>1. 1 + 1 \in I =>
            PickedUpTo(handlers, I, 1 + 1) = Append(PickedUpTo(handlers, I, 1), handlers[1 + 1])
      BY UpToNext
    <2>2. 1 + 1 = 2 /\ (n >= 2 => n >= 1)
      OBVIOUS
    <2>. QED  BY <1>4, <1>8, <2>1, <2>2, Zenon
  <1>10. n >= 2 => PickedUpTo(handlers, I, n) = PickedUpTo(handlers, I, 2)
    <2>1. \A i \in 2 + 1 .. n : i \notin I
      BY <1>5
    <2>. QED  BY <2>1, UpToConstant
  <1>. HIDE DEF I
  <1>11. CASE n = 0
    BY <1>2, <1>6, <1>7, <1>11
  <1>12. CASE n = 1
    <2>1. Append(<<>>, handlers[1]) \in Seq(Handler) /\ Len(Append(<<>>, handlers[1])) = 1
          /\ Append(<<>>, handlers[1])[1] = handlers[1]
      BY <1>4, <1>7, <1>12, AppendProperties
    <2>. QED  BY <1>2, <1>4, <1>6, <1>8, <1>12, <2>1
  <1>13. CASE n >= 2
    <2>1. PICK s : s = Append(<<>>, handlers[1])
      OBVIOUS
    <2>2. s \in Seq(Handler) /\ Len(s) = 1 /\ s[1] = handlers[1]
      BY <1>4, <1>7, <1>13, <2>1, AppendProperties
    <2>3. PICK h \in Handler : h = handlers[2]
      BY <1>4, <1>13
    <2>4. /\ Len(Append(s, h)) = 2 /\ Append(s, h)[1] = handlers[1] /\ Append(s, h)[2] = h
      <3>1. Append(s, h)[1] = s[1] /\ Len(Append(s, h)) = 2 /\ Append(s, h)[2] = h
        BY <2>2, OneAndAnother, Zenon
      <3>. QED  BY <2>2, <3>1, Zenon
    <2>5. Opened = Append(s, h)
      BY <1>6, <1>9, <1>10, <1>13, <2>1, <2>3
    <2>. QED  BY <1>2, <1>4, <1>13, <2>3, <2>4, <2>5
  <1>. QED  BY <1>11, <1>12, <1>13

LEMMA AcceptStreamStep ==
    ASSUME ClientInv, AcceptStream
    PROVE  ClientInv'
  <1>0. /\ TypeInv /\ TestClientTypeOK /\ ClientSaid /\ ServerSaid /\ StreamsOpened
        /\ TasksSpawned /\ ProgramPlace /\ ServerPlace /\ FaithfulClientIsServed
    BY DEF ClientInv
  <1>1. /\ pc = "accept" /\ UNCHANGED vars /\ UNCHANGED <<heard, secret, cut, turn, op>>
        /\ pc' \in {"open", "accept"}
        /\ pc' = "open" <=> Len(receivers') = 2
    BY DEF AcceptStream
  <1>2. UNCHANGED <<connected, fromClient, finished, streams, read, toClient, phase, grant,
                    handlers>>
    BY <1>1, Zenon DEF vars, clientVars, serverVars
  <1>3. /\ Len(fromClient) = 2 /\ heard = 4 /\ Len(streams) = 0 /\ turn = 1
        /\ Len(receivers) < 2
    BY <1>0, <1>1 DEF ProgramPlace, At
  <1>4. PICK n \in Nat : n = Len(receivers)
    BY <1>0, Lengths
  <1>5. PICK k : k = Opened[n + 1].kind
    OBVIOUS
  <1>6. (n = 0 => k = "DISPLAY") /\ (n = 1 => k = "CURSOR")
    BY <1>4, <1>5, OpenedAre DEF AcceptStream
  <1>7. n \in {0, 1} /\ k \in SenderKinds
    BY <1>3, <1>4, <1>6 DEF SenderKinds
  <1>8. /\ receivers' \in Seq(SenderKinds) /\ Len(receivers') = n + 1
        /\ receivers'[n + 1] = k /\ \A i \in 1 .. n : receivers'[i] = receivers[i]
    <2>1. receivers \in Seq(SenderKinds)
      BY <1>0 DEF TestClientTypeOK
    <2>2. receivers' = Append(receivers, k)
      BY <1>4, <1>5 DEF AcceptStream
    <2>. QED  BY <1>4, <1>7, <2>1, <2>2, AppendProperties
  <1>9. /\ Len(receivers') = 1 \/ Len(receivers') = 2
        /\ receivers'[1] = "DISPLAY"
        /\ Len(receivers') = 2 => receivers'[2] = "CURSOR"
    <2>1. CASE n = 0
      BY <1>6, <1>8, <2>1
    <2>2. CASE n = 1
      BY <1>0, <1>4, <1>6, <1>8, <2>2 DEF ProgramPlace
    <2>. QED  BY <1>7, <2>1, <2>2
  <1>10. TypeInv' /\ ClientSaid' /\ ServerSaid' /\ TasksSpawned' /\ FaithfulClientIsServed'
         /\ ServerPlace' /\ StreamsOpened'
    <2>1. TypeInv'
      BY <1>0, <1>2 DEF TypeInv, TypeOK
    <2>2. Hello' = Hello /\ PinRequest' = PinRequest
      BY <1>1 DEF Hello, PinRequest
    <2>3. ClientSaid'
      BY <1>0, <1>2, <2>2 DEF ClientSaid, OpenFrame, Channels
    <2>4. ServerSaid' /\ TasksSpawned' /\ ServerPlace' /\ StreamsOpened'
      BY <1>0, <1>1, <1>2 DEF ServerSaid, TasksSpawned, ServerPlace, StreamsOpened, Done, Channels
    <2>5. FaithfulClientIsServed'
      BY <1>0, <1>2 DEF FaithfulClientIsServed, IsSender
    <2>. QED  BY <2>1, <2>3, <2>4, <2>5
  <1>11. TestClientTypeOK'
    BY <1>0, <1>1, <1>2, <1>8, <1>10 DEF TestClientTypeOK, TypeInv
  <1>12. ProgramPlace'
    <2>1. heard <= Len(toClient) /\ ~finished
      BY <1>0, <1>3 DEF ProgramPlace, ClientSaid
    <2>2. heard' = 4 /\ Len(fromClient') = 2 /\ Len(streams') = 0 /\ turn' = 1
      BY <1>1, <1>2, <1>3
    <2>3. heard' <= Len(toClient') /\ ~finished'
      BY <1>1, <1>2, <2>1
    <2>4. pc' = "open" \/ (pc' = "accept" /\ Len(receivers') = 1)
      BY <1>1, <1>9
    <2>5. /\ Len(receivers') <= 2
          /\ Len(receivers') >= 1 => receivers'[1] = "DISPLAY" /\ heard' >= 4
          /\ Len(receivers') = 2 => receivers'[2] = "CURSOR"
      <3>1. Len(receivers') <= 2
        BY <1>7, <1>8
      <3>2. heard' >= 4
        BY <2>2
      <3>. QED  BY <1>9, <3>1, <3>2, Zenon
    <2>7. CASE pc' = "open"
      <3>1. At(turn + 1, turn + 3, turn - 1)' /\ turn' <= 4
        BY <2>2 DEF At
      <3>. QED  BY <2>3, <2>5, <2>7, <3>1 DEF ProgramPlace
    <2>8. CASE pc' = "accept" /\ Len(receivers') = 1
      <3>1. At(2, 4, 0)' /\ Len(receivers') < 2 /\ turn' = 1
        BY <2>2, <2>8 DEF At
      <3>. QED  BY <2>3, <2>5, <2>8, <3>1 DEF ProgramPlace
    <2>. QED  BY <2>4, <2>7, <2>8
  <1>. QED  BY <1>10, <1>11, <1>12 DEF ClientInv

\* A step of the program that leaves Control and the server alone.
LEMMA ServerUntouched ==
    ASSUME ClientInv,
           UNCHANGED <<connected, fromClient, finished, read, toClient, phase, grant, handlers, secret>>
    PROVE  ClientSaid' /\ ServerSaid' /\ ServerPlace' /\ FaithfulClientIsServed'
  <1>1. ClientSaid /\ ServerSaid /\ ServerPlace /\ FaithfulClientIsServed
    BY DEF ClientInv
  <1>2. Hello' = Hello /\ PinRequest' = PinRequest
    BY DEF Hello, PinRequest
  <1>3. ClientSaid'
    BY <1>1, <1>2 DEF ClientSaid, OpenFrame, Channels
  <1>4. ServerSaid' /\ ServerPlace'
    BY <1>1 DEF ServerSaid, ServerPlace, Done, Channels
  <1>5. FaithfulClientIsServed'
    BY <1>1 DEF FaithfulClientIsServed, IsSender
  <1>. QED  BY <1>3, <1>4, <1>5

\* It opens the stream of its channel.
LEMMA OpenStreamStep ==
    ASSUME ClientInv, OpenStream
    PROVE  ClientInv'
  <1>0. /\ TypeInv /\ TestClientTypeOK /\ StreamsOpened /\ TasksSpawned /\ ProgramPlace
    BY DEF ClientInv
  <1>1. /\ UNCHANGED <<connected, fromClient, finished, read, toClient, phase, grant, handlers,
                       heard, secret, cut, turn, receivers>>
        /\ pc = "stream" /\ pc' = "exercise" /\ op' = 1
    BY DEF OpenStream, serverVars
  <1>2. PICK x : x = [dir |-> Direction(Kind), sent |-> <<>>, fin |-> FALSE]
    OBVIOUS
  <1>3. streams' = Append(streams, x)
    BY <1>2 DEF OpenStream
  <1>4. PICK n \in Nat : n = Len(streams)
    BY <1>0, Lengths
  <1>5. /\ Len(fromClient) = turn + 2 /\ heard = turn + 4 /\ n = turn - 1 /\ turn \in 1 .. 4
        /\ ~finished
    <2>1. turn \in Nat /\ turn >= 1
      BY <1>0, Lengths
    <2>. QED  BY <1>0, <1>1, <1>4, <2>1 DEF ProgramPlace, At
  <1>6. x \in Stream /\ x.dir = Direction(Channels[turn]) /\ x.sent = <<>>
    BY <1>2, <1>5, ChannelFacts DEF Stream, Kind
  <1>7. /\ streams' \in Seq(Stream) /\ Len(streams') = turn /\ streams'[turn] = x
        /\ \A i \in 1 .. n : streams'[i] = streams[i]
    <2>1. streams \in Seq(Stream)
      BY <1>0 DEF TypeInv, TypeOK
    <2>2. n + 1 = turn
      BY <1>5
    <2>. QED  BY <1>3, <1>4, <1>6, <2>1, <2>2, AppendProperties
  <1>8. ClientSaid' /\ ServerSaid' /\ ServerPlace' /\ FaithfulClientIsServed'
    BY <1>1, ServerUntouched
  <1>9. TypeInv'
    BY <1>0, <1>1, <1>7 DEF TypeInv, TypeOK
  <1>10. TestClientTypeOK'
    BY <1>0, <1>1, <1>9 DEF TestClientTypeOK, TypeInv
  <1>11. StreamsOpened'
    <2>1. ASSUME NEW s \in 1 .. Len(streams')
          PROVE  /\ streams'[s].dir = Direction(Channels[s])
                 /\ \A i \in DOMAIN streams'[s].sent : streams'[s].sent[i] # "bad"
      <3>1. CASE s = turn
        BY <1>6, <1>7, <3>1
      <3>2. CASE s \in 1 .. n
        BY <1>0, <1>4, <1>7, <3>2 DEF StreamsOpened
      <3>. QED  BY <1>5, <1>7, <2>1, <3>1, <3>2
    <2>2. Len(streams') <= 4 /\ Len(streams') + 4 <= heard'
      BY <1>1, <1>5, <1>7
    <2>. QED  BY <2>1, <2>2 DEF StreamsOpened, Channels, Direction
  <1>12. TasksSpawned'
    <2>1. Len(streams) <= Len(streams')
      BY <1>4, <1>5, <1>7
    <2>2. ASSUME NEW k \in 1 .. 4, k <= Len(streams) PROVE k <= Len(streams')
      BY <1>4, <1>7, <2>1, <2>2
    <2>. QED  BY <1>0, <1>1, <2>2 DEF TasksSpawned, Channels
  <1>13. ProgramPlace'
    <2>1. /\ heard <= Len(toClient)
          /\ Len(receivers) <= 2
          /\ Len(receivers) >= 1 => receivers[1] = "DISPLAY" /\ heard >= 4
          /\ Len(receivers) = 2 => receivers[2] = "CURSOR"
      BY <1>0 DEF ProgramPlace
    <2>2. At(turn + 2, turn + 4, turn)' /\ turn' <= 4
      BY <1>1, <1>5, <1>7 DEF At
    <2>3. op' <= Len(Exercise(Kind)')
      BY <1>1 DEF Exercise
    <2>. QED  BY <1>1, <1>5, <2>1, <2>2, <2>3 DEF ProgramPlace
  <1>. QED  BY <1>8, <1>9, <1>10, <1>11, <1>12, <1>13 DEF ClientInv

\* Whatever it writes on a stream, or the end of the stream, the stream stays where it is.
LEMMA StreamChanged ==
    ASSUME ClientInv, NEW s \in 1 .. Len(streams), NEW x \in Stream,
           x.dir = streams[s].dir, \A i \in DOMAIN x.sent : x.sent[i] # "bad",
           streams' = [streams EXCEPT ![s] = x],
           UNCHANGED <<handlers, heard>>
    PROVE  /\ streams' \in Seq(Stream) /\ Len(streams') = Len(streams)
           /\ StreamsOpened' /\ TasksSpawned'
  <1>0. TypeInv /\ TestClientTypeOK /\ StreamsOpened /\ TasksSpawned
    BY DEF ClientInv
  <1>1. streams \in Seq(Stream)
    BY <1>0 DEF TypeInv, TypeOK
  <1>2. PICK n \in Nat : n = Len(streams)
    BY <1>1, LenProperties
  <1>3. /\ streams' \in Seq(Stream) /\ Len(streams') = n /\ streams'[s] = x
        /\ \A i \in 1 .. n : i # s => streams'[i] = streams[i]
    BY <1>1, <1>2, ExceptSeq
  <1>4. ASSUME NEW i \in 1 .. Len(streams')
        PROVE  /\ streams'[i].dir = Direction(Channels[i])
               /\ \A j \in DOMAIN streams'[i].sent : streams'[i].sent[j] # "bad"
    <2>1. i \in 1 .. Len(streams)
      BY <1>2, <1>3
    <2>2. /\ streams[i].dir = Direction(Channels[i])
          /\ \A j \in DOMAIN streams[i].sent : streams[i].sent[j] # "bad"
      BY <1>0, <2>1 DEF StreamsOpened
    <2>3. CASE i = s
      BY <1>3, <2>2, <2>3
    <2>4. CASE i # s
      BY <1>2, <1>3, <2>1, <2>2, <2>4
    <2>. QED  BY <2>3, <2>4
  <1>5. StreamsOpened'
    BY <1>0, <1>2, <1>3, <1>4 DEF StreamsOpened, Channels, Direction
  <1>6. TasksSpawned'
    BY <1>0, <1>2, <1>3 DEF TasksSpawned, Channels
  <1>. QED  BY <1>2, <1>3, <1>5, <1>6

LEMMA WriteOnStreamStep ==
    ASSUME ClientInv, WriteOnStream
    PROVE  ClientInv'
  <1>0. /\ TypeInv /\ TestClientTypeOK /\ StreamsOpened /\ TasksSpawned /\ ProgramPlace
    BY DEF ClientInv
  <1>1. /\ UNCHANGED <<connected, fromClient, finished, read, toClient, phase, grant, handlers,
                       heard, secret, cut, turn, receivers>>
        /\ pc = "exercise" /\ pc' = "exercise" /\ op' = op + 1
        /\ Op \in {"note", "ask"}
    BY DEF WriteOnStream, serverVars, programVars
  <1>2. /\ Len(fromClient) = turn + 2 /\ heard = turn + 4 /\ Len(streams) = turn
        /\ turn \in 1 .. 4 /\ ~finished /\ op <= Len(Exercise(Kind)) /\ op \in Nat /\ op >= 1
    <2>1. turn \in Nat /\ turn >= 1 /\ op \in Nat /\ op >= 1
      BY <1>0, Lengths
    <2>. QED  BY <1>0, <1>1, <2>1 DEF ProgramPlace, At
  <1>3. op' <= Len(Exercise(Kind)) /\ op' \in 1 .. 4
    <2>1. CASE Kind = "INPUT"
      <3>1. Exercise(Kind) = <<"note", "fin">>
        BY <2>1 DEF Exercise
      <3>2. op \in 1 .. 2 /\ op # 2
        BY <1>1, <1>2, <3>1 DEF Op
      <3>. QED  BY <1>1, <3>1, <3>2
    <2>2. CASE Kind # "INPUT"
      <3>1. Exercise(Kind) = <<"ask", "answer", "note", "fin">>
        BY <2>2 DEF Exercise
      <3>2. op \in 1 .. 4 /\ op # 4
        BY <1>1, <1>2, <3>1 DEF Op
      <3>. QED  BY <1>1, <3>1, <3>2
    <2>. QED  BY <2>1, <2>2
  <1>4. streams \in Seq(Stream) /\ streams[turn] \in Stream
    <2>1. streams \in Seq(Stream)
      BY <1>0 DEF TypeInv, TypeOK
    <2>. QED  BY <1>2, <2>1, ElementOfSeq
  <1>5. PICK t \in Stream : t = streams[turn]
    BY <1>4
  <1>6. PICK f \in ChannelFrame : f = Op
    BY <1>1 DEF ChannelFrame
  <1>7. PICK q : q = Append(t.sent, f)
    OBVIOUS
  <1>8. /\ q \in Seq(ChannelFrame) /\ \A i \in DOMAIN q : q[i] # "bad"
    <2>1. t.sent \in Seq(ChannelFrame) /\ f # "bad"
      BY <1>1, <1>6 DEF Stream
    <2>2. \A i \in DOMAIN t.sent : t.sent[i] # "bad"
      BY <1>0, <1>2, <1>5 DEF StreamsOpened
    <2>3. PICK m \in Nat : m = Len(t.sent) /\ DOMAIN t.sent = 1 .. m
      BY <2>1, LenProperties
    <2>4. /\ q \in Seq(ChannelFrame) /\ DOMAIN q = 1 .. m + 1 /\ q[m + 1] = f
          /\ \A i \in 1 .. m : q[i] = t.sent[i]
      BY <1>7, <2>1, <2>3, AppendProperties, LenProperties
    <2>. QED  BY <2>1, <2>2, <2>3, <2>4
  <1>9. PICK x : x = [t EXCEPT !.sent = q]
    OBVIOUS
  <1>10. x \in Stream /\ x.dir = streams[turn].dir /\ x.sent = q
    BY <1>5, <1>8, <1>9 DEF Stream
  <1>11. streams' = [streams EXCEPT ![turn] = x]
    BY <1>5, <1>6, <1>7, <1>9, Zenon DEF WriteOnStream, Mine
  <1>12. /\ streams' \in Seq(Stream) /\ Len(streams') = Len(streams)
         /\ StreamsOpened' /\ TasksSpawned'
    <2>1. turn \in 1 .. Len(streams) /\ \A i \in DOMAIN x.sent : x.sent[i] # "bad"
      BY <1>2, <1>8, <1>10
    <2>. QED  BY <1>1, <1>10, <1>11, <2>1, StreamChanged
  <1>13. ClientSaid' /\ ServerSaid' /\ ServerPlace' /\ FaithfulClientIsServed'
    BY <1>1, ServerUntouched
  <1>14. TypeInv'
    BY <1>0, <1>1, <1>12 DEF TypeInv, TypeOK
  <1>15. TestClientTypeOK'
    BY <1>0, <1>1, <1>3, <1>14 DEF TestClientTypeOK, TypeInv
  <1>16. ProgramPlace'
    <2>1. /\ heard <= Len(toClient)
          /\ Len(receivers) <= 2
          /\ Len(receivers) >= 1 => receivers[1] = "DISPLAY" /\ heard >= 4
          /\ Len(receivers) = 2 => receivers[2] = "CURSOR"
      BY <1>0 DEF ProgramPlace
    <2>2. At(turn + 2, turn + 4, turn)' /\ turn' <= 4
      BY <1>1, <1>2, <1>12 DEF At
    <2>3. Exercise(Kind)' = Exercise(Kind)
      BY <1>1 DEF Exercise, Kind, Channels
    <2>4. op' <= Len(Exercise(Kind)')
      BY <1>3, <2>3, Zenon
    <2>. QED  BY <1>1, <1>2, <2>1, <2>2, <2>4 DEF ProgramPlace
  <1>. QED  BY <1>12, <1>13, <1>14, <1>15, <1>16 DEF ClientInv

\* It reads the answer of the task.
LEMMA ReadAnswerStep ==
    ASSUME ClientInv, ReadAnswer
    PROVE  ClientInv'
  <1>0. /\ TypeInv /\ TestClientTypeOK /\ StreamsOpened /\ TasksSpawned /\ ProgramPlace
    BY DEF ClientInv
  <1>1. /\ UNCHANGED <<connected, fromClient, finished, streams, read, toClient, phase, grant,
                       handlers, pc, heard, secret, cut, turn, receivers>>
        /\ pc = "exercise" /\ op' = op + 1 /\ Op = "answer"
    BY DEF ReadAnswer, vars, clientVars, serverVars, programVars
  <1>2. /\ op <= Len(Exercise(Kind)) /\ op \in Nat /\ op >= 1
    BY <1>0, <1>1, Lengths DEF ProgramPlace
  <1>3. op' <= Len(Exercise(Kind)) /\ op' \in 1 .. 4
    <2>1. CASE Kind = "INPUT"
      <3>1. Exercise(Kind) = <<"note", "fin">>
        BY <2>1 DEF Exercise
      <3>2. op \in 1 .. 2
        BY <1>2, <3>1
      <3>. QED  BY <1>1, <3>1, <3>2 DEF Op
    <2>2. CASE Kind # "INPUT"
      <3>1. Exercise(Kind) = <<"ask", "answer", "note", "fin">>
        BY <2>2 DEF Exercise
      <3>2. op \in 1 .. 4 /\ op # 4
        BY <1>1, <1>2, <3>1 DEF Op
      <3>. QED  BY <1>1, <3>1, <3>2
    <2>. QED  BY <2>1, <2>2
  <1>4. ClientSaid' /\ ServerSaid' /\ ServerPlace' /\ FaithfulClientIsServed'
    BY <1>1, ServerUntouched
  <1>5. TypeInv' /\ StreamsOpened' /\ TasksSpawned'
    BY <1>0, <1>1 DEF TypeInv, TypeOK, StreamsOpened, TasksSpawned, Channels, Direction
  <1>6. TestClientTypeOK'
    BY <1>0, <1>1, <1>3, <1>5 DEF TestClientTypeOK, TypeInv
  <1>7. ProgramPlace'
    <2>1. Exercise(Kind)' = Exercise(Kind)
      BY <1>1 DEF Exercise, Kind, Channels
    <2>2. op' <= Len(Exercise(Kind)')
      BY <1>3, <2>1, Zenon
    <2>. QED  BY <1>0, <1>1, <2>2 DEF ProgramPlace, At
  <1>. QED  BY <1>4, <1>5, <1>6, <1>7 DEF ClientInv

\* It finishes the stream, and goes on to the next channel or to the end of Control.
LEMMA EndStreamStep ==
    ASSUME ClientInv, EndStream
    PROVE  ClientInv'
  <1>0. /\ TypeInv /\ TestClientTypeOK /\ StreamsOpened /\ TasksSpawned /\ ProgramPlace
    BY DEF ClientInv
  <1>1. /\ UNCHANGED <<connected, fromClient, finished, read, toClient, phase, grant, handlers,
                       heard, secret, cut, op, receivers>>
        /\ pc = "exercise" /\ turn' = turn + 1
        /\ \/ turn = Len(Channels) /\ pc' = "endControl"
           \/ turn # Len(Channels) /\ pc' = "open"
    BY DEF EndStream, serverVars
  <1>2. /\ Len(fromClient) = turn + 2 /\ heard = turn + 4 /\ Len(streams) = turn
        /\ turn \in 1 .. 4 /\ ~finished
    <2>1. turn \in Nat /\ turn >= 1
      BY <1>0, Lengths
    <2>. QED  BY <1>0, <1>1, <2>1 DEF ProgramPlace, At
  <1>3. streams \in Seq(Stream)
    BY <1>0 DEF TypeInv, TypeOK
  <1>4. /\ streams' \in Seq(Stream) /\ Len(streams') = Len(streams)
        /\ StreamsOpened' /\ TasksSpawned'
    <2>1. CASE connected
      <3>1. PICK t \in Stream : t = streams[turn]
        BY <1>2, <1>3, ElementOfSeq
      <3>2. PICK x : x = [t EXCEPT !.fin = TRUE]
        OBVIOUS
      <3>3. x \in Stream /\ x.dir = streams[turn].dir /\ x.sent = streams[turn].sent
        BY <3>1, <3>2 DEF Stream
      <3>4. streams' = [streams EXCEPT ![turn] = x]
        BY <2>1, <3>1, <3>2, Zenon DEF EndStream, Mine
      <3>5. \A i \in DOMAIN x.sent : x.sent[i] # "bad"
        BY <1>0, <1>2, <3>3 DEF StreamsOpened
      <3>6. turn \in 1 .. Len(streams)
        BY <1>2
      <3>. QED  BY <1>1, <3>3, <3>4, <3>5, <3>6, StreamChanged
    <2>2. CASE ~connected
      <3>1. streams' = streams
        BY <2>2 DEF EndStream
      <3>. QED  BY <1>0, <1>1, <1>3, <3>1 DEF StreamsOpened, TasksSpawned, Channels, Direction
    <2>. QED  BY <2>1, <2>2
  <1>5. ClientSaid' /\ ServerSaid' /\ ServerPlace' /\ FaithfulClientIsServed'
    BY <1>1, ServerUntouched
  <1>6. TypeInv'
    BY <1>0, <1>1, <1>4 DEF TypeInv, TypeOK
  <1>7. TestClientTypeOK'
    <2>1. turn' \in 1 .. Len(Channels) + 1 /\ pc' \in {"endControl", "open"}
      BY <1>1, <1>2, ChannelFacts
    <2>. QED  BY <1>0, <1>1, <1>6, <2>1 DEF TestClientTypeOK, TypeInv, Channels
  <1>8. ProgramPlace'
    <2>1. /\ heard <= Len(toClient)
          /\ Len(receivers) <= 2
          /\ Len(receivers) >= 1 => receivers[1] = "DISPLAY" /\ heard >= 4
          /\ Len(receivers) = 2 => receivers[2] = "CURSOR"
      BY <1>0 DEF ProgramPlace
    <2>2. CASE pc' = "endControl"
      <3>1. At(6, 8, 4)' /\ ~finished'
        BY <1>1, <1>2, <1>4, <2>2, ChannelFacts DEF At
      <3>. QED  BY <1>1, <2>1, <2>2, <3>1 DEF ProgramPlace
    <2>3. CASE pc' = "open"
      <3>1. turn + 1 <= 4 /\ ~finished'
        BY <1>1, <1>2, <2>3, ChannelFacts
      <3>2. At(turn + 1, turn + 3, turn - 1)'
        BY <1>1, <1>2, <1>4 DEF At
      <3>. QED  BY <1>1, <2>1, <2>3, <3>1, <3>2 DEF ProgramPlace
    <2>. QED  BY <1>1, <2>2, <2>3
  <1>. QED  BY <1>4, <1>5, <1>6, <1>7, <1>8 DEF ClientInv

\* It finishes Control, if there is a connection left to finish it on.
LEMMA EndControlStep ==
    ASSUME ClientInv, EndControl
    PROVE  ClientInv'
  <1>0. /\ TypeInv /\ TestClientTypeOK /\ ClientSaid /\ ServerSaid /\ StreamsOpened
        /\ TasksSpawned /\ ProgramPlace /\ ServerPlace /\ FaithfulClientIsServed
    BY DEF ClientInv
  <1>1. /\ UNCHANGED <<connected, fromClient, streams, read, toClient, phase, grant, handlers,
                       heard, secret, cut, turn, op, receivers>>
        /\ pc = "endControl" /\ pc' = "waitDisplay" /\ finished' = connected
    BY DEF EndControl, serverVars, clientState
  <1>2. Len(fromClient) = 6
    BY <1>0, <1>1 DEF ProgramPlace, At
  <1>3. TypeInv'
    <2>1. finished' \in BOOLEAN
      BY <1>0, <1>1 DEF TypeInv, TypeOK
    <2>. QED  BY <1>0, <1>1, <2>1 DEF TypeInv, TypeOK
  <1>4. TestClientTypeOK'
    BY <1>0, <1>1, <1>3 DEF TestClientTypeOK, TypeInv
  <1>5. ClientSaid'
    <2>1. Hello' = Hello /\ PinRequest' = PinRequest
      BY <1>1 DEF Hello, PinRequest
    <2>. QED  BY <1>0, <1>1, <1>2, <2>1 DEF ClientSaid, OpenFrame, Channels
  <1>6. ServerSaid' /\ ServerPlace' /\ StreamsOpened' /\ TasksSpawned' /\ FaithfulClientIsServed'
    BY <1>0, <1>1 DEF ServerSaid, ServerPlace, StreamsOpened, TasksSpawned,
                      FaithfulClientIsServed, Done, Channels, Direction, IsSender
  <1>7. ProgramPlace'
    BY <1>0, <1>1 DEF ProgramPlace
  <1>. QED  BY <1>3, <1>4, <1>5, <1>6, <1>7 DEF ClientInv

\* It waits for the receivers, closes, or gives up: from there on it does nothing more.
LEMMA EndingStep ==
    ASSUME ClientInv, AwaitReceivers \/ Close \/ GiveUp
    PROVE  ClientInv'
  <1>0. /\ TypeInv /\ TestClientTypeOK /\ ClientSaid /\ ServerSaid /\ StreamsOpened
        /\ TasksSpawned /\ ProgramPlace /\ ServerPlace /\ FaithfulClientIsServed
    BY DEF ClientInv
  <1>1. /\ UNCHANGED <<clientVars, serverVars, heard, secret, cut, clientState>>
        /\ connected' \in {connected, FALSE}
        /\ pc' \in {"waitCursor", "close", "done", "failed"}
    BY DEF AwaitReceivers, Close, GiveUp, vars
  <1>2. UNCHANGED <<fromClient, finished, streams, read, toClient, phase, grant, handlers,
                    heard, secret, cut, turn, op, receivers>>
    BY <1>1, Zenon DEF clientVars, serverVars, clientState
  <1>3. TypeInv'
    BY <1>0, <1>1, <1>2 DEF TypeInv, TypeOK
  <1>4. TestClientTypeOK'
    BY <1>0, <1>1, <1>2, <1>3 DEF TestClientTypeOK, TypeInv
  <1>5. ClientSaid'
    <2>1. Hello' = Hello /\ PinRequest' = PinRequest
      BY <1>2 DEF Hello, PinRequest
    <2>. QED  BY <1>0, <1>2, <2>1 DEF ClientSaid, OpenFrame, Channels
  <1>6. ServerSaid' /\ ServerPlace' /\ StreamsOpened' /\ TasksSpawned'
    BY <1>0, <1>2 DEF ServerSaid, ServerPlace, StreamsOpened, TasksSpawned, Done, Channels, Direction
  <1>7. FaithfulClientIsServed'
    BY <1>0, <1>1, <1>2 DEF FaithfulClientIsServed, IsSender
  <1>8. ProgramPlace'
    BY <1>0, <1>1, <1>2 DEF ProgramPlace
  <1>. QED  BY <1>3, <1>4, <1>5, <1>6, <1>7, <1>8 DEF ClientInv

-----------------------------------------------------------------------------
(* The server.  It moves in lock step too: what it reads next is what the      *)
(* client says where the server is.                                            *)

\* A step of the server leaves the program where it is.
LEMMA ProgramUntouched ==
    ASSUME ClientInv, TypeInv', Len(toClient') >= Len(toClient),
           UNCHANGED <<fromClient, finished, streams, pc, heard, secret, turn, op, receivers>>,
           cut' \in BOOLEAN
    PROVE  TestClientTypeOK' /\ ClientSaid' /\ StreamsOpened' /\ ProgramPlace'
  <1>0. /\ TypeInv /\ TestClientTypeOK /\ ClientSaid /\ StreamsOpened /\ ProgramPlace
    BY DEF ClientInv
  <1>1. /\ Len(toClient) \in Nat /\ Len(toClient') \in Nat /\ heard \in Nat /\ heard <= Len(toClient)
    <2>1. toClient' \in Seq(ServerFrame)
      BY DEF TypeInv, TypeOK
    <2>. QED  BY <1>0, <2>1, Lengths, LenProperties DEF ProgramPlace
  <1>2. heard' \in 0 .. Len(toClient') /\ heard' <= Len(toClient')
    BY <1>1
  <1>3. TestClientTypeOK'
    BY <1>0, <1>2 DEF TestClientTypeOK, TypeInv, Channels
  <1>4. ClientSaid'
    <2>1. Hello' = Hello /\ PinRequest' = PinRequest
      BY DEF Hello, PinRequest
    <2>. QED  BY <1>0, <2>1 DEF ClientSaid, OpenFrame, Channels
  <1>5. StreamsOpened'
    BY <1>0 DEF StreamsOpened, Channels, Direction
  <1>6. ProgramPlace'
    <2>1. Exercise(Kind)' = Exercise(Kind)
      BY DEF Exercise, Kind, Channels
    <2>. QED  BY <1>0, <1>2, <2>1 DEF ProgramPlace, At
  <1>. QED  BY <1>3, <1>4, <1>5, <1>6

\* The frame the server reads next, at each place where it reads.
LEMMA NextIsExpected ==
    ASSUME ClientInv, Arrived
    PROVE  /\ phase = "hello" => NextFrame = Hello
           /\ phase = "auth" => NextFrame = PinRequest
           /\ phase = "dispatch" => read - 1 \in 1 .. 4 /\ NextFrame = OpenFrame(read - 1)
  <1>0. /\ TypeInv /\ TestClientTypeOK /\ ClientSaid /\ ServerPlace
    BY DEF ClientInv
  <1>1. read \in Nat /\ Len(fromClient) \in Nat /\ read + 1 <= Len(fromClient)
    BY <1>0, Lengths DEF Arrived
  <1>2. CASE phase = "hello"
    <2>1. read = 0 /\ Len(fromClient) >= 1
      BY <1>0, <1>1, <1>2 DEF ServerPlace, Done
    <2>2. read + 1 = 1
      BY <2>1
    <2>. QED  BY <1>0, <1>2, <2>1, <2>2 DEF NextFrame, ClientSaid
  <1>3. CASE phase = "auth"
    <2>1. read = 1 /\ Len(fromClient) >= 2
      BY <1>0, <1>1, <1>3 DEF ServerPlace, Done
    <2>2. read + 1 = 2
      BY <2>1
    <2>. QED  BY <1>0, <1>3, <2>1, <2>2 DEF NextFrame, ClientSaid
  <1>4. CASE phase = "dispatch"
    <2>1. read >= 2 /\ Len(fromClient) <= 6
      BY <1>0, <1>4 DEF ServerPlace, ClientSaid
    <2>2. PICK k \in 1 .. 4 : k = read - 1
      BY <1>1, <2>1
    <2>3. k + 2 = read + 1 /\ Len(fromClient) >= k + 2
      BY <1>1, <2>2
    <2>4. fromClient[k + 2] = OpenFrame(k)
      BY <1>0, <2>3 DEF ClientSaid
    <2>. QED  BY <1>4, <2>2, <2>3, <2>4 DEF NextFrame
  <1>. QED  BY <1>2, <1>3, <1>4

\* It reads the hello, or the PIN.
LEMMA GreetStep ==
    ASSUME ClientInv, Greet \/ Authenticate, TypeInv'
    PROVE  /\ Len(toClient') >= Len(toClient)
           /\ ServerSaid' /\ TasksSpawned' /\ ServerPlace' /\ FaithfulClientIsServed'
  <1>0. /\ TypeInv /\ TestClientTypeOK /\ ServerSaid /\ TasksSpawned /\ ServerPlace
        /\ FaithfulClientIsServed
    BY DEF ClientInv
  <1>1. /\ UNCHANGED <<connected, fromClient, finished, streams, grant, handlers>>
        /\ read' = read + 1
        /\ \/ phase = "hello" /\ phase' = "auth"
           \/ phase = "auth" /\ phase' \in {"announceDisplay", "closed"}
    BY DEF Greet, Authenticate, clientVars
  <1>2. PICK f : toClient' = Append(toClient, f)
    BY DEF Greet, Authenticate, Write
  <1>3. PICK w \in Nat : w = Len(toClient)
    BY <1>0, Lengths
  <1>4. Len(toClient') = w + 1
    <2>1. Len(Append(toClient, f)) = Len(toClient) + 1
      BY <1>0 DEF TypeInv, TypeOK
    <2>. QED  BY <1>2, <1>3, <2>1
  <1>5. /\ phase = "hello" => read = 0 /\ w = 0 /\ Len(handlers) = 0
        /\ phase = "auth" => read = 1 /\ w = 1 /\ Len(handlers) = 0
    BY <1>0, <1>3 DEF ServerPlace, Done
  <1>6. Len(toClient') \in {1, 2} /\ Len(toClient') >= Len(toClient)
    BY <1>1, <1>3, <1>4, <1>5
  <1>7. ServerSaid'
    BY <1>6 DEF ServerSaid
  <1>8. TasksSpawned'
    BY <1>0, <1>1 DEF TasksSpawned, Channels
  <1>9. ServerPlace'
    BY <1>1, <1>4, <1>5 DEF ServerPlace, Done
  <1>10. FaithfulClientIsServed'
    BY <1>0, <1>1 DEF FaithfulClientIsServed, IsSender
  <1>. QED  BY <1>6, <1>7, <1>8, <1>9, <1>10

\* It announces one of its two streams.
LEMMA AnnounceStep ==
    ASSUME ClientInv, AnnounceDisplay \/ AnnounceCursor, TypeInv'
    PROVE  /\ Len(toClient') >= Len(toClient)
           /\ ServerSaid' /\ TasksSpawned' /\ ServerPlace' /\ FaithfulClientIsServed'
  <1>0. /\ TypeInv /\ TestClientTypeOK /\ ServerSaid /\ TasksSpawned /\ ServerPlace
        /\ FaithfulClientIsServed
    BY DEF ClientInv
  <1>1. /\ UNCHANGED <<connected, fromClient, finished, streams, read, grant, handlers>>
        /\ \/ /\ phase = "announceDisplay" /\ phase' = "openDisplay"
              /\ toClient' = Append(toClient, Announce("DISPLAY", DisplayId))
           \/ /\ phase = "announceCursor" /\ phase' = "openCursor"
              /\ toClient' = Append(toClient, Announce("CURSOR", CursorId))
    BY DEF AnnounceDisplay, AnnounceCursor, AnnounceSender, clientVars, Write
  <1>2. PICK f \in ServerFrame :
            /\ toClient' = Append(toClient, f)
            /\ phase = "announceDisplay" => f = Announce("DISPLAY", DisplayId)
            /\ phase = "announceCursor" => f = Announce("CURSOR", CursorId)
    <2>1. /\ Announce("DISPLAY", DisplayId) \in ServerFrame
          /\ Announce("CURSOR", CursorId) \in ServerFrame
      BY Zenon DEF ServerFrame
    <2>2. CASE phase = "announceDisplay"
      BY <1>1, <2>1, <2>2
    <2>3. CASE phase = "announceCursor"
      BY <1>1, <2>1, <2>3
    <2>. QED  BY <1>1, <2>2, <2>3
  <1>3. PICK w \in Nat : w = Len(toClient)
    BY <1>0, Lengths
  <1>4. /\ Len(toClient') = w + 1 /\ toClient'[w + 1] = f
        /\ \A i \in 1 .. w : toClient'[i] = toClient[i]
    <2>1. toClient \in Seq(ServerFrame)
      BY <1>0 DEF TypeInv, TypeOK
    <2>. QED  BY <1>2, <1>3, <2>1, AppendProperties
  <1>5. /\ phase = "announceDisplay" => read = 2 /\ w = 2 /\ Len(handlers) = 0
        /\ phase = "announceCursor" => read = 2 /\ w = 3 /\ Len(handlers) = 1
    BY <1>0, <1>3 DEF ServerPlace, Done
  <1>6. TasksSpawned' /\ FaithfulClientIsServed'
    BY <1>0, <1>1 DEF TasksSpawned, FaithfulClientIsServed, Channels, IsSender
  <1>7. CASE phase = "announceDisplay"
    <2>1. Len(toClient') = 3 /\ toClient'[3] = Announce("DISPLAY", DisplayId)
      BY <1>2, <1>4, <1>5, <1>7
    <2>2. ServerSaid'
      BY <2>1 DEF ServerSaid
    <2>3. ServerPlace'
      <3>1. phase' = "openDisplay" /\ Done(2, 3, 0)'
        BY <1>1, <1>5, <1>7, <2>1 DEF Done
      <3>. QED  BY <3>1 DEF ServerPlace
    <2>4. Len(toClient') >= Len(toClient)
      BY <1>3, <1>4
    <2>. QED  BY <1>6, <2>2, <2>3, <2>4
  <1>8. CASE phase = "announceCursor"
    <2>1. /\ Len(toClient') = 4 /\ toClient'[3] = toClient[3]
          /\ toClient'[4] = Announce("CURSOR", CursorId)
      BY <1>2, <1>4, <1>5, <1>8
    <2>2. toClient[3] = Announce("DISPLAY", DisplayId)
      <3>1. Len(toClient) >= 3 /\ ServerSaid
        BY <1>0, <1>3, <1>5, <1>8
      <3>. QED  BY <3>1 DEF ServerSaid
    <2>3. ServerSaid'
      BY <2>1, <2>2 DEF ServerSaid, Announce
    <2>4. ServerPlace'
      <3>1. phase' = "openCursor" /\ Done(2, 4, 1)'
        BY <1>1, <1>5, <1>8, <2>1 DEF Done
      <3>. QED  BY <3>1 DEF ServerPlace
    <2>5. Len(toClient') >= Len(toClient)
      BY <1>3, <1>4
    <2>. QED  BY <1>6, <2>3, <2>4, <2>5
  <1>. QED  BY <1>1, <1>7, <1>8

\* It opens one of its two streams, and spawns the sender.
LEMMA OpenSenderStep ==
    ASSUME ClientInv, OpenDisplay \/ OpenCursor, TypeInv'
    PROVE  /\ Len(toClient') >= Len(toClient)
           /\ ServerSaid' /\ TasksSpawned' /\ ServerPlace' /\ FaithfulClientIsServed'
  <1>0. /\ TypeInv /\ TestClientTypeOK /\ ServerSaid /\ TasksSpawned /\ ServerPlace
        /\ FaithfulClientIsServed
    BY DEF ClientInv
  <1>1. /\ UNCHANGED <<connected, fromClient, finished, streams, read, grant, toClient>>
        /\ \/ /\ phase = "openDisplay" /\ phase' = "announceCursor"
              /\ handlers' = Append(handlers, Task("DISPLAY", DisplayId, 0))
           \/ /\ phase = "openCursor" /\ phase' = "dispatch"
              /\ handlers' = Append(handlers, Task("CURSOR", CursorId, 0))
    BY DEF OpenDisplay, OpenCursor, OpenSender, clientVars
  <1>2. PICK t \in Handler :
            /\ handlers' = Append(handlers, t)
            /\ phase = "openDisplay" => t.kind = "DISPLAY"
            /\ phase = "openCursor" => t.kind = "CURSOR"
            /\ t.stream = 0 /\ t.st = "running"
    <2>1. /\ Task("DISPLAY", DisplayId, 0) \in Handler
          /\ Task("CURSOR", CursorId, 0) \in Handler
      BY DEF Task, Handler, SenderKinds, HandlerStates
    <2>2. CASE phase = "openDisplay"
      BY <1>1, <2>1, <2>2 DEF Task
    <2>3. CASE phase = "openCursor"
      BY <1>1, <2>1, <2>3 DEF Task
    <2>. QED  BY <1>1, <2>2, <2>3
  <1>3. PICK n \in Nat : n = Len(handlers)
    BY <1>0, Lengths
  <1>4. /\ DOMAIN handlers' = 1 .. n + 1 /\ DOMAIN handlers = 1 .. n
        /\ Len(handlers') = n + 1 /\ handlers'[n + 1] = t
        /\ \A i \in 1 .. n : handlers'[i] = handlers[i]
    <2>1. handlers \in Seq(Handler)
      BY <1>0 DEF TypeInv, TypeOK
    <2>. QED  BY <1>2, <1>3, <2>1, AppendProperties, LenProperties
  <1>5. /\ phase = "openDisplay" => read = 2 /\ Len(toClient) = 3 /\ n = 0
        /\ phase = "openCursor" => read = 2 /\ Len(toClient) = 4 /\ n = 1
    BY <1>0, <1>3 DEF ServerPlace, Done
  <1>6. ServerSaid' /\ ServerPlace'
    <2>1. ServerSaid'
      BY <1>0, <1>1 DEF ServerSaid
    <2>2. CASE phase = "openDisplay"
      <3>1. phase' = "announceCursor" /\ Done(2, 3, 1)'
        BY <1>1, <1>4, <1>5, <2>2 DEF Done
      <3>. QED  BY <2>1, <3>1 DEF ServerPlace
    <2>3. CASE phase = "openCursor"
      <3>1. phase' = "dispatch" /\ read' >= 2 /\ Done(read, read + 2, read)'
        BY <1>1, <1>4, <1>5, <2>3 DEF Done
      <3>. QED  BY <2>1, <3>1 DEF ServerPlace
    <2>. QED  BY <1>1, <2>2, <2>3
  <1>7. TasksSpawned'
    <2>1. CASE phase = "openDisplay"
      <3>1. Len(handlers') = 1 /\ handlers'[1].kind = "DISPLAY" /\ handlers'[1].stream = 0
        BY <1>2, <1>4, <1>5, <2>1
      <3>. QED  BY <3>1 DEF TasksSpawned
    <2>2. CASE phase = "openCursor"
      <3>1. /\ Len(handlers') = 2 /\ handlers'[1] = handlers[1]
            /\ handlers'[2].kind = "CURSOR" /\ handlers'[2].stream = 0
        BY <1>2, <1>4, <1>5, <2>2
      <3>2. handlers[1].kind = "DISPLAY" /\ handlers[1].stream = 0
        BY <1>0, <1>3, <1>5, <2>2 DEF TasksSpawned
      <3>. QED  BY <3>1, <3>2 DEF TasksSpawned
    <2>. QED  BY <1>1, <2>1, <2>2
  <1>8. FaithfulClientIsServed'
    <2>1. ASSUME connected', NEW h \in DOMAIN handlers', ~IsSender(h)'
          PROVE  handlers'[h].st # "error"
      <3>1. CASE h = n + 1
        BY <1>2, <1>4, <3>1
      <3>2. CASE h \in 1 .. n
        BY <1>0, <1>1, <1>4, <2>1, <3>2 DEF FaithfulClientIsServed, IsSender
      <3>. QED  BY <1>4, <3>1, <3>2
    <2>2. connected' => phase' # "failed"
      BY <1>1
    <2>. QED  BY <2>1, <2>2 DEF FaithfulClientIsServed
  <1>9. Len(toClient') >= Len(toClient)
    BY <1>0, <1>1, Lengths
  <1>. QED  BY <1>6, <1>7, <1>8, <1>9

\* It grants the channel the client asks for: there is no other frame to read.
LEMMA AnswerStep ==
    ASSUME ClientInv, IgnoreFrame \/ AnswerOpenChannel, TypeInv'
    PROVE  /\ Len(toClient') >= Len(toClient)
           /\ ServerSaid' /\ TasksSpawned' /\ ServerPlace' /\ FaithfulClientIsServed'
  <1>0. /\ TypeInv /\ TestClientTypeOK /\ ServerSaid /\ TasksSpawned /\ ServerPlace
        /\ FaithfulClientIsServed
    BY DEF ClientInv
  <1>1. phase = "dispatch" /\ Arrived
    BY DEF IgnoreFrame, AnswerOpenChannel
  <1>2. PICK k \in 1 .. 4 : k = read - 1 /\ NextFrame = OpenFrame(k)
    BY <1>1, NextIsExpected
  <1>3. /\ NextFrame.type = "OpenChannel" /\ NextFrame.kind = Channels[k] /\ NextFrame.id = k
        /\ OpenStatus(NextFrame.kind) = "OK" /\ k \in ChannelIds
    BY <1>2, ChannelFacts DEF OpenFrame, OpenStatus
  <1>4. /\ UNCHANGED <<connected, fromClient, finished, streams, handlers>>
        /\ read' = read + 1 /\ phase' = "bind" /\ grant'.kind = Channels[k]
        /\ toClient' = Append(toClient, Ack(k, "OK"))
    <2>1. AnswerOpenChannel
      BY <1>3 DEF IgnoreFrame
    <2>. QED  BY <1>3, <2>1 DEF AnswerOpenChannel, Write, clientVars
  <1>5. PICK f \in ServerFrame : f = Ack(k, "OK")
    BY <1>3 DEF ServerFrame, Ack, Statuses
  <1>6. /\ Len(toClient) = k + 3 /\ Len(handlers) = k + 1 /\ read = k + 1
    <2>1. read \in Nat
      BY <1>0, Lengths
    <2>2. read >= 2 /\ Len(toClient) = read + 2 /\ Len(handlers) = read
      BY <1>0, <1>1 DEF ServerPlace, Done
    <2>. QED  BY <1>2, <2>1, <2>2
  <1>7. /\ Len(toClient') = k + 4 /\ toClient'[k + 4] = f
        /\ \A i \in 1 .. k + 3 : toClient'[i] = toClient[i]
    <2>1. toClient \in Seq(ServerFrame)
      BY <1>0 DEF TypeInv, TypeOK
    <2>2. /\ Len(toClient') = Len(toClient) + 1 /\ toClient'[Len(toClient) + 1] = f
          /\ \A i \in 1 .. Len(toClient) : toClient'[i] = toClient[i]
      BY <1>4, <1>5, <2>1, AppendProperties
    <2>3. (k + 3) + 1 = k + 4
      OBVIOUS
    <2>. QED  BY <1>6, <2>2, <2>3
  <1>8. ServerSaid'
    <2>1. /\ toClient[3] = Announce("DISPLAY", DisplayId)
          /\ toClient[4] = Announce("CURSOR", CursorId)
      BY <1>0, <1>6 DEF ServerSaid
    <2>2. toClient'[3] = toClient[3] /\ toClient'[4] = toClient[4] /\ Len(toClient') <= 8
      BY <1>7
    <2>3. ASSUME NEW j \in 1 .. 4, Len(toClient') >= j + 4 PROVE toClient'[j + 4] = Ack(j, "OK")
      <3>1. CASE j = k
        BY <1>5, <1>7, <3>1
      <3>2. CASE j # k
        <4>1. j + 4 \in 1 .. k + 3 /\ Len(toClient) >= j + 4
          BY <1>6, <1>7, <2>3, <3>2
        <4>2. toClient[j + 4] = Ack(j, "OK")
          BY <1>0, <4>1 DEF ServerSaid
        <4>. QED  BY <1>7, <4>1, <4>2
      <3>. QED  BY <3>1, <3>2
    <2>. QED  BY <2>1, <2>2, <2>3 DEF ServerSaid
  <1>9. ServerPlace'
    <2>1. read' >= 3 /\ Done(read, read + 2, read - 1)' /\ (read - 2)' = k
      BY <1>4, <1>6, <1>7 DEF Done
    <2>2. grant'.kind = Channels[(read - 2)']
      BY <1>4, <2>1
    <2>. QED  BY <1>4, <2>1, <2>2 DEF ServerPlace, Channels
  <1>10. TasksSpawned' /\ FaithfulClientIsServed'
    BY <1>0, <1>4 DEF TasksSpawned, FaithfulClientIsServed, Channels, IsSender
  <1>11. Len(toClient') >= Len(toClient)
    BY <1>6, <1>7
  <1>. QED  BY <1>8, <1>9, <1>10, <1>11

\* It binds the channel just granted to the stream the client opened for it: every
\* older stream is served, and the client opens no later one before its ack.
LEMMA BindStep ==
    ASSUME ClientInv, BindStream, TypeInv'
    PROVE  /\ Len(toClient') >= Len(toClient)
           /\ ServerSaid' /\ TasksSpawned' /\ ServerPlace' /\ FaithfulClientIsServed'
  <1>0. /\ TypeInv /\ TestClientTypeOK /\ ServerSaid /\ TasksSpawned /\ ServerPlace
        /\ ClientSaid /\ StreamsOpened /\ ProgramPlace /\ FaithfulClientIsServed
    BY DEF ClientInv
  <1>1. /\ UNCHANGED <<connected, fromClient, finished, streams, read, toClient>>
        /\ phase = "bind" /\ phase' = "dispatch"
    BY DEF BindStream, clientVars
  <1>2. PICK s \in DOMAIN streams :
            /\ s \in Waiting(Direction(grant.kind))
            /\ handlers' = Append(handlers, Task(grant.kind, grant.id, s))
    BY DEF BindStream, IsOldest
  <1>3. /\ read \in Nat /\ Len(fromClient) \in Nat /\ Len(toClient) \in Nat
        /\ Len(streams) \in Nat /\ heard \in Nat
    BY <1>0, Lengths
  <1>4. /\ read >= 3 /\ read <= 6 /\ Len(toClient) = read + 2 /\ Len(handlers) = read - 1
        /\ grant.kind = Channels[read - 2]
    <2>1. read >= 3 /\ Len(toClient) = read + 2 /\ Len(handlers) = read - 1
          /\ grant.kind = Channels[read - 2]
      BY <1>0, <1>1 DEF ServerPlace, Done
    <2>2. read <= Len(fromClient) /\ Len(fromClient) <= 6
      BY <1>0 DEF TypeInv, TypeOK, ClientSaid
    <2>. QED  BY <1>3, <2>1, <2>2
  <1>5. PICK k \in 1 .. 4 : k = read - 2
    BY <1>3, <1>4
  <1>6. Len(handlers) = k + 1 /\ grant.kind = Channels[k] /\ Len(toClient) = k + 4
    BY <1>3, <1>4, <1>5
  <1>7. s \in 1 .. Len(streams) /\ Len(streams) <= k
    <2>1. s \in 1 .. Len(streams)
      BY <1>0, LenProperties DEF TypeInv, TypeOK
    <2>2. Len(streams) + 4 <= heard /\ heard <= Len(toClient)
      BY <1>0, <1>3, <2>1 DEF StreamsOpened, ProgramPlace
    <2>. QED  BY <1>3, <1>6, <2>1, <2>2
  <1>8. s = k
    <2>1. SUFFICES ASSUME s # k PROVE FALSE
      OBVIOUS
    <2>2. s \in 1 .. 4 /\ s + 2 <= Len(handlers)
      BY <1>3, <1>6, <1>7, <2>1
    <2>3. handlers[s + 2].stream = s
      BY <1>0, <2>2 DEF TasksSpawned
    <2>4. s + 2 \in DOMAIN handlers
      <3>1. handlers \in Seq(Handler)
        BY <1>0 DEF TypeInv, TypeOK
      <3>. QED  BY <1>6, <2>2, <3>1, LenProperties
    <2>. QED  BY <1>2, <2>3, <2>4 DEF Waiting
  <1>9. PICK t \in Handler : /\ handlers' = Append(handlers, t) /\ t.kind = Channels[k]
                             /\ t.stream = k /\ t.st = "running"
    <2>1. grant.kind \in SupportedKinds /\ grant.id \in ChannelIds
      BY <1>0, <1>1 DEF TypeInv, Grants
    <2>2. Task(grant.kind, grant.id, s) \in Handler
      BY <1>8, <2>1 DEF Task, Handler, HandlerStates
    <2>. QED  BY <1>2, <1>6, <1>8, <2>2 DEF Task
  <1>10. /\ DOMAIN handlers' = 1 .. k + 2 /\ DOMAIN handlers = 1 .. k + 1
         /\ Len(handlers') = k + 2 /\ handlers'[k + 2] = t
         /\ \A i \in 1 .. k + 1 : handlers'[i] = handlers[i]
    <2>1. handlers \in Seq(Handler)
      BY <1>0 DEF TypeInv, TypeOK
    <2>2. /\ Len(handlers') = Len(handlers) + 1 /\ handlers'[Len(handlers) + 1] = t
          /\ \A i \in 1 .. Len(handlers) : handlers'[i] = handlers[i]
          /\ DOMAIN handlers' = 1 .. Len(handlers) + 1 /\ DOMAIN handlers = 1 .. Len(handlers)
      BY <1>9, <2>1, AppendProperties, LenProperties
    <2>3. (k + 1) + 1 = k + 2
      OBVIOUS
    <2>. QED  BY <1>6, <2>2, <2>3
  <1>11. TasksSpawned'
    <2>1. /\ handlers[1].kind = "DISPLAY" /\ handlers[1].stream = 0
          /\ handlers[2].kind = "CURSOR" /\ handlers[2].stream = 0
      BY <1>0, <1>6 DEF TasksSpawned
    <2>2. handlers'[1] = handlers[1] /\ handlers'[2] = handlers[2] /\ Len(handlers') <= 6
      BY <1>10
    <2>3. ASSUME NEW j \in 1 .. 4, Len(handlers') >= j + 2
          PROVE  j <= Len(streams) /\ handlers'[j + 2].kind = Channels[j]
                 /\ handlers'[j + 2].stream = j
      <3>1. CASE j = k
        BY <1>3, <1>7, <1>8, <1>9, <1>10, <3>1
      <3>2. CASE j # k
        <4>1. j + 2 \in 1 .. k + 1 /\ Len(handlers) >= j + 2
          BY <1>6, <1>10, <2>3, <3>2
        <4>2. /\ j <= Len(streams) /\ handlers[j + 2].kind = Channels[j]
              /\ handlers[j + 2].stream = j
          BY <1>0, <4>1 DEF TasksSpawned
        <4>. QED  BY <1>10, <4>1, <4>2
      <3>. QED  BY <3>1, <3>2
    <2>. QED  BY <1>1, <2>1, <2>2, <2>3 DEF TasksSpawned, Channels
  <1>12. ServerSaid'
    BY <1>0, <1>1 DEF ServerSaid
  <1>13. ServerPlace'
    <2>1. read' >= 2 /\ Done(read, read + 2, read)'
      BY <1>1, <1>3, <1>4, <1>5, <1>10 DEF Done
    <2>. QED  BY <1>1, <2>1 DEF ServerPlace
  <1>14. FaithfulClientIsServed'
    <2>1. ASSUME connected', NEW h \in DOMAIN handlers', ~IsSender(h)'
          PROVE  handlers'[h].st # "error"
      <3>1. CASE h = k + 2
        BY <1>9, <1>10, <3>1
      <3>2. CASE h \in 1 .. k + 1
        BY <1>0, <1>1, <1>10, <2>1, <3>2 DEF FaithfulClientIsServed, IsSender
      <3>. QED  BY <1>10, <3>1, <3>2
    <2>2. connected' => phase' # "failed"
      BY <1>1
    <2>. QED  BY <2>1, <2>2 DEF FaithfulClientIsServed
  <1>15. Len(toClient') >= Len(toClient)
    BY <1>1, <1>3
  <1>. QED  BY <1>11, <1>12, <1>13, <1>14, <1>15

\* It ends: in order, or because the connection is gone.  It never refuses a frame.
LEMMA LeaveStep ==
    ASSUME ClientInv, EndOfControl \/ Finish \/ RejectFrame \/ EarlyEof \/ Disconnected, TypeInv'
    PROVE  /\ Len(toClient') >= Len(toClient)
           /\ ServerSaid' /\ TasksSpawned' /\ ServerPlace' /\ FaithfulClientIsServed'
  <1>0. /\ TypeInv /\ TestClientTypeOK /\ ServerSaid /\ TasksSpawned /\ ServerPlace
        /\ ClientSaid /\ FaithfulClientIsServed
    BY DEF ClientInv
  <1>1. ~RejectFrame
    <2>1. SUFFICES ASSUME RejectFrame PROVE FALSE
      OBVIOUS
    <2>2. Arrived
      BY <2>1 DEF RejectFrame
    <2>3. AcceptableHello(Hello) /\ PinRequest.type = "AuthRequest"
      BY DEF AcceptableHello, Hello, PinRequest
    <2>4. \A k \in 1 .. 4 : OpenFrame(k).type = "OpenChannel"
      BY DEF OpenFrame
    <2>5. /\ phase = "hello" => AcceptableHello(NextFrame)
          /\ phase = "auth" => NextFrame.type = "AuthRequest"
          /\ phase = "dispatch" => NextFrame.type = "OpenChannel"
      BY <2>2, <2>3, <2>4, NextIsExpected
    <2>. QED  BY <2>1, <2>5 DEF RejectFrame
  <1>2. ~EarlyEof
    <2>1. SUFFICES ASSUME EarlyEof PROVE FALSE
      OBVIOUS
    <2>2. read = Len(fromClient) /\ Len(fromClient) = 6
      BY <1>0, <2>1 DEF EarlyEof, ControlEof, ClientSaid
    <2>3. read = 0 \/ read = 1
      BY <1>0, <2>1 DEF EarlyEof, ServerPlace, Done
    <2>. QED  BY <2>2, <2>3
  <1>3. /\ UNCHANGED <<connected, fromClient, finished, streams, toClient, grant, handlers>>
        /\ phase' \in {"drain", "closed", "failed"}
        /\ phase' = "failed" => ~connected
    BY <1>1, <1>2 DEF EndOfControl, Finish, Disconnected, Fail, clientVars
  <1>4. ServerSaid' /\ ServerPlace'
    BY <1>0, <1>3 DEF ServerSaid, ServerPlace
  <1>5. TasksSpawned' /\ FaithfulClientIsServed'
    BY <1>0, <1>3 DEF TasksSpawned, FaithfulClientIsServed, Channels, IsSender
  <1>6. Len(toClient') >= Len(toClient)
    BY <1>0, <1>3, Lengths
  <1>. QED  BY <1>4, <1>5, <1>6

\* A channel task goes on: it fails only with the connection, or with the encoder.
LEMMA TaskStep ==
    ASSUME ClientInv, NEW h \in DOMAIN handlers, ChannelTask(h), TypeInv'
    PROVE  /\ Len(toClient') >= Len(toClient)
           /\ ServerSaid' /\ TasksSpawned' /\ ServerPlace' /\ FaithfulClientIsServed'
  <1>0. /\ TypeInv /\ TestClientTypeOK /\ ServerSaid /\ TasksSpawned /\ ServerPlace
        /\ StreamsOpened /\ FaithfulClientIsServed
    BY DEF ClientInv
  <1>1. UNCHANGED <<connected, fromClient, finished, streams, read, toClient, phase, grant>>
    BY DEF ChannelTask, clientVars
  <1>2. /\ handlers' \in Seq(Handler)
        /\ DOMAIN handlers' = DOMAIN handlers
        /\ Len(handlers') = Len(handlers)
        /\ handlers[h].st = "running"
        /\ \A g \in DOMAIN handlers : g # h => handlers'[g] = handlers[g]
        /\ handlers'[h].kind = handlers[h].kind /\ handlers'[h].stream = handlers[h].stream
    BY <1>0, ChannelTaskEffect DEF TypeInv
  <1>3. \A g \in DOMAIN handlers : /\ handlers'[g].kind = handlers[g].kind
                                   /\ handlers'[g].stream = handlers[g].stream
    BY <1>2
  <1>4. PICK n \in Nat : n = Len(handlers) /\ DOMAIN handlers = 1 .. n
    <2>1. handlers \in Seq(Handler)
      BY <1>0 DEF TypeInv, TypeOK
    <2>. QED  BY <2>1, LenProperties
  <1>5. TasksSpawned'
    <2>1. /\ n >= 1 => handlers'[1].kind = "DISPLAY" /\ handlers'[1].stream = 0
          /\ n >= 2 => handlers'[2].kind = "CURSOR" /\ handlers'[2].stream = 0
      BY <1>0, <1>3, <1>4 DEF TasksSpawned
    <2>2. ASSUME NEW k \in 1 .. 4, n >= k + 2
          PROVE  /\ k <= Len(streams) /\ handlers'[k + 2].kind = Channels[k]
                 /\ handlers'[k + 2].stream = k
      BY <1>0, <1>3, <1>4, <2>2 DEF TasksSpawned
    <2>. QED  BY <1>0, <1>1, <1>2, <1>4, <2>1, <2>2 DEF TasksSpawned, Channels
  <1>6. ServerSaid' /\ ServerPlace'
    BY <1>0, <1>1, <1>2 DEF ServerSaid, ServerPlace, Done, Channels
  <1>7. ASSUME connected, ~IsSender(h) PROVE handlers'[h].st # "error"
    <2>1. ~HandlerError(h)
      <3>1. SUFFICES ASSUME HandlerError(h) PROVE FALSE
        OBVIOUS
      <3>2. HasFrame(h) /\ NextChannelFrame(h) = "bad"
        BY <1>7, <3>1 DEF HandlerError, IsSender, SenderKinds
      <3>3. PICK k \in 1 .. 4 : h = k + 2
        <4>1. n <= 6 /\ h \in 1 .. n
          BY <1>0, <1>4 DEF TasksSpawned
        <4>2. h # 1 /\ h # 2
          BY <1>0, <1>4, <1>7 DEF TasksSpawned, IsSender, SenderKinds
        <4>3. h - 2 \in 1 .. 4 /\ h = (h - 2) + 2
          BY <4>1, <4>2
        <4>. QED  BY <4>3
      <3>4. k \in 1 .. Len(streams) /\ handlers[h].stream = k
        <4>1. Len(streams) \in Nat /\ Len(handlers) >= k + 2
          BY <1>0, <1>4, <3>3, Lengths
        <4>. QED  BY <1>0, <3>3, <4>1 DEF TasksSpawned
      <3>5. PICK t \in Stream : t = streams[k]
        <4>1. streams \in Seq(Stream)
          BY <1>0 DEF TypeInv, TypeOK
        <4>. QED  BY <3>4, <4>1, ElementOfSeq
      <3>6. \A i \in DOMAIN t.sent : t.sent[i] # "bad"
        BY <1>0, <3>4, <3>5 DEF StreamsOpened
      <3>7. PICK c \in Nat : c = handlers[h].count
        <4>1. handlers[h] \in Handler
          <5>1. handlers \in Seq(Handler) /\ h \in 1 .. Len(handlers)
            BY <1>0, <1>4 DEF TypeInv, TypeOK
          <5>. QED  BY <5>1, ElementOfSeq
        <4>. QED  BY <4>1 DEF Handler
      <3>8. c < Len(t.sent) /\ t.sent[c + 1] = "bad"
        BY <3>2, <3>4, <3>5, <3>7, Zenon DEF HasFrame, NextChannelFrame, Served
      <3>9. c + 1 \in DOMAIN t.sent
        <4>1. t.sent \in Seq(ChannelFrame)
          BY <3>5 DEF Stream
        <4>. QED  BY <3>7, <3>8, <4>1, LenProperties
      <3>. QED  BY <3>6, <3>8, <3>9
    <2>2. handlers[h] \in Handler
      <3>1. handlers \in Seq(Handler) /\ h \in 1 .. Len(handlers)
        BY <1>0, <1>4 DEF TypeInv, TypeOK
      <3>. QED  BY <3>1, ElementOfSeq
    <2>3. CASE HandlerEof(h)
      <3>1. handlers' = [handlers EXCEPT ![h].st = "done"]
        BY <2>3 DEF HandlerEof, EndTask
      <3>. QED  BY <2>2, <3>1 DEF Handler
    <2>4. CASE HandleFrame(h)
      <3>1. PICK c : c = Counted(handlers[h])
        OBVIOUS
      <3>2. c.st = "running" /\ Replied(c).st = "running"
        <4>1. c \in Handler
          BY <2>2, <3>1, TaskUpdates
        <4>2. c.st = "running"
          BY <1>2, <2>2, <3>1 DEF Counted, Handler
        <4>. QED  BY <4>1, <4>2 DEF Replied, Handler
      <3>3. \/ handlers' = [handlers EXCEPT ![h] = c]
            \/ handlers' = [handlers EXCEPT ![h] = Replied(c)]
        BY <2>4, <3>1, Zenon DEF HandleFrame
      <3>4. handlers'[h] = c \/ handlers'[h] = Replied(c)
        BY <3>3
      <3>. QED  BY <3>2, <3>4
    <2>. QED  BY <1>7, <2>1, <2>3, <2>4 DEF ChannelTask, SendFrame, SenderDone
  <1>8. FaithfulClientIsServed'
    <2>1. ASSUME connected', NEW g \in DOMAIN handlers', ~IsSender(g)'
          PROVE  handlers'[g].st # "error"
      <3>1. connected /\ g \in DOMAIN handlers /\ ~IsSender(g)
        BY <1>1, <1>2, <1>3, <2>1 DEF IsSender
      <3>2. CASE g = h
        BY <1>7, <3>1, <3>2
      <3>3. CASE g # h
        BY <1>0, <1>2, <3>1, <3>3 DEF FaithfulClientIsServed
      <3>. QED  BY <3>2, <3>3
    <2>2. connected' => phase' # "failed"
      BY <1>0, <1>1 DEF FaithfulClientIsServed
    <2>. QED  BY <2>1, <2>2 DEF FaithfulClientIsServed
  <1>9. Len(toClient') >= Len(toClient)
    BY <1>0, <1>1, Lengths
  <1>. QED  BY <1>5, <1>6, <1>8, <1>9

-----------------------------------------------------------------------------
(* Together. *)

LEMMA ServerStep ==
    ASSUME ClientInv, Server, UNCHANGED clientState
    PROVE  ClientInv'
  <1>0. TypeInv /\ TestClientTypeOK
    BY DEF ClientInv
  <1>1. /\ UNCHANGED <<pc, heard, secret, cut, turn, op, receivers>>
        /\ UNCHANGED <<fromClient, finished, streams>>
    <2>1. UNCHANGED <<pc, heard, secret, cut, turn, op, receivers>>
      BY DEF Server, programVars, clientState
    <2>2. UNCHANGED clientVars
      <3>1. ASSUME SessionTask PROVE UNCHANGED clientVars
        BY <3>1, Zenon
           DEF SessionTask, Advance, Greet, Authenticate, AnnounceDisplay, OpenDisplay, AnnounceCursor,
               OpenCursor, AnnounceSender, OpenSender, IgnoreFrame, AnswerOpenChannel, BindStream,
               EndOfControl, Finish, RejectFrame, EarlyEof, Disconnected, Fail
      <3>2. ASSUME NEW h \in DOMAIN handlers, ChannelTask(h) PROVE UNCHANGED clientVars
        BY <3>2, Zenon DEF ChannelTask
      <3>. QED  BY <3>1, <3>2 DEF Server
    <2>. QED  BY <2>1, <2>2 DEF clientVars
  <1>2. TypeInv'
    <2>1. CASE SessionTask
      BY <1>0, <2>1, TypeSessionTask
    <2>2. CASE \E h \in DOMAIN handlers : ChannelTask(h)
      <3>1. [Next]_vars
        BY <2>2 DEF Next
      <3>. QED  BY <1>0, <3>1, TypeStep
    <2>. QED  BY <2>1, <2>2 DEF Server
  <1>3. /\ Len(toClient') >= Len(toClient)
        /\ ServerSaid' /\ TasksSpawned' /\ ServerPlace' /\ FaithfulClientIsServed'
    <2>1. CASE Greet \/ Authenticate
      BY <1>2, <2>1, GreetStep
    <2>2. CASE AnnounceDisplay \/ AnnounceCursor
      BY <1>2, <2>2, AnnounceStep
    <2>3. CASE OpenDisplay \/ OpenCursor
      BY <1>2, <2>3, OpenSenderStep
    <2>4. CASE IgnoreFrame \/ AnswerOpenChannel
      BY <1>2, <2>4, AnswerStep
    <2>5. CASE BindStream
      BY <1>2, <2>5, BindStep
    <2>6. CASE EndOfControl \/ Finish \/ RejectFrame \/ EarlyEof \/ Disconnected
      BY <1>2, <2>6, LeaveStep
    <2>7. CASE \E h \in DOMAIN handlers : ChannelTask(h)
      BY <1>2, <2>7, TaskStep
    <2>. QED  BY <2>1, <2>2, <2>3, <2>4, <2>5, <2>6, <2>7 DEF Server, SessionTask, Advance
  <1>4. TestClientTypeOK' /\ ClientSaid' /\ StreamsOpened' /\ ProgramPlace'
    <2>1. cut' \in BOOLEAN
      BY <1>0, <1>1 DEF TestClientTypeOK
    <2>. QED  BY <1>1, <1>2, <1>3, <2>1, ProgramUntouched
  <1>. QED  BY <1>2, <1>3, <1>4 DEF ClientInv

\* The connection goes, with the server or with the network.
LEMMA ConnectionStep ==
    ASSUME ClientInv, ServerDropsConnection \/ NetworkFails, UNCHANGED clientState
    PROVE  ClientInv'
  <1>0. /\ TypeInv /\ TestClientTypeOK /\ ServerSaid /\ TasksSpawned /\ ServerPlace
    BY DEF ClientInv
  <1>1. /\ UNCHANGED <<fromClient, finished, streams, read, toClient, phase, grant, handlers>>
        /\ UNCHANGED <<pc, heard, secret, turn, op, receivers>>
        /\ connected' = FALSE /\ cut' \in {cut, TRUE}
    BY DEF ServerDropsConnection, NetworkFails, ConnectionLost, clientVars, serverVars,
           programVars, clientState
  <1>2. TypeInv'
    BY <1>0, <1>1 DEF TypeInv, TypeOK
  <1>3. ServerSaid' /\ ServerPlace' /\ TasksSpawned' /\ Len(toClient') >= Len(toClient)
    BY <1>0, <1>1, Lengths DEF ServerSaid, ServerPlace, TasksSpawned, Done, Channels
  <1>4. FaithfulClientIsServed'
    BY <1>1 DEF FaithfulClientIsServed
  <1>5. TestClientTypeOK' /\ ClientSaid' /\ StreamsOpened' /\ ProgramPlace'
    <2>1. cut' \in BOOLEAN
      BY <1>0, <1>1 DEF TestClientTypeOK
    <2>. QED  BY <1>1, <1>2, <1>3, <2>1, ProgramUntouched
  <1>. QED  BY <1>2, <1>3, <1>4, <1>5 DEF ClientInv

LEMMA ClientInitial == TestClientInit => ClientInv
  <1>. SUFFICES ASSUME TestClientInit PROVE ClientInv
    OBVIOUS
  <1>1. Init /\ pc = "hello" /\ heard = 0 /\ secret \in Credentials /\ cut = FALSE
        /\ turn = 1 /\ op = 1 /\ receivers = <<>>
    BY DEF TestClientInit, ProgramInit
  <1>2. /\ fromClient = <<>> /\ toClient = <<>> /\ streams = <<>> /\ handlers = <<>>
        /\ Len(<<>>) = 0 /\ DOMAIN <<>> = {} /\ read = 0 /\ ~finished /\ phase = "hello"
    BY <1>1, EmptySeq DEF Init
  <1>3. TypeInv
    BY <1>1, TypeInit
  <1>4. TestClientTypeOK
    <2>1. receivers \in Seq(SenderKinds) /\ turn \in 1 .. Len(Channels) + 1
          /\ op \in 1 .. 4 /\ heard \in 0 .. Len(toClient)
      BY <1>1, <1>2, EmptySeq, ChannelFacts
    <2>. QED  BY <1>1, <1>2, <1>3, <2>1 DEF TestClientTypeOK, TypeInv
  <1>5. ClientSaid /\ ServerSaid /\ StreamsOpened /\ TasksSpawned
    BY <1>2 DEF ClientSaid, ServerSaid, StreamsOpened, TasksSpawned
  <1>6. ProgramPlace /\ ServerPlace
    BY <1>1, <1>2 DEF ProgramPlace, At, ServerPlace, Done
  <1>7. FaithfulClientIsServed
    BY <1>2 DEF FaithfulClientIsServed
  <1>. QED  BY <1>3, <1>4, <1>5, <1>6, <1>7 DEF ClientInv

LEMMA ClientStep == ClientInv /\ [TestClientNext]_allVars => ClientInv'
  <1>. SUFFICES ASSUME ClientInv, [TestClientNext]_allVars PROVE ClientInv'
    OBVIOUS
  <1>1. CASE Handshake
    <2>1. UNCHANGED clientState /\ (Hears \/ \E f : Speaks(f))
      BY <1>1, Zenon DEF Handshake, Hears, Speaks
    <2>. QED  BY <2>1, SayStep, HearStep
  <1>2. CASE OpenChannel
    <2>1. UNCHANGED clientState /\ (Hears \/ \E f : Speaks(f))
      BY <1>2, Zenon DEF OpenChannel, Hears, Speaks, OpenFrame, Kind
    <2>. QED  BY <2>1, SayStep, HearStep
  <1>3. CASE AcceptStream
    BY <1>3, AcceptStreamStep
  <1>4. CASE OpenStream
    BY <1>4, OpenStreamStep
  <1>5. CASE WriteOnStream
    BY <1>5, WriteOnStreamStep
  <1>6. CASE ReadAnswer
    BY <1>6, ReadAnswerStep
  <1>7. CASE EndStream
    BY <1>7, EndStreamStep
  <1>8. CASE AwaitReceivers \/ Close \/ GiveUp
    BY <1>8, EndingStep
  <1>9. CASE Server /\ UNCHANGED clientState
    BY <1>9, ServerStep
  <1>10. CASE (ServerDropsConnection \/ NetworkFails) /\ UNCHANGED clientState
    BY <1>10, ConnectionStep
  <1>11. CASE UNCHANGED allVars
    <2>0. /\ TypeInv /\ TestClientTypeOK /\ ServerSaid /\ TasksSpawned /\ ServerPlace
          /\ FaithfulClientIsServed
      BY DEF ClientInv
    <2>1. /\ UNCHANGED <<connected, fromClient, finished, streams, read, toClient, phase, grant,
                         handlers>>
          /\ UNCHANGED <<pc, heard, secret, cut, turn, op, receivers>>
      BY <1>11, Zenon DEF allVars, vars, clientVars, serverVars, programVars, clientState
    <2>2. TypeInv'
      BY <2>0, <2>1 DEF TypeInv, TypeOK
    <2>3. ServerSaid' /\ ServerPlace' /\ TasksSpawned' /\ Len(toClient') >= Len(toClient)
      BY <2>0, <2>1, Lengths DEF ServerSaid, ServerPlace, TasksSpawned, Done, Channels
    <2>4. FaithfulClientIsServed'
      BY <2>0, <2>1 DEF FaithfulClientIsServed, IsSender
    <2>5. cut' \in BOOLEAN
      BY <2>0, <2>1 DEF TestClientTypeOK
    <2>6. TestClientTypeOK' /\ ClientSaid' /\ StreamsOpened' /\ ProgramPlace'
      BY <2>1, <2>2, <2>3, <2>5, ProgramUntouched
    <2>. QED  BY <2>2, <2>3, <2>4, <2>6 DEF ClientInv
  <1>12. CASE EndControl
    BY <1>12, EndControlStep
  <1>. QED  BY <1>1, <1>2, <1>3, <1>4, <1>5, <1>6, <1>7, <1>8, <1>9, <1>10, <1>11, <1>12
            DEF TestClientNext, Program

LEMMA ClientInvariance == TestClientSpec => []ClientInv
  BY ClientInitial, ClientStep, PTL DEF TestClientSpec

\* Every variable of the program and of the session it talks to keeps its type.
THEOREM TestClientTypeCorrect == TestClientSpec => []TestClientTypeOK
  <1>1. ClientInv => TestClientTypeOK
    BY DEF ClientInv
  <1>. QED  BY <1>1, ClientInvariance, PTL

\* Every stream the program opens is served by the handler of the channel it opened it
\* for, though nothing on the wire ties the two (StreamsServeTheirChannel).
THEOREM StreamsServeTheirChannelHolds == TestClientSpec => []StreamsServeTheirChannel
  <1>1. ClientInv => StreamsServeTheirChannel
    <2>. SUFFICES ASSUME ClientInv, NEW h \in DOMAIN handlers, handlers[h].stream # 0
                  PROVE  handlers[h].kind = Channels[handlers[h].stream]
      BY DEF StreamsServeTheirChannel
    <2>1. TypeInv /\ TasksSpawned
      BY DEF ClientInv
    <2>2. PICK n \in Nat : n = Len(handlers) /\ DOMAIN handlers = 1 .. n
      BY <2>1, LenProperties DEF TypeInv, TypeOK
    <2>3. n <= 6 /\ h # 1 /\ h # 2
      BY <2>1, <2>2 DEF TasksSpawned
    <2>4. h - 2 \in 1 .. 4 /\ h = (h - 2) + 2
      BY <2>2, <2>3
    <2>5. PICK k \in 1 .. 4 : h = k + 2
      BY <2>4
    <2>. QED  BY <2>1, <2>2, <2>5 DEF TasksSpawned
  <1>. QED  BY <1>1, ClientInvariance, PTL

\* The ack the program goes on with is the one for the channel it asked for, though it does
\* not look at the id (AckIsMine).
THEOREM AckIsMineHolds == TestClientSpec => []AckIsMine
  <1>1. ClientInv => AckIsMine
    <2>. SUFFICES ASSUME ClientInv, pc \in {"stream", "exercise"}
                  PROVE  toClient[heard] = Ack(turn, "OK")
      BY DEF AckIsMine
    <2>1. TypeInv /\ TestClientTypeOK /\ ServerSaid /\ ProgramPlace
      BY DEF ClientInv
    <2>2. heard = turn + 4 /\ turn <= 4 /\ heard <= Len(toClient)
      BY <2>1 DEF ProgramPlace, At
    <2>3. turn \in 1 .. 4
      BY <2>1, <2>2, Lengths
    <2>. QED  BY <2>1, <2>2, <2>3 DEF ServerSaid
  <1>. QED  BY <1>1, ClientInvariance, PTL

\* The streams the program accepts come in the order they were announced on Control
\* (StreamsComeAsAnnounced): the first is Display's and the second Cursor's.
THEOREM StreamsComeAsAnnouncedHolds == TestClientSpec => []StreamsComeAsAnnounced
  <1>1. ClientInv => StreamsComeAsAnnounced
    <2>. SUFFICES ASSUME ClientInv, NEW i \in DOMAIN receivers
                  PROVE  toClient[2 + i].kind = receivers[i]
      BY DEF StreamsComeAsAnnounced
    <2>1. TypeInv /\ TestClientTypeOK /\ ServerSaid /\ ProgramPlace
      BY DEF ClientInv
    <2>2. PICK n \in Nat : n = Len(receivers) /\ DOMAIN receivers = 1 .. n
      BY <2>1, LenProperties DEF TestClientTypeOK
    <2>3. n <= 2 /\ (i = 1 \/ i = 2) /\ i <= n
      BY <2>1, <2>2 DEF ProgramPlace
    <2>4. heard >= 4 /\ heard <= Len(toClient) /\ receivers[1] = "DISPLAY"
      BY <2>1, <2>2, <2>3 DEF ProgramPlace
    <2>5. /\ toClient[3] = Announce("DISPLAY", DisplayId)
          /\ toClient[4] = Announce("CURSOR", CursorId)
      BY <2>1, <2>4, Lengths DEF ServerSaid
    <2>6. CASE i = 1
      BY <2>4, <2>5, <2>6 DEF Announce
    <2>7. CASE i = 2
      BY <2>1, <2>2, <2>3, <2>5, <2>7 DEF Announce, ProgramPlace
    <2>. QED  BY <2>3, <2>6, <2>7
  <1>. QED  BY <1>1, ClientInvariance, PTL

\* As long as the connection is up, neither the session nor the handler of one of the
\* program's channels fails (FaithfulClientIsServed).
THEOREM FaithfulClientIsServedHolds == TestClientSpec => []FaithfulClientIsServed
  <1>1. ClientInv => FaithfulClientIsServed
    BY DEF ClientInv
  <1>. QED  BY <1>1, ClientInvariance, PTL

-----------------------------------------------------------------------------
(* The close.  What the receivers have seen of the two senders is true of the  *)
(* senders from then on.                                                       *)

Accepted == {"open", "openSent", "stream", "exercise", "endControl", "waitDisplay",
             "waitCursor", "close", "done"}

VideoInv ==
    /\ pc \in Accepted => Len(receivers) = 2 /\ Len(handlers) >= 2
    /\ pc \in {"waitCursor", "close", "done"} => Settled(1)
    /\ pc \in {"close", "done"} => Settled(2)

\* The first two tasks are the senders, and no other task is one.
LEMMA SendersAre ==
    ASSUME ClientInv, Len(handlers) >= 2
    PROVE  /\ 1 \in DOMAIN handlers /\ 2 \in DOMAIN handlers
           /\ IsSender(1) /\ IsSender(2)
           /\ Sender("DISPLAY") = handlers[1] /\ Sender("CURSOR") = handlers[2]
           /\ handlers[1].kind = "DISPLAY" /\ handlers[2].kind = "CURSOR"
           /\ \A h \in DOMAIN handlers : IsSender(h) => h = 1 \/ h = 2
  <1>0. TypeInv /\ TasksSpawned
    BY DEF ClientInv
  <1>1. PICK n \in Nat : n = Len(handlers) /\ DOMAIN handlers = 1 .. n
    <2>1. handlers \in Seq(Handler)
      BY <1>0 DEF TypeInv, TypeOK
    <2>. QED  BY <2>1, LenProperties
  <1>2. /\ n \in 2 .. 6 /\ 1 \in DOMAIN handlers /\ 2 \in DOMAIN handlers
        /\ handlers[1].kind = "DISPLAY" /\ handlers[2].kind = "CURSOR"
    BY <1>0, <1>1 DEF TasksSpawned
  <1>3. ASSUME NEW h \in DOMAIN handlers, h # 1, h # 2 PROVE handlers[h].kind \notin SenderKinds
    <2>1. PICK k \in 1 .. 4 : h = k + 2
      BY <1>1, <1>2, <1>3, h - 2 \in 1 .. 4
    <2>2. handlers[h].kind = Channels[k]
      BY <1>0, <1>1, <1>2, <2>1 DEF TasksSpawned
    <2>. QED  BY <2>2, ChannelFacts
  <1>4. /\ \A h \in DOMAIN handlers : handlers[h].kind = "DISPLAY" <=> h = 1
        /\ \A h \in DOMAIN handlers : handlers[h].kind = "CURSOR" <=> h = 2
    BY <1>2, <1>3 DEF SenderKinds
  <1>5. Sender("DISPLAY") = handlers[1]
    <2>1. (CHOOSE h \in DOMAIN handlers : handlers[h].kind = "DISPLAY") = 1
      BY <1>2, <1>4
    <2>. QED  BY <2>1, Zenon DEF Sender
  <1>6. Sender("CURSOR") = handlers[2]
    <2>1. (CHOOSE h \in DOMAIN handlers : handlers[h].kind = "CURSOR") = 2
      BY <1>2, <1>4
    <2>. QED  BY <2>1, Zenon DEF Sender
  <1>. QED  BY <1>2, <1>3, <1>5, <1>6 DEF IsSender, SenderKinds

\* A task of the session never goes, and a sender that has nothing left to write has
\* nothing left to write later.
LEMMA SettledStays ==
    ASSUME TypeInv, Server
    PROVE  /\ Len(handlers') >= Len(handlers)
           /\ \A s \in DOMAIN handlers : IsSender(s) /\ Settled(s) => Settled(s)'
  <1>0. handlers \in Seq(Handler) /\ TypeOK
    BY DEF TypeInv, TypeOK
  <1>1. PICK n \in Nat : n = Len(handlers) /\ DOMAIN handlers = 1 .. n
    BY <1>0, LenProperties
  <1>2. CASE SessionTask
    <2>1. handlers' = handlers \/ \E t \in Handler : handlers' = Append(handlers, t)
      <3>1. CASE OpenDisplay \/ OpenCursor
        <4>1. Task("DISPLAY", DisplayId, 0) \in Handler /\ Task("CURSOR", CursorId, 0) \in Handler
          BY DEF Task, Handler, SenderKinds, HandlerStates
        <4>. QED  BY <3>1, <4>1 DEF OpenDisplay, OpenCursor, OpenSender
      <3>2. CASE BindStream
        <4>1. PICK s \in DOMAIN streams : handlers' = Append(handlers, Task(grant.kind, grant.id, s))
          BY <3>2 DEF BindStream
        <4>2. grant.kind \in SupportedKinds /\ grant.id \in ChannelIds
          BY <3>2 DEF BindStream, TypeInv, Grants
        <4>3. s \in Nat
          BY LenProperties DEF TypeInv, TypeOK
        <4>. QED  BY <4>1, <4>2, <4>3 DEF Task, Handler, HandlerStates
      <3>3. CASE Advance /\ ~BindStream
        BY <3>3, Zenon
           DEF Advance, Greet, Authenticate, AnnounceDisplay, AnnounceCursor, AnnounceSender,
               IgnoreFrame, AnswerOpenChannel, EndOfControl, Finish, RejectFrame, EarlyEof,
               Disconnected, Fail
      <3>. QED  BY <1>2, <3>1, <3>2, <3>3 DEF SessionTask
    <2>2. Len(handlers') >= n /\ \A s \in 1 .. n : handlers'[s] = handlers[s]
      BY <1>0, <1>1, <2>1, AppendProperties
    <2>. QED  BY <1>1, <2>2 DEF Settled, Running, SenderFrames
  <1>3. ASSUME NEW h \in DOMAIN handlers, ChannelTask(h)
        PROVE  /\ Len(handlers') >= Len(handlers)
               /\ \A s \in DOMAIN handlers : IsSender(s) /\ Settled(s) => Settled(s)'
    <2>1. /\ Len(handlers') = Len(handlers)
          /\ handlers[h].st = "running" /\ handlers'[h].kind = handlers[h].kind
          /\ \A g \in DOMAIN handlers : g # h => handlers'[g] = handlers[g]
      BY <1>0, <1>3, ChannelTaskEffect
    <2>2. ASSUME IsSender(h), Settled(h) PROVE handlers'[h].st # "running"
      <3>1. handlers[h] \in Handler
        BY <1>0, <1>1, ElementOfSeq
      <3>2. handlers[h].count = SenderFrames(handlers[h].kind) /\ handlers[h].count \in Nat
        BY <2>1, <2>2, <3>1 DEF Settled, Running, Handler
      <3>3. ~HandleFrame(h) /\ ~HandlerEof(h) /\ ~SendFrame(h)
        BY <2>2, <3>2 DEF HandleFrame, HandlerEof, HasFrame, SendFrame
      <3>4. \/ handlers' = [handlers EXCEPT ![h].st = "error"]
            \/ handlers' = [handlers EXCEPT ![h].st = "done"]
        BY <1>3, <3>3, Zenon DEF ChannelTask, HandlerError, SenderDone, EndTask
      <3>. QED  BY <3>1, <3>4 DEF Handler
    <2>3. ASSUME NEW s \in DOMAIN handlers, IsSender(s), Settled(s) PROVE Settled(s)'
      <3>1. CASE s = h
        BY <2>2, <2>3, <3>1 DEF Settled, Running
      <3>2. CASE s # h
        BY <2>1, <2>3, <3>2 DEF Settled, Running, SenderFrames
      <3>. QED  BY <3>1, <3>2
    <2>4. Len(handlers') >= Len(handlers)
      BY <1>1, <2>1
    <2>. QED  BY <2>3, <2>4
  <1>. QED  BY <1>2, <1>3 DEF Server

\* A receiver that has come to the end of its stream has seen a sender with nothing left.
LEMMA ReceiverSees ==
    ASSUME ClientInv, VideoInv
    PROVE  /\ pc = "waitDisplay" /\ ReceiverDone(receivers[1]) => Settled(1)
           /\ pc = "waitCursor" /\ ReceiverDone(receivers[2]) => Settled(2)
  <1>1. SUFFICES ASSUME pc \in {"waitDisplay", "waitCursor"}
                 PROVE  /\ ReceiverDone(receivers[1]) => Settled(1)
                        /\ ReceiverDone(receivers[2]) => Settled(2)
    OBVIOUS
  <1>2. Len(receivers) = 2 /\ Len(handlers) >= 2
    BY <1>1 DEF VideoInv, Accepted
  <1>3. receivers[1] = "DISPLAY" /\ receivers[2] = "CURSOR"
    BY <1>2 DEF ClientInv, ProgramPlace
  <1>4. /\ Sender("DISPLAY") = handlers[1] /\ Sender("CURSOR") = handlers[2]
        /\ handlers[1].kind = "DISPLAY" /\ handlers[2].kind = "CURSOR"
    BY <1>2, SendersAre
  <1>. QED  BY <1>3, <1>4 DEF ReceiverDone, Settled, Running

LEMMA VideoStep == ClientInv /\ VideoInv /\ [TestClientNext]_allVars => VideoInv'
  <1>. SUFFICES ASSUME ClientInv, VideoInv, [TestClientNext]_allVars PROVE VideoInv'
    OBVIOUS
  <1>0. TypeInv /\ TestClientTypeOK /\ ProgramPlace
    BY DEF ClientInv
  <1>1. CASE AcceptStream
    <2>1. UNCHANGED handlers /\ pc' \in {"open", "accept"} /\ (pc' = "open" => Len(receivers') = 2)
          /\ pc = "accept" /\ Len(receivers) < Len(Opened)
      BY <1>1 DEF AcceptStream, vars, serverVars
    <2>2. pc' = "open" => Len(handlers) >= 2
      <3>1. \E x : receivers' = Append(receivers, x)
        BY <1>1 DEF AcceptStream
      <3>2. Len(receivers') = Len(receivers) + 1
        BY <1>0, <3>1 DEF TestClientTypeOK
      <3>3. Len(Opened) \in Nat /\ Len(Opened) <= Len(handlers) /\ Len(receivers) \in Nat
            /\ Len(handlers) \in Nat
        BY <1>0, OpenedAre, Lengths
      <3>. QED  BY <2>1, <3>2, <3>3
    <2>. QED  BY <2>1, <2>2 DEF VideoInv, Accepted
  <1>2. CASE AwaitReceivers
    <2>1. /\ UNCHANGED <<handlers, receivers>>
          /\ \/ pc = "waitDisplay" /\ ReceiverDone(receivers[1]) /\ pc' = "waitCursor"
             \/ pc = "waitCursor" /\ ReceiverDone(receivers[2]) /\ pc' = "close"
      BY <1>2 DEF AwaitReceivers, vars, serverVars, clientState
    <2>2. pc' = "waitCursor" => Settled(1)
      BY <2>1, ReceiverSees
    <2>3. pc' = "close" => Settled(1) /\ Settled(2)
      BY <2>1, ReceiverSees DEF VideoInv
    <2>. QED  BY <2>1, <2>2, <2>3 DEF VideoInv, Accepted, Settled, Running, SenderFrames
  <1>3. CASE /\ UNCHANGED <<handlers, receivers>>
             /\ pc' \in Accepted => pc \in Accepted
             /\ pc' \in {"waitCursor", "close", "done"} => pc \in {"waitCursor", "close", "done"}
             /\ pc' \in {"close", "done"} => pc \in {"close", "done"}
    BY <1>3 DEF VideoInv, Settled, Running, SenderFrames
  <1>4. CASE Handshake \/ OpenChannel
    <2>1. /\ UNCHANGED <<handlers, receivers>>
          /\ pc' \in Accepted => pc \in Accepted
          /\ pc' \notin {"waitCursor", "close", "done"}
      BY <1>4 DEF Handshake, OpenChannel, Say, Hear, vars, serverVars, clientState, Accepted
    <2>. QED  BY <1>3, <2>1
  <1>5. CASE OpenStream \/ WriteOnStream \/ ReadAnswer \/ EndStream \/ EndControl \/ Close \/ GiveUp
    <2>1. /\ UNCHANGED <<handlers, receivers>>
          /\ pc' \in Accepted => pc \in Accepted
          /\ pc' \in {"waitCursor", "close", "done"} => pc \in {"waitCursor", "close", "done"}
          /\ pc' \in {"close", "done"} => pc \in {"close", "done"}
      BY <1>5 DEF OpenStream, WriteOnStream, ReadAnswer, EndStream, EndControl, Close, GiveUp,
                  vars, serverVars, clientState, programVars, Accepted
    <2>. QED  BY <1>3, <2>1
  <1>6. CASE Server /\ UNCHANGED clientState
    <2>1. UNCHANGED <<pc, receivers>>
      BY <1>6 DEF Server, programVars, clientState
    <2>2. /\ Len(handlers') >= Len(handlers)
          /\ \A s \in DOMAIN handlers : IsSender(s) /\ Settled(s) => Settled(s)'
      BY <1>0, <1>6, SettledStays
    <2>3. pc \in Accepted => Len(handlers') >= 2
      <3>1. handlers' \in Seq(Handler)
        BY <1>6, ServerStep DEF ClientInv, TypeInv, TypeOK
      <3>2. Len(handlers) \in Nat /\ Len(handlers') \in Nat
        BY <1>0, <3>1, Lengths, LenProperties
      <3>. QED  BY <2>2, <3>2 DEF VideoInv
    <2>4. pc \in Accepted => 1 \in DOMAIN handlers /\ 2 \in DOMAIN handlers /\ IsSender(1) /\ IsSender(2)
      BY SendersAre DEF VideoInv
    <2>5. /\ pc \in {"waitCursor", "close", "done"} => Settled(1)'
          /\ pc \in {"close", "done"} => Settled(2)'
      BY <2>2, <2>4 DEF VideoInv, Accepted
    <2>. QED  BY <2>1, <2>3, <2>5 DEF VideoInv
  <1>7. CASE (ServerDropsConnection \/ NetworkFails) /\ UNCHANGED clientState
    <2>1. UNCHANGED <<handlers, receivers, pc>>
      BY <1>7 DEF ServerDropsConnection, NetworkFails, ConnectionLost, serverVars, programVars,
                  clientState
    <2>. QED  BY <1>3, <2>1
  <1>8. CASE UNCHANGED allVars
    <2>1. UNCHANGED <<handlers, receivers, pc>>
      BY <1>8 DEF allVars, vars, serverVars, programVars, clientState
    <2>. QED  BY <1>3, <2>1
  <1>. QED  BY <1>1, <1>2, <1>4, <1>5, <1>6, <1>7, <1>8 DEF TestClientNext, Program

\* The program's own close cuts off no sender: by then each has written its last frame or
\* given up (CloseCutsNoSender).
THEOREM CloseCutsNoSenderHolds == TestClientSpec => []CloseCutsNoSender
  <1>1. TestClientInit => VideoInv
    BY DEF TestClientInit, ProgramInit, VideoInv, Accepted
  <1>2. ClientInv /\ VideoInv => CloseCutsNoSender
    <2>. SUFFICES ASSUME ClientInv, VideoInv, pc \in {"close", "done"},
                         NEW h \in DOMAIN handlers, IsSender(h)
                  PROVE  Settled(h)
      BY DEF CloseCutsNoSender
    <2>1. Settled(1) /\ Settled(2) /\ Len(handlers) >= 2
      BY DEF VideoInv, Accepted
    <2>. QED  BY <2>1, SendersAre
  <1>3. TestClientSpec => []VideoInv
    BY <1>1, ClientInvariance, VideoStep, PTL DEF TestClientSpec
  <1>. QED  BY <1>2, <1>3, ClientInvariance, PTL

=============================================================================
