--------------------------- MODULE SessionProofs ----------------------------
(***************************************************************************)
(* Theorems about Session, for every client and every value of the         *)
(* constants: type correctness, the authentication gate, the quiet close,  *)
(* and that a session implements SessionLifecycle.                         *)
(***************************************************************************)
EXTENDS Session, SequenceTheorems, TLAPS

-----------------------------------------------------------------------------
(* Type correctness.  TypeOK is not inductive by itself: the task spawned by *)
(* BindStream takes its kind and id from the grant, so there must be one.    *)

Grants == [kind : SupportedKinds, id : ChannelIds]

TypeInv == TypeOK /\ (phase = "bind" => grant \in Grants)

\* What a Control frame carries depends on its type alone: the reads of
\* control.rs that look at a field have looked at the type first.
LEMMA FrameFields ==
    ASSUME NEW f \in ClientFrame
    PROVE  /\ f.type = "AuthRequest" => f.method \in {"pin", "other"} /\ f.cred \in Credentials
           /\ f.type = "OpenChannel" => f.kind \in ClientKinds /\ f.id \in ChannelIds
  BY DEF ClientFrame

\* auth_exchange answers every AuthRequest with one of the three statuses, and
\* with OK only when the request presents the PIN.
LEMMA AuthStatusProperties ==
    ASSUME NEW f \in ClientFrame, f.type = "AuthRequest"
    PROVE  /\ AuthStatus(f) \in Statuses
           /\ AuthStatus(f) = "OK" => Authentic(f)
  BY FrameFields DEF AuthStatus, Statuses, Authentic

\* A frame that has arrived is a frame the client wrote.
LEMMA NextFrameType ==
    ASSUME TypeOK, Arrived
    PROVE  NextFrame \in ClientFrame
  BY ElementOfSeq DEF TypeOK, Arrived, NextFrame

\* The three ways a task changes keep it a task.
LEMMA TaskUpdates ==
    ASSUME NEW t \in Handler
    PROVE  /\ Counted(t) \in Handler
           /\ Replied(t) \in Handler
           /\ \A st \in HandlerStates : [t EXCEPT !.st = st] \in Handler
  <1>1. Counted(t) \in Handler
    BY DEF Handler, Counted
  <1>2. Replied(t) \in Handler
    BY DEF Handler, Replied
  <1>3. \A st \in HandlerStates : [t EXCEPT !.st = st] \in Handler
    BY DEF Handler
  <1>. QED  BY <1>1, <1>2, <1>3

\* A task that handles, sends, ends or breaks leaves the sequence of tasks as long as it
\* was, changes no other task, and keeps its own kind, id and stream.
LEMMA ChannelTaskEffect ==
    ASSUME TypeOK, NEW h \in DOMAIN handlers, ChannelTask(h) \/ TaskBroken(h)
    PROVE  /\ handlers' \in Seq(Handler)
           /\ DOMAIN handlers' = DOMAIN handlers
           /\ Len(handlers') = Len(handlers)
           /\ handlers[h].st = "running"
           /\ \A g \in DOMAIN handlers : g # h => handlers'[g] = handlers[g]
           /\ /\ handlers'[h].kind = handlers[h].kind
              /\ handlers'[h].id = handlers[h].id
              /\ handlers'[h].stream = handlers[h].stream
  <1>1. /\ handlers \in Seq(Handler) /\ h \in 1 .. Len(handlers)
        /\ handlers[h] \in Handler
    BY ElementOfSeq, LenProperties DEF TypeOK
  <1>2. \E t \in Handler : /\ handlers' = [handlers EXCEPT ![h] = t]
                           /\ t.kind = handlers[h].kind
                           /\ t.id = handlers[h].id
                           /\ t.stream = handlers[h].stream
    <2>. DEFINE counted == Counted(handlers[h])
                ended(st) == [handlers[h] EXCEPT !.st = st]
    <2>1. counted \in Handler
      BY <1>1, TaskUpdates
    <2>2. Replied(counted) \in Handler
      BY <2>1, TaskUpdates
    <2>3. ended("done") \in Handler /\ ended("error") \in Handler
      BY <1>1, TaskUpdates DEF HandlerStates
    <2>. DEFINE Alike(t) == /\ t.kind = handlers[h].kind
                            /\ t.id = handlers[h].id
                            /\ t.stream = handlers[h].stream
    <2>7. /\ Alike(counted) /\ Alike(Replied(counted))
          /\ Alike(ended("done")) /\ Alike(ended("error"))
      BY <1>1 DEF Counted, Replied, Handler
    <2>. HIDE DEF counted, ended
    <2>4. CASE HandleFrame(h)
      <3>1. \/ handlers' = [handlers EXCEPT ![h] = counted]
            \/ handlers' = [handlers EXCEPT ![h] = Replied(counted)]
        BY <2>4, Zenon DEF HandleFrame, counted
      <3>. QED  BY <3>1, <2>1, <2>2, <2>7, Zenon
    <2>5. CASE HandlerEof(h) \/ HandlerError(h) \/ SenderDone(h) \/ TaskBroken(h)
      <3>1. \/ handlers' = [handlers EXCEPT ![h] = ended("done")]
            \/ handlers' = [handlers EXCEPT ![h] = ended("error")]
        BY <2>5, Zenon DEF HandlerEof, HandlerError, SenderDone, TaskBroken, EndTask, ended
      <3>. QED  BY <3>1, <2>3, <2>7, Zenon
    <2>6. CASE SendFrame(h)
      <3>1. handlers' = [handlers EXCEPT ![h] = counted]
        BY <2>6, Zenon DEF SendFrame, counted
      <3>. QED  BY <3>1, <2>1, <2>7, Zenon
    <2>. QED  BY <2>4, <2>5, <2>6 DEF ChannelTask
  <1>3. handlers[h].st = "running"
    BY DEF ChannelTask, HandleFrame, HandlerEof, HandlerError, SendFrame, SenderDone,
           TaskBroken, Running
  <1>. QED  BY <1>1, <1>2, <1>3, ExceptSeq, LenProperties

LEMMA TypeInit == Init => TypeInv
  <1>. SUFFICES ASSUME Init PROVE TypeInv
    OBVIOUS
  <1>1. /\ fromClient \in Seq(ClientFrame) /\ Len(fromClient) = 0
        /\ toClient \in Seq(ServerFrame)
        /\ streams \in Seq(Stream)
        /\ handlers \in Seq(Handler)
    BY EmptySeq DEF Init
  <1>2. connected \in BOOLEAN /\ finished \in BOOLEAN
    BY DEF Init
  <1>. QED  BY <1>1, <1>2 DEF Init, TypeInv, TypeOK, Phases

\* The session task keeps the types: what it writes is a frame of the server,
\* what it spawns is a task.
LEMMA TypeSessionTask ==
    ASSUME TypeInv, SessionTask \/ StreamBroken
    PROVE  TypeInv'
  <1>. USE DEF TypeInv, TypeOK, Phases, clientVars, Write, Fail
  <1>0. /\ Len(fromClient) \in Nat
        /\ Arrived => read + 1 \in 0 .. Len(fromClient)
    BY LenProperties DEF Arrived
  <1>1. CASE Greet
    <2>1. toClient' \in Seq(ServerFrame)
      BY <1>1 DEF Greet, ServerFrame
    <2>2. read' \in 0 .. Len(fromClient')
      BY <1>0, <1>1 DEF Greet
    <2>3. phase' = "auth" /\ UNCHANGED <<connected, finished, fromClient, streams, grant, handlers>>
      BY <1>1 DEF Greet
    <2>. QED  BY <2>1, <2>2, <2>3
  <1>2. CASE Authenticate
    <2>1. AuthResult(AuthStatus(NextFrame)) \in ServerFrame
      BY <1>2, NextFrameType, AuthStatusProperties DEF Authenticate, AuthResult, ServerFrame
    <2>. QED  BY <1>0, <1>2, <2>1 DEF Authenticate
  <1>3. CASE AnnounceDisplay \/ AnnounceCursor
    <2>1. toClient' \in Seq(ServerFrame)
      <3>1. \/ toClient' = Append(toClient, Announce("DISPLAY", DisplayId))
            \/ toClient' = Append(toClient, Announce("CURSOR", CursorId))
        BY <1>3, Zenon DEF AnnounceDisplay, AnnounceCursor, AnnounceSender
      <3>2. /\ Announce("DISPLAY", DisplayId) \in ServerFrame
            /\ Announce("CURSOR", CursorId) \in ServerFrame
        BY Zenon DEF ServerFrame
      <3>3. \A frame \in ServerFrame : Append(toClient, frame) \in Seq(ServerFrame)
        BY AppendProperties
      <3>. QED  BY <3>1, <3>2, <3>3, Zenon
    <2>2. /\ phase' \in {"openDisplay", "openCursor"}
          /\ UNCHANGED <<connected, fromClient, finished, streams, read, grant, handlers>>
      BY <1>3 DEF AnnounceDisplay, AnnounceCursor, AnnounceSender
    <2>. QED  BY <2>1, <2>2
  <1>4. CASE OpenDisplay \/ OpenCursor
    <2>1. /\ Task("DISPLAY", DisplayId, 0) \in Handler
          /\ Task("CURSOR", CursorId, 0) \in Handler
      BY DEF Task, Handler, SenderKinds, HandlerStates
    <2>2. handlers' \in Seq(Handler)
      <3>1. \/ handlers' = Append(handlers, Task("DISPLAY", DisplayId, 0))
            \/ handlers' = Append(handlers, Task("CURSOR", CursorId, 0))
        BY <1>4, Zenon DEF OpenDisplay, OpenCursor, OpenSender
      <3>2. \A task \in Handler : Append(handlers, task) \in Seq(Handler)
        BY AppendProperties
      <3>. QED  BY <2>1, <3>1, <3>2, Zenon
    <2>3. /\ phase' \in {"announceCursor", "dispatch"}
          /\ UNCHANGED <<connected, fromClient, finished, streams, read, toClient, grant>>
      BY <1>4 DEF OpenDisplay, OpenCursor, OpenSender
    <2>. QED  BY <2>2, <2>3
  <1>5. CASE IgnoreFrame
    BY <1>0, <1>5 DEF IgnoreFrame
  <1>6. CASE AnswerOpenChannel
    <2>1. /\ NextFrame.id \in ChannelIds /\ NextFrame.kind \in ClientKinds
          /\ read + 1 \in 0 .. Len(fromClient)
      BY <1>0, <1>6, NextFrameType, FrameFields DEF AnswerOpenChannel
    <2>2. Ack(NextFrame.id, OpenStatus(NextFrame.kind)) \in ServerFrame
      BY <2>1 DEF Ack, OpenStatus, ServerFrame, Statuses
    <2>3. OpenStatus(NextFrame.kind) = "OK"
             => [kind |-> NextFrame.kind, id |-> NextFrame.id] \in Grants
      BY <2>1 DEF OpenStatus, Grants
    <2>. QED  BY <1>6, <2>1, <2>2, <2>3 DEF AnswerOpenChannel, Grants
  <1>7. CASE BindStream
    <2>1. ASSUME NEW s \in DOMAIN streams
          PROVE  Task(grant.kind, grant.id, s) \in Handler
      <3>1. grant.kind \in SupportedKinds /\ grant.id \in ChannelIds
        BY <1>7 DEF BindStream, Grants
      <3>2. s \in Nat
        BY <2>1, LenProperties
      <3>. QED  BY <3>1, <3>2 DEF Task, Handler, HandlerStates
    <2>. QED  BY <1>7, <2>1 DEF BindStream
  <1>8. CASE EndOfControl \/ Finish
    BY <1>8 DEF EndOfControl, Finish
  <1>9. CASE RejectFrame \/ EarlyEof \/ Disconnected \/ StreamBroken
    BY <1>0, <1>9 DEF RejectFrame, EarlyEof, Disconnected, StreamBroken
  <1>. QED  BY <1>1, <1>2, <1>3, <1>4, <1>5, <1>6, <1>7, <1>8, <1>9 DEF SessionTask, Advance

\* Nothing a client does takes a stream out of its type.
LEMMA TypeClient ==
    ASSUME TypeInv, Client \/ ConnectionLost
    PROVE  TypeInv'
  <1>. USE DEF TypeInv, TypeOK, Phases, clientVars, serverVars
  <1>1. ASSUME NEW f \in Alphabet, ClientWrites(f) PROVE TypeInv'
    BY <1>1, AlphabetAssumption DEF ClientWrites
  <1>2. CASE ClientFinishes \/ ConnectionLost
    BY <1>2 DEF ClientFinishes, ConnectionLost
  <1>3. ASSUME NEW dir \in {"uni", "bi"}, ClientOpens(dir) PROVE TypeInv'
    <2>1. [dir |-> dir, sent |-> <<>>, fin |-> FALSE] \in Stream
      BY DEF Stream
    <2>. QED  BY <1>3, <2>1 DEF ClientOpens
  <1>4. ASSUME NEW s \in DOMAIN streams, NEW f \in Letters, ClientSends(s, f)
        PROVE  TypeInv'
    <2>1. f \in ChannelFrame /\ s \in 1 .. Len(streams) /\ streams[s] \in Stream
      BY AlphabetAssumption, LenProperties, ElementOfSeq
    <2>2. [streams[s] EXCEPT !.sent = Append(@, f)] \in Stream
      <3>1. ASSUME NEW t \in Stream PROVE [t EXCEPT !.sent = Append(t.sent, f)] \in Stream
        <4>1. Append(t.sent, f) \in Seq(ChannelFrame)
          BY <2>1 DEF Stream
        <4>. QED  BY <4>1 DEF Stream
      <3>. QED  BY <2>1, <3>1
    <2>3. streams' = [streams EXCEPT ![s] = [streams[s] EXCEPT !.sent = Append(@, f)]]
      BY <1>4, Zenon DEF ClientSends
    <2>4. streams' \in Seq(Stream)
      BY <2>1, <2>2, <2>3, ExceptSeq
    <2>. QED  BY <1>4, <2>4 DEF ClientSends
  <1>5. ASSUME NEW s \in DOMAIN streams, ClientEnds(s)
        PROVE  TypeInv'
    <2>1. s \in 1 .. Len(streams) /\ streams[s] \in Stream
      BY LenProperties, ElementOfSeq
    <2>2. [streams[s] EXCEPT !.fin = TRUE] \in Stream
      BY <2>1 DEF Stream
    <2>3. streams' = [streams EXCEPT ![s] = [streams[s] EXCEPT !.fin = TRUE]]
      BY <1>5, Zenon DEF ClientEnds
    <2>4. streams' \in Seq(Stream)
      BY <2>1, <2>2, <2>3, ExceptSeq
    <2>. QED  BY <1>5, <2>4 DEF ClientEnds
  <1>. QED  BY <1>1, <1>2, <1>3, <1>4, <1>5 DEF Client

LEMMA TypeStep == TypeInv /\ [Next]_vars => TypeInv'
  <1>. SUFFICES ASSUME TypeInv, [Next]_vars PROVE TypeInv'
    OBVIOUS
  <1>1. CASE SessionTask \/ StreamBroken
    BY <1>1, TypeSessionTask
  <1>2. ASSUME NEW h \in DOMAIN handlers, ChannelTask(h) \/ TaskBroken(h) PROVE TypeInv'
    <2>1. handlers' \in Seq(Handler)
      BY <1>2, ChannelTaskEffect DEF TypeInv
    <2>. QED  BY <1>2, <2>1 DEF ChannelTask, TaskBroken, TypeInv, TypeOK, clientVars
  <1>3. CASE Client \/ ConnectionLost
    BY <1>3, TypeClient
  <1>4. CASE UNCHANGED vars
    BY <1>4 DEF vars, clientVars, serverVars, TypeInv, TypeOK
  <1>. QED  BY <1>1, <1>2, <1>3, <1>4 DEF Next

LEMMA TypeInvariance == Spec => []TypeInv
  BY TypeInit, TypeStep, PTL DEF Spec

\* Every variable keeps its type, whatever the client does.
THEOREM TypeCorrect == Spec => []TypeOK
  <1>1. TypeInv => TypeOK
    BY DEF TypeInv
  <1>. QED  BY <1>1, TypeInvariance, PTL

-----------------------------------------------------------------------------
(* The authentication gate.  AuthGate speaks of what the server has done; to   *)
(* carry it through a step one must know, for each phase, how far the client's *)
(* frames have been read and what the ones read were.                          *)

GateInv ==
    /\ phase = "hello" => read = 0 /\ Len(toClient) = 0 /\ handlers = <<>>
    /\ phase = "auth" => /\ read = 1 /\ AcceptableHello(fromClient[1])
                         /\ Len(toClient) = 1 /\ handlers = <<>>
    /\ phase \notin {"hello", "auth", "closed", "failed"} => Authenticated
    /\ AuthGate

\* What has been read on Control is never unread, nor changed.
LEMMA ReadIsKept ==
    ASSUME TypeInv, [Next]_vars
    PROVE  /\ read' \in {read, read + 1}
           /\ \A i \in 1 .. read : fromClient'[i] = fromClient[i]
  <1>. USE DEF clientVars, serverVars
  <1>1. /\ fromClient \in Seq(ClientFrame) /\ Len(fromClient) \in Nat
        /\ read \in 0 .. Len(fromClient)
    BY LenProperties DEF TypeInv, TypeOK
  <1>2. CASE SessionTask \/ StreamBroken
    BY <1>2 DEF SessionTask, Advance, Greet, Authenticate, AnnounceDisplay, OpenDisplay,
                AnnounceCursor, OpenCursor, AnnounceSender, OpenSender, IgnoreFrame,
                AnswerOpenChannel, BindStream, EndOfControl, Finish, RejectFrame,
                EarlyEof, Disconnected, StreamBroken, Fail
  <1>3. CASE \E h \in DOMAIN handlers : ChannelTask(h) \/ TaskBroken(h)
    BY <1>3 DEF ChannelTask, TaskBroken
  <1>4. CASE Client
    <2>1. ASSUME NEW f \in Alphabet, ClientWrites(f)
          PROVE  read' = read /\ \A i \in 1 .. read : fromClient'[i] = fromClient[i]
      <3>1. fromClient' = Append(fromClient, f) /\ read' = read
        BY <2>1 DEF ClientWrites
      <3>. QED  BY <1>1, <3>1, AlphabetAssumption, AppendProperties
    <2>2. CASE ~\E f \in Alphabet : ClientWrites(f)
      BY <1>4, <2>2 DEF Client, ClientFinishes, ClientOpens, ClientSends, ClientEnds
    <2>. QED  BY <2>1, <2>2
  <1>5. CASE ConnectionLost \/ UNCHANGED vars
    BY <1>5 DEF ConnectionLost, vars
  <1>. QED  BY <1>2, <1>3, <1>4, <1>5 DEF Next

\* An admitted client stays admitted.
LEMMA AuthenticatedIsStable ==
    ASSUME TypeInv, [Next]_vars, Authenticated
    PROVE  Authenticated'
  <1>1. /\ read \in Nat /\ read >= 2
        /\ AcceptableHello(fromClient[1]) /\ Authentic(fromClient[2])
    BY LenProperties DEF Authenticated, TypeInv, TypeOK
  <1>2. read' >= 2 /\ fromClient'[1] = fromClient[1] /\ fromClient'[2] = fromClient[2]
    BY <1>1, ReadIsKept
  <1>. QED  BY <1>1, <1>2 DEF Authenticated, AcceptableHello, Authentic

LEMMA GateInit == Init => GateInv
  BY EmptySeq DEF Init, GateInv, AuthGate

\* Greet and Authenticate are the two steps that move through the gate.
LEMMA GateGreet ==
    ASSUME TypeInv, GateInv, Greet
    PROVE  GateInv'
  <1>1. read = 0 /\ Len(toClient) = 0 /\ handlers = <<>> /\ toClient \in Seq(ServerFrame)
    BY DEF Greet, GateInv, TypeInv, TypeOK
  <1>2. /\ phase' = "auth" /\ read' = 1 /\ handlers' = <<>>
        /\ fromClient' = fromClient /\ AcceptableHello(fromClient[1])
    BY <1>1 DEF Greet, NextFrame, clientVars
  <1>3. Len(toClient') = 1
    <2>1. toClient' = Append(toClient, ServerHello) /\ ServerHello \in ServerFrame
      BY DEF Greet, Write, ServerFrame
    <2>. QED  BY <1>1, <2>1, AppendProperties
  <1>4. AcceptableHello(fromClient[1])'
    BY <1>2 DEF AcceptableHello
  <1>. QED  BY <1>2, <1>3, <1>4 DEF GateInv, AuthGate

LEMMA GateAuthenticate ==
    ASSUME TypeInv, GateInv, Authenticate
    PROVE  GateInv'
  <1>1. /\ read = 1 /\ Len(toClient) = 1 /\ handlers = <<>>
        /\ AcceptableHello(fromClient[1]) /\ toClient \in Seq(ServerFrame)
    BY DEF Authenticate, GateInv, TypeInv, TypeOK
  <1>2. /\ phase' \in {"announceDisplay", "closed"} /\ read' = 2 /\ handlers' = <<>>
        /\ fromClient' = fromClient
        /\ phase' = "announceDisplay" => AuthStatus(NextFrame) = "OK"
    BY <1>1 DEF Authenticate, clientVars
  <1>3. NextFrame \in ClientFrame /\ NextFrame.type = "AuthRequest" /\ NextFrame = fromClient[2]
    BY <1>1, NextFrameType DEF Authenticate, TypeInv, NextFrame
  <1>4. Len(toClient') = 2
    <2>1. /\ toClient' = Append(toClient, AuthResult(AuthStatus(NextFrame)))
          /\ AuthResult(AuthStatus(NextFrame)) \in ServerFrame
      BY <1>3, AuthStatusProperties DEF Authenticate, Write, AuthResult, ServerFrame
    <2>2. \A frame \in ServerFrame : Len(Append(toClient, frame)) = Len(toClient) + 1
      BY <1>1, AppendProperties
    <2>3. Len(toClient') = Len(toClient) + 1
      BY <2>1, <2>2, Zenon
    <2>. QED  BY <1>1, <2>3
  <1>5. phase' = "announceDisplay" => Authenticated'
    <2>1. ASSUME phase' = "announceDisplay" PROVE Authentic(fromClient[2])
      BY <1>2, <1>3, <2>1, AuthStatusProperties
    <2>. QED  BY <1>1, <1>2, <2>1 DEF Authenticated, AcceptableHello, Authentic
  <1>. QED  BY <1>2, <1>4, <1>5 DEF GateInv, AuthGate

\* Every other step leaves the gate as it is: before it nothing is written or
\* spawned, and behind it the client is admitted.
LEMMA GateOther ==
    ASSUME TypeInv, GateInv, [Next]_vars, ~Greet, ~Authenticate
    PROVE  GateInv'
  <1>1. CASE Authenticated
    <2>1. Authenticated'
      BY <1>1, AuthenticatedIsStable
    <2>2. phase' \notin {"hello", "auth"}
      <3>1. phase \notin {"hello", "auth"}
        BY <1>1 DEF GateInv, Authenticated
      <3>. QED
        BY <3>1 DEF Next, SessionTask, Advance, AnnounceDisplay, OpenDisplay, AnnounceCursor,
             OpenCursor, AnnounceSender, OpenSender, IgnoreFrame, AnswerOpenChannel,
             BindStream, EndOfControl, Finish, RejectFrame, EarlyEof,
             Disconnected, StreamBroken, Fail, ChannelTask, TaskBroken, Client, ClientWrites, ClientFinishes, ClientOpens, ClientSends,
             ClientEnds, ConnectionLost, vars, clientVars, serverVars
    <2>. QED  BY <2>1, <2>2 DEF GateInv, AuthGate
  <1>2. CASE ~Authenticated
    <2>1. /\ phase \in {"hello", "auth", "closed", "failed"}
          /\ handlers = <<>> /\ Len(toClient) <= 2 /\ Len(toClient) \in Nat
      BY <1>2, LenProperties DEF GateInv, AuthGate, TypeInv, TypeOK
    <2>2. CASE SessionTask \/ StreamBroken
      <3>1. RejectFrame \/ EarlyEof \/ Disconnected \/ StreamBroken
        BY <2>1, <2>2 DEF SessionTask, Advance, AnnounceDisplay, OpenDisplay, AnnounceCursor,
             OpenCursor, AnnounceSender, OpenSender, IgnoreFrame, AnswerOpenChannel,
             BindStream, EndOfControl, Finish
      <3>2. phase' = "failed" /\ UNCHANGED <<toClient, handlers>>
        BY <3>1 DEF RejectFrame, EarlyEof, Disconnected, StreamBroken, Fail
      <3>. QED  BY <2>1, <3>2 DEF GateInv, AuthGate
    <2>3. CASE \E h \in DOMAIN handlers : ChannelTask(h) \/ TaskBroken(h)
      BY <2>1, <2>3, EmptySeq
    <2>4. CASE Client \/ ConnectionLost \/ UNCHANGED vars
      <3>1. UNCHANGED <<phase, toClient, handlers, read>>
        BY <2>4 DEF Client, ClientWrites, ClientFinishes, ClientOpens, ClientSends,
             ClientEnds, ConnectionLost, vars, clientVars, serverVars
      <3>2. read = 1 => fromClient'[1] = fromClient[1]
        BY ReadIsKept
      <3>. QED  BY <2>1, <3>1, <3>2 DEF GateInv, AuthGate, AcceptableHello
    <2>. QED  BY <2>2, <2>3, <2>4 DEF Next
  <1>. QED  BY <1>1, <1>2

LEMMA GateInvariance == Spec => []GateInv
  <1>1. TypeInv /\ GateInv /\ [Next]_vars => GateInv'
    BY GateGreet, GateAuthenticate, GateOther
  <1>. QED  BY <1>1, GateInit, TypeInvariance, PTL DEF Spec

\* No task, no announcement and no ack without the PIN.
THEOREM AuthGateHolds == Spec => []AuthGate
  <1>1. GateInv => AuthGate
    BY DEF GateInv
  <1>. QED  BY <1>1, GateInvariance, PTL

-----------------------------------------------------------------------------
(* The orderly close.  A session is closed either by refusing the client, and *)
(* then GateInv says it has no task, or by Finish, which waited for them all. *)

\* No task runs behind a closed session, and none starts again.
LEMMA QuietStep ==
    ASSUME TypeInv, GateInv, ClosedIsQuiet, [Next]_vars
    PROVE  ClosedIsQuiet'
  <1>1. CASE phase = "closed"
    <2>1. \A h \in DOMAIN handlers : handlers[h].st # "running"
      BY <1>1 DEF ClosedIsQuiet, Running
    <2>2. UNCHANGED handlers
      <3>1. CASE SessionTask \/ StreamBroken
        BY <1>1, <3>1 DEF SessionTask, Advance, Greet, Authenticate, AnnounceDisplay, OpenDisplay,
             AnnounceCursor, OpenCursor, AnnounceSender, OpenSender, IgnoreFrame,
             AnswerOpenChannel, BindStream, EndOfControl, Finish, RejectFrame, EarlyEof,
             Disconnected, StreamBroken, Fail
      <3>2. CASE \E h \in DOMAIN handlers : ChannelTask(h) \/ TaskBroken(h)
        BY <2>1, <3>2, ChannelTaskEffect DEF TypeInv
      <3>3. CASE Client \/ ConnectionLost \/ UNCHANGED vars
        BY <3>3 DEF Client, ClientWrites, ClientFinishes, ClientOpens, ClientSends,
             ClientEnds, ConnectionLost, vars, serverVars
      <3>. QED  BY <3>1, <3>2, <3>3 DEF Next
    <2>. QED  BY <2>1, <2>2 DEF ClosedIsQuiet, Running
  <1>2. CASE phase # "closed" /\ phase' = "closed"
    <2>1. Authenticate \/ Finish
      BY <1>2 DEF Next, SessionTask, Advance, Greet, AnnounceDisplay, OpenDisplay,
           AnnounceCursor, OpenCursor, AnnounceSender, OpenSender, IgnoreFrame,
           AnswerOpenChannel, BindStream, EndOfControl, RejectFrame, EarlyEof,
           Disconnected, StreamBroken, Fail, ChannelTask, TaskBroken,
           Client, ClientWrites, ClientFinishes, ClientOpens, ClientSends, ClientEnds, ConnectionLost, vars, serverVars
    <2>2. CASE Authenticate
      <3>1. handlers' = <<>>
        BY <2>2 DEF Authenticate, GateInv
      <3>. QED  BY <3>1, EmptySeq DEF ClosedIsQuiet
    <2>3. CASE Finish
      BY <2>3 DEF Finish, ClosedIsQuiet, Running
    <2>. QED  BY <2>1, <2>2, <2>3
  <1>3. CASE phase' # "closed"
    BY <1>3 DEF ClosedIsQuiet
  <1>. QED  BY <1>1, <1>2, <1>3

\* A session that returns Ok leaves no task behind, and none comes after.
THEOREM QuietClose == Spec => []ClosedIsQuiet
  <1>1. Init => ClosedIsQuiet
    BY DEF Init, ClosedIsQuiet
  <1>2. TypeInv /\ GateInv /\ ClosedIsQuiet /\ [Next]_vars => ClosedIsQuiet'
    BY QuietStep
  <1>. QED  BY <1>1, <1>2, TypeInvariance, GateInvariance, PTL DEF Spec

-----------------------------------------------------------------------------
(* Refinement of SessionLifecycle.  The tasks being served are the running    *)
(* ones among the tasks spawned, numbered as they were spawned.               *)

LifecyclePhases ==
    /\ phase = "hello" => LifecycleState = "HELLO"
    /\ phase = "auth" => LifecycleState = "AUTH"
    /\ phase \in {"announceDisplay", "openDisplay", "announceCursor",
                  "openCursor", "dispatch", "bind"} => LifecycleState = "READY"
    /\ phase = "drain" => LifecycleState = "CLOSING"
    /\ phase = "closed" => LifecycleState = "CLOSED"
    /\ phase = "failed" => LifecycleState = "ABORTED"

LEMMA PhasesOfLifecycle == LifecyclePhases /\ LifecyclePhases'
  BY DEF LifecyclePhases, LifecycleState

LEMMA LifecycleInit == Init => Lifecycle!Init
  <1>. SUFFICES ASSUME Init PROVE Lifecycle!Init
    OBVIOUS
  <1>1. Len(handlers) = 0 /\ DOMAIN handlers = {}
    BY EmptySeq DEF Init
  <1>2. Live = {}
    BY <1>1 DEF Live
  <1>3. LifecycleState = "HELLO"
    BY PhasesOfLifecycle DEF Init, LifecyclePhases
  <1>. QED  BY <1>1, <1>2, <1>3 DEF Lifecycle!Init

\* The steps that spawn a task open one channel.
LEMMA SpawnOpens ==
    ASSUME TypeInv, NEW t, t \in Handler, t.st = "running",
           handlers' = Append(handlers, t)
    PROVE  /\ Len(handlers') = Len(handlers) + 1
           /\ Live' = Live \cup {Len(handlers) + 1}
  <1>1. /\ handlers \in Seq(Handler) /\ Len(handlers) \in Nat
        /\ DOMAIN handlers = 1 .. Len(handlers)
    BY LenProperties DEF TypeInv, TypeOK
  <1>2. /\ Len(handlers') = Len(handlers) + 1
        /\ DOMAIN handlers' = 1 .. Len(handlers) + 1
        /\ \A i \in 1 .. Len(handlers) : handlers'[i] = handlers[i]
        /\ handlers'[Len(handlers) + 1] = t
    BY <1>1, AppendProperties, LenProperties
  <1>. QED  BY <1>1, <1>2 DEF Live, Running

\* The steps that leave the tasks alone leave the channels alone.
LEMMA SameChannels ==
    ASSUME UNCHANGED handlers
    PROVE  UNCHANGED <<Len(handlers), Live>>
  BY DEF Live, Running

\* A step of a channel task is unseen, or ends its channel.
LEMMA TaskRefines ==
    ASSUME TypeInv, NEW h \in DOMAIN handlers, ChannelTask(h) \/ TaskBroken(h)
    PROVE  [Lifecycle!Next]_Lifecycle!vars
  <1>1. /\ Len(handlers') = Len(handlers)
        /\ DOMAIN handlers' = DOMAIN handlers
        /\ h \in Live
        /\ \A g \in DOMAIN handlers : g # h => handlers'[g] = handlers[g]
    BY ChannelTaskEffect DEF TypeInv, Live, Running
  <1>2. LifecycleState' = LifecycleState
    BY DEF ChannelTask, TaskBroken, LifecycleState
  <1>3. CASE handlers'[h].st = "running"
    <2>1. Live' = Live
      BY <1>1, <1>3 DEF Live, Running
    <2>. QED  BY <1>1, <1>2, <2>1 DEF Lifecycle!vars
  <1>4. CASE handlers'[h].st # "running"
    <2>1. Live' = Live \ {h}
      BY <1>1, <1>4 DEF Live, Running
    <2>. QED  BY <1>1, <1>2, <2>1 DEF Lifecycle!Next, Lifecycle!EndChannel
  <1>. QED  BY <1>3, <1>4

\* Each step of the session task is one step of the lifecycle, or unseen.
LEMMA SessionTaskRefines ==
    ASSUME TypeInv, GateInv, SessionTask \/ StreamBroken
    PROVE  [Lifecycle!Next]_Lifecycle!vars
  <1>. USE PhasesOfLifecycle DEF LifecyclePhases
  <1>1. CASE Greet
    <2>1. phase = "hello" /\ phase' = "auth" /\ UNCHANGED handlers
      BY <1>1 DEF Greet
    <2>. QED  BY <2>1, SameChannels DEF Lifecycle!Next, Lifecycle!Greet
  <1>2. CASE Authenticate
    <2>1. phase = "auth" /\ phase' \in {"announceDisplay", "closed"} /\ UNCHANGED handlers
      BY <1>2 DEF Authenticate
    <2>. QED  BY <2>1, SameChannels DEF Lifecycle!Next, Lifecycle!Admit, Lifecycle!Refuse
  <1>3. CASE AnnounceDisplay \/ AnnounceCursor \/ IgnoreFrame \/ AnswerOpenChannel
    <2>1. /\ LifecycleState = "READY" /\ LifecycleState' = "READY"
          /\ UNCHANGED handlers
      BY <1>3 DEF AnnounceDisplay, AnnounceCursor, AnnounceSender, IgnoreFrame,
                  AnswerOpenChannel
    <2>. QED  BY <2>1, SameChannels DEF Lifecycle!vars
  <1>4. ASSUME NEW t \in Handler, t.st = "running", handlers' = Append(handlers, t),
               LifecycleState = "READY", LifecycleState' = "READY"
        PROVE  Lifecycle!Open
    BY <1>4, SpawnOpens DEF Lifecycle!Open
  <1>5. CASE OpenDisplay \/ OpenCursor
    <2>1. LifecycleState = "READY" /\ LifecycleState' = "READY"
      BY <1>5 DEF OpenDisplay, OpenCursor, OpenSender
    <2>2. \E kind \in SenderKinds, id \in {DisplayId, CursorId} :
              handlers' = Append(handlers, Task(kind, id, 0))
      BY <1>5, Zenon DEF OpenDisplay, OpenCursor, OpenSender, SenderKinds
    <2>3. ASSUME NEW kind \in SenderKinds, NEW id \in {DisplayId, CursorId}
          PROVE  Task(kind, id, 0) \in Handler /\ Task(kind, id, 0).st = "running"
      BY DEF Task, Handler, HandlerStates
    <2>4. Lifecycle!Open
      BY <1>4, <2>1, <2>2, <2>3, Zenon
    <2>. QED  BY <2>4 DEF Lifecycle!Next
  <1>6. CASE BindStream
    <2>1. LifecycleState = "READY" /\ LifecycleState' = "READY"
      BY <1>6 DEF BindStream
    <2>2. PICK s \in DOMAIN streams :
              handlers' = Append(handlers, Task(grant.kind, grant.id, s))
      BY <1>6, Zenon DEF BindStream
    <2>3. grant.kind \in SupportedKinds /\ grant.id \in ChannelIds /\ s \in Nat
      BY <1>6, LenProperties DEF BindStream, TypeInv, TypeOK, Grants
    <2>4. /\ Task(grant.kind, grant.id, s) \in Handler
          /\ Task(grant.kind, grant.id, s).st = "running"
      BY <2>3 DEF Task, Handler, HandlerStates
    <2>5. Lifecycle!Open
      BY <1>4, <2>1, <2>2, <2>4, Zenon
    <2>. QED  BY <2>5 DEF Lifecycle!Next
  <1>7. CASE EndOfControl
    <2>1. phase = "dispatch" /\ phase' = "drain" /\ UNCHANGED handlers
      BY <1>7 DEF EndOfControl
    <2>. QED  BY <2>1, SameChannels DEF Lifecycle!Next, Lifecycle!BeginClose
  <1>8. CASE Finish
    <2>1. phase = "drain" /\ phase' = "closed" /\ UNCHANGED handlers /\ Live = {}
      BY <1>8 DEF Finish, Live, Running
    <2>. QED  BY <2>1, SameChannels DEF Lifecycle!Next, Lifecycle!FinishClose
  <1>9. CASE RejectFrame \/ EarlyEof \/ Disconnected \/ StreamBroken
    <2>1. /\ phase \in Phases \ {"drain", "closed", "failed"} /\ phase' = "failed"
          /\ UNCHANGED handlers
      BY <1>9 DEF RejectFrame, EarlyEof, Disconnected, StreamBroken, Fail, TypeInv, TypeOK, Phases
    <2>2. LifecycleState \in {"HELLO", "AUTH", "READY"} /\ LifecycleState' = "ABORTED"
      BY <2>1 DEF Phases
    <2>. QED  BY <2>1, <2>2, SameChannels DEF Lifecycle!Next, Lifecycle!Abort
  <1>. QED
    BY <1>1, <1>2, <1>3, <1>5, <1>6, <1>7, <1>8, <1>9 DEF SessionTask, Advance

LEMMA LifecycleStep ==
    TypeInv /\ GateInv /\ [Next]_vars => [Lifecycle!Next]_Lifecycle!vars
  <1>. SUFFICES ASSUME TypeInv, GateInv, [Next]_vars
                PROVE  [Lifecycle!Next]_Lifecycle!vars
    OBVIOUS
  <1>1. CASE Client \/ ConnectionLost \/ UNCHANGED vars
    <2>1. UNCHANGED <<phase, handlers>>
      BY <1>1 DEF Client, ClientWrites, ClientFinishes, ClientOpens, ClientSends,
           ClientEnds, ConnectionLost, vars, serverVars
    <2>2. LifecycleState' = LifecycleState
      BY <2>1 DEF LifecycleState
    <2>. QED  BY <2>1, <2>2, SameChannels DEF Lifecycle!vars
  <1>. QED  BY <1>1, SessionTaskRefines, TaskRefines DEF Next

\* Whatever the client does, a session of the server is a session of
\* SessionLifecycle: admission before channels, one channel at a time, and an
\* orderly close only when all of them have ended.
THEOREM SessionImplementsLifecycle == Spec => ImplementsLifecycle
  BY LifecycleInit, LifecycleStep, TypeInvariance, GateInvariance, PTL
     DEF Spec, ImplementsLifecycle, Lifecycle!Spec

=============================================================================
