----------------------------- MODULE TestClient -----------------------------
(***************************************************************************)
(* openrd-test-client (crates/openrd-test-client/src/main.rs) against the  *)
(* server of Session: hello, PIN, the two announcements, the streams they  *)
(* announce, the four client channels one after the other, the end of      *)
(* Control, the end of the two receivers, and the close.                   *)
(***************************************************************************)
EXTENDS ControlClient

VARIABLES
    turn,       \* which channel is being opened or exercised
    op,         \* which step of its exercise is next
    receivers   \* the kinds of the server streams accepted, in order

clientState == <<turn, op, receivers>>
allVars == <<vars, programVars, clientState>>

-----------------------------------------------------------------------------
(* The four exercises: what is written on the stream of the channel, when the
   answer is awaited, and the end of the stream.  "ask" is the frame the server
   answers, with what is written before it; "note" is what is written after it,
   or instead of it, and needs no answer. *)

Channels == <<"INPUT", "CLIPBOARD", "CHAT", "FILE">>

\* The channels it opens, and the ids it gives them, are among those of a client.
ASSUME ChannelsAssumption == SupportedKinds \subseteq ClientKinds /\ 1 .. 4 \subseteq ChannelIds

Exercise(kind) ==
    IF kind = "INPUT" THEN <<"note", "fin">> ELSE <<"ask", "answer", "note", "fin">>

Kind == Channels[turn]

\* The streams are opened in the order of the turns, one per turn.
Mine == turn

Op == Exercise(Kind)[op]

TestClientTypeOK ==
    /\ TypeOK
    /\ heard \in 0 .. Len(toClient)
    /\ secret \in Credentials /\ cut \in BOOLEAN
    /\ turn \in 1 .. Len(Channels) + 1 /\ op \in 1 .. 4
    /\ receivers \in Seq(SenderKinds)
    /\ pc \in {"hello", "helloSent", "auth", "authSent", "display", "cursor",
               "accept", "open", "openSent", "stream", "exercise", "endControl",
               "waitDisplay", "waitCursor", "close", "done", "failed"}

TestClientInit == ProgramInit /\ turn = 1 /\ op = 1 /\ receivers = <<>>

\* Control, up to the two announcements.
Handshake ==
    /\ \/ Say(Hello, "hello", "helloSent")
       \/ Hear(IsServerHello, "helloSent", "auth")
       \/ Say(PinRequest, "auth", "authSent")
       \/ Hear(IsAdmission, "authSent", "display")
       \/ Hear(Heard.type = "OpenChannel", "display", "cursor")
       \/ Hear(Heard.type = "OpenChannel", "cursor", "accept")
    /\ UNCHANGED clientState

\* accept_uni, twice: the server's streams come in the order it opened them.
Opened == Picked(handlers, {h \in DOMAIN handlers : IsSender(h)})

AcceptStream ==
    /\ pc = "accept"
    /\ Len(receivers) < Len(Opened)
    /\ receivers' = Append(receivers, Opened[Len(receivers) + 1].kind)
    /\ pc' = IF Len(receivers') = 2 THEN "open" ELSE "accept"
    /\ UNCHANGED <<vars, heard, secret, cut, turn, op>>

\* The stream ids it writes, 2, 6, 10 and 14, are of no stream it opens.
OpenChannel ==
    /\ \/ Say([type |-> "OpenChannel", kind |-> Kind, id |-> turn, stream |-> 0],
              "open", "openSent")
       \/ Hear(IsGrant, "openSent", "stream")
    /\ UNCHANGED clientState

OpenStream ==
    /\ pc = "stream" /\ connected
    /\ streams' = Append(streams, [dir |-> Direction(Kind), sent |-> <<>>, fin |-> FALSE])
    /\ pc' = "exercise"
    /\ op' = 1
    /\ UNCHANGED <<connected, fromClient, finished, serverVars, heard, secret, cut,
                   turn, receivers>>

WriteOnStream ==
    /\ pc = "exercise" /\ connected
    /\ Op \in {"note", "ask"}
    /\ streams' = [streams EXCEPT ![Mine].sent = Append(@, Op)]
    /\ op' = op + 1
    /\ UNCHANGED <<connected, fromClient, finished, serverVars, programVars,
                   turn, receivers>>

\* The task that serves the stream of this turn has answered.
Answered ==
    \E h \in DOMAIN handlers : handlers[h].stream = Mine /\ handlers[h].replies > 0

ReadAnswer ==
    /\ pc = "exercise" /\ Op = "answer" /\ Answered
    /\ op' = op + 1
    /\ UNCHANGED <<vars, programVars, turn, receivers>>

\* finish() on the stream, then the next channel; after the last one, finish() on
\* Control.  Its errors are ignored: without a connection nothing is finished.
EndStream ==
    /\ pc = "exercise" /\ Op = "fin"
    /\ streams' = IF connected THEN [streams EXCEPT ![Mine].fin = TRUE] ELSE streams
    /\ turn' = turn + 1
    /\ pc' = IF turn = Len(Channels) THEN "endControl" ELSE "open"
    /\ UNCHANGED <<connected, fromClient, finished, serverVars, heard, secret, cut, op, receivers>>

EndControl ==
    /\ pc = "endControl"
    /\ finished' = connected
    /\ pc' = "waitDisplay"
    /\ UNCHANGED <<connected, fromClient, streams, serverVars, heard, secret, cut, clientState>>

\* A receiver reads to the end of its stream.  A sender that gives up drops the
\* stream, which ends it early.  When all its frames are written the end may be with
\* the receiver before the sender's finish() returns, or even if the connection is
\* lost before it does; or a lost connection leaves the receiver an error.
Sender(kind) == handlers[CHOOSE h \in DOMAIN handlers : handlers[h].kind = kind]

ReceiverDone(kind) ==
    \/ Sender(kind).count = SenderFrames(kind)
    \/ Sender(kind).st = "error" /\ connected

ReceiverFails(kind) == ~connected /\ Sender(kind).st # "done"

\* Mutant: the program closes when it has the video.
AwaitDisplayOnly ==
    /\ pc = "waitDisplay" /\ ReceiverDone(receivers[1]) /\ pc' = "close"
    /\ UNCHANGED <<vars, heard, secret, cut, clientState>>

AwaitReceivers ==
    /\ \/ pc = "waitDisplay" /\ ReceiverDone(receivers[1]) /\ pc' = "waitCursor"
       \/ pc = "waitCursor" /\ ReceiverDone(receivers[2]) /\ pc' = "close"
    /\ UNCHANGED <<vars, heard, secret, cut, clientState>>

\* conn.close, after a pause that nothing in the server depends on.
Close ==
    /\ pc = "close"
    /\ connected' = FALSE
    /\ pc' = "done"
    /\ UNCHANGED <<clientVars, serverVars, heard, secret, cut, clientState>>

\* Any error returns from main, and the connection goes with the process.
GiveUp ==
    /\ \/ Unexpected(IsServerHello, "helloSent")
       \/ Unexpected(IsAdmission, "authSent")
       \/ Unexpected(Heard.type = "OpenChannel", "display")
       \/ Unexpected(Heard.type = "OpenChannel", "cursor")
       \/ Unexpected(IsGrant, "openSent")
       \/ Silence /\ pc \in {"helloSent", "authSent", "display", "cursor", "openSent"}
       \/ ~connected /\ pc \in {"hello", "auth", "accept", "open", "stream"}
       \/ ~connected /\ pc = "exercise" /\ Op # "fin"
       \/ pc = "waitDisplay" /\ ReceiverFails(receivers[1])
       \/ pc = "waitCursor" /\ ReceiverFails(receivers[2])
    /\ pc' = "failed"
    /\ connected' = FALSE
    /\ UNCHANGED <<clientVars, serverVars, heard, secret, cut, clientState>>

Program ==
    \/ Handshake \/ AcceptStream \/ OpenChannel \/ OpenStream
    \/ WriteOnStream \/ ReadAnswer \/ EndStream \/ EndControl
    \/ AwaitReceivers \/ Close \/ GiveUp

TestClientNext ==
    \/ Program
    \/ (Server \/ ServerDropsConnection \/ NetworkFails) /\ UNCHANGED clientState

\* Both processes go on while they can; the client's transport lets the server open
\* its two streams, so the whole server is fair here.  Every task of this system takes finitely
\* many steps, so nothing need be said of each task by itself.
TestClientSpec ==
    /\ TestClientInit /\ [][TestClientNext]_allVars
    /\ WF_allVars(Server /\ UNCHANGED clientState)
    /\ WF_allVars(Program)

-----------------------------------------------------------------------------
(* Safety. *)

\* The stream the client opened for a channel is served by the handler of that
\* channel: OpenChannel names no stream the server would look at, so this rests
\* on the lock step and on the order of the streams alone.
StreamsServeTheirChannel ==
    \A h \in DOMAIN handlers :
        handlers[h].stream # 0 => handlers[h].kind = Channels[handlers[h].stream]

\* The ack the client goes on with is the one for the channel it asked for,
\* though expect_ack does not look at the channel id (main.rs:710-726).
AckIsMine == pc \in {"stream", "exercise"} => toClient[heard] = Ack(turn, "OK")

\* The streams the client accepts are, in order, the ones announced on Control
\* (control.rs:58-61): it takes the first for Display and the second for Cursor.
StreamsComeAsAnnounced ==
    \A i \in DOMAIN receivers : toClient[2 + i].kind = receivers[i]

\* While the connection is up, a client that follows the protocol never makes
\* the session fail, nor a handler of one of its channels.
FaithfulClientIsServed ==
    connected => /\ phase # "failed"
                 /\ \A h \in DOMAIN handlers :
                       ~IsSender(h) => handlers[h].st # "error"

\* What a sender may still have to do when nobody waits for it any more: nothing.
Settled(h) == Running(h) => handlers[h].count = SenderFrames(handlers[h].kind)

\* The program closes the connection, after an end of Control that stops no sender,
\* only when both senders have written their last frame or given up: its close cuts
\* off nothing (main.rs:141-151).
CloseCutsNoSender ==
    pc \in {"close", "done"} => \A h \in DOMAIN handlers : IsSender(h) => Settled(h)

-----------------------------------------------------------------------------
(* Liveness: the program and the server's tasks are polled when they can go on;
   the network need not stay up, and need not fail. *)

ServerReleased == Over /\ \A h \in DOMAIN handlers : ~Running(h)

\* With the right PIN, a network that stays up and an encoder that works, the
\* program gets through all the channels to its own close: no wait in it is for
\* something the server does not do.
NothingBreaks ==
    ~cut /\ (connected => \A h \in DOMAIN handlers : handlers[h].st # "error")

RightPinCompletes == ([]NothingBreaks) => (secret = Pin ~> pc = "done")

\* With another PIN, it fails, and the server opened nothing for it and never will.
WrongPinIsRefused ==
    <>[](secret # Pin =>
            pc = "failed" /\ phase \in {"closed", "failed"} /\ handlers = <<>>)

\* Whatever the network does and whatever the encoder does, the program ends and
\* the server keeps no task of the session.
NobodyWaitsForever == <>[](pc \in {"done", "failed"} /\ ServerReleased)

=============================================================================
