------------------------------- MODULE Session -------------------------------
(***************************************************************************)
(* One session of openrd-server: the task that runs handle_control_stream  *)
(* (crates/openrd-server/src/control.rs), the tasks it spawns for the      *)
(* channels, the QUIC connection below them, and a client that may do      *)
(* anything the transport lets it do.                                      *)
(*                                                                         *)
(* The Control stream is two sequences that only grow: what the client     *)
(* wrote (fromClient, of which the server has read the first `read') and   *)
(* what the server wrote (toClient).  QUIC streams are reliable and        *)
(* ordered, so nothing is lost or reordered inside one; the connection as  *)
(* a whole may be lost at any time.  Several streams are independent.      *)
(***************************************************************************)
EXTENDS Naturals, Sequences, SequencePicks

CONSTANTS
    Credentials,    \* the credentials a client can present
    Pin,            \* the PIN of this server instance
    ChannelIds,     \* the channel ids a client picks
    ClientKinds,    \* the channel kinds a client asks for
    Alphabet,       \* the Control frames a client writes, and
    Letters,        \* the frames it writes on a channel stream (see below)
    MaxControl,     \* bound: frames the client writes on Control
    MaxStreams,     \* bound: streams the client opens besides Control
    MaxFrames,      \* bound: frames the client writes on one such stream
    DisplayFrames,  \* frames of the test pattern (30 in the code)
    CursorMoves,    \* pointer moves sent (5 in the code)
    EncoderMayFail  \* whether the H.264 encoder can return an error

ASSUME PinAssumption == Pin \in Credentials
ASSUME ServerFramesAssumption ==
    DisplayFrames \in Nat /\ CursorMoves \in Nat /\ EncoderMayFail \in BOOLEAN
ASSUME BoundsAssumption ==
    MaxControl \in Nat /\ MaxStreams \in Nat /\ MaxFrames \in Nat

VARIABLES
    connected,      \* the QUIC connection is up
    fromClient,     \* frames the client wrote on Control
    finished,       \* the client finished its side of Control
    read,           \* how many of these frames the server has read
    toClient,       \* frames the server wrote on Control
    streams,        \* the streams the client opened, in opening order
    phase,          \* where handle_control_stream is
    grant,          \* the OpenChannel acknowledged whose stream is awaited
    handlers        \* the tasks spawned, in the order of `handles'

clientVars == <<fromClient, finished, streams>>
serverVars == <<read, toClient, phase, grant, handlers>>
vars == <<connected, clientVars, serverVars>>

-----------------------------------------------------------------------------
(* Frames on the Control stream. *)

\* The channels a client may open, and the direction of their stream.
UniKinds == {"INPUT"}
BiKinds == {"CLIPBOARD", "CHAT", "FILE"}
SupportedKinds == UniKinds \cup BiKinds

\* The channels the server opens by itself.
SenderKinds == {"DISPLAY", "CURSOR"}

Direction(kind) == IF kind \in UniKinds THEN "uni" ELSE "bi"

\* `caps' says whether the capabilities have a common display codec and
\* authentication method; "Other" is any Control frame of another type, and
\* "Malformed" one that no reader can take: cut off by the end of the stream,
\* oversized, or of a payload that does not decode.  `stream' is the stream an
\* OpenChannel names, 0 for one the client does not open; the server drops it.
ClientFrame ==
         [type : {"ClientHello"}, version : {0, 1}, caps : {"common", "none"}]
    \cup [type : {"AuthRequest"}, method : {"pin", "other"}, cred : Credentials]
    \cup [type : {"OpenChannel"}, kind : ClientKinds, id : ChannelIds,
          stream : 0 .. MaxStreams]
    \cup [type : {"Other", "Malformed"}]

Statuses == {"OK", "AUTH_FAILED", "NOT_IMPLEMENTED"}

DisplayId == 100
CursorId == 101

ServerHello == [type |-> "ServerHello"]
AuthResult(status) == [type |-> "AuthResult", status |-> status]
Announce(kind, id) == [type |-> "OpenChannel", kind |-> kind, id |-> id]
Ack(id, status) == [type |-> "OpenChannelAck", id |-> id, status |-> status]

ServerFrame ==
         {ServerHello}
    \cup [type : {"AuthResult"}, status : Statuses]
    \cup {Announce("DISPLAY", DisplayId), Announce("CURSOR", CursorId)}
    \cup [type : {"OpenChannelAck"}, id : ChannelIds, status : Statuses]

\* hello_exchange insists on the version of the frame header and on the type;
\* a failed capability negotiation is only logged.
AcceptableHello(f) == f.type = "ClientHello" /\ f.version = 0

\* The status auth_exchange answers with.
AuthStatus(f) ==
    CASE f.method = "pin" /\ f.cred = Pin -> "OK"
      [] f.method = "pin" /\ f.cred # Pin -> "AUTH_FAILED"
      [] f.method # "pin" -> "NOT_IMPLEMENTED"

\* Mutant: every channel the client names is granted.
OpenStatusUnchecked(kind) == "OK"

OpenStatus(kind) == IF kind \in SupportedKinds THEN "OK" ELSE "NOT_IMPLEMENTED"

-----------------------------------------------------------------------------
(* Frames on a channel stream: one that needs no answer, one the handler of a
   bidirectional channel answers (RequestContent, ChatMessage, Chunk), and one
   that ends the handler with an error (unknown type, undecodable payload, a
   stream that ends inside a frame). *)

ChannelFrame == {"note", "ask", "bad"}

Stream == [dir : {"uni", "bi"}, sent : Seq(ChannelFrame), fin : BOOLEAN]

HandlerStates == {"running", "done", "error"}

\* stream: the client stream served, 0 for the ones the server opened;
\* count: frames read from it, or written to it by a sender.
Handler == [kind : SupportedKinds \cup SenderKinds,
            id : ChannelIds \cup {DisplayId, CursorId},
            stream : Nat, count : Nat, replies : Nat, st : HandlerStates]

NoGrant == [type |-> "none"]

Phases == {"hello", "auth", "announceDisplay", "openDisplay", "announceCursor",
           "openCursor", "dispatch", "bind", "drain", "closed", "failed"}

TypeOK ==
    /\ connected \in BOOLEAN
    /\ fromClient \in Seq(ClientFrame)
    /\ finished \in BOOLEAN
    /\ read \in 0 .. Len(fromClient)
    /\ toClient \in Seq(ServerFrame)
    /\ streams \in Seq(Stream)
    /\ phase \in Phases
    /\ grant \in {NoGrant} \cup [kind : SupportedKinds, id : ChannelIds]
    /\ handlers \in Seq(Handler)

Init ==
    /\ connected = TRUE
    /\ fromClient = <<>>
    /\ finished = FALSE
    /\ read = 0
    /\ toClient = <<>>
    /\ streams = <<>>
    /\ phase = "hello"
    /\ grant = NoGrant
    /\ handlers = <<>>

ASSUME AlphabetAssumption == Alphabet \subseteq ClientFrame /\ Letters \subseteq ChannelFrame

-----------------------------------------------------------------------------
(* The session task.  Every await on the Control stream is one action; a     *)
(* frame read and the answer written to it are one action, because nothing   *)
(* else can tell them apart: a write fails only when the connection or the   *)
(* stream is broken, and then the session fails as Disconnected and          *)
(* StreamBroken say.                                                         *)

NextFrame == fromClient[read + 1]

Arrived == read < Len(fromClient)

\* The client finished Control and everything it wrote has been read.
ControlEof == finished /\ read = Len(fromClient)

Write(frame) == toClient' = Append(toClient, frame)

\* hello_exchange.
Greet ==
    /\ phase = "hello" /\ connected
    /\ Arrived /\ AcceptableHello(NextFrame)
    /\ read' = read + 1
    /\ Write(ServerHello)
    /\ phase' = "auth"
    /\ UNCHANGED <<connected, clientVars, grant, handlers>>

\* Mutant: the verdict is written, and its result dropped.
AuthenticateUnchecked ==
    /\ phase = "auth" /\ connected
    /\ Arrived /\ NextFrame.type = "AuthRequest"
    /\ read' = read + 1
    /\ Write(AuthResult(AuthStatus(NextFrame)))
    /\ phase' = "announceDisplay"
    /\ UNCHANGED <<connected, clientVars, grant, handlers>>

\* auth_exchange, and the early return when it answers false.
Authenticate ==
    /\ phase = "auth" /\ connected
    /\ Arrived /\ NextFrame.type = "AuthRequest"
    /\ read' = read + 1
    /\ Write(AuthResult(AuthStatus(NextFrame)))
    /\ phase' = IF AuthStatus(NextFrame) = "OK" THEN "announceDisplay" ELSE "closed"
    /\ UNCHANGED <<connected, clientVars, grant, handlers>>

Task(kind, id, s) ==
    [kind |-> kind, id |-> id, stream |-> s, count |-> 0, replies |-> 0,
     st |-> "running"]

AnnounceSender(kind, id, from, to) ==
    /\ phase = from /\ connected
    /\ Write(Announce(kind, id))
    /\ phase' = to
    /\ UNCHANGED <<connected, clientVars, read, grant, handlers>>

\* open_uni, the first frame (StreamParameters, CursorShape) written at once,
\* and the spawn of the sender.  open_uni waits for the client to let one more
\* stream be opened, which it may never do: no fairness is assumed of this step.
OpenSender(kind, id, from, to) ==
    /\ phase = from /\ connected
    /\ handlers' = Append(handlers, Task(kind, id, 0))
    /\ phase' = to
    /\ UNCHANGED <<connected, clientVars, read, toClient, grant>>

\* Mutants: the streams are opened in another order than they are announced, and
\* the second announcement is forgotten.
OpenCursorFirst == OpenSender("CURSOR", CursorId, "openDisplay", "announceCursor")
SkipCursorAnnouncement ==
    /\ phase = "announceCursor" /\ connected
    /\ phase' = "openCursor"
    /\ UNCHANGED <<connected, clientVars, read, toClient, grant, handlers>>

AnnounceDisplay ==
    AnnounceSender("DISPLAY", DisplayId, "announceDisplay", "openDisplay")
OpenDisplay == OpenSender("DISPLAY", DisplayId, "openDisplay", "announceCursor")
AnnounceCursor ==
    AnnounceSender("CURSOR", CursorId, "announceCursor", "openCursor")
OpenCursor == OpenSender("CURSOR", CursorId, "openCursor", "dispatch")

\* A frame of another type than OpenChannel is logged and dropped.
IgnoreFrame ==
    /\ phase = "dispatch"
    /\ Arrived /\ NextFrame.type \notin {"OpenChannel", "Malformed"}
    /\ read' = read + 1
    /\ UNCHANGED <<connected, clientVars, toClient, phase, grant, handlers>>

\* Mutant: a refused OpenChannel is dropped like any unexpected frame.
AnswerGrantedOnly ==
    /\ phase = "dispatch" /\ connected
    /\ Arrived /\ NextFrame.type = "OpenChannel"
    /\ read' = read + 1
    /\ IF OpenStatus(NextFrame.kind) = "OK"
       THEN /\ Write(Ack(NextFrame.id, "OK"))
            /\ grant' = [kind |-> NextFrame.kind, id |-> NextFrame.id]
            /\ phase' = "bind"
       ELSE UNCHANGED <<toClient, grant, phase>>
    /\ UNCHANGED <<connected, clientVars, handlers>>

\* Every OpenChannel is acknowledged, at once; a refused one needs no more.
AnswerOpenChannel ==
    /\ phase = "dispatch" /\ connected
    /\ Arrived /\ NextFrame.type = "OpenChannel"
    /\ read' = read + 1
    /\ LET status == OpenStatus(NextFrame.kind)
       IN  /\ Write(Ack(NextFrame.id, status))
           /\ IF status = "OK"
              THEN /\ grant' = [kind |-> NextFrame.kind, id |-> NextFrame.id]
                   /\ phase' = "bind"
              ELSE UNCHANGED <<grant, phase>>
    /\ UNCHANGED <<connected, clientVars, handlers>>

\* The client streams of one direction that nothing accepted yet, and the one
\* accept_uni or accept_bi hands out: the oldest.
Waiting(dir) ==
    {s \in DOMAIN streams :
        /\ streams[s].dir = dir
        /\ \A h \in DOMAIN handlers : handlers[h].stream # s}

IsOldest(s, dir) == s \in Waiting(dir) /\ \A t \in Waiting(dir) : s <= t

\* Mutants: the accept left to the spawned tasks, which race for the streams; two
\* arms of the dispatch swapped; the channel acknowledged again when its stream
\* has come.
BindRacing ==
    /\ phase = "bind"
    /\ \E s \in Waiting(Direction(grant.kind)) :
          handlers' = Append(handlers, Task(grant.kind, grant.id, s))
    /\ grant' = NoGrant
    /\ phase' = "dispatch"
    /\ UNCHANGED <<connected, clientVars, read, toClient>>

BindSwappedArms ==
    /\ phase = "bind"
    /\ LET kind == CASE grant.kind = "CHAT" -> "CLIPBOARD"
                     [] grant.kind = "CLIPBOARD" -> "CHAT"
                     [] OTHER -> grant.kind
       IN  \E s \in DOMAIN streams :
              /\ IsOldest(s, Direction(kind))
              /\ handlers' = Append(handlers, Task(kind, grant.id, s))
    /\ grant' = NoGrant
    /\ phase' = "dispatch"
    /\ UNCHANGED <<connected, clientVars, read, toClient>>

BindAndAck ==
    /\ phase = "bind"
    /\ \E s \in DOMAIN streams :
          /\ IsOldest(s, Direction(grant.kind))
          /\ handlers' = Append(handlers, Task(grant.kind, grant.id, s))
    /\ Write(Ack(grant.id, "OK"))
    /\ grant' = NoGrant
    /\ phase' = "dispatch"
    /\ UNCHANGED <<connected, clientVars, read>>

\* The dispatcher waits for the stream of the channel it just granted, and
\* reads no Control frame meanwhile.
BindStream ==
    /\ phase = "bind"
    /\ \E s \in DOMAIN streams :
          /\ IsOldest(s, Direction(grant.kind))
          /\ handlers' = Append(handlers, Task(grant.kind, grant.id, s))
    /\ grant' = NoGrant
    /\ phase' = "dispatch"
    /\ UNCHANGED <<connected, clientVars, read, toClient>>

\* Mutant: the session returns at the end of Control.
EndAtOnce ==
    /\ phase = "dispatch" /\ ControlEof
    /\ phase' = "closed"
    /\ UNCHANGED <<connected, clientVars, read, toClient, grant, handlers>>

EndOfControl ==
    /\ phase = "dispatch" /\ ControlEof
    /\ phase' = "drain"
    /\ UNCHANGED <<connected, clientVars, read, toClient, grant, handlers>>

\* Mutants: the first task is not awaited, and a task that ended with an error is
\* awaited for ever.
FinishEarly ==
    /\ phase = "drain"
    /\ \A h \in DOMAIN handlers : h = 1 \/ handlers[h].st # "running"
    /\ phase' = "closed"
    /\ UNCHANGED <<connected, clientVars, read, toClient, grant, handlers>>

FinishWhenAllDone ==
    /\ phase = "drain"
    /\ \A h \in DOMAIN handlers : handlers[h].st = "done"
    /\ phase' = "closed"
    /\ UNCHANGED <<connected, clientVars, read, toClient, grant, handlers>>

\* All join handles awaited, however the tasks ended.
Finish ==
    /\ phase = "drain"
    /\ \A h \in DOMAIN handlers : handlers[h].st # "running"
    /\ phase' = "closed"
    /\ UNCHANGED <<connected, clientVars, read, toClient, grant, handlers>>

\* The `?' on the Control stream: the session returns an error.  The join
\* handles are dropped, which detaches the tasks and does not stop them.
Fail ==
    /\ phase' = "failed"
    /\ UNCHANGED <<connected, clientVars, toClient, grant, handlers>>

RejectFrame ==
    /\ Arrived
    /\ \/ phase = "hello" /\ ~AcceptableHello(NextFrame)
       \/ phase = "auth" /\ NextFrame.type # "AuthRequest"
       \/ phase = "dispatch" /\ NextFrame.type = "Malformed"
    /\ read' = read + 1
    /\ Fail

\* Mutant: the dispatcher too takes the end of Control for an error.
EofIsAlwaysEarly ==
    /\ phase \in {"hello", "auth", "dispatch"} /\ ControlEof
    /\ Fail /\ UNCHANGED read

\* The end of Control is an error to read_full_frame, not to the dispatcher.
EarlyEof ==
    /\ phase \in {"hello", "auth"} /\ ControlEof
    /\ Fail /\ UNCHANGED read

\* Waiting for the join handles uses no stream, so the drain goes on.
Disconnected ==
    /\ ~connected /\ phase \notin {"drain", "closed", "failed"}
    /\ Fail /\ UNCHANGED read

\* What the task does of itself, and what it does when the client has room for
\* another stream.
Advance ==
    \/ Greet \/ Authenticate \/ AnnounceDisplay \/ AnnounceCursor
    \/ IgnoreFrame \/ AnswerOpenChannel \/ BindStream \/ EndOfControl \/ Finish
    \/ RejectFrame \/ EarlyEof \/ Disconnected

SessionTask == Advance \/ OpenDisplay \/ OpenCursor

-----------------------------------------------------------------------------
(* The channel tasks.  They share nothing with the session task but the join
   handle, so they run on while it waits, and after it. *)

Running(h) == handlers[h].st = "running"

Live == {h \in DOMAIN handlers : Running(h)}

IsSender(h) == handlers[h].kind \in SenderKinds

Served(h) == streams[handlers[h].stream]

NextChannelFrame(h) == Served(h).sent[handlers[h].count + 1]

HasFrame(h) == ~IsSender(h) /\ handlers[h].count < Len(Served(h).sent)

\* Only the handlers of bidirectional channels answer.
Answers(h) == NextChannelFrame(h) = "ask" /\ handlers[h].kind \in BiKinds

EndTask(h, st) == handlers' = [handlers EXCEPT ![h].st = st]

Counted(t) == [t EXCEPT !.count = @ + 1]
Replied(t) == [t EXCEPT !.replies = @ + 1]

HandleFrame(h) ==
    /\ Running(h) /\ HasFrame(h) /\ NextChannelFrame(h) # "bad"
    /\ Answers(h) => connected
    /\ handlers' = [handlers EXCEPT ![h] =
                        IF Answers(h) THEN Replied(Counted(@)) ELSE Counted(@)]

HandlerEof(h) ==
    /\ Running(h) /\ ~IsSender(h)
    /\ Served(h).fin /\ handlers[h].count = Len(Served(h).sent)
    /\ EndTask(h, "done")

\* Mutant: a task that reads does not notice that the connection is gone.
DeafHandler(h) ==
    /\ Running(h)
    /\ \/ HasFrame(h) /\ NextChannelFrame(h) = "bad"
       \/ ~connected /\ IsSender(h)
       \/ EncoderMayFail /\ handlers[h].kind = "DISPLAY"
    /\ EndTask(h, "error")

\* A bad frame, the connection lost under a read or a write, or the encoder
\* of the Display sender giving up.
HandlerError(h) ==
    /\ Running(h)
    /\ \/ HasFrame(h) /\ NextChannelFrame(h) = "bad"
       \/ ~connected
       \/ EncoderMayFail /\ handlers[h].kind = "DISPLAY"
    /\ EndTask(h, "error")

SenderFrames(kind) == IF kind = "DISPLAY" THEN DisplayFrames ELSE CursorMoves

SendFrame(h) ==
    /\ Running(h) /\ IsSender(h) /\ connected
    /\ handlers[h].count < SenderFrames(handlers[h].kind)
    /\ handlers' = [handlers EXCEPT ![h] = Counted(@)]

\* finish() returns Ok when the client has all that was written.  Its error is
\* ignored, so a task that loses the connection here returns Ok all the same; it
\* ends in HandlerError, for the client did not get the end of its stream, and
\* nothing else tells the two apart.
SenderDone(h) ==
    /\ Running(h) /\ IsSender(h) /\ connected
    /\ handlers[h].count = SenderFrames(handlers[h].kind)
    /\ EndTask(h, "done")

ChannelTask(h) ==
    /\ \/ HandleFrame(h) \/ HandlerEof(h) \/ HandlerError(h)
       \/ SendFrame(h) \/ SenderDone(h)
    /\ UNCHANGED <<connected, clientVars, read, toClient, phase, grant>>

-----------------------------------------------------------------------------
(* A client bound by nothing but the transport, and the connection.  When the *)
(* session task returns it drops Control and the connection: what the client  *)
(* writes or opens from then on is refused, or reaches nobody.                *)

Over == phase \in {"closed", "failed"}

ClientWrites(f) ==
    /\ connected /\ ~finished /\ ~Over
    /\ Len(fromClient) < MaxControl
    /\ fromClient' = Append(fromClient, f)
    /\ UNCHANGED <<connected, finished, streams, serverVars>>

ClientFinishes ==
    /\ connected /\ ~finished /\ ~Over
    /\ finished' = TRUE
    /\ UNCHANGED <<connected, fromClient, streams, serverVars>>

ClientOpens(dir) ==
    /\ connected /\ ~Over
    /\ Len(streams) < MaxStreams
    /\ streams' = Append(streams, [dir |-> dir, sent |-> <<>>, fin |-> FALSE])
    /\ UNCHANGED <<connected, fromClient, finished, serverVars>>

ClientSends(s, f) ==
    /\ connected /\ ~streams[s].fin
    /\ Len(streams[s].sent) < MaxFrames
    /\ streams' = [streams EXCEPT ![s].sent = Append(@, f)]
    /\ UNCHANGED <<connected, fromClient, finished, serverVars>>

ClientEnds(s) ==
    /\ connected /\ ~streams[s].fin
    /\ streams' = [streams EXCEPT ![s].fin = TRUE]
    /\ UNCHANGED <<connected, fromClient, finished, serverVars>>

Client ==
    \/ \E f \in Alphabet : ClientWrites(f)
    \/ ClientFinishes
    \/ \E dir \in {"uni", "bi"} : ClientOpens(dir)
    \/ \E s \in DOMAIN streams :
          \/ \E f \in Letters : ClientSends(s, f)
          \/ ClientEnds(s)

\* Closed by the client, timed out, or closed below the server's tasks.
ConnectionLost ==
    /\ connected
    /\ connected' = FALSE
    /\ UNCHANGED <<clientVars, serverVars>>

\* The client resets a stream it writes, or stops one it reads, while the
\* connection stays up.  The first read or write to meet this is an error: of the
\* session if it is the session task's, which uses Control and writes the first
\* frame of Display and of Cursor, and else of the one task the stream belongs to.
\* While it binds or drains, the session task uses no stream.
StreamBroken ==
    /\ connected /\ phase \notin {"bind", "drain", "closed", "failed"}
    /\ Fail /\ UNCHANGED read

TaskBroken(h) ==
    /\ connected /\ Running(h)
    /\ EndTask(h, "error")
    /\ UNCHANGED <<connected, clientVars, read, toClient, phase, grant>>

Next ==
    \/ SessionTask \/ StreamBroken
    \/ \E h \in DOMAIN handlers : ChannelTask(h) \/ TaskBroken(h)
    \/ Client
    \/ ConnectionLost

Spec == Init /\ [][Next]_vars

\* The runtime keeps polling every task whose await is ready; nothing obliges
\* the client to go on, or to let the server open a stream, or the connection to
\* fail.  A session has the two senders and one task per OpenChannel, and two of
\* the Control frames are not OpenChannels.
MaxTasks == MaxControl

TasksRun ==
    /\ WF_vars(Advance)
    /\ \A h \in 1 .. MaxTasks : WF_vars(h \in DOMAIN handlers /\ ChannelTask(h))

FairSpec == Spec /\ TasksRun

-----------------------------------------------------------------------------
(* Safety. *)

\* What only a presented PIN may lead to.
Authentic(f) == f.type = "AuthRequest" /\ f.method = "pin" /\ f.cred = Pin

Authenticated ==
    /\ read >= 2
    /\ AcceptableHello(fromClient[1])
    /\ Authentic(fromClient[2])

\* Nothing but the greeting and the verdict leaves the server, and no task is
\* spawned, unless the first frame the client wrote on Control was an
\* acceptable hello and the second one presented the PIN (control.rs:47-51).
AuthGate == Authenticated \/ (handlers = <<>> /\ Len(toClient) <= 2)

IsOpen(f) == f.type = "OpenChannel"

\* The OpenChannels the dispatcher has read, in order.
Opens == Picked(fromClient, {i \in 3 .. read : IsOpen(fromClient[i])})

Script ==
    <<ServerHello, AuthResult("OK"),
      Announce("DISPLAY", DisplayId), Announce("CURSOR", CursorId)>>
    \o [i \in DOMAIN Opens |-> Ack(Opens[i].id, OpenStatus(Opens[i].kind))]

IsPrefixOf(s, t) == Len(s) <= Len(t) /\ \A i \in DOMAIN s : s[i] = t[i]

\* The server writes one conversation on Control: greeting, verdict, the two
\* announcements, then exactly one answer per OpenChannel read, in the order
\* they came; once a client is admitted nothing is skipped, and a client that
\* is refused reads its status and nothing more (control.rs:62-126).  That is what
\* the code does whatever capabilities the hello has; NoOverlapIsFatal below is
\* what the documents ask for instead.
OneConversation ==
    /\ \/ IsPrefixOf(toClient, Script)
       \/ /\ phase = "closed" /\ Len(toClient) = 2
          /\ toClient = <<ServerHello, AuthResult(AuthStatus(fromClient[2]))>>
    /\ phase \in {"dispatch", "bind", "drain"} => toClient = Script

IsGrantable(f) == IsOpen(f) /\ f.kind \in SupportedKinds

\* Those among them that are granted.
Granted == Picked(fromClient, {i \in 3 .. read : IsGrantable(fromClient[i])})

\* A channel task is spawned for the granted OpenChannels and for no other, in
\* the order they were granted, each with the kind and the id asked for; only
\* the last grant may still lack its stream.  And the channels of one direction
\* take the streams of that direction in the order the client opened them: what
\* the dispatcher waits for the stream for (control.rs:128-170).  The stream an
\* OpenChannel names plays no part in it: see NamedStreamCarriesChannel.
GrantsBindInOrder ==
    LET tasks == {h \in DOMAIN handlers : ~IsSender(h)}
    IN  /\ \A h \in tasks :
              /\ h - 2 <= Len(Granted)
              /\ handlers[h].kind = Granted[h - 2].kind
              /\ handlers[h].id = Granted[h - 2].id
              /\ streams[handlers[h].stream].dir = Direction(handlers[h].kind)
              /\ \A s \in 1 .. handlers[h].stream - 1 :
                    streams[s].dir = Direction(handlers[h].kind)
                        => \E g \in tasks : g < h /\ handlers[g].stream = s
        /\ \A g, h \in tasks :
              g # h => handlers[g].stream # handlers[h].stream
        /\ tasks # {} =>
              Len(Granted) = Len(handlers) - 2 + (IF grant = NoGrant THEN 0 ELSE 1)

\* The session returns Ok only when every task it spawned has ended: the loop
\* over the join handles (control.rs:172-176).
ClosedIsQuiet == phase = "closed" => \A h \in DOMAIN handlers : ~Running(h)

-----------------------------------------------------------------------------
(* Liveness, under TasksRun. *)

\* Whatever the session was doing, and whichever tasks it had detached, losing
\* the connection ends it and all of them (every await fails: no task hangs, not
\* even one that waits to open a stream, control.rs:63).  That is what the code does.
\* docs/21-state-machines.md:102-104 and docs/22-capability-negotiation.md:137-139 ask
\* for a SUSPENDED session that is held for the window its hello declares: the window
\* is declared and negotiated, and nothing reads it.
LossReleasesEverything ==
    ~connected ~> Over /\ \A h \in DOMAIN handlers : ~Running(h)

\* A task that will end of itself: a sender, or one whose client stream is
\* finished, or that has ended already, however it did.
WillEnd(h) == ~Running(h) \/ IsSender(h) \/ Served(h).fin

\* The end of Control takes the dispatcher out of its loop, and from then on the
\* session returns Ok if only the client finishes the streams that are served and
\* reads what it is sent (a full flow-control window is not modelled): whichever
\* tasks fail, and whether or not the connection lasts (control.rs:93-97, 172-177).
GracefulEnd ==
    /\ phase = "dispatch" /\ ControlEof ~> phase \in {"drain", "failed"}
    /\ phase = "drain" /\ (\A h \in DOMAIN handlers : WillEnd(h)) ~> phase = "closed"

-----------------------------------------------------------------------------
(* What the documents say of the session, against what the code does. *)

\* docs/11-channel-model.md:59-61: Control is the last channel closed, "Closing
\* it ends the session".  The drain waits for streams the client need not finish.
ClosingControlEndsSession == phase = "drain" ~> Over

\* docs/22-capability-negotiation.md:290-296: a hello that shares no version, no
\* authentication method or no display codec with the server is answered with a
\* fatal Error.  hello_exchange logs a warning and goes on (control.rs:227).
NoOverlapIsFatal ==
    read >= 1 /\ fromClient[1].type = "ClientHello" /\ fromClient[1].caps = "none"
        => Over

\* docs/20-wire-format-v0.md:70-71: OpenChannel "tells the peer which stream ID
\* will carry the channel".  The dispatcher drops that id (control.rs:108) and takes
\* the oldest stream, whatever the client named.
NamedStreamCarriesChannel ==
    \A h \in DOMAIN handlers :
        ~IsSender(h) =>
            LET named == Granted[h - 2].stream
            IN  /\ named \in DOMAIN streams
                /\ streams[named].dir = Direction(handlers[h].kind)
                => handlers[h].stream = named

\* docs/21-state-machines.md:321: "The READY loop must be careful to never block
\* on any one channel."
ReadyLoopNeverBlocks ==
    \A n \in 0 .. MaxControl :
        (phase = "bind" /\ read = n /\ Len(fromClient) > n) ~> (read > n \/ Over)

-----------------------------------------------------------------------------
(* The session implements its lifecycle. *)

LifecycleState ==
    CASE phase = "hello" -> "HELLO"
      [] phase = "auth" -> "AUTH"
      [] phase \in {"announceDisplay", "openDisplay", "announceCursor",
                    "openCursor", "dispatch", "bind"} -> "READY"
      [] phase = "drain" -> "CLOSING"
      [] phase = "closed" -> "CLOSED"
      [] phase = "failed" -> "ABORTED"

Lifecycle == INSTANCE SessionLifecycle
    WITH state <- LifecycleState, opened <- Len(handlers), live <- Live

\* Every step of the session is a step of SessionLifecycle or changes nothing
\* it can see: channels open only between admission and the end of the
\* dispatcher, one at a time, and an orderly close waits for all of them.
ImplementsLifecycle == Lifecycle!Spec

=============================================================================
