-------------------------- MODULE ChannelHandlers --------------------------
(***************************************************************************)
(* The four handlers of client channels (handle_input_stream, handle_      *)
(* clipboard_stream, handle_chat_stream and handle_file_stream of          *)
(* crates/openrd-server/src/control.rs), each against one client on a      *)
(* stream with flow control.  Session models when such a task starts and   *)
(* ends; here is what it does with the frames.                             *)
(***************************************************************************)
EXTENDS Integers, Sequences, SequencePicks

CONSTANTS
    U32, U64,       \* the values of the two widths are 0 .. U32 - 1, 0 .. U64 - 1
    EchoOffset,     \* 1_000_000
    TextCap,        \* TextInput::MAX_BYTES
    Window,         \* frames on one direction of a stream that nobody has read
    Alphabet(_),    \* the frames an arbitrary client writes on a channel of a kind
    Scripts(_),     \* what clients that wait for their answers do
    MaxFrames       \* checker's bound: frames an arbitrary client writes

ASSUME SizesAssumption ==
    /\ U32 \in Nat \ {0} /\ U64 \in Nat \ {0}
    /\ EchoOffset \in Nat /\ TextCap \in Nat /\ MaxFrames \in Nat
    /\ Window \in Nat \ {0}

Kinds == {"INPUT", "CLIPBOARD", "CHAT", "FILE"}

(* What can arrive on a channel of a kind, as far as its handler looks at it.
   "Undecodable" is a frame of a type the channel does not have, or whose CBOR does
   not decode; of the MIME types the handler tells only the text from the others. *)
Mimes == {"text/plain", "image/png"}
InputFrames ==
    [type : {"KeyEvent", "ShortKeyEvent", "Unhandled", "Undecodable"}]
    \union [type : {"TextInput"}, claimed : Nat, present : Nat, utf8 : BOOLEAN]
ClipboardFrames ==
    [type : {"OfferTypes", "Unhandled", "Undecodable"}]
    \union [type : {"RequestContent"}, id : 0 .. U64 - 1, mime : Mimes]
    \union [type : {"Content"}, preview : {"short", "cuts a character"}]
ChatFrames ==
    [type : {"TypingIndicator", "ChatAttachment", "Undecodable"}]
    \union [type : {"ChatMessage"}, id : 0 .. U64 - 1, ts : 0 .. U64 - 1]
FileFrames ==
    [type : {"ShortChunk", "EndTransfer", "CancelTransfer", "Unhandled", "Undecodable"}]
    \union [type : {"Manifest"}, transfer : 0 .. U64 - 1]
    \union [type : {"Chunk"}, transfer : 0 .. U32 - 1, file : 0 .. U32 - 1, chunk : 0 .. U32 - 1]
Frames(k) ==
    CASE k = "INPUT" -> InputFrames
      [] k = "CLIPBOARD" -> ClipboardFrames
      [] k = "CHAT" -> ChatFrames
      [] k = "FILE" -> FileFrames

\* A script writes frames, awaits replies and finishes its side.
Steps(k) == Frames(k) \union [type : {"await"}, expect : STRING] \union [type : {"fin"}]

ASSUME ClientsAssumption ==
    \A k \in Kinds : Alphabet(k) \subseteq Frames(k) /\ Scripts(k) \subseteq Seq(Steps(k))

VARIABLES
    kind,               \* which handler runs
    build,              \* "debug": an overflow panics; "release": it wraps
    script,             \* what the client does, <<>> for an arbitrary one
    step,               \* how much of its script it has done
    inbox,              \* the frames it has written
    finished,           \* it has finished its side
    taken,              \* how many of the replies it has read
    stopped,            \* it reads no more of them and has said so
    cut,                \* the stream or the connection is lost
    nread,              \* how many frames the handler has read
    reply,              \* the reply being written: none or one
    outbox,             \* the replies written
    transfer_id_seen, chunks_acked, \* the state of handle_file_stream
    reports,            \* what it says at each EndTransfer
    state               \* "running", "ended" (Ok, stream finished) or "failed"

clientVars == <<script, step, inbox, finished, taken, stopped>>
fileVars == <<transfer_id_seen, chunks_acked, reports>>
handlerVars == <<nread, reply, outbox, fileVars, state>>
vars == <<kind, build, cut, clientVars, handlerVars>>

-----------------------------------------------------------------------------
(* What a frame does to its handler. *)

Overflows(f) == f.id + EchoOffset >= U64 \/ f.ts + 1 >= U64

\* TextInput::parse.
TextFits(f) == f.claimed <= TextCap /\ f.claimed <= f.present /\ f.utf8

\* The frames that end the handler with an error or a panic: a short KeyEvent
\* or Chunk, a text that does not fit, a preview cut inside a character, an
\* overflow in a debug build.
Fails(f) ==
    \/ f.type \in {"Undecodable", "ShortKeyEvent", "ShortChunk"}
    \/ f.type = "TextInput" /\ ~TextFits(f)
    \/ f.type = "Content" /\ f.preview = "cuts a character"
    \/ f.type = "ChatMessage" /\ build = "debug" /\ Overflows(f)

Asks(f) == f.type \in {"RequestContent", "ChatMessage", "Chunk"}

\* Mutant: the ack names the transfer of the manifest.
AnswerFromState(f) ==
    CASE f.type = "RequestContent" ->
            [type |-> "Content", id |-> f.id, mime |-> f.mime,
             body |-> IF f.mime = "text/plain" THEN "server clipboard" ELSE "empty"]
      [] f.type = "ChatMessage" ->
            [type |-> "ChatMessage", id |-> (f.id + EchoOffset) % U64, ts |-> (f.ts + 1) % U64]
      [] f.type = "Chunk" ->
            [type |-> "AckChunk", transfer |-> transfer_id_seen, file |-> f.file, chunk |-> f.chunk,
             status |-> "Ok"]

Answer(f) ==
    CASE f.type = "RequestContent" ->
            [type |-> "Content", id |-> f.id, mime |-> f.mime,
             body |-> IF f.mime = "text/plain" THEN "server clipboard" ELSE "empty"]
      [] f.type = "ChatMessage" ->
            [type |-> "ChatMessage", id |-> (f.id + EchoOffset) % U64, ts |-> (f.ts + 1) % U64]
      [] f.type = "Chunk" ->
            [type |-> "AckChunk", transfer |-> f.transfer, file |-> f.file, chunk |-> f.chunk,
             status |-> "Ok"]

ClipboardReplies == [type : {"Content"}, id : 0 .. U64 - 1, mime : Mimes,
                     body : {"server clipboard", "empty"}]
ChatReplies == [type : {"ChatMessage"}, id : 0 .. U64 - 1, ts : 0 .. U64 - 1]
FileReplies == [type : {"AckChunk"}, transfer : 0 .. U32 - 1, file : 0 .. U32 - 1,
                chunk : 0 .. U32 - 1, status : {"Ok"}]
Replies == ClipboardReplies \union ChatReplies \union FileReplies

TypeOK ==
    /\ kind \in Kinds /\ build \in {"debug", "release"}
    /\ script \in Scripts(kind) \union {<<>>} /\ step \in 0 .. Len(script)
    /\ inbox \in Seq(Frames(kind))
    /\ nread \in 0 .. Len(inbox) /\ taken \in 0 .. Len(outbox)
    /\ finished \in BOOLEAN /\ stopped \in BOOLEAN /\ cut \in BOOLEAN
    /\ reply \in {<<>>} \union {<<r>> : r \in Replies}
    /\ outbox \in Seq(Replies)
    /\ transfer_id_seen \in 0 .. U32 - 1 /\ chunks_acked \in 0 .. U32 - 1
    /\ reports \in Seq([transfer : 0 .. U32 - 1, chunks : 0 .. U32 - 1])
    /\ state \in {"running", "ended", "failed"}

Init ==
    /\ kind \in Kinds /\ build \in {"debug", "release"}
    /\ script \in Scripts(kind) \union {<<>>} /\ step = 0
    /\ inbox = <<>> /\ finished = FALSE
    /\ taken = 0 /\ stopped = FALSE /\ cut = FALSE
    /\ nread = 0 /\ reply = <<>> /\ outbox = <<>>
    /\ transfer_id_seen = 0 /\ chunks_acked = 0 /\ reports = <<>>
    /\ state = "running"

-----------------------------------------------------------------------------
(* The handler. *)

Running == state = "running"
Reading == Running /\ ~cut /\ reply = <<>>
Arrived == nread < Len(inbox)
Frame == inbox[nread + 1]

\* Mutant: the closing frame is counted with the chunks.
ReportsWithClosing == IF Frame.type = "EndTransfer"
    THEN Append(reports, [transfer |-> transfer_id_seen, chunks |-> (chunks_acked + 1) % U32])
    ELSE reports

Reports == IF Frame.type = "EndTransfer"
           THEN Append(reports, [transfer |-> transfer_id_seen, chunks |-> chunks_acked])
           ELSE reports

\* Mutant: the transfer of a manifest is kept as it is.
TakeFrameUncut ==
    /\ Reading /\ Arrived /\ ~Fails(Frame)
    /\ nread' = nread + 1
    /\ reply' = IF Asks(Frame) THEN <<Answer(Frame)>> ELSE <<>>
    /\ transfer_id_seen' = IF Frame.type = "Manifest" THEN Frame.transfer ELSE transfer_id_seen
    /\ reports' = Reports
    /\ UNCHANGED <<kind, build, cut, clientVars, outbox, chunks_acked, state>>

\* A frame is read, looked at, and its reply made.  The transfer of a manifest is
\* kept in 32 bits; a manifest is not told from a StartTransfer.
TakeFrame ==
    /\ Reading /\ Arrived /\ ~Fails(Frame)
    /\ nread' = nread + 1
    /\ reply' = IF Asks(Frame) THEN <<Answer(Frame)>> ELSE <<>>
    /\ transfer_id_seen' = IF Frame.type = "Manifest" THEN Frame.transfer % U32 ELSE transfer_id_seen
    /\ reports' = Reports
    /\ UNCHANGED <<kind, build, cut, clientVars, outbox, chunks_acked, state>>

\* Mutant: a frame that cannot be taken is skipped.
SkipFrame ==
    /\ Reading /\ Arrived /\ Fails(Frame)
    /\ nread' = nread + 1
    /\ UNCHANGED <<kind, build, cut, clientVars, reply, outbox, fileVars, state>>

RejectFrame ==
    /\ Reading /\ Arrived /\ Fails(Frame)
    /\ nread' = nread + 1
    /\ state' = "failed"
    /\ UNCHANGED <<kind, build, cut, clientVars, reply, outbox, fileVars>>

Writing == Running /\ ~cut /\ ~stopped /\ reply # <<>>

\* Mutant: replies are sent when the next frame comes, or none will.
WriteReplyLazily ==
    /\ Writing /\ Len(outbox) - taken < Window
    /\ Arrived \/ finished
    /\ outbox' = outbox \o reply /\ reply' = <<>>
    /\ chunks_acked' = IF kind = "FILE" THEN (chunks_acked + 1) % U32 ELSE chunks_acked
    /\ state' = IF kind = "FILE" /\ build = "debug" /\ chunks_acked + 1 = U32
                THEN "failed" ELSE "running"
    /\ UNCHANGED <<kind, build, cut, clientVars, nread, transfer_id_seen, reports>>

\* The write waits for room; a chunk is counted when its ack is written.
WriteReply ==
    /\ Writing /\ Len(outbox) - taken < Window
    /\ outbox' = outbox \o reply /\ reply' = <<>>
    /\ chunks_acked' = IF kind = "FILE" THEN (chunks_acked + 1) % U32 ELSE chunks_acked
    /\ state' = IF kind = "FILE" /\ build = "debug" /\ chunks_acked + 1 = U32
                THEN "failed" ELSE "running"
    /\ UNCHANGED <<kind, build, cut, clientVars, nread, transfer_id_seen, reports>>

\* The client has stopped the stream of the replies.
WriteFails ==
    /\ Running /\ stopped /\ reply # <<>>
    /\ state' = "failed" /\ reply' = <<>>
    /\ UNCHANGED <<kind, build, cut, clientVars, nread, outbox, fileVars>>

EndOfFrames ==
    /\ Reading /\ ~Arrived /\ finished
    /\ state' = "ended"
    /\ UNCHANGED <<kind, build, cut, clientVars, nread, reply, outbox, fileVars>>

\* Whatever it waits for fails.
StreamLost ==
    /\ Running /\ cut
    /\ state' = "failed" /\ reply' = <<>>
    /\ UNCHANGED <<kind, build, cut, clientVars, nread, outbox, fileVars>>

Handler == TakeFrame \/ RejectFrame \/ WriteReply \/ WriteFails \/ EndOfFrames \/ StreamLost

-----------------------------------------------------------------------------
(* The client. *)

Roomy == Len(inbox) - nread < Window
Free == script = <<>> /\ ~cut
Scripted == step < Len(script) /\ ~cut
Item == script[step + 1]

\* A client of another make: any frames, read or not, finished or not.
ClientWrites ==
    /\ Free /\ ~finished /\ Roomy /\ Len(inbox) < MaxFrames
    /\ \E f \in Alphabet(kind) : inbox' = Append(inbox, f)
    /\ UNCHANGED <<kind, build, cut, script, step, finished, taken, stopped, handlerVars>>

ClientFinishes ==
    /\ Free /\ ~finished /\ finished' = TRUE
    /\ UNCHANGED <<kind, build, cut, script, step, inbox, taken, stopped, handlerVars>>

ClientReads ==
    /\ Free /\ ~stopped /\ taken < Len(outbox) /\ taken' = taken + 1
    /\ UNCHANGED <<kind, build, cut, script, step, inbox, finished, stopped, handlerVars>>

ClientStops ==
    /\ Free /\ kind # "INPUT" /\ ~stopped /\ stopped' = TRUE
    /\ UNCHANGED <<kind, build, cut, script, step, inbox, finished, taken, handlerVars>>

\* The exercises of the test client, and others that also await their answers.
ScriptWrites ==
    /\ Scripted /\ ~finished /\ Item.type \notin {"await", "fin"} /\ Roomy
    /\ inbox' = Append(inbox, Item) /\ step' = step + 1
    /\ UNCHANGED <<kind, build, cut, script, finished, taken, stopped, handlerVars>>

ScriptReads ==
    /\ Scripted /\ Item.type = "await" /\ taken < Len(outbox)
    /\ outbox[taken + 1].type = Item.expect
    /\ taken' = taken + 1 /\ step' = step + 1
    /\ UNCHANGED <<kind, build, cut, script, inbox, finished, stopped, handlerVars>>

ScriptFinishes ==
    /\ Scripted /\ Item.type = "fin"
    /\ finished' = TRUE /\ step' = step + 1
    /\ UNCHANGED <<kind, build, cut, script, inbox, taken, stopped, handlerVars>>

StreamCut ==
    /\ ~cut /\ cut' = TRUE
    /\ UNCHANGED <<kind, build, clientVars, handlerVars>>

Script == ScriptWrites \/ ScriptReads \/ ScriptFinishes
Client == ClientWrites \/ ClientFinishes \/ ClientReads \/ ClientStops \/ Script

Next == Handler \/ Client \/ StreamCut

Spec == Init /\ [][Next]_vars

\* The task is polled when its read or write is ready, and so is a scripted
\* client; an arbitrary client need do nothing.
FairSpec == Spec /\ WF_vars(Handler) /\ WF_vars(Script)

-----------------------------------------------------------------------------
(* Properties. *)

\* The frames read so far that ask for a reply.
Questions == Picked(inbox, {i \in 1 .. nread : Asks(inbox[i])})

\* The question a reply can be told by, from the fields it carries.
Names(r, q) ==
    CASE q.type = "RequestContent" -> r.type = "Content" /\ r.id = q.id /\ r.mime = q.mime
      [] q.type = "ChatMessage" -> r.type = "ChatMessage" /\ ((q.id + EchoOffset) - r.id) % U64 = 0
      [] q.type = "Chunk" ->
            r.type = "AckChunk" /\ <<r.transfer, r.file, r.chunk>> = <<q.transfer, q.file, q.chunk>>

\* A client that pipelines its questions can match the answers: they come one for
\* one, in order, each with the id of its own question, through retransmitted
\* chunks, chunks of another transfer, ids that wrap and frames that need no
\* answer; and a handler still running owes no more than the one it is writing
\* (control.rs:334-467, 585-668).
RepliesAnswer ==
    /\ Len(outbox) + Len(reply) <= Len(Questions)
    /\ state # "failed" => Len(outbox) + Len(reply) = Len(Questions)
    /\ \A i \in DOMAIN outbox : Names(outbox[i], Questions[i])

\* A stream that keeps to one transfer (docs/21-state-machines.md:235), opened by
\* its manifest and closed by its EndTransfer: the report names that transfer and
\* counts exactly its acknowledged chunks.
OneTransfer ==
    /\ kind = "FILE" /\ nread > 0
    /\ \A i \in 1 .. nread :
         /\ inbox[i].type = "Manifest" <=> i = 1
         /\ inbox[i].type = "EndTransfer" <=> i = nread
         /\ inbox[i].type = "Chunk" => inbox[i].transfer = inbox[1].transfer
    /\ inbox[1].transfer < U32
Chunks == Picked(inbox, {i \in 1 .. nread : inbox[i].type = "Chunk"})
TransferIsReported ==
    OneTransfer /\ Len(Chunks) < U32 =>
        /\ reports = <<[transfer |-> inbox[1].transfer, chunks |-> Len(Chunks)]>>
        /\ Len(outbox) = Len(Chunks)

\* When a handler returns Ok and finishes its stream, it has read the client's side
\* to its end, everything it read was whole, and every answer went out before the
\* end: a client that sees the end has lost nothing (control.rs:328, 405, 464, 664).
EndMeansServed ==
    state = "ended" =>
        /\ finished /\ nread = Len(inbox) /\ reply = <<>>
        /\ Len(outbox) = Len(Questions)
        /\ \A i \in 1 .. nread :
             /\ inbox[i].type \notin {"Undecodable", "ShortKeyEvent", "ShortChunk"}
             /\ inbox[i].type = "TextInput" =>
                  /\ inbox[i].claimed <= TextCap /\ inbox[i].claimed <= inbox[i].present
                  /\ inbox[i].utf8
             /\ inbox[i].type = "Content" => inbox[i].preview # "cuts a character"

\* A client that awaits its answers comes to the end of its script, and so does its
\* handler, in any build and with the smallest window, as long as the stream lives:
\* neither waits for the other.
ScriptCompletes ==
    script # <<>> ~> cut \/ (step = Len(script) /\ state = "ended")
=============================================================================
