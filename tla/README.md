# A TLA+ model of OpenRD

OpenRD is a remote desktop protocol over WebTransport (QUIC). The repository
holds a protocol crate, a reference server, a test client and a web client. This
directory holds TLA+ modules translated from that code, the TLC configurations
that check them on small instances, and proofs checked by TLAPS. Paths below are
relative to the root of the repository; `control.rs` without a directory is
`crates/openrd-server/src/control.rs`, `main.rs` is that of
`crates/openrd-test-client/src`.

## The system

| Part | State | Operations | Modelled in |
|---|---|---|---|
| Accept loop, `crates/openrd-server/src/main.rs` | the PIN, fixed | one task per incoming session | not: sessions share nothing that changes |
| Session task, `handle_control_stream` | the point it has reached, the join handles | hello, authentication, announcements, dispatcher, drain | `Session` |
| Channel tasks: input, clipboard, chat, file; Display and Cursor senders | one stream each | read, answer, send, end, fail | `Session` (life cycle), `ChannelHandlers` (the four handlers), `Display` (the video) |
| Test client, `main.rs` | where it is in its script | the whole protocol, once | `TestClient` |
| Web client, `web/client.js` | where it is in its script | hello to Input, reading frames | `WebClient`, `FrameReader` |
| Frame readers (three, one per program) | bytes so far | header, payload, end of stream | `FrameReader` |
| Capability negotiation, `capabilities.rs` | none; run once on each side | `to_cbor`, `from_cbor`, `negotiate` | `Negotiation` |
| Payload codecs of `openrd-proto` | none | CBOR and binary layouts | what a handler makes of them is in `ChannelHandlers` and `Display`; the layouts are data |

**How they interact.** A session is one QUIC connection. Its first bidirectional
stream is Control; the client writes requests on it and the server answers. The
server opens one unidirectional stream each for Display and Cursor, after
announcing them on Control; the client asks for Input, Clipboard, Chat and File
with OpenChannel, and opens the stream after the ack. Each channel is served by
a task of its own, which shares nothing with the session task but its join
handle. The streams are independent of each other: each is reliable and ordered,
nothing orders one against another, and the connection may be lost at any time.

**What is hard.** The pairing of grants and streams (OpenChannel carries a stream
id the server ignores, so arrival order decides); awaits on a peer who need do
nothing (the dispatcher waits for a stream, the drain for every task); the
error path, which detaches tasks instead of stopping them; the end of Control,
which is an error before the dispatcher and normal in it; what the two clients
expect next on Control; frames that arrive in pieces, with readers of two kinds
called in turn on one stream; numbers that are wider on one side of a conversion;
the windows of a stream, which make a writer wait for a reader; an end of stream
that looks the same after a failure. `PROJECT.json` lists the hazards, each at its line.

**What makes each part correct.**

- Session task: nobody is served without the PIN; one answer per request, in
  order; grants and streams paired in order; an orderly close only when no task
  runs; no task survives the connection.
- Channel tasks: they end when their stream or the connection ends, and the end
  of one does not touch another; they answer every question once, in order, and
  what they report, or put on the stream, is what was there.
- Clients: they pair what they read with what they asked for, and either complete
  or give up; they never wait for something nobody will send.
- Frame readers: the frames read are the frames written, however they are cut up,
  and never more than 16 MiB is asked for.
- Negotiation: both sides come to the same result, and it is within what both
  offered.

## Modules

`SessionLifecycle` is the abstract specification of a session: a state, the
number of channels ever opened, and the set being served. It greets, admits or
refuses, opens channels one at a time, and closes in order only when none is
served; an abort leaves channels behind.

`Session` is the server with an unconstrained client. Control is two sequences
that grow, `fromClient` with a read position and `toClient`. `phase` is the
program counter of `handle_control_stream`; `grant` is the channel acknowledged
whose stream is awaited; `handlers` is the `handles` vector, one record per task.

| Action | Code |
|---|---|
| `Greet`, `Authenticate` | `hello_exchange`, `auth_exchange` and the return on false |
| `AnnounceDisplay`, `AnnounceCursor` | the two announcements, `control.rs:62`, `81` |
| `OpenDisplay`, `OpenCursor` | `open_uni`, the first frame of the stream and its task, `control.rs:63-80`, `82-90`; it waits until the client allows one more stream |
| `IgnoreFrame`, `AnswerOpenChannel`, `BindStream`, `EndOfControl` | the dispatcher, `control.rs:93-170` |
| `Finish` | the loop over the join handles, `control.rs:172-176` |
| `RejectFrame`, `EarlyEof` | what the session task turns down: a frame of the wrong type or that does not decode, the end of Control before the dispatcher |
| `Disconnected`, `StreamBroken` | the `?` of its reads, writes, `open_uni` and accepts: with the connection gone, and with one stream reset or stopped (Control anywhere, Display and Cursor at `control.rs:68`, `84`) |
| `HandleFrame`, `HandlerEof`, `HandlerError` | the four `handle_*_stream` loops |
| `SendFrame`, `SenderDone`, `HandlerError` | `send_display_frames`, `send_cursor_moves` |
| `ClientWrites`, `ClientFinishes`, `ClientOpens`, `ClientSends`, `ClientEnds` | a client, bound only by the transport |
| `TaskBroken` | the stream of a channel task reset or stopped by the client |
| `ConnectionLost` | close, failure or timeout of the connection |

Reading a frame and writing the answer is one step: the task does nothing else
between them that another part could see, and a write fails only when the connection or
the stream is broken, which ends the session as `Disconnected` and
`StreamBroken` do. A stream the client resets or stops is first noticed by the
read or write that meets it, so the reset and the error are one step; it is no
step of the server's, and no fairness is assumed of it. A frame is a
record with the fields the code looks at. `Malformed` stands for every frame that
cannot be taken: cut off, larger than the cap, or with a payload that does not
decode. On a channel stream a frame is one that needs no answer (`note`), one
that a bidirectional handler answers (`ask`), or one that ends the handler with an
error (`bad`); a panic in a handler counts as an error, since its `JoinError` is
dropped like its `Err`.

`ControlClient` is what the two clients share: saying a frame, hearing the next
one, giving up on another, and the server and network around them. `TestClient`
composes the test client with the server of `Session`: its four exercises are
short scripts (write, await the answer, write, finish). `EndStream` and `EndControl`
succeed with the connection gone, as `main.rs` drops the error of each `finish()`
(`.ok()`); a receiver ends with its stream, or with an error when the connection goes
before the end of the stream has reached it. `WebClient` does the same for
`web/client.js`. `MCSession` gives `Session` its constants for TLC.

`FrameQueue` is the abstract specification of a frame reader: a queue of frames,
delivered in order, with an end only after the last. `FrameReader` is the bytes
below it. `wire` is what was written on the stream and `pos` how much of it the
transport has handed out, in pieces of any size; `call`, `phase`, `buf` and `room`
are the locals of `read_full_frame` and `read_full_frame_opt` (`control.rs:1117-1167`,
and the same two in `main.rs:662-708`), or the buffer of the class `FrameReader` of
`web/client.js:179-201`. The peer writes with `Frame::encode` or any bytes at all.
A header is two bytes in the model, type and length; `Letters` holds payloads that
look like headers. `Queue!sent` is `FramesIn(wire, Cap)`, the frames the bytes hold
by the layout of `frame.rs`.

| Action | Code |
|---|---|
| `WriteFrame` | `write_frame`, one buffer and one `write_all` |
| `CallReader`, `Fill` | the start of a call; `recv.read` into the space that is left |
| `RejectOversized`, `TakeHeader`, `ReturnFrame` | `FrameHeader::parse`, the allocation, the return |
| `NoMoreFrames`, `ReadFails` | `Some(0)` or `None`; an error of the stream |
| `NextFromBuffer`, `Accumulate`, `NoMoreChunks` | the web client's loop |

`Negotiation` is `capabilities.rs` on both sides of the hello exchange. A map on
the wire is the keys it has, those whose value is of another CBOR type, and the
values; `FromCbor` is the code's key-by-key reading, with its defaults, dropped
elements and cuts to 32 bits; `Negotiate` is `negotiate`, checks in order. One
capability stands for all that are treated alike.

`ChannelHandlers` is the four `handle_*_stream` loops with what they do to each
frame. A frame is read, looked at and its answer made in one step (`TakeFrame`,
`RejectFrame`), and the answer is written in another (`WriteReply`), because the
write may wait for room: each direction of a stream holds `Window` unread frames.
The client is arbitrary, or follows a script that awaits its answers, as the
exercises of the test client do (`main.rs:155-527`). `build` chooses between a
debug build, where an overflow panics, and a release build, where it wraps.

`Display` is `send_display_frames` with the test client's `receive_display`. What the
encoder makes of a picture is a number of NAL units, possibly none; a unit is
known by its picture and its place in it. `todo` holds the frames of the current
picture that are still to be written, and is empty when the task asks the encoder
again. A sender that fails drops its stream, which finishes it.

`SequencePicks` names the elements of a sequence at chosen places: `Picked(s, I)` is
what `SelectSeq` with a test would select, with the places given as a set, so that
theorems about it can be cited. `Session` uses it for the OpenChannels read and those
granted, `Display` for the headers of a video.

Each `...Proofs` module holds the theorems about the module it is named after:
`SessionProofs` and `SessionControlProofs` (what is said on Control and the pairing
of grants and streams) about `Session`, `TestClientProofs`, `FrameReaderProofs`,
`ChannelHandlersProofs`, `NegotiationProofs`, `DisplayProofs`.
`SequencePicksTheorems` holds the lemmas about `Picked` they share.

Operators marked `Mutant` stand next to the definitions they vary. No
specification uses them: each is a plausible mistake that must make one property
fail, so that the property is known to say something about the code.

## Runs

| Run | Question | States |
|---|---|---|
| `session_handshake` | any Control frame in any order, good and bad PIN, loss at any step: `AuthGate`, `OneConversation`, `ClosedIsQuiet`, refinement of `SessionLifecycle`; and under fair tasks `LossReleasesEverything`, `GracefulEnd` | 809 thousand |
| `session_channels` | two pipelined OpenChannels of every kind, streams before, between and after: `OneConversation`, `GrantsBindInOrder` | 3.1 million |
| `test_client` | the test client with the server, network and encoder failing at will: `StreamsServeTheirChannel`, `AckIsMine`, `StreamsComeAsAnnounced`, `FaithfulClientIsServed`, `CloseCutsNoSender`; and under fair programs `RightPinCompletes`, `WrongPinIsRefused`, `NobodyWaitsForever` | 475 thousand |
| `frame_reader` | bytes cut up at will, streams finished or reset anywhere: `WhatIsWrittenIsRead`, `NothingReadAhead`, `AllocationCapped`, `ReaderFinishes`, refinement of `FrameQueue` | 115 thousand |
| `negotiation` | `BothSidesAgree`, `NothingBeyondEitherSide`, `OffersAreTheClients` | 96 thousand |
| `channel_handlers` | each handler against any client and against scripts: `RepliesAnswer`, `TransferIsReported`, `EndMeansServed`, `ScriptCompletes` | 633 thousand |
| `display` | the video with skipped, small and overlong pictures, encoder and network failing at will: `SlicesCountUpToTheirTotal`, `KeyframeIsFirst`, `EndMeansWholePictures`, `DumpFollowsTheEncoder`, `VideoEnds` | 15 thousand |
| `control_close` | refuted: closing Control ends the session | |
| `ready_loop` | refuted: the READY loop never blocks on a channel | |
| `no_overlap` | refuted: a hello without overlap is fatal | |
| `named_streams` | refuted: a channel is served on the stream its OpenChannel names | |
| `web_client` | refuted: the web client reaches its Input stream | |

**Properties.** `AuthGate`: before the PIN is presented as the second frame after
an acceptable hello, at most two frames leave the server and no task exists.
`OneConversation`: what the server wrote on Control is a prefix of one script
computed from what it has read; while it dispatches it is the whole script.
`GrantsBindInOrder`: tasks are the granted OpenChannels in order, each with the
oldest stream of its direction that no task had. These are properties of what the
code does: the documents ask for another answer to a hello without overlap and for
another choice of the stream, see below. `LossReleasesEverything`: without its
connection a session ends, and so does every task, detached or not. `GracefulEnd`: the
end of Control takes the dispatcher to its drain, unless Control or the connection
breaks before it is read, and in the drain the session returns Ok, never an error, if
the client finishes the streams that are served.

For the test client, `StreamsServeTheirChannel` and `AckIsMine` say that the lock step
makes up for what neither side checks; `FaithfulClientIsServed` that a client that keeps to the protocol is never failed
while the connection is up; `CloseCutsNoSender` that when it closes the connection each
sender has written its last frame or given up, so that nothing it was still to receive
is cut off; the three liveness properties that it completes, is
refused, or gives up, and that both programs then stay at rest and the server keeps
nothing.

`WhatIsWrittenIsRead` and the refinement of `FrameQueue` say the same of two peers:
frames written by `Frame::encode` come back as they were, and any bytes at all come
back as the frames the layout finds in them, with an end only after the last.
`NothingReadAhead` says why the two Rust readers may be mixed on one stream: a
call takes no byte beyond its frame. The web reader may, and keeps it; but it has no
cap, and takes an end in the middle of a frame for a clean one. `BothSidesAgree` is
about a profile that is never sent. `NothingBeyondEitherSide` describes the chunk
range by its members: for disjoint ranges that is the empty set, which the code
writes as a minimum above the maximum. `RepliesAnswer` lets a client that
pipelines find the question of each answer, by the fields the answer carries.
`TransferIsReported` has a precondition, a stream with one transfer, and would be
false without it: `chunks_acked` is not reset, and chunks of any transfer count.
`EndMeansServed` says that a clean end hides nothing. `SlicesCountUpToTheirTotal`
ends where a `u8` does: above 255 units the total stops and the index wraps.
`KeyframeIsFirst` holds of an encoder that has output for its first picture; the code
flags picture 0 and not the first one sent. `EndMeansWholePictures` says what a
clean end does and does not tell a receiver: the pictures are whole, but there may be
fewer of them, for the encoder's failure finishes the stream too.

**Bounds.** `MaxControl`, `MaxStreams`, `MaxFrames` bound what the unconstrained
client does, and are in the guards of its actions alone; the code has no such
bounds. Three Control frames hold the handshake and one request of every kind;
four hold two requests, the least that can be paired wrongly, and two streams,
the least that can be taken in the wrong order. There are two ids there, and two
requests that differ in their answer or direction have different ids; the handshake
run has one. One frame on a stream is enough
to be good or bad, as tasks keep no state the model can see. The numbers of
frames the senders send (30 and 5 in the code) are 0 or 1: a task is then either
about to end or about to send. The test client's run has no Display frame and one Cursor
move, so that the video is over before the cursor is and a close could cut it. Two
credentials, one of them the PIN, suffice: the code only compares. Two kinds of one direction and one of the other make the
direction matter. The test client's run uses its own four ids and kinds.
Six bytes hold two of the longest frames allowed, or one and a cut one, and a byte
has three values, so that a length can be zero, allowed, or above the cap. Peers of
`Negotiation` differ from the default in at most two capabilities, the least in
which the order of two checks or a mix-up of two keys shows. The handlers' `U32`
and `U64` have four and eight values, so that ids collide when cut and wrap when
added to; an arbitrary client writes up to four frames; and `Window` is one frame, the
smallest, with which each side waits for the other at once. A video of three pictures
has a first, a middle and a last; `MaxU8` is 3, and pictures have 0, 1, 3, 4 or 5
units, on both sides of what it counts. With more pictures or units nothing new can
happen: nothing is carried from one picture to the next but its number.
Deadlock is not checked: a session that is over, or whose client is silent, stops.

**Fairness.** `session_handshake` assumes weak fairness of the session task and of
each channel task: tokio polls every task whose await is ready. It assumes none of
`OpenDisplay` and `OpenCursor`, which wait for the client to allow a stream; the test
client allows them, so in `TestClient` the server is fair in all it does. A network loss is
never assumed, nor anything of the client, except that in `Session` and `TestClient`
it reads what it is sent; a full window is the subject of `ChannelHandlers`. There a
handler is fair, for the same reason, and so is a client that follows a script;
an arbitrary client need do nothing. `FrameReader` assumes a fair reader, and
nothing of the peer: a stream that is never closed is read for ever. In `Display`
both ends are tasks of a runtime, and fair. `TestClient` assumes weak fairness of
the program and of the server, the latter as one action: every task of that
system takes finitely many steps, so a server that keeps stepping serves them all.

**What was refuted.** Five statements of the repository about the program, each by a run:

1. `docs/11-channel-model.md:59-61` says that closing Control ends the session. The
   code then waits for every task, with no timeout (`control.rs:172-175`): an Input
   stream that is served and that the client leaves open keeps the session in its
   drain (`control_close`, which starts there).
2. `docs/21-state-machines.md:321` says the READY loop never blocks on one channel. The
   dispatcher waits for the stream of the last grant, and Control is unread meanwhile
   (`ready_loop`). The sketch above the sentence is called non-normative.
3. `docs/22-capability-negotiation.md:290-296` (also 73 and 89, and
   `docs/21-state-machines.md:116`) makes a hello with no version, authentication
   method or display codec in common a fatal Error. `hello_exchange` logs a warning,
   writes ServerHello and lets the client authenticate (`control.rs:219-239`), so
   `AuthGate`, `OneConversation` and the refinement hold of that client as of any
   other (`no_overlap`).
4. `docs/20-wire-format-v0.md:70-71` and `159` say that the stream id of an OpenChannel
   tells the peer which stream carries the channel. The dispatcher drops it
   (`control.rs:108`) and takes the oldest stream of the direction: a client that opens
   its streams in another order has them served by the wrong handlers
   (`named_streams`). `GrantsBindInOrder` is what the code does instead.
5. `web/client.js:3-5` says the web client runs the flow of the test client. It takes
   the frame after its OpenChannel for the ack, but the server has written two
   announcements first, so the client stops and the server is left waiting for its
   stream (`web_client`).

**Other disagreements**, met while modelling and without a run of their own:

- *Resumption.* `docs/21-state-machines.md:102-104` and `121-124` hold a session whose
  transport is gone as SUSPENDED until the resumption window has elapsed, and
  `docs/22-capability-negotiation.md:135-139` obliges the server to honor the window it
  declares. Its hello declares 30 s (`capabilities.rs:52`), the window is negotiated
  (`capabilities.rs:236-238`), and nothing reads it: there is no SUSPENDED and no DEGRADED
  state and no SessionResume, and the session fails with its next read or write.
  `LossReleasesEverything` is true of this code; a server that kept to the documents
  would violate it until the window closes.
- *Duplicates.* `docs/11-channel-model.md:41-46` and `232` allow one Input, one Clipboard and one
  Chat channel. The dispatcher answers OK to every OpenChannel of a kind it knows
  (`control.rs:116-126`), and two handlers of one kind run side by side; `session_channels`
  has such clients.
- *Malformed lists.* `capabilities.rs:94-96` says that malformed entries fall back to the
  defaults. A list of another CBOR type is read as empty (`unwrap_or_default`,
  `capabilities.rs:270`, `279`), and a client that sends one is left without a common
  version, method or codec.
- *Clipboard preview.* `docs/02-requirements.md:51` requires UTF-8 text. The preview for the log
  is cut at byte 80 (`control.rs:390`), which panics inside a character and ends the
  handler of a well-formed Content; it is among the frames that fail in `ChannelHandlers`.
- *Sizes.* `docs/11-channel-model.md:74` limits a Control message to 1 MB, and the code only has
  the 16 MiB of a frame; `docs/20-wire-format-v0.md:51-52` makes a larger frame an error,
  and the web client's reader has no cap.

**A limit worth knowing.** The scripts of `ChannelHandlers` keep at most
`2 * Window + 1` questions open. One more, and `ScriptCompletes` fails: the handler
waits for room to write an answer and reads nothing meanwhile (`control.rs:650`),
the client waits for room to write its question and reads nothing either. The
test client keeps one open.

## Proofs

Every safety invariant a run checks, and both refinements, are theorems: they hold
for every value of the constants the assumptions admit. Each is proved from an
inductive invariant, given here with the reason it is needed.

**`SessionProofs`**, for every client of the server:

- `TypeCorrect`: `Spec => []TypeOK`. `TypeOK` alone is not inductive: the task
  `BindStream` spawns takes kind and id from `grant`, so `TypeInv` adds that there
  is a grant in phase `bind`.
- `AuthGateHolds`: `Spec => []AuthGate`. `GateInv` adds, for each phase, how much
  has been read and written: nothing in `hello`, an acceptable hello in `auth`, an
  authenticated client behind it. `ReadIsKept` says that what has been read is
  never unread, so authentication is stable; only `Greet` and `Authenticate` move
  through the gate.
- `QuietClose`: `Spec => []ClosedIsQuiet`. A session is closed by a refusal, when
  `GateInv` says it has no task, or by `Finish`; after that no task starts, and a
  task takes a step only if it runs (`ChannelTaskEffect`).
- `SessionImplementsLifecycle`: `Spec => ImplementsLifecycle`, step by step; a
  channel task is unseen, or removes itself from the set being served.

**`SessionControlProofs`**, on top of `TypeInv`:

- `OneConversationHolds`: `Spec => []OneConversation`. `ConversationInv` says, phase
  by phase, what has been written: a fixed beginning of the script until the
  dispatcher runs, the whole script of what was read from then on. A frame read
  there either is no OpenChannel and leaves the script as it was, or adds its ack
  at the end (`PickedNext`).
- `GrantsBindInOrderHolds`: `Spec => []GrantsBindInOrder`. `GrantInv` adds to the
  property what the next `BindStream` relies on: the two senders come first among the
  tasks (`SendersFirst`), the grant in hand is the last OpenChannel read and the only
  one without a task (`LastGrant`), and each task has the stream of its turn
  (`TasksBound`).

**`TestClientProofs`**, for the test client with the server of `Session`. `ClientInv` is the
lock step of the two programs: what each has said on Control is what its place in its
code says (`ClientSaid`, `ServerSaid`), streams and tasks are those of the announcements
and of the exercises begun (`StreamsOpened`, `TasksSpawned`), and the two places differ by
what is on the way (`ProgramPlace`, `ServerPlace`). From it follow
`TestClientTypeCorrect`, `StreamsServeTheirChannelHolds`, `AckIsMineHolds`,
`StreamsComeAsAnnouncedHolds` and `FaithfulClientIsServedHolds`, each
`TestClientSpec => []...`; the last is itself part of the invariant, for a server that has
failed a faithful client would end the lock step. `CloseCutsNoSenderHolds` needs
`VideoInv` besides: behind the wait for the first receiver, Display's sender is settled. A
receiver that has ended says so of its sender (`ReceiverSees`), and no later step undoes
it (`SettledStays`).

**`FrameReaderProofs`**, for every peer, every cap and every way to cut the bytes up:

- `ReaderTypeCorrect`: `Spec => []TypeOK`, and `AllocationIsCapped`:
  `Spec => []AllocationCapped`, from `ReaderInv`. `TypeOK` alone is not
  inductive: `ReturnFrame` yields a frame only if the buffer holds one. `BufferInv`
  adds, for each phase of a call, how much is in the buffer, and that a payload
  buffer was sized by the header in it, which later reads do not change.
- `ReaderImplementsQueue`: `Spec => ImplementsQueue`. `QueueInv` adds that the wire is
  the bytes consumed, the buffer and the rest, and that the bytes consumed parse to
  exactly the frames returned (`ParseInv`); so a step that returns a frame returns the
  next one of the queue, and every other step leaves the queue as it was, or adds
  what the peer's bytes complete. The equation of `FramesIn` (`FramesUnfold`) is
  proved first.
- `WhatIsWrittenIsReadHolds`: `Spec => []WhatIsWrittenIsRead`. `EncoderInv` says that
  what the encoder wrote parses as it was written, up to a frame above the cap, where
  a reader with a cap is stuck; `OutcomeInv` says why a call ended as it did.
- `CleanEndLosesNothing` and `NothingIsReadAhead`: `Spec => []NothingReadAhead`. `EndInv`
  adds that a Rust reader ends cleanly only on a stream the peer had finished, so that
  nothing can be written behind the end; `SizeInv`, that the bytes taken are those of the
  frames returned and of the buffer.

**`ChannelHandlersProofs`**, for the four handlers and every client: `HandlerTypeCorrect`;
`RepliesAnswerHolds`, from `ReplyInv` (answers name the questions one for one, and the one
not yet written names the last question); `EndMeansServedHolds`, from `EndInv` (nothing
that fails has been read by a handler that has not failed); `TransferIsReportedHolds`,
from `FileInv` (on a stream with one transfer and no overflow, `chunks_acked` is the
number of answers, the manifest is the one read first, and nothing was reported
before the end of the transfer).

**`NegotiationProofs`**, for every pair of capabilities and every map a peer may send:
`NegotiationInv` says that the hellos on the wire are those the code writes and that each
side's result is worked out from what it read. `NegotiationTypeCorrect` is by it.
`BothSidesAgreeHolds` needs `RoundTrip` as well: `from_cbor` gives back what `to_cbor` was
given. `NothingBeyondEitherSideHolds` needs the range of each field of a profile
(`ProfileWithin`, `ProfileLimits`), `OffersAreTheClientsHolds` that what is read from a map
was in it (`OnlyOffers`).

**`DisplayProofs`**, for videos of any length, an encoder that does anything, and any
window. The frames on the stream and those still to be written are one sequence, `All`,
and `DisplayInv` speaks of that: every header in it begins a whole picture, only the second
frame is flagged as a keyframe's header, and its units, in order, are what the encoder
made; `Ending` says that nothing is left to write when the end is seen. Only `Encode` and
`SkipPicture` change `All`; `WriteFrame` moves a frame within it. This gives
`DisplayTypeCorrect`, `SlicesCountUpToTheirTotalHolds`, `KeyframeIsFirstHolds`,
`EndMeansWholePicturesHolds` and `DumpFollowsTheEncoderHolds`.

**Induction.** The library's induction theorems take an operator as a parameter, which the
installed provers cannot instantiate. What `Picked`, `FramesIn` and `FlattenSeq` compute is
therefore proved by induction over a *set* of naturals: `NatSetInduction`, that a set with
0 in it and closed under successor holds every natural, is proved in
`SequencePicksTheorems` from the library's least elements, and is cited with the set of
lengths for which a statement holds.

**Assumptions.** All are named and in the modules that declare the constants: of `Session`,
the PIN is a credential, the numbers are natural, the alphabets are sets of frames; of
`TestClient`, the kinds served are ones a client may ask for, and its four ids are ids
(`ChannelsAssumption`); of `FrameReader`, the cap is below what a length field can announce
(`SizesAssumption`) and an encoder is given frames (`LettersAssumption`); of
`ChannelHandlers` and `Display`, sizes are natural and windows and moduli positive
(`SizesAssumption`), and clients write frames of their channel (`ClientsAssumption`); of
`Negotiation`, the default and what peers send are capabilities and maps
(`CapabilitiesAssumption`, `VariantsAssumption`).

**Model-checked only.** The liveness properties: `LossReleasesEverything` and `GracefulEnd`,
the three of the test client, `ReaderFinishes`, `ScriptCompletes`, `VideoEnds`. Liveness
under fairness, and ENABLED with it, is out of reach of TLAPS. The five refuted claims
are counterexamples TLC finds, and `WebClient` is there for one of them.

## Not modelled

The accept loop (`crates/openrd-server/src/main.rs:56-64`: one independent task per
session, sharing only the PIN), TLS and certificates, random session ids and
identities, logging, H.264 encoding beyond how many units it makes and that it may
fail, the CBOR and binary layouts, suspended and degraded sessions (no code has them), the length of texts and file contents (so that a
chat echo larger than the cap is not seen), the positions of the cursor, and the
smoke test. `audio.rs` is used by no code. Flow control is modelled where a task
reads and writes in turn (`ChannelHandlers`) or only writes (`Display`), not between
the session task and a client that never reads Control.

## Plan

1. Done: `SessionLifecycle`, `Session`, `SessionProofs`, `TestClient`, `WebClient`.
2. Done: `FrameQueue`, `FrameReader`, `Negotiation`, `ChannelHandlers` (file, chat,
   clipboard and input together), `Display`, `FrameReaderProofs`.
3. Done: theorems for every safety invariant the runs check and for both refinements.
4. Next: invariants of `SessionLifecycle` and `FrameQueue` themselves, carried to
   `Session` and `FrameReader` through the refinements; action properties (what a step
   of a task may never do to another's stream); what `WebClient` guarantees before it
   goes wrong; the hazards that have no property yet.
