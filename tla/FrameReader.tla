---------------------------- MODULE FrameReader ----------------------------
(***************************************************************************)
(* Frames on a byte stream.  Frame::encode (crates/openrd-proto/src/       *)
(* frame.rs) writes them; the transport delivers the bytes in pieces of    *)
(* any size; read_full_frame and read_full_frame_opt (crates/openrd-server *)
(* /src/control.rs, and the same two in crates/openrd-test-client) and the *)
(* class FrameReader of web/client.js put them together again.             *)
(*                                                                         *)
(* A header is two bytes, the type and the length; the version byte and    *)
(* the width of the length add nothing to where frames begin and end.      *)
(***************************************************************************)
EXTENDS Naturals, Sequences, SequencesExt

CONSTANTS
    MaxByte,    \* bytes are 0 .. MaxByte
    MaxLength,  \* MAX_FRAME_LENGTH
    Letters,    \* the frames an encoder is asked to write
    MaxBytes    \* checker's bound: bytes on the stream

ASSUME SizesAssumption ==
    /\ MaxByte \in Nat /\ MaxLength \in Nat /\ MaxBytes \in Nat
    /\ MaxLength < MaxByte

Byte == 0 .. MaxByte

\* No payload is longer than the length field can say: 4 GiB in the code, where
\* nobody reads or builds one longer than the cap and a few bytes.
Frame == [type : Byte, payload : UNION {[1 .. n -> Byte] : n \in 0 .. MaxByte}]

ASSUME LettersAssumption == Letters \subseteq Frame

VARIABLES
    peer,       \* "encoder": writes frames with Frame::encode; "foreign": any bytes
    wire,       \* the bytes written on the stream
    written,    \* the frames the encoder was asked to write
    ending,     \* how the peer has left the stream: "open", "finished", "reset"
    reader,     \* "rust" or "web"
    call,       \* "none", "full" (read_full_frame), "opt" (read_full_frame_opt) or "web"
    phase,      \* what a Rust call is reading: "header" or "payload"
    pos,        \* how many bytes the transport has handed out
    buf,        \* the bytes the reader holds
    room,       \* the size of the buffer the Rust call has allocated
    frames,     \* the frames returned
    outcome     \* "reading", "ended" (None, null) or "failed" (Err)

peerVars == <<peer, wire, written, ending>>
readerVars == <<reader, call, phase, pos, buf, room, frames, outcome>>
vars == <<peerVars, readerVars>>

-----------------------------------------------------------------------------
(* Layout. *)

HeaderSize == 2
LengthOf(bytes) == bytes[2]

\* Mutant: the length field counts the header.
EncodeWithHeader(f) == <<f.type, (HeaderSize + Len(f.payload)) % (MaxByte + 1)>> \o f.payload

Encode(f) == <<f.type, Len(f.payload)>> \o f.payload

Decode(bytes) ==
    [type |-> bytes[1], payload |-> SubSeq(bytes, HeaderSize + 1, HeaderSize + LengthOf(bytes))]

Size(f) == HeaderSize + Len(f.payload)

TotalSize(fs) ==
    LET upTo[n \in 0 .. Len(fs)] == IF n = 0 THEN 0 ELSE upTo[n - 1] + Size(fs[n])
    IN upTo[Len(fs)]

\* A whole frame, no longer than the cap, is at the beginning of the bytes; and what
\* is behind it.
BeginsWithFrame(bytes, cap) ==
    /\ Len(bytes) >= HeaderSize
    /\ LengthOf(bytes) <= cap
    /\ Len(bytes) >= HeaderSize + LengthOf(bytes)
BehindFrame(bytes) == SubSeq(bytes, HeaderSize + LengthOf(bytes) + 1, Len(bytes))

LastBytes(bytes, n) == SubSeq(bytes, Len(bytes) - n + 1, Len(bytes))

\* The frames a byte sequence holds, up to the first one that is longer than
\* the cap or not complete.
FramesIn(bytes, cap) ==
    LET inLast[n \in 0 .. Len(bytes)] ==
            LET rest == LastBytes(bytes, n)
            IN IF BeginsWithFrame(rest, cap)
               THEN <<Decode(rest)>> \o inLast[n - (HeaderSize + LengthOf(rest))]
               ELSE <<>>
    IN inLast[Len(bytes)]

TypeOK ==
    /\ peer \in {"encoder", "foreign"}
    /\ wire \in Seq(Byte) /\ written \in Seq(Letters)
    /\ ending \in {"open", "finished", "reset"}
    /\ reader \in {"rust", "web"}
    /\ call \in {"none", "full", "opt", "web"}
    /\ phase \in {"header", "payload"}
    /\ pos \in 0 .. Len(wire)
    /\ buf \in Seq(Byte) /\ room \in Nat
    /\ frames \in Seq(Frame)
    /\ outcome \in {"reading", "ended", "failed"}

Init ==
    /\ peer \in {"encoder", "foreign"}
    /\ reader \in {"rust", "web"}
    /\ wire = <<>> /\ written = <<>> /\ ending = "open"
    /\ call = IF reader = "web" THEN "web" ELSE "none"
    /\ phase = "header" /\ pos = 0
    /\ buf = <<>> /\ room = 0
    /\ frames = <<>> /\ outcome = "reading"

-----------------------------------------------------------------------------
(* The peer. *)

\* write_frame: header and payload in one buffer, in one write_all.
WriteFrame ==
    /\ peer = "encoder" /\ ending = "open"
    /\ \E f \in Letters :
         /\ Len(wire) + Size(f) <= MaxBytes
         /\ wire' = wire \o Encode(f)
         /\ written' = Append(written, f)
    /\ UNCHANGED <<peer, ending, readerVars>>

\* Any other program on the other side.
WriteByte ==
    /\ peer = "foreign" /\ ending = "open"
    /\ Len(wire) < MaxBytes
    /\ \E b \in Byte : wire' = Append(wire, b)
    /\ UNCHANGED <<peer, written, ending, readerVars>>

\* The stream is finished, or it or its connection is lost.
CloseStream ==
    /\ ending = "open"
    /\ ending' \in {"finished", "reset"}
    /\ UNCHANGED <<peer, wire, written, readerVars>>

Peer == WriteFrame \/ WriteByte \/ CloseStream

-----------------------------------------------------------------------------
(* The readers of the two Rust programs. *)

Unread == Len(wire) - pos
Reading == outcome = "reading"

\* The handshake calls the one, the channel loops the other; nothing of a call
\* is left to the next but the position in the stream.
CallReader ==
    /\ Reading /\ reader = "rust" /\ call = "none"
    /\ call' \in {"full", "opt"}
    /\ phase' = "header" /\ buf' = <<>> /\ room' = HeaderSize
    /\ UNCHANGED <<peerVars, reader, pos, frames, outcome>>

InCall == Reading /\ call \in {"full", "opt"}

\* Mutant: a short read is taken for a full one.
FillAssumingAll ==
    /\ InCall /\ Len(buf) < room
    /\ \E n \in 1 .. Unread :
         /\ Len(buf) + n <= room
         /\ buf' = buf \o SubSeq(wire, pos + 1, pos + n)
         /\ pos' = pos + (room - Len(buf))
    /\ UNCHANGED <<peerVars, reader, call, phase, room, frames, outcome>>

\* recv.read(&mut buf[filled..]): at least one byte, at most what there is
\* room for, however the network cut them up.
Fill ==
    /\ InCall /\ Len(buf) < room
    /\ \E n \in 1 .. Unread :
         /\ Len(buf) + n <= room
         /\ buf' = buf \o SubSeq(wire, pos + 1, pos + n)
         /\ pos' = pos + n
    /\ UNCHANGED <<peerVars, reader, call, phase, room, frames, outcome>>

HeaderRead == InCall /\ phase = "header" /\ Len(buf) = room

\* FrameHeader::parse refuses the length; nothing has been allocated for it.
RejectOversized ==
    /\ HeaderRead /\ LengthOf(buf) > MaxLength
    /\ outcome' = "failed"
    /\ UNCHANGED <<peerVars, reader, call, phase, pos, buf, room, frames>>

\* Mutant: the buffer is allocated before its size is checked.
TakeHeaderUnchecked ==
    /\ HeaderRead
    /\ phase' = "payload"
    /\ room' = HeaderSize + LengthOf(buf)
    /\ UNCHANGED <<peerVars, reader, call, pos, buf, frames, outcome>>

TakeHeader ==
    /\ HeaderRead /\ LengthOf(buf) <= MaxLength
    /\ phase' = "payload"
    /\ room' = HeaderSize + LengthOf(buf)
    /\ UNCHANGED <<peerVars, reader, call, pos, buf, frames, outcome>>

ReturnFrame ==
    /\ InCall /\ phase = "payload" /\ Len(buf) = room
    /\ frames' = Append(frames, Decode(buf))
    /\ call' = "none" /\ buf' = <<>> /\ room' = 0
    /\ UNCHANGED <<peerVars, reader, phase, pos, outcome>>

Drained == ending = "finished" /\ Unread = 0

\* Mutant: an end inside a header is taken for the end of the stream.
NoMoreFramesMidHeader ==
    /\ InCall /\ Len(buf) < room /\ Drained
    /\ outcome' = IF call = "opt" /\ phase = "header" THEN "ended" ELSE "failed"
    /\ UNCHANGED <<peerVars, reader, call, phase, pos, buf, room, frames>>

\* Mutant: inside a payload an empty read is tried again.
NoMoreFramesInHeader ==
    /\ InCall /\ phase = "header" /\ Len(buf) < room /\ Drained
    /\ outcome' = IF call = "opt" /\ buf = <<>> THEN "ended" ELSE "failed"
    /\ UNCHANGED <<peerVars, reader, call, phase, pos, buf, room, frames>>

\* The end of the stream: None when it falls between two frames and the caller
\* asked for it, an error in any other place.
NoMoreFrames ==
    /\ InCall /\ Len(buf) < room /\ Drained
    /\ outcome' = IF call = "opt" /\ phase = "header" /\ buf = <<>> THEN "ended" ELSE "failed"
    /\ UNCHANGED <<peerVars, reader, call, phase, pos, buf, room, frames>>

-----------------------------------------------------------------------------
(* The reader of the web client, which keeps a buffer across calls and has no
   cap. *)

AtWeb == Reading /\ call = "web"

HoldsFrame == Len(buf) >= HeaderSize /\ Len(buf) >= HeaderSize + LengthOf(buf)

\* Mutant: what follows the frame in the buffer is dropped.
NextFromBufferOnly ==
    /\ AtWeb /\ HoldsFrame
    /\ frames' = Append(frames, Decode(buf))
    /\ buf' = <<>>
    /\ UNCHANGED <<peerVars, reader, call, phase, pos, room, outcome>>

NextFromBuffer ==
    /\ AtWeb /\ HoldsFrame
    /\ frames' = Append(frames, Decode(buf))
    /\ buf' = BehindFrame(buf)
    /\ UNCHANGED <<peerVars, reader, call, phase, pos, room, outcome>>

Accumulate ==
    /\ AtWeb /\ ~HoldsFrame
    /\ \E n \in 1 .. Unread :
         /\ buf' = buf \o SubSeq(wire, pos + 1, pos + n)
         /\ pos' = pos + n
    /\ UNCHANGED <<peerVars, reader, call, phase, room, frames, outcome>>

\* done: null, whatever is left in the buffer.
NoMoreChunks ==
    /\ AtWeb /\ ~HoldsFrame /\ Drained
    /\ outcome' = "ended"
    /\ UNCHANGED <<peerVars, reader, call, phase, pos, buf, room, frames>>

-----------------------------------------------------------------------------
\* A read of a stream that was reset, or whose connection is gone.
ReadFails ==
    /\ ending = "reset"
    /\ \/ InCall /\ Len(buf) < room
       \/ AtWeb /\ ~HoldsFrame
    /\ outcome' = "failed"
    /\ UNCHANGED <<peerVars, reader, call, phase, pos, buf, room, frames>>

RustReader ==
    CallReader \/ Fill \/ RejectOversized \/ TakeHeader \/ ReturnFrame \/ NoMoreFrames
WebReader == NextFromBuffer \/ Accumulate \/ NoMoreChunks
Reader == RustReader \/ WebReader \/ ReadFails

Next == Peer \/ Reader

Spec == Init /\ [][Next]_vars

\* A reader whose read is ready is polled; when bytes arrive, and whether the
\* stream is ever closed, is left open.
FairSpec == Spec /\ WF_vars(Reader)

-----------------------------------------------------------------------------
(* Properties. *)

Cap == IF reader = "rust" THEN MaxLength ELSE MaxByte

\* However the bytes are written and cut up, the reader gives the frames they
\* hold by the layout, in order, each once, and an end of stream only when it
\* has given them all: whatever calls are mixed, and with what the web client
\* keeps in its buffer (control.rs:1117-1156, web/client.js:179-201).
Queue == INSTANCE FrameQueue WITH
    Frames <- Frame,
    sent <- FramesIn(wire, Cap),
    closed <- ending # "open",
    delivered <- frames
ImplementsQueue == Queue!Spec

\* A peer that writes with Frame::encode is read back as it wrote: every frame
\* that keeps to the cap arrives, and the reader fails only because the stream
\* was reset, because a frame was above the cap, or because it insisted on a
\* frame after the last one.
WhatIsWrittenIsRead ==
    peer = "encoder" =>
        /\ IsPrefix(frames, written)
        /\ outcome = "ended" => frames = written
        /\ outcome = "failed" =>
             \/ ending = "reset"
             \/ \E i \in DOMAIN written : Len(written[i].payload) > MaxLength
             \/ call = "full" /\ frames = written

\* The Rust readers take no byte beyond the frame they return: the next call,
\* which starts with an empty buffer, would lose it.  A clean end has nothing
\* behind it and nothing cut off before it.
CleanEnd == (reader = "rust" /\ outcome = "ended") => (buf = <<>> /\ pos = Len(wire))
NothingReadAhead ==
    /\ reader = "rust" => TotalSize(frames) + Len(buf) = pos
    /\ CleanEnd

\* A peer that announces 4 GiB does not make a Rust reader allocate them.
AllocationCapped == reader = "rust" => room <= HeaderSize + MaxLength

\* Once the stream is finished or broken, a caller that asks for frame after
\* frame comes to its end: no call waits for bytes nobody will write.
ReaderFinishes == ending # "open" ~> outcome # "reading"
=============================================================================
