------------------------------ MODULE Display ------------------------------
(***************************************************************************)
(* The video: send_display_frames of crates/openrd-server/src/control.rs   *)
(* and receive_display of the test client, on one unidirectional stream.   *)
(* Session counts the frames of this task; here is what they are.          *)
(***************************************************************************)
EXTENDS Naturals, Sequences, SequencesExt, SequencePicks

CONSTANTS
    DISPLAY_FRAME_COUNT,
    MaxU8,          \* u8::MAX
    NalCounts,      \* how many NAL units the encoder makes of a picture
    Window          \* frames on the stream that nobody has read

ASSUME SizesAssumption ==
    /\ DISPLAY_FRAME_COUNT \in Nat /\ MaxU8 \in Nat \ {0}
    /\ NalCounts \subseteq Nat /\ Window \in Nat \ {0}

VARIABLES
    encoded,        \* what the encoder has made of each picture, as a number of NALs
    frame_id,
    todo,           \* frames of the current picture that are not written yet
    stream,         \* the frames written, StreamParameters first
    finished,       \* the stream is finished, or dropped, which is the same to a reader
    cut,            \* the connection is lost
    sender,         \* "running", "ended" (Ok) or "failed" (Err)
    nread,          \* how many frames the receiver has taken
    header_count, slice_count, end_count,
    dump,           \* the NAL units in its file
    receiver        \* "running", "ended" (Ok) or "failed" (Err)

senderVars == <<encoded, frame_id, todo, stream, finished, sender>>
receiverVars == <<nread, header_count, slice_count, end_count, dump, receiver>>
vars == <<senderVars, cut, receiverVars>>

-----------------------------------------------------------------------------
(* The frames of a picture. *)

\* The first picture is taken for the keyframe, encoder output or not.
IsIdr == frame_id = 0

\* Mutant: the flags are not reset between pictures.
FlagsKept ==
    IsIdr \/ \E i \in DOMAIN stream : stream[i].type = "FrameHeader" /\ stream[i].idr

Flags == IsIdr

\* Mutant: the cast comes before the clamp.
SliceCountWrapped(n) == n % (MaxU8 + 1)

SliceCount(n) == IF n < MaxU8 THEN n ELSE MaxU8

Nal(f, i) == [picture |-> f, number |-> i]

\* Mutant: the slices are numbered from one.
SliceFromOne(n, i) ==
    [type |-> "FrameSlice", frame_id |-> frame_id, slice_idx |-> (i + 1) % (MaxU8 + 1),
     total |-> SliceCount(n), nal |-> Nal(frame_id, i)]

\* slice_idx as u8 wraps, the total does not.
Slice(n, i) ==
    [type |-> "FrameSlice", frame_id |-> frame_id, slice_idx |-> i % (MaxU8 + 1),
     total |-> SliceCount(n), nal |-> Nal(frame_id, i)]

\* Mutant: FrameEnd only follows pictures of several slices.
PictureUnconfirmed(n) ==
    <<[type |-> "FrameHeader", frame_id |-> frame_id, idr |-> Flags, n_slices |-> SliceCount(n)]>>
    \o [i \in 1 .. n |-> Slice(n, i - 1)]
    \o IF n > 1 THEN <<[type |-> "FrameEnd", frame_id |-> frame_id]>> ELSE <<>>

Picture(n) ==
    <<[type |-> "FrameHeader", frame_id |-> frame_id, idr |-> Flags, n_slices |-> SliceCount(n)]>>
    \o [i \in 1 .. n |-> Slice(n, i - 1)]
    \o <<[type |-> "FrameEnd", frame_id |-> frame_id]>>

Nals == [picture : 0 .. DISPLAY_FRAME_COUNT - 1, number : Nat]

Frames ==
    [type : {"StreamParameters"}]
    \cup [type : {"FrameHeader"}, frame_id : 0 .. DISPLAY_FRAME_COUNT - 1, idr : BOOLEAN,
          n_slices : 1 .. MaxU8]
    \cup [type : {"FrameSlice"}, frame_id : 0 .. DISPLAY_FRAME_COUNT - 1,
          slice_idx : 0 .. MaxU8, total : 1 .. MaxU8, nal : Nals]
    \cup [type : {"FrameEnd"}, frame_id : 0 .. DISPLAY_FRAME_COUNT - 1]

\* Every field has the width of its place in the frame, no header announces a
\* picture of nothing, and nobody reads what is not there.
TypeOK ==
    /\ encoded \in Seq(NalCounts) /\ frame_id \in 0 .. DISPLAY_FRAME_COUNT
    /\ todo \in Seq(Frames) /\ stream \in Seq(Frames)
    /\ finished \in BOOLEAN /\ cut \in BOOLEAN
    /\ sender \in {"running", "ended", "failed"}
    /\ nread \in 0 .. Len(stream)
    /\ header_count \in Nat /\ slice_count \in Nat /\ end_count \in Nat
    /\ dump \in Seq(Nals)
    /\ receiver \in {"running", "ended", "failed"}

\* The main task has opened the stream and written StreamParameters.
Init ==
    /\ encoded = <<>> /\ frame_id = 0 /\ todo = <<>>
    /\ stream = <<[type |-> "StreamParameters"]>>
    /\ finished = FALSE /\ cut = FALSE /\ sender = "running"
    /\ nread = 0 /\ header_count = 0 /\ slice_count = 0 /\ end_count = 0
    /\ dump = <<>> /\ receiver = "running"

-----------------------------------------------------------------------------
(* The sender. *)

Between == sender = "running" /\ todo = <<>>
MorePictures == frame_id < DISPLAY_FRAME_COUNT
Writable == ~cut /\ receiver = "running" /\ Len(stream) - nread < Window

\* The encoder makes some NAL units of a picture.
Encode ==
    /\ Between /\ MorePictures
    /\ \E n \in NalCounts \ {0} :
        /\ encoded' = Append(encoded, n)
        /\ todo' = Picture(n)
    /\ UNCHANGED <<frame_id, stream, finished, sender, cut, receiverVars>>

\* It makes nothing of a picture, which is skipped with its frame_id.
SkipPicture ==
    /\ Between /\ MorePictures /\ 0 \in NalCounts
    /\ encoded' = Append(encoded, 0)
    /\ frame_id' = frame_id + 1
    /\ UNCHANGED <<todo, stream, finished, sender, cut, receiverVars>>

\* Mutant: a picture's header is written before it is encoded.
EncoderFailsLate ==
    /\ Between /\ MorePictures
    /\ stream' = Append(stream, Picture(1)[1])
    /\ sender' = "failed" /\ finished' = TRUE
    /\ UNCHANGED <<encoded, frame_id, todo, cut, receiverVars>>

\* The encoder fails: the task ends, and dropping the stream finishes it.
EncoderFails ==
    /\ Between /\ MorePictures
    /\ sender' = "failed" /\ finished' = TRUE
    /\ UNCHANGED <<encoded, frame_id, todo, stream, cut, receiverVars>>

\* A write_frame.  The last one of a picture moves to the next.
WriteNext ==
    /\ sender = "running" /\ todo # <<>> /\ Writable
    /\ stream' = Append(stream, Head(todo))
    /\ todo' = Tail(todo)
    /\ frame_id' = IF Len(todo) = 1 THEN frame_id + 1 ELSE frame_id
    /\ UNCHANGED <<encoded, finished, sender, cut, receiverVars>>

\* write_frame returns an error.
WriteFails ==
    /\ sender = "running" /\ todo # <<>>
    /\ cut \/ receiver # "running"
    /\ sender' = "failed" /\ finished' = TRUE
    /\ UNCHANGED <<encoded, frame_id, todo, stream, cut, receiverVars>>

\* The result of finish is ignored.
Finish ==
    /\ Between /\ ~MorePictures
    /\ finished' = TRUE /\ sender' = "ended"
    /\ UNCHANGED <<encoded, frame_id, todo, stream, cut, receiverVars>>

ConnectionLost ==
    /\ ~cut /\ cut' = TRUE
    /\ UNCHANGED <<senderVars, receiverVars>>

-----------------------------------------------------------------------------
(* The receiver. *)

Reading == receiver = "running" /\ ~cut

Count(type, counter) == IF stream[nread + 1].type = type THEN counter + 1 ELSE counter

\* Mutant: only the slices the header announced are kept.
Keep == IF stream[nread + 1].type = "FrameSlice"
           /\ stream[nread + 1].nal.number < stream[nread + 1].total
        THEN Append(dump, stream[nread + 1].nal) ELSE dump

\* Frames are counted; a slice is appended to the dump, whatever its frame_id,
\* slice_idx and total.
AppendNal == IF stream[nread + 1].type = "FrameSlice"
             THEN Append(dump, stream[nread + 1].nal) ELSE dump

Receive ==
    /\ Reading /\ nread < Len(stream)
    /\ nread' = nread + 1
    /\ header_count' = Count("FrameHeader", header_count)
    /\ slice_count' = Count("FrameSlice", slice_count)
    /\ end_count' = Count("FrameEnd", end_count)
    /\ dump' = AppendNal
    /\ UNCHANGED <<senderVars, cut, receiver>>

\* Mutant: the receiver waits for the last picture rather than for the end.
SeeLastPicture ==
    /\ Reading /\ end_count = DISPLAY_FRAME_COUNT
    /\ receiver' = "ended"
    /\ UNCHANGED <<senderVars, cut, nread, header_count, slice_count, end_count, dump>>

\* The end of the stream between two frames.
SeeEnd ==
    /\ Reading /\ finished /\ nread = Len(stream)
    /\ receiver' = "ended"
    /\ UNCHANGED <<senderVars, cut, nread, header_count, slice_count, end_count, dump>>

\* A lost connection; or the dump cannot be written.
ReceiverFails ==
    /\ receiver = "running"
    /\ cut \/ (nread < Len(stream) /\ stream[nread + 1].type = "FrameSlice")
    /\ receiver' = "failed"
    /\ UNCHANGED <<senderVars, cut, nread, header_count, slice_count, end_count, dump>>

-----------------------------------------------------------------------------
Sender ==
    \/ Encode \/ SkipPicture \/ EncoderFails
    \/ WriteNext \/ WriteFails \/ Finish

Receiver == Receive \/ SeeEnd \/ ReceiverFails

Next == Sender \/ ConnectionLost \/ Receiver

Spec == Init /\ [][Next]_vars

\* Both are tasks of a runtime, and the receiver is never kept from reading.
FairSpec == Spec /\ WF_vars(Sender) /\ WF_vars(Receiver)

-----------------------------------------------------------------------------
(* Properties. *)

Headers == Picked(stream, {i \in DOMAIN stream : stream[i].type = "FrameHeader"})

\* The NAL units the encoder has made of its first k pictures, in order.
NalsOf(k) == FlattenSeq([f \in 1 .. k |-> [i \in 1 .. encoded[f] |-> Nal(f - 1, i - 1)]])

\* "slice_idx < total_slices" (docs/20-wire-format-v0.md:320) is true of pictures of
\* at most MaxU8 units, whose slices carry exactly the numbers below the total their
\* header announced.  Beyond, the clamp and the cast disagree (control.rs:775, 790).
SlicesCountUpToTheirTotal ==
    \A i \in DOMAIN stream :
        (stream[i].type = "FrameHeader" /\ encoded[stream[i].frame_id + 1] <= MaxU8) =>
            /\ stream[i].n_slices = encoded[stream[i].frame_id + 1]
            /\ \A j \in i + 1 .. i + stream[i].n_slices : j \in DOMAIN stream =>
                /\ stream[j].type = "FrameSlice" /\ stream[j].frame_id = stream[i].frame_id
                /\ stream[j].slice_idx = j - i - 1 /\ stream[j].slice_idx < stream[j].total
                /\ stream[j].total = stream[i].n_slices

\* When the encoder has output for its first picture, that picture's header is the
\* first on the stream and the only one flagged as a keyframe.  Without output, which
\* control.rs:771 expects of some configurations, no header of the video is flagged:
\* the keyframe that comes first then goes unannounced.
KeyframeIsFirst ==
    \A i \in DOMAIN Headers :
        Headers[i].idr <=> (i = 1 /\ encoded[1] # 0)

\* A receiver that meets the end of the stream has whole pictures: as many ends as
\* headers, and in its dump every unit the encoder made, in order, of all pictures up
\* to the last or, the encoder having failed, of those before it failed: a video cut
\* short that way ends just as a whole one does (control.rs:724-820, main.rs of the
\* test client:550-596).
EndMeansWholePictures ==
    receiver = "ended" =>
        /\ header_count = end_count /\ slice_count = Len(dump)
        /\ dump = NalsOf(Len(encoded))
        /\ sender = "ended" => Len(encoded) = DISPLAY_FRAME_COUNT

\* At any time the dump is a prefix of what the encoder made: no unit is lost,
\* doubled or moved, however the pictures are cut up and the sender ends
\* (control.rs:788-803, main.rs of the test client:567-584).
DumpFollowsTheEncoder == IsPrefix(dump, NalsOf(Len(encoded)))

\* Both sides come to an end, whatever the encoder makes of the pictures, none of
\* them included (control.rs:735-817, main.rs of the test client:550-554).
VideoEnds == <>(sender # "running" /\ receiver # "running")
=============================================================================
