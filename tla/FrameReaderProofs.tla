------------------------- MODULE FrameReaderProofs --------------------------
(***************************************************************************)
(* Theorems about FrameReader, for every peer, every cap and every way to  *)
(* cut the bytes up: type correctness, the cap on what a Rust reader       *)
(* allocates, where its clean end falls, that no byte is read ahead, that  *)
(* the frames returned are those on the wire, and that an encoder's frames *)
(* come back as they were written.                                         *)
(***************************************************************************)
EXTENDS FrameReader, SequencePicksTheorems

-----------------------------------------------------------------------------
(* Layout. *)

\* A buffer that holds a whole frame decodes to a frame.
LEMMA DecodeIsFrame ==
    ASSUME NEW b \in Seq(Byte), Len(b) >= HeaderSize, Len(b) >= HeaderSize + LengthOf(b)
    PROVE  Decode(b) \in Frame
  <1>. DEFINE n == LengthOf(b)
              p == SubSeq(b, HeaderSize + 1, HeaderSize + n)
  <1>1. b[1] \in Byte /\ n \in Byte
    BY ElementOfSeq DEF HeaderSize, LengthOf
  <1>2. n \in 0 .. MaxByte /\ n \in Nat
    BY <1>1, SizesAssumption DEF Byte
  <1>3. p \in Seq(Byte) /\ Len(p) = n
    BY <1>2, SubSeqProperties DEF HeaderSize
  <1>4. p \in [1 .. n -> Byte]
    BY <1>2, <1>3, LenProperties, SeqDef
  <1>5. p \in UNION {[1 .. m -> Byte] : m \in 0 .. MaxByte}
    BY <1>2, <1>4
  <1>. QED  BY <1>1, <1>5 DEF Decode, Frame

\* What Frame::encode writes of a frame is bytes: the length of a payload fits.
LEMMA EncodeIsBytes ==
    ASSUME NEW f \in Frame
    PROVE  Encode(f) \in Seq(Byte)
  <1>1. f.type \in Byte /\ f.payload \in UNION {[1 .. n -> Byte] : n \in 0 .. MaxByte}
    BY DEF Frame
  <1>2. PICK n \in 0 .. MaxByte : f.payload \in [1 .. n -> Byte]
    BY <1>1
  <1>3. f.payload \in Seq(Byte) /\ Len(f.payload) = n
    BY <1>2, SizesAssumption, LenProperties, SeqDef
  <1>4. <<f.type, Len(f.payload)>> \in Seq(Byte)
    BY <1>1, <1>2, <1>3 DEF Byte
  <1>. QED  BY <1>3, <1>4, ConcatProperties DEF Encode

\* A read adds bytes at the end of the buffer, and no more than are there.
LEMMA ReadIsBytes ==
    ASSUME TypeOK, NEW n \in 1 .. Unread
    PROVE  LET piece == SubSeq(wire, pos + 1, pos + n)
           IN /\ buf \o piece \in Seq(Byte)
              /\ Len(buf \o piece) = Len(buf) + n
              /\ \A i \in 1 .. Len(buf) : (buf \o piece)[i] = buf[i]
              /\ pos + n \in 0 .. Len(wire)
  <1>. DEFINE piece == SubSeq(wire, pos + 1, pos + n)
  <1>1. wire \in Seq(Byte) /\ buf \in Seq(Byte) /\ pos \in 0 .. Len(wire)
    BY DEF TypeOK
  <1>2. Len(wire) \in Nat /\ pos \in Nat /\ n \in Nat /\ pos + n \in 0 .. Len(wire)
    BY <1>1, LenProperties DEF Unread
  <1>3. piece \in Seq(Byte) /\ Len(piece) = n
    BY <1>1, <1>2, SubSeqProperties
  <1>. QED  BY <1>1, <1>2, <1>3, ConcatProperties

-----------------------------------------------------------------------------
(* The inductive invariant.  TypeOK needs to know, when a frame is returned,  *)
(* that the buffer holds one; the cap, that a buffer sized for a payload was  *)
(* sized from the header in it.                                               *)

BufferInv ==
    /\ reader = "web" <=> call = "web"
    /\ call \in {"full", "opt"} => room >= HeaderSize /\ Len(buf) <= room
    /\ (call \in {"full", "opt"} /\ phase = "header") => room = HeaderSize
    /\ (call \in {"full", "opt"} /\ phase = "payload") =>
         Len(buf) >= HeaderSize /\ room = HeaderSize + LengthOf(buf)

ReaderInv == TypeOK /\ BufferInv /\ AllocationCapped

LEMMA ReaderInvInit == Init => ReaderInv
  <1>. SUFFICES ASSUME Init PROVE ReaderInv
    OBVIOUS
  <1>1. TypeOK
    BY DEF Init, TypeOK
  <1>2. BufferInv
    BY DEF Init, BufferInv
  <1>3. AllocationCapped
    BY SizesAssumption DEF Init, AllocationCapped, HeaderSize
  <1>. QED  BY <1>1, <1>2, <1>3 DEF ReaderInv

\* A step of the peer adds to the wire or closes it.
LEMMA PeerKeepsInv == ASSUME ReaderInv, Peer PROVE ReaderInv'
  <1>1. UNCHANGED readerVars
    BY DEF Peer, WriteFrame, WriteByte, CloseStream
  <1>2. /\ wire' \in Seq(Byte) /\ written' \in Seq(Letters)
        /\ peer' \in {"encoder", "foreign"} /\ ending' \in {"open", "finished", "reset"}
        /\ Len(wire) <= Len(wire')
    <2>0. wire \in Seq(Byte) /\ written \in Seq(Letters)
      BY DEF ReaderInv, TypeOK
    <2>1. CASE WriteFrame
      <3>1. PICK f \in Letters : wire' = wire \o Encode(f) /\ written' = Append(written, f)
        BY <2>1 DEF WriteFrame
      <3>2. Encode(f) \in Seq(Byte)
        BY EncodeIsBytes, LettersAssumption
      <3>3. /\ wire' \in Seq(Byte) /\ Len(wire') = Len(wire) + Len(Encode(f))
        BY <2>0, <3>1, <3>2, ConcatProperties
      <3>4. written' \in Seq(Letters)
        BY <2>0, <3>1, AppendProperties
      <3>5. Len(wire) <= Len(wire')
        BY <2>0, <3>2, <3>3, LenProperties
      <3>6. UNCHANGED <<peer, ending>>
        BY <2>1 DEF WriteFrame
      <3>. QED  BY <3>3, <3>4, <3>5, <3>6 DEF ReaderInv, TypeOK
    <2>2. CASE WriteByte
      <3>1. PICK b \in Byte : wire' = Append(wire, b)
        BY <2>2 DEF WriteByte
      <3>2. wire' \in Seq(Byte) /\ Len(wire') = Len(wire) + 1
        BY <2>0, <3>1, AppendProperties
      <3>3. UNCHANGED <<peer, written, ending>>
        BY <2>2 DEF WriteByte
      <3>. QED  BY <2>0, <3>2, <3>3, LenProperties DEF ReaderInv, TypeOK
    <2>3. CASE CloseStream
      <3>1. UNCHANGED <<peer, wire, written>> /\ ending' \in {"finished", "reset"}
        BY <2>3 DEF CloseStream
      <3>. QED  BY <2>0, <3>1, LenProperties DEF ReaderInv, TypeOK
    <2>. QED  BY <2>1, <2>2, <2>3 DEF Peer
  <1>3. pos' \in 0 .. Len(wire')
    BY <1>1, <1>2, LenProperties DEF ReaderInv, TypeOK, readerVars
  <1>4. TypeOK'
    BY <1>1, <1>2, <1>3 DEF ReaderInv, TypeOK, readerVars
  <1>5. BufferInv' /\ AllocationCapped'
    BY <1>1 DEF ReaderInv, BufferInv, AllocationCapped, readerVars
  <1>. QED  BY <1>4, <1>5 DEF ReaderInv

\* A step of a Rust reader.
LEMMA RustReaderKeepsInv == ASSUME ReaderInv, RustReader PROVE ReaderInv'
  <1>. USE DEF ReaderInv
  <1>. HeaderSize = 2 /\ HeaderSize \in Nat /\ MaxLength \in Nat
    BY SizesAssumption DEF HeaderSize
  <1>. buf \in Seq(Byte) /\ Len(buf) \in Nat
    BY LenProperties DEF TypeOK
  <1>1. CASE CallReader
    <2>1. TypeOK'
      BY <1>1 DEF CallReader, TypeOK, peerVars
    <2>2. BufferInv'
      <3>1. buf' = <<>> /\ Len(buf') = 0 /\ room' = HeaderSize /\ phase' = "header"
        BY <1>1 DEF CallReader
      <3>2. reader' = "rust" /\ call' \in {"full", "opt"}
        BY <1>1 DEF CallReader
      <3>. QED  BY <3>1, <3>2 DEF BufferInv
    <2>3. AllocationCapped'
      BY <1>1 DEF CallReader, AllocationCapped
    <2>. QED  BY <2>1, <2>2, <2>3
  <1>2. CASE Fill
    <2>1. PICK n \in 1 .. Unread :
            /\ Len(buf) + n <= room
            /\ buf' = buf \o SubSeq(wire, pos + 1, pos + n)
            /\ pos' = pos + n
      BY <1>2 DEF Fill
    <2>2. /\ buf' \in Seq(Byte) /\ Len(buf') = Len(buf) + n
          /\ \A i \in 1 .. Len(buf) : buf'[i] = buf[i]
          /\ pos' \in 0 .. Len(wire)
      BY <2>1, ReadIsBytes
    <2>3. UNCHANGED <<peerVars, reader, call, phase, room, frames, outcome>>
      BY <1>2 DEF Fill
    <2>4. TypeOK'
      BY <2>2, <2>3 DEF TypeOK, peerVars
    <2>5. BufferInv'
      <3>1. n \in Nat /\ Len(buf) <= Len(buf') /\ Len(buf') <= room
        BY <2>1, <2>2, LenProperties DEF Unread, TypeOK
      <3>2. Len(buf) >= HeaderSize => LengthOf(buf') = LengthOf(buf)
        BY <2>2 DEF LengthOf
      <3>. QED  BY <2>3, <3>1, <3>2 DEF BufferInv
    <2>6. AllocationCapped'
      BY <2>3 DEF AllocationCapped
    <2>. QED  BY <2>4, <2>5, <2>6
  <1>3. CASE RejectOversized
    <2>1. UNCHANGED <<peerVars, reader, call, phase, pos, buf, room, frames>> /\ outcome' = "failed"
      BY <1>3 DEF RejectOversized
    <2>. QED  BY <2>1 DEF TypeOK, BufferInv, AllocationCapped, peerVars
  <1>4. CASE TakeHeader
    <2>1. /\ UNCHANGED <<peerVars, reader, call, pos, buf, frames, outcome>>
          /\ phase' = "payload" /\ room' = HeaderSize + LengthOf(buf)
          /\ LengthOf(buf) <= MaxLength
          /\ call \in {"full", "opt"} /\ phase = "header" /\ Len(buf) = room
      BY <1>4 DEF TakeHeader, HeaderRead, InCall
    <2>2. Len(buf) = HeaderSize
      BY <2>1 DEF BufferInv
    <2>3. LengthOf(buf) \in Nat
      <3>1. 2 \in 1 .. Len(buf)
        BY <2>2
      <3>2. buf[2] \in Byte
        BY <3>1, ElementOfSeq
      <3>. QED  BY <3>2, SizesAssumption DEF LengthOf, Byte
    <2>4. TypeOK'
      BY <2>1, <2>3 DEF TypeOK, peerVars
    <2>5. BufferInv'
      BY <2>1, <2>2, <2>3 DEF BufferInv
    <2>6. AllocationCapped'
      BY <2>1, <2>3 DEF AllocationCapped
    <2>. QED  BY <2>4, <2>5, <2>6
  <1>5. CASE ReturnFrame
    <2>1. /\ UNCHANGED <<peerVars, reader, phase, pos, outcome>>
          /\ frames' = Append(frames, Decode(buf))
          /\ call' = "none" /\ buf' = <<>> /\ room' = 0
          /\ call \in {"full", "opt"} /\ phase = "payload" /\ Len(buf) = room
      BY <1>5 DEF ReturnFrame, InCall
    <2>2. Decode(buf) \in Frame
      BY <2>1, DecodeIsFrame DEF BufferInv
    <2>3. frames' \in Seq(Frame)
      BY <2>1, <2>2, AppendProperties DEF TypeOK
    <2>4. TypeOK'
      BY <2>1, <2>3 DEF TypeOK, peerVars
    <2>5. BufferInv' /\ AllocationCapped'
      BY <2>1 DEF BufferInv, AllocationCapped
    <2>. QED  BY <2>4, <2>5
  <1>6. CASE NoMoreFrames
    <2>1. /\ UNCHANGED <<peerVars, reader, call, phase, pos, buf, room, frames>>
          /\ outcome' \in {"ended", "failed"}
      BY <1>6 DEF NoMoreFrames
    <2>. QED  BY <2>1 DEF TypeOK, BufferInv, AllocationCapped, peerVars
  <1>. QED  BY <1>1, <1>2, <1>3, <1>4, <1>5, <1>6 DEF RustReader

\* A step of the web client's reader.
LEMMA WebReaderKeepsInv == ASSUME ReaderInv, WebReader PROVE ReaderInv'
  <1>. USE DEF ReaderInv
  <1>. buf \in Seq(Byte) /\ Len(buf) \in Nat
    BY LenProperties DEF TypeOK
  <1>1. CASE NextFromBuffer
    <2>1. /\ UNCHANGED <<peerVars, reader, call, phase, pos, room, outcome>>
          /\ call = "web" /\ HoldsFrame
          /\ frames' = Append(frames, Decode(buf))
          /\ buf' = SubSeq(buf, HeaderSize + LengthOf(buf) + 1, Len(buf))
      BY <1>1 DEF NextFromBuffer, AtWeb, BehindFrame
    <2>2. LengthOf(buf) \in Nat
      BY <2>1, ElementOfSeq, SizesAssumption DEF HoldsFrame, HeaderSize, LengthOf, Byte
    <2>3. frames' \in Seq(Frame)
      BY <2>1, DecodeIsFrame, AppendProperties DEF TypeOK, HoldsFrame
    <2>4. buf' \in Seq(Byte)
      BY <2>1, <2>2, SubSeqProperties DEF HeaderSize
    <2>5. TypeOK'
      BY <2>1, <2>3, <2>4 DEF TypeOK, peerVars
    <2>6. BufferInv' /\ AllocationCapped'
      BY <2>1 DEF BufferInv, AllocationCapped
    <2>. QED  BY <2>5, <2>6
  <1>2. CASE Accumulate
    <2>1. PICK n \in 1 .. Unread :
            buf' = buf \o SubSeq(wire, pos + 1, pos + n) /\ pos' = pos + n
      BY <1>2 DEF Accumulate
    <2>2. UNCHANGED <<peerVars, reader, call, phase, room, frames, outcome>> /\ call = "web"
      BY <1>2 DEF Accumulate, AtWeb
    <2>3. buf' \in Seq(Byte) /\ pos' \in 0 .. Len(wire)
      BY <2>1, ReadIsBytes
    <2>4. TypeOK'
      BY <2>2, <2>3 DEF TypeOK, peerVars
    <2>5. BufferInv' /\ AllocationCapped'
      BY <2>2 DEF BufferInv, AllocationCapped
    <2>. QED  BY <2>4, <2>5
  <1>3. CASE NoMoreChunks
    <2>1. /\ UNCHANGED <<peerVars, reader, call, phase, pos, buf, room, frames>>
          /\ outcome' = "ended"
      BY <1>3 DEF NoMoreChunks
    <2>. QED  BY <2>1 DEF TypeOK, BufferInv, AllocationCapped, peerVars
  <1>. QED  BY <1>1, <1>2, <1>3 DEF WebReader

LEMMA NextKeepsInv == ReaderInv /\ [Next]_vars => ReaderInv'
  <1>. SUFFICES ASSUME ReaderInv, [Next]_vars PROVE ReaderInv'
    OBVIOUS
  <1>1. CASE ReadFails
    <2>1. /\ UNCHANGED <<peerVars, reader, call, phase, pos, buf, room, frames>>
          /\ outcome' = "failed"
      BY <1>1 DEF ReadFails
    <2>. QED  BY <2>1 DEF ReaderInv, TypeOK, BufferInv, AllocationCapped, peerVars
  <1>2. CASE UNCHANGED vars
    BY <1>2 DEF ReaderInv, TypeOK, BufferInv, AllocationCapped, vars, peerVars, readerVars
  <1>. QED
    BY <1>1, <1>2, PeerKeepsInv, RustReaderKeepsInv, WebReaderKeepsInv DEF Next, Reader

\* Every variable keeps its type, whatever the bytes and however they are cut up: what is
\* returned is a frame, and no reader looks at a byte that has not arrived.
THEOREM ReaderTypeCorrect == Spec => []TypeOK
  <1>1. ReaderInv => TypeOK
    BY DEF ReaderInv
  <1>. QED  BY <1>1, ReaderInvInit, NextKeepsInv, PTL DEF Spec

\* The buffer of read_full_frame and read_full_frame_opt never has room for more than a
\* header and MAX_FRAME_LENGTH bytes, whatever length a peer announces.
THEOREM AllocationIsCapped == Spec => []AllocationCapped
  <1>1. ReaderInv => AllocationCapped
    BY DEF ReaderInv
  <1>. QED  BY <1>1, ReaderInvInit, NextKeepsInv, PTL DEF Spec

-----------------------------------------------------------------------------
(* The clean end. *)

\* What must hold before an end for the peer to change nothing after it.
EndInv == CleanEnd /\ (reader = "rust" /\ outcome = "ended" => ending = "finished")

LEMMA NextKeepsEnd == ReaderInv /\ EndInv /\ [Next]_vars => EndInv'
  <1>. SUFFICES ASSUME ReaderInv, EndInv, [Next]_vars PROVE EndInv'
    OBVIOUS
  <1>. USE DEF EndInv, CleanEnd
  <1>1. CASE Peer
    <2>1. UNCHANGED readerVars
      BY <1>1 DEF Peer, WriteFrame, WriteByte, CloseStream
    <2>2. ending = "finished" => FALSE
      BY <1>1 DEF Peer, WriteFrame, WriteByte, CloseStream
    <2>. QED  BY <2>1, <2>2 DEF readerVars
  <1>2. CASE NoMoreFrames
    <2>1. /\ UNCHANGED <<peerVars, pos, buf>>
          /\ outcome' = "ended" => buf = <<>>
          /\ ending = "finished" /\ Len(wire) - pos = 0
      BY <1>2 DEF NoMoreFrames, Drained, Unread
    <2>2. pos = Len(wire)
      BY <2>1, LenProperties DEF ReaderInv, TypeOK
    <2>. QED  BY <2>1, <2>2 DEF peerVars
  <1>3. CASE \/ CallReader \/ Fill \/ TakeHeader \/ ReturnFrame
             \/ RejectOversized \/ ReadFails
    <2>1. outcome' = "reading" \/ outcome' = "failed"
      BY <1>3 DEF CallReader, Fill, TakeHeader, ReturnFrame, RejectOversized, ReadFails,
                  HeaderRead, InCall, Reading
    <2>. QED  BY <2>1
  <1>4. CASE WebReader
    <2>1. call = "web" /\ reader' = reader
      BY <1>4 DEF WebReader, NextFromBuffer, Accumulate, NoMoreChunks, AtWeb
    <2>2. reader = "web"
      BY <2>1 DEF ReaderInv, BufferInv
    <2>. QED  BY <2>1, <2>2
  <1>5. CASE UNCHANGED vars
    BY <1>5 DEF vars, peerVars, readerVars
  <1>. QED
    BY <1>1, <1>2, <1>3, <1>4, <1>5 DEF Next, Reader, RustReader

\* A Rust reader that says None has read every byte of a stream its peer finished, and
\* holds none of them: no frame, and no part of one, is lost behind a clean end.
THEOREM CleanEndLosesNothing == Spec => []CleanEnd
  <1>1. Init => EndInv
    BY DEF Init, EndInv, CleanEnd
  <1>2. EndInv => CleanEnd
    BY DEF EndInv
  <1>. QED  BY <1>1, <1>2, ReaderInvInit, NextKeepsInv, NextKeepsEnd, PTL DEF Spec

-----------------------------------------------------------------------------
(* The frames in a byte sequence.  FramesIn is a recursive function of the     *)
(* number of bytes left; its equation, FramesUnfold, is all that is used of it *)
(* afterwards, with induction over the number of bytes.                        *)

IsParse(f, w, cap, n) ==
    f = [k \in 0 .. n |->
            IF BeginsWithFrame(LastBytes(w, k), cap)
            THEN <<Decode(LastBytes(w, k))>> \o f[k - (HeaderSize + LengthOf(LastBytes(w, k)))]
            ELSE <<>>]

\* One entry of it, given the function.
Entry(f, w, cap, k) ==
    IF BeginsWithFrame(LastBytes(w, k), cap)
    THEN <<Decode(LastBytes(w, k))>> \o f[k - (HeaderSize + LengthOf(LastBytes(w, k)))]
    ELSE <<>>

LEMMA ParseEntries ==
    ASSUME NEW f, NEW w, NEW cap, NEW n
    PROVE  IsParse(f, w, cap, n) <=> f = [k \in 0 .. n |-> Entry(f, w, cap, k)]
  BY Zenon DEF IsParse, Entry

LEMMA ParseEntry ==
    ASSUME NEW f, NEW w, NEW cap, NEW n, IsParse(f, w, cap, n), NEW k \in 0 .. n
    PROVE  f[k] = Entry(f, w, cap, k)
  <1>1. f = [i \in 0 .. n |-> Entry(f, w, cap, i)]
    BY ParseEntries, Zenon
  <1>. QED  BY <1>1

LEMMA EntryIs ==
    ASSUME NEW f, NEW w, NEW cap, NEW k, NEW b, b = LastBytes(w, k)
    PROVE  /\ BeginsWithFrame(b, cap) =>
                Entry(f, w, cap, k) = <<Decode(b)>> \o f[k - (HeaderSize + LengthOf(b))]
           /\ ~BeginsWithFrame(b, cap) => Entry(f, w, cap, k) = <<>>
  BY Zenon DEF Entry

\* The last bytes of a byte sequence are bytes, and so many.
LEMMA LastBytesAre ==
    ASSUME NEW w \in Seq(Byte), NEW n \in 0 .. Len(w)
    PROVE  /\ LastBytes(w, n) \in Seq(Byte)
           /\ Len(LastBytes(w, n)) = n
           /\ \A i \in 1 .. n : LastBytes(w, n)[i] = w[Len(w) - n + i]
  <1>. DEFINE a == Len(w) - n + 1
              b == Len(w)
  <1>1. a \in Int /\ b \in Int /\ n \in Nat /\ b - a + 1 = n /\ (n > 0 => a <= b)
    BY LenProperties
  <1>2. \A i \in a .. b : w[i] \in Byte
    BY LenProperties, ElementOfSeq
  <1>. HIDE DEF a, b
  <1>3. /\ SubSeq(w, a, b) \in Seq(Byte)
        /\ Len(SubSeq(w, a, b)) = n
        /\ \A i \in 1 .. n : SubSeq(w, a, b)[i] = w[a + i - 1]
    BY <1>1, <1>2, SubSeqProperties
  <1>. QED  BY <1>1, <1>3, LenProperties DEF a, b, LastBytes

\* What a length field says is a natural number.
LEMMA LengthIsNat ==
    ASSUME NEW w \in Seq(Byte), Len(w) >= HeaderSize
    PROVE  LengthOf(w) \in 0 .. MaxByte /\ LengthOf(w) \in Nat
  <1>1. w[2] \in Byte
    BY ElementOfSeq, LenProperties DEF HeaderSize
  <1>. QED  BY <1>1, SizesAssumption DEF LengthOf, Byte

LEMMA BehindFrameIs ==
    ASSUME NEW w \in Seq(Byte), NEW cap, BeginsWithFrame(w, cap)
    PROVE  /\ Len(w) - (HeaderSize + LengthOf(w)) \in 0 .. Len(w) - 2
           /\ BehindFrame(w) = LastBytes(w, Len(w) - (HeaderSize + LengthOf(w)))
           /\ BehindFrame(w) \in Seq(Byte)
           /\ Len(BehindFrame(w)) = Len(w) - (HeaderSize + LengthOf(w))
           /\ \A i \in 1 .. Len(BehindFrame(w)) :
                 BehindFrame(w)[i] = w[HeaderSize + LengthOf(w) + i]
  <1>. DEFINE n == Len(w) - (HeaderSize + LengthOf(w))
  <1>1. LengthOf(w) \in Nat /\ Len(w) \in Nat /\ HeaderSize = 2
    BY LengthIsNat, LenProperties DEF BeginsWithFrame, HeaderSize
  <1>2. n \in 0 .. Len(w) - 2 /\ n \in 0 .. Len(w)
    BY <1>1 DEF BeginsWithFrame
  <1>3. BehindFrame(w) = LastBytes(w, n)
    <2>1. Len(w) - n + 1 = HeaderSize + LengthOf(w) + 1
      BY <1>1
    <2>. QED  BY <2>1 DEF BehindFrame, LastBytes
  <1>4. \A i \in 1 .. n : LastBytes(w, n)[i] = w[HeaderSize + LengthOf(w) + i]
    <2>1. TAKE i \in 1 .. n
    <2>2. Len(w) - n + i = HeaderSize + LengthOf(w) + i
      BY <1>1
    <2>. QED  BY <1>2, <2>2, LastBytesAre
  <1>. HIDE DEF n
  <1>5. LastBytes(w, n) \in Seq(Byte) /\ Len(LastBytes(w, n)) = n
    BY <1>2, LastBytesAre
  <1>. QED  BY <1>2, <1>3, <1>4, <1>5 DEF n

LEMMA ParseExists ==
    ASSUME NEW w \in Seq(Byte), NEW cap, NEW n \in 0 .. Len(w)
    PROVE  \E f : IsParse(f, w, cap, n)
  <1>. DEFINE S == {m \in Nat : m <= Len(w) => \E f : IsParse(f, w, cap, m)}
  <1>. Len(w) \in Nat
    BY LenProperties
  <1>1. 0 \in S
    <2>. DEFINE f == [k \in 0 .. 0 |-> <<>>]
    <2>1. \A k \in 0 .. 0 : Entry(f, w, cap, k) = <<>>
      <3>1. Len(LastBytes(w, 0)) = 0
        BY LastBytesAre
      <3>. QED  BY <3>1 DEF Entry, BeginsWithFrame, HeaderSize
    <2>2. f = [k \in 0 .. 0 |-> Entry(f, w, cap, k)]
      BY <2>1
    <2>. QED  BY <2>2, ParseEntries
  <1>2. ASSUME NEW m \in Nat, m \in S PROVE m + 1 \in S
    <2>. SUFFICES ASSUME m + 1 <= Len(w) PROVE \E f : IsParse(f, w, cap, m + 1)
      OBVIOUS
    <2>1. PICK f : IsParse(f, w, cap, m)
      BY <1>2
    <2>. DEFINE last == Entry(f, w, cap, m + 1)
                g == [k \in 0 .. m + 1 |-> IF k = m + 1 THEN last ELSE f[k]]
    <2>2. ASSUME NEW k \in 0 .. m + 1 PROVE Entry(g, w, cap, k) = Entry(f, w, cap, k)
      <3>1. CASE BeginsWithFrame(LastBytes(w, k), cap)
        <4>. DEFINE b == LastBytes(w, k)
                    j == k - (HeaderSize + LengthOf(b))
        <4>1. b \in Seq(Byte) /\ Len(b) = k
          BY LastBytesAre
        <4>2. j \in 0 .. k - 2
          BY <3>1, <4>1, BehindFrameIs
        <4>3. g[j] = f[j]
          BY <4>2
        <4>. HIDE DEF g
        <4>4. Entry(g, w, cap, k) = <<Decode(b)>> \o g[j]
          BY <3>1, EntryIs, ZenonT(60)
        <4>5. Entry(f, w, cap, k) = <<Decode(b)>> \o f[j]
          BY <3>1, EntryIs, ZenonT(60)
        <4>. QED  BY <4>3, <4>4, <4>5
      <3>2. CASE ~BeginsWithFrame(LastBytes(w, k), cap)
        <4>. HIDE DEF g
        <4>. QED  BY <3>2, EntryIs, ZenonT(60)
      <3>. QED  BY <3>1, <3>2
    <2>3. ASSUME NEW k \in 0 .. m + 1 PROVE g[k] = Entry(g, w, cap, k)
      <3>1. CASE k = m + 1
        BY <2>2, <3>1
      <3>2. CASE k \in 0 .. m
        BY <2>1, <2>2, <3>2, ParseEntry
      <3>. QED  BY <3>1, <3>2
    <2>. HIDE DEF last
    <2>4. g = [k \in 0 .. m + 1 |-> Entry(g, w, cap, k)]
      BY <2>3
    <2>. QED  BY <2>4, ParseEntries
  <1>. HIDE DEF S
  <1>3. n \in S
    BY <1>1, <1>2, NatSetInduction
  <1>. QED  BY <1>3 DEF S

LEMMA FramesParse ==
    ASSUME NEW w \in Seq(Byte), NEW cap
    PROVE  \E f : IsParse(f, w, cap, Len(w)) /\ FramesIn(w, cap) = f[Len(w)]
  <1>. DEFINE f == CHOOSE g : IsParse(g, w, cap, Len(w))
  <1>1. IsParse(f, w, cap, Len(w))
    <2>1. Len(w) \in 0 .. Len(w)
      BY LenProperties
    <2>. QED  BY <2>1, ParseExists, Zenon
  <1>2. FramesIn(w, cap) = f[Len(w)]
    BY Zenon DEF FramesIn, IsParse
  <1>. QED  BY <1>1, <1>2, Zenon

\* Parses of two byte sequences agree as far as their last bytes do.
EndAlike(v, w, m) ==
    /\ m \in 0 .. Len(v) /\ m <= Len(w)
    /\ \A k \in 0 .. m : LastBytes(v, k) = LastBytes(w, k)

LEMMA ParsesAgree ==
    ASSUME NEW v \in Seq(Byte), NEW w \in Seq(Byte), NEW cap, NEW m, EndAlike(v, w, m),
           NEW f, NEW g, IsParse(f, v, cap, Len(v)), IsParse(g, w, cap, Len(w))
    PROVE  f[m] = g[m]
  <1>. USE DEF EndAlike
  <1>. DEFINE S == {n \in Nat : \A k \in 0 .. n : k <= m => f[k] = g[k]}
  <1>. Len(v) \in Nat /\ Len(w) \in Nat
    BY LenProperties
  <1>0. ASSUME NEW k \in 0 .. m, \A j \in 0 .. k - 1 : f[j] = g[j]
        PROVE  f[k] = g[k]
    <2>. DEFINE b == LastBytes(v, k)
    <2>1. /\ k \in 0 .. Len(v) /\ k \in 0 .. Len(w) /\ LastBytes(w, k) = b
          /\ b \in Seq(Byte) /\ Len(b) = k
      BY LastBytesAre
    <2>2. f[k] = Entry(f, v, cap, k) /\ g[k] = Entry(g, w, cap, k)
      BY <2>1, ParseEntry
    <2>. HIDE DEF b
    <2>3. CASE BeginsWithFrame(b, cap)
      <3>1. k - (HeaderSize + LengthOf(b)) \in 0 .. k - 2
        BY <2>1, <2>3, BehindFrameIs
      <3>2. f[k - (HeaderSize + LengthOf(b))] = g[k - (HeaderSize + LengthOf(b))]
        BY <1>0, <3>1
      <3>. QED  BY <2>1, <2>2, <2>3, <3>2, Zenon DEF Entry, b
    <2>4. CASE ~BeginsWithFrame(b, cap)
      BY <2>1, <2>2, <2>4, Zenon DEF Entry, b
    <2>. QED  BY <2>3, <2>4
  <1>1. 0 \in S
    BY <1>0
  <1>2. ASSUME NEW n \in Nat, n \in S PROVE n + 1 \in S
    <2>1. \A k \in 0 .. n : k <= m => f[k] = g[k]
      BY <1>2
    <2>2. ASSUME n + 1 <= m PROVE f[n + 1] = g[n + 1]
      <3>1. n + 1 \in 0 .. m /\ \A j \in 0 .. (n + 1) - 1 : f[j] = g[j]
        BY <2>1, <2>2
      <3>. QED  BY <1>0, <3>1
    <2>. QED  BY <2>1, <2>2
  <1>. HIDE DEF S
  <1>3. m \in S
    BY <1>1, <1>2, NatSetInduction
  <1>. QED  BY <1>3 DEF S

LEMMA BytesAssociate ==
    \A s, t, u \in Seq(Byte) : (s \o t) \o u = s \o (t \o u)
  BY ConcatAssociative

\* The equation of FramesIn: the first frame, and the frames behind it.
LEMMA FramesUnfold ==
    ASSUME NEW w \in Seq(Byte), NEW cap
    PROVE  /\ BeginsWithFrame(w, cap) =>
                FramesIn(w, cap) = <<Decode(w)>> \o FramesIn(BehindFrame(w), cap)
           /\ ~BeginsWithFrame(w, cap) => FramesIn(w, cap) = <<>>
  <1>1. PICK f : IsParse(f, w, cap, Len(w)) /\ FramesIn(w, cap) = f[Len(w)]
    BY FramesParse
  <1>2. /\ Len(w) \in 0 .. Len(w) /\ LastBytes(w, Len(w)) = w
    BY LenProperties, SubSeqFull DEF LastBytes
  <1>3. f[Len(w)] = Entry(f, w, cap, Len(w))
    BY <1>1, <1>2, ParseEntry
  <1>4. CASE BeginsWithFrame(w, cap)
    <2>0. PICK v, n : v = BehindFrame(w) /\ n = Len(w) - (HeaderSize + LengthOf(w))
      BY Zenon
    <2>1. n \in 0 .. Len(w) - 2 /\ v \in Seq(Byte) /\ Len(v) = n /\ v = LastBytes(w, n)
      BY <1>4, <2>0, BehindFrameIs
    <2>2. f[Len(w)] = <<Decode(w)>> \o f[n]
      <3>1. w = LastBytes(w, Len(w))
        BY <1>2
      <3>2. Entry(f, w, cap, Len(w)) = <<Decode(w)>> \o f[Len(w) - (HeaderSize + LengthOf(w))]
        BY <1>4, <3>1, EntryIs
      <3>. QED  BY <1>3, <2>0, <3>2, Zenon
    <2>3. PICK g : IsParse(g, v, cap, Len(v)) /\ FramesIn(v, cap) = g[Len(v)]
      BY <2>1, FramesParse
    <2>4. \A k \in 0 .. n : LastBytes(v, k) = LastBytes(w, k)
      <3>1. TAKE k \in 0 .. n
      <3>2. Len(w) \in Nat /\ n <= Len(w) /\ k \in 0 .. Len(w) /\ k \in 0 .. Len(v)
        BY <2>1, LenProperties
      <3>3. /\ LastBytes(v, k) \in Seq(Byte) /\ LastBytes(w, k) \in Seq(Byte)
            /\ Len(LastBytes(v, k)) = k /\ Len(LastBytes(w, k)) = k
        BY <2>1, <3>2, LastBytesAre
      <3>4. \A i \in 1 .. k : LastBytes(v, k)[i] = LastBytes(w, k)[i]
        <4>1. TAKE i \in 1 .. k
        <4>2. LastBytes(v, k)[i] = v[n - k + i] /\ LastBytes(w, k)[i] = w[Len(w) - k + i]
          BY <2>1, <3>2, LastBytesAre
        <4>3. n - k + i \in 1 .. n /\ Len(w) - n + (n - k + i) = Len(w) - k + i
          <5>1. n \in Nat /\ k \in Nat /\ i \in Nat /\ Len(w) \in Nat /\ i <= k /\ k <= n /\ i >= 1
            BY <2>1, <3>2
          <5>. QED  BY <5>1
        <4>4. v[n - k + i] = w[Len(w) - n + (n - k + i)]
          BY <2>1, <3>2, <4>3, LastBytesAre
        <4>. QED  BY <4>2, <4>3, <4>4
      <3>. QED  BY <3>3, <3>4, SeqEqual
    <2>5. n \in 0 .. Len(v) /\ n <= Len(w) /\ n \in 0 .. n
      BY <2>1, LenProperties
    <2>6. g[n] = f[n]
      <3>1. IsParse(g, v, cap, Len(v)) /\ IsParse(f, w, cap, Len(w))
        BY <1>1, <2>3
      <3>2. EndAlike(v, w, n)
        BY <2>4, <2>5 DEF EndAlike
      <3>. QED  BY <2>1, <3>1, <3>2, ParsesAgree
    <2>. QED  BY <1>1, <1>4, <2>1, <2>0, <2>2, <2>3, <2>6
  <1>5. CASE ~BeginsWithFrame(w, cap)
    BY <1>1, <1>2, <1>3, <1>5, Zenon DEF Entry
  <1>. QED  BY <1>4, <1>5

\* Induction over the number of bytes.
LEMMA BytesInduction ==
    ASSUME NEW P,
           \A w \in Seq(Byte) : (\A v \in Seq(Byte) : Len(v) < Len(w) => v \in P) => w \in P
    PROVE  Seq(Byte) \subseteq P
  <1>. DEFINE S == {n \in Nat : \A w \in Seq(Byte) : Len(w) < n => w \in P}
  <1>0. \A w \in Seq(Byte) : Len(w) \in Nat
    BY LenProperties
  <1>1. 0 \in S
    BY <1>0
  <1>2. ASSUME NEW n \in Nat, n \in S PROVE n + 1 \in S
    <2>. SUFFICES ASSUME NEW w \in Seq(Byte), Len(w) < n + 1 PROVE w \in P
      OBVIOUS
    <2>1. ASSUME NEW v \in Seq(Byte), Len(v) < Len(w) PROVE v \in P
      <3>1. Len(v) < n
        BY <1>0, <2>1
      <3>. QED  BY <1>2, <3>1
    <2>. QED  BY <2>1
  <1>. HIDE DEF S
  <1>3. ASSUME NEW w \in Seq(Byte) PROVE w \in P
    <2>1. Len(w) \in Nat /\ Len(w) + 1 \in Nat
      BY <1>0
    <2>2. Len(w) + 1 \in S
      BY <1>1, <1>2, <2>1, NatSetInduction
    <2>. QED  BY <2>1, <2>2 DEF S
  <1>. QED  BY <1>3

LEMMA ConcatElements ==
    ASSUME NEW S, NEW s \in Seq(S), NEW t \in Seq(S), NEW c, c = s \o t
    PROVE  /\ c \in Seq(S)
           /\ Len(s) \in Nat /\ Len(t) \in Nat /\ Len(c) = Len(s) + Len(t)
           /\ \A i \in 1 .. Len(s) : c[i] = s[i]
           /\ \A i \in 1 .. Len(t) : c[Len(s) + i] = t[i]
  BY ConcatProperties, LenProperties

\* Bytes that follow a whole frame change nothing of it.
LEMMA BeginsStill ==
    ASSUME NEW w \in Seq(Byte), NEW x \in Seq(Byte), NEW cap, BeginsWithFrame(w, cap)
    PROVE  /\ BeginsWithFrame(w \o x, cap)
           /\ Decode(w \o x) = Decode(w)
           /\ BehindFrame(w \o x) = BehindFrame(w) \o x
  <1>1. PICK y : y = w \o x
    OBVIOUS
  <1>2. /\ y \in Seq(Byte) /\ Len(y) = Len(w) + Len(x) /\ Len(w) \in Nat /\ Len(x) \in Nat
        /\ \A i \in 1 .. Len(w) : y[i] = w[i]
        /\ \A i \in 1 .. Len(x) : y[Len(w) + i] = x[i]
    BY <1>1, ConcatElements
  <1>3. PICK l \in Nat : l = LengthOf(w) /\ l <= cap /\ Len(w) >= HeaderSize + l
    BY LengthIsNat DEF BeginsWithFrame
  <1>4. LengthOf(y) = l /\ y[1] = w[1]
    BY <1>2, <1>3 DEF LengthOf, HeaderSize
  <1>5. BeginsWithFrame(y, cap)
    BY <1>2, <1>3, <1>4 DEF BeginsWithFrame, HeaderSize
  <1>6. SubSeq(y, HeaderSize + 1, HeaderSize + l) = SubSeq(w, HeaderSize + 1, HeaderSize + l)
    <2>1. \A i \in HeaderSize + 1 .. HeaderSize + l : y[i] = w[i] /\ w[i] \in Byte
      BY <1>2, <1>3, ElementOfSeq DEF HeaderSize
    <2>2. /\ SubSeq(w, HeaderSize + 1, HeaderSize + l) \in Seq(Byte)
          /\ Len(SubSeq(w, HeaderSize + 1, HeaderSize + l)) = l
          /\ \A i \in 1 .. l : SubSeq(w, HeaderSize + 1, HeaderSize + l)[i] = w[HeaderSize + i]
      BY <2>1, SubSeqProperties DEF HeaderSize
    <2>3. /\ SubSeq(y, HeaderSize + 1, HeaderSize + l) \in Seq(Byte)
          /\ Len(SubSeq(y, HeaderSize + 1, HeaderSize + l)) = l
          /\ \A i \in 1 .. l : SubSeq(y, HeaderSize + 1, HeaderSize + l)[i] = y[HeaderSize + i]
      BY <2>1, SubSeqProperties DEF HeaderSize
    <2>4. \A i \in 1 .. l : y[HeaderSize + i] = w[HeaderSize + i]
      BY <2>1 DEF HeaderSize
    <2>. QED  BY <2>2, <2>3, <2>4, SeqEqual
  <1>7. Decode(y) = Decode(w)
    BY <1>3, <1>4, <1>6, Zenon DEF Decode
  <1>8. BehindFrame(y) = BehindFrame(w) \o x
    <2>1. PICK v : v = BehindFrame(w)
      OBVIOUS
    <2>2. /\ v \in Seq(Byte) /\ Len(v) = Len(w) - (HeaderSize + l) /\ Len(v) \in Nat
          /\ \A i \in 1 .. Len(v) : v[i] = w[HeaderSize + l + i]
      BY <1>3, <2>1, BehindFrameIs, LenProperties
    <2>3. PICK u : u = BehindFrame(y)
      OBVIOUS
    <2>4. /\ u \in Seq(Byte) /\ Len(u) = Len(y) - (HeaderSize + l) /\ Len(u) \in Nat
          /\ \A i \in 1 .. Len(u) : u[i] = y[HeaderSize + l + i]
      BY <1>2, <1>4, <1>5, <2>3, BehindFrameIs, LenProperties
    <2>5. PICK z : z = v \o x
      OBVIOUS
    <2>6. /\ z \in Seq(Byte) /\ Len(z) = Len(v) + Len(x)
          /\ \A i \in 1 .. Len(v) : z[i] = v[i]
          /\ \A i \in 1 .. Len(x) : z[Len(v) + i] = x[i]
      <3>1. v \in Seq(Byte)
        BY <2>2
      <3>. QED  BY <2>5, <3>1, ConcatElements
    <2>7. Len(u) = Len(z)
      BY <1>2, <2>2, <2>4, <2>6 DEF HeaderSize
    <2>8. ASSUME NEW i \in 1 .. Len(u) PROVE u[i] = z[i]
      <3>1. u[i] = y[HeaderSize + l + i]
        BY <2>4
      <3>2. CASE i \in 1 .. Len(v)
        <4>1. HeaderSize + l + i \in 1 .. Len(w)
          BY <1>2, <2>2, <3>2 DEF HeaderSize
        <4>. QED  BY <1>2, <2>2, <2>6, <3>1, <3>2, <4>1
      <3>3. CASE i > Len(v)
        <4>1. PICK j \in 1 .. Len(x) : i = Len(v) + j
          <5>1. i - Len(v) \in 1 .. Len(x) /\ i = Len(v) + (i - Len(v))
            BY <1>2, <2>2, <2>6, <2>7, <3>3
          <5>. QED  BY <5>1
        <4>2. HeaderSize + l + i = Len(w) + j
          BY <1>2, <2>2, <4>1 DEF HeaderSize
        <4>. QED  BY <1>2, <2>6, <3>1, <4>1, <4>2
      <3>. QED  BY <2>2, <3>2, <3>3
    <2>9. u = z
      BY <2>4, <2>6, <2>7, <2>8, SeqEqual
    <2>. QED  BY <2>1, <2>3, <2>5, <2>9
  <1>. QED  BY <1>1, <1>5, <1>7, <1>8

LEMMA DecodedLength ==
    ASSUME NEW w \in Seq(Byte), NEW cap, BeginsWithFrame(w, cap)
    PROVE  Len(Decode(w).payload) = LengthOf(w)
  <1>1. PICK l \in Nat : l = LengthOf(w) /\ Len(w) >= HeaderSize + l
    BY LengthIsNat DEF BeginsWithFrame
  <1>2. \A i \in HeaderSize + 1 .. HeaderSize + l : w[i] \in Byte
    BY <1>1, LenProperties, ElementOfSeq DEF HeaderSize
  <1>3. Len(SubSeq(w, HeaderSize + 1, HeaderSize + l)) = l
    BY <1>2, SubSeqProperties DEF HeaderSize
  <1>. QED  BY <1>1, <1>3 DEF Decode

LEMMA FrameThenRest ==
    ASSUME NEW w \in Seq(Byte), NEW x \in Seq(Byte), NEW cap, BeginsWithFrame(w, cap)
    PROVE  FramesIn(w \o x, cap) = <<Decode(w)>> \o FramesIn(BehindFrame(w) \o x, cap)
  <1>1. w \o x \in Seq(Byte)
    BY ConcatProperties
  <1>2. /\ BeginsWithFrame(w \o x, cap) /\ Decode(w \o x) = Decode(w)
        /\ BehindFrame(w \o x) = BehindFrame(w) \o x
    BY BeginsStill, Zenon
  <1>3. FramesIn(w \o x, cap) = <<Decode(w \o x)>> \o FramesIn(BehindFrame(w \o x), cap)
    BY <1>1, <1>2, FramesUnfold, Zenon
  <1>. QED  BY <1>2, <1>3, Zenon

\* The same for one frame and nothing behind it.
FrameFirst(w, v, x, cap) == FramesIn(w \o x, cap) = <<Decode(w)>> \o FramesIn(v \o x, cap)

LEMMA FrameComesFirst ==
    ASSUME NEW w \in Seq(Byte), NEW x \in Seq(Byte), NEW cap, BeginsWithFrame(w, cap)
    PROVE  FrameFirst(w, BehindFrame(w), x, cap)
  BY FrameThenRest, ZenonT(60) DEF FrameFirst

LEMMA FramesOfNothing ==
    ASSUME NEW cap
    PROVE  FramesIn(<<>>, cap) = <<>>
  <1>1. <<>> \in Seq(Byte) /\ ~BeginsWithFrame(<<>>, cap)
    BY EmptySeq DEF BeginsWithFrame, HeaderSize
  <1>. QED  BY <1>1, FramesUnfold

LEMMA FramesAreFrames ==
    ASSUME NEW cap
    PROVE  \A w \in Seq(Byte) : FramesIn(w, cap) \in Seq(Frame)
  <1>. DEFINE P == {w \in Seq(Byte) : FramesIn(w, cap) \in Seq(Frame)}
  <1>1. ASSUME NEW w \in Seq(Byte), \A v \in Seq(Byte) : Len(v) < Len(w) => v \in P
        PROVE  w \in P
    <2>1. CASE BeginsWithFrame(w, cap)
      <3>1. /\ BehindFrame(w) \in Seq(Byte) /\ Len(BehindFrame(w)) < Len(w)
        BY <2>1, BehindFrameIs, LenProperties
      <3>2. FramesIn(BehindFrame(w), cap) \in Seq(Frame)
        BY <1>1, <3>1
      <3>3. <<Decode(w)>> \in Seq(Frame)
        <4>1. Decode(w) \in Frame
          BY <2>1, DecodeIsFrame DEF BeginsWithFrame
        <4>. QED  BY <4>1
      <3>4. FramesIn(w, cap) = <<Decode(w)>> \o FramesIn(BehindFrame(w), cap)
        BY <2>1, FramesUnfold
      <3>. QED  BY <3>2, <3>3, <3>4, ConcatProperties
    <2>2. CASE ~BeginsWithFrame(w, cap)
      BY <2>2, FramesUnfold, EmptySeq
    <2>. QED  BY <2>1, <2>2
  <1>. HIDE DEF P
  <1>2. Seq(Byte) \subseteq P
    BY <1>1, BytesInduction
  <1>. QED  BY <1>2 DEF P

\* The bytes of the first frame, apart from those behind it.
LEMMA FrameCut ==
    ASSUME NEW b \in Seq(Byte), NEW cap, BeginsWithFrame(b, cap)
    PROVE  \E h \in Seq(Byte) :
              /\ b = h \o BehindFrame(b)
              /\ Len(h) = HeaderSize + LengthOf(b)
              /\ BeginsWithFrame(h, cap)
              /\ Decode(h) = Decode(b)
              /\ BehindFrame(h) = <<>>
  <1>1. PICK m \in Nat : m = HeaderSize + LengthOf(b)
    BY LengthIsNat DEF BeginsWithFrame, HeaderSize
  <1>2. m <= Len(b) /\ LengthOf(b) <= cap /\ m >= HeaderSize /\ Len(b) \in Nat
    <2>1. LengthOf(b) \in Nat /\ Len(b) \in Nat
      BY LengthIsNat, LenProperties DEF BeginsWithFrame
    <2>. QED  BY <1>1, <2>1 DEF BeginsWithFrame, HeaderSize
  <1>3. PICK h : h = SubSeq(b, 1, m)
    OBVIOUS
  <1>4. h \in Seq(Byte) /\ Len(h) = m /\ \A i \in 1 .. m : h[i] = b[i]
    BY <1>2, <1>3, SubSeqProperties, ElementOfSeq DEF HeaderSize
  <1>5. b = h \o BehindFrame(b)
    <2>1. SubSeq(b, 1, m) \o SubSeq(b, m + 1, Len(b)) = SubSeq(b, 1, Len(b))
      <3>1. 1 \in 1 .. Len(b) + 1 /\ m \in 1 - 1 .. Len(b) /\ Len(b) \in m .. Len(b)
        BY <1>2
      <3>. QED  BY <3>1, ConcatAdjacentSubSeq
    <2>2. BehindFrame(b) = SubSeq(b, m + 1, Len(b))
      BY <1>1 DEF BehindFrame
    <2>. QED  BY <1>3, <2>1, <2>2, SubSeqFull
  <1>6. LengthOf(h) = LengthOf(b)
    BY <1>2, <1>4 DEF LengthOf, HeaderSize
  <1>7. BeginsWithFrame(h, cap)
    BY <1>1, <1>2, <1>4, <1>6 DEF BeginsWithFrame
  <1>8. Decode(h) = Decode(b)
    <2>1. BehindFrame(b) \in Seq(Byte)
      BY BehindFrameIs
    <2>2. Decode(h \o BehindFrame(b)) = Decode(h)
      BY <1>4, <1>7, <2>1, BeginsStill
    <2>. QED  BY <1>5, <2>2
  <1>9. BehindFrame(h) = <<>>
    <2>1. BehindFrame(h) \in Seq(Byte) /\ Len(BehindFrame(h)) = 0
      BY <1>1, <1>2, <1>4, <1>6, <1>7, BehindFrameIs
    <2>. QED  BY <2>1, EmptySeq
  <1>. QED  BY <1>1, <1>4, <1>5, <1>7, <1>8, <1>9

\* One more byte completes one frame at most.
LEMMA OneMoreByte ==
    ASSUME NEW cap, NEW b \in Byte
    PROVE  \A w \in Seq(Byte) :
              \/ FramesIn(w \o <<b>>, cap) = FramesIn(w, cap)
              \/ \E f \in Frame : FramesIn(w \o <<b>>, cap) = FramesIn(w, cap) \o <<f>>
  <1>. DEFINE P == {w \in Seq(Byte) :
                      \/ FramesIn(w \o <<b>>, cap) = FramesIn(w, cap)
                      \/ \E f \in Frame : FramesIn(w \o <<b>>, cap) = FramesIn(w, cap) \o <<f>>}
  <1>0. <<b>> \in Seq(Byte) /\ Len(<<b>>) = 1
    OBVIOUS
  <1>1. ASSUME NEW w \in Seq(Byte), \A v \in Seq(Byte) : Len(v) < Len(w) => v \in P
        PROVE  w \in P
    <2>1. CASE BeginsWithFrame(w, cap)
      <3>1. PICK v : v = BehindFrame(w)
        OBVIOUS
      <3>2. v \in Seq(Byte) /\ Len(v) < Len(w)
        BY <2>1, <3>1, BehindFrameIs, LenProperties
      <3>3. v \in P
        BY <1>1, <3>2
      <3>4. PICK d : d = <<Decode(w)>>
        OBVIOUS
      <3>5. /\ FramesIn(w, cap) = d \o FramesIn(v, cap)
            /\ FramesIn(w \o <<b>>, cap) = d \o FramesIn(v \o <<b>>, cap)
        BY <1>0, <2>1, <3>1, <3>4, FramesUnfold, FrameThenRest
      <3>6. CASE FramesIn(v \o <<b>>, cap) = FramesIn(v, cap)
        BY <3>5, <3>6
      <3>7. CASE \E f \in Frame : FramesIn(v \o <<b>>, cap) = FramesIn(v, cap) \o <<f>>
        <4>1. PICK f \in Frame : FramesIn(v \o <<b>>, cap) = FramesIn(v, cap) \o <<f>>
          BY <3>7
        <4>2. PICK fs \in Seq(Frame) : fs = FramesIn(v, cap)
          BY <3>2, FramesAreFrames
        <4>3. d \in Seq(Frame) /\ <<f>> \in Seq(Frame)
          <5>1. Decode(w) \in Frame
            BY <2>1, DecodeIsFrame DEF BeginsWithFrame
          <5>. QED  BY <3>4, <5>1
        <4>4. (d \o fs) \o <<f>> = d \o (fs \o <<f>>)
          BY <4>3, ConcatAssociative
        <4>5. FramesIn(w \o <<b>>, cap) = FramesIn(w, cap) \o <<f>>
          BY <3>5, <4>1, <4>2, <4>4, Zenon
        <4>. QED  BY <4>5
      <3>. QED  BY <3>3, <3>6, <3>7
    <2>2. CASE ~BeginsWithFrame(w, cap)
      <3>1. FramesIn(w, cap) = <<>>
        BY <2>2, FramesUnfold
      <3>2. PICK y : y = w \o <<b>>
        OBVIOUS
      <3>3. /\ y \in Seq(Byte) /\ Len(y) = Len(w) + 1 /\ Len(w) \in Nat
            /\ \A i \in 1 .. Len(w) : y[i] = w[i]
        BY <1>0, <3>2, ConcatElements
      <3>4. CASE BeginsWithFrame(y, cap)
        <4>1. /\ BehindFrame(y) \in Seq(Byte)
              /\ Len(BehindFrame(y)) = Len(y) - (HeaderSize + LengthOf(y))
          BY <3>3, <3>4, BehindFrameIs
        <4>2. LengthOf(y) \in Nat /\ LengthOf(y) <= cap /\ HeaderSize = 2
              /\ Len(y) >= HeaderSize + LengthOf(y)
          BY <3>3, <3>4, LengthIsNat DEF BeginsWithFrame, HeaderSize
        <4>3. Len(y) = HeaderSize + LengthOf(y)
          <5>1. CASE Len(w) >= 2
            <6>1. LengthOf(y) = LengthOf(w)
              BY <3>3, <5>1 DEF LengthOf
            <6>. QED  BY <2>2, <3>3, <4>2, <5>1, <6>1 DEF BeginsWithFrame
          <5>2. CASE Len(w) < 2
            BY <3>3, <4>2, <5>2
          <5>. QED  BY <3>3, <5>1, <5>2
        <4>4. BehindFrame(y) = <<>>
          <5>1. Len(BehindFrame(y)) = 0
            BY <3>3, <4>1, <4>2, <4>3
          <5>. QED  BY <4>1, <5>1, EmptySeq
        <4>5. FramesIn(y, cap) = <<Decode(y)>> \o FramesIn(<<>>, cap)
          BY <3>3, <3>4, <4>4, FramesUnfold
        <4>6. FramesIn(<<>>, cap) = <<>>
          BY FramesOfNothing
        <4>7. Decode(y) \in Frame
          BY <3>3, <3>4, DecodeIsFrame DEF BeginsWithFrame
        <4>8. FramesIn(y, cap) = <<>> \o <<Decode(y)>>
          <5>1. <<Decode(y)>> \in Seq(Frame)
            BY <4>7
          <5>. QED  BY <4>5, <4>6, <5>1, ConcatEmptySeq
        <4>. QED  BY <3>1, <3>2, <4>7, <4>8
      <3>5. CASE ~BeginsWithFrame(y, cap)
        BY <3>1, <3>2, <3>3, <3>5, FramesUnfold
      <3>. QED  BY <3>4, <3>5
    <2>. QED  BY <2>1, <2>2
  <1>. HIDE DEF P
  <1>2. Seq(Byte) \subseteq P
    BY <1>1, BytesInduction
  <1>. QED  BY <1>2 DEF P

-----------------------------------------------------------------------------
(* What has been parsed, and what cannot be. *)

\* The bytes p are the frames fs and nothing more: whatever follows is parsed as if it
\* stood alone.
Parsed(p, fs, cap) ==
    /\ p \in Seq(Byte) /\ fs \in Seq(Frame)
    /\ \A x \in Seq(Byte) : FramesIn(p \o x, cap) = fs \o FramesIn(x, cap)

LEMMA ParsedFrames ==
    ASSUME NEW p, NEW fs, NEW cap, Parsed(p, fs, cap)
    PROVE  FramesIn(p, cap) = fs
  <1>. USE DEF Parsed
  <1>1. <<>> \in Seq(Byte) /\ p \o <<>> = p /\ fs \o <<>> = fs
    BY EmptySeq, ConcatEmptySeq
  <1>2. FramesIn(p \o <<>>, cap) = fs \o FramesIn(<<>>, cap)
    BY <1>1
  <1>. QED  BY <1>1, <1>2, FramesOfNothing

LEMMA ParsedNothing ==
    ASSUME NEW cap
    PROVE  Parsed(<<>>, <<>>, cap)
  <1>1. ASSUME NEW x \in Seq(Byte)
        PROVE  FramesIn(<<>> \o x, cap) = <<>> \o FramesIn(x, cap)
    <2>1. FramesIn(x, cap) \in Seq(Frame)
      BY FramesAreFrames
    <2>. QED  BY <2>1, ConcatEmptySeq
  <1>. QED  BY <1>1, EmptySeq DEF Parsed

LEMMA ParsedNext ==
    ASSUME NEW p, NEW fs, NEW cap, Parsed(p, fs, cap),
           NEW b \in Seq(Byte), BeginsWithFrame(b, cap), BehindFrame(b) = <<>>
    PROVE  Parsed(p \o b, Append(fs, Decode(b)), cap)
  <1>1. PICK d \in Frame : d = Decode(b)
    BY DecodeIsFrame DEF BeginsWithFrame
  <1>2. p \in Seq(Byte) /\ fs \in Seq(Frame)
    BY DEF Parsed
  <1>3. ASSUME NEW x \in Seq(Byte)
        PROVE  FramesIn((p \o b) \o x, cap) = Append(fs, d) \o FramesIn(x, cap)
    <2>1. PICK y : y = b \o x
      OBVIOUS
    <2>2. y \in Seq(Byte) /\ (p \o b) \o x = p \o y
      <3>1. b \o x \in Seq(Byte)
        BY ConcatProperties
      <3>2. (p \o b) \o x = p \o (b \o x)
        BY <1>2, BytesAssociate, ZenonT(60)
      <3>. QED  BY <2>1, <3>1, <3>2, Zenon
    <2>3. FramesIn(p \o y, cap) = fs \o FramesIn(y, cap)
      BY <2>2 DEF Parsed
    <2>4. FramesIn(y, cap) = <<d>> \o FramesIn(<<>> \o x, cap)
      <3>1. FrameFirst(b, BehindFrame(b), x, cap)
        BY FrameComesFirst
      <3>2. FrameFirst(b, <<>>, x, cap)
        BY <3>1
      <3>3. FramesIn(b \o x, cap) = <<Decode(b)>> \o FramesIn(<<>> \o x, cap)
        BY <3>2, Zenon DEF FrameFirst
      <3>. QED  BY <1>1, <2>1, <3>3, Zenon
    <2>5. PICK gs \in Seq(Frame) : gs = FramesIn(x, cap)
      BY FramesAreFrames
    <2>6. FramesIn(y, cap) = <<d>> \o gs
      BY <2>4, <2>5, ConcatEmptySeq
    <2>7. <<d>> \in Seq(Frame)
      OBVIOUS
    <2>8. (fs \o <<d>>) \o gs = fs \o (<<d>> \o gs)
      BY <1>2, <2>7, ConcatAssociative
    <2>9. Append(fs, d) = fs \o <<d>>
      BY <1>2, AppendIsConcat
    <2>. QED  BY <2>2, <2>3, <2>5, <2>6, <2>8, <2>9
  <1>4. p \o b \in Seq(Byte) /\ Append(fs, d) \in Seq(Frame)
    BY <1>2, ConcatProperties, AppendProperties
  <1>. QED  BY <1>1, <1>3, <1>4 DEF Parsed

\* The bytes w are what fs was written as, but behind a frame above the cap nothing is
\* ever found.
StuckAt(w, fs, cap) ==
    /\ w \in Seq(Byte)
    /\ \A x \in Seq(Byte) : FramesIn(w \o x, cap) = FramesIn(w, cap)
    /\ \E t \in Seq(Frame) : fs = FramesIn(w, cap) \o t
    /\ \E i \in DOMAIN fs : Len(fs[i].payload) > cap

\* What Frame::encode writes holds the frame, and nothing behind it.
LEMMA EncodeDecode ==
    ASSUME NEW f \in Frame, NEW e, e = Encode(f)
    PROVE  /\ e \in Seq(Byte)
           /\ Len(f.payload) \in Nat /\ Len(f.payload) <= MaxByte
           /\ LengthOf(e) = Len(f.payload)
           /\ Len(e) = HeaderSize + LengthOf(e)
           /\ Decode(e) = f
  <1>1. f.type \in Byte /\ f.payload \in UNION {[1 .. n -> Byte] : n \in 0 .. MaxByte}
        /\ f = [type |-> f.type, payload |-> f.payload]
    BY DEF Frame
  <1>2. PICK l \in 0 .. MaxByte : f.payload \in [1 .. l -> Byte]
    BY <1>1
  <1>3. PICK q \in Seq(Byte) : q = f.payload /\ Len(q) = l
    BY <1>2, SizesAssumption, LenProperties, SeqDef
  <1>4. PICK h : h = <<f.type, l>>
    OBVIOUS
  <1>5. h \in Seq(Byte) /\ Len(h) = 2 /\ h[1] = f.type /\ h[2] = l
    BY <1>1, <1>4, SizesAssumption DEF Byte
  <1>6. e = h \o q
    BY <1>3, <1>4 DEF Encode
  <1>7. /\ e \in Seq(Byte) /\ Len(e) = 2 + l
        /\ \A i \in 1 .. 2 : e[i] = h[i]
        /\ \A i \in 1 .. l : e[2 + i] = q[i]
    <2>1. h \in Seq(Byte)
      BY <1>5
    <2>2. /\ e \in Seq(Byte) /\ Len(e) = Len(h) + Len(q)
          /\ \A i \in 1 .. Len(h) : e[i] = h[i]
          /\ \A i \in 1 .. Len(q) : e[Len(h) + i] = q[i]
      BY <1>6, <2>1, ConcatElements
    <2>. QED  BY <1>3, <1>5, <2>2
  <1>8. l \in Nat /\ LengthOf(e) = l /\ e[1] = f.type
    BY <1>5, <1>7, SizesAssumption DEF LengthOf
  <1>9. SubSeq(e, 3, 2 + l) = q
    <2>1. \A i \in 3 .. 2 + l : e[i] \in Byte
      BY <1>7, <1>8, ElementOfSeq
    <2>2. /\ SubSeq(e, 3, 2 + l) \in Seq(Byte) /\ Len(SubSeq(e, 3, 2 + l)) = l
          /\ \A i \in 1 .. l : SubSeq(e, 3, 2 + l)[i] = e[2 + i]
      BY <1>8, <2>1, SubSeqProperties
    <2>. QED  BY <1>3, <1>7, <2>2, SeqEqual
  <1>10. Decode(e) = f
    BY <1>1, <1>3, <1>8, <1>9 DEF Decode, HeaderSize
  <1>. QED  BY <1>3, <1>7, <1>8, <1>10, SizesAssumption DEF HeaderSize

\* One more frame written.
LEMMA EncodeNext ==
    ASSUME NEW w, NEW fs, NEW cap, Parsed(w, fs, cap), NEW f \in Frame, cap \in Nat
    PROVE  \/ Parsed(w \o Encode(f), Append(fs, f), cap)
           \/ /\ StuckAt(w \o Encode(f), Append(fs, f), cap)
              /\ FramesIn(w \o Encode(f), cap) = FramesIn(w, cap)
  <1>0. w \in Seq(Byte) /\ fs \in Seq(Frame)
    BY DEF Parsed
  <1>1. PICK e : e = Encode(f)
    OBVIOUS
  <1>2. /\ e \in Seq(Byte) /\ Len(e) = HeaderSize + LengthOf(e) /\ LengthOf(e) \in Nat
        /\ LengthOf(e) = Len(f.payload) /\ Decode(e) = f
    BY <1>1, EncodeDecode
  <1>3. CASE LengthOf(e) <= cap
    <2>1. BeginsWithFrame(e, cap)
      BY <1>2, <1>3 DEF BeginsWithFrame, HeaderSize
    <2>2. BehindFrame(e) = <<>>
      <3>1. BehindFrame(e) \in Seq(Byte) /\ Len(BehindFrame(e)) = 0
        BY <1>2, <2>1, BehindFrameIs DEF HeaderSize
      <3>. QED  BY <3>1, EmptySeq
    <2>3. Parsed(w \o e, Append(fs, Decode(e)), cap)
      BY <1>2, <2>1, <2>2, ParsedNext
    <2>. QED  BY <1>1, <1>2, <2>3
  <1>4. CASE LengthOf(e) > cap
    <2>1. ASSUME NEW x \in Seq(Byte)
          PROVE  FramesIn((w \o e) \o x, cap) = fs
      <3>1. PICK y : y = e \o x
        OBVIOUS
      <3>2. /\ y \in Seq(Byte) /\ Len(e) >= 2 /\ \A i \in 1 .. Len(e) : y[i] = e[i]
        BY <1>2, <3>1, ConcatElements DEF HeaderSize
      <3>3. (w \o e) \o x = w \o y
        <4>1. w \in Seq(Byte) /\ e \in Seq(Byte)
          BY <1>0, <1>2
        <4>2. (w \o e) \o x = w \o (e \o x)
          BY <4>1, ConcatAssociative
        <4>. QED  BY <3>1, <4>2
      <3>4. ~BeginsWithFrame(y, cap)
        <4>1. LengthOf(y) = LengthOf(e)
          BY <1>2, <3>2 DEF LengthOf, HeaderSize
        <4>. QED  BY <1>2, <1>4, <4>1 DEF BeginsWithFrame
      <3>5. FramesIn(y, cap) = <<>>
        BY <3>2, <3>4, FramesUnfold
      <3>6. FramesIn(w \o y, cap) = fs \o FramesIn(y, cap)
        BY <3>2 DEF Parsed
      <3>. QED  BY <1>0, <3>3, <3>5, <3>6, ConcatEmptySeq
    <2>2. w \o e \in Seq(Byte) /\ (w \o e) \o <<>> = w \o e /\ <<>> \in Seq(Byte)
      BY <1>0, <1>2, ConcatProperties, ConcatEmptySeq, EmptySeq
    <2>3. FramesIn(w \o e, cap) = fs
      BY <2>1, <2>2
    <2>4. Append(fs, f) = fs \o <<f>> /\ <<f>> \in Seq(Frame)
      BY <1>0, AppendIsConcat
    <2>5. \E i \in DOMAIN Append(fs, f) : Len(Append(fs, f)[i].payload) > cap
      <3>1. PICK gs : gs = Append(fs, f)
        OBVIOUS
      <3>2. /\ gs \in Seq(Frame) /\ Len(gs) = Len(fs) + 1 /\ Len(fs) \in Nat
            /\ gs[Len(fs) + 1] = f /\ DOMAIN gs = 1 .. Len(gs)
        BY <1>0, <3>1, AppendProperties, LenProperties
      <3>3. Len(fs) + 1 \in DOMAIN gs /\ Len(gs[Len(fs) + 1].payload) > cap
        BY <1>2, <1>4, <3>2
      <3>. QED  BY <3>1, <3>3
    <2>6. FramesIn(w, cap) = fs
      BY ParsedFrames
    <2>. QED  BY <1>1, <2>1, <2>2, <2>3, <2>4, <2>5, <2>6, Zenon DEF StuckAt
  <1>. QED  BY <1>2, <1>3, <1>4

LEMMA StuckNext ==
    ASSUME NEW w, NEW fs \in Seq(Frame), NEW cap, StuckAt(w, fs, cap),
           NEW f \in Frame, NEW e \in Seq(Byte)
    PROVE  /\ StuckAt(w \o e, Append(fs, f), cap)
           /\ FramesIn(w \o e, cap) = FramesIn(w, cap)
  <1>0. w \in Seq(Byte) /\ w \o e \in Seq(Byte)
    BY ConcatProperties DEF StuckAt
  <1>1. FramesIn(w \o e, cap) = FramesIn(w, cap)
    BY DEF StuckAt
  <1>2. ASSUME NEW x \in Seq(Byte)
        PROVE  FramesIn((w \o e) \o x, cap) = FramesIn(w, cap)
    <2>1. (w \o e) \o x = w \o (e \o x) /\ e \o x \in Seq(Byte)
      BY <1>0, ConcatAssociative, ConcatProperties
    <2>2. PICK y \in Seq(Byte) : y = e \o x
      BY <2>1
    <2>3. FramesIn(w \o y, cap) = FramesIn(w, cap)
      BY DEF StuckAt
    <2>. QED  BY <2>1, <2>2, <2>3, Zenon
  <1>3. PICK gs : gs = Append(fs, f)
    OBVIOUS
  <1>4. \E t \in Seq(Frame) : gs = FramesIn(w, cap) \o t
    <2>1. PICK t \in Seq(Frame) : fs = FramesIn(w, cap) \o t
      BY DEF StuckAt
    <2>2. PICK ws \in Seq(Frame) : ws = FramesIn(w, cap)
      BY <1>0, FramesAreFrames
    <2>3. <<f>> \in Seq(Frame)
      OBVIOUS
    <2>4. t \o <<f>> \in Seq(Frame) /\ (ws \o t) \o <<f>> = ws \o (t \o <<f>>)
      BY <2>3, ConcatProperties, ConcatAssociative, SMTT(30)
    <2>5. gs = fs \o <<f>>
      BY <1>3, AppendIsConcat
    <2>. QED  BY <2>1, <2>2, <2>4, <2>5
  <1>5. \E i \in DOMAIN gs : Len(gs[i].payload) > cap
    <2>1. PICK i \in DOMAIN fs : Len(fs[i].payload) > cap
      BY DEF StuckAt
    <2>2. /\ gs \in Seq(Frame) /\ Len(gs) = Len(fs) + 1 /\ Len(fs) \in Nat
          /\ DOMAIN gs = 1 .. Len(gs) /\ DOMAIN fs = 1 .. Len(fs)
          /\ \A j \in 1 .. Len(fs) : gs[j] = fs[j]
      BY <1>3, AppendProperties, LenProperties
    <2>3. i \in DOMAIN gs /\ gs[i] = fs[i]
      BY <2>1, <2>2
    <2>. QED  BY <2>1, <2>3
  <1>. QED  BY <1>0, <1>1, <1>2, <1>3, <1>4, <1>5, Zenon DEF StuckAt

-----------------------------------------------------------------------------
(* The reader and what it has parsed.  The bytes on the wire are those of the *)
(* frames returned, those in the buffer, and those not yet read.              *)

ThreePieces(w, c, b, r) ==
    /\ c \in Seq(Byte) /\ b \in Seq(Byte) /\ r \in Seq(Byte)
    /\ w = c \o (b \o r)

WireSplit(c, r) ==
    /\ ThreePieces(wire, c, buf, r) /\ pos = Len(c) + Len(buf)
    /\ Parsed(c, frames, Cap)

ParseInv ==
    /\ \E c, r \in Seq(Byte) : WireSplit(c, r)
    /\ call = "none" => buf = <<>>

\* What the encoder has written is parsed as written, up to a frame above the cap.
EncoderInv ==
    peer = "encoder" => Parsed(wire, written, Cap) \/ StuckAt(wire, written, Cap)

LEMMA CapIsNat == Cap \in Nat /\ Cap <= MaxByte
  BY SizesAssumption DEF Cap

\* The frames on the wire: those returned, then those in the buffer and behind it.
LEMMA SplitFrames ==
    ASSUME ReaderInv, NEW c \in Seq(Byte), NEW r \in Seq(Byte), WireSplit(c, r)
    PROVE  FramesIn(wire, Cap) = frames \o FramesIn(buf \o r, Cap)
  <1>1. c \in Seq(Byte) /\ r \in Seq(Byte) /\ buf \in Seq(Byte) /\ wire = c \o (buf \o r)
        /\ Parsed(c, frames, Cap)
    BY DEF WireSplit, ThreePieces, ReaderInv, TypeOK
  <1>2. buf \o r \in Seq(Byte)
    BY <1>1, ConcatProperties
  <1>. QED  BY <1>1, <1>2 DEF Parsed

LEMMA FramesCancel ==
    \A s, t, u \in Seq(Frame) : s \o t = s \o u => t = u
  BY ConcatSimplifications

\* Bytes read move from those not yet read to the buffer.
LEMMA SplitTaken ==
    ASSUME NEW w, NEW c, NEW b, NEW r, ThreePieces(w, c, b, r), NEW n \in 1 .. Len(r),
           NEW p, p = Len(c) + Len(b)
    PROVE  LET piece == SubSeq(w, p + 1, p + n)
           IN  /\ \E q \in Seq(Byte) : ThreePieces(w, c, b \o piece, q)
               /\ Len(b \o piece) = Len(b) + n
  <1>. DEFINE piece == SubSeq(w, p + 1, p + n)
  <1>0. c \in Seq(Byte) /\ b \in Seq(Byte) /\ r \in Seq(Byte) /\ w = c \o (b \o r)
    BY DEF ThreePieces
  <1>1. PICK s \in Seq(Byte) : s = c \o b /\ Len(s) = p
    BY <1>0, ConcatProperties
  <1>2. w = s \o r
    <2>1. (c \o b) \o r = c \o (b \o r)
      BY <1>0, BytesAssociate, ZenonT(60)
    <2>. QED  BY <1>0, <1>1, <2>1
  <1>3. Len(r) \in Nat /\ Len(s) \in Nat /\ n \in Nat /\ n <= Len(r) /\ n >= 1
    BY <1>0, LenProperties
  <1>4. piece = SubSeq(r, 1, n)
    <2>1. PICK i, j : i = p + 1 /\ j = p + n
      OBVIOUS
    <2>2. /\ i \in Len(s) + 1 .. Len(s) + Len(r) /\ j \in Len(s) + 1 .. Len(s) + Len(r)
          /\ i - Len(s) = 1 /\ j - Len(s) = n
      BY <1>1, <1>3, <2>1
    <2>3. SubSeq(s \o r, i, j) = SubSeq(r, i - Len(s), j - Len(s))
      BY <1>0, <2>2, SubSeqOfConcat2
    <2>. QED  BY <1>2, <2>1, <2>2, <2>3
  <1>5. \A i \in 1 .. Len(r) : r[i] \in Byte
    BY <1>0, ElementOfSeq
  <1>. HIDE DEF piece
  <1>6. piece \in Seq(Byte) /\ Len(piece) = n
    <2>1. \A i \in 1 .. n : r[i] \in Byte
      BY <1>3, <1>5
    <2>. QED  BY <1>3, <1>4, <2>1, SubSeqProperties
  <1>7. PICK q \in Seq(Byte) : q = SubSeq(r, n + 1, Len(r))
    <2>1. \A i \in n + 1 .. Len(r) : r[i] \in Byte
      BY <1>3, <1>5
    <2>2. SubSeq(r, n + 1, Len(r)) \in Seq(Byte)
      BY <1>3, <2>1, SubSeqProperties
    <2>. QED  BY <2>2
  <1>8. r = piece \o q
    <2>1. 1 \in 1 .. Len(r) + 1 /\ n \in 1 - 1 .. Len(r) /\ Len(r) \in n .. Len(r)
      BY <1>3
    <2>2. SubSeq(r, 1, n) \o SubSeq(r, n + 1, Len(r)) = SubSeq(r, 1, Len(r))
      BY <1>0, <2>1, ConcatAdjacentSubSeq
    <2>3. SubSeq(r, 1, Len(r)) = r
      BY <1>0, SubSeqFull
    <2>. QED  BY <1>4, <1>7, <2>2, <2>3, Zenon
  <1>9. (b \o piece) \o q = b \o (piece \o q)
    <2>1. PICK t \in Seq(Byte) : t = piece
      BY <1>6
    <2>2. (b \o t) \o q = b \o (t \o q)
      BY <1>0, BytesAssociate, ZenonT(60)
    <2>. QED  BY <2>1, <2>2
  <1>10. b \o piece \in Seq(Byte) /\ Len(b \o piece) = Len(b) + Len(piece)
    <2>1. piece \in Seq(Byte)
      BY <1>6
    <2>. QED  BY <1>0, <2>1, ConcatProperties
  <1>11. ThreePieces(w, c, b \o piece, q)
    BY <1>0, <1>8, <1>9, <1>10, Zenon DEF ThreePieces
  <1>. QED  BY <1>6, <1>10, <1>11 DEF piece

LEMMA TakeBytes ==
    ASSUME ReaderInv, NEW c \in Seq(Byte), NEW r \in Seq(Byte), WireSplit(c, r),
           NEW n \in 1 .. Unread,
           buf' = buf \o SubSeq(wire, pos + 1, pos + n), pos' = pos + n,
           UNCHANGED <<wire, reader, frames>>
    PROVE  \E d, q \in Seq(Byte) : WireSplit(d, q)'
  <1>1. /\ wire = c \o (buf \o r) /\ pos = Len(c) + Len(buf) /\ Parsed(c, frames, Cap)
    BY DEF WireSplit, ThreePieces
  <1>2. PICK b \in Seq(Byte) : b = buf
    BY DEF ReaderInv, TypeOK
  <1>3. n \in 1 .. Len(r) /\ n \in Nat
    <2>1. PICK y \in Seq(Byte) : y = b \o r /\ Len(y) = Len(b) + Len(r)
      BY ConcatProperties
    <2>2. Len(c \o y) = Len(c) + Len(y)
      BY ConcatProperties
    <2>3. Len(wire) = pos + Len(r)
      BY <1>1, <1>2, <2>1, <2>2, LenProperties
    <2>4. Len(r) \in Nat /\ pos \in Nat
      BY <1>1, <1>2, LenProperties
    <2>. QED  BY <2>3, <2>4 DEF Unread
  <1>4. PICK piece : piece = SubSeq(wire, pos + 1, pos + n)
    OBVIOUS
  <1>5. /\ \E q \in Seq(Byte) : ThreePieces(wire, c, b \o piece, q)
        /\ Len(b \o piece) = Len(b) + n
    <2>1. ThreePieces(wire, c, b, r) /\ pos = Len(c) + Len(b)
      BY <1>1, <1>2 DEF ThreePieces
    <2>. QED  BY <1>3, <1>4, <2>1, SplitTaken
  <1>6. PICK q \in Seq(Byte) : ThreePieces(wire, c, b \o piece, q)
    BY <1>5
  <1>7. buf' = b \o piece /\ wire' = wire
    BY <1>2, <1>4
  <1>8. pos' = Len(c) + Len(buf')
    BY <1>1, <1>2, <1>3, <1>5, <1>7, LenProperties
  <1>9. Parsed(c, frames', Cap')
    BY <1>1 DEF Cap
  <1>10. WireSplit(c, q)'
    BY <1>6, <1>7, <1>8, <1>9, Zenon DEF WireSplit
  <1>. QED  BY <1>10

LEMMA SplitMoved ==
    ASSUME NEW w, NEW c, NEW b, NEW r, ThreePieces(w, c, b, r),
           NEW h \in Seq(Byte), NEW v \in Seq(Byte), b = h \o v
    PROVE  ThreePieces(w, c \o h, v, r)
  <1>1. c \in Seq(Byte) /\ r \in Seq(Byte) /\ w = c \o ((h \o v) \o r)
    BY DEF ThreePieces
  <1>2. PICK y \in Seq(Byte) : y = v \o r
    BY <1>1, ConcatProperties
  <1>3. (h \o v) \o r = h \o y
    <2>1. (h \o v) \o r = h \o (v \o r)
      BY <1>1, BytesAssociate, ZenonT(60)
    <2>. QED  BY <1>2, <2>1, Zenon
  <1>4. (c \o h) \o y = c \o (h \o y)
    BY <1>1, <1>2, BytesAssociate, ZenonT(60)
  <1>5. c \o h \in Seq(Byte)
    BY <1>1, ConcatProperties
  <1>. QED  BY <1>1, <1>2, <1>3, <1>4, <1>5 DEF ThreePieces

LEMMA TakeFrame ==
    ASSUME ReaderInv, NEW c \in Seq(Byte), NEW r \in Seq(Byte), WireSplit(c, r),
           BeginsWithFrame(buf, Cap),
           frames' = Append(frames, Decode(buf)), buf' = BehindFrame(buf),
           UNCHANGED <<wire, reader, pos>>
    PROVE  \E d, q \in Seq(Byte) : WireSplit(d, q)'
  <1>1. /\ wire = c \o (buf \o r) /\ pos = Len(c) + Len(buf) /\ Parsed(c, frames, Cap)
    BY DEF WireSplit, ThreePieces
  <1>2. PICK b \in Seq(Byte) : b = buf
    BY DEF ReaderInv, TypeOK
  <1>3. PICK h \in Seq(Byte) : /\ b = h \o BehindFrame(b)
                               /\ BeginsWithFrame(h, Cap)
                               /\ Decode(h) = Decode(b)
                               /\ BehindFrame(h) = <<>>
    BY <1>2, FrameCut
  <1>4. PICK v \in Seq(Byte) : v = BehindFrame(b)
    BY <1>2, BehindFrameIs
  <1>5. Parsed(c \o h, frames', Cap')
    <2>1. Parsed(c \o h, Append(frames, Decode(h)), Cap)
      BY <1>1, <1>3, ParsedNext
    <2>2. Cap' = Cap
      BY DEF Cap
    <2>. QED  BY <1>2, <1>3, <2>1, <2>2
  <1>6. PICK d \in Seq(Byte) : d = c \o h /\ Len(d) = Len(c) + Len(h)
    BY ConcatProperties
  <1>7. buf' = v /\ wire' = wire /\ pos' = pos
    BY <1>2, <1>4
  <1>8. ThreePieces(wire', d, v, r)
    <2>1. ThreePieces(wire, c, b, r) /\ b = h \o v
      BY <1>2, <1>3, <1>4 DEF WireSplit
    <2>2. ThreePieces(wire, c \o h, v, r)
      BY <2>1, SplitMoved
    <2>. QED  BY <1>6, <1>7, <2>2
  <1>9. pos' = Len(d) + Len(v)
    <2>1. Len(h \o v) = Len(h) + Len(v)
      BY ConcatProperties
    <2>2. Len(b) = Len(h) + Len(v)
      BY <1>3, <1>4, <2>1, Zenon
    <2>3. Len(c) \in Nat /\ Len(h) \in Nat /\ Len(v) \in Nat
      BY LenProperties
    <2>. QED  BY <1>1, <1>2, <1>6, <1>7, <2>2, <2>3
  <1>10. WireSplit(d, r)'
    BY <1>5, <1>6, <1>7, <1>8, <1>9 DEF WireSplit, ThreePieces
  <1>. QED  BY <1>10

LEMMA SplitExtended ==
    ASSUME NEW w, NEW c, NEW b, NEW r, ThreePieces(w, c, b, r), NEW e \in Seq(Byte)
    PROVE  ThreePieces(w \o e, c, b, r \o e)
  <1>0. c \in Seq(Byte) /\ b \in Seq(Byte) /\ r \in Seq(Byte) /\ w = c \o (b \o r)
    BY DEF ThreePieces
  <1>1. PICK y \in Seq(Byte) : y = b \o r
    BY <1>0, ConcatProperties
  <1>2. (c \o y) \o e = c \o (y \o e)
    BY <1>0, BytesAssociate, ZenonT(60)
  <1>3. (b \o r) \o e = b \o (r \o e)
    BY <1>0, BytesAssociate, ZenonT(60)
  <1>4. r \o e \in Seq(Byte)
    BY <1>0, ConcatProperties
  <1>5. w \o e = c \o (b \o (r \o e))
    BY <1>0, <1>1, <1>2, <1>3, Zenon
  <1>. QED  BY <1>0, <1>4, <1>5 DEF ThreePieces

\* What the peer adds to the wire is not yet read.
LEMMA PeerKeepsSplit ==
    ASSUME ReaderInv, NEW c \in Seq(Byte), NEW r \in Seq(Byte), WireSplit(c, r), Peer
    PROVE  \E d, q \in Seq(Byte) : WireSplit(d, q)'
  <1>1. UNCHANGED readerVars /\ Cap' = Cap
    BY DEF Peer, WriteFrame, WriteByte, CloseStream, readerVars, Cap
  <1>2. CASE UNCHANGED wire
    <2>1. WireSplit(c, r)'
      BY <1>1, <1>2, Zenon DEF WireSplit, readerVars
    <2>. QED  BY <2>1
  <1>3. CASE \E e \in Seq(Byte) : wire' = wire \o e
    <2>1. PICK e \in Seq(Byte) : wire' = wire \o e
      BY <1>3
    <2>2. PICK b \in Seq(Byte) : b = buf
      BY DEF ReaderInv, TypeOK
    <2>3. ThreePieces(wire, c, b, r)
      BY <2>2 DEF WireSplit
    <2>4. ThreePieces(wire \o e, c, b, r \o e)
      BY <2>3, SplitExtended
    <2>5. WireSplit(c, r \o e)'
      <3>1. buf' = b /\ pos' = pos /\ frames' = frames
        BY <1>1, <2>2 DEF readerVars
      <3>2. ThreePieces(wire', c, buf', r \o e)
        BY <2>1, <2>4, <3>1
      <3>. QED  BY <1>1, <2>2, <3>1, <3>2, Zenon DEF WireSplit
    <2>6. r \o e \in Seq(Byte)
      BY ConcatProperties
    <2>. QED  BY <2>5, <2>6
  <1>4. CASE WriteFrame
    <2>1. PICK f \in Letters : wire' = wire \o Encode(f)
      BY <1>4 DEF WriteFrame
    <2>2. Encode(f) \in Seq(Byte)
      BY EncodeIsBytes, LettersAssumption
    <2>. QED  BY <1>3, <2>1, <2>2
  <1>5. CASE WriteByte
    <2>1. PICK b \in Byte : wire' = Append(wire, b)
      BY <1>5 DEF WriteByte
    <2>2. wire' = wire \o <<b>>
      BY <2>1, AppendIsConcat DEF ReaderInv, TypeOK
    <2>3. <<b>> \in Seq(Byte)
      OBVIOUS
    <2>. QED  BY <1>3, <2>2, <2>3
  <1>6. CASE CloseStream
    BY <1>2, <1>6 DEF CloseStream
  <1>. QED  BY <1>4, <1>5, <1>6 DEF Peer

\* A Rust call that has read what it made room for, and the web client that holds a
\* frame, have a frame at the beginning of the buffer.
LEMMA FrameInBuffer ==
    ASSUME ReaderInv, ReturnFrame \/ NextFromBuffer
    PROVE  /\ BeginsWithFrame(buf, Cap)
           /\ frames' = Append(frames, Decode(buf)) /\ buf' = BehindFrame(buf)
           /\ UNCHANGED <<peerVars, reader, pos, outcome>> /\ outcome = "reading"
  <1>0. buf \in Seq(Byte) /\ Len(buf) \in Nat
    BY LenProperties DEF ReaderInv, TypeOK
  <1>1. CASE ReturnFrame
    <2>1. /\ call \in {"full", "opt"} /\ phase = "payload" /\ Len(buf) = room
          /\ frames' = Append(frames, Decode(buf)) /\ buf' = <<>>
          /\ UNCHANGED <<peerVars, reader, pos, outcome>> /\ outcome = "reading"
      BY <1>1 DEF ReturnFrame, InCall, Reading
    <2>2. reader = "rust"
      BY <2>1 DEF ReaderInv, TypeOK, BufferInv
    <2>3. Len(buf) >= HeaderSize /\ Len(buf) = HeaderSize + LengthOf(buf)
      BY <2>1 DEF ReaderInv, BufferInv
    <2>4. LengthOf(buf) \in Nat
      BY <1>0, <2>3, LengthIsNat
    <2>5. LengthOf(buf) <= MaxLength
      BY <1>0, <2>1, <2>2, <2>3, <2>4, SizesAssumption
         DEF ReaderInv, AllocationCapped, HeaderSize
    <2>6. BeginsWithFrame(buf, Cap)
      BY <1>0, <2>2, <2>3, <2>5 DEF BeginsWithFrame, Cap
    <2>7. BehindFrame(buf) = <<>>
      <3>1. BehindFrame(buf) \in Seq(Byte) /\ Len(BehindFrame(buf)) = 0
        BY <1>0, <2>3, <2>6, BehindFrameIs
      <3>. QED  BY <3>1, EmptySeq
    <2>. QED  BY <2>1, <2>6, <2>7
  <1>2. CASE NextFromBuffer
    <2>1. /\ call = "web" /\ HoldsFrame
          /\ frames' = Append(frames, Decode(buf)) /\ buf' = BehindFrame(buf)
          /\ UNCHANGED <<peerVars, reader, pos, outcome>> /\ outcome = "reading"
      BY <1>2 DEF NextFromBuffer, AtWeb, Reading
    <2>2. reader = "web" /\ Cap = MaxByte
      BY <2>1 DEF ReaderInv, BufferInv, Cap
    <2>3. LengthOf(buf) \in 0 .. MaxByte
      BY <1>0, <2>1, LengthIsNat DEF HoldsFrame
    <2>. QED  BY <2>1, <2>2, <2>3 DEF BeginsWithFrame, HoldsFrame
  <1>. QED  BY <1>1, <1>2

LEMMA ParseInit == Init => ParseInv
  <1>. SUFFICES ASSUME Init PROVE ParseInv
    OBVIOUS
  <1>1. Parsed(<<>>, <<>>, Cap)
    BY ParsedNothing
  <1>2. <<>> \in Seq(Byte) /\ <<>> \o (<<>> \o <<>>) = <<>> /\ Len(<<>>) = 0
    BY EmptySeq, ConcatEmptySeq
  <1>3. wire = <<>> /\ buf = <<>> /\ pos = 0 /\ frames = <<>>
    BY DEF Init
  <1>4. WireSplit(<<>>, <<>>)
    BY <1>1, <1>2, <1>3 DEF WireSplit, ThreePieces
  <1>. QED  BY <1>2, <1>3, <1>4 DEF ParseInv

LEMMA NextKeepsParse == ReaderInv /\ ParseInv /\ [Next]_vars => ParseInv'
  <1>. SUFFICES ASSUME ReaderInv, ParseInv, [Next]_vars PROVE ParseInv'
    OBVIOUS
  <1>0. PICK c \in Seq(Byte), r \in Seq(Byte) : WireSplit(c, r)
    BY DEF ParseInv
  <1>1. CASE Peer
    <2>1. UNCHANGED readerVars
      BY <1>1 DEF Peer, WriteFrame, WriteByte, CloseStream
    <2>2. \E d, q \in Seq(Byte) : WireSplit(d, q)'
      BY <1>0, <1>1, PeerKeepsSplit
    <2>. QED  BY <2>1, <2>2 DEF ParseInv, readerVars
  <1>2. CASE ReturnFrame \/ NextFromBuffer
    <2>1. /\ BeginsWithFrame(buf, Cap)
          /\ frames' = Append(frames, Decode(buf)) /\ buf' = BehindFrame(buf)
          /\ UNCHANGED <<wire, reader, pos>>
      BY <1>2, FrameInBuffer DEF peerVars
    <2>2. \E d, q \in Seq(Byte) : WireSplit(d, q)'
      BY <1>0, <2>1, TakeFrame
    <2>3. call' = "none" => buf' = <<>>
      BY <1>2 DEF ReturnFrame, NextFromBuffer, AtWeb
    <2>. QED  BY <2>2, <2>3 DEF ParseInv
  <1>3. CASE Fill \/ Accumulate
    <2>1. PICK n \in 1 .. Unread : buf' = buf \o SubSeq(wire, pos + 1, pos + n) /\ pos' = pos + n
      BY <1>3 DEF Fill, Accumulate
    <2>2. UNCHANGED <<wire, reader, frames>> /\ call' # "none"
      BY <1>3 DEF Fill, Accumulate, InCall, AtWeb, peerVars
    <2>3. \E d, q \in Seq(Byte) : WireSplit(d, q)'
      BY <1>0, <2>1, <2>2, TakeBytes
    <2>. QED  BY <2>2, <2>3 DEF ParseInv
  <1>4. CASE \/ CallReader \/ TakeHeader \/ RejectOversized \/ NoMoreFrames
             \/ NoMoreChunks \/ ReadFails \/ UNCHANGED vars
    <2>1. UNCHANGED <<wire, reader, frames, pos>>
      BY <1>4 DEF CallReader, TakeHeader, RejectOversized, NoMoreFrames, NoMoreChunks, ReadFails,
                  vars, peerVars, readerVars
    <2>2. buf' = buf /\ (call' = "none" => buf = <<>>)
      BY <1>4 DEF CallReader, TakeHeader, RejectOversized, NoMoreFrames, NoMoreChunks, ReadFails,
                  vars, readerVars, ParseInv
    <2>3. Cap' = Cap
      BY <2>1 DEF Cap
    <2>4. WireSplit(c, r)'
      BY <1>0, <2>1, <2>2, <2>3, Zenon DEF WireSplit
    <2>. QED  BY <2>2, <2>4 DEF ParseInv
  <1>. QED
    BY <1>1, <1>2, <1>3, <1>4 DEF Next, Reader, RustReader, WebReader

LEMMA WrittenAreFrames == ReaderInv => written \in Seq(Frame)
  BY SeqMonotonic, LettersAssumption DEF ReaderInv, TypeOK

\* A step of the encoder, in terms of the frames on the wire.
LEMMA WriteFrameStep ==
    ASSUME ReaderInv, EncoderInv, WriteFrame
    PROVE  /\ EncoderInv'
           /\ \/ FramesIn(wire', Cap') = FramesIn(wire, Cap)
              \/ \E f \in Frame : FramesIn(wire', Cap') = Append(FramesIn(wire, Cap), f)
  <1>1. PICK f \in Letters : wire' = wire \o Encode(f) /\ written' = Append(written, f)
    BY DEF WriteFrame
  <1>2. f \in Frame /\ written \in Seq(Frame) /\ Encode(f) \in Seq(Byte)
    BY LettersAssumption, WrittenAreFrames, EncodeIsBytes
  <1>3. Cap' = Cap /\ Cap \in Nat /\ peer = "encoder" /\ peer' = peer
    BY CapIsNat DEF WriteFrame, readerVars, Cap
  <1>4. CASE Parsed(wire, written, Cap)
    <2>1. \/ Parsed(wire', written', Cap)
          \/ /\ StuckAt(wire', written', Cap)
             /\ FramesIn(wire', Cap) = FramesIn(wire, Cap)
      BY <1>1, <1>2, <1>3, <1>4, EncodeNext
    <2>2. FramesIn(wire, Cap) = written
      BY <1>4, ParsedFrames
    <2>3. Parsed(wire', written', Cap) => FramesIn(wire', Cap) = Append(FramesIn(wire, Cap), f)
      BY <1>1, <2>2, ParsedFrames
    <2>. QED  BY <1>2, <1>3, <2>1, <2>3 DEF EncoderInv
  <1>5. CASE StuckAt(wire, written, Cap)
    <2>1. /\ StuckAt(wire', written', Cap)
          /\ FramesIn(wire', Cap) = FramesIn(wire, Cap)
      BY <1>1, <1>2, <1>5, StuckNext
    <2>. QED  BY <1>3, <2>1 DEF EncoderInv
  <1>. QED  BY <1>3, <1>4, <1>5 DEF EncoderInv

LEMMA WriteByteStep ==
    ASSUME ReaderInv, WriteByte
    PROVE  \/ FramesIn(wire', Cap') = FramesIn(wire, Cap)
           \/ \E f \in Frame : FramesIn(wire', Cap') = Append(FramesIn(wire, Cap), f)
  <1>1. PICK b \in Byte : wire' = Append(wire, b)
    BY DEF WriteByte
  <1>2. Cap' = Cap
    BY DEF WriteByte, readerVars, Cap
  <1>3. PICK w \in Seq(Byte) : w = wire /\ wire' = w \o <<b>>
    BY <1>1, AppendIsConcat DEF ReaderInv, TypeOK
  <1>4. PICK ws \in Seq(Frame) : ws = FramesIn(w, Cap)
    BY FramesAreFrames
  <1>5. \/ FramesIn(w \o <<b>>, Cap) = ws
        \/ \E f \in Frame : FramesIn(w \o <<b>>, Cap) = ws \o <<f>>
    BY <1>4, OneMoreByte
  <1>6. \A f \in Frame : ws \o <<f>> = Append(ws, f)
    BY AppendIsConcat
  <1>. QED  BY <1>2, <1>3, <1>4, <1>5, <1>6

LEMMA EncoderInit == Init => EncoderInv
  <1>1. Parsed(<<>>, <<>>, Cap)
    BY ParsedNothing
  <1>. QED  BY <1>1 DEF Init, EncoderInv

LEMMA NextKeepsEncoder == ReaderInv /\ EncoderInv /\ [Next]_vars => EncoderInv'
  <1>. SUFFICES ASSUME ReaderInv, EncoderInv, [Next]_vars PROVE EncoderInv'
    OBVIOUS
  <1>1. CASE WriteFrame
    BY <1>1, WriteFrameStep
  <1>2. CASE WriteByte
    BY <1>2 DEF WriteByte, EncoderInv
  <1>3. CASE CloseStream \/ Reader \/ UNCHANGED vars
    <2>1. UNCHANGED <<peer, wire, written, reader>>
      BY <1>3 DEF CloseStream, Reader, RustReader, WebReader, CallReader, Fill, RejectOversized,
                  TakeHeader, ReturnFrame, NoMoreFrames, NextFromBuffer, Accumulate, NoMoreChunks,
                  ReadFails, vars, peerVars, readerVars
    <2>. QED  BY <2>1 DEF EncoderInv, Cap
  <1>. QED  BY <1>1, <1>2, <1>3 DEF Next, Peer

-----------------------------------------------------------------------------
(* The reader implements the queue of frames. *)

QueueInv == ReaderInv /\ ParseInv /\ EncoderInv

LEMMA QueueInvInit == Init => QueueInv
  BY ReaderInvInit, ParseInit, EncoderInit DEF QueueInv

LEMMA NextKeepsQueue == QueueInv /\ [Next]_vars => QueueInv'
  BY NextKeepsInv, NextKeepsParse, NextKeepsEncoder DEF QueueInv

\* When every byte is read, what is not returned is in the buffer.
LEMMA AllRead ==
    ASSUME QueueInv, Unread = 0
    PROVE  /\ FramesIn(wire, Cap) = frames \o FramesIn(buf, Cap)
           /\ \A x \in Seq(Byte) : FramesIn(wire \o x, Cap) = frames \o FramesIn(buf \o x, Cap)
  <1>1. PICK c \in Seq(Byte), r \in Seq(Byte) : WireSplit(c, r)
    BY DEF QueueInv, ParseInv
  <1>2. PICK b \in Seq(Byte) : b = buf
    BY DEF QueueInv, ReaderInv, TypeOK
  <1>3. wire = c \o (b \o r) /\ pos = Len(c) + Len(b) /\ Parsed(c, frames, Cap)
    BY <1>1, <1>2 DEF WireSplit, ThreePieces
  <1>4. r = <<>>
    <2>1. PICK y \in Seq(Byte) : y = b \o r /\ Len(y) = Len(b) + Len(r)
      BY ConcatProperties
    <2>2. Len(c \o y) = Len(c) + Len(y)
      BY ConcatProperties
    <2>3. Len(wire) = Len(c) + (Len(b) + Len(r))
      BY <1>3, <2>1, <2>2
    <2>4. Len(c) \in Nat /\ Len(b) \in Nat /\ Len(r) \in Nat
      BY LenProperties
    <2>5. Len(r) = 0
      BY <1>3, <2>3, <2>4 DEF Unread
    <2>. QED  BY <2>5, EmptySeq
  <1>5. wire = c \o b
    BY <1>3, <1>4, ConcatEmptySeq
  <1>6. FramesIn(wire, Cap) = frames \o FramesIn(buf, Cap)
    BY <1>2, <1>3, <1>5 DEF Parsed
  <1>7. ASSUME NEW x \in Seq(Byte)
        PROVE  FramesIn(wire \o x, Cap) = frames \o FramesIn(buf \o x, Cap)
    <2>1. (c \o b) \o x = c \o (b \o x)
      BY BytesAssociate, ZenonT(60)
    <2>2. PICK y \in Seq(Byte) : y = b \o x
      BY ConcatProperties
    <2>3. FramesIn(c \o y, Cap) = frames \o FramesIn(y, Cap)
      BY <1>3 DEF Parsed
    <2>. QED  BY <1>2, <1>5, <2>1, <2>2, <2>3, Zenon
  <1>. QED  BY <1>6, <1>7

\* An end is said when everything the wire holds has been returned.
LEMMA EndStep ==
    ASSUME QueueInv, NoMoreFrames \/ NoMoreChunks, outcome' = "ended"
    PROVE  frames = FramesIn(wire, Cap) /\ ending = "finished"
  <1>0. frames \in Seq(Frame) /\ buf \in Seq(Byte)
    BY DEF QueueInv, ReaderInv, TypeOK
  <1>1. Unread = 0 /\ ending = "finished"
    BY DEF NoMoreFrames, NoMoreChunks, Drained
  <1>2. ~BeginsWithFrame(buf, Cap)
    <2>1. CASE NoMoreFrames
      <3>1. buf = <<>>
        BY <2>1 DEF NoMoreFrames
      <3>. QED  BY <3>1 DEF BeginsWithFrame, HeaderSize
    <2>2. CASE NoMoreChunks
      BY <2>2 DEF NoMoreChunks, HoldsFrame, BeginsWithFrame
    <2>. QED  BY <2>1, <2>2
  <1>3. FramesIn(buf, Cap) = <<>>
    BY <1>0, <1>2, FramesUnfold
  <1>. QED  BY <1>0, <1>1, <1>3, AllRead, ConcatEmptySeq

LEMMA DeliverStep ==
    ASSUME QueueInv, ReturnFrame \/ NextFromBuffer
    PROVE  /\ Len(frames) < Len(FramesIn(wire, Cap))
           /\ frames' = Append(frames, FramesIn(wire, Cap)[Len(frames) + 1])
  <1>1. PICK c \in Seq(Byte), r \in Seq(Byte) : WireSplit(c, r)
    BY DEF QueueInv, ParseInv
  <1>2. PICK b \in Seq(Byte) : b = buf
    BY DEF QueueInv, ReaderInv, TypeOK
  <1>3. FramesIn(wire, Cap) = frames \o FramesIn(b \o r, Cap)
    BY <1>1, <1>2, SplitFrames DEF QueueInv
  <1>4. BeginsWithFrame(b, Cap) /\ frames' = Append(frames, Decode(b))
    BY <1>2, FrameInBuffer DEF QueueInv
  <1>5. PICK v \in Seq(Byte) : v = BehindFrame(b) \o r
    BY <1>4, BehindFrameIs, ConcatProperties
  <1>6. FramesIn(b \o r, Cap) = <<Decode(b)>> \o FramesIn(v, Cap)
    BY <1>4, <1>5, FrameThenRest
  <1>7. PICK t \in Seq(Frame) : t = FramesIn(v, Cap)
    BY FramesAreFrames
  <1>8. PICK d \in Frame : d = Decode(b)
    BY <1>4, DecodeIsFrame DEF BeginsWithFrame
  <1>9. PICK g : g = <<d>> \o t
    OBVIOUS
  <1>10. g \in Seq(Frame) /\ Len(g) >= 1 /\ g[1] = d
    <2>1. <<d>> \in Seq(Frame) /\ Len(<<d>>) = 1 /\ <<d>>[1] = d
      OBVIOUS
    <2>. QED  BY <1>9, <2>1, ConcatElements
  <1>11. PICK fs \in Seq(Frame) : fs = frames
    BY DEF QueueInv, ReaderInv, TypeOK
  <1>12. FramesIn(wire, Cap) = fs \o g
    BY <1>3, <1>6, <1>7, <1>8, <1>9, <1>11, Zenon
  <1>13. PICK ws : ws = fs \o g
    OBVIOUS
  <1>14. /\ Len(ws) = Len(fs) + Len(g) /\ Len(fs) \in Nat /\ Len(g) \in Nat
         /\ ws[Len(fs) + 1] = g[1]
    <2>1. g \in Seq(Frame)
      BY <1>10
    <2>2. /\ Len(ws) = Len(fs) + Len(g) /\ Len(fs) \in Nat /\ Len(g) \in Nat
          /\ \A i \in 1 .. Len(g) : ws[Len(fs) + i] = g[i]
      BY <1>13, <2>1, ConcatElements
    <2>3. 1 \in 1 .. Len(g)
      BY <1>10, <2>2
    <2>. QED  BY <2>2, <2>3
  <1>. QED  BY <1>4, <1>8, <1>10, <1>11, <1>12, <1>13, <1>14

\* Every step of FrameReader is a step of FrameQueue, or none.
LEMMA QueueStep ==
    ASSUME QueueInv, [Next]_vars
    PROVE  [Queue!Next]_(Queue!queueVars)
  <1>. USE DEF Queue!queueVars
  <1>0. Reader \/ UNCHANGED vars => UNCHANGED <<wire, reader, ending>>
    BY DEF Reader, RustReader, WebReader, CallReader, Fill, RejectOversized, TakeHeader,
           ReturnFrame, NoMoreFrames, NextFromBuffer, Accumulate, NoMoreChunks, ReadFails,
           vars, peerVars, readerVars
  <1>1. CASE WriteFrame \/ WriteByte
    <2>1. \/ FramesIn(wire', Cap') = FramesIn(wire, Cap)
          \/ \E f \in Frame : FramesIn(wire', Cap') = Append(FramesIn(wire, Cap), f)
      BY <1>1, WriteFrameStep, WriteByteStep DEF QueueInv
    <2>2. ending = "open" /\ UNCHANGED <<ending, frames, outcome>>
      BY <1>1 DEF WriteFrame, WriteByte, readerVars
    <2>. QED  BY <2>1, <2>2 DEF Queue!Next, Queue!Send
  <1>2. CASE CloseStream
    BY <1>2 DEF CloseStream, readerVars, Cap, Queue!Next, Queue!Close
  <1>3. CASE ReturnFrame \/ NextFromBuffer
    <2>1. /\ Len(frames) < Len(FramesIn(wire, Cap))
          /\ frames' = Append(frames, FramesIn(wire, Cap)[Len(frames) + 1])
      BY <1>3, DeliverStep
    <2>2. UNCHANGED <<wire, reader, ending, outcome>> /\ outcome = "reading"
      BY <1>3, FrameInBuffer DEF QueueInv, peerVars
    <2>3. FramesIn(wire', Cap') = FramesIn(wire, Cap)
      BY <2>2 DEF Cap
    <2>. QED  BY <2>1, <2>2, <2>3 DEF Queue!Next, Queue!Deliver
  <1>4. CASE NoMoreFrames \/ NoMoreChunks
    <2>1. UNCHANGED <<wire, reader, ending, frames>> /\ outcome = "reading"
      BY <1>4 DEF NoMoreFrames, NoMoreChunks, InCall, AtWeb, Reading, peerVars
    <2>2. FramesIn(wire', Cap') = FramesIn(wire, Cap)
      BY <2>1 DEF Cap
    <2>3. CASE outcome' = "ended"
      <3>1. frames = FramesIn(wire, Cap) /\ ending = "finished"
        BY <1>4, <2>3, EndStep
      <3>. QED  BY <2>1, <2>2, <2>3, <3>1 DEF Queue!Next, Queue!End
    <2>4. CASE outcome' = "failed"
      BY <2>1, <2>2, <2>4 DEF Queue!Next, Queue!Fail
    <2>5. outcome' \in {"ended", "failed"}
      BY <1>4 DEF NoMoreFrames, NoMoreChunks
    <2>. QED  BY <2>3, <2>4, <2>5
  <1>5. CASE RejectOversized \/ ReadFails
    <2>1. UNCHANGED <<wire, reader, ending, frames>> /\ outcome = "reading" /\ outcome' = "failed"
      BY <1>5 DEF RejectOversized, ReadFails, HeaderRead, InCall, AtWeb, Reading, peerVars
    <2>2. FramesIn(wire', Cap') = FramesIn(wire, Cap)
      BY <2>1 DEF Cap
    <2>. QED  BY <2>1, <2>2 DEF Queue!Next, Queue!Fail
  <1>6. CASE CallReader \/ Fill \/ TakeHeader \/ Accumulate \/ UNCHANGED vars
    <2>1. UNCHANGED <<wire, reader, ending, frames, outcome>>
      BY <1>6 DEF CallReader, Fill, TakeHeader, Accumulate, vars, peerVars, readerVars
    <2>2. FramesIn(wire', Cap') = FramesIn(wire, Cap)
      BY <2>1 DEF Cap
    <2>. QED  BY <2>1, <2>2
  <1>. QED
    BY <1>1, <1>2, <1>3, <1>4, <1>5, <1>6 DEF Next, Peer, Reader, RustReader, WebReader

\* However the bytes are written and cut up, and whatever calls are mixed, the readers give
\* the frames the bytes hold, in order, each once, and say an end only after the last one:
\* FrameReader implements FrameQueue.
THEOREM ReaderImplementsQueue == Spec => ImplementsQueue
  <1>1. Init => Queue!Init
    BY FramesOfNothing DEF Init, Queue!Init
  <1>2. QueueInv /\ [Next]_vars => [Queue!Next]_(Queue!queueVars)
    BY QueueStep
  <1>. QED
    BY <1>1, <1>2, QueueInvInit, NextKeepsQueue, PTL DEF Spec, ImplementsQueue, Queue!Spec

-----------------------------------------------------------------------------
(* What an encoder writes is what the reader gives. *)

AboveCap == \E i \in DOMAIN written : Len(written[i].payload) > MaxLength

\* What remains true once the reader has come to its end, for the peer may go on writing
\* after a failure.
OutcomeInv ==
    /\ outcome = "ended" => ending # "open" /\ frames = FramesIn(wire, Cap)
    /\ reader = "rust" /\ outcome = "ended" => buf = <<>>
    /\ outcome = "ended" => Unread = 0
    /\ peer = "encoder" /\ outcome = "failed" =>
         \/ ending = "reset"
         \/ AboveCap
         \/ call = "full" /\ frames = written /\ ending = "finished"

\* A stream of whole frames does not end inside one.
LEMMA NoPartOfFrame ==
    ASSUME NEW b \in Seq(Byte), b # <<>>, NEW cap, NEW x \in Seq(Byte),
           BeginsWithFrame(b \o x, cap), Len(b \o x) = HeaderSize + LengthOf(b \o x),
           FramesIn(b \o x, cap) = FramesIn(x, cap)
    PROVE  FALSE
  <1>1. PICK y \in Seq(Byte) : y = b \o x
    BY ConcatProperties
  <1>2. Len(y) = Len(b) + Len(x) /\ Len(b) \in Nat \ {0} /\ Len(x) \in Nat
    BY <1>1, ConcatProperties, LenProperties, EmptySeq
  <1>3. FramesIn(y, cap) = <<Decode(y)>> \o FramesIn(BehindFrame(y), cap)
    BY <1>1, FramesUnfold
  <1>4. PICK t \in Seq(Frame), d \in Frame : d = Decode(y) /\ FramesIn(y, cap) = <<d>> \o t
    <2>1. BehindFrame(y) \in Seq(Byte)
      BY <1>1, BehindFrameIs
    <2>2. FramesIn(BehindFrame(y), cap) \in Seq(Frame)
      BY <2>1, FramesAreFrames
    <2>3. Decode(y) \in Frame
      BY <1>1, DecodeIsFrame DEF BeginsWithFrame
    <2>. QED  BY <1>3, <2>2, <2>3
  <1>5. Len(<<d>> \o t) >= 1 /\ (<<d>> \o t)[1] = d
    <2>1. <<d>> \in Seq(Frame) /\ Len(<<d>>) = 1 /\ <<d>>[1] = d
      OBVIOUS
    <2>. QED  BY <2>1, ConcatElements
  <1>6. BeginsWithFrame(x, cap)
    <2>1. FramesIn(x, cap) = <<d>> \o t
      BY <1>1, <1>4
    <2>2. ~BeginsWithFrame(x, cap) => FramesIn(x, cap) = <<>>
      BY FramesUnfold
    <2>3. Len(<<>>) = 0
      BY EmptySeq
    <2>. QED  BY <1>5, <2>1, <2>2, <2>3
  <1>7. PICK u \in Seq(Frame), e \in Frame : e = Decode(x) /\ FramesIn(x, cap) = <<e>> \o u
    <2>1. FramesIn(x, cap) = <<Decode(x)>> \o FramesIn(BehindFrame(x), cap)
      BY <1>6, FramesUnfold
    <2>2. BehindFrame(x) \in Seq(Byte)
      BY <1>6, BehindFrameIs
    <2>3. FramesIn(BehindFrame(x), cap) \in Seq(Frame)
      BY <2>2, FramesAreFrames
    <2>4. Decode(x) \in Frame
      BY <1>6, DecodeIsFrame DEF BeginsWithFrame
    <2>. QED  BY <2>1, <2>3, <2>4
  <1>8. (<<e>> \o u)[1] = e
    <2>1. <<e>> \in Seq(Frame) /\ Len(<<e>>) = 1 /\ <<e>>[1] = e
      OBVIOUS
    <2>. QED  BY <2>1, ConcatElements
  <1>9. Decode(x) = Decode(y)
    BY <1>1, <1>4, <1>5, <1>7, <1>8
  <1>10. Len(Decode(x).payload) = LengthOf(x)
    BY <1>6, DecodedLength
  <1>11. Len(Decode(y).payload) = LengthOf(y)
    BY <1>1, DecodedLength
  <1>12. LengthOf(x) \in Nat /\ Len(x) >= HeaderSize + LengthOf(x)
    BY <1>6, LengthIsNat DEF BeginsWithFrame
  <1>. QED  BY <1>1, <1>2, <1>9, <1>10, <1>11, <1>12 DEF HeaderSize

\* Behind whole frames another frame can be written.
LEMMA ParsedGoesOn ==
    ASSUME NEW w, NEW fs, NEW cap \in Nat, Parsed(w, fs, cap),
           \A x \in Seq(Byte) : FramesIn(w \o x, cap) = fs
    PROVE  FALSE
  <1>1. PICK x \in Seq(Byte) : Len(x) = 2 /\ x[2] = 0
    <2>1. 0 \in Byte
      BY SizesAssumption DEF Byte
    <2>2. <<0, 0>> \in Seq(Byte) /\ Len(<<0, 0>>) = 2 /\ <<0, 0>>[2] = 0
      BY <2>1
    <2>. QED  BY <2>2
  <1>2. BeginsWithFrame(x, cap)
    BY <1>1 DEF BeginsWithFrame, LengthOf, HeaderSize
  <1>3. PICK t \in Seq(Frame), d \in Frame : FramesIn(x, cap) = <<d>> \o t
    <2>1. FramesIn(x, cap) = <<Decode(x)>> \o FramesIn(BehindFrame(x), cap)
      BY <1>2, FramesUnfold
    <2>2. BehindFrame(x) \in Seq(Byte)
      BY <1>2, BehindFrameIs
    <2>3. FramesIn(BehindFrame(x), cap) \in Seq(Frame)
      BY <2>2, FramesAreFrames
    <2>4. Decode(x) \in Frame
      BY <1>2, DecodeIsFrame DEF BeginsWithFrame
    <2>. QED  BY <2>1, <2>3, <2>4
  <1>4. PICK g : g = <<d>> \o t
    OBVIOUS
  <1>4a. g \in Seq(Frame) /\ Len(g) >= 1
    <2>1. <<d>> \in Seq(Frame) /\ Len(<<d>>) = 1
      OBVIOUS
    <2>. QED  BY <1>4, <2>1, ConcatElements
  <1>5. fs \in Seq(Frame) /\ FramesIn(w \o x, cap) = fs \o g
    BY <1>1, <1>3, <1>4 DEF Parsed
  <1>6. fs \o g = fs
    BY <1>1, <1>5
  <1>7. g = <<>>
    BY <1>4a, <1>5, <1>6, ConcatEqualIffEmpty
  <1>. QED  BY <1>4a, <1>7, EmptySeq

\* A length above the cap has been written by the peer, not made up by the reader.
LEMMA RejectStep ==
    ASSUME QueueInv, RejectOversized, peer = "encoder"
    PROVE  AboveCap
  <1>1. PICK c \in Seq(Byte), r \in Seq(Byte) : WireSplit(c, r)
    BY DEF QueueInv, ParseInv
  <1>2. PICK b \in Seq(Byte) : b = buf
    BY DEF QueueInv, ReaderInv, TypeOK
  <1>2a. Len(b) = 2 /\ LengthOf(b) > MaxLength /\ LengthOf(b) \in Nat /\ MaxLength \in Nat
    <2>1. Len(b) = 2 /\ LengthOf(b) > MaxLength
      BY <1>2 DEF RejectOversized, HeaderRead, InCall, QueueInv, ReaderInv, BufferInv, HeaderSize
    <2>2. Len(b) >= HeaderSize
      BY <2>1 DEF HeaderSize
    <2>3. LengthOf(b) \in Nat
      BY <2>2, LengthIsNat
    <2>. QED  BY <2>1, <2>3, SizesAssumption
  <1>3. reader = "rust" /\ Cap = MaxLength /\ Cap \in Nat
    BY CapIsNat DEF RejectOversized, HeaderRead, InCall, QueueInv, ReaderInv, TypeOK, BufferInv, Cap
  <1>4. ASSUME NEW x \in Seq(Byte)
        PROVE  FramesIn(wire \o x, Cap) = frames
    <2>1. ThreePieces(wire, c, b, r) /\ Parsed(c, frames, Cap)
      BY <1>1, <1>2 DEF WireSplit
    <2>2. ThreePieces(wire \o x, c, b, r \o x)
      BY <2>1, SplitExtended
    <2>3. r \o x \in Seq(Byte) /\ wire \o x = c \o (b \o (r \o x))
      BY <2>2 DEF ThreePieces
    <2>4. PICK y : y = b \o (r \o x)
      OBVIOUS
    <2>5. y \in Seq(Byte) /\ \A i \in 1 .. Len(b) : y[i] = b[i]
      BY <2>3, <2>4, ConcatElements
    <2>6. FramesIn(c \o y, Cap) = frames \o FramesIn(y, Cap) /\ frames \in Seq(Frame)
      BY <2>1, <2>5 DEF Parsed
    <2>7. FramesIn(y, Cap) = <<>>
      <3>1. 2 \in 1 .. Len(b)
        BY <1>2a
      <3>2. LengthOf(y) = LengthOf(b)
        BY <2>5, <3>1 DEF LengthOf
      <3>3. ~BeginsWithFrame(y, Cap)
        BY <1>2a, <1>3, <3>2 DEF BeginsWithFrame
      <3>. QED  BY <2>5, <3>3, FramesUnfold
    <2>. QED  BY <2>3, <2>4, <2>6, <2>7, ConcatEmptySeq
  <1>5. CASE Parsed(wire, written, Cap)
    <2>1. written = frames
      <3>1. <<>> \in Seq(Byte) /\ wire \o <<>> = wire
        BY EmptySeq, ConcatEmptySeq DEF QueueInv, ReaderInv, TypeOK
      <3>2. FramesIn(wire, Cap) = frames
        BY <1>4, <3>1
      <3>. QED  BY <1>5, <3>2, ParsedFrames
    <2>. QED  BY <1>3, <1>4, <1>5, <2>1, ParsedGoesOn
  <1>6. CASE StuckAt(wire, written, Cap)
    BY <1>3, <1>6 DEF StuckAt, AboveCap
  <1>. QED  BY <1>5, <1>6 DEF QueueInv, EncoderInv

\* What a Rust call still waits for can be written.
LEMMA CanBeCompleted ==
    ASSUME QueueInv, NoMoreFrames, buf # <<>>
    PROVE  \E x \in Seq(Byte) :
              /\ BeginsWithFrame(buf \o x, Cap)
              /\ Len(buf \o x) = HeaderSize + LengthOf(buf \o x)
  <1>1. PICK b \in Seq(Byte) : b = buf
    BY DEF QueueInv, ReaderInv, TypeOK
  <1>2. Len(b) \in Nat \ {0} /\ Len(b) < room /\ call \in {"full", "opt"}
    BY <1>1, EmptySeq DEF NoMoreFrames, InCall
  <1>3. reader = "rust" /\ Cap = MaxLength /\ MaxLength \in Nat /\ 0 \in Byte
    BY <1>2, SizesAssumption DEF QueueInv, ReaderInv, TypeOK, BufferInv, Cap, Byte
  <1>4. CASE phase = "header"
    <2>1. Len(b) = 1
      <3>1. room = 2
        BY <1>2, <1>4 DEF QueueInv, ReaderInv, BufferInv, HeaderSize
      <3>2. Len(b) \in Nat /\ Len(b) # 0 /\ Len(b) < 2
        BY <1>2, <3>1
      <3>3. \A l \in Nat : l # 0 /\ l < 2 => l = 1
        OBVIOUS
      <3>. QED  BY <3>2, <3>3, Zenon
    <2>2. PICK x \in Seq(Byte) : Len(x) = 1 /\ x[1] = 0
      <3>1. <<0>> \in Seq(Byte) /\ Len(<<0>>) = 1 /\ <<0>>[1] = 0
        BY <1>3
      <3>. QED  BY <3>1
    <2>3. PICK y : y = b \o x
      OBVIOUS
    <2>3a. y \in Seq(Byte) /\ Len(y) = 2 /\ y[2] = 0
      <3>2. /\ y \in Seq(Byte) /\ Len(y) = Len(b) + Len(x)
            /\ \A i \in 1 .. Len(x) : y[Len(b) + i] = x[i]
        BY <2>3, ConcatElements
      <3>3. 1 \in 1 .. Len(x)
        BY <2>2
      <3>. QED  BY <2>1, <2>2, <3>2, <3>3
    <2>4. BeginsWithFrame(y, Cap) /\ Len(y) = HeaderSize + LengthOf(y)
      BY <1>3, <2>3a DEF BeginsWithFrame, LengthOf, HeaderSize
    <2>. QED  BY <1>1, <2>3, <2>4
  <1>5. CASE phase = "payload"
    <2>1. Len(b) >= 2 /\ room = 2 + LengthOf(b) /\ room <= 2 + MaxLength
      BY <1>1, <1>2, <1>3, <1>5 DEF QueueInv, ReaderInv, BufferInv, AllocationCapped, HeaderSize
    <2>2. LengthOf(b) \in Nat
      BY <2>1, LengthIsNat DEF HeaderSize
    <2>3. PICK k \in Nat : k = room - Len(b)
      BY <1>2, <2>1, <2>2
    <2>4. PICK x \in Seq(Byte) : Len(x) = k
      <3>1. [i \in 1 .. k |-> 0] \in [1 .. k -> Byte]
        BY <1>3
      <3>2. PICK x : x = [i \in 1 .. k |-> 0]
        OBVIOUS
      <3>3. x \in Seq(Byte) /\ DOMAIN x = 1 .. k
        BY <3>1, <3>2, SeqDef
      <3>. QED  BY <3>3, LenProperties
    <2>5. PICK y \in Seq(Byte) : y = b \o x /\ Len(y) = Len(b) + k /\ LengthOf(y) = LengthOf(b)
      <3>1. PICK y : y = b \o x
        OBVIOUS
      <3>2. /\ y \in Seq(Byte) /\ Len(y) = Len(b) + Len(x)
            /\ \A i \in 1 .. Len(b) : y[i] = b[i]
        BY <3>1, ConcatElements
      <3>3. 2 \in 1 .. Len(b)
        BY <1>2, <2>1
      <3>. QED  BY <2>4, <3>1, <3>2, <3>3 DEF LengthOf
    <2>6. BeginsWithFrame(y, Cap) /\ Len(y) = HeaderSize + LengthOf(y)
      BY <1>2, <1>3, <2>1, <2>2, <2>3, <2>5 DEF BeginsWithFrame, HeaderSize
    <2>. QED  BY <1>1, <2>5, <2>6
  <1>. QED  BY <1>4, <1>5 DEF QueueInv, ReaderInv, TypeOK

\* A Rust call fails at the end of an encoder's stream only for want of another frame.
LEMMA NotEnoughStep ==
    ASSUME QueueInv, NoMoreFrames, outcome' = "failed", peer = "encoder"
    PROVE  AboveCap \/ (call = "full" /\ frames = written /\ ending = "finished")
  <1>1. /\ Unread = 0 /\ ending = "finished" /\ call \in {"full", "opt"} /\ Len(buf) < room
        /\ ~(call = "opt" /\ phase = "header" /\ buf = <<>>)
    BY DEF NoMoreFrames, Drained, InCall
  <1>2. reader = "rust" /\ Cap = MaxLength
    BY <1>1 DEF QueueInv, ReaderInv, TypeOK, BufferInv, Cap
  <1>3. CASE StuckAt(wire, written, Cap)
    BY <1>2, <1>3 DEF StuckAt, AboveCap
  <1>4. CASE Parsed(wire, written, Cap)
    <2>1. PICK b \in Seq(Byte) : b = buf /\ Len(b) \in Nat
      BY LenProperties DEF QueueInv, ReaderInv, TypeOK
    <2>2. ~BeginsWithFrame(b, Cap)
      BY <1>1, <2>1 DEF BeginsWithFrame, QueueInv, ReaderInv, TypeOK, BufferInv
    <2>3. PICK fs \in Seq(Frame) : fs = frames
      BY DEF QueueInv, ReaderInv, TypeOK
    <2>4. FramesIn(b, Cap) = <<>>
      BY <2>2, FramesUnfold
    <2>5. written = fs
      <3>1. FramesIn(wire, Cap) = fs \o <<>>
        BY <1>1, <2>1, <2>3, <2>4, AllRead
      <3>2. FramesIn(wire, Cap) = written
        BY <1>4, ParsedFrames
      <3>. QED  BY <3>1, <3>2, ConcatEmptySeq
    <2>6. CASE b = <<>>
      <3>1. phase = "header"
        <4>1. Len(b) = 0
          BY <2>6, EmptySeq
        <4>. QED  BY <1>1, <2>1, <4>1 DEF QueueInv, ReaderInv, TypeOK, BufferInv, HeaderSize
      <3>. QED  BY <1>1, <2>1, <2>3, <2>5, <2>6, <3>1
    <2>7. CASE b # <<>>
      <3>1. PICK x \in Seq(Byte) : /\ BeginsWithFrame(b \o x, Cap)
                                   /\ Len(b \o x) = HeaderSize + LengthOf(b \o x)
        BY <2>1, <2>7, CanBeCompleted
      <3>2. PICK gs \in Seq(Frame) : gs = FramesIn(b \o x, Cap)
        BY ConcatProperties, FramesAreFrames
      <3>3. PICK hs \in Seq(Frame) : hs = FramesIn(x, Cap)
        BY FramesAreFrames
      <3>4. FramesIn(wire \o x, Cap) = fs \o gs
        BY <1>1, <2>1, <2>3, <3>2, AllRead
      <3>5. FramesIn(wire \o x, Cap) = fs \o hs
        BY <1>4, <2>5, <3>3 DEF Parsed
      <3>6. gs = hs
        BY <3>4, <3>5, FramesCancel
      <3>. QED  BY <2>7, <3>1, <3>2, <3>3, <3>6, NoPartOfFrame
    <2>. QED  BY <2>6, <2>7
  <1>. QED  BY <1>3, <1>4 DEF QueueInv, EncoderInv

\* Nothing but the peer acts once the reader has come to its end.
LEMMA EndedReaderRests == Reader => outcome = "reading"
  BY DEF Reader, RustReader, WebReader, CallReader, Fill, RejectOversized, TakeHeader,
         ReturnFrame, NoMoreFrames, NextFromBuffer, Accumulate, NoMoreChunks, ReadFails,
         HeaderRead, InCall, AtWeb, Reading

LEMMA NextKeepsOutcome == QueueInv /\ OutcomeInv /\ [Next]_vars => OutcomeInv'
  <1>. SUFFICES ASSUME QueueInv, OutcomeInv, [Next]_vars PROVE OutcomeInv'
    OBVIOUS
  <1>1. CASE WriteFrame
    <2>1. /\ ending = "open" /\ UNCHANGED <<peer, ending, readerVars>>
          /\ \E f \in Letters : written' = Append(written, f)
      BY <1>1 DEF WriteFrame
    <2>2. AboveCap => AboveCap'
      <3>1. SUFFICES ASSUME NEW i \in DOMAIN written, Len(written[i].payload) > MaxLength
                     PROVE  AboveCap'
        BY DEF AboveCap
      <3>2. PICK f \in Letters : written' = Append(written, f)
        BY <2>1
      <3>3. PICK ws \in Seq(Letters) : ws = written
        BY DEF QueueInv, ReaderInv, TypeOK
      <3>4. PICK n : n = Append(ws, f)
        OBVIOUS
      <3>5. /\ DOMAIN n = 1 .. Len(n) /\ Len(n) = Len(ws) + 1 /\ Len(ws) \in Nat
            /\ DOMAIN ws = 1 .. Len(ws) /\ \A j \in 1 .. Len(ws) : n[j] = ws[j]
        BY <3>4, AppendProperties, LenProperties
      <3>6. i \in DOMAIN n /\ n[i] = written[i] /\ written' = n
        BY <3>2, <3>3, <3>4, <3>5
      <3>. QED  BY <3>1, <3>6 DEF AboveCap
    <2>. QED  BY <2>1, <2>2 DEF OutcomeInv, readerVars
  <1>2. CASE WriteByte
    <2>1. /\ ending = "open" /\ peer = "foreign" /\ UNCHANGED <<peer, ending, readerVars>>
      BY <1>2 DEF WriteByte
    <2>. QED  BY <2>1 DEF OutcomeInv, readerVars
  <1>3. CASE CloseStream
    <2>1. /\ ending = "open" /\ UNCHANGED <<peer, wire, written, readerVars>>
      BY <1>3 DEF CloseStream
    <2>. QED  BY <2>1 DEF OutcomeInv, AboveCap, readerVars
  <1>4. CASE NoMoreFrames \/ NoMoreChunks
    <2>1. /\ UNCHANGED <<peer, wire, written, ending, reader, call, pos, buf, frames>>
          /\ Unread = 0 /\ outcome' \in {"ended", "failed"}
      BY <1>4 DEF NoMoreFrames, NoMoreChunks, Drained, peerVars
    <2>2. Cap' = Cap /\ Unread' = Unread /\ (AboveCap' <=> AboveCap)
      BY <2>1 DEF Cap, Unread, AboveCap
    <2>3. outcome' = "ended" => frames = FramesIn(wire, Cap) /\ ending = "finished"
      BY <1>4, EndStep
    <2>4. reader = "rust" /\ outcome' = "ended" => buf = <<>>
      BY <1>4 DEF NoMoreFrames, NoMoreChunks, AtWeb, QueueInv, ReaderInv, BufferInv
    <2>5. outcome' = "failed" /\ peer = "encoder" =>
            AboveCap \/ (call = "full" /\ frames = written /\ ending = "finished")
      BY <1>4, NotEnoughStep DEF NoMoreChunks
    <2>. QED  BY <2>1, <2>2, <2>3, <2>4, <2>5 DEF OutcomeInv
  <1>5. CASE RejectOversized \/ ReadFails
    <2>1. UNCHANGED <<peer, written, ending>> /\ outcome' = "failed"
      BY <1>5 DEF RejectOversized, ReadFails, peerVars
    <2>2. peer = "encoder" => AboveCap \/ ending = "reset"
      BY <1>5, RejectStep DEF ReadFails
    <2>. QED  BY <2>1, <2>2 DEF OutcomeInv, AboveCap
  <1>6. CASE CallReader \/ Fill \/ TakeHeader \/ ReturnFrame \/ NextFromBuffer \/ Accumulate
    <2>1. outcome' = "reading"
      BY <1>6 DEF CallReader, Fill, TakeHeader, ReturnFrame, NextFromBuffer, Accumulate,
                  HeaderRead, InCall, AtWeb, Reading
    <2>. QED  BY <2>1 DEF OutcomeInv
  <1>7. CASE UNCHANGED vars
    BY <1>7 DEF vars, peerVars, readerVars, OutcomeInv, AboveCap, Unread, Cap
  <1>. QED
    BY <1>1, <1>2, <1>3, <1>4, <1>5, <1>6, <1>7 DEF Next, Peer, Reader, RustReader, WebReader

LEMMA PrefixOfConcat ==
    ASSUME NEW S, NEW s \in Seq(S), NEW t \in Seq(S), NEW c, c = s \o t
    PROVE  IsPrefix(s, c)
  <1>1. /\ c \in Seq(S) /\ Len(s) \in Nat /\ Len(t) \in Nat /\ Len(c) = Len(s) + Len(t)
        /\ \A i \in 1 .. Len(s) : c[i] = s[i]
    BY ConcatElements
  <1>2. PICK n \in Nat : n = Len(s) /\ n <= Len(c)
    BY <1>1
  <1>3. SubSeq(s, 1, n) = s
    BY <1>2, SubSeqFull
  <1>4. SubSeq(c, 1, n) = s
    <2>1. \A i \in 1 .. n : c[i] \in S
      BY <1>1, <1>2, ElementOfSeq
    <2>2. PICK p : p = SubSeq(c, 1, n)
      OBVIOUS
    <2>3. p \in Seq(S) /\ Len(p) = n /\ \A i \in 1 .. n : p[i] = c[i]
      BY <1>2, <2>1, <2>2, SubSeqProperties
    <2>4. \A i \in 1 .. Len(p) : p[i] = s[i]
      BY <1>1, <1>2, <2>3
    <2>. QED  BY <1>2, <2>2, <2>3, <2>4, SeqEqual
  <1>. QED  BY <1>2, <1>3, <1>4 DEF IsPrefix

LEMMA OutcomeIsAsWritten ==
    ASSUME QueueInv, OutcomeInv, peer = "encoder"
    PROVE  /\ IsPrefix(frames, written)
           /\ outcome = "ended" => frames = written
  <1>1. PICK fs \in Seq(Frame) : fs = frames
    BY DEF QueueInv, ReaderInv, TypeOK
  <1>2. PICK g \in Seq(Frame) : FramesIn(wire, Cap) = fs \o g
    <2>1. PICK c \in Seq(Byte), r \in Seq(Byte) : WireSplit(c, r)
      BY DEF QueueInv, ParseInv
    <2>2. FramesIn(wire, Cap) = fs \o FramesIn(buf \o r, Cap)
      BY <1>1, <2>1, SplitFrames DEF QueueInv
    <2>3. buf \o r \in Seq(Byte)
      BY ConcatProperties DEF QueueInv, ReaderInv, TypeOK
    <2>4. FramesIn(buf \o r, Cap) \in Seq(Frame)
      BY <2>3, FramesAreFrames
    <2>. QED  BY <2>2, <2>4
  <1>3. CASE Parsed(wire, written, Cap)
    <2>1. written = fs \o g
      BY <1>2, <1>3, ParsedFrames
    <2>2. outcome = "ended" => frames = written
      BY <1>1, <1>2, <2>1 DEF OutcomeInv
    <2>. QED  BY <1>1, <2>1, <2>2, PrefixOfConcat
  <1>4. CASE StuckAt(wire, written, Cap)
    <2>1. PICK t \in Seq(Frame) : written = (fs \o g) \o t
      BY <1>2, <1>4 DEF StuckAt
    <2>2. IsPrefix(fs, written)
      <3>1. PICK u \in Seq(Frame) : u = g \o t
        BY ConcatProperties
      <3>2. (fs \o g) \o t = fs \o (g \o t)
        BY ConcatAssociative
      <3>. QED  BY <2>1, <3>1, <3>2, PrefixOfConcat
    <2>3. ASSUME outcome = "ended" PROVE FALSE
      <3>1. CASE reader = "web"
        <4>1. PICK i \in DOMAIN written : Len(written[i].payload) > MaxByte
          BY <1>4, <3>1 DEF StuckAt, Cap
        <4>2. written[i] \in Frame
          BY <4>1, WrittenAreFrames, LenProperties, ElementOfSeq DEF QueueInv
        <4>3. Len(written[i].payload) \in Nat /\ Len(written[i].payload) <= MaxByte
          BY <4>2, EncodeDecode
        <4>. QED  BY <4>1, <4>3, SizesAssumption
      <3>2. CASE reader = "rust"
        <4>1. buf = <<>> /\ Unread = 0 /\ FramesIn(wire, Cap) = fs
          BY <1>1, <2>3, <3>2 DEF OutcomeInv
        <4>2. ASSUME NEW x \in Seq(Byte)
              PROVE  FramesIn(wire \o x, Cap) = fs \o FramesIn(x, Cap)
          <5>1. FramesIn(wire \o x, Cap) = fs \o FramesIn(<<>> \o x, Cap)
            BY <1>1, <4>1, AllRead
          <5>2. <<>> \o x = x
            BY ConcatEmptySeq
          <5>. QED  BY <5>1, <5>2
        <4>3. Parsed(wire, fs, Cap)
          BY <4>2 DEF Parsed, QueueInv, ReaderInv, TypeOK
        <4>4. \A x \in Seq(Byte) : FramesIn(wire \o x, Cap) = fs
          BY <1>4, <4>1 DEF StuckAt
        <4>. QED  BY <4>3, <4>4, CapIsNat, ParsedGoesOn
      <3>. QED  BY <3>1, <3>2 DEF QueueInv, ReaderInv, TypeOK
    <2>. QED  BY <1>1, <2>2, <2>3
  <1>. QED  BY <1>3, <1>4 DEF QueueInv, EncoderInv

\* A peer that writes with Frame::encode is read back as it wrote, and the reader fails only
\* because the stream was reset, because a frame was above the cap, or because it insisted
\* on a frame after the last one.
THEOREM WhatIsWrittenIsReadHolds == Spec => []WhatIsWrittenIsRead
  <1>1. Init => OutcomeInv
    BY DEF Init, OutcomeInv
  <1>2. QueueInv /\ OutcomeInv => WhatIsWrittenIsRead
    BY OutcomeIsAsWritten DEF WhatIsWrittenIsRead, OutcomeInv, AboveCap
  <1>. QED
    BY <1>1, <1>2, QueueInvInit, NextKeepsQueue, NextKeepsOutcome, PTL DEF Spec

-----------------------------------------------------------------------------
(* The bytes of the frames returned.  TotalSize, like FramesIn, is a recursive *)
(* function; TotalNothing and TotalNext are its equations.                     *)

IsSum(f, fs, n) == f = [k \in 0 .. n |-> IF k = 0 THEN 0 ELSE f[k - 1] + Size(fs[k])]

LEMMA SumEntries ==
    ASSUME NEW fs, NEW n \in Nat, NEW f, IsSum(f, fs, n)
    PROVE  f[0] = 0 /\ \A k \in 1 .. n : f[k] = f[k - 1] + Size(fs[k])
  <1>. DEFINE entry(k) == IF k = 0 THEN 0 ELSE f[k - 1] + Size(fs[k])
  <1>1. f = [k \in 0 .. n |-> entry(k)]
    BY Zenon DEF IsSum
  <1>. HIDE DEF entry
  <1>2. \A k \in 0 .. n : f[k] = entry(k)
    BY <1>1, Zenon
  <1>3. 0 \in 0 .. n /\ \A k \in 1 .. n : k \in 0 .. n /\ k # 0
    OBVIOUS
  <1>. QED  BY <1>2, <1>3 DEF entry

LEMMA SumExists ==
    ASSUME NEW fs, NEW n \in Nat
    PROVE  \E f : IsSum(f, fs, n)
  <1>. DEFINE S == {m \in Nat : \E f : IsSum(f, fs, m)}
  <1>1. 0 \in S
    <2>1. IsSum([k \in 0 .. 0 |-> 0], fs, 0)
      BY DEF IsSum
    <2>. QED  BY <2>1
  <1>2. ASSUME NEW m \in Nat, m \in S PROVE m + 1 \in S
    <2>1. PICK f : IsSum(f, fs, m)
      BY <1>2
    <2>. DEFINE last == f[m] + Size(fs[m + 1])
                g == [k \in 0 .. m + 1 |-> IF k = m + 1 THEN last ELSE f[k]]
    <2>2. f[0] = 0 /\ \A k \in 1 .. m : f[k] = f[k - 1] + Size(fs[k])
      BY <2>1, SumEntries
    <2>3. ASSUME NEW k \in 0 .. m + 1
          PROVE  g[k] = IF k = 0 THEN 0 ELSE g[k - 1] + Size(fs[k])
      <3>1. CASE k = m + 1
        BY <3>1
      <3>2. CASE k \in 1 .. m
        BY <2>2, <3>2
      <3>3. CASE k = 0
        BY <2>2, <3>3
      <3>. QED  BY <3>1, <3>2, <3>3
    <2>. HIDE DEF last
    <2>4. IsSum(g, fs, m + 1)
      BY <2>3 DEF IsSum
    <2>. QED  BY <2>4
  <1>. HIDE DEF S
  <1>3. n \in S
    BY <1>1, <1>2, NatSetInduction
  <1>. QED  BY <1>3 DEF S

LEMMA TotalSum ==
    ASSUME NEW fs, Len(fs) \in Nat
    PROVE  \E f : IsSum(f, fs, Len(fs)) /\ TotalSize(fs) = f[Len(fs)]
  <1>. DEFINE f == CHOOSE g : IsSum(g, fs, Len(fs))
  <1>1. IsSum(f, fs, Len(fs))
    BY SumExists, Zenon
  <1>2. TotalSize(fs) = f[Len(fs)]
    BY Zenon DEF TotalSize, IsSum
  <1>. QED  BY <1>1, <1>2, Zenon

StartAlike(fs, gs, m) == \A k \in 1 .. m : fs[k] = gs[k]

LEMMA SumsAgree ==
    ASSUME NEW fs, NEW gs, NEW m \in Nat, NEW n \in Nat, m <= n, StartAlike(fs, gs, m),
           NEW f, NEW g, IsSum(f, fs, m), IsSum(g, gs, n)
    PROVE  f[m] = g[m]
  <1>. USE DEF StartAlike
  <1>. DEFINE S == {k \in Nat : k <= m => f[k] = g[k]}
  <1>0. /\ f[0] = 0 /\ \A k \in 1 .. m : f[k] = f[k - 1] + Size(fs[k])
        /\ g[0] = 0 /\ \A k \in 1 .. n : g[k] = g[k - 1] + Size(gs[k])
    BY SumEntries
  <1>1. 0 \in S
    BY <1>0
  <1>2. ASSUME NEW k \in Nat, k \in S PROVE k + 1 \in S
    <2>. SUFFICES ASSUME k + 1 <= m PROVE f[k + 1] = g[k + 1]
      OBVIOUS
    <2>1. k + 1 \in 1 .. m /\ k + 1 \in 1 .. n /\ f[k] = g[k] /\ (k + 1) - 1 = k
      BY <1>2
    <2>. QED  BY <1>0, <2>1
  <1>. HIDE DEF S
  <1>3. m \in S
    BY <1>1, <1>2, NatSetInduction
  <1>. QED  BY <1>3 DEF S

LEMMA TotalNothing == TotalSize(<<>>) = 0
  <1>1. Len(<<>>) = 0
    BY EmptySeq
  <1>2. PICK f : IsSum(f, <<>>, Len(<<>>)) /\ TotalSize(<<>>) = f[Len(<<>>)]
    BY <1>1, TotalSum
  <1>3. IsSum(f, <<>>, 0) /\ TotalSize(<<>>) = f[0]
    BY <1>1, <1>2
  <1>. QED  BY <1>3, SumEntries

LEMMA TotalNext ==
    ASSUME NEW fs \in Seq(Frame), NEW x \in Frame
    PROVE  TotalSize(Append(fs, x)) = TotalSize(fs) + Size(x)
  <1>1. PICK gs : gs = Append(fs, x)
    OBVIOUS
  <1>2. PICK n \in Nat : n = Len(fs) /\ Len(gs) = n + 1
    BY <1>1, AppendProperties, LenProperties
  <1>3. (\A k \in 1 .. n : fs[k] = gs[k]) /\ gs[n + 1] = x
    BY <1>1, <1>2, AppendProperties
  <1>4. PICK f : IsSum(f, fs, n) /\ TotalSize(fs) = f[n]
    BY <1>2, TotalSum
  <1>5. PICK m \in Nat : m = n + 1
    OBVIOUS
  <1>6. PICK g : IsSum(g, gs, m) /\ TotalSize(gs) = g[m]
    BY <1>2, <1>5, TotalSum
  <1>7. f[n] = g[n]
    <2>1. n <= m
      BY <1>5
    <2>2. StartAlike(fs, gs, n)
      BY <1>3 DEF StartAlike
    <2>3. IsSum(f, fs, n) /\ IsSum(g, gs, m)
      BY <1>4, <1>6
    <2>. QED  BY <2>1, <2>2, <2>3, SumsAgree
  <1>8. g[m] = g[n] + Size(gs[m])
    <2>1. m \in 1 .. m /\ m - 1 = n
      BY <1>5
    <2>2. \A k \in 1 .. m : g[k] = g[k - 1] + Size(gs[k])
      BY <1>6, SumEntries
    <2>. QED  BY <2>1, <2>2
  <1>. QED  BY <1>1, <1>3, <1>4, <1>5, <1>6, <1>7, <1>8

\* The position in the stream is the bytes of the frames and those of the buffer.
SizeInv == reader = "rust" => TotalSize(frames) \in Nat /\ TotalSize(frames) + Len(buf) = pos

LEMMA NextKeepsSize == QueueInv /\ SizeInv /\ [Next]_vars => SizeInv'
  <1>. SUFFICES ASSUME QueueInv, SizeInv, [Next]_vars PROVE SizeInv'
    OBVIOUS
  <1>1. CASE Fill
    <2>1. UNCHANGED <<reader, frames>>
      BY <1>1 DEF Fill
    <2>2. PICK n \in 1 .. Unread : buf' = buf \o SubSeq(wire, pos + 1, pos + n) /\ pos' = pos + n
      BY <1>1 DEF Fill
    <2>3. Len(buf') = Len(buf) + n
      BY <2>2, ReadIsBytes DEF QueueInv, ReaderInv
    <2>4. Len(buf) \in Nat /\ Unread \in Int
      BY LenProperties DEF QueueInv, ReaderInv, TypeOK, Unread
    <2>. QED  BY <2>1, <2>2, <2>3, <2>4 DEF SizeInv
  <1>2. CASE ReturnFrame
    <2>1. /\ BeginsWithFrame(buf, Cap)
          /\ frames' = Append(frames, Decode(buf))
          /\ UNCHANGED <<reader, pos>> /\ buf' = <<>> /\ Len(buf) = room
          /\ call \in {"full", "opt"} /\ phase = "payload"
      BY <1>2, FrameInBuffer DEF QueueInv, ReturnFrame, InCall
    <2>2. PICK b \in Seq(Byte) : b = buf
      BY DEF QueueInv, ReaderInv, TypeOK
    <2>3. PICK d \in Frame : d = Decode(b)
      BY <2>1, <2>2, DecodeIsFrame DEF BeginsWithFrame
    <2>4. Size(d) = HeaderSize + LengthOf(b) /\ LengthOf(b) \in Nat
      BY <2>1, <2>2, <2>3, DecodedLength, LengthIsNat DEF Size, BeginsWithFrame
    <2>5. Len(buf) = HeaderSize + LengthOf(b)
      BY <2>1, <2>2 DEF QueueInv, ReaderInv, BufferInv
    <2>6. TotalSize(frames') = TotalSize(frames) + Size(d)
      BY <2>1, <2>2, <2>3, TotalNext DEF QueueInv, ReaderInv, TypeOK
    <2>7. Len(buf') = 0
      BY <2>1, EmptySeq
    <2>8. HeaderSize \in Nat
      BY DEF HeaderSize
    <2>. QED  BY <2>1, <2>4, <2>5, <2>6, <2>7, <2>8 DEF SizeInv
  <1>3. CASE WebReader
    <2>1. reader = "web" /\ reader' = reader
      BY <1>3 DEF WebReader, NextFromBuffer, Accumulate, NoMoreChunks, AtWeb,
                  QueueInv, ReaderInv, BufferInv
    <2>. QED  BY <2>1 DEF SizeInv
  <1>4. CASE CallReader
    BY <1>4 DEF CallReader, QueueInv, ParseInv, SizeInv
  <1>5. CASE \/ Peer \/ TakeHeader \/ RejectOversized \/ NoMoreFrames \/ ReadFails
             \/ UNCHANGED vars
    <2>1. UNCHANGED <<reader, frames, buf, pos>>
      BY <1>5 DEF Peer, WriteFrame, WriteByte, CloseStream, TakeHeader, RejectOversized,
                  NoMoreFrames, ReadFails, vars, readerVars
    <2>. QED  BY <2>1 DEF SizeInv
  <1>. QED
    BY <1>1, <1>2, <1>3, <1>4, <1>5 DEF Next, Reader, RustReader

\* The Rust readers take no byte beyond the frame they return, and a clean end has nothing
\* behind it and nothing cut off before it.
THEOREM NothingIsReadAhead == Spec => []NothingReadAhead
  <1>1. Init => SizeInv
    <2>1. Len(<<>>) = 0
      BY EmptySeq
    <2>. QED  BY <2>1, TotalNothing DEF Init, SizeInv
  <1>2. SizeInv /\ CleanEnd => NothingReadAhead
    BY DEF SizeInv, NothingReadAhead
  <1>. QED
    BY <1>1, <1>2, QueueInvInit, NextKeepsQueue, NextKeepsSize, CleanEndLosesNothing, PTL DEF Spec
=============================================================================
