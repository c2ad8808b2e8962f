----------------------- MODULE ChannelHandlersProofs -----------------------
(***************************************************************************)
(* Proofs about ChannelHandlers: types, the replies that answer their      *)
(* questions one for one, what the end of a handler's stream promises, and *)
(* the report of a transfer, for every width, window and client.           *)
(***************************************************************************)
EXTENDS ChannelHandlers, SequencePicksTheorems

-----------------------------------------------------------------------------
(* The inductive invariants. *)

\* The replies written answer the first questions; the one being written answers
\* the last question; and a handler that has not failed owes no other.
ReplyInv ==
    /\ Len(outbox) <= Len(Questions)
    /\ \A i \in 1 .. Len(outbox) : Names(outbox[i], Questions[i])
    /\ state # "failed" => Len(Questions) = Len(outbox) + Len(reply)
    /\ \A r \in Replies : reply = <<r>> =>
         state = "running" /\ Names(r, Questions[Len(Questions)])

\* What has been read is whole as long as the handler has not failed, and an end is
\* the end of everything.
EndInv ==
    /\ state # "failed" => \A i \in 1 .. nread : ~Fails(inbox[i])
    /\ state = "ended" => finished /\ nread = Len(inbox) /\ reply = <<>>

\* The manifest alone has named a transfer, and the frame EndTransfer alone reports.
ManifestKept ==
    /\ nread > 0
    /\ \A i \in 1 .. nread : inbox[i].type = "Manifest" <=> i = 1
    /\ inbox[1].transfer < U32
    => transfer_id_seen = inbox[1].transfer
NotReported == (\A i \in 1 .. nread : inbox[i].type # "EndTransfer") => reports = <<>>
FileInv ==
    kind = "FILE" =>
        /\ Len(outbox) < U32 => chunks_acked = Len(outbox)
        /\ ManifestKept /\ NotReported

-----------------------------------------------------------------------------
(* Frames and answers. *)

LEMMA FrameFields ==
    ASSUME NEW k \in Kinds, NEW f \in Frames(k)
    PROVE  /\ f.type = "RequestContent" => f.id \in 0 .. U64 - 1 /\ f.mime \in Mimes
           /\ f.type = "ChatMessage" => f.id \in 0 .. U64 - 1 /\ f.ts \in 0 .. U64 - 1
           /\ f.type = "Chunk" =>
                f.transfer \in 0 .. U32 - 1 /\ f.file \in 0 .. U32 - 1 /\ f.chunk \in 0 .. U32 - 1
           /\ f.type = "Manifest" => f.transfer \in Nat
           /\ k = "FILE" => (Asks(f) <=> f.type = "Chunk")
  <1>1. CASE k = "INPUT"
    BY <1>1, SizesAssumption DEF Frames, InputFrames, Asks
  <1>2. CASE k = "CLIPBOARD"
    BY <1>2, SizesAssumption DEF Frames, ClipboardFrames, Asks
  <1>3. CASE k = "CHAT"
    BY <1>3, SizesAssumption DEF Frames, ChatFrames, Asks
  <1>4. CASE k = "FILE"
    BY <1>4, SizesAssumption DEF Frames, FileFrames, Asks
  <1>. QED  BY <1>1, <1>2, <1>3, <1>4 DEF Kinds

\* What a step of a script writes is a frame.
LEMMA StepIsFrame ==
    ASSUME NEW k \in Kinds, NEW x \in Steps(k), x.type \notin {"await", "fin"}
    PROVE  x \in Frames(k)
  BY DEF Steps

\* What is left of a number without its remainder is a multiple.
LEMMA Divide ==
    ASSUME NEW a \in Int, NEW b \in Nat \ {0}
    PROVE  /\ a \div b \in Int /\ a % b \in 0 .. b - 1
           /\ a = b * (a \div b) + (a % b)
  OBVIOUS

LEMMA Multiple ==
    ASSUME NEW q \in Int, NEW b \in Nat \ {0}
    PROVE  (b * q) % b = 0
  OBVIOUS

LEMMA RemainderTaken ==
    ASSUME NEW a \in Nat, NEW b \in Nat \ {0}
    PROVE  (a - (a % b)) % b = 0
  <1>1. PICK q, r : q = a \div b /\ r = a % b
    OBVIOUS
  <1>2. q \in Int /\ r \in 0 .. b - 1 /\ a = b * q + r
    BY <1>1, Divide
  <1>3. PICK m \in Int : m = b * q
    BY <1>2
  <1>4. a - r = m
    BY <1>2, <1>3
  <1>5. m % b = 0
    BY <1>2, <1>3, Multiple
  <1>. QED  BY <1>1, <1>4, <1>5

\* A reply carries what tells its question from others.
LEMMA AnswerNames ==
    ASSUME NEW k \in Kinds, NEW f \in Frames(k), Asks(f)
    PROVE  Answer(f) \in Replies /\ Names(Answer(f), f)
  <1>1. /\ U32 \in Nat \ {0} /\ U64 \in Nat \ {0} /\ EchoOffset \in Nat
    BY SizesAssumption
  <1>2. CASE f.type = "RequestContent"
    <2>. DEFINE b == IF f.mime = "text/plain" THEN "server clipboard" ELSE "empty"
                r == [type |-> "Content", id |-> f.id, mime |-> f.mime, body |-> b]
    <2>1. Answer(f) = r
      BY <1>2 DEF Answer
    <2>2. f.id \in 0 .. U64 - 1 /\ f.mime \in Mimes
      BY <1>2, FrameFields
    <2>3. b \in {"server clipboard", "empty"}
      OBVIOUS
    <2>. HIDE DEF b
    <2>4. r \in ClipboardReplies
      BY <2>2, <2>3 DEF ClipboardReplies
    <2>5. Names(r, f)
      BY <1>2 DEF Names
    <2>. QED  BY <2>1, <2>4, <2>5, Zenon DEF Replies
  <1>3. CASE f.type = "ChatMessage"
    <2>. DEFINE i == (f.id + EchoOffset) % U64
                t == (f.ts + 1) % U64
                r == [type |-> "ChatMessage", id |-> i, ts |-> t]
    <2>1. Answer(f) = r
      BY <1>3 DEF Answer
    <2>2. f.id \in Nat /\ f.ts \in Nat
      BY <1>1, <1>3, FrameFields
    <2>3. i \in 0 .. U64 - 1 /\ t \in 0 .. U64 - 1
      BY <1>1, <2>2
    <2>4. ((f.id + EchoOffset) - i) % U64 = 0
      <3>1. f.id + EchoOffset \in Nat
        BY <1>1, <2>2
      <3>. QED  BY <1>1, <3>1, RemainderTaken
    <2>. HIDE DEF i, t
    <2>5. r \in ChatReplies
      BY <2>3 DEF ChatReplies
    <2>6. Names(r, f)
      BY <1>3, <2>4 DEF Names
    <2>. QED  BY <2>1, <2>5, <2>6, Zenon DEF Replies
  <1>4. CASE f.type = "Chunk"
    <2>. DEFINE r == [type |-> "AckChunk", transfer |-> f.transfer, file |-> f.file,
                      chunk |-> f.chunk, status |-> "Ok"]
    <2>1. Answer(f) = r
      BY <1>4 DEF Answer
    <2>2. /\ f.transfer \in 0 .. U32 - 1 /\ f.file \in 0 .. U32 - 1
          /\ f.chunk \in 0 .. U32 - 1
      BY <1>4, FrameFields
    <2>3. r \in FileReplies
      BY <2>2 DEF FileReplies
    <2>4. Names(r, f)
      BY <1>4 DEF Names
    <2>. QED  BY <2>1, <2>3, <2>4, Zenon DEF Replies
  <1>. QED  BY <1>2, <1>3, <1>4 DEF Asks

-----------------------------------------------------------------------------
(* The frames of some types among the first n. *)

ReadOf(s, n, T) == Picked(s, {i \in 1 .. n : s[i].type \in T})

AskTypes == {"RequestContent", "ChatMessage", "Chunk"}

LEMMA QuestionsAreRead ==
    /\ Questions = ReadOf(inbox, nread, AskTypes)
    /\ Questions' = ReadOf(inbox', nread', AskTypes)
  BY Zenon DEF Questions, ReadOf, AskTypes, Asks

LEMMA ChunksAreRead ==
    /\ Chunks = ReadOf(inbox, nread, {"Chunk"})
    /\ Chunks' = ReadOf(inbox', nread', {"Chunk"})
  <1>1. \A x : x = "Chunk" <=> x \in {"Chunk"}
    OBVIOUS
  <1>. QED  BY <1>1, Zenon DEF Chunks, ReadOf

LEMMA ReadOfBehind ==
    ASSUME NEW X, NEW s \in Seq(X), NEW x \in X, NEW n \in 0 .. Len(s), NEW T
    PROVE  ReadOf(Append(s, x), n, T) = ReadOf(s, n, T)
  <1>. DEFINE t == Append(s, x)
              I == {i \in 1 .. n : s[i].type \in T}
              J == {i \in 1 .. n : t[i].type \in T}
  <1>1. \A i \in 1 .. n : t[i] = s[i]
    BY AppendProperties
  <1>2. I = J
    BY <1>1
  <1>3. \A i \in I : i <= Len(s)
    OBVIOUS
  <1>4. Picked(t, I) = Picked(s, I)
    BY <1>3, PickedBehind
  <1>. QED  BY <1>2, <1>4, Zenon DEF ReadOf

LEMMA ReadOfNext ==
    ASSUME NEW s, NEW n \in Nat, Len(s) \in Nat, n + 1 <= Len(s), NEW T
    PROVE  /\ s[n + 1].type \in T => ReadOf(s, n + 1, T) = Append(ReadOf(s, n, T), s[n + 1])
           /\ s[n + 1].type \notin T => ReadOf(s, n + 1, T) = ReadOf(s, n, T)
  <1>. DEFINE m == n + 1
              I == {i \in 1 .. n : s[i].type \in T}
              J == {i \in 1 .. m : s[i].type \in T}
  <1>1. CASE s[m].type \in T
    <2>1. /\ m \in 1 .. Len(s) /\ m \in J
          /\ \A i \in 1 .. m - 1 : i \in I <=> i \in J
          /\ \A i \in m .. Len(s) : i \notin I
          /\ \A i \in m + 1 .. Len(s) : i \notin J
      BY <1>1
    <2>. HIDE DEF m, I, J
    <2>2. Picked(s, J) = Append(Picked(s, I), s[m])
      BY <2>1, PickedNext
    <2>. QED  BY <1>1, <2>2, Zenon DEF ReadOf, m, I, J
  <1>2. CASE s[m].type \notin T
    <2>1. I = J
      BY <1>2
    <2>. QED  BY <1>2, <2>1, Zenon DEF ReadOf
  <1>. QED  BY <1>1, <1>2

LEMMA ReadOfIsSeq ==
    ASSUME NEW X, NEW s \in Seq(X), NEW n \in 0 .. Len(s), NEW T
    PROVE  ReadOf(s, n, T) \in Seq(X)
  <1>. DEFINE I == {i \in 1 .. n : s[i].type \in T}
  <1>1. Len(s) \in Nat /\ \A i \in 1 .. Len(s) : i \in I => s[i] \in X
    OBVIOUS
  <1>. HIDE DEF I
  <1>2. HoldsTheChosen(Picked(s, I), s, I, Len(s), X)
    BY <1>1, PickedElements
  <1>. QED  BY <1>2, Zenon DEF ReadOf, I, HoldsTheChosen

\* All a file channel asks are its chunks.
LEMMA FileQuestions ==
    ASSUME TypeOK, kind = "FILE"
    PROVE  Questions = Chunks
  <1>1. \A i \in 1 .. nread : Asks(inbox[i]) <=> inbox[i].type = "Chunk"
    <2>. SUFFICES ASSUME NEW i \in 1 .. nread
                  PROVE  Asks(inbox[i]) <=> inbox[i].type = "Chunk"
      OBVIOUS
    <2>1. inbox \in Seq(Frames(kind)) /\ i \in 1 .. Len(inbox)
      BY DEF TypeOK
    <2>2. inbox[i] \in Frames(kind)
      BY <2>1, ElementOfSeq
    <2>. QED  BY <2>2, FrameFields DEF Kinds
  <1>2. {i \in 1 .. nread : Asks(inbox[i])} = {i \in 1 .. nread : inbox[i].type = "Chunk"}
    BY <1>1, Zenon
  <1>. QED  BY <1>2, Zenon DEF Questions, Chunks

-----------------------------------------------------------------------------
(* What the steps of the two sides do. *)

\* The facts about lengths and places that every step needs.
LEMMA Sizes ==
    ASSUME TypeOK
    PROVE  /\ Len(inbox) \in Nat /\ Len(outbox) \in Nat /\ Len(script) \in Nat
           /\ nread \in Nat /\ nread <= Len(inbox) /\ step \in Nat /\ taken \in Nat
           /\ \A i \in 1 .. Len(inbox) : inbox[i] \in Frames(kind)
           /\ \A i \in 1 .. Len(script) : script[i] \in Steps(kind)
  <1>1. inbox \in Seq(Frames(kind))
    BY DEF TypeOK
  <1>2. outbox \in Seq(Replies)
    BY DEF TypeOK
  <1>3. script \in Seq(Steps(kind))
    <2>1. kind \in Kinds /\ (script \in Scripts(kind) \/ script = <<>>)
      BY DEF TypeOK
    <2>2. Scripts(kind) \subseteq Seq(Steps(kind))
      BY <2>1, ClientsAssumption
    <2>3. <<>> \in Seq(Steps(kind))
      BY EmptySeq
    <2>. QED  BY <2>1, <2>2, <2>3
  <1>4. Len(inbox) \in Nat
    BY <1>1, LenProperties
  <1>5. Len(outbox) \in Nat
    BY <1>2, LenProperties
  <1>6. Len(script) \in Nat
    BY <1>3, LenProperties
  <1>7. \A i \in 1 .. Len(inbox) : inbox[i] \in Frames(kind)
    BY <1>1, ElementOfSeq
  <1>8. \A i \in 1 .. Len(script) : script[i] \in Steps(kind)
    BY <1>3, ElementOfSeq
  <1>9. nread \in 0 .. Len(inbox) /\ step \in 0 .. Len(script) /\ taken \in 0 .. Len(outbox)
    BY DEF TypeOK
  <1>10. nread \in Nat /\ nread <= Len(inbox) /\ step \in Nat /\ taken \in Nat
    BY <1>4, <1>5, <1>6, <1>9
  <1>. QED  BY <1>4, <1>5, <1>6, <1>7, <1>8, <1>10

\* The client, or the network, leaves the handler's state alone; what it has written
\* stays, and nothing comes behind its end.
ClientStep ==
    /\ UNCHANGED <<kind, build, nread, reply, outbox, transfer_id_seen, chunks_acked, reports, state>>
    /\ inbox' = inbox \/ (~finished /\ \E f \in Frames(kind) : inbox' = Append(inbox, f))
    /\ finished => finished'

LEMMA ClientEffect ==
    ASSUME TypeOK, Client \/ StreamCut
    PROVE  ClientStep /\ TypeOK'
  <1>1. Client \/ StreamCut
    OBVIOUS
  <1>. USE Sizes DEF ClientStep
  <1>2. /\ kind \in Kinds
        /\ Alphabet(kind) \subseteq Frames(kind)
    BY ClientsAssumption DEF TypeOK
  <1>. DEFINE Rest == /\ UNCHANGED <<kind, build, script>>
                      /\ step' \in 0 .. Len(script) /\ taken' \in 0 .. Len(outbox)
                      /\ finished' \in BOOLEAN /\ stopped' \in BOOLEAN /\ cut' \in BOOLEAN
  <1>3. ClientStep /\ Rest
    <2>1. CASE ClientWrites
      BY <1>2, <2>1 DEF ClientWrites, TypeOK, handlerVars, fileVars
    <2>2. CASE ClientFinishes
      BY <2>2 DEF ClientFinishes, TypeOK, handlerVars, fileVars
    <2>3. CASE ClientReads
      BY <2>3 DEF ClientReads, TypeOK, handlerVars, fileVars
    <2>4. CASE ClientStops
      BY <2>4 DEF ClientStops, TypeOK, handlerVars, fileVars
    <2>5. CASE ScriptWrites
      <3>1. step + 1 \in 1 .. Len(script)
        BY <2>5 DEF ScriptWrites, Scripted
      <3>2. Item \in Steps(kind)
        BY <3>1 DEF Item
      <3>3. Item \in Frames(kind)
        BY <1>2, <2>5, <3>2, StepIsFrame DEF ScriptWrites
      <3>. QED  BY <2>5, <3>1, <3>3 DEF ScriptWrites, TypeOK, handlerVars, fileVars
    <2>6. CASE ScriptReads
      BY <2>6 DEF ScriptReads, Scripted, TypeOK, handlerVars, fileVars
    <2>7. CASE ScriptFinishes
      BY <2>7 DEF ScriptFinishes, Scripted, TypeOK, handlerVars, fileVars
    <2>8. CASE StreamCut
      BY <2>8 DEF StreamCut, TypeOK, clientVars, handlerVars, fileVars
    <2>. QED  BY <1>1, <2>1, <2>2, <2>3, <2>4, <2>5, <2>6, <2>7, <2>8 DEF Client, Script
  <1>4. inbox' \in Seq(Frames(kind)) /\ nread \in 0 .. Len(inbox')
    <2>1. CASE inbox' = inbox
      BY <2>1 DEF TypeOK
    <2>2. CASE \E f \in Frames(kind) : inbox' = Append(inbox, f)
      <3>1. PICK f \in Frames(kind) : inbox' = Append(inbox, f)
        BY <2>2
      <3>2. inbox \in Seq(Frames(kind))
        BY DEF TypeOK
      <3>3. inbox' \in Seq(Frames(kind)) /\ Len(inbox') = Len(inbox) + 1
        BY <3>1, <3>2, AppendProperties
      <3>. QED  BY <3>3
    <2>. QED  BY <1>3, <2>1, <2>2
  <1>. QED  BY <1>3, <1>4 DEF TypeOK

\* A frame is read: its reply is made, or the handler fails at it.
ReadStep ==
    /\ state = "running" /\ reply = <<>>
    /\ nread < Len(inbox) /\ nread' = nread + 1
    /\ UNCHANGED <<kind, build, inbox, finished, outbox, chunks_acked>>
    /\ \/ /\ ~Fails(Frame) /\ state' = "running"
          /\ Asks(Frame) => reply' = <<Answer(Frame)>>
          /\ ~Asks(Frame) => reply' = <<>>
          /\ Frame.type = "Manifest" => transfer_id_seen' = Frame.transfer % U32
          /\ Frame.type # "Manifest" => transfer_id_seen' = transfer_id_seen
          /\ reports' = Reports
       \/ /\ Fails(Frame) /\ state' = "failed" /\ reply' = <<>>
          /\ UNCHANGED <<transfer_id_seen, reports>>

LEMMA ReadEffect ==
    ASSUME TypeOK, TakeFrame \/ RejectFrame
    PROVE  ReadStep /\ TypeOK'
  <1>. USE Sizes
  <1>1. ReadStep
    BY DEF TakeFrame, RejectFrame, Reading, Running, Arrived, ReadStep, clientVars, fileVars
  <1>2. Frame \in Frames(kind) /\ kind \in Kinds
    BY <1>1 DEF ReadStep, Frame, TypeOK
  <1>3. reply' \in {<<>>} \union {<<r>> : r \in Replies}
    BY <1>1, <1>2, AnswerNames DEF ReadStep
  <1>4. transfer_id_seen' \in 0 .. U32 - 1
    <2>1. Frame.type = "Manifest" => Frame.transfer % U32 \in 0 .. U32 - 1
      BY <1>2, FrameFields, SizesAssumption
    <2>. QED  BY <1>1, <2>1 DEF ReadStep, TypeOK
  <1>5. reports' \in Seq([transfer : 0 .. U32 - 1, chunks : 0 .. U32 - 1])
    <2>. DEFINE R == [transfer : 0 .. U32 - 1, chunks : 0 .. U32 - 1]
                r == [transfer |-> transfer_id_seen, chunks |-> chunks_acked]
    <2>1. reports \in Seq(R)
      BY Zenon DEF TypeOK
    <2>2. r \in R
      BY DEF TypeOK
    <2>. HIDE DEF R, r
    <2>3. Append(reports, r) \in Seq(R)
      BY <2>1, <2>2, AppendProperties
    <2>4. reports' = reports \/ reports' = Append(reports, r)
      BY <1>1 DEF ReadStep, Reports, r
    <2>. QED  BY <2>1, <2>3, <2>4 DEF R
  <1>6. UNCHANGED <<kind, build, cut, script, step, inbox, finished, taken, stopped, outbox, chunks_acked>>
    BY DEF TakeFrame, RejectFrame, clientVars, fileVars
  <1>7. nread' \in 0 .. Len(inbox) /\ state' \in {"running", "ended", "failed"}
    BY <1>1 DEF ReadStep
  <1>8. TypeOK'
    BY <1>3, <1>4, <1>5, <1>6, <1>7 DEF TypeOK
  <1>. QED  BY <1>1, <1>8

\* A reply goes out, and a chunk is counted.
WriteStep ==
    /\ state = "running" /\ reply' = <<>>
    /\ state' \in {"running", "failed"}
    /\ UNCHANGED <<kind, build, inbox, finished, nread, transfer_id_seen, reports>>
    /\ kind = "FILE" => chunks_acked' = (chunks_acked + 1) % U32
    /\ kind # "FILE" => chunks_acked' = chunks_acked
    /\ \E r \in Replies :
         /\ reply = <<r>>
         /\ Len(outbox') = Len(outbox) + 1 /\ outbox'[Len(outbox) + 1] = r
         /\ \A i \in 1 .. Len(outbox) : outbox'[i] = outbox[i]

LEMMA WriteEffect ==
    ASSUME TypeOK, WriteReply
    PROVE  WriteStep /\ TypeOK'
  <1>. USE Sizes
  <1>1. PICK r \in Replies : reply = <<r>>
    BY DEF WriteReply, Writing, TypeOK
  <1>2. /\ outbox' \in Seq(Replies)
        /\ Len(outbox') = Len(outbox) + 1 /\ outbox'[Len(outbox) + 1] = r
        /\ \A i \in 1 .. Len(outbox) : outbox'[i] = outbox[i]
    <2>1. outbox \in Seq(Replies)
      BY DEF TypeOK
    <2>2. <<r>> \in Seq(Replies) /\ Len(<<r>>) = 1 /\ <<r>>[1] = r
      OBVIOUS
    <2>3. outbox' = outbox \o <<r>>
      BY <1>1 DEF WriteReply
    <2>. DEFINE one == <<r>>
    <2>. HIDE DEF one
    <2>4. /\ outbox \o one \in Seq(Replies) /\ Len(outbox \o one) = Len(outbox) + Len(one)
          /\ \A i \in 1 .. Len(outbox) + Len(one) : (outbox \o one)[i] =
                  IF i <= Len(outbox) THEN outbox[i] ELSE one[i - Len(outbox)]
      BY <2>1, <2>2, ConcatProperties DEF one
    <2>5. Len(one) = 1 /\ one[1] = r /\ outbox' = outbox \o one
      BY <2>2, <2>3 DEF one
    <2>6. Len(outbox) + 1 \in 1 .. Len(outbox) + Len(one)
      BY <2>5
    <2>. QED  BY <2>4, <2>5, <2>6
  <1>3. (chunks_acked + 1) % U32 \in 0 .. U32 - 1
    BY SizesAssumption DEF TypeOK
  <1>4. WriteStep
    BY <1>1, <1>2 DEF WriteReply, Writing, Running, WriteStep, clientVars
  <1>5. UNCHANGED <<kind, build, cut, script, step, inbox, finished, taken, stopped, nread,
                    transfer_id_seen, reports>>
    BY DEF WriteReply, clientVars
  <1>6. taken \in 0 .. Len(outbox')
    BY <1>2 DEF TypeOK
  <1>7. chunks_acked' \in 0 .. U32 - 1 /\ state' \in {"running", "ended", "failed"}
        /\ reply' \in {<<>>} \union {<<x>> : x \in Replies}
    BY <1>3, <1>4 DEF WriteStep, TypeOK
  <1>8. TypeOK'
    BY <1>2, <1>5, <1>6, <1>7 DEF TypeOK
  <1>. QED  BY <1>4, <1>8

\* The handler returns.
EndingStep ==
    /\ state = "running" /\ reply' = <<>>
    /\ UNCHANGED <<kind, build, inbox, finished, nread, outbox, transfer_id_seen, chunks_acked, reports>>
    /\ \/ state' = "failed"
       \/ state' = "ended" /\ finished /\ nread >= Len(inbox) /\ reply = <<>>

LEMMA EndingEffect ==
    ASSUME TypeOK, WriteFails \/ EndOfFrames \/ StreamLost
    PROVE  EndingStep /\ TypeOK'
  <1>. USE Sizes
  <1>1. EndingStep
    BY DEF WriteFails, EndOfFrames, StreamLost, Reading, Running, Arrived, EndingStep, clientVars, fileVars
  <1>2. UNCHANGED <<kind, build, cut, script, step, inbox, finished, taken, stopped, nread, outbox,
                    transfer_id_seen, chunks_acked, reports>>
    BY DEF WriteFails, EndOfFrames, StreamLost, clientVars, fileVars
  <1>. QED  BY <1>1, <1>2 DEF EndingStep, TypeOK

LEMMA StepKinds ==
    ASSUME TypeOK, Next
    PROVE  (ClientStep \/ ReadStep \/ WriteStep \/ EndingStep) /\ TypeOK'
  <1>1. Client \/ StreamCut \/ TakeFrame \/ RejectFrame \/ WriteReply
        \/ WriteFails \/ EndOfFrames \/ StreamLost
    BY Zenon DEF Next, Handler
  <1>. QED  BY <1>1, ClientEffect, ReadEffect, WriteEffect, EndingEffect, Zenon

-----------------------------------------------------------------------------
(* Types. *)

LEMMA TypeStart == Init => TypeOK
  <1>. SUFFICES ASSUME Init PROVE TypeOK
    OBVIOUS
  <1>1. /\ script \in Scripts(kind) \union {<<>>} /\ step = 0 /\ kind \in Kinds
        /\ Len(inbox) = 0 /\ Len(outbox) = 0
    BY DEF Init
  <1>2. Len(script) \in Nat
    <2>1. Scripts(kind) \subseteq Seq(Steps(kind)) /\ <<>> \in Seq(Steps(kind))
      BY <1>1, ClientsAssumption
    <2>2. script \in Seq(Steps(kind))
      BY <1>1, <2>1
    <2>. QED  BY <2>2, LenProperties
  <1>3. U32 \in Nat \ {0}
    BY SizesAssumption
  <1>4. inbox \in Seq(Frames(kind)) /\ outbox \in Seq(Replies)
        /\ reports \in Seq([transfer : 0 .. U32 - 1, chunks : 0 .. U32 - 1])
    BY EmptySeq, Zenon DEF Init
  <1>5. step \in 0 .. Len(script) /\ nread \in 0 .. Len(inbox) /\ taken \in 0 .. Len(outbox)
    BY <1>1, <1>2 DEF Init
  <1>6. /\ kind \in Kinds /\ build \in {"debug", "release"}
        /\ script \in Scripts(kind) \union {<<>>}
        /\ finished \in BOOLEAN /\ stopped \in BOOLEAN /\ cut \in BOOLEAN
        /\ reply = <<>> /\ state \in {"running", "ended", "failed"}
        /\ transfer_id_seen \in 0 .. U32 - 1 /\ chunks_acked \in 0 .. U32 - 1
    <2>1. 0 \in 0 .. U32 - 1
      BY <1>3
    <2>. QED  BY <2>1, Zenon DEF Init
  <1>. QED  BY <1>4, <1>5, <1>6 DEF TypeOK

\* Every variable of a handler and its client keeps its type: in particular the
\* counter of chunks stays in 32 bits and every reply is one its channel has.
THEOREM HandlerTypeCorrect == Spec => []TypeOK
  <1>1. TypeOK /\ [Next]_vars => TypeOK'
    <2>1. TypeOK /\ Next => TypeOK'
      BY StepKinds
    <2>2. TypeOK /\ UNCHANGED vars => TypeOK'
      BY DEF TypeOK, vars, clientVars, handlerVars, fileVars
    <2>. QED  BY <2>1, <2>2
  <1>. QED  BY TypeStart, <1>1, PTL DEF Spec

-----------------------------------------------------------------------------
(* What has been read, before and after a step. *)

\* A step of the client changes nothing that has been read.
LEMMA ReadStays ==
    ASSUME TypeOK, ClientStep
    PROVE  /\ \A i \in 1 .. nread : inbox'[i] = inbox[i]
           /\ Questions' = Questions /\ Chunks' = Chunks
  <1>1. inbox \in Seq(Frames(kind)) /\ nread \in 0 .. Len(inbox) /\ nread' = nread
    BY DEF TypeOK, ClientStep
  <1>2. /\ Questions' = ReadOf(inbox', nread', AskTypes) /\ Chunks' = ReadOf(inbox', nread', {"Chunk"})
        /\ Questions = ReadOf(inbox, nread, AskTypes) /\ Chunks = ReadOf(inbox, nread, {"Chunk"})
    BY QuestionsAreRead, ChunksAreRead
  <1>3. CASE inbox' = inbox
    BY <1>1, <1>2, <1>3
  <1>4. CASE \E f \in Frames(kind) : inbox' = Append(inbox, f)
    <2>1. PICK f \in Frames(kind) : inbox' = Append(inbox, f)
      BY <1>4
    <2>2. \A T : ReadOf(Append(inbox, f), nread, T) = ReadOf(inbox, nread, T)
      BY <1>1, ReadOfBehind
    <2>3. \A i \in 1 .. nread : Append(inbox, f)[i] = inbox[i]
      BY <1>1, AppendProperties
    <2>. QED  BY <1>1, <1>2, <2>1, <2>2, <2>3
  <1>. QED  BY <1>3, <1>4 DEF ClientStep

\* A frame read is behind the others, and is a question when it asks.
LEMMA ReadGrows ==
    ASSUME TypeOK, ReadStep
    PROVE  /\ Asks(Frame) => Questions' = Append(Questions, Frame)
           /\ ~Asks(Frame) => Questions' = Questions
           /\ Frame.type # "Chunk" => Chunks' = Chunks
  <1>1. /\ nread \in Nat /\ Len(inbox) \in Nat /\ nread + 1 <= Len(inbox)
        /\ nread' = nread + 1 /\ inbox' = inbox /\ inbox[nread + 1] = Frame
    BY Sizes DEF ReadStep, Frame
  <1>2. /\ Questions' = ReadOf(inbox', nread', AskTypes) /\ Chunks' = ReadOf(inbox', nread', {"Chunk"})
        /\ Questions = ReadOf(inbox, nread, AskTypes) /\ Chunks = ReadOf(inbox, nread, {"Chunk"})
    BY QuestionsAreRead, ChunksAreRead
  <1>3. /\ Frame.type \in AskTypes =>
             ReadOf(inbox, nread + 1, AskTypes) = Append(ReadOf(inbox, nread, AskTypes), Frame)
        /\ Frame.type \notin AskTypes =>
             ReadOf(inbox, nread + 1, AskTypes) = ReadOf(inbox, nread, AskTypes)
    BY <1>1, ReadOfNext
  <1>4. Frame.type # "Chunk" => ReadOf(inbox, nread + 1, {"Chunk"}) = ReadOf(inbox, nread, {"Chunk"})
    BY <1>1, ReadOfNext
  <1>. QED  BY <1>1, <1>2, <1>3, <1>4 DEF Asks, AskTypes

LEMMA ReadKept ==
    ASSUME inbox' = inbox, nread' = nread
    PROVE  Questions' = Questions /\ Chunks' = Chunks
  BY DEF Questions, Chunks

LEMMA QuestionsType ==
    ASSUME TypeOK
    PROVE  Questions \in Seq(Frames(kind)) /\ Len(Questions) \in Nat
  <1>1. inbox \in Seq(Frames(kind)) /\ nread \in 0 .. Len(inbox)
    BY DEF TypeOK
  <1>2. ReadOf(inbox, nread, AskTypes) \in Seq(Frames(kind))
    BY <1>1, ReadOfIsSeq
  <1>3. Questions \in Seq(Frames(kind))
    BY <1>2, QuestionsAreRead
  <1>. QED  BY <1>3, LenProperties

-----------------------------------------------------------------------------
(* The replies. *)

LEMMA ReplyStart == Init => ReplyInv
  <1>. SUFFICES ASSUME Init PROVE ReplyInv
    OBVIOUS
  <1>1. Len(inbox) = 0 /\ Len(outbox) = 0 /\ Len(reply) = 0 /\ nread = 0
        /\ reply = <<>> /\ state = "running"
    BY DEF Init
  <1>2. Questions = <<>>
    <2>1. Len(inbox) \in Nat /\ \A i \in 1 .. Len(inbox) : i \notin {j \in 1 .. nread : Asks(inbox[j])}
      BY <1>1
    <2>. QED  BY <2>1, PickedNone, Zenon DEF Questions
  <1>3. Len(Questions) = 0
    BY <1>2
  <1>. QED  BY <1>1, <1>3 DEF ReplyInv

LEMMA ReplyStep ==
    ASSUME TypeOK, ReplyInv, Next
    PROVE  ReplyInv'
  <1>1. PICK l \in Nat : l = Len(outbox)
    BY Sizes
  <1>2. PICK q \in Nat : q = Len(Questions)
    BY QuestionsType
  <1>3. CASE ClientStep
    <2>1. /\ Questions' = Questions /\ outbox' = outbox /\ reply' = reply /\ state' = state
      BY <1>3, ReadStays DEF ClientStep
    <2>. QED  BY <2>1, Zenon DEF ReplyInv
  <1>4. CASE EndingStep
    <2>1. /\ Questions' = Questions /\ outbox' = outbox /\ reply' = <<>>
          /\ state' = "failed" \/ (state # "failed" /\ reply = <<>>)
      BY <1>4, ReadKept DEF EndingStep
    <2>. QED  BY <2>1 DEF ReplyInv
  <1>5. CASE WriteStep
    <2>1. PICK r \in Replies :
            /\ reply = <<r>> /\ Len(outbox') = l + 1 /\ outbox'[l + 1] = r
            /\ \A i \in 1 .. l : outbox'[i] = outbox[i]
      BY <1>1, <1>5 DEF WriteStep
    <2>2. Questions' = Questions /\ reply' = <<>> /\ state = "running"
      BY <1>5, ReadKept DEF WriteStep
    <2>3. Len(reply) = 1 /\ q = l + 1 /\ Names(r, Questions[q])
      BY <1>1, <1>2, <2>1, <2>2 DEF ReplyInv
    <2>4. \A i \in 1 .. l + 1 : Names(outbox'[i], Questions[i])
      <3>1. \A i \in 1 .. l : Names(outbox'[i], Questions[i])
        BY <1>1, <2>1 DEF ReplyInv
      <3>2. Names(outbox'[l + 1], Questions[l + 1])
        BY <2>1, <2>3
      <3>3. \A i \in 1 .. l + 1 : i \in 1 .. l \/ i = l + 1
        OBVIOUS
      <3>. QED  BY <3>1, <3>2, <3>3, Zenon
    <2>5. Len(reply') = 0 /\ Len(Questions') = l + 1 /\ Len(outbox') = l + 1
      BY <1>2, <2>1, <2>2, <2>3
    <2>. QED  BY <2>1, <2>2, <2>4, <2>5 DEF ReplyInv
  <1>6. CASE ReadStep
    <2>1. /\ outbox' = outbox /\ state = "running" /\ reply = <<>>
      BY <1>6 DEF ReadStep
    <2>2. q = l /\ \A i \in 1 .. l : Names(outbox[i], Questions[i])
      BY <1>1, <1>2, <2>1 DEF ReplyInv
    <2>3. CASE ~Asks(Frame)
      <3>1. Questions' = Questions /\ reply' = <<>>
        BY <1>6, <2>3, ReadGrows DEF ReadStep
      <3>. QED  BY <1>1, <1>2, <2>1, <2>2, <3>1 DEF ReplyInv
    <2>4. CASE Asks(Frame)
      <3>1. Frame \in Frames(kind) /\ kind \in Kinds
        BY <1>6, Sizes DEF ReadStep, Frame, TypeOK
      <3>2. /\ Len(Questions') = l + 1 /\ Questions'[l + 1] = Frame
            /\ \A i \in 1 .. l : Questions'[i] = Questions[i]
        <4>1. Questions \in Seq(Frames(kind)) /\ Questions' = Append(Questions, Frame)
          BY <1>6, <2>4, ReadGrows, QuestionsType
        <4>2. PICK Q : Q = Questions
          OBVIOUS
        <4>3. /\ Len(Append(Q, Frame)) = Len(Q) + 1 /\ Append(Q, Frame)[Len(Q) + 1] = Frame
              /\ \A i \in 1 .. Len(Q) : Append(Q, Frame)[i] = Q[i]
          BY <3>1, <4>1, <4>2, AppendProperties
        <4>4. Len(Q) = l
          BY <1>2, <2>2, <4>2
        <4>. QED  BY <4>1, <4>2, <4>3, <4>4, Zenon
      <3>3. \A i \in 1 .. l : Names(outbox'[i], Questions'[i])
        BY <2>1, <2>2, <3>2
      <3>4. CASE state' = "failed"
        <4>1. reply' = <<>>
          BY <1>6, <3>4 DEF ReadStep
        <4>. QED  BY <1>1, <2>1, <3>2, <3>3, <3>4, <4>1 DEF ReplyInv
      <3>5. CASE state' # "failed"
        <4>1. reply' = <<Answer(Frame)>> /\ state' = "running"
          BY <1>6, <2>4, <3>5 DEF ReadStep
        <4>2. PICK a \in Replies : a = Answer(Frame) /\ Names(a, Frame)
          BY <2>4, <3>1, AnswerNames
        <4>3. reply' = <<a>> /\ Len(reply') = 1 /\ Len(outbox') = l /\ Len(Questions') = l + 1
          BY <1>1, <2>1, <3>2, <4>1, <4>2
        <4>4. \A r \in Replies : reply' = <<r>> => Names(r, Questions'[l + 1])
          BY <3>2, <4>2, <4>3
        <4>. QED  BY <3>3, <4>1, <4>3, <4>4 DEF ReplyInv
      <3>. QED  BY <3>4, <3>5
    <2>. QED  BY <2>3, <2>4
  <1>. QED  BY <1>3, <1>4, <1>5, <1>6, StepKinds

LEMMA ReplyHolds == Spec => [](TypeOK /\ ReplyInv)
  <1>. DEFINE I == TypeOK /\ ReplyInv
  <1>1. I /\ [Next]_vars => I'
    <2>1. I /\ Next => I'
      BY ReplyStep, StepKinds
    <2>2. ASSUME I, UNCHANGED vars PROVE I'
      <3>1. TypeOK'
        BY <2>2 DEF TypeOK, vars, clientVars, handlerVars, fileVars
      <3>2. /\ UNCHANGED <<inbox, nread, reply, outbox, state>>
            /\ Questions' = Questions
        BY <2>2, ReadKept DEF vars, clientVars, handlerVars, fileVars
      <3>3. ReplyInv'
        BY <2>2, <3>2, Zenon DEF ReplyInv
      <3>. QED  BY <3>1, <3>3
    <2>. QED  BY <2>1, <2>2
  <1>. QED  BY TypeStart, ReplyStart, <1>1, PTL DEF Spec

\* A client that pipelines its questions can match the answers: they come one for
\* one, in order, each with the id of its own question (control.rs:334-467, 585-668).
THEOREM RepliesAnswerHolds == Spec => []RepliesAnswer
  <1>1. TypeOK /\ ReplyInv => RepliesAnswer
    <2>. SUFFICES ASSUME TypeOK, ReplyInv PROVE RepliesAnswer
      OBVIOUS
    <2>1. PICK l \in Nat : l = Len(outbox)
      BY Sizes
    <2>2. PICK q \in Nat : q = Len(Questions)
      BY QuestionsType
    <2>3. DOMAIN outbox = 1 .. l
      BY <2>1, LenProperties DEF TypeOK
    <2>4. l + Len(reply) <= q
      <3>1. CASE reply = <<>>
        <4>1. Len(reply) = 0
          BY <3>1
        <4>. QED  BY <2>1, <2>2, <4>1 DEF ReplyInv
      <3>2. CASE reply # <<>>
        <4>1. state = "running"
          BY <3>2 DEF ReplyInv, TypeOK
        <4>2. q = l + Len(reply)
          BY <2>1, <2>2, <4>1 DEF ReplyInv
        <4>. QED  BY <2>1, <2>2, <4>2
      <3>. QED  BY <3>1, <3>2
    <2>. QED  BY <2>1, <2>2, <2>3, <2>4 DEF ReplyInv, RepliesAnswer
  <1>. QED  BY <1>1, ReplyHolds, PTL

-----------------------------------------------------------------------------
(* The end. *)

LEMMA EndStart == Init => EndInv
  BY DEF Init, EndInv

LEMMA EndStep ==
    ASSUME TypeOK, EndInv, Next
    PROVE  EndInv'
  <1>1. CASE ClientStep
    <2>1. /\ UNCHANGED <<build, state, nread, reply>>
          /\ finished => finished' /\ inbox' = inbox
          /\ \A i \in 1 .. nread : inbox'[i] = inbox[i]
      BY <1>1, ReadStays DEF ClientStep
    <2>2. \A i \in 1 .. nread : Fails(inbox[i])' => Fails(inbox[i])
      BY <2>1 DEF Fails, TextFits, Overflows
    <2>. QED  BY <2>1, <2>2, Zenon DEF EndInv
  <1>2. CASE EndingStep
    <2>1. /\ UNCHANGED <<build, inbox, nread, finished>> /\ reply' = <<>> /\ state = "running"
          /\ state' = "failed" \/ (state' = "ended" /\ finished /\ nread = Len(inbox))
      BY <1>2, Sizes DEF EndingStep
    <2>2. \A i \in 1 .. nread : Fails(inbox[i])' => Fails(inbox[i])
      BY <2>1 DEF Fails, TextFits, Overflows
    <2>. QED  BY <2>1, <2>2 DEF EndInv
  <1>3. CASE WriteStep
    <2>1. UNCHANGED <<build, inbox, nread>> /\ state' # "ended" /\ state = "running"
      BY <1>3 DEF WriteStep
    <2>2. \A i \in 1 .. nread : Fails(inbox[i])' => Fails(inbox[i])
      BY <2>1 DEF Fails, TextFits, Overflows
    <2>. QED  BY <2>1, <2>2 DEF EndInv
  <1>4. CASE ReadStep
    <2>1. /\ UNCHANGED <<build, inbox>> /\ nread' = nread + 1 /\ state = "running"
          /\ state' = "failed" \/ (state' = "running" /\ ~Fails(inbox[nread + 1]))
      BY <1>4 DEF ReadStep, Frame
    <2>2. CASE state' = "failed"
      BY <2>2 DEF EndInv
    <2>3. CASE state' = "running" /\ ~Fails(inbox[nread + 1])
      <3>1. nread \in Nat /\ \A i \in 1 .. nread : ~Fails(inbox[i])
        BY <2>1, Sizes DEF EndInv
      <3>2. \A i \in 1 .. nread + 1 : i \in 1 .. nread \/ i = nread + 1
        BY <3>1
      <3>3. \A i \in 1 .. nread + 1 : ~Fails(inbox[i])
        BY <2>3, <3>1, <3>2, Zenon
      <3>4. \A i \in 1 .. nread + 1 : Fails(inbox[i])' => Fails(inbox[i])
        BY <2>1 DEF Fails, TextFits, Overflows
      <3>. QED  BY <2>1, <2>3, <3>3, <3>4 DEF EndInv
    <2>. QED  BY <2>1, <2>2, <2>3
  <1>. QED  BY <1>1, <1>2, <1>3, <1>4, StepKinds

LEMMA EndHolds == Spec => [](TypeOK /\ EndInv)
  <1>. DEFINE I == TypeOK /\ EndInv
  <1>1. I /\ [Next]_vars => I'
    <2>1. I /\ Next => I'
      BY EndStep, StepKinds
    <2>2. ASSUME I, UNCHANGED vars PROVE I'
      <3>1. TypeOK'
        BY <2>2 DEF TypeOK, vars, clientVars, handlerVars, fileVars
      <3>2. UNCHANGED <<build, inbox, finished, nread, reply, state>>
        BY <2>2 DEF vars, clientVars, handlerVars, fileVars
      <3>3. \A i \in 1 .. nread : Fails(inbox[i])' => Fails(inbox[i])
        BY <3>2 DEF Fails, TextFits, Overflows
      <3>4. EndInv'
        BY <2>2, <3>2, <3>3 DEF EndInv
      <3>. QED  BY <3>1, <3>4
    <2>. QED  BY <2>1, <2>2
  <1>. QED  BY TypeStart, EndStart, <1>1, PTL DEF Spec

\* When a handler returns Ok and finishes its stream it has read the client's side to
\* its end, everything it read was whole, and every answer went out before the end
\* (control.rs:328, 405, 464, 664).
THEOREM EndMeansServedHolds == Spec => []EndMeansServed
  <1>1. TypeOK /\ ReplyInv /\ EndInv => EndMeansServed
    <2>. SUFFICES ASSUME TypeOK, ReplyInv, EndInv, state = "ended" PROVE EndMeansServed
      BY DEF EndMeansServed
    <2>1. finished /\ nread = Len(inbox) /\ reply = <<>> /\ \A i \in 1 .. nread : ~Fails(inbox[i])
      BY DEF EndInv
    <2>2. Len(outbox) = Len(Questions)
      <3>1. Len(reply) = 0 /\ Len(outbox) \in Nat
        BY <2>1, Sizes
      <3>. QED  BY <3>1 DEF ReplyInv
    <2>3. \A i \in 1 .. nread :
             /\ inbox[i].type \notin {"Undecodable", "ShortKeyEvent", "ShortChunk"}
             /\ inbox[i].type = "TextInput" => TextFits(inbox[i])
             /\ inbox[i].type = "Content" => inbox[i].preview # "cuts a character"
      BY <2>1 DEF Fails
    <2>. QED  BY <2>1, <2>2, <2>3 DEF EndMeansServed, TextFits
  <1>. QED  BY <1>1, ReplyHolds, EndHolds, PTL

-----------------------------------------------------------------------------
(* A transfer of files. *)

LEMMA SmallRemainder ==
    ASSUME NEW a \in Nat, NEW b \in Nat, a < b
    PROVE  a % b = a
  OBVIOUS

LEMMA FileStart == Init => FileInv /\ TransferIsReported
  <1>. SUFFICES ASSUME Init PROVE FileInv /\ TransferIsReported
    OBVIOUS
  <1>1. nread = 0 /\ Len(outbox) = 0 /\ chunks_acked = 0 /\ reports = <<>>
    BY DEF Init
  <1>. QED  BY <1>1 DEF FileInv, ManifestKept, NotReported, TransferIsReported, OneTransfer

\* Neither the client nor the end of the handler touches a report.
LEMMA FileKept ==
    ASSUME FileInv, TransferIsReported, nread \in Nat,
           UNCHANGED <<kind, nread, outbox, transfer_id_seen, chunks_acked, reports>>,
           \A i \in 1 .. nread : inbox'[i] = inbox[i], Chunks' = Chunks
    PROVE  FileInv' /\ TransferIsReported'
  <1>1. nread > 0 => inbox'[1] = inbox[1]
    OBVIOUS
  <1>2. ManifestKept' <=> ManifestKept
    BY <1>1 DEF ManifestKept
  <1>3. NotReported' <=> NotReported
    BY DEF NotReported
  <1>4. OneTransfer' <=> OneTransfer
    BY <1>1 DEF OneTransfer
  <1>5. FileInv'
    BY <1>2, <1>3 DEF FileInv
  <1>6. OneTransfer => nread > 0
    BY DEF OneTransfer
  <1>. QED  BY <1>1, <1>4, <1>5, <1>6 DEF TransferIsReported

LEMMA FileStep ==
    ASSUME TypeOK, ReplyInv, FileInv, TransferIsReported, Next
    PROVE  FileInv' /\ TransferIsReported'
  <1>1. CASE ClientStep
    BY <1>1, ReadStays, FileKept, Sizes DEF ClientStep
  <1>2. CASE EndingStep
    BY <1>2, ReadKept, FileKept, Sizes DEF EndingStep
  <1>3. SUFFICES ASSUME kind = "FILE" /\ kind' = "FILE", WriteStep \/ ReadStep
                 PROVE  FileInv' /\ TransferIsReported'
    BY <1>1, <1>2, StepKinds DEF WriteStep, ReadStep, FileInv, TransferIsReported, OneTransfer
  <1>4. PICK l \in Nat : l = Len(outbox)
    BY Sizes
  <1>5. PICK c \in Nat : c = Len(Chunks) /\ c = Len(Questions)
    BY <1>3, QuestionsType, FileQuestions
  <1>6. /\ l < U32 => chunks_acked = l
        /\ ManifestKept /\ NotReported
    BY <1>3, <1>4 DEF FileInv
  <1>7. U32 \in Nat
    BY SizesAssumption
  <1>8. CASE WriteStep
    <2>1. /\ UNCHANGED <<inbox, nread, transfer_id_seen, reports>>
          /\ Len(outbox') = l + 1 /\ chunks_acked' = (chunks_acked + 1) % U32
          /\ Len(reply) = 1 /\ state = "running"
      BY <1>3, <1>4, <1>8 DEF WriteStep
    <2>2. l + 1 < U32 => chunks_acked' = l + 1
      BY <1>6, <1>7, <2>1, SmallRemainder
    <2>3. ManifestKept' /\ NotReported'
      BY <1>6, <2>1 DEF ManifestKept, NotReported
    <2>4. c = l + 1
      BY <1>4, <1>5, <2>1 DEF ReplyInv
    <2>5. Chunks' = Chunks /\ (OneTransfer' <=> OneTransfer)
      BY <1>3, <2>1, ReadKept DEF OneTransfer
    <2>6. ~OneTransfer \/ ~(c < U32)
      BY <1>4, <1>5, <2>4 DEF TransferIsReported
    <2>. QED  BY <1>5, <2>1, <2>2, <2>3, <2>5, <2>6 DEF FileInv, TransferIsReported
  <1>9. CASE ReadStep
    <2>1. /\ UNCHANGED <<inbox, outbox, chunks_acked>> /\ nread \in Nat /\ nread' = nread + 1
          /\ reply = <<>> /\ state = "running" /\ Frame = inbox[nread + 1]
          /\ Frame \in Frames(kind) /\ kind \in Kinds
      BY <1>9, Sizes DEF ReadStep, Frame, TypeOK
    <2>2. Frame.type \in {"Manifest", "EndTransfer"} => ~Fails(Frame)
      BY DEF Fails
    <2>3. /\ Frame.type = "Manifest" => transfer_id_seen' = Frame.transfer % U32
          /\ Frame.type # "Manifest" => transfer_id_seen' = transfer_id_seen
          /\ Frame.type # "EndTransfer" => reports' = reports
          /\ Frame.type = "EndTransfer" =>
               reports' = Append(reports, [transfer |-> transfer_id_seen, chunks |-> chunks_acked])
      BY <1>9, <2>2 DEF ReadStep, Reports
    <2>4. \A i \in 1 .. nread : i \in 1 .. nread'
      BY <2>1
    <2>5. nread + 1 \in 1 .. nread'
      BY <2>1
    <2>6. ManifestKept'
      <3>. SUFFICES ASSUME \A i \in 1 .. nread' : inbox[i].type = "Manifest" <=> i = 1,
                           inbox[1].transfer < U32
                    PROVE  transfer_id_seen' = inbox[1].transfer
        BY <2>1 DEF ManifestKept
      <3>1. CASE nread = 0
        <4>1. Frame.type = "Manifest" /\ Frame = inbox[1] /\ Frame.transfer \in Nat
          BY <2>1, <2>5, <3>1, FrameFields
        <4>2. Frame.transfer % U32 = Frame.transfer
          BY <1>7, <4>1, SmallRemainder
        <4>. QED  BY <2>3, <4>1, <4>2
      <3>2. CASE nread > 0
        <4>1. Frame.type # "Manifest"
          BY <2>1, <2>5, <3>2
        <4>2. transfer_id_seen = inbox[1].transfer
          BY <1>6, <2>4, <3>2 DEF ManifestKept
        <4>. QED  BY <2>3, <4>1, <4>2
      <3>. QED  BY <2>1, <3>1, <3>2
    <2>7. NotReported'
      <3>. SUFFICES ASSUME \A i \in 1 .. nread' : inbox[i].type # "EndTransfer"
                    PROVE  reports' = <<>>
        BY <2>1 DEF NotReported
      <3>. QED  BY <1>6, <2>1, <2>3, <2>4, <2>5 DEF NotReported
    <2>8. FileInv'
      BY <1>4, <1>6, <2>1, <2>6, <2>7 DEF FileInv
    <2>9. ASSUME OneTransfer', Len(Chunks') < U32
          PROVE  /\ reports' = <<[transfer |-> inbox'[1].transfer, chunks |-> Len(Chunks')]>>
                 /\ Len(outbox') = Len(Chunks')
      <3>1. /\ \A i \in 1 .. nread' : inbox[i].type = "Manifest" <=> i = 1
            /\ \A i \in 1 .. nread' : inbox[i].type = "EndTransfer" <=> i = nread'
            /\ inbox[1].transfer < U32
        BY <2>1, <2>9 DEF OneTransfer
      <3>2. Frame.type = "EndTransfer" /\ \A i \in 1 .. nread : inbox[i].type # "EndTransfer"
        BY <2>1, <2>4, <2>5, <3>1
      <3>3. nread > 0
        BY <2>1, <2>5, <3>1, <3>2
      <3>4. transfer_id_seen = inbox[1].transfer /\ reports = <<>>
        BY <1>6, <2>4, <3>1, <3>2, <3>3 DEF ManifestKept, NotReported
      <3>5. Chunks' = Chunks
        BY <1>9, <3>2, ReadGrows
      <3>6. l = c
        <4>1. Len(reply) = 0
          BY <2>1
        <4>. QED  BY <1>4, <1>5, <2>1, <4>1 DEF ReplyInv
      <3>7. chunks_acked = Len(Chunks)
        BY <1>5, <1>6, <2>9, <3>5, <3>6
      <3>8. reports' = <<[transfer |-> inbox[1].transfer, chunks |-> Len(Chunks)]>>
        BY <2>3, <3>2, <3>4, <3>7
      <3>. QED  BY <1>4, <1>5, <2>1, <3>5, <3>6, <3>8
    <2>. QED  BY <2>8, <2>9 DEF TransferIsReported
  <1>. QED  BY <1>3, <1>8, <1>9

\* A stream that keeps to one transfer is reported by the transfer's name and the
\* number of its acknowledged chunks (control.rs:594-661).
THEOREM TransferIsReportedHolds == Spec => []TransferIsReported
  <1>. DEFINE J == TypeOK /\ ReplyInv
              I == FileInv /\ TransferIsReported
  <1>1. J /\ I /\ [Next]_vars => I'
    <2>1. J /\ I /\ Next => I'
      BY FileStep
    <2>2. ASSUME J, I, UNCHANGED vars PROVE I'
      <3>1. UNCHANGED <<kind, inbox, nread, outbox, transfer_id_seen, chunks_acked, reports>>
        BY <2>2 DEF vars, clientVars, handlerVars, fileVars
      <3>. QED  BY <2>2, <3>1, ReadKept, FileKept, Sizes
    <2>. QED  BY <2>1, <2>2
  <1>2. Spec => []J
    BY ReplyHolds
  <1>. HIDE DEF J, I
  <1>3. Spec => []I
    <2>1. Init => I
      BY FileStart DEF I
    <2>. QED  BY <1>1, <1>2, <2>1, PTL DEF Spec
  <1>4. I => TransferIsReported
    BY DEF I
  <1>. QED  BY <1>3, <1>4, PTL

=============================================================================
