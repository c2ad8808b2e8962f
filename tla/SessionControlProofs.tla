------------------------ MODULE SessionControlProofs ------------------------
(***************************************************************************)
(* Theorems about what a session says on Control and about the tasks its   *)
(* dispatcher spawns, for every client and every value of the constants:   *)
(* one conversation, and grants bound in order.                            *)
(***************************************************************************)
EXTENDS SessionProofs, SequencePicksTheorems

-----------------------------------------------------------------------------
(* The frames of a kind among the first r of Control, the handshake left out. *)

ReadAmong(c, r, F) == Picked(c, {i \in 3 .. r : c[i] \in F})

OpenFrames == {f \in ClientFrame : IsOpen(f)}
GrantableFrames == {f \in ClientFrame : IsGrantable(f)}

LEMMA ReadAmongUpTo ==
    ASSUME NEW c, Len(c) \in Nat, NEW r \in 0 .. Len(c), NEW F
    PROVE  ReadAmong(c, r, F) = PickedUpTo(c, {i \in 3 .. r : c[i] \in F}, r)
  <1>. DEFINE I == {i \in 3 .. r : c[i] \in F}
              n == Len(c)
  <1>1. ReadAmong(c, r, F) = PickedUpTo(c, I, n)
    BY Zenon DEF ReadAmong, Picked
  <1>2. r \in Nat /\ n \in Nat /\ r <= n /\ \A i \in r + 1 .. n : i \notin I
    OBVIOUS
  <1>. HIDE DEF I, n
  <1>3. PickedUpTo(c, I, n) = PickedUpTo(c, I, r)
    BY <1>2, UpToConstant
  <1>. QED  BY <1>1, <1>3, Zenon DEF I

\* What was read stays read, whatever is written behind it.
LEMMA ReadAmongKept ==
    ASSUME NEW c, Len(c) \in Nat, NEW r \in 0 .. Len(c), NEW d, Len(d) \in Nat, r <= Len(d),
           \A i \in 1 .. r : d[i] = c[i], NEW F
    PROVE  ReadAmong(d, r, F) = ReadAmong(c, r, F)
  <1>. DEFINE I == {i \in 3 .. r : c[i] \in F}
              J == {i \in 3 .. r : d[i] \in F}
  <1>1. ReadAmong(c, r, F) = PickedUpTo(c, I, r)
    BY ReadAmongUpTo
  <1>2. ReadAmong(d, r, F) = PickedUpTo(d, J, r)
    BY ReadAmongUpTo
  <1>3. r \in Nat /\ \A i \in 1 .. r : (i \in I <=> i \in J) /\ (i \in I => c[i] = d[i])
    OBVIOUS
  <1>. HIDE DEF I, J
  <1>4. PickedUpTo(c, I, r) = PickedUpTo(d, J, r)
    BY <1>3, UpToSame
  <1>. QED  BY <1>1, <1>2, <1>4

\* The next frame is added when it is of the kind.
LEMMA ReadAmongNext ==
    ASSUME NEW c, Len(c) \in Nat, NEW r \in Nat, r + 1 <= Len(c), NEW F
    PROVE  /\ r + 1 >= 3 /\ c[r + 1] \in F
                => ReadAmong(c, r + 1, F) = Append(ReadAmong(c, r, F), c[r + 1])
           /\ ~(r + 1 >= 3 /\ c[r + 1] \in F)
                => ReadAmong(c, r + 1, F) = ReadAmong(c, r, F)
  <1>. DEFINE I == {i \in 3 .. r : c[i] \in F}
              J == {i \in 3 .. r + 1 : c[i] \in F}
  <1>1. ReadAmong(c, r, F) = PickedUpTo(c, I, r)
    <2>1. r \in 0 .. Len(c)
      OBVIOUS
    <2>. QED  BY <2>1, ReadAmongUpTo
  <1>2. ReadAmong(c, r + 1, F) = PickedUpTo(c, J, r + 1)
    <2>1. r + 1 \in 0 .. Len(c)
      OBVIOUS
    <2>. QED  BY <2>1, ReadAmongUpTo
  <1>3. /\ \A i \in 1 .. r : (i \in I <=> i \in J) /\ (i \in I => c[i] = c[i])
        /\ r + 1 \in J <=> (r + 1 >= 3 /\ c[r + 1] \in F)
    OBVIOUS
  <1>. HIDE DEF I, J
  <1>4. PickedUpTo(c, I, r) = PickedUpTo(c, J, r)
    BY <1>3, UpToSame
  <1>5. /\ r + 1 \in J => PickedUpTo(c, J, r + 1) = Append(PickedUpTo(c, J, r), c[r + 1])
        /\ r + 1 \notin J => PickedUpTo(c, J, r + 1) = PickedUpTo(c, J, r)
    BY UpToNext
  <1>. QED  BY <1>1, <1>2, <1>3, <1>4, <1>5

LEMMA ReadAmongType ==
    ASSUME NEW c \in Seq(ClientFrame), NEW r \in 0 .. Len(c), NEW F
    PROVE  /\ ReadAmong(c, r, F) \in Seq(F)
           /\ r < 3 => ReadAmong(c, r, F) = <<>>
  <1>. DEFINE I == {i \in 3 .. r : c[i] \in F}
  <1>1. Len(c) \in Nat /\ \A i \in 1 .. Len(c) : i \in I => c[i] \in F
    BY LenProperties
  <1>2. r < 3 => \A i \in 1 .. Len(c) : i \notin I
    BY <1>1
  <1>3. ReadAmong(c, r, F) = Picked(c, I)
    BY Zenon DEF ReadAmong
  <1>. HIDE DEF I
  <1>4. Picked(c, I) \in Seq(F)
    <2>1. HoldsTheChosen(Picked(c, I), c, I, Len(c), F)
      BY <1>1, PickedElements
    <2>. QED  BY <2>1, Zenon DEF HoldsTheChosen
  <1>5. r < 3 => Picked(c, I) = <<>>
    BY <1>1, <1>2, PickedNone
  <1>. QED  BY <1>3, <1>4, <1>5

LEMMA OpensRead ==
    ASSUME TypeOK
    PROVE  /\ Opens = ReadAmong(fromClient, read, OpenFrames)
           /\ Granted = ReadAmong(fromClient, read, GrantableFrames)
  <1>1. \A i \in 3 .. read : fromClient[i] \in ClientFrame
    <2>1. fromClient \in Seq(ClientFrame) /\ Len(fromClient) \in Nat
          /\ \A i \in 3 .. read : i \in 1 .. Len(fromClient)
      BY LenProperties DEF TypeOK
    <2>. QED  BY <2>1, ElementOfSeq
  <1>2. {i \in 3 .. read : IsOpen(fromClient[i])}
            = {i \in 3 .. read : fromClient[i] \in OpenFrames}
    BY <1>1 DEF OpenFrames
  <1>3. {i \in 3 .. read : IsGrantable(fromClient[i])}
            = {i \in 3 .. read : fromClient[i] \in GrantableFrames}
    BY <1>1 DEF GrantableFrames
  <1>. QED  BY <1>2, <1>3, Zenon DEF Opens, Granted, ReadAmong

LEMMA OpensType ==
    ASSUME TypeOK
    PROVE  /\ Opens \in Seq(OpenFrames) /\ Granted \in Seq(GrantableFrames)
           /\ read < 3 => Opens = <<>> /\ Granted = <<>>
  BY OpensRead, ReadAmongType DEF TypeOK

\* Reading one more frame of the dispatcher adds it, if it is an OpenChannel; no other
\* step touches what was read.
LEMMA OpensStep ==
    ASSUME TypeInv, [Next]_vars
    PROVE  /\ read' = read => Opens' = Opens /\ Granted' = Granted
           /\ read' = read + 1 =>
                /\ Opens' = IF read' >= 3 /\ IsOpen(fromClient'[read'])
                            THEN Append(Opens, fromClient'[read']) ELSE Opens
                /\ Granted' = IF read' >= 3 /\ IsGrantable(fromClient'[read'])
                              THEN Append(Granted, fromClient'[read']) ELSE Granted
  <1>. DEFINE c == fromClient
              d == fromClient'
              r == read
              Among(e, q, F) == ReadAmong(e, q, F)
  <1>1. TypeOK /\ TypeOK'
    BY TypeStep DEF TypeInv
  <1>2. /\ Opens = ReadAmong(c, r, OpenFrames) /\ Granted = ReadAmong(c, r, GrantableFrames)
        /\ Opens' = ReadAmong(d, read', OpenFrames)
        /\ Granted' = ReadAmong(d, read', GrantableFrames)
    <2>1. Opens = ReadAmong(c, r, OpenFrames) /\ Granted = ReadAmong(c, r, GrantableFrames)
      BY <1>1, OpensRead
    <2>2. (/\ Opens = ReadAmong(fromClient, read, OpenFrames)
           /\ Granted = ReadAmong(fromClient, read, GrantableFrames))'
      BY <1>1, OpensRead, PTL
    <2>3. OpenFrames' = OpenFrames /\ GrantableFrames' = GrantableFrames
      BY DEF OpenFrames, GrantableFrames
    <2>. QED  BY <2>1, <2>2, <2>3
  <1>3. /\ Len(c) \in Nat /\ Len(d) \in Nat /\ r \in 0 .. Len(c) /\ read' \in 0 .. Len(d)
        /\ \A i \in 1 .. read' : d[i] \in ClientFrame
    <2>1. d \in Seq(ClientFrame) /\ read' \in 0 .. Len(d) /\ c \in Seq(ClientFrame)
          /\ r \in 0 .. Len(c)
      BY <1>1 DEF TypeOK
    <2>2. Len(d) \in Nat /\ \A i \in 1 .. Len(d) : d[i] \in ClientFrame
      BY <2>1, LenProperties, ElementOfSeq
    <2>. QED  BY <2>1, <2>2, LenProperties
  <1>4. \A i \in 1 .. r : d[i] = c[i]
    BY ReadIsKept
  <1>5. ASSUME r <= Len(d), NEW F PROVE ReadAmong(d, r, F) = ReadAmong(c, r, F)
    BY <1>3, <1>4, <1>5, ReadAmongKept
  <1>6. CASE read' = read
    BY <1>2, <1>3, <1>5, <1>6
  <1>7. CASE read' = read + 1
    <2>1. r + 1 <= Len(d) /\ r \in Nat /\ r <= Len(d) /\ d[r + 1] \in ClientFrame
      BY <1>3, <1>7
    <2>2. \A F : /\ r + 1 >= 3 /\ d[r + 1] \in F
                      => ReadAmong(d, r + 1, F) = Append(ReadAmong(d, r, F), d[r + 1])
                 /\ ~(r + 1 >= 3 /\ d[r + 1] \in F)
                      => ReadAmong(d, r + 1, F) = ReadAmong(d, r, F)
      BY <1>3, <2>1, ReadAmongNext
    <2>3. /\ d[r + 1] \in OpenFrames <=> IsOpen(d[r + 1])
          /\ d[r + 1] \in GrantableFrames <=> IsGrantable(d[r + 1])
      BY <2>1 DEF OpenFrames, GrantableFrames
    <2>4. /\ ReadAmong(d, r, OpenFrames) = Opens
          /\ ReadAmong(d, r, GrantableFrames) = Granted
      BY <1>2, <1>5, <2>1
    <2>5. Opens' = ReadAmong(d, r + 1, OpenFrames) /\ Granted' = ReadAmong(d, r + 1, GrantableFrames)
      BY <1>2, <1>7
    <2>6. /\ r + 1 >= 3 /\ IsOpen(d[r + 1]) => Opens' = Append(Opens, d[r + 1])
          /\ ~(r + 1 >= 3 /\ IsOpen(d[r + 1])) => Opens' = Opens
      BY <2>2, <2>3, <2>4, <2>5
    <2>7. /\ r + 1 >= 3 /\ IsGrantable(d[r + 1]) => Granted' = Append(Granted, d[r + 1])
          /\ ~(r + 1 >= 3 /\ IsGrantable(d[r + 1])) => Granted' = Granted
      BY <2>2, <2>3, <2>4, <2>5
    <2>. QED  BY <1>3, <1>7, <2>6, <2>7
  <1>. QED  BY <1>6, <1>7, <1>3

-----------------------------------------------------------------------------
(* One conversation. *)

AckOf(f) == Ack(f.id, OpenStatus(f.kind))

Preamble == <<ServerHello, AuthResult("OK"),
              Announce("DISPLAY", DisplayId), Announce("CURSOR", CursorId)>>

\* The script for any sequence of OpenChannels.
ScriptFor(opens) == Preamble \o [i \in DOMAIN opens |-> AckOf(opens[i])]

LEMMA ScriptIsScriptFor == Script = ScriptFor(Opens) /\ Script' = ScriptFor(Opens')
  BY DEF Script, ScriptFor, AckOf, Preamble

LEMMA AckIsServerFrame ==
    ASSUME NEW f \in OpenFrames
    PROVE  AckOf(f) \in ServerFrame
  <1>1. f.kind \in ClientKinds /\ f.id \in ChannelIds
    BY FrameFields DEF OpenFrames, IsOpen
  <1>2. OpenStatus(f.kind) \in Statuses
    BY DEF OpenStatus, Statuses
  <1>. QED  BY <1>1, <1>2 DEF AckOf, Ack, ServerFrame

LEMMA PreambleType == Preamble \in Seq(ServerFrame) /\ Len(Preamble) = 4
  <1>1. /\ ServerHello \in ServerFrame /\ AuthResult("OK") \in ServerFrame
        /\ Announce("DISPLAY", DisplayId) \in ServerFrame
        /\ Announce("CURSOR", CursorId) \in ServerFrame
    BY DEF ServerFrame, AuthResult, Statuses
  <1>. QED  BY <1>1 DEF Preamble

\* Without an OpenChannel the script ends with the announcements; each OpenChannel
\* adds its ack at the end.
LEMMA ScriptStart == ScriptFor(<<>>) = Preamble
  <1>1. [i \in DOMAIN <<>> |-> AckOf(<<>>[i])] = <<>>
    OBVIOUS
  <1>. QED  BY <1>1, PreambleType, ConcatEmptySeq DEF ScriptFor

LEMMA ScriptNext ==
    ASSUME NEW opens \in Seq(OpenFrames), NEW f \in OpenFrames
    PROVE  /\ ScriptFor(opens) \in Seq(ServerFrame)
           /\ ScriptFor(Append(opens, f)) = Append(ScriptFor(opens), AckOf(f))
  <1>. DEFINE longer == Append(opens, f)
              a == [i \in DOMAIN opens |-> AckOf(opens[i])]
              b == [i \in DOMAIN longer |-> AckOf(longer[i])]
              n == Len(opens)
  <1>1. /\ n \in Nat /\ DOMAIN opens = 1 .. n /\ DOMAIN longer = 1 .. n + 1
        /\ \A i \in 1 .. n : longer[i] = opens[i] /\ opens[i] \in OpenFrames
        /\ longer[n + 1] = f
    BY LenProperties, AppendProperties, ElementOfSeq
  <1>2. a = [i \in 1 .. n |-> AckOf(opens[i])] /\ b = [i \in 1 .. n + 1 |-> AckOf(longer[i])]
    BY <1>1
  <1>3. /\ \A i \in 1 .. n : AckOf(opens[i]) \in ServerFrame /\ AckOf(longer[i]) = AckOf(opens[i])
        /\ AckOf(longer[n + 1]) = AckOf(f) /\ AckOf(f) \in ServerFrame
    BY <1>1, AckIsServerFrame
  <1>. HIDE DEF n, longer
  <1>4. a \in Seq(ServerFrame) /\ Len(a) = n
    BY <1>1, <1>2, <1>3
  <1>5. b = Append(a, AckOf(f))
    <2>1. b \in Seq(ServerFrame) /\ Len(b) = n + 1
      BY <1>1, <1>2, <1>3
    <2>2. Append(a, AckOf(f)) \in Seq(ServerFrame) /\ Len(Append(a, AckOf(f))) = n + 1
      BY <1>3, <1>4, AppendProperties
    <2>3. \A i \in 1 .. n + 1 : b[i] = Append(a, AckOf(f))[i]
      <3>1. TAKE i \in 1 .. n + 1
      <3>2. CASE i = n + 1
        BY <1>2, <1>3, <1>4, <3>2, AppendProperties
      <3>3. CASE i \in 1 .. n
        BY <1>2, <1>3, <1>4, <3>3, AppendProperties
      <3>. QED  BY <1>1, <3>2, <3>3
    <2>. HIDE DEF a, b
    <2>. QED  BY <2>1, <2>2, <2>3, SeqEqual
  <1>6. /\ Preamble \in Seq(ServerFrame) /\ ScriptFor(opens) = Preamble \o a
        /\ ScriptFor(longer) = Preamble \o b
    BY PreambleType, Zenon DEF ScriptFor
  <1>. HIDE DEF a, b
  <1>7. Preamble \o b = Append(Preamble \o a, AckOf(f))
    <2>. DEFINE x == AckOf(f)
    <2>1. <<x>> \in Seq(ServerFrame) /\ x \in ServerFrame /\ b = a \o <<x>>
      BY <1>3, <1>4, <1>5, AppendIsConcat
    <2>. HIDE DEF x
    <2>2. Preamble \o b = (Preamble \o a) \o <<x>>
      BY <1>4, <1>6, <2>1, ConcatAssociative
    <2>3. Preamble \o a \in Seq(ServerFrame)
      BY <1>4, <1>6, ConcatProperties
    <2>. QED  BY <2>1, <2>2, <2>3, AppendIsConcat DEF x
  <1>. QED  BY <1>4, <1>6, <1>7, ConcatProperties DEF longer

\* What has been written, for each phase.
Greeted == <<ServerHello, AuthResult("OK")>>

ConversationInv ==
    /\ phase = "hello" => read = 0 /\ toClient = <<>>
    /\ phase = "auth" => read = 1 /\ toClient = <<ServerHello>>
    /\ phase = "announceDisplay" => read = 2 /\ toClient = Greeted
    /\ phase \in {"openDisplay", "announceCursor"} =>
          read = 2 /\ toClient = Append(Greeted, Announce("DISPLAY", DisplayId))
    /\ phase = "openCursor" => read = 2 /\ toClient = Script
    /\ phase \in {"dispatch", "bind", "drain"} => read >= 2 /\ toClient = Script
    /\ phase = "closed" =>
          \/ toClient = Script
          \/ /\ Len(toClient) = 2
             /\ toClient = <<ServerHello, AuthResult(AuthStatus(fromClient[2]))>>
    /\ phase = "failed" => IsPrefixOf(toClient, Script)

LEMMA PrefixOfPreamble ==
    ASSUME NEW n \in 0 .. 4, NEW s, s \in Seq(ServerFrame), Len(s) = n,
           \A i \in 1 .. n : s[i] = Preamble[i]
    PROVE  IsPrefixOf(s, Preamble)
  BY PreambleType, LenProperties DEF IsPrefixOf

\* Up to the dispatcher the script is its preamble, and what was written is a prefix.
LEMMA WrittenIsPrefix ==
    ASSUME TypeInv, ConversationInv, phase # "closed"
    PROVE  /\ IsPrefixOf(toClient, Script)
           /\ read <= 2 => Script = Preamble
  <1>1. toClient \in Seq(ServerFrame) /\ read \in Nat
    BY LenProperties DEF TypeInv, TypeOK
  <1>2. read <= 2 => Script = Preamble
    BY <1>1, OpensType, ScriptIsScriptFor, ScriptStart DEF TypeInv
  <1>3. IsPrefixOf(Script, Script)
    BY DEF IsPrefixOf, Script
  <1>4. CASE phase \in {"hello", "auth", "announceDisplay", "openDisplay", "announceCursor"}
    <2>1. read <= 2
      BY <1>4 DEF ConversationInv
    <2>2. IsPrefixOf(toClient, Preamble)
      <3>1. toClient \in {<<>>, <<ServerHello>>, Greeted,
                          Append(Greeted, Announce("DISPLAY", DisplayId))}
        BY <1>4 DEF ConversationInv
      <3>2. Len(toClient) \in 0 .. 4
        BY <1>1, <3>1 DEF Greeted
      <3>3. \A i \in 1 .. Len(toClient) : toClient[i] = Preamble[i]
        BY <1>1, <3>1 DEF Greeted, Preamble
      <3>. QED  BY <1>1, <3>2, <3>3, PrefixOfPreamble
    <2>. QED  BY <1>2, <2>1, <2>2
  <1>5. CASE phase \in {"openCursor", "dispatch", "bind", "drain"}
    <2>1. toClient = Script
      BY <1>5 DEF ConversationInv
    <2>. QED  BY <1>2, <1>3, <2>1
  <1>6. CASE phase = "failed"
    BY <1>2, <1>6 DEF ConversationInv
  <1>7. phase \in Phases
    BY DEF TypeInv, TypeOK
  <1>. QED  BY <1>4, <1>5, <1>6, <1>7 DEF Phases

LEMMA AppendToTuples ==
    ASSUME NEW a, NEW b, NEW c, NEW d
    PROVE  /\ Append(<<a>>, b) = <<a, b>>
           /\ Append(Append(<<a, b>>, c), d) = <<a, b, c, d>>
  <1>. DEFINE S == {a, b, c, d}
  <1>1. /\ <<a>> \in Seq(S) /\ <<a, b>> \in Seq(S) /\ <<a, b, c>> \in Seq(S)
        /\ <<a, b, c, d>> \in Seq(S) /\ b \in S /\ c \in S /\ d \in S
    OBVIOUS
  <1>. HIDE DEF S
  <1>2. Append(<<a>>, b) = <<a, b>>
    <2>. DEFINE t == Append(<<a>>, b)
                u == <<a, b>>
    <2>1. t \in Seq(S) /\ Len(t) = 2 /\ t[1] = a /\ t[2] = b
      BY <1>1, AppendProperties
    <2>2. u \in Seq(S) /\ Len(u) = 2 /\ u[1] = a /\ u[2] = b
      BY <1>1
    <2>. HIDE DEF t, u
    <2>3. Len(t) = Len(u) /\ \A i \in 1 .. Len(t) : t[i] = u[i]
      BY <2>1, <2>2
    <2>4. t = u
      BY <2>1, <2>2, <2>3, SeqEqual
    <2>. QED  BY <2>4 DEF t, u
  <1>3. Append(<<a, b>>, c) = <<a, b, c>>
    <2>. DEFINE t == Append(<<a, b>>, c)
                u == <<a, b, c>>
    <2>1. t \in Seq(S) /\ Len(t) = 3 /\ t[1] = a /\ t[2] = b /\ t[3] = c
      BY <1>1, AppendProperties
    <2>2. u \in Seq(S) /\ Len(u) = 3 /\ u[1] = a /\ u[2] = b /\ u[3] = c
      BY <1>1
    <2>. HIDE DEF t, u
    <2>3. Len(t) = Len(u) /\ \A i \in 1 .. Len(t) : t[i] = u[i]
      BY <2>1, <2>2
    <2>4. t = u
      BY <2>1, <2>2, <2>3, SeqEqual
    <2>. QED  BY <2>4 DEF t, u
  <1>4. Append(<<a, b, c>>, d) = <<a, b, c, d>>
    <2>. DEFINE t == Append(<<a, b, c>>, d)
                u == <<a, b, c, d>>
    <2>1. t \in Seq(S) /\ Len(t) = 4 /\ t[1] = a /\ t[2] = b /\ t[3] = c /\ t[4] = d
      BY <1>1, AppendProperties
    <2>2. u \in Seq(S) /\ Len(u) = 4 /\ u[1] = a /\ u[2] = b /\ u[3] = c /\ u[4] = d
      BY <1>1
    <2>. HIDE DEF t, u
    <2>3. Len(t) = Len(u) /\ \A i \in 1 .. Len(t) : t[i] = u[i]
      BY <2>1, <2>2
    <2>4. t = u
      BY <2>1, <2>2, <2>3, SeqEqual
    <2>. QED  BY <2>4 DEF t, u
  <1>. QED  BY <1>2, <1>3, <1>4

LEMMA ConversationInit == Init => ConversationInv
  BY DEF Init, ConversationInv

\* The steps that write, or read a frame.
LEMMA ConversationSessionTask ==
    ASSUME TypeInv, ConversationInv, SessionTask \/ StreamBroken
    PROVE  ConversationInv'
  <1>0. [Next]_vars /\ TypeInv' /\ read \in Nat
    <2>1. [Next]_vars
      BY DEF Next
    <2>. QED  BY <2>1, TypeStep, LenProperties DEF TypeInv, TypeOK
  <1>1. CASE Greet
    <2>1. read' = 1 /\ toClient' = <<ServerHello>> /\ phase' = "auth"
      BY <1>1 DEF Greet, ConversationInv, Write
    <2>. QED  BY <2>1 DEF ConversationInv
  <1>2. CASE Authenticate
    <2>1. /\ read = 1 /\ toClient = <<ServerHello>> /\ read' = 2 /\ fromClient' = fromClient
          /\ toClient' = Append(toClient, AuthResult(AuthStatus(NextFrame)))
          /\ phase' = IF AuthStatus(NextFrame) = "OK" THEN "announceDisplay" ELSE "closed"
      BY <1>2 DEF Authenticate, ConversationInv, Write, clientVars
    <2>2. /\ toClient' = <<ServerHello, AuthResult(AuthStatus(NextFrame))>>
          /\ fromClient'[2] = NextFrame
      BY <2>1, AppendToTuples DEF NextFrame
    <2>3. Len(toClient') = 2
      BY <2>2
    <2>. QED  BY <2>1, <2>2, <2>3 DEF ConversationInv, Greeted
  <1>3. CASE AnnounceDisplay
    BY <1>3 DEF AnnounceDisplay, AnnounceSender, ConversationInv, Write
  <1>4. CASE OpenDisplay
    BY <1>4 DEF OpenDisplay, OpenSender, ConversationInv
  <1>5. CASE AnnounceCursor
    <2>1. /\ read = 2 /\ read' = 2 /\ phase' = "openCursor"
          /\ toClient' = Append(Append(Greeted, Announce("DISPLAY", DisplayId)),
                                Announce("CURSOR", CursorId))
      BY <1>5 DEF AnnounceCursor, AnnounceSender, ConversationInv, Write
    <2>2. toClient' = Preamble
      <3>. DEFINE a == ServerHello
                  b == AuthResult("OK")
                  c == Announce("DISPLAY", DisplayId)
                  d == Announce("CURSOR", CursorId)
      <3>1. toClient' = Append(Append(<<a, b>>, c), d)
        BY <2>1, Zenon DEF Greeted
      <3>. HIDE DEF a, b, c, d
      <3>2. toClient' = <<a, b, c, d>>
        BY <3>1, AppendToTuples, ZenonT(60)
      <3>. QED  BY <3>2, Zenon DEF Preamble, a, b, c, d
    <2>3. Script' = Script /\ Script = Preamble
      <3>1. Opens' = Opens /\ Opens = <<>>
        BY <1>0, <2>1, OpensStep, OpensType DEF TypeInv
      <3>. QED  BY <3>1, ScriptIsScriptFor, ScriptStart
    <2>. QED  BY <2>1, <2>2, <2>3 DEF ConversationInv
  <1>6. CASE OpenCursor \/ BindStream \/ EndOfControl \/ Finish
    <2>1. /\ phase \in {"openCursor", "dispatch", "bind", "drain"}
          /\ phase' \in {"dispatch", "drain", "closed"}
          /\ read' = read /\ toClient' = toClient
      BY <1>6 DEF OpenCursor, OpenSender, BindStream, EndOfControl, Finish
    <2>2. Script' = Script
      BY <1>0, <2>1, OpensStep, ScriptIsScriptFor
    <2>3. toClient = Script /\ read >= 2
      BY <2>1 DEF ConversationInv
    <2>. QED  BY <2>1, <2>2, <2>3 DEF ConversationInv
  <1>7. CASE IgnoreFrame
    <2>1. /\ read' = read + 1 /\ toClient' = toClient /\ phase' = "dispatch"
          /\ ~IsOpen(fromClient'[read']) /\ toClient = Script /\ read >= 2
      BY <1>7 DEF IgnoreFrame, IsOpen, NextFrame, ConversationInv, clientVars
    <2>2. Script' = Script
      BY <1>0, <2>1, OpensStep, ScriptIsScriptFor
    <2>. QED  BY <1>0, <2>1, <2>2 DEF ConversationInv
  <1>8. CASE AnswerOpenChannel
    <2>1. /\ read' = read + 1 /\ phase' \in {"dispatch", "bind"} /\ fromClient' = fromClient
          /\ toClient' = Append(toClient, AckOf(NextFrame))
          /\ Arrived /\ IsOpen(NextFrame) /\ toClient = Script /\ read >= 2
      BY <1>8 DEF AnswerOpenChannel, IsOpen, ConversationInv, clientVars, Write, AckOf
    <2>2. NextFrame \in OpenFrames /\ fromClient'[read'] = NextFrame
      BY <2>1, NextFrameType DEF OpenFrames, TypeInv, NextFrame
    <2>3. Opens' = Append(Opens, NextFrame)
      BY <1>0, <2>1, <2>2, OpensStep
    <2>4. Opens \in Seq(OpenFrames)
      BY OpensType DEF TypeInv
    <2>5. Script' = Append(Script, AckOf(NextFrame))
      BY <2>2, <2>3, <2>4, ScriptIsScriptFor, ScriptNext
    <2>. QED  BY <1>0, <2>1, <2>5 DEF ConversationInv
  <1>9. CASE RejectFrame \/ EarlyEof \/ Disconnected \/ StreamBroken
    <2>1. /\ phase' = "failed" /\ UNCHANGED <<fromClient, toClient>>
          /\ phase \notin {"drain", "closed", "failed"}
      BY <1>9 DEF RejectFrame, EarlyEof, Disconnected, StreamBroken, Fail, clientVars
    <2>2. \/ read' = read
          \/ read' = read + 1 /\ ~(read' >= 3 /\ IsOpen(fromClient'[read']))
      <3>1. CASE RejectFrame
        <4>1. /\ read' = read + 1
              /\ phase \in {"hello", "auth"} \/ NextFrame.type = "Malformed"
          BY <3>1 DEF RejectFrame
        <4>2. phase \in {"hello", "auth"} => read <= 1
          BY DEF ConversationInv
        <4>3. NextFrame.type = "Malformed" => ~IsOpen(fromClient'[read'])
          BY <2>1, <4>1 DEF NextFrame, IsOpen
        <4>. QED  BY <1>0, <4>1, <4>2, <4>3
      <3>2. CASE ~RejectFrame
        BY <1>9, <3>2 DEF EarlyEof, Disconnected, StreamBroken
      <3>. QED  BY <3>1, <3>2
    <2>3. Script' = Script
      BY <1>0, <2>2, OpensStep, ScriptIsScriptFor
    <2>4. IsPrefixOf(toClient, Script)
      BY <2>1, WrittenIsPrefix
    <2>5. IsPrefixOf(toClient, Script)'
      BY <2>1, <2>3, <2>4 DEF IsPrefixOf
    <2>. QED  BY <2>1, <2>5 DEF ConversationInv
  <1>. QED  BY <1>1, <1>2, <1>3, <1>4, <1>5, <1>6, <1>7, <1>8, <1>9 DEF SessionTask, Advance

LEMMA ConversationStep == TypeInv /\ ConversationInv /\ [Next]_vars => ConversationInv'
  <1>. SUFFICES ASSUME TypeInv, ConversationInv, [Next]_vars PROVE ConversationInv'
    OBVIOUS
  <1>1. CASE SessionTask \/ StreamBroken
    BY <1>1, ConversationSessionTask
  <1>2. CASE ~(SessionTask \/ StreamBroken)
    <2>1. UNCHANGED <<phase, read, toClient>>
      BY <1>2 DEF Next, ChannelTask, TaskBroken, Client, ClientWrites, ClientFinishes,
           ClientOpens, ClientSends, ClientEnds, ConnectionLost, vars, clientVars, serverVars
    <2>2. Script' = Script
      BY <2>1, OpensStep, ScriptIsScriptFor
    <2>3. phase = "closed" /\ toClient # Script => fromClient' = fromClient
      <3>1. ASSUME phase = "closed", fromClient' # fromClient PROVE FALSE
        BY <1>2, <3>1 DEF Next, ChannelTask, TaskBroken, Client, ClientWrites, ClientFinishes,
           ClientOpens, ClientSends, ClientEnds, ConnectionLost, vars, clientVars, serverVars, Over
      <3>. QED  BY <3>1
    <2>4. IsPrefixOf(toClient, Script)' <=> IsPrefixOf(toClient, Script)
      BY <2>1, <2>2 DEF IsPrefixOf
    <2>. QED  BY <2>1, <2>2, <2>3, <2>4 DEF ConversationInv
  <1>. QED  BY <1>1, <1>2

LEMMA ConversationInvariance == Spec => []ConversationInv
  BY ConversationInit, ConversationStep, TypeInvariance, PTL DEF Spec

\* One conversation on Control, whatever the client writes on it: nothing skipped,
\* nothing answered twice, and every answer in the order of its question.
THEOREM OneConversationHolds == Spec => []OneConversation
  <1>1. TypeInv /\ ConversationInv => OneConversation
    <2>. SUFFICES ASSUME TypeInv, ConversationInv PROVE OneConversation
      OBVIOUS
    <2>1. IsPrefixOf(Script, Script)
      BY DEF IsPrefixOf, Script
    <2>2. CASE phase = "closed"
      BY <2>1, <2>2 DEF ConversationInv, OneConversation
    <2>3. CASE phase # "closed"
      BY <2>3, WrittenIsPrefix DEF ConversationInv, OneConversation
    <2>. QED  BY <2>2, <2>3
  <1>. QED  BY <1>1, TypeInvariance, ConversationInvariance, PTL

-----------------------------------------------------------------------------
(* Grants bound in order.  The two senders come first and serve no client      *)
(* stream; behind them each task has its grant and its stream, and the grant   *)
(* awaiting its stream, if there is one, is the last.                          *)

Tasks == {h \in DOMAIN handlers : ~IsSender(h)}

SendersFirst ==
    /\ \A h \in DOMAIN handlers :
          (IsSender(h) <=> h <= 2) /\ (IsSender(h) => handlers[h].stream = 0)
    /\ phase \in {"hello", "auth", "announceDisplay", "openDisplay"} => Len(handlers) = 0
    /\ phase \in {"announceCursor", "openCursor"} => Len(handlers) = 1
    /\ phase \in {"dispatch", "bind", "drain"} => Len(handlers) >= 2

LastGrant ==
    /\ phase \notin {"bind", "failed"} => grant = NoGrant
    /\ phase = "bind" => grant # NoGrant
    /\ Len(handlers) < 2 => Len(Granted) = 0 /\ grant = NoGrant
    /\ Len(handlers) >= 2 =>
          Len(Granted) = Len(handlers) - 2 + (IF grant = NoGrant THEN 0 ELSE 1)
    /\ grant # NoGrant =>
          /\ Granted[Len(Granted)].kind = grant.kind
          /\ Granted[Len(Granted)].id = grant.id

Bound(h) ==
    /\ h - 2 <= Len(Granted)
    /\ handlers[h].kind = Granted[h - 2].kind
    /\ handlers[h].id = Granted[h - 2].id
    /\ handlers[h].stream \in DOMAIN streams
    /\ streams[handlers[h].stream].dir = Direction(handlers[h].kind)
    /\ \A s \in 1 .. handlers[h].stream - 1 :
          streams[s].dir = Direction(handlers[h].kind)
              => \E g \in Tasks : g < h /\ handlers[g].stream = s

TasksBound ==
    /\ \A h \in Tasks : Bound(h)
    /\ \A g, h \in Tasks : g # h => handlers[g].stream # handlers[h].stream

GrantInv == SendersFirst /\ LastGrant /\ TasksBound

LEMMA GrantInit == Init => GrantInv
  <1>. SUFFICES ASSUME Init PROVE GrantInv
    OBVIOUS
  <1>1. phase = "hello" /\ grant = NoGrant /\ handlers = <<>> /\ read = 0 /\ TypeOK
    BY TypeInit DEF Init, TypeInv
  <1>2. Granted = <<>> /\ Len(handlers) = 0 /\ DOMAIN handlers = {}
    BY <1>1, OpensType
  <1>. QED  BY <1>1, <1>2 DEF GrantInv, SendersFirst, LastGrant, TasksBound, Tasks

\* A step that spawns nothing and grants nothing leaves every task bound, to the same
\* stream, whatever streams come behind.
LEMMA TasksStayBound ==
    ASSUME TypeInv, TasksBound, Granted' = Granted,
           Len(handlers') = Len(handlers), DOMAIN handlers' = DOMAIN handlers,
           \A h \in DOMAIN handlers : /\ handlers'[h].kind = handlers[h].kind
                                      /\ handlers'[h].id = handlers[h].id
                                      /\ handlers'[h].stream = handlers[h].stream,
           \A s \in DOMAIN streams : s \in DOMAIN streams' /\ streams'[s].dir = streams[s].dir
    PROVE  TasksBound'
  <1>1. Tasks' = Tasks /\ Tasks \subseteq DOMAIN handlers
    BY DEF Tasks, IsSender
  <1>2. ASSUME NEW h \in Tasks PROVE Bound(h)'
    <2>. DEFINE s == handlers[h].stream
    <2>1. /\ h \in DOMAIN handlers /\ Bound(h)
          /\ handlers'[h].kind = handlers[h].kind /\ handlers'[h].id = handlers[h].id
          /\ handlers'[h].stream = s
      BY <1>1, <1>2 DEF TasksBound
    <2>2. s \in DOMAIN streams /\ s \in DOMAIN streams' /\ streams'[s].dir = streams[s].dir
      BY <2>1 DEF Bound
    <2>3. \A t \in 1 .. s - 1 : t \in DOMAIN streams
      BY <2>2, LenProperties DEF TypeInv, TypeOK
    <2>4. ASSUME NEW t \in 1 .. s - 1, streams'[t].dir = Direction(handlers'[h].kind)
          PROVE  \E g \in Tasks' : g < h /\ handlers'[g].stream = t
      <3>1. streams[t].dir = Direction(handlers[h].kind)
        BY <2>1, <2>3, <2>4
      <3>2. PICK g \in Tasks : g < h /\ handlers[g].stream = t
        BY <2>1, <3>1 DEF Bound
      <3>. QED  BY <1>1, <3>2
    <2>. HIDE DEF s
    <2>. QED  BY <2>1, <2>2, <2>4 DEF Bound, s
  <1>3. \A g, h \in Tasks : g # h => handlers'[g].stream # handlers'[h].stream
    BY <1>1 DEF TasksBound
  <1>. QED  BY <1>1, <1>2, <1>3 DEF TasksBound

\* The task spawned by BindStream gets the last grant, and the oldest stream of its
\* direction: the older ones have their tasks.
LEMMA BindStreamBinds ==
    ASSUME TypeInv, GrantInv, BindStream, Granted' = Granted
    PROVE  GrantInv'
  <1>1. PICK s \in DOMAIN streams :
            /\ IsOldest(s, Direction(grant.kind))
            /\ handlers' = Append(handlers, Task(grant.kind, grant.id, s))
    BY DEF BindStream
  <1>0. PICK n \in Nat, m \in Nat : n = Len(handlers) /\ m = n + 1
    BY LenProperties DEF TypeInv, TypeOK
  <1>2. /\ phase = "bind" /\ grant # NoGrant /\ grant' = NoGrant /\ phase' = "dispatch"
        /\ streams' = streams /\ grant \in Grants /\ n >= 2
        /\ streams \in Seq(Stream) /\ handlers \in Seq(Handler)
    BY <1>0 DEF BindStream, GrantInv, LastGrant, SendersFirst, clientVars, TypeInv, TypeOK
  <1>3. s \in Nat /\ s # 0 /\ DOMAIN streams = 1 .. Len(streams) /\ Len(streams) \in Nat
    BY <1>2, LenProperties
  <1>4. grant.kind \in SupportedKinds /\ grant.id \in ChannelIds /\ grant.kind \notin SenderKinds
    BY <1>2 DEF Grants, SupportedKinds, UniKinds, BiKinds, SenderKinds
  <1>5. /\ Len(handlers') = m /\ DOMAIN handlers' = 1 .. m /\ DOMAIN handlers = 1 .. n
        /\ \A h \in 1 .. n : handlers'[h] = handlers[h]
        /\ handlers'[m].kind = grant.kind /\ handlers'[m].id = grant.id
        /\ handlers'[m].stream = s
    <2>. DEFINE t == Task(grant.kind, grant.id, s)
    <2>1. t \in Handler /\ t.kind = grant.kind /\ t.id = grant.id /\ t.stream = s
      BY <1>3, <1>4 DEF Task, Handler, HandlerStates
    <2>. HIDE DEF t
    <2>2. handlers' = Append(handlers, t)
      BY <1>1 DEF t
    <2>3. handlers' \in Seq(Handler)
      BY <1>2, <2>1, <2>2, AppendProperties
    <2>. QED  BY <1>0, <1>2, <2>1, <2>2, <2>3, AppendProperties, LenProperties
  <1>6. m = n + 1 /\ n \in Nat /\ n = Len(handlers)
    BY <1>0
  <1>7. Tasks' = Tasks \cup {m} /\ \A h \in Tasks : h \in 1 .. n
    BY <1>4, <1>5, <1>6 DEF Tasks, IsSender
  <1>8. Len(Granted) = n - 1
    BY <1>2, <1>6 DEF GrantInv, LastGrant
  <1>9. SendersFirst'
    BY <1>2, <1>4, <1>5, <1>6 DEF GrantInv, SendersFirst, IsSender
  <1>10. LastGrant'
    BY <1>2, <1>5, <1>6, <1>8 DEF LastGrant
  <1>11. ASSUME NEW h \in Tasks PROVE Bound(h)'
    <2>1. h \in 1 .. n /\ Bound(h) /\ handlers'[h] = handlers[h] /\ h # m
      BY <1>5, <1>6, <1>7, <1>11 DEF GrantInv, TasksBound
    <2>2. ASSUME NEW t \in 1 .. handlers[h].stream - 1,
                 streams[t].dir = Direction(handlers[h].kind)
          PROVE  \E g \in Tasks' : g < h /\ handlers'[g].stream = t
      <3>1. PICK g \in Tasks : g < h /\ handlers[g].stream = t
        BY <2>1, <2>2 DEF Bound
      <3>. QED  BY <1>5, <1>7, <3>1
    <2>. QED  BY <1>2, <2>1, <2>2 DEF Bound
  <1>12. Bound(m)'
    <2>1. /\ m - 2 = Len(Granted) /\ streams[s].dir = Direction(grant.kind)
          /\ Granted[m - 2].kind = grant.kind /\ Granted[m - 2].id = grant.id
      BY <1>1, <1>2, <1>6, <1>8 DEF GrantInv, LastGrant, IsOldest, Waiting
    <2>2. ASSUME NEW t \in 1 .. s - 1, streams[t].dir = Direction(grant.kind)
          PROVE  \E g \in Tasks' : g < m /\ handlers'[g].stream = t
      <3>1. t \in DOMAIN streams /\ t < s /\ t # 0
        BY <1>3
      <3>2. t \notin Waiting(Direction(grant.kind))
        BY <1>1, <1>3, <3>1 DEF IsOldest
      <3>3. PICK g \in DOMAIN handlers : handlers[g].stream = t
        BY <2>2, <3>1, <3>2 DEF Waiting
      <3>4. g \in Tasks
        BY <3>1, <3>3 DEF GrantInv, SendersFirst, Tasks
      <3>. QED  BY <1>5, <1>6, <1>7, <3>3, <3>4
    <2>. QED  BY <1>2, <1>5, <2>1, <2>2 DEF Bound
  <1>13. ASSUME NEW g \in Tasks', NEW h \in Tasks', g # h
         PROVE  handlers'[g].stream # handlers'[h].stream
    <2>1. \A i \in 1 .. n : handlers[i].stream # s
      BY <1>1, <1>5 DEF IsOldest, Waiting
    <2>. QED  BY <1>5, <1>7, <1>13, <2>1 DEF GrantInv, TasksBound
  <1>14. TasksBound'
    BY <1>7, <1>11, <1>12, <1>13 DEF TasksBound
  <1>. QED  BY <1>9, <1>10, <1>14 DEF GrantInv

\* The two senders are spawned before anything is granted.
LEMMA SendersBind ==
    ASSUME TypeInv, GrantInv, OpenDisplay \/ OpenCursor, Granted' = Granted
    PROVE  GrantInv'
  <1>1. PICK kind \in SenderKinds, id \in {DisplayId, CursorId} :
            handlers' = Append(handlers, Task(kind, id, 0))
    BY Zenon DEF OpenDisplay, OpenCursor, OpenSender, SenderKinds
  <1>2. PICK n \in Nat : n = Len(handlers)
    BY LenProperties DEF TypeInv, TypeOK
  <1>3. /\ \/ n = 0 /\ phase' = "announceCursor"
           \/ n = 1 /\ phase' = "dispatch"
        /\ grant = NoGrant /\ grant' = NoGrant /\ Len(Granted) = 0
    BY <1>2 DEF OpenDisplay, OpenCursor, OpenSender, GrantInv, SendersFirst, LastGrant
  <1>4. /\ Len(handlers') = n + 1 /\ DOMAIN handlers' = 1 .. n + 1 /\ DOMAIN handlers = 1 .. n
        /\ \A h \in 1 .. n : handlers'[h] = handlers[h]
        /\ handlers'[n + 1].kind = kind /\ handlers'[n + 1].stream = 0
    <2>. DEFINE t == Task(kind, id, 0)
    <2>1. t \in Handler /\ t.kind = kind /\ t.stream = 0
      BY DEF Task, Handler, HandlerStates
    <2>. HIDE DEF t
    <2>2. handlers \in Seq(Handler) /\ handlers' = Append(handlers, t)
      BY <1>1 DEF t, TypeInv, TypeOK
    <2>3. handlers' \in Seq(Handler)
      BY <2>1, <2>2, AppendProperties
    <2>. QED  BY <1>2, <2>1, <2>2, <2>3, AppendProperties, LenProperties
  <1>5. SendersFirst'
    BY <1>2, <1>3, <1>4 DEF GrantInv, SendersFirst, IsSender
  <1>6. LastGrant'
    BY <1>3, <1>4 DEF LastGrant
  <1>7. Tasks' = {}
    BY <1>3, <1>4, <1>5 DEF SendersFirst, Tasks
  <1>. QED  BY <1>5, <1>6, <1>7 DEF GrantInv, TasksBound

\* A granted OpenChannel becomes the last grant; the tasks keep theirs.
LEMMA AnswerGrants ==
    ASSUME TypeInv, GrantInv, AnswerOpenChannel, IsGrantable(NextFrame),
           Granted' = Append(Granted, NextFrame)
    PROVE  GrantInv'
  <1>1. /\ phase = "dispatch" /\ phase' = "bind" /\ UNCHANGED <<handlers, streams>>
        /\ grant = NoGrant /\ grant' = [kind |-> NextFrame.kind, id |-> NextFrame.id]
        /\ grant' # NoGrant
    BY DEF AnswerOpenChannel, IsGrantable, OpenStatus, GrantInv, LastGrant, clientVars, NoGrant
  <1>2. PICK l \in Nat : l = Len(Granted) /\ Len(handlers) = l + 2
    <2>1. Granted \in Seq(GrantableFrames)
      BY OpensType DEF TypeInv
    <2>2. Len(handlers) \in Nat
      <3>1. handlers \in Seq(Handler)
        BY Zenon DEF TypeInv, TypeOK
      <3>. QED  BY <3>1, LenProperties
    <2>3. Len(Granted) \in Nat
      BY <2>1, LenProperties
    <2>. QED  BY <1>1, <2>2, <2>3, SMTT(30) DEF GrantInv, LastGrant, SendersFirst
  <1>3. /\ Len(Granted') = l + 1 /\ Granted'[l + 1] = NextFrame
        /\ \A i \in 1 .. l : Granted'[i] = Granted[i]
    <2>1. Granted \in Seq(GrantableFrames) /\ NextFrame \in GrantableFrames
      BY OpensType, NextFrameType DEF TypeInv, GrantableFrames, AnswerOpenChannel
    <2>. QED  BY <1>2, <2>1, AppendProperties
  <1>4. SendersFirst'
    BY <1>1, <1>2 DEF GrantInv, SendersFirst, IsSender
  <1>5. LastGrant'
    BY <1>1, <1>2, <1>3 DEF LastGrant
  <1>6. Tasks' = Tasks
    BY <1>1 DEF Tasks, IsSender
  <1>7. ASSUME NEW h \in Tasks PROVE Bound(h)'
    <2>1. Bound(h) /\ h - 2 \in 1 .. l
      <3>1. Bound(h) /\ h \in DOMAIN handlers /\ ~(h <= 2)
        BY <1>7 DEF GrantInv, SendersFirst, TasksBound, Tasks
      <3>2. DOMAIN handlers = 1 .. l + 2
        BY <1>2, LenProperties DEF TypeInv, TypeOK
      <3>. QED  BY <3>1, <3>2
    <2>2. Granted'[h - 2] = Granted[h - 2] /\ h - 2 <= Len(Granted')
      BY <1>3, <2>1
    <2>. QED  BY <1>1, <1>6, <2>1, <2>2 DEF Bound
  <1>8. TasksBound'
    BY <1>1, <1>6, <1>7 DEF GrantInv, TasksBound
  <1>. QED  BY <1>4, <1>5, <1>8 DEF GrantInv

\* Every other step of the session grants nothing and spawns nothing.
LEMMA GrantSessionTask ==
    ASSUME TypeInv, ConversationInv, GrantInv, SessionTask \/ StreamBroken
    PROVE  GrantInv'
  <1>0. [Next]_vars /\ read \in Nat
    BY LenProperties DEF Next, TypeInv, TypeOK
  <1>1. CASE BindStream
    <2>1. read' = read
      BY <1>1 DEF BindStream
    <2>. QED  BY <1>0, <1>1, <2>1, OpensStep, BindStreamBinds
  <1>2. CASE OpenDisplay \/ OpenCursor
    <2>1. read' = read
      BY <1>2 DEF OpenDisplay, OpenCursor, OpenSender
    <2>. QED  BY <1>0, <1>2, <2>1, OpensStep, SendersBind
  <1>3. CASE AnswerOpenChannel /\ IsGrantable(NextFrame)
    <2>1. read' = read + 1 /\ fromClient'[read'] = NextFrame /\ read' >= 3
      BY <1>0, <1>3 DEF AnswerOpenChannel, clientVars, NextFrame, ConversationInv
    <2>. QED  BY <1>0, <1>3, <2>1, OpensStep, AnswerGrants
  <1>4. ASSUME \/ Greet \/ Authenticate \/ AnnounceDisplay \/ AnnounceCursor
               \/ IgnoreFrame \/ EndOfControl \/ Finish
               \/ AnswerOpenChannel /\ ~IsGrantable(NextFrame)
               \/ RejectFrame \/ EarlyEof \/ Disconnected \/ StreamBroken
        PROVE  GrantInv'
    <2>1. UNCHANGED <<handlers, streams, fromClient>>
      BY <1>4 DEF Greet, Authenticate, AnnounceDisplay, AnnounceCursor, AnnounceSender,
         IgnoreFrame, EndOfControl, Finish, AnswerOpenChannel, RejectFrame, EarlyEof,
         Disconnected, StreamBroken, Fail, clientVars
    <2>2. UNCHANGED grant
      <3>1. CASE AnswerOpenChannel /\ ~IsGrantable(NextFrame)
        BY <3>1 DEF AnswerOpenChannel, IsGrantable, IsOpen, OpenStatus
      <3>2. CASE ~(AnswerOpenChannel /\ ~IsGrantable(NextFrame))
        BY <1>4, <3>2 DEF Greet, Authenticate, AnnounceDisplay, AnnounceCursor, AnnounceSender,
           IgnoreFrame, EndOfControl, Finish, RejectFrame, EarlyEof,
           Disconnected, StreamBroken, Fail
      <3>. QED  BY <1>4, <3>1, <3>2
    <2>3. Granted' = Granted
      <3>1. \/ read' = read
            \/ read' = read + 1 /\ (read' < 3 \/ ~IsGrantable(NextFrame))
        BY <1>0, <1>4 DEF Greet, Authenticate, AnnounceDisplay, AnnounceCursor, AnnounceSender,
           IgnoreFrame, EndOfControl, Finish, AnswerOpenChannel, RejectFrame, EarlyEof,
           Disconnected, StreamBroken, ConversationInv, IsGrantable, IsOpen
      <3>2. fromClient'[read + 1] = NextFrame
        BY <2>1 DEF NextFrame
      <3>. QED  BY <1>0, <3>1, <3>2, OpensStep
    <2>4. \/ phase' = "failed"
          \/ phase' = "closed" /\ grant = NoGrant
          \/ <<phase, phase'>> \in {<<"hello", "auth">>, <<"auth", "announceDisplay">>,
                <<"announceDisplay", "openDisplay">>, <<"announceCursor", "openCursor">>,
                <<"dispatch", "dispatch">>, <<"dispatch", "drain">>}
      <3>1. CASE AnswerOpenChannel /\ ~IsGrantable(NextFrame)
        BY <3>1 DEF AnswerOpenChannel, IsGrantable, IsOpen, OpenStatus
      <3>2. CASE ~(AnswerOpenChannel /\ ~IsGrantable(NextFrame))
        BY <1>4, <3>2 DEF Greet, Authenticate, AnnounceDisplay, AnnounceCursor, AnnounceSender,
           IgnoreFrame, EndOfControl, Finish, RejectFrame, EarlyEof,
           Disconnected, StreamBroken, Fail, GrantInv, LastGrant
      <3>. QED  BY <1>4, <3>1, <3>2
    <2>5. SendersFirst'
      BY <2>1, <2>4 DEF GrantInv, SendersFirst, IsSender
    <2>6. LastGrant'
      BY <2>1, <2>2, <2>3, <2>4 DEF GrantInv, LastGrant
    <2>7. TasksBound'
      BY <2>1, <2>3, TasksStayBound DEF GrantInv
    <2>. QED  BY <2>5, <2>6, <2>7 DEF GrantInv
  <1>. QED  BY <1>1, <1>2, <1>3, <1>4 DEF SessionTask, Advance

LEMMA GrantStep == TypeInv /\ ConversationInv /\ GrantInv /\ [Next]_vars => GrantInv'
  <1>. SUFFICES ASSUME TypeInv, ConversationInv, GrantInv, [Next]_vars PROVE GrantInv'
    OBVIOUS
  <1>1. CASE SessionTask \/ StreamBroken
    BY <1>1, GrantSessionTask
  <1>2. ASSUME UNCHANGED <<phase, grant, read>>, Len(handlers') = Len(handlers),
               DOMAIN handlers' = DOMAIN handlers,
               \A h \in DOMAIN handlers : /\ handlers'[h].kind = handlers[h].kind
                                          /\ handlers'[h].id = handlers[h].id
                                          /\ handlers'[h].stream = handlers[h].stream,
               \A s \in DOMAIN streams :
                   s \in DOMAIN streams' /\ streams'[s].dir = streams[s].dir
        PROVE  GrantInv'
    <2>1. Granted' = Granted
      BY <1>2, OpensStep
    <2>2. TasksBound'
      BY <1>2, <2>1, TasksStayBound DEF GrantInv
    <2>3. SendersFirst'
      BY <1>2 DEF GrantInv, SendersFirst, IsSender
    <2>4. LastGrant'
      BY <1>2, <2>1 DEF GrantInv, LastGrant
    <2>. QED  BY <2>2, <2>3, <2>4 DEF GrantInv
  <1>3. ASSUME NEW h \in DOMAIN handlers, ChannelTask(h) \/ TaskBroken(h) PROVE GrantInv'
    <2>1. UNCHANGED <<phase, grant, read, streams>>
      BY <1>3 DEF ChannelTask, TaskBroken, clientVars
    <2>2. /\ Len(handlers') = Len(handlers) /\ DOMAIN handlers' = DOMAIN handlers
          /\ \A g \in DOMAIN handlers : /\ handlers'[g].kind = handlers[g].kind
                                        /\ handlers'[g].id = handlers[g].id
                                        /\ handlers'[g].stream = handlers[g].stream
      BY <1>3, ChannelTaskEffect DEF TypeInv
    <2>. QED  BY <1>2, <2>1, <2>2
  <1>4. CASE Client \/ ConnectionLost \/ UNCHANGED vars
    <2>1. UNCHANGED <<phase, grant, read, handlers>>
      BY <1>4 DEF Client, ClientWrites, ClientFinishes, ClientOpens, ClientSends,
           ClientEnds, ConnectionLost, vars, serverVars
    <2>2. \A s \in DOMAIN streams : s \in DOMAIN streams' /\ streams'[s].dir = streams[s].dir
      <3>0. streams \in Seq(Stream) /\ DOMAIN streams = 1 .. Len(streams) /\ Len(streams) \in Nat
        BY LenProperties DEF TypeInv, TypeOK
      <3>1. CASE UNCHANGED streams
        BY <3>1
      <3>2. ASSUME NEW dir \in {"uni", "bi"}, ClientOpens(dir)
            PROVE  \A s \in DOMAIN streams : s \in DOMAIN streams' /\ streams'[s].dir = streams[s].dir
        <4>. DEFINE t == [dir |-> dir, sent |-> <<>>, fin |-> FALSE]
        <4>1. t \in Stream
          BY DEF Stream
        <4>2. streams' = Append(streams, t)
          BY <3>2 DEF ClientOpens
        <4>. HIDE DEF t
        <4>3. streams' \in Seq(Stream) /\ Len(streams') = Len(streams) + 1
              /\ \A s \in 1 .. Len(streams) : streams'[s] = streams[s]
          BY <3>0, <4>1, <4>2, AppendProperties
        <4>. QED  BY <3>0, <4>3, LenProperties
      <3>3. ASSUME NEW s \in DOMAIN streams, NEW f \in Letters, ClientSends(s, f)
            PROVE  \A t \in DOMAIN streams : t \in DOMAIN streams' /\ streams'[t].dir = streams[t].dir
        <4>1. streams' = [streams EXCEPT ![s] = [streams[s] EXCEPT !.sent = Append(@, f)]]
          BY <3>3, Zenon DEF ClientSends
        <4>2. streams[s] \in Stream
          BY <3>0, ElementOfSeq
        <4>3. [streams[s] EXCEPT !.sent = Append(@, f)].dir = streams[s].dir
          BY <4>2 DEF Stream
        <4>. QED  BY <4>1, <4>3
      <3>4. ASSUME NEW s \in DOMAIN streams, ClientEnds(s)
            PROVE  \A t \in DOMAIN streams : t \in DOMAIN streams' /\ streams'[t].dir = streams[t].dir
        <4>1. streams' = [streams EXCEPT ![s] = [streams[s] EXCEPT !.fin = TRUE]]
          BY <3>4, Zenon DEF ClientEnds
        <4>2. streams[s] \in Stream
          BY <3>0, ElementOfSeq
        <4>3. [streams[s] EXCEPT !.fin = TRUE].dir = streams[s].dir
          BY <4>2 DEF Stream
        <4>. QED  BY <4>1, <4>3
      <3>. QED  BY <1>4, <3>1, <3>2, <3>3, <3>4 DEF Client, ClientWrites, ClientFinishes, ConnectionLost,
                vars, clientVars
    <2>. QED  BY <1>2, <2>1, <2>2
  <1>. QED  BY <1>1, <1>3, <1>4 DEF Next

LEMMA GrantInvariance == Spec => []GrantInv
  BY GrantInit, GrantStep, TypeInvariance, ConversationInvariance, PTL DEF Spec

\* The tasks of a session are its grants, in order, and the streams of each direction
\* go to them oldest first: no client can have a channel served on the stream of
\* another.
THEOREM GrantsBindInOrderHolds == Spec => []GrantsBindInOrder
  <1>1. TypeInv /\ GrantInv => GrantsBindInOrder
    <2>. SUFFICES ASSUME TypeInv, GrantInv PROVE GrantsBindInOrder
      OBVIOUS
    <2>1. Tasks = {h \in DOMAIN handlers : ~IsSender(h)}
      BY DEF Tasks
    <2>2. ASSUME NEW h \in Tasks
          PROVE  /\ h - 2 <= Len(Granted)
                 /\ handlers[h].kind = Granted[h - 2].kind
                 /\ handlers[h].id = Granted[h - 2].id
                 /\ streams[handlers[h].stream].dir = Direction(handlers[h].kind)
                 /\ \A s \in 1 .. handlers[h].stream - 1 :
                       streams[s].dir = Direction(handlers[h].kind)
                           => \E g \in Tasks : g < h /\ handlers[g].stream = s
      BY DEF GrantInv, TasksBound, Bound
    <2>3. \A g, h \in Tasks : g # h => handlers[g].stream # handlers[h].stream
      BY DEF GrantInv, TasksBound
    <2>4. Tasks # {} => Len(Granted) = Len(handlers) - 2 + (IF grant = NoGrant THEN 0 ELSE 1)
      <3>1. Tasks # {} => Len(handlers) >= 2
        BY LenProperties DEF Tasks, GrantInv, SendersFirst, TypeInv, TypeOK
      <3>. QED  BY <3>1 DEF GrantInv, LastGrant
    <2>. QED  BY <2>1, <2>2, <2>3, <2>4, Zenon DEF GrantsBindInOrder
  <1>. QED  BY <1>1, TypeInvariance, GrantInvariance, PTL

=============================================================================
