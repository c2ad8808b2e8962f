-------------------------- MODULE NegotiationProofs --------------------------
(***************************************************************************)
(* Theorems about Negotiation, for all capabilities and all maps: type     *)
(* correctness, that the two sides come to the same profile, that it holds *)
(* nothing one side lacks, and that it weighs what the client wrote.       *)
(***************************************************************************)
EXTENDS Negotiation, SequencePicksTheorems

-----------------------------------------------------------------------------
(* Numbers and lists. *)

LEMMA U32Facts ==
    /\ \A n \in 0 .. U32 - 1 : n \in Nat /\ n % U32 = n
    /\ \A n \in Nat : n % U32 \in 0 .. U32 - 1
    /\ 0 \in 0 .. U32 - 1
  <1>1. U32 \in Nat /\ U32 > 0
    BY CapabilitiesAssumption
  <1>. QED  BY <1>1

LEMMA FunctionIsSeq ==
    ASSUME NEW W, NEW m \in Nat, NEW q \in [1 .. m -> W]
    PROVE  q \in Seq(W)
  BY SeqDef

LEMMA PickedFrom ==
    ASSUME NEW X, NEW Y, NEW list \in Seq(X), NEW I,
           \A i \in 1 .. Len(list) : i \in I => list[i] \in Y
    PROVE  /\ Picked(list, I) \in Seq(Y) /\ Len(Picked(list, I)) \in Nat
           /\ \A k \in 1 .. Len(Picked(list, I)) :
                 \E i \in 1 .. Len(list) : i \in I /\ Picked(list, I)[k] = list[i]
  <1>1. Len(list) \in Nat
    BY LenProperties
  <1>2. HoldsTheChosen(Picked(list, I), list, I, Len(list), Y)
    BY <1>1, PickedElements
  <1>3. PICK p : p = Picked(list, I)
    OBVIOUS
  <1>4. p \in Seq(Y) /\ \A k \in 1 .. Len(p) : \E i \in 1 .. Len(list) : i \in I /\ p[k] = list[i]
    BY <1>2, <1>3, Zenon DEF HoldsTheChosen
  <1>. QED  BY <1>3, <1>4, LenProperties

\* What the other side has too: in the list, and in the other one.
LEMMA SharedElements ==
    ASSUME NEW X, NEW list \in Seq(X), NEW other
    PROVE  /\ Shared(list, other) \in Seq(X) /\ Len(Shared(list, other)) \in Nat
           /\ \A k \in 1 .. Len(Shared(list, other)) :
                 /\ Contains(list, Shared(list, other)[k])
                 /\ Contains(other, Shared(list, other)[k])
  <1>. DEFINE I == {i \in DOMAIN list : Contains(other, list[i])}
  <1>1. \A i \in 1 .. Len(list) : i \in I => list[i] \in X
    BY ElementOfSeq
  <1>. HIDE DEF I
  <1>2. PICK p : p = Picked(list, I)
    OBVIOUS
  <1>3. /\ p \in Seq(X) /\ Len(p) \in Nat
        /\ \A k \in 1 .. Len(p) : \E i \in 1 .. Len(list) : i \in I /\ p[k] = list[i]
    BY <1>1, <1>2, PickedFrom
  <1>4. ASSUME NEW k \in 1 .. Len(p) PROVE Contains(list, p[k]) /\ Contains(other, p[k])
    <2>1. PICK i \in 1 .. Len(list) : i \in I /\ p[k] = list[i]
      BY <1>3
    <2>2. Contains(other, list[i])
      BY <2>1 DEF I
    <2>. QED  BY <2>1, <2>2, Zenon DEF Contains
  <1>. QED  BY <1>2, <1>3, <1>4, Zenon DEF Shared, I

\* Texts are read out of a list; what is read stands in the list.
LEMMA TextsRead ==
    ASSUME NEW list \in Seq(STRING)
    PROVE  /\ TextsOf(list) \in Seq(Texts)
           /\ \A x : Contains(TextsOf(list), x) => Contains(list, x)
  <1>. DEFINE I == {i \in DOMAIN list : list[i] # "junk"}
  <1>1. \A i \in 1 .. Len(list) : i \in I => list[i] \in Texts
    BY ElementOfSeq DEF Texts
  <1>. HIDE DEF I
  <1>2. PICK p : p = Picked(list, I)
    OBVIOUS
  <1>3. /\ p \in Seq(Texts)
        /\ \A k \in 1 .. Len(p) : \E i \in 1 .. Len(list) : i \in I /\ p[k] = list[i]
    BY <1>1, <1>2, PickedFrom
  <1>4. ASSUME NEW x, Contains(p, x) PROVE Contains(list, x)
    <2>1. PICK k \in 1 .. Len(p) : p[k] = x
      BY <1>4, Zenon DEF Contains
    <2>2. PICK i \in 1 .. Len(list) : p[k] = list[i]
      BY <1>3
    <2>. QED  BY <2>1, <2>2, Zenon DEF Contains
  <1>. QED  BY <1>2, <1>3, <1>4, Zenon DEF TextsOf, I

LEMMA TextsAllRead ==
    ASSUME NEW list \in Seq(Texts)
    PROVE  TextsOf(list) = list
  <1>. DEFINE I == {i \in DOMAIN list : list[i] # "junk"}
  <1>1. DOMAIN list = 1 .. Len(list)
    BY LenProperties
  <1>2. \A i \in 1 .. Len(list) : i \in I
    BY <1>1, ElementOfSeq DEF Texts
  <1>3. Picked(list, I) = list
    BY <1>2, PickedAll
  <1>. QED  BY <1>3 DEF TextsOf

\* So are numbers, cut to the width of a u32.
Cut(list) == [i \in DOMAIN list |-> list[i] % U32]

LEMMA NumbersRead ==
    ASSUME NEW list \in Seq(Int)
    PROVE  /\ Cut(NumbersOf(list)) \in Seq(0 .. U32 - 1)
           /\ \A x : Contains(Cut(NumbersOf(list)), x) => \E n \in ToSet(list) : n >= 0 /\ x = n % U32
  <1>. DEFINE I == {i \in DOMAIN list : IsU64(list[i])}
  <1>1. \A i \in 1 .. Len(list) : i \in I => list[i] \in Nat
    BY ElementOfSeq DEF IsU64
  <1>. HIDE DEF I
  <1>2. PICK p : p = Picked(list, I)
    OBVIOUS
  <1>3. /\ p \in Seq(Nat) /\ Len(p) \in Nat
        /\ \A k \in 1 .. Len(p) : \E i \in 1 .. Len(list) : i \in I /\ p[k] = list[i]
    <2>1. PICK N : N = Nat
      OBVIOUS
    <2>2. \A i \in 1 .. Len(list) : i \in I => list[i] \in N
      BY <1>1, <2>1
    <2>3. PICK Z : Z = Int
      OBVIOUS
    <2>4. list \in Seq(Z)
      BY <2>3
    <2>5. /\ p \in Seq(N) /\ Len(p) \in Nat
          /\ \A k \in 1 .. Len(p) : \E i \in 1 .. Len(list) : i \in I /\ p[k] = list[i]
      BY <1>2, <2>2, <2>4, PickedFrom
    <2>. QED  BY <2>1, <2>5
  <1>4. PICK q : q = Cut(p)
    OBVIOUS
  <1>5. DOMAIN p = 1 .. Len(p)
    BY <1>3, LenProperties
  <1>6. \A k \in 1 .. Len(p) : p[k] \in Nat /\ p[k] % U32 \in 0 .. U32 - 1
    BY <1>3, ElementOfSeq, U32Facts
  <1>7. q \in Seq(0 .. U32 - 1) /\ Len(q) = Len(p) /\ \A k \in 1 .. Len(p) : q[k] = p[k] % U32
    <2>1. q \in [1 .. Len(p) -> 0 .. U32 - 1] /\ \A k \in 1 .. Len(p) : q[k] = p[k] % U32
      BY <1>4, <1>5, <1>6 DEF Cut
    <2>2. q \in Seq(0 .. U32 - 1)
      <3>1. PICK m \in Nat : m = Len(p)
        BY <1>3
      <3>2. q \in [1 .. m -> 0 .. U32 - 1]
        BY <2>1, <3>1
      <3>3. PICK W : W = 0 .. U32 - 1
        OBVIOUS
      <3>4. q \in [1 .. m -> W]
        BY <3>2, <3>3
      <3>5. q \in Seq(W)
        BY <3>4, FunctionIsSeq
      <3>. QED  BY <3>3, <3>5
    <2>. QED  BY <1>3, <2>1, <2>2, LenProperties
  <1>8. ASSUME NEW x, Contains(q, x) PROVE \E n \in ToSet(list) : n >= 0 /\ x = n % U32
    <2>1. PICK k \in 1 .. Len(p) : q[k] = x
      BY <1>7, <1>8, Zenon DEF Contains
    <2>2. PICK i \in 1 .. Len(list) : p[k] = list[i] /\ i \in DOMAIN list
      BY <1>3
    <2>3. list[i] \in ToSet(list)
      BY <2>2, Zenon DEF ToSet
    <2>4. list[i] >= 0 /\ x = list[i] % U32
      BY <1>6, <1>7, <2>1, <2>2
    <2>. QED  BY <2>3, <2>4
  <1>. QED  BY <1>2, <1>4, <1>7, <1>8, Zenon DEF NumbersOf, I

LEMMA NumbersAllRead ==
    ASSUME NEW list \in Seq(0 .. U32 - 1)
    PROVE  Cut(NumbersOf(list)) = list
  <1>. DEFINE I == {i \in DOMAIN list : IsU64(list[i])}
  <1>1. DOMAIN list = 1 .. Len(list) /\ \A i \in 1 .. Len(list) : list[i] \in 0 .. U32 - 1
    BY LenProperties, ElementOfSeq
  <1>2. \A i \in 1 .. Len(list) : i \in I
    BY <1>1 DEF IsU64
  <1>3. Picked(list, I) = list
    BY <1>2, PickedAll
  <1>4. \A i \in DOMAIN list : list[i] % U32 = list[i]
    BY <1>1, U32Facts
  <1>5. Cut(list) = list
    BY <1>4, list = [i \in DOMAIN list |-> list[i]] DEF Cut
  <1>. QED  BY <1>3, <1>5 DEF NumbersOf

-----------------------------------------------------------------------------
(* What goes into a capability map comes out of it. *)

LEMMA CapabilityTypes ==
    ASSUME NEW c \in Capabilities
    PROVE  /\ c.versions \in Seq(0 .. U32 - 1) /\ c.profile = "v0-base"
           /\ c.auth \in Seq(Texts) /\ c.codecs \in Seq(Texts) /\ c.audio \in Seq(Texts)
           /\ c.types \in Seq(Texts) /\ c.fps \in 0 .. U32 - 1 /\ c.size \in Nat
           /\ c.chunk \in (0 .. U32 - 1) \X (0 .. U32 - 1) /\ c.chat \in BOOLEAN
  BY DEF Capabilities

LEMMA Fields ==
    ASSUME NEW c
    PROVE  /\ c["versions"] = c.versions /\ c["profile"] = c.profile /\ c["auth"] = c.auth
           /\ c["codecs"] = c.codecs /\ c["audio"] = c.audio /\ c["types"] = c.types
           /\ c["fps"] = c.fps /\ c["size"] = c.size /\ c["chunk"] = c.chunk
           /\ c["chat"] = c.chat
  OBVIOUS

LEMMA RoundTrip ==
    ASSUME NEW c \in Capabilities
    PROVE  FromCbor(ToCbor(c)) = c
  <1>1. PICK w : w = ToCbor(c)
    OBVIOUS
  <1>2. w.val = c /\ \A k \in Keys : k \in w.has /\ k \notin w.junk /\ Usable(w, k)
    BY <1>1 DEF ToCbor, Usable
  <1>3. {"versions", "profile", "auth", "codecs", "audio", "types", "fps", "size", "chunk", "chat"}
            \subseteq Keys
    BY DEF Keys
  <1>4. /\ ReadTexts(w, "auth") = c.auth /\ ReadTexts(w, "codecs") = c.codecs
        /\ ReadTexts(w, "audio") = c.audio /\ ReadTexts(w, "types") = c.types
    BY <1>2, <1>3, TextsAllRead, CapabilityTypes DEF ReadTexts
  <1>5. ReadVersions(w, "versions") = c.versions
    <2>1. ReadVersions(w, "versions") = Cut(NumbersOf(c.versions))
      BY <1>2, <1>3 DEF ReadVersions, Cut
    <2>. QED  BY <2>1, NumbersAllRead, CapabilityTypes
  <1>6. ReadOther(w, "profile") = c.profile /\ ReadOther(w, "chat") = c.chat
    BY <1>2, <1>3 DEF ReadOther
  <1>7. ReadNumber(w, "fps") % U32 = c.fps /\ ReadNumber(w, "size") = c.size
    <2>1. IsU64(c.fps) /\ IsU64(c.size) /\ c.fps % U32 = c.fps
      BY CapabilityTypes, U32Facts DEF IsU64
    <2>. QED  BY <1>2, <1>3, <2>1 DEF ReadNumber
  <1>8. ReadPair(w, "chunk") = c.chunk
    <2>1. PICK a \in 0 .. U32 - 1, b \in 0 .. U32 - 1 : c.chunk = <<a, b>>
      <3>1. PICK p : p = c.chunk
        OBVIOUS
      <3>2. p \in (0 .. U32 - 1) \X (0 .. U32 - 1)
        BY <3>1, CapabilityTypes
      <3>3. p = <<p[1], p[2]>> /\ p[1] \in 0 .. U32 - 1 /\ p[2] \in 0 .. U32 - 1
        BY <3>2
      <3>. QED  BY <3>1, <3>3
    <2>2. a % U32 = a /\ b % U32 = b /\ IsU64(a) /\ IsU64(b)
      BY U32Facts DEF IsU64
    <2>3. w.val["chunk"] = <<a, b>>
      BY <1>2, <2>1
    <2>. QED  BY <1>2, <1>3, <2>1, <2>2, <2>3 DEF ReadPair
  <1>9. FromCbor(w) = [versions |-> c.versions, profile |-> c.profile, auth |-> c.auth,
                       codecs |-> c.codecs, audio |-> c.audio, types |-> c.types, fps |-> c.fps,
                       size |-> c.size, chunk |-> c.chunk, chat |-> c.chat]
    BY <1>4, <1>5, <1>6, <1>7, <1>8, Zenon DEF FromCbor
  <1>. QED  BY <1>1, <1>9 DEF Capabilities

-----------------------------------------------------------------------------
(* What is read of a map. *)

LEMMA ToSetContains ==
    ASSUME NEW X, NEW s \in Seq(X)
    PROVE  \A x : Contains(s, x) <=> x \in ToSet(s)
  <1>1. DOMAIN s = 1 .. Len(s)
    BY LenProperties
  <1>. QED  BY <1>1, Zenon DEF Contains, ToSet

\* The shape of a map's values.
LEMMA MapValues ==
    ASSUME NEW w \in CapabilityMaps
    PROVE  /\ w.val["versions"] \in Seq(Int) /\ w.val["profile"] = "v0-base"
           /\ w.val["auth"] \in Seq(STRING) /\ w.val["codecs"] \in Seq(STRING)
           /\ w.val["audio"] \in Seq(STRING) /\ w.val["types"] \in Seq(STRING)
           /\ w.val["fps"] \in Int /\ w.val["size"] \in Int /\ w.val["chunk"] \in Seq(Int)
           /\ w.val["chat"] \in BOOLEAN
  BY DEF CapabilityMaps

\* A list of texts, when the key is there, is a list from the map.
LEMMA ReadTextsTyped ==
    ASSUME NEW w, NEW k, w.val[k] \in Seq(STRING), Default[k] \in Seq(Texts)
    PROVE  /\ ReadTexts(w, k) \in Seq(Texts)
           /\ Usable(w, k) => \A x : Contains(ReadTexts(w, k), x) => Contains(w.val[k], x)
  <1>1. PICK list : list = w.val[k]
    OBVIOUS
  <1>2. /\ TextsOf(list) \in Seq(Texts)
        /\ \A x : Contains(TextsOf(list), x) => Contains(list, x)
    BY <1>1, TextsRead
  <1>3. <<>> \in Seq(Texts)
    BY EmptySeq
  <1>. QED  BY <1>1, <1>2, <1>3 DEF ReadTexts, Usable

\* So is a list of versions; those that fit a u32 stand in the map as they are.
LEMMA ReadVersionsTyped ==
    ASSUME NEW w, NEW k, w.val[k] \in Seq(Int), Default[k] \in Seq(0 .. U32 - 1)
    PROVE  /\ ReadVersions(w, k) \in Seq(0 .. U32 - 1)
           /\ Usable(w, k) /\ (\A n \in ToSet(w.val[k]) : n < U32) =>
                 \A x : Contains(ReadVersions(w, k), x) => Contains(w.val[k], x)
  <1>1. PICK list : list = w.val[k]
    OBVIOUS
  <1>2. /\ Cut(NumbersOf(list)) \in Seq(0 .. U32 - 1)
        /\ \A x : Contains(Cut(NumbersOf(list)), x) => \E n \in ToSet(list) : n >= 0 /\ x = n % U32
    BY <1>1, NumbersRead
  <1>3. <<>> \in Seq(0 .. U32 - 1)
    BY EmptySeq
  <1>4. ReadVersions(w, k) = IF k \notin w.has THEN Default[k]
                             ELSE IF k \in w.junk THEN <<>> ELSE Cut(NumbersOf(list))
    BY <1>1, Zenon DEF ReadVersions, Cut
  <1>5. ReadVersions(w, k) \in Seq(0 .. U32 - 1)
    BY <1>2, <1>3, <1>4
  <1>6. ASSUME Usable(w, k), \A n \in ToSet(list) : n < U32,
               NEW x, Contains(Cut(NumbersOf(list)), x)
        PROVE  Contains(list, x)
    <2>1. PICK n \in ToSet(list) : n >= 0 /\ x = n % U32
      BY <1>2, <1>6
    <2>2. \A y : Contains(list, y) <=> y \in ToSet(list)
      <3>1. PICK Z : Z = Int
        OBVIOUS
      <3>2. list \in Seq(Z)
        BY <1>1, <3>1
      <3>. QED  BY <3>2, ToSetContains
    <2>3. n \in Int
      BY <1>1, ElementOfSeq, LenProperties DEF ToSet
    <2>4. n % U32 = n
      <3>1. n < U32
        BY <1>6
      <3>2. U32 \in Nat /\ n \in 0 .. U32 - 1
        BY <2>1, <2>3, <3>1, CapabilitiesAssumption
      <3>. QED  BY <3>2, U32Facts
    <2>. QED  BY <2>1, <2>2, <2>4
  <1>7. Usable(w, k) => ReadVersions(w, k) = Cut(NumbersOf(list))
    BY <1>4 DEF Usable
  <1>8. Usable(w, k) /\ (\A n \in ToSet(list) : n < U32) =>
            \A x : Contains(ReadVersions(w, k), x) => Contains(list, x)
    BY <1>6, <1>7
  <1>. QED  BY <1>1, <1>5, <1>8

LEMMA ReadNumberTyped ==
    ASSUME NEW w, NEW k, w.val[k] \in Int, Default[k] \in Nat
    PROVE  ReadNumber(w, k) \in Nat
  BY DEF ReadNumber, IsU64

LEMMA ReadPairTyped ==
    ASSUME NEW w, NEW k, w.val[k] \in Seq(Int),
           Default[k] \in (0 .. U32 - 1) \X (0 .. U32 - 1)
    PROVE  ReadPair(w, k) \in (0 .. U32 - 1) \X (0 .. U32 - 1)
  <1>1. PICK list : list = w.val[k]
    OBVIOUS
  <1>2. CASE Usable(w, k) /\ Len(list) = 2 /\ \A i \in 1 .. 2 : IsU64(list[i])
    <2>1. list[1] \in Nat /\ list[2] \in Nat
      BY <1>1, <1>2, ElementOfSeq DEF IsU64
    <2>2. list[1] % U32 \in 0 .. U32 - 1 /\ list[2] % U32 \in 0 .. U32 - 1
      BY <2>1, U32Facts
    <2>3. ReadPair(w, k) = <<list[1] % U32, list[2] % U32>>
      BY <1>1, <1>2 DEF ReadPair
    <2>. QED  BY <2>2, <2>3
  <1>3. CASE ~(Usable(w, k) /\ Len(list) = 2 /\ \A i \in 1 .. 2 : IsU64(list[i]))
    BY <1>1, <1>3 DEF ReadPair
  <1>. QED  BY <1>2, <1>3

\* Whatever a map holds, what is read of it are capabilities.
LEMMA ReadCapabilities ==
    ASSUME NEW w \in CapabilityMaps
    PROVE  FromCbor(w) \in Capabilities
  <1>1. PICK d \in Capabilities : d = Default
    BY CapabilitiesAssumption
  <1>2. /\ d["versions"] \in Seq(0 .. U32 - 1) /\ d["profile"] = "v0-base"
        /\ d["auth"] \in Seq(Texts) /\ d["codecs"] \in Seq(Texts) /\ d["audio"] \in Seq(Texts)
        /\ d["types"] \in Seq(Texts) /\ d["fps"] \in Nat /\ d["size"] \in Nat
        /\ d["chunk"] \in (0 .. U32 - 1) \X (0 .. U32 - 1) /\ d["chat"] \in BOOLEAN
    BY CapabilityTypes, Fields, U32Facts
  <1>3. /\ ReadTexts(w, "auth") \in Seq(Texts) /\ ReadTexts(w, "codecs") \in Seq(Texts)
        /\ ReadTexts(w, "audio") \in Seq(Texts) /\ ReadTexts(w, "types") \in Seq(Texts)
    BY <1>1, <1>2, MapValues, ReadTextsTyped
  <1>4. ReadVersions(w, "versions") \in Seq(0 .. U32 - 1)
    BY <1>1, <1>2, MapValues, ReadVersionsTyped
  <1>5. ReadNumber(w, "fps") % U32 \in 0 .. U32 - 1 /\ ReadNumber(w, "size") \in Nat
    <2>1. ReadNumber(w, "fps") \in Nat /\ ReadNumber(w, "size") \in Nat
      BY <1>1, <1>2, MapValues, ReadNumberTyped
    <2>. QED  BY <2>1, U32Facts
  <1>6. ReadPair(w, "chunk") \in (0 .. U32 - 1) \X (0 .. U32 - 1)
    BY <1>1, <1>2, MapValues, ReadPairTyped
  <1>7. ReadOther(w, "profile") \in {"v0-base"} /\ ReadOther(w, "chat") \in BOOLEAN
    BY <1>1, <1>2, MapValues DEF ReadOther
  <1>. QED  BY <1>3, <1>4, <1>5, <1>6, <1>7, Zenon DEF FromCbor, Capabilities

\* What a peer writes of its capabilities is such a map.
LEMMA WrittenMaps ==
    ASSUME NEW c \in Capabilities
    PROVE  ToCbor(c) \in CapabilityMaps
  <1>1. /\ 0 .. U32 - 1 \subseteq Int /\ Texts \subseteq STRING
        /\ \A n \in 0 .. U32 - 1 : n \in Int
    BY U32Facts DEF Texts
  <1>2. /\ c.versions \in Seq(Int) /\ c.auth \in Seq(STRING) /\ c.codecs \in Seq(STRING)
        /\ c.audio \in Seq(STRING) /\ c.types \in Seq(STRING)
    <2>1. PICK Z, W, X, Y : Z = Int /\ W = 0 .. U32 - 1 /\ X = STRING /\ Y = Texts
      OBVIOUS
    <2>2. W \subseteq Z /\ Y \subseteq X
      BY <1>1, <2>1, Zenon
    <2>3. c.versions \in Seq(W) /\ c.auth \in Seq(Y) /\ c.codecs \in Seq(Y)
          /\ c.audio \in Seq(Y) /\ c.types \in Seq(Y)
      BY <2>1, CapabilityTypes
    <2>4. Seq(W) \subseteq Seq(Z) /\ Seq(Y) \subseteq Seq(X)
      BY <2>2, SeqMonotonic, Zenon
    <2>. QED  BY <2>1, <2>3, <2>4
  <1>3. c.chunk \in Seq(Int)
    <2>1. PICK p : p = c.chunk
      OBVIOUS
    <2>2. p \in (0 .. U32 - 1) \X (0 .. U32 - 1)
      BY <2>1, CapabilityTypes
    <2>3. p = <<p[1], p[2]>> /\ p[1] \in Int /\ p[2] \in Int
      BY <2>2, <1>1
    <2>4. <<p[1], p[2]>> \in Seq(Int)
      BY <2>3
    <2>. QED  BY <2>1, <2>3, <2>4
  <1>4. c \in [versions : Seq(Int), profile : {"v0-base"}, auth : Seq(STRING),
               codecs : Seq(STRING), audio : Seq(STRING), types : Seq(STRING), fps : Int,
               size : Int, chunk : Seq(Int), chat : BOOLEAN]
    <2>1. c.fps \in Int /\ c.size \in Int
      BY <1>1, CapabilityTypes
    <2>2. c = [versions |-> c.versions, profile |-> c.profile, auth |-> c.auth,
               codecs |-> c.codecs, audio |-> c.audio, types |-> c.types, fps |-> c.fps,
               size |-> c.size, chunk |-> c.chunk, chat |-> c.chat]
      BY DEF Capabilities
    <2>3. c.profile \in {"v0-base"} /\ c.chat \in BOOLEAN
      BY CapabilityTypes
    <2>. QED  BY <1>2, <1>3, <2>1, <2>2, <2>3, Zenon
  <1>5. PICK V : V = [versions : Seq(Int), profile : {"v0-base"}, auth : Seq(STRING),
               codecs : Seq(STRING), audio : Seq(STRING), types : Seq(STRING), fps : Int,
               size : Int, chunk : Seq(Int), chat : BOOLEAN]
    OBVIOUS
  <1>6. CapabilityMaps = [has : SUBSET Keys, junk : SUBSET Keys, val : V]
    BY <1>5, Zenon DEF CapabilityMaps
  <1>7. Keys \in SUBSET Keys /\ {} \in SUBSET Keys /\ c \in V
    BY <1>4, <1>5, Zenon
  <1>. QED  BY <1>6, <1>7 DEF ToCbor

\* Nothing is offered that does not stand in the map.
LEMMA OnlyOffers ==
    ASSUME NEW w \in CapabilityMaps, NEW k \in {"auth", "codecs", "audio", "types"},
           Usable(w, k), NEW x, Contains(ReadTexts(w, k), x)
    PROVE  Contains(w.val[k], x)
  <1>1. PICK d \in Capabilities : d = Default
    BY CapabilitiesAssumption
  <1>2. d["auth"] \in Seq(Texts) /\ d["codecs"] \in Seq(Texts) /\ d["audio"] \in Seq(Texts)
        /\ d["types"] \in Seq(Texts)
    BY CapabilityTypes, Fields
  <1>3. w.val[k] \in Seq(STRING) /\ Default[k] \in Seq(Texts)
    BY <1>1, <1>2, MapValues
  <1>. QED  BY <1>3, ReadTextsTyped

LEMMA OnlyOfferedVersions ==
    ASSUME NEW w \in CapabilityMaps, Usable(w, "versions"),
           \A n \in ToSet(w.val["versions"]) : n < U32,
           NEW x, Contains(ReadVersions(w, "versions"), x)
    PROVE  Contains(w.val["versions"], x)
  <1>1. PICK d \in Capabilities : d = Default
    BY CapabilitiesAssumption
  <1>2. w.val["versions"] \in Seq(Int) /\ Default["versions"] \in Seq(0 .. U32 - 1)
    BY <1>1, MapValues, CapabilityTypes, Fields
  <1>. QED  BY <1>2, ReadVersionsTyped

-----------------------------------------------------------------------------
(* What comes of a negotiation. *)

\* A set of numbers below a bound that is not empty has a largest one.
LEMMA LargestExists ==
    ASSUME NEW n \in Nat, NEW T, T \subseteq 0 .. n, T # {}
    PROVE  \E x \in T : \A y \in T : x >= y
  <1>. DEFINE Good(m) == \A U \in SUBSET (0 .. m) : U # {} => \E x \in U : \A y \in U : x >= y
              S == {m \in Nat : Good(m)}
  <1>1. 0 \in S
    <2>. SUFFICES ASSUME NEW U \in SUBSET (0 .. 0), U # {}
                  PROVE  \E x \in U : \A y \in U : x >= y
      BY Zenon
    <2>1. \A y \in U : y = 0
      OBVIOUS
    <2>2. PICK u \in U : TRUE
      OBVIOUS
    <2>3. \A y \in U : u >= y
      <3>1. u = 0 /\ 0 >= 0
        BY <2>1, <2>2
      <3>. QED  BY <2>1, <3>1, Zenon
    <2>. QED  BY <2>2, <2>3, Zenon
  <1>2. ASSUME NEW m \in Nat, m \in S PROVE m + 1 \in S
    <2>. SUFFICES ASSUME NEW U \in SUBSET (0 .. m + 1), U # {}
                  PROVE  \E x \in U : \A y \in U : x >= y
      OBVIOUS
    <2>1. CASE m + 1 \in U
      BY <2>1
    <2>2. CASE m + 1 \notin U
      <3>1. U \in SUBSET (0 .. m)
        BY <2>2
      <3>. QED  BY <1>2, <3>1
    <2>. QED  BY <2>1, <2>2
  <1>. HIDE DEF S
  <1>3. n \in S
    BY <1>1, <1>2, NatSetInduction
  <1>. QED  BY <1>3 DEF S

LEMMA LargestOfList ==
    ASSUME NEW s \in Seq(0 .. U32 - 1), s # <<>>
    PROVE  Max(ToSet(s)) \in ToSet(s)
  <1>1. PICK T : T = ToSet(s)
    OBVIOUS
  <1>2. T \subseteq 0 .. U32 - 1
    BY <1>1, ElementOfSeq, LenProperties DEF ToSet
  <1>3. T # {}
    <2>1. Len(s) \in Nat /\ Len(s) # 0 /\ DOMAIN s = 1 .. Len(s)
      BY EmptySeq, LenProperties
    <2>2. 1 \in DOMAIN s
      BY <2>1
    <2>. QED  BY <1>1, <2>2 DEF ToSet
  <1>4. U32 - 1 \in Nat
    BY CapabilitiesAssumption
  <1>5. \E x \in T : \A y \in T : x >= y
    BY <1>2, <1>3, <1>4, LargestExists
  <1>6. Max(T) \in T
    BY <1>5, Zenon DEF Max
  <1>. QED  BY <1>1, <1>6

\* The first shared element is in both lists, and its own list has no earlier
\* one that is.
LEMMA FirstOfShared ==
    ASSUME NEW X, NEW list \in Seq(X), NEW other, Shared(list, other) # <<>>
    PROVE  /\ Contains(list, Head(Shared(list, other)))
           /\ Contains(other, Head(Shared(list, other)))
           /\ \E i \in DOMAIN list : /\ list[i] = Head(Shared(list, other))
                                     /\ \A j \in 1 .. i - 1 : ~Contains(other, list[j])
  <1>. DEFINE I == {i \in DOMAIN list : Contains(other, list[i])}
  <1>1. DOMAIN list = 1 .. Len(list) /\ Len(list) \in Nat
    BY LenProperties
  <1>2. \A j \in 1 .. Len(list) : j \notin I => ~Contains(other, list[j])
    BY <1>1
  <1>. HIDE DEF I
  <1>3. PICK p : p = Picked(list, I)
    OBVIOUS
  <1>4. p # <<>>
    BY <1>3 DEF Shared, I
  <1>5. PICK i \in 1 .. Len(list) : i \in I /\ p[1] = list[i] /\ \A j \in 1 .. i - 1 : j \notin I
    BY <1>3, <1>4, PickedFirst
  <1>6. Head(p) = list[i]
    <2>1. p \in Seq(X)
      BY <1>3, Zenon, SharedElements DEF Shared, I
    <2>. QED  BY <1>4, <1>5, <2>1, HeadTailProperties
  <1>7. Contains(other, list[i]) /\ Contains(list, list[i])
    BY <1>5 DEF I, Contains
  <1>8. \A j \in 1 .. i - 1 : ~Contains(other, list[j])
    BY <1>1, <1>2, <1>5
  <1>9. Shared(list, other) = p
    BY <1>3, Zenon DEF Shared, I
  <1>. QED  BY <1>1, <1>5, <1>6, <1>7, <1>8, <1>9

\* A negotiation that does not fail gives the profile, and then the three lists
\* a session cannot do without are not empty.
LEMMA Agreed ==
    ASSUME NEW c, NEW s, Negotiate(c, s).error = "none"
    PROVE  /\ Negotiate(c, s) = ProfileOf(c, s)
           /\ Shared(c.versions, s.versions) # <<>> /\ Shared(s.auth, c.auth) # <<>>
           /\ Shared(c.codecs, s.codecs) # <<>>
  BY DEF Negotiate

\* The profile of two peers, capability by capability.
LEMMA ProfileWithin ==
    ASSUME NEW c \in Capabilities, NEW s \in Capabilities, NEW p,
           p = ProfileOf(c, s), Shared(c.versions, s.versions) # <<>>,
           Shared(s.auth, c.auth) # <<>>, Shared(c.codecs, s.codecs) # <<>>
    PROVE  /\ Contains(c.versions, p.version) /\ Contains(s.versions, p.version)
           /\ Contains(c.codecs, p.codec) /\ Contains(s.codecs, p.codec)
           /\ p.audio = "None" \/ (Contains(c.audio, p.audio) /\ Contains(s.audio, p.audio))
           /\ \A m \in ToSet(p.auth) : Contains(c.auth, m) /\ Contains(s.auth, m)
           /\ \A m \in ToSet(p.types) : Contains(c.types, m) /\ Contains(s.types, m)
  <1>1. /\ p.version = Max(ToSet(Shared(c.versions, s.versions)))
        /\ p.codec = FirstShared(c.codecs, s.codecs) /\ p.audio = FirstShared(c.audio, s.audio)
        /\ p.auth = Shared(s.auth, c.auth) /\ p.types = Shared(s.types, c.types)
    BY DEF ProfileOf
  <1>2. PICK W, Y : W = 0 .. U32 - 1 /\ Y = Texts
    OBVIOUS
  <1>3. /\ c.versions \in Seq(W) /\ s.versions \in Seq(W)
        /\ c.auth \in Seq(Y) /\ c.codecs \in Seq(Y) /\ c.audio \in Seq(Y) /\ c.types \in Seq(Y)
        /\ s.auth \in Seq(Y) /\ s.codecs \in Seq(Y) /\ s.audio \in Seq(Y) /\ s.types \in Seq(Y)
    BY <1>2, CapabilityTypes
  <1>4. ASSUME NEW X, NEW list \in Seq(X), NEW other
        PROVE  \A m \in ToSet(Shared(list, other)) : Contains(list, m) /\ Contains(other, m)
    <2>1. /\ Shared(list, other) \in Seq(X)
          /\ \A k \in 1 .. Len(Shared(list, other)) :
                /\ Contains(list, Shared(list, other)[k])
                /\ Contains(other, Shared(list, other)[k])
      BY SharedElements
    <2>2. DOMAIN Shared(list, other) = 1 .. Len(Shared(list, other))
      BY <2>1, LenProperties
    <2>. QED  BY <2>1, <2>2, Zenon DEF ToSet
  <1>5. Contains(c.versions, p.version) /\ Contains(s.versions, p.version)
    <2>1. Shared(c.versions, s.versions) \in Seq(0 .. U32 - 1)
      BY <1>2, <1>3, SharedElements
    <2>2. p.version \in ToSet(Shared(c.versions, s.versions))
      BY <1>1, <2>1, LargestOfList
    <2>. QED  BY <1>3, <1>4, <2>2
  <1>6. Contains(c.codecs, p.codec) /\ Contains(s.codecs, p.codec)
    <2>1. p.codec = Head(Shared(c.codecs, s.codecs))
      BY <1>1 DEF FirstShared
    <2>. QED  BY <1>3, <2>1, FirstOfShared
  <1>7. p.audio = "None" \/ (Contains(c.audio, p.audio) /\ Contains(s.audio, p.audio))
    <2>1. CASE Shared(c.audio, s.audio) = <<>>
      BY <1>1, <2>1 DEF FirstShared
    <2>2. CASE Shared(c.audio, s.audio) # <<>>
      <3>1. p.audio = Head(Shared(c.audio, s.audio))
        BY <1>1, <2>2 DEF FirstShared
      <3>. QED  BY <1>3, <2>2, <3>1, FirstOfShared
    <2>. QED  BY <2>1, <2>2
  <1>8. /\ \A m \in ToSet(p.auth) : Contains(c.auth, m) /\ Contains(s.auth, m)
        /\ \A m \in ToSet(p.types) : Contains(c.types, m) /\ Contains(s.types, m)
    BY <1>1, <1>3, <1>4
  <1>. QED  BY <1>5, <1>6, <1>7, <1>8

\* The larger start and the smaller end bound what two ranges share.
LEMMA RangesMeet ==
    ASSUME NEW a \in Nat, NEW b \in Nat, NEW e \in Nat, NEW f \in Nat
    PROVE  Larger(a, e) .. Smaller(b, f) = (a .. b) \intersect (e .. f)
  BY DEF Larger, Smaller

\* Its limits, and its order of authentication methods.
LEMMA ProfileLimits ==
    ASSUME NEW c \in Capabilities, NEW s \in Capabilities, NEW p,
           p = ProfileOf(c, s), Shared(s.auth, c.auth) # <<>>
    PROVE  /\ \A side \in {c, s} : p.fps <= side.fps /\ p.size <= side.size /\ (p.chat => side.chat)
           /\ p.chunk[1] .. p.chunk[2]
                 = (c.chunk[1] .. c.chunk[2]) \intersect (s.chunk[1] .. s.chunk[2])
           /\ \E i \in DOMAIN s.auth :
                 /\ s.auth[i] = Head(p.auth)
                 /\ \A j \in 1 .. i - 1 : ~Contains(c.auth, s.auth[j])
  <1>1. /\ p.fps = Smaller(c.fps, s.fps) /\ p.size = Smaller(c.size, s.size)
        /\ p.chat = (c.chat /\ s.chat) /\ p.auth = Shared(s.auth, c.auth)
        /\ p.chunk = <<Larger(c.chunk[1], s.chunk[1]), Smaller(c.chunk[2], s.chunk[2])>>
    BY DEF ProfileOf
  <1>2. /\ c.fps \in Nat /\ s.fps \in Nat /\ c.size \in Nat /\ s.size \in Nat
        /\ c.chunk[1] \in Nat /\ c.chunk[2] \in Nat /\ s.chunk[1] \in Nat /\ s.chunk[2] \in Nat
    <2>1. c.chunk \in (0 .. U32 - 1) \X (0 .. U32 - 1) /\ s.chunk \in (0 .. U32 - 1) \X (0 .. U32 - 1)
      BY CapabilityTypes
    <2>2. c.fps \in 0 .. U32 - 1 /\ s.fps \in 0 .. U32 - 1 /\ c.size \in Nat /\ s.size \in Nat
      BY CapabilityTypes
    <2>. QED  BY <2>1, <2>2, U32Facts
  <1>3. \A side \in {c, s} : p.fps <= side.fps /\ p.size <= side.size
    BY <1>1, <1>2 DEF Smaller
  <1>4. \A side \in {c, s} : p.chat => side.chat
    <2>1. p.chat => c.chat /\ s.chat
      BY <1>1, Zenon
    <2>. QED  BY <2>1
  <1>5. p.chunk[1] .. p.chunk[2] = (c.chunk[1] .. c.chunk[2]) \intersect (s.chunk[1] .. s.chunk[2])
    <2>1. p.chunk[1] = Larger(c.chunk[1], s.chunk[1]) /\ p.chunk[2] = Smaller(c.chunk[2], s.chunk[2])
      BY <1>1
    <2>2. PICK a, b, e, f : a = c.chunk[1] /\ b = c.chunk[2] /\ e = s.chunk[1] /\ f = s.chunk[2]
      OBVIOUS
    <2>3. a \in Nat /\ b \in Nat /\ e \in Nat /\ f \in Nat
      BY <1>2, <2>2
    <2>4. Larger(a, e) .. Smaller(b, f) = (a .. b) \intersect (e .. f)
      BY <2>3, RangesMeet
    <2>. QED  BY <2>1, <2>2, <2>4, Zenon
  <1>6. \E i \in DOMAIN s.auth : /\ s.auth[i] = Head(p.auth)
                                 /\ \A j \in 1 .. i - 1 : ~Contains(c.auth, s.auth[j])
    <2>1. s.auth \in Seq(Texts)
      BY CapabilityTypes
    <2>. QED  BY <1>1, <2>1, FirstOfShared
  <1>. QED  BY <1>3, <1>4, <1>5, <1>6

-----------------------------------------------------------------------------
(* The inductive invariant: what a hello says is what its writer has, and what
   each side has worked out is what its own capabilities and the other's give. *)

HellosAreWritten ==
    /\ program = "rust" => clientHello = ToCbor(clientCaps)
    /\ phase # "hello" => serverHello = ToCbor(serverCaps)

ViewsAreWorkedOut ==
    /\ phase = "hello" => serverView = NotYet
    /\ phase # "hello" => serverView = Negotiate(FromCbor(clientHello), serverCaps)
    /\ phase \in {"authing", "stopped"} /\ program = "rust" =>
          clientView = Negotiate(clientCaps, serverCaps)

NegotiationInv == TypeOK /\ HellosAreWritten /\ ViewsAreWorkedOut

LEMMA NegotiationInit == Init => NegotiationInv
  <1>. SUFFICES ASSUME Init PROVE NegotiationInv
    OBVIOUS
  <1>1. /\ program \in {"rust", "foreign"} /\ phase = "hello" /\ serverView = NotYet
        /\ serverHello = NoHello /\ serverCaps \in {Default} \union Near(Default)
        /\ \/ program = "rust" /\ clientCaps \in Peers /\ clientHello = ToCbor(clientCaps)
           \/ program = "foreign" /\ clientCaps = Default /\ clientHello \in ForeignHellos
    BY Zenon DEF Init
  <1>2. clientCaps \in Capabilities /\ serverCaps \in Capabilities
    BY <1>1, VariantsAssumption, CapabilitiesAssumption
  <1>3. clientHello \in CapabilityMaps
    BY <1>1, <1>2, WrittenMaps, VariantsAssumption
  <1>4. serverHello \in CapabilityMaps
    <2>1. PICK M : M = [has |-> Keys, junk |-> {}, val |-> Default] /\ M \in CapabilityMaps
      BY WrittenMaps, CapabilitiesAssumption DEF ToCbor
    <2>. QED  BY <1>1, <2>1 DEF NoHello, CapabilityMaps
  <1>5. FromCbor(clientHello) \in Capabilities
    BY <1>3, ReadCapabilities
  <1>6. TypeOK
    BY <1>1, <1>2, <1>3, <1>4, <1>5, Zenon DEF TypeOK
  <1>7. HellosAreWritten /\ ViewsAreWorkedOut
    <2>1. phase # "authing" /\ phase # "stopped"
      BY <1>1
    <2>2. program = "rust" => clientHello = ToCbor(clientCaps)
      BY <1>1
    <2>. QED  BY <1>1, <2>1, <2>2, Zenon DEF HellosAreWritten, ViewsAreWorkedOut
  <1>. QED  BY <1>6, <1>7 DEF NegotiationInv

LEMMA NegotiationStep == NegotiationInv /\ [Next]_vars => NegotiationInv'
  <1>. SUFFICES ASSUME NegotiationInv, [Next]_vars PROVE NegotiationInv'
    OBVIOUS
  <1>0. /\ TypeOK /\ program \in {"rust", "foreign"} /\ clientCaps \in Capabilities
        /\ serverCaps \in Capabilities /\ serverHello \in CapabilityMaps
        /\ program = "rust" => clientHello = ToCbor(clientCaps)
        /\ phase # "hello" => serverHello = ToCbor(serverCaps)
        /\ phase = "hello" => serverView = NotYet
        /\ phase # "hello" => serverView = Negotiate(FromCbor(clientHello), serverCaps)
        /\ phase \in {"authing", "stopped"} /\ program = "rust" =>
              clientView = Negotiate(clientCaps, serverCaps)
    BY Zenon DEF NegotiationInv, TypeOK, HellosAreWritten, ViewsAreWorkedOut
  <1>1. CASE HelloExchange
    <2>1. /\ phase = "hello" /\ phase' = "answered" /\ serverHello' = ToCbor(serverCaps)
          /\ serverView' = Negotiate(FromCbor(clientHello), serverCaps)
          /\ UNCHANGED <<program, clientCaps, serverCaps, clientHello, clientView>>
      BY <1>1, Zenon DEF HelloExchange
    <2>2. serverHello' \in CapabilityMaps
      BY <1>0, <2>1, WrittenMaps
    <2>3. TypeOK'
      BY <1>0, <2>1, <2>2 DEF TypeOK
    <2>4. HellosAreWritten' /\ ViewsAreWorkedOut'
      BY <1>0, <2>1 DEF HellosAreWritten, ViewsAreWorkedOut
    <2>. QED  BY <2>3, <2>4 DEF NegotiationInv
  <1>2. CASE ClientNegotiates
    <2>1. /\ phase = "answered" /\ program = "rust" /\ phase' \in {"authing", "stopped"}
          /\ clientView' = Negotiate(clientCaps, FromCbor(serverHello))
          /\ UNCHANGED <<program, clientCaps, serverCaps, clientHello, serverHello, serverView>>
      BY <1>2 DEF ClientNegotiates
    <2>2. clientView' = Negotiate(clientCaps, serverCaps)
      BY <1>0, <2>1, RoundTrip
    <2>3. TypeOK'
      BY <1>0, <2>1 DEF TypeOK
    <2>4. HellosAreWritten' /\ ViewsAreWorkedOut'
      BY <1>0, <2>1, <2>2 DEF HellosAreWritten, ViewsAreWorkedOut
    <2>. QED  BY <2>3, <2>4 DEF NegotiationInv
  <1>3. CASE ForeignClientGoesOn
    <2>1. /\ phase = "answered" /\ program = "foreign" /\ phase' \in {"authing", "stopped"}
          /\ UNCHANGED <<program, clientCaps, serverCaps, clientHello, serverHello,
                         clientView, serverView>>
      BY <1>3 DEF ForeignClientGoesOn
    <2>2. TypeOK'
      BY <1>0, <2>1 DEF TypeOK
    <2>3. HellosAreWritten' /\ ViewsAreWorkedOut'
      BY <1>0, <2>1 DEF HellosAreWritten, ViewsAreWorkedOut
    <2>. QED  BY <2>2, <2>3 DEF NegotiationInv
  <1>4. CASE UNCHANGED vars
    BY <1>0, <1>4 DEF vars, NegotiationInv, TypeOK, HellosAreWritten, ViewsAreWorkedOut
  <1>. QED  BY <1>1, <1>2, <1>3, <1>4 DEF Next

LEMMA NegotiationInvHolds == Spec => []NegotiationInv
  BY NegotiationInit, NegotiationStep, PTL DEF Spec

-----------------------------------------------------------------------------

\* Whatever hellos are exchanged, what each side reads of the other are
\* capabilities: no missing or malformed key leaves a field without a value.
THEOREM NegotiationTypeCorrect == Spec => []TypeOK
  <1>1. NegotiationInv => TypeOK
    BY DEF NegotiationInv
  <1>. QED  BY <1>1, NegotiationInvHolds, PTL

\* The two sides, each with the other's capabilities out of CBOR, come to the
\* same profile or fail for the same reason.
THEOREM BothSidesAgreeHolds == Spec => []BothSidesAgree
  <1>1. NegotiationInv => BothSidesAgree
    <2>. SUFFICES ASSUME NegotiationInv, phase \in {"authing", "stopped"}, program = "rust"
                  PROVE  clientView = serverView
      BY DEF BothSidesAgree
    <2>1. /\ clientCaps \in Capabilities /\ clientHello = ToCbor(clientCaps)
          /\ clientView = Negotiate(clientCaps, serverCaps)
          /\ serverView = Negotiate(FromCbor(clientHello), serverCaps)
      BY DEF NegotiationInv, TypeOK, HellosAreWritten, ViewsAreWorkedOut
    <2>. QED  BY <2>1, RoundTrip
  <1>. QED  BY <1>1, NegotiationInvHolds, PTL

\* The facts about a profile that has been found, from the invariant.
LEMMA FoundProfile ==
    ASSUME NegotiationInv, serverView.error = "none"
    PROVE  /\ clientHello \in CapabilityMaps
           /\ FromCbor(clientHello) \in Capabilities /\ serverCaps \in Capabilities
           /\ serverView = ProfileOf(FromCbor(clientHello), serverCaps)
           /\ Shared(FromCbor(clientHello).versions, serverCaps.versions) # <<>>
           /\ Shared(serverCaps.auth, FromCbor(clientHello).auth) # <<>>
           /\ Shared(FromCbor(clientHello).codecs, serverCaps.codecs) # <<>>
  <1>1. /\ clientHello \in CapabilityMaps
        /\ FromCbor(clientHello) \in Capabilities /\ serverCaps \in Capabilities
        /\ phase = "hello" => serverView = NotYet
        /\ phase # "hello" => serverView = Negotiate(FromCbor(clientHello), serverCaps)
    BY Zenon DEF NegotiationInv, TypeOK, ViewsAreWorkedOut
  <1>2. serverView = Negotiate(FromCbor(clientHello), serverCaps)
    BY <1>1 DEF NotYet
  <1>. QED  BY <1>1, <1>2, Agreed

\* No profile holds anything one side does not have, for all capabilities and
\* all maps.
THEOREM NothingBeyondEitherSideHolds == Spec => []NothingBeyondEitherSide
  <1>1. NegotiationInv => NothingBeyondEitherSide
    <2>. SUFFICES ASSUME NegotiationInv, serverView.error = "none" PROVE NothingBeyondEitherSide
      BY DEF NothingBeyondEitherSide
    <2>1. PICK c, s, p : c = FromCbor(clientHello) /\ s = serverCaps /\ p = serverView
      OBVIOUS
    <2>2. /\ c \in Capabilities /\ s \in Capabilities /\ p = ProfileOf(c, s)
          /\ Shared(c.versions, s.versions) # <<>> /\ Shared(s.auth, c.auth) # <<>>
          /\ Shared(c.codecs, s.codecs) # <<>>
      BY <2>1, FoundProfile
    <2>3. /\ \A side \in {c, s} : p.fps <= side.fps /\ p.size <= side.size /\ (p.chat => side.chat)
          /\ p.chunk[1] .. p.chunk[2]
                = (c.chunk[1] .. c.chunk[2]) \intersect (s.chunk[1] .. s.chunk[2])
          /\ \E i \in DOMAIN s.auth :
                /\ s.auth[i] = Head(p.auth)
                /\ \A j \in 1 .. i - 1 : ~Contains(c.auth, s.auth[j])
      BY <2>2, ProfileLimits
    <2>4. /\ Contains(c.versions, p.version) /\ Contains(s.versions, p.version)
          /\ Contains(c.codecs, p.codec) /\ Contains(s.codecs, p.codec)
          /\ p.audio = "None" \/ (Contains(c.audio, p.audio) /\ Contains(s.audio, p.audio))
          /\ \A m \in ToSet(p.auth) : Contains(c.auth, m) /\ Contains(s.auth, m)
          /\ \A m \in ToSet(p.types) : Contains(c.types, m) /\ Contains(s.types, m)
      BY <2>2, ProfileWithin
    <2>5. ASSUME NEW side \in {c, s}
          PROVE  /\ p.version \in ToSet(side.versions) /\ p.codec \in ToSet(side.codecs)
                 /\ p.audio \in ToSet(side.audio) \union {"None"}
                 /\ ToSet(p.auth) \subseteq ToSet(side.auth)
                 /\ ToSet(p.types) \subseteq ToSet(side.types)
      <3>1. /\ \A x : Contains(side.versions, x) <=> x \in ToSet(side.versions)
            /\ \A x : Contains(side.codecs, x) <=> x \in ToSet(side.codecs)
            /\ \A x : Contains(side.audio, x) <=> x \in ToSet(side.audio)
            /\ \A x : Contains(side.auth, x) <=> x \in ToSet(side.auth)
            /\ \A x : Contains(side.types, x) <=> x \in ToSet(side.types)
        <4>1. PICK W, Y : W = 0 .. U32 - 1 /\ Y = Texts
          OBVIOUS
        <4>2. side \in Capabilities
          BY <2>2
        <4>3. /\ side.versions \in Seq(W) /\ side.codecs \in Seq(Y) /\ side.audio \in Seq(Y)
              /\ side.auth \in Seq(Y) /\ side.types \in Seq(Y)
          BY <4>1, <4>2, CapabilityTypes
        <4>. QED  BY <4>3, ToSetContains
      <3>2. /\ Contains(side.versions, p.version) /\ Contains(side.codecs, p.codec)
            /\ p.audio = "None" \/ Contains(side.audio, p.audio)
            /\ \A m \in ToSet(p.auth) : Contains(side.auth, m)
            /\ \A m \in ToSet(p.types) : Contains(side.types, m)
        BY <2>4
      <3>. QED  BY <3>1, <3>2
    <2>6. /\ \A side \in {c, s} :
               /\ p.version \in ToSet(side.versions) /\ p.codec \in ToSet(side.codecs)
               /\ p.audio \in ToSet(side.audio) \union {"None"}
               /\ ToSet(p.auth) \subseteq ToSet(side.auth)
               /\ ToSet(p.types) \subseteq ToSet(side.types)
               /\ p.fps <= side.fps /\ p.size <= side.size
               /\ p.chat => side.chat
      BY <2>3, <2>5, Zenon
    <2>. QED  BY <2>1, <2>3, <2>6, Zenon DEF NothingBeyondEitherSide
  <1>. QED  BY <1>1, NegotiationInvHolds, PTL

\* A profile takes what the client wrote, never a default in its place.
THEOREM OffersAreTheClientsHolds == Spec => []OffersAreTheClients
  <1>1. NegotiationInv => OffersAreTheClients
    <2>. SUFFICES ASSUME NegotiationInv, serverView.error = "none" PROVE OffersAreTheClients
      BY DEF OffersAreTheClients
    <2>1. PICK w, c, p : w = clientHello /\ c = FromCbor(w) /\ p = serverView
      OBVIOUS
    <2>2. /\ w \in CapabilityMaps /\ c \in Capabilities /\ p = ProfileOf(c, serverCaps)
          /\ Contains(c.versions, p.version) /\ Contains(c.codecs, p.codec)
          /\ p.audio = "None" \/ Contains(c.audio, p.audio)
          /\ \A m \in ToSet(p.auth) : Contains(c.auth, m)
          /\ \A m \in ToSet(p.types) : Contains(c.types, m)
      BY <2>1, FoundProfile, ProfileWithin
    <2>3. /\ c.versions = ReadVersions(w, "versions") /\ c.codecs = ReadTexts(w, "codecs")
          /\ c.audio = ReadTexts(w, "audio") /\ c.auth = ReadTexts(w, "auth")
          /\ c.types = ReadTexts(w, "types") /\ c.chat = ReadOther(w, "chat")
      BY <2>1 DEF FromCbor
    <2>4. Usable(w, "codecs") => Contains(w.val["codecs"], p.codec)
      BY <2>2, <2>3, OnlyOffers
    <2>5. p.audio = "None" \/ (Usable(w, "audio") => Contains(w.val["audio"], p.audio))
      BY <2>2, <2>3, OnlyOffers
    <2>6. \A m \in ToSet(p.auth) : Usable(w, "auth") => Contains(w.val["auth"], m)
      BY <2>2, <2>3, OnlyOffers
    <2>7. \A m \in ToSet(p.types) : Usable(w, "types") => Contains(w.val["types"], m)
      BY <2>2, <2>3, OnlyOffers
    <2>8. (\A n \in ToSet(w.val.versions) : n < U32) =>
              (Usable(w, "versions") => Contains(w.val["versions"], p.version))
      BY <2>2, <2>3, OnlyOfferedVersions
    <2>9. Usable(w, "chat") /\ p.chat => w.val.chat
      <3>1. p.chat = (c.chat /\ serverCaps.chat)
        BY <2>2 DEF ProfileOf
      <3>2. Usable(w, "chat") => c.chat = w.val["chat"]
        BY <2>3 DEF ReadOther
      <3>3. w.val["chat"] = w.val.chat
        OBVIOUS
      <3>. QED  BY <3>1, <3>2, <3>3, Zenon
    <2>. QED  BY <2>1, <2>4, <2>5, <2>6, <2>7, <2>8, <2>9, Zenon DEF OffersAreTheClients
  <1>. QED  BY <1>1, NegotiationInvHolds, PTL

=============================================================================
