--------------------------- MODULE DisplayProofs ----------------------------
(***************************************************************************)
(* Theorems about Display, for any number of pictures, of units in them    *)
(* and of frames in the window: the numbering of the slices, the place of  *)
(* the keyframe, and that the dump is what the encoder made.               *)
(***************************************************************************)
EXTENDS Display, SequencePicksTheorems

-----------------------------------------------------------------------------
(* Concatenation: what FlattenSeq computes is a table of the sequences joined
   so far. *)

IsJoinTable(f, q, n) ==
    f = [i \in 1 .. n |-> IF i = 1 THEN q[i] ELSE f[i - 1] \o q[i]]

LEMMA JoinEntries ==
    ASSUME NEW q, NEW n \in Nat, NEW f, IsJoinTable(f, q, n)
    PROVE  \A i \in 1 .. n : f[i] = IF i = 1 THEN q[i] ELSE f[i - 1] \o q[i]
  <1>. DEFINE entry(i) == IF i = 1 THEN q[i] ELSE f[i - 1] \o q[i]
  <1>1. f = [i \in 1 .. n |-> entry(i)]
    BY Zenon DEF IsJoinTable
  <1>. HIDE DEF entry
  <1>2. \A i \in 1 .. n : f[i] = entry(i)
    BY <1>1, Zenon
  <1>. QED  BY <1>2 DEF entry

LEMMA JoinExists ==
    ASSUME NEW q, NEW n \in Nat
    PROVE  \E f : IsJoinTable(f, q, n)
  <1>. DEFINE S == {m \in Nat : \E f : IsJoinTable(f, q, m)}
  <1>1. 0 \in S
    <2>1. IsJoinTable([i \in 1 .. 0 |-> <<>>], q, 0)
      BY DEF IsJoinTable
    <2>. QED  BY <2>1
  <1>2. ASSUME NEW m \in Nat, m \in S PROVE m + 1 \in S
    <2>1. PICK f : IsJoinTable(f, q, m)
      BY <1>2
    <2>. DEFINE last == IF m = 0 THEN q[1] ELSE f[m] \o q[m + 1]
                g == [i \in 1 .. m + 1 |-> IF i = m + 1 THEN last ELSE f[i]]
    <2>2. IsJoinTable(g, q, m + 1)
      <3>1. ASSUME NEW i \in 1 .. m + 1
            PROVE  g[i] = IF i = 1 THEN q[i] ELSE g[i - 1] \o q[i]
        <4>1. CASE i = m + 1
          BY <4>1
        <4>2. CASE i \in 1 .. m
          <5>1. f[i] = IF i = 1 THEN q[i] ELSE f[i - 1] \o q[i]
            BY <2>1, <4>2, JoinEntries
          <5>. QED  BY <4>2, <5>1
        <4>. QED  BY <4>1, <4>2
      <3>. HIDE DEF last
      <3>. QED  BY <3>1 DEF IsJoinTable
    <2>. QED  BY <2>2
  <1>. HIDE DEF S
  <1>3. n \in S
    BY <1>1, <1>2, NatSetInduction
  <1>. QED  BY <1>3 DEF S

LEMMA JoinTable ==
    ASSUME NEW q, NEW n \in Nat, Len(q) = n, n # 0
    PROVE  \E f : IsJoinTable(f, q, n) /\ FlattenSeq(q) = f[n]
  <1>. DEFINE f == CHOOSE g : IsJoinTable(g, q, n)
  <1>1. IsJoinTable(f, q, n)
    BY JoinExists, Zenon
  <1>2. FlattenSeq(q) = f[n]
    BY Zenon DEF FlattenSeq, IsJoinTable
  <1>. QED  BY <1>1, <1>2, Zenon

\* One sequence more is joined behind the others.
LEMMA JoinNext ==
    ASSUME NEW q, NEW r, NEW n \in Nat, n # 0, Len(q) = n, Len(r) = n + 1,
           \A i \in 1 .. n : q[i] = r[i]
    PROVE  FlattenSeq(r) = FlattenSeq(q) \o r[n + 1]
  <1>1. PICK f : IsJoinTable(f, q, n) /\ FlattenSeq(q) = f[n]
    BY JoinTable
  <1>2. PICK g : IsJoinTable(g, r, n + 1) /\ FlattenSeq(r) = g[n + 1]
    <2>1. PICK m \in Nat : m = n + 1
      OBVIOUS
    <2>2. m # 0 /\ Len(r) = m
      BY <2>1
    <2>. QED  BY <2>1, <2>2, JoinTable
  <1>3. \A i \in 1 .. n : f[i] = IF i = 1 THEN q[i] ELSE f[i - 1] \o q[i]
    BY <1>1, JoinEntries
  <1>4. \A i \in 1 .. n + 1 : g[i] = IF i = 1 THEN r[i] ELSE g[i - 1] \o r[i]
    <2>1. PICK m \in Nat : m = n + 1
      OBVIOUS
    <2>2. IsJoinTable(g, r, m)
      BY <1>2, <2>1
    <2>. QED  BY <2>1, <2>2, JoinEntries
  <1>. DEFINE S == {m \in Nat : m \in 1 .. n => f[m] = g[m]}
  <1>5. 0 \in S
    OBVIOUS
  <1>6. ASSUME NEW m \in Nat, m \in S PROVE m + 1 \in S
    <2>. SUFFICES ASSUME m + 1 \in 1 .. n PROVE f[m + 1] = g[m + 1]
      OBVIOUS
    <2>1. CASE m = 0
      BY <1>3, <1>4, <2>1
    <2>2. CASE m # 0
      <3>1. f[m] = g[m] /\ m + 1 # 1 /\ (m + 1) - 1 = m /\ m + 1 \in 1 .. n + 1
        BY <1>6, <2>2
      <3>2. f[m + 1] = f[m] \o q[m + 1]
        BY <1>3, <3>1
      <3>3. g[m + 1] = g[m] \o r[m + 1]
        BY <1>4, <3>1
      <3>. QED  BY <3>1, <3>2, <3>3
    <2>. QED  BY <2>1, <2>2
  <1>. HIDE DEF S
  <1>7. n \in S
    BY <1>5, <1>6, NatSetInduction
  <1>8. f[n] = g[n]
    BY <1>7 DEF S
  <1>9. g[n + 1] = g[n] \o r[n + 1]
    <2>1. n + 1 \in 1 .. n + 1 /\ n + 1 # 1 /\ (n + 1) - 1 = n
      OBVIOUS
    <2>. QED  BY <1>4, <2>1
  <1>. QED  BY <1>1, <1>2, <1>8, <1>9

-----------------------------------------------------------------------------
(* The units of a picture, and of the first pictures of a list of counts. *)

Units(f, n) == [i \in 1 .. n |-> Nal(f, i - 1)]
UnitLists(e, k) == [f \in 1 .. k |-> [i \in 1 .. e[f] |-> Nal(f - 1, i - 1)]]
UnitsUpTo(e, k) == FlattenSeq(UnitLists(e, k))

LEMMA UnitsTyped ==
    ASSUME NEW f \in 0 .. DISPLAY_FRAME_COUNT - 1, NEW n \in Nat
    PROVE  /\ Units(f, n) \in Seq(Nals) /\ Len(Units(f, n)) = n
           /\ \A i \in 1 .. n : Units(f, n)[i] = Nal(f, i - 1)
  <1>1. \A i \in 1 .. n : Nal(f, i - 1) \in Nals
    BY DEF Nal, Nals
  <1>2. Units(f, n) \in [1 .. n -> Nals]
    BY <1>1 DEF Units
  <1>3. Units(f, n) \in Seq(Nals)
    <2>1. PICK u : u = Units(f, n)
      OBVIOUS
    <2>2. PICK N : N = Nals
      OBVIOUS
    <2>3. u \in [1 .. n -> N]
      BY <1>2, <2>1, <2>2
    <2>4. u \in Seq(N)
      BY <2>3, SeqDef
    <2>. QED  BY <2>1, <2>2, <2>4
  <1>4. Len(Units(f, n)) = n
    BY DEF Units
  <1>5. \A i \in 1 .. n : Units(f, n)[i] = Nal(f, i - 1)
    BY DEF Units
  <1>. QED  BY <1>3, <1>4, <1>5

LEMMA NoUnits ==
    ASSUME NEW e
    PROVE  UnitsUpTo(e, 0) = <<>>
  <1>1. PICK q : q = UnitLists(e, 0)
    OBVIOUS
  <1>2. Len(q) = 0 /\ q = <<>>
    BY <1>1 DEF UnitLists
  <1>3. FlattenSeq(q) = <<>>
    BY <1>2, Zenon DEF FlattenSeq
  <1>. QED  BY <1>1, <1>3 DEF UnitsUpTo

LEMMA UnitListsNext ==
    ASSUME NEW e, NEW k \in Nat
    PROVE  /\ Len(UnitLists(e, k)) = k
           /\ \A i \in 1 .. k : UnitLists(e, k)[i] = Units(i - 1, e[i])
  <1>1. Len(UnitLists(e, k)) = k
    BY DEF UnitLists
  <1>2. ASSUME NEW i \in 1 .. k PROVE UnitLists(e, k)[i] = Units(i - 1, e[i])
    BY DEF UnitLists, Units
  <1>. QED  BY <1>1, <1>2

\* The counts of later pictures do not matter.
LEMMA UnitsSame ==
    ASSUME NEW e, NEW d, NEW k \in Nat, \A i \in 1 .. k : e[i] = d[i]
    PROVE  UnitsUpTo(e, k) = UnitsUpTo(d, k)
  <1>1. UnitLists(e, k) = UnitLists(d, k)
    BY DEF UnitLists
  <1>. QED  BY <1>1 DEF UnitsUpTo

LEMMA UnitsNext ==
    ASSUME NEW e, NEW k \in Nat, e[k + 1] \in Nat, k < DISPLAY_FRAME_COUNT
    PROVE  UnitsUpTo(e, k + 1) = UnitsUpTo(e, k) \o Units(k, e[k + 1])
  <1>1. PICK q, r : q = UnitLists(e, k) /\ r = UnitLists(e, k + 1)
    OBVIOUS
  <1>2. PICK m \in Nat : m = k + 1
    OBVIOUS
  <1>3. /\ Len(q) = k /\ \A i \in 1 .. k : q[i] = Units(i - 1, e[i])
        /\ Len(r) = m /\ \A i \in 1 .. m : r[i] = Units(i - 1, e[i])
    BY <1>1, <1>2, UnitListsNext
  <1>4. r[k + 1] = Units(k, e[k + 1])
    <2>1. m \in 1 .. m /\ m - 1 = k
      BY <1>2
    <2>. QED  BY <1>2, <1>3, <2>1
  <1>5. CASE k = 0
    <2>1. PICK f : IsJoinTable(f, r, m) /\ FlattenSeq(r) = f[m]
      BY <1>2, <1>3, JoinTable
    <2>2. f[1] = r[1]
      BY <1>2, <1>5, <2>1, JoinEntries
    <2>3. FlattenSeq(r) = Units(k, e[k + 1])
      BY <1>2, <1>4, <1>5, <2>1, <2>2
    <2>4. UnitsUpTo(e, k) = <<>>
      BY <1>5, NoUnits
    <2>5. <<>> \o Units(k, e[k + 1]) = Units(k, e[k + 1])
      <3>1. k \in 0 .. DISPLAY_FRAME_COUNT - 1
        BY <1>5, SizesAssumption
      <3>2. Units(k, e[k + 1]) \in Seq(Nals)
        BY <3>1, UnitsTyped
      <3>. QED  BY <3>2, ConcatEmptySeq
    <2>. QED  BY <1>1, <2>3, <2>4, <2>5, Zenon DEF UnitsUpTo
  <1>6. CASE k # 0
    <2>1. \A i \in 1 .. k : q[i] = r[i]
      BY <1>2, <1>3
    <2>2. FlattenSeq(r) = FlattenSeq(q) \o r[k + 1]
      <3>1. Len(q) = k /\ Len(r) = k + 1
        BY <1>2, <1>3
      <3>. QED  BY <1>6, <2>1, <3>1, JoinNext
    <2>. QED  BY <1>1, <1>4, <2>2, Zenon DEF UnitsUpTo
  <1>. QED  BY <1>5, <1>6

-----------------------------------------------------------------------------
(* The frames of a type among the first n, and the units in the slices. *)

OfType(s, type) == {i \in DOMAIN s : s[i].type = type}
HowMany(s, n, type) == Len(PickedUpTo(s, OfType(s, type), n))
NalsIn(s, n) ==
    LET slices == PickedUpTo(s, OfType(s, "FrameSlice"), n)
    IN [k \in DOMAIN slices |-> slices[k].nal]

SliceFrames == {x \in Frames : x.type = "FrameSlice"}

LEMMA SliceHasNal == \A x \in SliceFrames : x.nal \in Nals
  BY DEF SliceFrames, Frames

LEMMA UpToTyped ==
    ASSUME NEW X, NEW s, NEW I, NEW n \in Nat, \A i \in 1 .. n : i \in I => s[i] \in X
    PROVE  PickedUpTo(s, I, n) \in Seq(X)
  <1>1. HoldsTheChosen(PickedUpTo(s, I, n), s, I, n, X)
    BY UpToElements
  <1>. QED  BY <1>1, Zenon DEF HoldsTheChosen

LEMMA HowManyNext ==
    ASSUME NEW s \in Seq(Frames), NEW n \in Nat, n < Len(s), NEW type
    PROVE  /\ HowMany(s, n, type) \in Nat
           /\ s[n + 1].type = type => HowMany(s, n + 1, type) = HowMany(s, n, type) + 1
           /\ s[n + 1].type # type => HowMany(s, n + 1, type) = HowMany(s, n, type)
  <1>1. PICK X : X = Frames
    OBVIOUS
  <1>2. PICK I : I = OfType(s, type)
    OBVIOUS
  <1>3. s \in Seq(X)
    BY <1>1
  <1>4. /\ n + 1 \in DOMAIN s /\ s[n + 1] \in X
        /\ \A i \in 1 .. n : s[i] \in X
    BY <1>3, LenProperties, ElementOfSeq
  <1>5. PICK p : p = PickedUpTo(s, I, n)
    OBVIOUS
  <1>6. p \in Seq(X)
    BY <1>4, <1>5, UpToTyped
  <1>7. Len(p) \in Nat /\ Len(Append(p, s[n + 1])) = Len(p) + 1
    BY <1>4, <1>6, LenProperties, AppendProperties
  <1>8. /\ n + 1 \in I => PickedUpTo(s, I, n + 1) = Append(p, s[n + 1])
        /\ n + 1 \notin I => PickedUpTo(s, I, n + 1) = p
    BY <1>5, UpToNext
  <1>9. n + 1 \in I <=> s[n + 1].type = type
    BY <1>2, <1>4 DEF OfType
  <1>. QED  BY <1>2, <1>5, <1>7, <1>8, <1>9, Zenon DEF HowMany

LEMMA NoFramesYet ==
    ASSUME NEW s
    PROVE  /\ NalsIn(s, 0) = <<>> /\ \A type : HowMany(s, 0, type) = 0
  <1>1. \A I : PickedUpTo(s, I, 0) = <<>>
    BY UpToStart
  <1>2. NalsIn(s, 0) = <<>>
    <2>1. PickedUpTo(s, OfType(s, "FrameSlice"), 0) = <<>>
      BY <1>1
    <2>. QED  BY <2>1 DEF NalsIn
  <1>3. ASSUME NEW type PROVE HowMany(s, 0, type) = 0
    <2>1. PickedUpTo(s, OfType(s, type), 0) = <<>>
      BY <1>1
    <2>. QED  BY <2>1 DEF HowMany
  <1>. QED  BY <1>2, <1>3

LEMMA NalsTyped ==
    ASSUME NEW s \in Seq(Frames), NEW n \in Nat, n <= Len(s)
    PROVE  NalsIn(s, n) \in Seq(Nals) /\ Len(NalsIn(s, n)) \in Nat
  <1>1. PICK X, I : X = Frames /\ I = OfType(s, "FrameSlice")
    OBVIOUS
  <1>2. s \in Seq(X)
    BY <1>1
  <1>3. \A i \in 1 .. n : s[i] \in X
    BY <1>2, LenProperties, ElementOfSeq
  <1>4. \A i \in 1 .. n : i \in I => s[i] \in SliceFrames
    BY <1>1, <1>3, Zenon DEF OfType, SliceFrames
  <1>5. PICK p : p = PickedUpTo(s, I, n)
    OBVIOUS
  <1>6. PICK S, N : S = SliceFrames /\ N = Nals
    OBVIOUS
  <1>7. p \in Seq(S)
    BY <1>4, <1>5, <1>6, UpToTyped
  <1>8. PICK m \in Nat : m = Len(p) /\ DOMAIN p = 1 .. m
    BY <1>7, LenProperties
  <1>9. \A k \in 1 .. m : p[k] \in S /\ p[k].nal \in N
    BY <1>6, <1>7, <1>8, ElementOfSeq, SliceHasNal
  <1>10. [k \in 1 .. m |-> p[k].nal] \in [1 .. m -> N]
    BY <1>9
  <1>11. [k \in 1 .. m |-> p[k].nal] \in Seq(N)
    BY <1>10, SeqDef
  <1>12. NalsIn(s, n) = [k \in 1 .. m |-> p[k].nal]
    BY <1>1, <1>5, <1>8, Zenon DEF NalsIn
  <1>. QED  BY <1>6, <1>11, <1>12, LenProperties

LEMMA NalsNext ==
    ASSUME NEW s \in Seq(Frames), NEW n \in Nat, n < Len(s)
    PROVE  /\ s[n + 1].type = "FrameSlice" =>
                s[n + 1].nal \in Nals /\ NalsIn(s, n + 1) = Append(NalsIn(s, n), s[n + 1].nal)
           /\ s[n + 1].type # "FrameSlice" => NalsIn(s, n + 1) = NalsIn(s, n)
  <1>1. PICK X, I : X = Frames /\ I = OfType(s, "FrameSlice")
    OBVIOUS
  <1>2. s \in Seq(X)
    BY <1>1
  <1>3. /\ n + 1 \in DOMAIN s /\ s[n + 1] \in X
        /\ \A i \in 1 .. n : s[i] \in X
    BY <1>2, LenProperties, ElementOfSeq
  <1>4. PICK p, r : p = PickedUpTo(s, I, n) /\ r = PickedUpTo(s, I, n + 1)
    OBVIOUS
  <1>5. /\ n + 1 \in I => r = Append(p, s[n + 1])
        /\ n + 1 \notin I => r = p
    BY <1>4, UpToNext
  <1>6. n + 1 \in I <=> s[n + 1].type = "FrameSlice"
    BY <1>1, <1>3 DEF OfType
  <1>7. NalsIn(s, n) = [k \in DOMAIN p |-> p[k].nal] /\ NalsIn(s, n + 1) = [k \in DOMAIN r |-> r[k].nal]
    BY <1>1, <1>4, Zenon DEF NalsIn
  <1>8. s[n + 1].type # "FrameSlice" => NalsIn(s, n + 1) = NalsIn(s, n)
    BY <1>5, <1>6, <1>7
  <1>9. ASSUME s[n + 1].type = "FrameSlice"
        PROVE  s[n + 1].nal \in Nals /\ NalsIn(s, n + 1) = Append(NalsIn(s, n), s[n + 1].nal)
    <2>1. PICK x \in X : x = s[n + 1]
      BY <1>3
    <2>2. x.nal \in Nals
      BY <1>1, <1>9, <2>1, SliceHasNal DEF SliceFrames
    <2>3. p \in Seq(X)
      BY <1>3, <1>4, UpToTyped
    <2>4. r = Append(p, x)
      BY <1>5, <1>6, <1>9, <2>1
    <2>5. PICK m \in Nat : m = Len(p)
      BY <2>3, LenProperties
    <2>6. /\ DOMAIN p = 1 .. m /\ DOMAIN r = 1 .. m + 1
          /\ r[m + 1] = x /\ \A k \in 1 .. m : r[k] = p[k]
      <3>1. r \in Seq(X) /\ Len(r) = m + 1
        BY <2>3, <2>4, <2>5, AppendProperties
      <3>. QED  BY <2>3, <2>4, <2>5, <3>1, LenProperties, AppendProperties
    <2>7. PICK a, b : a = NalsIn(s, n) /\ b = NalsIn(s, n + 1)
      OBVIOUS
    <2>8. a \in Seq(Nals) /\ b \in Seq(Nals)
      <3>1. n <= Len(s) /\ n + 1 <= Len(s)
        BY LenProperties
      <3>2. PICK l \in Nat : l = n + 1
        OBVIOUS
      <3>. QED  BY <2>7, <3>1, <3>2, NalsTyped
    <2>9. /\ DOMAIN a = 1 .. m /\ \A k \in 1 .. m : a[k] = p[k].nal
          /\ DOMAIN b = 1 .. m + 1 /\ \A k \in 1 .. m + 1 : b[k] = r[k].nal
      BY <1>7, <2>6, <2>7
    <2>10. Len(a) = m /\ Len(b) = m + 1
      BY <2>8, <2>9, LenProperties
    <2>11. b[m + 1] = x.nal /\ \A k \in 1 .. m : b[k] = a[k]
      BY <2>6, <2>9
    <2>12. b = Append(a, x.nal)
      <3>1. PICK N, y : N = Nals /\ y = x.nal
        OBVIOUS
      <3>2. /\ Append(a, y) \in Seq(N) /\ Len(Append(a, y)) = m + 1
            /\ Append(a, y)[m + 1] = y /\ \A k \in 1 .. m : Append(a, y)[k] = a[k]
        BY <2>2, <2>8, <2>10, <3>1, AppendProperties
      <3>3. PICK c : c = Append(a, y)
        OBVIOUS
      <3>4. \A k \in 1 .. m + 1 : b[k] = c[k]
        BY <2>11, <3>1, <3>2, <3>3
      <3>5. b = c
        BY <2>8, <2>10, <3>1, <3>2, <3>3, <3>4, SeqEqual
      <3>. QED  BY <3>1, <3>3, <3>5
    <2>. QED  BY <2>1, <2>2, <2>7, <2>12
  <1>. QED  BY <1>8, <1>9

\* Only the first n frames matter.
LEMMA SameStart ==
    ASSUME NEW s \in Seq(Frames), NEW t \in Seq(Frames), NEW n \in Nat,
           n <= Len(s), n <= Len(t), \A i \in 1 .. n : s[i] = t[i]
    PROVE  NalsIn(s, n) = NalsIn(t, n) /\ \A type : HowMany(s, n, type) = HowMany(t, n, type)
  <1>1. ASSUME NEW type
        PROVE  PickedUpTo(s, OfType(s, type), n) = PickedUpTo(t, OfType(t, type), n)
    <2>1. PICK I, J : I = OfType(s, type) /\ J = OfType(t, type)
      OBVIOUS
    <2>2. \A i \in 1 .. n : i \in DOMAIN s /\ i \in DOMAIN t
      BY LenProperties
    <2>3. \A i \in 1 .. n : (i \in I <=> i \in J) /\ (i \in I => s[i] = t[i])
      BY <2>1, <2>2, Zenon DEF OfType
    <2>. QED  BY <2>1, <2>3, UpToSame
  <1>2. NalsIn(s, n) = NalsIn(t, n)
    <2>1. PickedUpTo(s, OfType(s, "FrameSlice"), n) = PickedUpTo(t, OfType(t, "FrameSlice"), n)
      BY <1>1
    <2>. QED  BY <2>1 DEF NalsIn
  <1>3. \A type : HowMany(s, n, type) = HowMany(t, n, type)
    BY <1>1, Zenon DEF HowMany
  <1>. QED  BY <1>2, <1>3

\* The units in the first frames are the first of the units in all.
Begins(a, b) == Len(a) <= Len(b) /\ \A k \in 1 .. Len(a) : a[k] = b[k]

LEMMA NalsBegin ==
    ASSUME NEW s \in Seq(Frames), NEW n \in Nat, n <= Len(s)
    PROVE  Begins(NalsIn(s, n), NalsIn(s, Len(s)))
  <1>1. PICK L \in Nat : L = Len(s)
    BY LenProperties
  <1>. DEFINE S == {m \in Nat : n + m <= L => Begins(NalsIn(s, n), NalsIn(s, n + m))}
  <1>2. 0 \in S
    <2>1. NalsIn(s, n) = NalsIn(s, n + 0) /\ Len(NalsIn(s, n)) <= Len(NalsIn(s, n))
      BY NalsTyped
    <2>. QED  BY <2>1 DEF Begins
  <1>3. ASSUME NEW m \in Nat, m \in S PROVE m + 1 \in S
    <2>. SUFFICES ASSUME n + (m + 1) <= L PROVE Begins(NalsIn(s, n), NalsIn(s, n + (m + 1)))
      OBVIOUS
    <2>1. PICK l \in Nat : l = n + m
      OBVIOUS
    <2>2. l < Len(s) /\ n + (m + 1) = l + 1 /\ l <= Len(s)
      BY <1>1, <2>1
    <2>3. PICK a, b, c : a = NalsIn(s, n) /\ b = NalsIn(s, l) /\ c = NalsIn(s, l + 1)
      OBVIOUS
    <2>4. Len(a) <= Len(b) /\ \A k \in 1 .. Len(a) : a[k] = b[k]
      BY <1>3, <2>1, <2>2, <2>3, <1>1 DEF Begins
    <2>5. Len(a) \in Nat /\ b \in Seq(Nals) /\ Len(b) \in Nat
      BY <2>2, <2>3, NalsTyped
    <2>6. c = b \/ \E x \in Nals : c = Append(b, x)
      BY <2>2, <2>3, NalsNext
    <2>7. Begins(a, c)
      <3>1. CASE c = b
        BY <2>4, <3>1 DEF Begins
      <3>2. ASSUME NEW x \in Nals, c = Append(b, x) PROVE Begins(a, c)
        <4>1. Len(c) = Len(b) + 1 /\ \A k \in 1 .. Len(b) : c[k] = b[k]
          BY <2>5, <3>2, AppendProperties
        <4>. QED  BY <2>4, <2>5, <4>1 DEF Begins
      <3>. QED  BY <2>6, <3>1, <3>2
    <2>. QED  BY <2>2, <2>3, <2>7
  <1>. HIDE DEF S
  <1>4. L - n \in S
    BY <1>1, <1>2, <1>3, NatSetInduction
  <1>5. n + (L - n) = L /\ L - n \in Nat
    BY <1>1
  <1>. QED  BY <1>1, <1>4, <1>5 DEF S

-----------------------------------------------------------------------------
(* A picture, frame by frame. *)

PictureFrame(f, n, k) ==
    IF k = 1 THEN [type |-> "FrameHeader", frame_id |-> f, idr |-> f = 0, n_slices |-> SliceCount(n)]
    ELSE IF k <= n + 1
    THEN [type |-> "FrameSlice", frame_id |-> f, slice_idx |-> (k - 2) % (MaxU8 + 1),
          total |-> SliceCount(n), nal |-> Nal(f, k - 2)]
    ELSE [type |-> "FrameEnd", frame_id |-> f]

Numbers == 0 .. DISPLAY_FRAME_COUNT - 1

LEMMA PictureFrameTyped ==
    ASSUME NEW f \in Numbers, NEW n \in Nat \ {0}, NEW k \in 1 .. n + 2
    PROVE  PictureFrame(f, n, k) \in Frames
  <1>1. SliceCount(n) \in 1 .. MaxU8
    BY SizesAssumption DEF SliceCount
  <1>2. CASE k = 1
    <2>1. (f = 0) \in BOOLEAN
      OBVIOUS
    <2>. QED  BY <1>1, <1>2, <2>1 DEF PictureFrame, Frames, Numbers
  <1>3. CASE k # 1 /\ k <= n + 1
    <2>1. (k - 2) % (MaxU8 + 1) \in 0 .. MaxU8 /\ k - 2 \in Nat
      BY <1>3, SizesAssumption
    <2>2. Nal(f, k - 2) \in Nals
      BY <2>1 DEF Nal, Nals, Numbers
    <2>. QED  BY <1>1, <1>3, <2>1, <2>2 DEF PictureFrame, Frames, Numbers
  <1>4. CASE k # 1 /\ ~(k <= n + 1)
    BY <1>4 DEF PictureFrame, Frames, Numbers
  <1>. QED  BY <1>2, <1>3, <1>4

\* What is seen of such frames.
PictureLooks(f, n) ==
    /\ PictureFrame(f, n, 1).type = "FrameHeader"
    /\ \A j \in 1 .. n : /\ PictureFrame(f, n, 1 + j).type = "FrameSlice"
                         /\ PictureFrame(f, n, 1 + j).nal = Nal(f, j - 1)
    /\ PictureFrame(f, n, n + 2).type = "FrameEnd"
    /\ \A k \in 1 .. n + 2 : PictureFrame(f, n, k).type = "FrameHeader" <=> k = 1
    /\ \A k \in 1 .. n + 2 : PictureFrame(f, n, k).frame_id = f

LEMMA PictureFrameTypes ==
    ASSUME NEW f \in Numbers, NEW n \in Nat \ {0}
    PROVE  PictureLooks(f, n)
  <1>1. PictureFrame(f, n, 1).type = "FrameHeader"
    BY DEF PictureFrame
  <1>2. ASSUME NEW j \in 1 .. n
        PROVE  /\ PictureFrame(f, n, 1 + j).type = "FrameSlice"
               /\ PictureFrame(f, n, 1 + j).nal = Nal(f, j - 1)
    <2>1. 1 + j # 1 /\ 1 + j <= n + 1 /\ (1 + j) - 2 = j - 1
      OBVIOUS
    <2>. QED  BY <2>1 DEF PictureFrame
  <1>3. PictureFrame(f, n, n + 2).type = "FrameEnd"
    BY DEF PictureFrame
  <1>4. \A k \in 1 .. n + 2 : PictureFrame(f, n, k).type = "FrameHeader" <=> k = 1
    BY DEF PictureFrame
  <1>5. \A k \in 1 .. n + 2 : PictureFrame(f, n, k).frame_id = f
    BY DEF PictureFrame
  <1>. QED  BY <1>1, <1>2, <1>3, <1>4, <1>5, Zenon DEF PictureLooks

\* The sequence p is picture f, of n units.
IsPicture(p, f, n) ==
    /\ p \in Seq(Frames) /\ Len(p) = n + 2
    /\ \A k \in 1 .. n + 2 : p[k] = PictureFrame(f, n, k)

LEMMA PictureIsPicture ==
    ASSUME frame_id \in Numbers, NEW n \in Nat \ {0}
    PROVE  IsPicture(Picture(n), frame_id, n)
  <1>. DEFINE h == [type |-> "FrameHeader", frame_id |-> frame_id, idr |-> Flags,
                    n_slices |-> SliceCount(n)]
              e == [type |-> "FrameEnd", frame_id |-> frame_id]
              m == [i \in 1 .. n |-> Slice(n, i - 1)]
  <1>1. h = PictureFrame(frame_id, n, 1) /\ e = PictureFrame(frame_id, n, n + 2)
    BY DEF PictureFrame, Flags, IsIdr
  <1>2. \A i \in 1 .. n : Slice(n, i - 1) = PictureFrame(frame_id, n, i + 1)
    <2>1. ASSUME NEW i \in 1 .. n PROVE Slice(n, i - 1) = PictureFrame(frame_id, n, i + 1)
      <3>1. i + 1 # 1 /\ i + 1 <= n + 1 /\ (i + 1) - 2 = i - 1
        OBVIOUS
      <3>. QED  BY <3>1 DEF PictureFrame, Slice
    <2>. QED  BY <2>1
  <1>3. PICK X : X = Frames
    OBVIOUS
  <1>4. h \in X /\ e \in X /\ \A i \in 1 .. n : PictureFrame(frame_id, n, i + 1) \in X
    <2>1. 1 \in 1 .. n + 2 /\ n + 2 \in 1 .. n + 2 /\ \A i \in 1 .. n : i + 1 \in 1 .. n + 2
      OBVIOUS
    <2>. HIDE DEF h, e
    <2>. QED  BY <1>1, <1>3, <2>1, PictureFrameTyped
  <1>5. PICK q : q = m
    OBVIOUS
  <1>6. q \in Seq(X) /\ Len(q) = n /\ \A i \in 1 .. n : q[i] = PictureFrame(frame_id, n, i + 1)
    <2>1. q = [i \in 1 .. n |-> PictureFrame(frame_id, n, i + 1)]
      BY <1>2, <1>5
    <2>2. q \in [1 .. n -> X]
      BY <1>4, <2>1
    <2>3. q \in Seq(X)
      BY <2>2, SeqDef
    <2>. QED  BY <2>1, <2>3
  <1>7. Picture(n) = <<h>> \o q \o <<e>>
    BY <1>5 DEF Picture
  <1>. HIDE DEF h, e, m
  <1>8. PICK a, b : a = <<h>> /\ b = <<e>>
    OBVIOUS
  <1>9. a \in Seq(X) /\ Len(a) = 1 /\ a[1] = h /\ b \in Seq(X) /\ Len(b) = 1 /\ b[1] = e
    BY <1>4, <1>8
  <1>10. PICK c : c = a \o q
    OBVIOUS
  <1>11. /\ c \in Seq(X) /\ Len(c) = n + 1 /\ c[1] = h
         /\ \A i \in 1 .. n : c[i + 1] = q[i]
    <2>1. /\ c \in Seq(X) /\ Len(c) = Len(a) + Len(q)
          /\ \A i \in 1 .. Len(a) + Len(q) : c[i] = IF i <= Len(a) THEN a[i] ELSE q[i - Len(a)]
      BY <1>6, <1>9, <1>10, ConcatProperties
    <2>2. c[1] = h
      BY <1>6, <1>9, <2>1
    <2>3. ASSUME NEW i \in 1 .. n PROVE c[i + 1] = q[i]
      <3>1. i + 1 \in 1 .. Len(a) + Len(q) /\ ~(i + 1 <= Len(a)) /\ (i + 1) - Len(a) = i
        BY <1>6, <1>9
      <3>. QED  BY <2>1, <3>1
    <2>. QED  BY <1>6, <1>9, <2>1, <2>2, <2>3
  <1>12. PICK p : p = c \o b
    OBVIOUS
  <1>13. /\ p \in Seq(X) /\ Len(p) = n + 2 /\ p[n + 2] = e
         /\ \A i \in 1 .. n + 1 : p[i] = c[i]
    <2>1. /\ p \in Seq(X) /\ Len(p) = Len(c) + Len(b)
          /\ \A i \in 1 .. Len(c) + Len(b) : p[i] = IF i <= Len(c) THEN c[i] ELSE b[i - Len(c)]
      BY <1>9, <1>11, <1>12, ConcatProperties
    <2>2. p[n + 2] = e
      <3>1. n + 2 \in 1 .. Len(c) + Len(b) /\ ~(n + 2 <= Len(c)) /\ (n + 2) - Len(c) = 1
        BY <1>9, <1>11
      <3>. QED  BY <1>9, <2>1, <3>1
    <2>3. ASSUME NEW i \in 1 .. n + 1 PROVE p[i] = c[i]
      <3>1. i \in 1 .. Len(c) + Len(b) /\ i <= Len(c)
        BY <1>9, <1>11
      <3>. QED  BY <2>1, <3>1
    <2>. QED  BY <1>9, <1>11, <2>1, <2>2, <2>3
  <1>14. \A k \in 1 .. n + 2 : p[k] = PictureFrame(frame_id, n, k)
    <2>1. ASSUME NEW k \in 1 .. n + 2 PROVE p[k] = PictureFrame(frame_id, n, k)
      <3>1. CASE k = 1
        BY <1>1, <1>11, <1>13, <3>1
      <3>2. CASE k = n + 2
        BY <1>1, <1>13, <3>2
      <3>3. CASE k \in 2 .. n + 1
        <4>1. k - 1 \in 1 .. n /\ (k - 1) + 1 = k /\ k \in 1 .. n + 1
          BY <3>3
        <4>. QED  BY <1>6, <1>11, <1>13, <4>1
      <3>. QED  BY <3>1, <3>2, <3>3
    <2>. QED  BY <2>1
  <1>15. Picture(n) = p
    BY <1>7, <1>8, <1>10, <1>12
  <1>. QED  BY <1>3, <1>13, <1>14, <1>15, Zenon DEF IsPicture

LEMMA UnitsAppend ==
    ASSUME NEW f \in Numbers, NEW n \in Nat
    PROVE  Units(f, n + 1) = Append(Units(f, n), Nal(f, n)) /\ Nal(f, n) \in Nals
  <1>1. Nal(f, n) \in Nals
    BY DEF Nal, Nals, Numbers
  <1>2. f \in 0 .. DISPLAY_FRAME_COUNT - 1
    BY DEF Numbers
  <1>3. PICK m \in Nat : m = n + 1
    OBVIOUS
  <1>4. PICK N, u, v, x : N = Nals /\ u = Units(f, n) /\ v = Units(f, m) /\ x = Nal(f, n)
    OBVIOUS
  <1>5. /\ u \in Seq(N) /\ Len(u) = n /\ \A i \in 1 .. n : u[i] = Nal(f, i - 1)
        /\ v \in Seq(N) /\ Len(v) = m /\ \A i \in 1 .. m : v[i] = Nal(f, i - 1)
    BY <1>2, <1>4, UnitsTyped
  <1>6. PICK c : c = Append(u, x)
    OBVIOUS
  <1>7. c \in Seq(N) /\ Len(c) = m /\ c[m] = x /\ \A i \in 1 .. n : c[i] = u[i]
    BY <1>1, <1>3, <1>4, <1>5, <1>6, AppendProperties
  <1>8. v[m] = x
    <2>1. m \in 1 .. m /\ m - 1 = n
      BY <1>3
    <2>. QED  BY <1>4, <1>5, <2>1
  <1>9. \A i \in 1 .. n : v[i] = u[i]
    BY <1>3, <1>5
  <1>10. \A i \in 1 .. m : i = m \/ i \in 1 .. n
    BY <1>3
  <1>11. \A i \in 1 .. Len(v) : v[i] = c[i]
    BY <1>5, <1>7, <1>8, <1>9, <1>10
  <1>12. v = c
    BY <1>5, <1>7, <1>11, SeqEqual
  <1>. QED  BY <1>1, <1>3, <1>4, <1>6, <1>12

LEMMA UnitsBehind ==
    ASSUME NEW a \in Seq(Nals), NEW f \in Numbers, NEW n \in Nat
    PROVE  Append(a \o Units(f, n), Nal(f, n)) = a \o Units(f, n + 1)
  <1>1. f \in 0 .. DISPLAY_FRAME_COUNT - 1
    BY DEF Numbers
  <1>2. PICK N, u, x : N = Nals /\ u = Units(f, n) /\ x = Nal(f, n)
    OBVIOUS
  <1>3. u \in Seq(N) /\ a \in Seq(N)
    BY <1>1, <1>2, UnitsTyped
  <1>4. x \in N
    BY <1>2, UnitsAppend
  <1>5. Units(f, n + 1) = Append(u, x)
    BY <1>2, UnitsAppend
  <1>6. Append(a \o u, x) = a \o Append(u, x)
    BY <1>3, <1>4
  <1>. QED  BY <1>2, <1>5, <1>6, Zenon

\* The frames before a picture, and those of it.
LEMMA Joined ==
    ASSUME NEW s \in Seq(Frames), NEW p \in Seq(Frames)
    PROVE  /\ s \o p \in Seq(Frames) /\ Len(s \o p) = Len(s) + Len(p)
           /\ \A i \in 1 .. Len(s) : (s \o p)[i] = s[i]
           /\ \A k \in 1 .. Len(p) : (s \o p)[Len(s) + k] = p[k]
  <1>1. PICK X : X = Frames
    OBVIOUS
  <1>2. PICK L \in Nat, m \in Nat : L = Len(s) /\ m = Len(p)
    BY LenProperties
  <1>3. PICK t : t = s \o p
    OBVIOUS
  <1>4. s \in Seq(X) /\ p \in Seq(X)
    BY <1>1
  <1>5. /\ t \in Seq(X) /\ Len(t) = L + m
        /\ \A i \in 1 .. L + m : t[i] = IF i <= L THEN s[i] ELSE p[i - L]
    BY <1>2, <1>3, <1>4, ConcatProperties
  <1>6. ASSUME NEW k \in 1 .. m PROVE t[L + k] = p[k]
    <2>1. L + k \in 1 .. L + m /\ ~(L + k <= L) /\ (L + k) - L = k
      OBVIOUS
    <2>. QED  BY <1>5, <2>1
  <1>7. \A i \in 1 .. L : t[i] = s[i]
    BY <1>5
  <1>. QED  BY <1>1, <1>2, <1>3, <1>5, <1>6, <1>7

\* What one frame more adds.
LEMMA FrameCounted ==
    ASSUME NEW t \in Seq(Frames), NEW l \in Nat, l < Len(t)
    PROVE  /\ t[l + 1].type = "FrameHeader" =>
                /\ NalsIn(t, l + 1) = NalsIn(t, l)
                /\ HowMany(t, l + 1, "FrameHeader") = HowMany(t, l, "FrameHeader") + 1
                /\ HowMany(t, l + 1, "FrameEnd") = HowMany(t, l, "FrameEnd")
           /\ t[l + 1].type = "FrameSlice" =>
                /\ NalsIn(t, l + 1) = Append(NalsIn(t, l), t[l + 1].nal)
                /\ HowMany(t, l + 1, "FrameHeader") = HowMany(t, l, "FrameHeader")
                /\ HowMany(t, l + 1, "FrameEnd") = HowMany(t, l, "FrameEnd")
           /\ t[l + 1].type = "FrameEnd" =>
                /\ NalsIn(t, l + 1) = NalsIn(t, l)
                /\ HowMany(t, l + 1, "FrameHeader") = HowMany(t, l, "FrameHeader")
                /\ HowMany(t, l + 1, "FrameEnd") = HowMany(t, l, "FrameEnd") + 1
  <1>1. PICK y : y = t[l + 1].type
    OBVIOUS
  <1>2. /\ y = "FrameSlice" => NalsIn(t, l + 1) = Append(NalsIn(t, l), t[l + 1].nal)
        /\ y # "FrameSlice" => NalsIn(t, l + 1) = NalsIn(t, l)
    BY <1>1, NalsNext
  <1>3. ASSUME NEW type
        PROVE  /\ y = type => HowMany(t, l + 1, type) = HowMany(t, l, type) + 1
               /\ y # type => HowMany(t, l + 1, type) = HowMany(t, l, type)
    BY <1>1, HowManyNext
  <1>4. /\ y = "FrameHeader" => HowMany(t, l + 1, "FrameHeader") = HowMany(t, l, "FrameHeader") + 1
        /\ y # "FrameHeader" => HowMany(t, l + 1, "FrameHeader") = HowMany(t, l, "FrameHeader")
    BY <1>3
  <1>5. /\ y = "FrameEnd" => HowMany(t, l + 1, "FrameEnd") = HowMany(t, l, "FrameEnd") + 1
        /\ y # "FrameEnd" => HowMany(t, l + 1, "FrameEnd") = HowMany(t, l, "FrameEnd")
    BY <1>3
  <1>. QED  BY <1>1, <1>2, <1>4, <1>5

\* What a picture adds to the frames before it: its units, a header and an end.
PictureAdds(s, t, f, n) ==
    /\ NalsIn(t, Len(t)) = NalsIn(s, Len(s)) \o Units(f, n)
    /\ HowMany(t, Len(t), "FrameHeader") = HowMany(s, Len(s), "FrameHeader") + 1
    /\ HowMany(t, Len(t), "FrameEnd") = HowMany(s, Len(s), "FrameEnd") + 1

LEMMA PictureCounted ==
    ASSUME NEW s \in Seq(Frames), NEW f \in Numbers, NEW n \in Nat \ {0},
           NEW p, IsPicture(p, f, n), NEW t, t = s \o p
    PROVE  PictureAdds(s, t, f, n)
  <1>1. PICK L \in Nat : L = Len(s)
    BY LenProperties
  <1>2. p \in Seq(Frames) /\ Len(p) = n + 2 /\ \A k \in 1 .. n + 2 : p[k] = PictureFrame(f, n, k)
    BY Zenon DEF IsPicture
  <1>3. /\ t \in Seq(Frames) /\ Len(t) = L + (n + 2)
        /\ \A i \in 1 .. L : t[i] = s[i]
        /\ \A k \in 1 .. n + 2 : t[L + k] = PictureFrame(f, n, k)
    <2>1. /\ s \o p \in Seq(Frames) /\ Len(s \o p) = Len(s) + Len(p)
          /\ \A i \in 1 .. Len(s) : (s \o p)[i] = s[i]
          /\ \A k \in 1 .. Len(p) : (s \o p)[Len(s) + k] = p[k]
      BY <1>2, Joined
    <2>. QED  BY <1>1, <1>2, <2>1
  <1>4. /\ t[L + 1].type = "FrameHeader"
        /\ \A j \in 1 .. n : t[L + (1 + j)].type = "FrameSlice" /\ t[L + (1 + j)].nal = Nal(f, j - 1)
        /\ t[L + (n + 2)].type = "FrameEnd"
    <2>1. /\ PictureFrame(f, n, 1).type = "FrameHeader"
          /\ \A j \in 1 .. n : /\ PictureFrame(f, n, 1 + j).type = "FrameSlice"
                               /\ PictureFrame(f, n, 1 + j).nal = Nal(f, j - 1)
          /\ PictureFrame(f, n, n + 2).type = "FrameEnd"
      BY PictureFrameTypes DEF PictureLooks
    <2>2. 1 \in 1 .. n + 2 /\ n + 2 \in 1 .. n + 2 /\ \A j \in 1 .. n : 1 + j \in 1 .. n + 2
      OBVIOUS
    <2>3. \A k \in 1 .. n + 2 : t[L + k] = PictureFrame(f, n, k)
      BY <1>3
    <2>4. t[L + 1].type = "FrameHeader" /\ t[L + (n + 2)].type = "FrameEnd"
      BY <2>1, <2>2, <2>3, Zenon
    <2>5. ASSUME NEW j \in 1 .. n
          PROVE  t[L + (1 + j)].type = "FrameSlice" /\ t[L + (1 + j)].nal = Nal(f, j - 1)
      BY <2>1, <2>2, <2>3, Zenon
    <2>. QED  BY <2>4, <2>5
  <1>5. PICK a, h, e : /\ a = NalsIn(s, L) /\ h = HowMany(s, L, "FrameHeader")
                       /\ e = HowMany(s, L, "FrameEnd")
    OBVIOUS
  <1>6. /\ a = NalsIn(t, L) /\ h = HowMany(t, L, "FrameHeader") /\ e = HowMany(t, L, "FrameEnd")
    <2>1. L <= Len(s) /\ L <= Len(t) /\ \A i \in 1 .. L : s[i] = t[i]
      BY <1>1, <1>3
    <2>2. NalsIn(s, L) = NalsIn(t, L) /\ \A type : HowMany(s, L, type) = HowMany(t, L, type)
      BY <1>3, <2>1, SameStart
    <2>. QED  BY <1>5, <2>2, Zenon
  <1>7. a \in Seq(Nals)
    <2>1. L <= Len(s)
      BY <1>1
    <2>. QED  BY <1>5, <2>1, NalsTyped
  <1>. DEFINE Good(j) == /\ NalsIn(t, L + (1 + j)) = a \o Units(f, j)
                         /\ HowMany(t, L + (1 + j), "FrameHeader") = h + 1
                         /\ HowMany(t, L + (1 + j), "FrameEnd") = e
              S == {j \in Nat : j <= n => Good(j)}
  <1>8. Good(0)
    <2>1. L < Len(t)
      BY <1>3
    <2>2. /\ NalsIn(t, L + 1) = NalsIn(t, L)
          /\ HowMany(t, L + 1, "FrameHeader") = HowMany(t, L, "FrameHeader") + 1
          /\ HowMany(t, L + 1, "FrameEnd") = HowMany(t, L, "FrameEnd")
      BY <1>3, <1>4, <2>1, FrameCounted
    <2>3. a \o Units(f, 0) = a
      <3>1. Units(f, 0) = <<>>
        BY DEF Units
      <3>. QED  BY <1>7, <3>1, ConcatEmptySeq
    <2>. QED  BY <1>6, <2>2, <2>3
  <1>9. ASSUME NEW j \in Nat, j + 1 <= n, Good(j)
        PROVE  Good(j + 1)
    <2>1. PICK l \in Nat : l = L + (1 + j)
      OBVIOUS
    <2>2. l < Len(t) /\ l + 1 = L + (1 + (j + 1)) /\ j + 1 \in 1 .. n /\ (j + 1) - 1 = j
      BY <1>3, <1>9, <2>1
    <2>3. t[l + 1].type = "FrameSlice" /\ t[l + 1].nal = Nal(f, j)
      <3>1. t[L + (1 + (j + 1))].type = "FrameSlice" /\ t[L + (1 + (j + 1))].nal = Nal(f, (j + 1) - 1)
        BY <1>4, <2>2
      <3>. QED  BY <2>2, <3>1
    <2>4. /\ NalsIn(t, l) = a \o Units(f, j) /\ HowMany(t, l, "FrameHeader") = h + 1
          /\ HowMany(t, l, "FrameEnd") = e
      BY <1>9, <2>1
    <2>. HIDE DEF Good
    <2>5. /\ NalsIn(t, l + 1) = Append(NalsIn(t, l), t[l + 1].nal)
          /\ HowMany(t, l + 1, "FrameHeader") = HowMany(t, l, "FrameHeader")
          /\ HowMany(t, l + 1, "FrameEnd") = HowMany(t, l, "FrameEnd")
      BY <1>3, <2>2, <2>3, FrameCounted
    <2>6. Append(a \o Units(f, j), Nal(f, j)) = a \o Units(f, j + 1)
      BY <1>7, UnitsBehind
    <2>7. /\ NalsIn(t, l + 1) = a \o Units(f, j + 1) /\ HowMany(t, l + 1, "FrameHeader") = h + 1
          /\ HowMany(t, l + 1, "FrameEnd") = e
      BY <2>3, <2>4, <2>5, <2>6, Zenon
    <2>. QED  BY <2>2, <2>7, Zenon DEF Good
  <1>. HIDE DEF Good
  <1>10. n \in S
    <2>1. 0 \in S
      BY <1>8
    <2>2. ASSUME NEW j \in Nat, j \in S PROVE j + 1 \in S
      <3>1. j + 1 <= n => j <= n
        OBVIOUS
      <3>. QED  BY <1>9, <2>2, <3>1
    <2>. HIDE DEF S
    <2>. QED  BY <2>1, <2>2, NatSetInduction
  <1>11. Good(n)
    BY <1>10
  <1>12. PICK l \in Nat : l = L + (1 + n)
    OBVIOUS
  <1>13. l < Len(t) /\ l + 1 = Len(t) /\ l + 1 = L + (n + 2)
    BY <1>3, <1>12
  <1>14. t[l + 1].type = "FrameEnd"
    BY <1>4, <1>13
  <1>15. /\ NalsIn(t, l) = a \o Units(f, n) /\ HowMany(t, l, "FrameHeader") = h + 1
         /\ HowMany(t, l, "FrameEnd") = e
    BY <1>11, <1>12 DEF Good
  <1>16. /\ NalsIn(t, l + 1) = NalsIn(t, l)
         /\ HowMany(t, l + 1, "FrameHeader") = HowMany(t, l, "FrameHeader")
         /\ HowMany(t, l + 1, "FrameEnd") = HowMany(t, l, "FrameEnd") + 1
    BY <1>3, <1>13, <1>14, FrameCounted
  <1>. QED  BY <1>1, <1>5, <1>13, <1>15, <1>16 DEF PictureAdds

-----------------------------------------------------------------------------
(* The frames of a video, written and still to write, and what the encoder made. *)

\* The header at place i is the first frame of a picture that is there in full, of as
\* many units as the encoder made of it.
PictureAt(a, i, e) ==
    \E f \in Numbers :
        /\ f + 1 \in 1 .. Len(e) /\ e[f + 1] \in Nat \ {0}
        /\ i + e[f + 1] + 1 <= Len(a)
        /\ \A k \in 1 .. e[f + 1] + 2 : a[i + k - 1] = PictureFrame(f, e[f + 1], k)

PicturesWhole(a, e) == \A i \in 1 .. Len(a) : a[i].type = "FrameHeader" => PictureAt(a, i, e)

IsKeyframe(x) == x.type = "FrameHeader" /\ x.frame_id = 0

\* A keyframe has no place but the second, and is there when the encoder made it.
KeyframePlaced(a, e) ==
    /\ \A i \in 1 .. Len(a) : IsKeyframe(a[i]) => i = 2
    /\ (Len(e) # 0 /\ e[1] # 0) => Len(a) >= 2 /\ IsKeyframe(a[2])

Begun(a, e) ==
    /\ a \in Seq(Frames) /\ Len(a) >= 1 /\ a[1].type = "StreamParameters"
    /\ Len(e) = 0 => Len(a) = 1

Complete(a, e) ==
    /\ NalsIn(a, Len(a)) = UnitsUpTo(e, Len(e))
    /\ HowMany(a, Len(a), "FrameHeader") = HowMany(a, Len(a), "FrameEnd")

Content(a, e) ==
    Begun(a, e) /\ PicturesWhole(a, e) /\ KeyframePlaced(a, e) /\ Complete(a, e)

\* The header and the slices of a picture that is there.
HeaderAt(a, i, e, f, n) ==
    /\ f = a[i].frame_id /\ f + 1 \in 1 .. Len(e) /\ n = e[f + 1]
    /\ a[i].type = "FrameHeader" /\ a[i].n_slices = SliceCount(n)
    /\ a[i].idr <=> f = 0
    /\ \A k \in 1 .. n : a[i + k] = PictureFrame(f, n, k + 1)

LEMMA PictureAtFrames ==
    ASSUME NEW a, NEW i \in Nat, NEW e, PictureAt(a, i, e)
    PROVE  \E f \in Numbers, n \in Nat \ {0} : HeaderAt(a, i, e, f, n)
  <1>1. PICK f \in Numbers :
            /\ f + 1 \in 1 .. Len(e) /\ e[f + 1] \in Nat \ {0}
            /\ \A k \in 1 .. e[f + 1] + 2 : a[i + k - 1] = PictureFrame(f, e[f + 1], k)
    BY Zenon DEF PictureAt
  <1>2. PICK n \in Nat \ {0} : n = e[f + 1]
    BY <1>1
  <1>3. 1 \in 1 .. n + 2 /\ i + 1 - 1 = i
    OBVIOUS
  <1>4. a[i] = PictureFrame(f, n, 1)
    BY <1>1, <1>2, <1>3
  <1>5. a[i] = [type |-> "FrameHeader", frame_id |-> f, idr |-> f = 0, n_slices |-> SliceCount(n)]
    BY <1>4 DEF PictureFrame
  <1>6. ASSUME NEW k \in 1 .. n PROVE a[i + k] = PictureFrame(f, n, k + 1)
    <2>1. k + 1 \in 1 .. n + 2 /\ i + (k + 1) - 1 = i + k
      OBVIOUS
    <2>. QED  BY <1>1, <1>2, <2>1
  <1>7. /\ f = a[i].frame_id /\ a[i].type = "FrameHeader" /\ a[i].n_slices = SliceCount(n)
        /\ a[i].idr = (f = 0)
    BY <1>5
  <1>8. f + 1 \in 1 .. Len(e) /\ n = e[f + 1]
    BY <1>1, <1>2
  <1>. QED  BY <1>6, <1>7, <1>8, Zenon DEF HeaderAt

LEMMA ContentInit ==
    ASSUME NEW a, a = <<[type |-> "StreamParameters"]>>
    PROVE  Content(a, <<>>)
  <1>1. PICK X, x : X = Frames /\ x = [type |-> "StreamParameters"]
    OBVIOUS
  <1>2. x \in X /\ x.type = "StreamParameters"
    BY <1>1 DEF Frames
  <1>3. a = <<x>> /\ a \in Seq(X) /\ Len(a) = 1 /\ a[1] = x /\ Len(<<>>) = 0
    BY <1>1, <1>2
  <1>4. 0 < Len(a) /\ 0 + 1 = 1
    BY <1>3
  <1>5. NalsIn(a, 0) = <<>> /\ HowMany(a, 0, "FrameHeader") = 0 /\ HowMany(a, 0, "FrameEnd") = 0
    BY NoFramesYet
  <1>6. PICK l \in Nat : l = 0
    OBVIOUS
  <1>7. a \in Seq(Frames) /\ l < Len(a) /\ l + 1 = 1 /\ a[l + 1].type = "StreamParameters"
    BY <1>1, <1>2, <1>3, <1>6
  <1>8. NalsIn(a, l + 1) = NalsIn(a, l)
    BY <1>7, NalsNext
  <1>9. HowMany(a, l + 1, "FrameHeader") = HowMany(a, l, "FrameHeader")
    BY <1>7, HowManyNext
  <1>10. HowMany(a, l + 1, "FrameEnd") = HowMany(a, l, "FrameEnd")
    BY <1>7, HowManyNext
  <1>11. Complete(a, <<>>)
    <2>1. UnitsUpTo(<<>>, 0) = <<>>
      BY NoUnits
    <2>. QED  BY <1>3, <1>5, <1>6, <1>7, <1>8, <1>9, <1>10, <2>1 DEF Complete
  <1>12. Begun(a, <<>>) /\ PicturesWhole(a, <<>>) /\ KeyframePlaced(a, <<>>)
    BY <1>2, <1>3, <1>7 DEF Begun, PicturesWhole, KeyframePlaced, IsKeyframe
  <1>. QED  BY <1>11, <1>12 DEF Content

\* A picture of which the encoder made nothing.
LEMMA ContentSkip ==
    ASSUME NEW a, NEW e \in Seq(Nat), Content(a, e), Len(e) < DISPLAY_FRAME_COUNT
    PROVE  Content(a, Append(e, 0))
  <1>0. PICK l \in Nat : l = Len(e)
    BY LenProperties
  <1>1. PICK d : l = Len(e) /\ d = Append(e, 0)
    BY <1>0
  <1>2. d \in Seq(Nat) /\ Len(d) = l + 1 /\ d[l + 1] = 0 /\ \A i \in 1 .. l : d[i] = e[i]
    BY <1>1, AppendProperties
  <1>3. a \in Seq(Frames) /\ Len(a) \in Nat
    <2>1. a \in Seq(Frames)
      BY Zenon DEF Content, Begun
    <2>. QED  BY <2>1, LenProperties
  <1>4. Begun(a, d)
    BY <1>2 DEF Content, Begun
  <1>5. PicturesWhole(a, d)
    <2>1. ASSUME NEW i \in 1 .. Len(a), PictureAt(a, i, e) PROVE PictureAt(a, i, d)
      <3>1. PICK f \in Numbers :
                /\ f + 1 \in 1 .. Len(e) /\ e[f + 1] \in Nat \ {0}
                /\ i + e[f + 1] + 1 <= Len(a)
                /\ \A k \in 1 .. e[f + 1] + 2 : a[i + k - 1] = PictureFrame(f, e[f + 1], k)
        BY <2>1, Zenon DEF PictureAt
      <3>2. f + 1 \in 1 .. Len(d) /\ d[f + 1] = e[f + 1]
        BY <1>1, <1>2, <3>1
      <3>. QED  BY <3>1, <3>2, Zenon DEF PictureAt
    <2>. QED  BY <2>1 DEF Content, PicturesWhole
  <1>6. KeyframePlaced(a, d)
    <2>1. d[1] # 0 => Len(e) # 0 /\ e[1] # 0
      BY <1>1, <1>2
    <2>. QED  BY <2>1 DEF Content, KeyframePlaced
  <1>7. Complete(a, d)
    <2>1. NalsIn(a, Len(a)) = UnitsUpTo(e, l)
      BY <1>1, Zenon DEF Content, Complete
    <2>2. PICK u : u = UnitsUpTo(e, l)
      OBVIOUS
    <2>3. u \in Seq(Nals)
      <3>1. Len(a) <= Len(a)
        BY <1>3
      <3>. QED  BY <1>3, <2>1, <2>2, <3>1, NalsTyped
    <2>4. UnitsUpTo(d, l) = u
      BY <1>2, <2>2, UnitsSame
    <2>5. UnitsUpTo(d, l + 1) = UnitsUpTo(d, l) \o Units(l, d[l + 1])
      <3>1. d[l + 1] \in Nat /\ l < DISPLAY_FRAME_COUNT
        BY <1>1, <1>2
      <3>. QED  BY <3>1, UnitsNext
    <2>6. Units(l, d[l + 1]) = <<>>
      BY <1>2 DEF Units
    <2>7. u \o <<>> = u
      BY <2>3, ConcatEmptySeq
    <2>8. UnitsUpTo(d, Len(d)) = NalsIn(a, Len(a))
      BY <1>2, <2>1, <2>2, <2>4, <2>5, <2>6, <2>7, Zenon
    <2>. QED  BY <2>8 DEF Content, Complete
  <1>. QED  BY <1>1, <1>4, <1>5, <1>6, <1>7, Zenon DEF Content

\* A picture that the encoder made something of.
LEMMA ContentEncode ==
    ASSUME NEW a, NEW e \in Seq(Nat), Content(a, e), Len(e) \in Numbers,
           NEW n \in Nat \ {0}, NEW p, IsPicture(p, Len(e), n)
    PROVE  Content(a \o p, Append(e, n))
  <1>0. PICK f \in Numbers : f = Len(e)
    OBVIOUS
  <1>1. PICK d, t : f = Len(e) /\ d = Append(e, n) /\ t = a \o p
    BY <1>0
  <1>2. f \in Nat /\ f < DISPLAY_FRAME_COUNT
    BY SizesAssumption DEF Numbers
  <1>3. d \in Seq(Nat) /\ Len(d) = f + 1 /\ d[f + 1] = n /\ \A i \in 1 .. f : d[i] = e[i]
    BY <1>1, AppendProperties
  <1>4. a \in Seq(Frames) /\ Len(a) >= 1 /\ a[1].type = "StreamParameters" /\ (f = 0 => Len(a) = 1)
    BY <1>1, Zenon DEF Content, Begun
  <1>5. PICK L \in Nat : L = Len(a)
    BY <1>4, LenProperties
  <1>6. p \in Seq(Frames) /\ Len(p) = n + 2 /\ \A k \in 1 .. n + 2 : p[k] = PictureFrame(f, n, k)
    BY <1>1, Zenon DEF IsPicture
  <1>7. /\ t \in Seq(Frames) /\ Len(t) = L + (n + 2)
        /\ \A i \in 1 .. L : t[i] = a[i]
        /\ \A k \in 1 .. n + 2 : t[L + k] = PictureFrame(f, n, k)
    <2>1. /\ a \o p \in Seq(Frames) /\ Len(a \o p) = Len(a) + Len(p)
          /\ \A i \in 1 .. Len(a) : (a \o p)[i] = a[i]
          /\ \A k \in 1 .. Len(p) : (a \o p)[Len(a) + k] = p[k]
      BY <1>4, <1>6, Joined
    <2>. QED  BY <1>1, <1>5, <1>6, <2>1
  <1>8. /\ \A k \in 1 .. n + 2 : t[L + k].type = "FrameHeader" <=> k = 1
        /\ \A k \in 1 .. n + 2 : t[L + k].frame_id = f
    <2>1. /\ \A k \in 1 .. n + 2 : PictureFrame(f, n, k).type = "FrameHeader" <=> k = 1
          /\ \A k \in 1 .. n + 2 : PictureFrame(f, n, k).frame_id = f
      <3>1. PictureLooks(f, n)
        BY PictureFrameTypes
      <3>. QED  BY <3>1, Zenon DEF PictureLooks
    <2>. QED  BY <1>7, <2>1
  <1>9. \A i \in 1 .. Len(t) : i \in 1 .. L \/ \E k \in 1 .. n + 2 : i = L + k
    <2>1. ASSUME NEW i \in 1 .. Len(t), ~(i \in 1 .. L) PROVE i - L \in 1 .. n + 2 /\ i = L + (i - L)
      BY <1>7, <2>1
    <2>. QED  BY <2>1
  <1>10. Begun(t, d)
    <2>1. Len(t) >= 1 /\ 1 \in 1 .. L /\ Len(d) # 0
      BY <1>2, <1>3, <1>4, <1>5, <1>7
    <2>. QED  BY <1>4, <1>7, <2>1 DEF Begun
  <1>11. PicturesWhole(t, d)
    <2>1. ASSUME NEW i \in 1 .. L, PictureAt(a, i, e) PROVE PictureAt(t, i, d)
      <3>1. PICK g \in Numbers :
                /\ g + 1 \in 1 .. Len(e) /\ e[g + 1] \in Nat \ {0}
                /\ i + e[g + 1] + 1 <= Len(a)
                /\ \A k \in 1 .. e[g + 1] + 2 : a[i + k - 1] = PictureFrame(g, e[g + 1], k)
        BY <2>1, Zenon DEF PictureAt
      <3>2. g + 1 \in 1 .. Len(d) /\ d[g + 1] = e[g + 1]
        BY <1>1, <1>2, <1>3, <3>1
      <3>3. PICK m \in Nat : m = e[g + 1]
        BY <3>1
      <3>4. i + m + 1 <= Len(t) /\ \A k \in 1 .. m + 2 : i + k - 1 \in 1 .. L
        <4>1. i + m + 1 <= L
          BY <1>5, <3>1, <3>3
        <4>2. i + m + 1 <= Len(t)
          BY <1>7, <4>1
        <4>. QED  BY <4>1, <4>2
      <3>5. \A k \in 1 .. m + 2 : t[i + k - 1] = PictureFrame(g, m, k)
        BY <1>7, <3>1, <3>3, <3>4
      <3>. QED  BY <3>1, <3>2, <3>3, <3>4, <3>5, Zenon DEF PictureAt
    <2>2. ASSUME NEW i, i = L + 1 PROVE PictureAt(t, i, d)
      <3>1. f + 1 \in 1 .. Len(d) /\ d[f + 1] = n /\ i + n + 1 <= Len(t)
        BY <1>2, <1>3, <1>7, <2>2
      <3>2. ASSUME NEW k \in 1 .. n + 2 PROVE t[i + k - 1] = PictureFrame(f, n, k)
        <4>1. i + k - 1 = L + k
          BY <2>2
        <4>. QED  BY <1>7, <4>1
      <3>. QED  BY <3>1, <3>2, Zenon DEF PictureAt
    <2>3. ASSUME NEW i \in 1 .. Len(t), t[i].type = "FrameHeader" PROVE PictureAt(t, i, d)
      <3>1. CASE i \in 1 .. L
        <4>1. a[i].type = "FrameHeader" /\ i \in 1 .. Len(a)
          BY <1>5, <1>7, <2>3, <3>1
        <4>2. PictureAt(a, i, e)
          BY <4>1, Zenon DEF Content, PicturesWhole
        <4>. QED  BY <2>1, <3>1, <4>2
      <3>2. CASE \E k \in 1 .. n + 2 : i = L + k
        BY <1>8, <2>2, <2>3, <3>2
      <3>. QED  BY <1>9, <3>1, <3>2
    <2>. QED  BY <2>3, Zenon DEF PicturesWhole
  <1>12. KeyframePlaced(t, d)
    <2>1. ASSUME NEW i \in 1 .. Len(t), IsKeyframe(t[i]) PROVE i = 2
      <3>1. CASE i \in 1 .. L
        BY <1>5, <1>7, <2>1, <3>1 DEF Content, KeyframePlaced, IsKeyframe
      <3>2. CASE \E k \in 1 .. n + 2 : i = L + k
        <4>1. PICK k \in 1 .. n + 2 : i = L + k
          BY <3>2
        <4>2. k = 1 /\ f = 0
          BY <1>8, <2>1, <4>1, Zenon DEF IsKeyframe
        <4>. QED  BY <1>4, <1>5, <4>1, <4>2
      <3>. QED  BY <1>9, <3>1, <3>2
    <2>2. ASSUME d[1] # 0 PROVE Len(t) >= 2 /\ IsKeyframe(t[2])
      <3>1. CASE f = 0
        <4>0. L = 1 /\ Len(t) = L + (n + 2)
          BY <1>4, <1>5, <1>7, <3>1
        <4>1. 1 \in 1 .. n + 2 /\ L + 1 = 2 /\ Len(t) >= 2
          BY <4>0
        <4>. QED  BY <1>8, <3>1, <4>1 DEF IsKeyframe
      <3>2. CASE f # 0
        <4>1. e[1] = d[1] /\ Len(e) # 0
          BY <1>1, <1>2, <1>3, <3>2
        <4>2. Len(a) >= 2 /\ IsKeyframe(a[2])
          BY <2>2, <4>1, Zenon DEF Content, KeyframePlaced
        <4>3. t[2] = a[2] /\ Len(t) >= 2
          BY <1>5, <1>7, <4>2
        <4>. QED  BY <4>2, <4>3
      <3>. QED  BY <3>1, <3>2
    <2>. QED  BY <2>1, <2>2 DEF KeyframePlaced
  <1>13. Complete(t, d)
    <2>1. /\ NalsIn(t, Len(t)) = NalsIn(a, Len(a)) \o Units(f, n)
          /\ HowMany(t, Len(t), "FrameHeader") = HowMany(a, Len(a), "FrameHeader") + 1
          /\ HowMany(t, Len(t), "FrameEnd") = HowMany(a, Len(a), "FrameEnd") + 1
      <3>1. IsPicture(p, f, n)
        BY <1>1
      <3>2. t = a \o p /\ a \in Seq(Frames)
        BY <1>1, <1>4
      <3>3. PictureAdds(a, t, f, n)
        BY <3>1, <3>2, PictureCounted
      <3>. QED  BY <3>3, Zenon DEF PictureAdds
    <2>2. /\ NalsIn(a, Len(a)) = UnitsUpTo(e, f)
          /\ HowMany(a, Len(a), "FrameHeader") = HowMany(a, Len(a), "FrameEnd")
      BY <1>1, Zenon DEF Content, Complete
    <2>3. UnitsUpTo(d, f) = UnitsUpTo(e, f)
      BY <1>2, <1>3, UnitsSame
    <2>4. UnitsUpTo(d, f + 1) = UnitsUpTo(d, f) \o Units(f, d[f + 1])
      <3>1. d[f + 1] \in Nat
        BY <1>3
      <3>. QED  BY <1>2, <3>1, UnitsNext
    <2>. QED  BY <1>3, <2>1, <2>2, <2>3, <2>4, Zenon DEF Complete
  <1>. QED  BY <1>1, <1>10, <1>11, <1>12, <1>13, Zenon DEF Content

-----------------------------------------------------------------------------
(* The inductive invariant. *)

\* The frames of the video so far, written or not.
All == stream \o todo

\* frame_id counts the pictures written or skipped.
InStep ==
    /\ todo = <<>> => Len(encoded) = frame_id
    /\ todo # <<>> => Len(encoded) = frame_id + 1 /\ frame_id < DISPLAY_FRAME_COUNT

\* Nothing is left to write when the stream is seen to end.
Ending ==
    /\ finished <=> sender # "running"
    /\ sender = "ended" => frame_id = DISPLAY_FRAME_COUNT /\ todo = <<>>
    /\ (sender = "failed" /\ todo # <<>>) => cut \/ receiver = "failed"
    /\ receiver = "ended" => finished /\ nread = Len(stream) /\ todo = <<>>

\* The receiver has counted and kept what it has read.
Taken ==
    /\ dump = NalsIn(stream, nread) /\ slice_count = Len(dump)
    /\ header_count = HowMany(stream, nread, "FrameHeader")
    /\ end_count = HowMany(stream, nread, "FrameEnd")

DisplayInv == TypeOK /\ Content(All, encoded) /\ InStep /\ Ending /\ Taken

\* The first element of q is moved behind s: a and r are what becomes of them.
Moved(X, s, q, a, r) ==
    /\ a \in Seq(X) /\ r \in Seq(X) /\ a \o r = s \o q
    /\ Len(a) = Len(s) + 1 /\ Len(s) \in Nat
    /\ \A i \in 1 .. Len(s) : a[i] = s[i]
    /\ r = <<>> <=> Len(q) = 1

LEMMA HeadMoves ==
    ASSUME NEW X, NEW s \in Seq(X), NEW q \in Seq(X), q # <<>>,
           NEW a, a = Append(s, Head(q)), NEW r, r = Tail(q)
    PROVE  Moved(X, s, q, a, r)
  <1>1. PICK l \in Nat, m \in Nat : l = Len(s) /\ m = Len(q) /\ m >= 1
    BY LenProperties, EmptySeq
  <1>2. PICK h : h = Head(q)
    OBVIOUS
  <1>3. h \in X /\ h = q[1] /\ r \in Seq(X) /\ Len(r) = m - 1 /\ \A i \in 1 .. m - 1 : r[i] = q[i + 1]
    BY <1>1, <1>2, HeadTailProperties
  <1>4. a = Append(s, h)
    BY <1>2
  <1>5. a \in Seq(X) /\ Len(a) = l + 1 /\ a[l + 1] = h /\ \A i \in 1 .. l : a[i] = s[i]
    BY <1>1, <1>3, <1>4, AppendProperties
  <1>6. PICK b, c : b = a \o r /\ c = s \o q
    OBVIOUS
  <1>7. /\ b \in Seq(X) /\ Len(b) = l + m
        /\ \A i \in 1 .. l + m : b[i] = IF i <= l + 1 THEN a[i] ELSE r[i - (l + 1)]
    <2>1. /\ b \in Seq(X) /\ Len(b) = Len(a) + Len(r)
          /\ \A i \in 1 .. Len(a) + Len(r) : b[i] = IF i <= Len(a) THEN a[i] ELSE r[i - Len(a)]
      BY <1>3, <1>5, <1>6, ConcatProperties
    <2>2. Len(a) = l + 1 /\ Len(a) + Len(r) = l + m
      BY <1>1, <1>3, <1>5
    <2>. QED  BY <2>1, <2>2
  <1>8. /\ c \in Seq(X) /\ Len(c) = l + m
        /\ \A i \in 1 .. l + m : c[i] = IF i <= l THEN s[i] ELSE q[i - l]
    BY <1>1, <1>6, ConcatProperties
  <1>9. ASSUME NEW i \in 1 .. l + m PROVE b[i] = c[i]
    <2>1. CASE i <= l
      BY <1>5, <1>7, <1>8, <2>1
    <2>2. CASE i = l + 1
      <3>1. i <= l + 1 /\ ~(i <= l) /\ i - l = 1
        BY <2>2
      <3>2. b[i] = a[i] /\ c[i] = q[1]
        BY <1>7, <1>8, <3>1
      <3>. QED  BY <1>3, <1>5, <2>2, <3>2
    <2>3. CASE i > l + 1
      <3>1. /\ i - (l + 1) \in 1 .. m - 1 /\ (i - (l + 1)) + 1 = i - l
            /\ ~(i <= l) /\ ~(i <= l + 1)
        BY <2>3
      <3>2. b[i] = r[i - (l + 1)]
        BY <1>7, <3>1
      <3>3. r[i - (l + 1)] = q[(i - (l + 1)) + 1]
        BY <1>3, <3>1
      <3>. QED  BY <1>8, <3>1, <3>2, <3>3
    <2>. QED  BY <2>1, <2>2, <2>3
  <1>10. b = c
    <2>1. Len(b) = Len(c) /\ \A i \in 1 .. Len(b) : b[i] = c[i]
      BY <1>7, <1>8, <1>9
    <2>. QED  BY <1>7, <1>8, <2>1, SeqEqual
  <1>11. r = <<>> <=> m = 1
    <2>1. r = <<>> <=> Len(r) = 0
      BY <1>3, EmptySeq
    <2>. QED  BY <1>1, <1>3, <2>1
  <1>. QED  BY <1>1, <1>3, <1>5, <1>6, <1>10, <1>11 DEF Moved

\* The frames of the stream are the first of all.
LEMMA StreamOfAll ==
    ASSUME stream \in Seq(Frames), todo \in Seq(Frames)
    PROVE  /\ All \in Seq(Frames) /\ Len(stream) <= Len(All)
           /\ \A i \in 1 .. Len(stream) : All[i] = stream[i]
           /\ todo = <<>> => All = stream
  <1>1. PICK X : X = Frames
    OBVIOUS
  <1>2. /\ stream \o todo \in Seq(X) /\ Len(stream \o todo) = Len(stream) + Len(todo)
        /\ \A i \in 1 .. Len(stream) : (stream \o todo)[i] = stream[i]
    BY <1>1, Joined
  <1>3. Len(stream) \in Nat /\ Len(todo) \in Nat
    BY LenProperties
  <1>4. todo = <<>> => stream \o todo = stream
    BY ConcatEmptySeq
  <1>. QED  BY <1>1, <1>2, <1>3, <1>4 DEF All

\* What has been read stays as it is when the stream gets longer.
LEMMA TakenSame ==
    ASSUME TypeOK, Taken, stream' \in Seq(Frames), Len(stream) <= Len(stream'),
           \A i \in 1 .. Len(stream) : stream'[i] = stream[i],
           UNCHANGED <<nread, header_count, slice_count, end_count, dump>>
    PROVE  Taken'
  <1>1. PICK t : t = stream'
    OBVIOUS
  <1>2. /\ stream \in Seq(Frames) /\ t \in Seq(Frames) /\ nread \in Nat /\ nread <= Len(stream)
        /\ nread <= Len(t) /\ \A i \in 1 .. nread : stream[i] = t[i]
    <2>1. stream \in Seq(Frames) /\ nread \in 0 .. Len(stream)
      BY Zenon DEF TypeOK
    <2>2. Len(stream) \in Nat /\ Len(t) \in Nat
      BY <1>1, <2>1, LenProperties
    <2>. QED  BY <1>1, <2>1, <2>2
  <1>3. NalsIn(stream, nread) = NalsIn(t, nread)
        /\ \A type : HowMany(stream, nread, type) = HowMany(t, nread, type)
    BY <1>2, SameStart
  <1>. QED  BY <1>1, <1>3, Zenon DEF Taken

LEMMA CountsAreNumbers ==
    ASSUME NEW e \in Seq(NalCounts)
    PROVE  e \in Seq(Nat)
  <1>1. PICK l \in Nat : l = Len(e) /\ e \in [1 .. l -> NalCounts]
    BY LenProperties
  <1>2. e \in [1 .. l -> Nat]
    BY <1>1, SizesAssumption
  <1>. QED  BY <1>1, <1>2, SeqDef

LEMMA InitHolds ==
    ASSUME Init
    PROVE  DisplayInv
  <1>. USE DEF Init
  <1>1. [type |-> "StreamParameters"] \in Frames
    BY DEF Frames
  <1>2. PICK X, x : X = Frames /\ x = [type |-> "StreamParameters"]
    OBVIOUS
  <1>3. stream = <<x>> /\ stream \in Seq(X) /\ Len(stream) = 1
    BY <1>1, <1>2
  <1>4. TypeOK
    <2>1. todo \in Seq(Frames) /\ encoded \in Seq(NalCounts) /\ dump \in Seq(Nals)
      BY EmptySeq
    <2>2. frame_id \in 0 .. DISPLAY_FRAME_COUNT /\ nread \in 0 .. Len(stream)
      BY <1>3, SizesAssumption
    <2>. QED  BY <1>2, <1>3, <2>1, <2>2 DEF TypeOK
  <1>5. Content(All, encoded)
    <2>1. todo \in Seq(Frames)
      BY <1>4 DEF TypeOK
    <2>2. All = stream
      BY <1>2, <1>3, <2>1, StreamOfAll
    <2>3. Content(stream, <<>>)
      BY ContentInit
    <2>. QED  BY <2>2, <2>3
  <1>6. InStep /\ Ending
    BY DEF InStep, Ending
  <1>7. Taken
    <2>1. NalsIn(stream, 0) = <<>> /\ \A type : HowMany(stream, 0, type) = 0
      BY NoFramesYet
    <2>. QED  BY <2>1 DEF Taken
  <1>. QED  BY <1>4, <1>5, <1>6, <1>7, Zenon DEF DisplayInv

LEMMA EncodeHolds ==
    ASSUME DisplayInv, Encode
    PROVE  DisplayInv'
  <1>1. /\ encoded \in Seq(NalCounts) /\ stream \in Seq(Frames) /\ todo \in Seq(Frames)
        /\ frame_id \in 0 .. DISPLAY_FRAME_COUNT
    BY Zenon DEF DisplayInv, TypeOK
  <1>2. todo = <<>> /\ sender = "running" /\ frame_id < DISPLAY_FRAME_COUNT /\ Len(encoded) = frame_id
    BY Zenon DEF DisplayInv, InStep, Encode, Between, MorePictures
  <1>3. PICK n \in NalCounts \ {0} : encoded' = Append(encoded, n) /\ todo' = Picture(n)
    BY Zenon DEF Encode
  <1>4. n \in Nat \ {0} /\ frame_id \in Numbers
    BY <1>1, <1>2, SizesAssumption DEF Numbers
  <1>5. PICK p : p = Picture(n)
    OBVIOUS
  <1>6. IsPicture(p, frame_id, n)
    BY <1>4, <1>5, PictureIsPicture
  <1>7. p \in Seq(Frames) /\ Len(p) = n + 2
    BY <1>6, Zenon DEF IsPicture
  <1>8. todo' \in Seq(Frames) /\ todo' # <<>>
    <2>1. Len(p) # 0
      BY <1>4, <1>7
    <2>. QED  BY <1>3, <1>5, <1>7, <2>1, EmptySeq
  <1>9. /\ encoded' \in Seq(NalCounts) /\ Len(encoded') = frame_id + 1
    BY <1>1, <1>2, <1>3, AppendProperties
  <1>10. UNCHANGED <<frame_id, stream, finished, sender, cut, receiverVars>>
    BY Zenon DEF Encode
  <1>11. TypeOK'
    BY <1>8, <1>9, <1>10, Zenon DEF DisplayInv, TypeOK, receiverVars
  <1>12. Content(All, encoded)'
    <2>1. All = stream
      BY <1>1, <1>2, StreamOfAll
    <2>2. All' = stream \o p
      BY <1>3, <1>5, <1>10 DEF All
    <2>3. encoded \in Seq(Nat)
      BY <1>1, CountsAreNumbers
    <2>4. Content(stream, encoded)
      BY <2>1, Zenon DEF DisplayInv
    <2>5. Len(encoded) \in Numbers /\ IsPicture(p, Len(encoded), n)
      BY <1>2, <1>4, <1>6
    <2>6. Content(stream \o p, Append(encoded, n))
      BY <1>4, <2>3, <2>4, <2>5, ContentEncode
    <2>. QED  BY <1>3, <2>2, <2>6, Zenon
  <1>13. InStep'
    BY <1>2, <1>8, <1>9, <1>10 DEF InStep
  <1>14. Ending'
    BY <1>2, <1>8, <1>10, Zenon DEF DisplayInv, Ending, receiverVars
  <1>15. Taken'
    BY <1>10, Zenon DEF DisplayInv, Taken, receiverVars
  <1>. QED  BY <1>11, <1>12, <1>13, <1>14, <1>15, Zenon DEF DisplayInv

LEMMA SkipHolds ==
    ASSUME DisplayInv, SkipPicture
    PROVE  DisplayInv'
  <1>1. /\ encoded \in Seq(NalCounts) /\ frame_id \in 0 .. DISPLAY_FRAME_COUNT
    BY Zenon DEF DisplayInv, TypeOK
  <1>2. todo = <<>> /\ sender = "running" /\ frame_id < DISPLAY_FRAME_COUNT /\ Len(encoded) = frame_id
    BY Zenon DEF DisplayInv, InStep, SkipPicture, Between, MorePictures
  <1>3. /\ 0 \in NalCounts /\ encoded' = Append(encoded, 0) /\ frame_id' = frame_id + 1
        /\ UNCHANGED <<todo, stream, finished, sender, cut, receiverVars>>
    BY Zenon DEF SkipPicture
  <1>4. encoded' \in Seq(NalCounts) /\ Len(encoded') = frame_id + 1
    BY <1>1, <1>2, <1>3, AppendProperties
  <1>5. TypeOK'
    <2>1. frame_id' \in 0 .. DISPLAY_FRAME_COUNT
      BY <1>1, <1>2, <1>3, SizesAssumption
    <2>. QED  BY <1>3, <1>4, <2>1, Zenon DEF DisplayInv, TypeOK, receiverVars
  <1>6. Content(All, encoded)'
    <2>1. All' = All
      BY <1>3, Zenon DEF All
    <2>2. encoded \in Seq(Nat)
      BY <1>1, CountsAreNumbers
    <2>3. Content(All, encoded) /\ Len(encoded) < DISPLAY_FRAME_COUNT
      BY <1>2, Zenon DEF DisplayInv
    <2>4. Content(All, Append(encoded, 0))
      BY <2>2, <2>3, ContentSkip
    <2>. QED  BY <1>3, <2>1, <2>4, Zenon
  <1>7. InStep'
    BY <1>2, <1>3, <1>4 DEF InStep
  <1>8. Ending'
    BY <1>2, <1>3, Zenon DEF DisplayInv, Ending, receiverVars
  <1>9. Taken'
    BY <1>3, Zenon DEF DisplayInv, Taken, receiverVars
  <1>. QED  BY <1>5, <1>6, <1>7, <1>8, <1>9, Zenon DEF DisplayInv

LEMMA WriteHolds ==
    ASSUME DisplayInv, WriteNext
    PROVE  DisplayInv'
  <1>1. /\ encoded \in Seq(NalCounts) /\ stream \in Seq(Frames) /\ todo \in Seq(Frames)
        /\ frame_id \in 0 .. DISPLAY_FRAME_COUNT /\ nread \in 0 .. Len(stream)
    BY Zenon DEF DisplayInv, TypeOK
  <1>2. /\ todo # <<>> /\ sender = "running" /\ receiver = "running"
        /\ stream' = Append(stream, Head(todo)) /\ todo' = Tail(todo)
        /\ frame_id' = IF Len(todo) = 1 THEN frame_id + 1 ELSE frame_id
        /\ UNCHANGED <<encoded, finished, sender, cut, receiverVars>>
    BY Zenon DEF WriteNext, Writable
  <1>3. Len(encoded) = frame_id + 1 /\ frame_id < DISPLAY_FRAME_COUNT
    BY <1>2, Zenon DEF DisplayInv, InStep
  <1>4. /\ stream' \in Seq(Frames) /\ todo' \in Seq(Frames)
        /\ stream' \o todo' = stream \o todo
        /\ Len(stream') = Len(stream) + 1 /\ Len(stream) \in Nat
        /\ \A i \in 1 .. Len(stream) : stream'[i] = stream[i]
        /\ todo' = <<>> <=> Len(todo) = 1
    <2>1. PICK X, s, q, a, r : /\ X = Frames /\ s = stream /\ q = todo
                               /\ a = Append(s, Head(q)) /\ r = Tail(q)
      OBVIOUS
    <2>2. s \in Seq(X) /\ q \in Seq(X) /\ q # <<>> /\ a = Append(s, Head(q)) /\ r = Tail(q)
      BY <1>1, <1>2, <2>1
    <2>3. Moved(X, s, q, a, r)
      BY <2>2, HeadMoves
    <2>. QED  BY <1>2, <2>1, <2>3, Zenon DEF Moved
  <1>5. TypeOK'
    <2>1. frame_id' \in 0 .. DISPLAY_FRAME_COUNT
      BY <1>1, <1>2, <1>3, SizesAssumption
    <2>2. nread' \in 0 .. Len(stream')
      BY <1>1, <1>2, <1>4 DEF receiverVars
    <2>. QED  BY <1>2, <1>4, <2>1, <2>2, Zenon DEF DisplayInv, TypeOK, receiverVars
  <1>6. Content(All, encoded)'
    BY <1>2, <1>4, Zenon DEF DisplayInv, All
  <1>7. InStep'
    BY <1>2, <1>3, <1>4 DEF InStep
  <1>8. Ending'
    BY <1>2, Zenon DEF DisplayInv, Ending, receiverVars
  <1>9. Taken'
    <2>1. Len(stream) <= Len(stream')
      BY <1>4
    <2>. QED  BY <1>2, <1>4, <2>1, TakenSame, Zenon DEF DisplayInv, receiverVars
  <1>. QED  BY <1>5, <1>6, <1>7, <1>8, <1>9, Zenon DEF DisplayInv

LEMMA ReceiveHolds ==
    ASSUME DisplayInv, Receive
    PROVE  DisplayInv'
  <1>1. /\ stream \in Seq(Frames) /\ nread \in Nat /\ nread < Len(stream) /\ nread + 1 <= Len(stream)
        /\ header_count \in Nat /\ slice_count \in Nat /\ end_count \in Nat /\ dump \in Seq(Nals)
    <2>1. /\ stream \in Seq(Frames) /\ nread \in 0 .. Len(stream)
          /\ header_count \in Nat /\ slice_count \in Nat /\ end_count \in Nat /\ dump \in Seq(Nals)
      BY Zenon DEF DisplayInv, TypeOK
    <2>2. Len(stream) \in Nat
      BY <2>1, LenProperties
    <2>. QED  BY <2>1, <2>2 DEF Receive
  <1>2. PICK x : x = stream[nread + 1]
    OBVIOUS
  <1>3. /\ nread' = nread + 1
        /\ header_count' = IF x.type = "FrameHeader" THEN header_count + 1 ELSE header_count
        /\ slice_count' = IF x.type = "FrameSlice" THEN slice_count + 1 ELSE slice_count
        /\ end_count' = IF x.type = "FrameEnd" THEN end_count + 1 ELSE end_count
        /\ dump' = IF x.type = "FrameSlice" THEN Append(dump, x.nal) ELSE dump
        /\ receiver = "running" /\ UNCHANGED <<senderVars, cut, receiver>>
    BY <1>2, Zenon DEF Receive, Reading, Count, AppendNal
  <1>4. UNCHANGED <<encoded, frame_id, todo, stream, finished, sender>>
    BY <1>3, Zenon DEF senderVars
  <1>5. /\ dump = NalsIn(stream, nread) /\ slice_count = Len(dump)
        /\ header_count = HowMany(stream, nread, "FrameHeader")
        /\ end_count = HowMany(stream, nread, "FrameEnd")
    BY Zenon DEF DisplayInv, Taken
  <1>6. /\ x.type = "FrameSlice" =>
              x.nal \in Nals /\ NalsIn(stream, nread + 1) = Append(NalsIn(stream, nread), x.nal)
        /\ x.type # "FrameSlice" => NalsIn(stream, nread + 1) = NalsIn(stream, nread)
    BY <1>1, <1>2, NalsNext
  <1>7. ASSUME NEW type
        PROVE  HowMany(stream, nread + 1, type)
                   = IF x.type = type THEN HowMany(stream, nread, type) + 1
                     ELSE HowMany(stream, nread, type)
    BY <1>1, <1>2, HowManyNext
  <1>8. dump' = NalsIn(stream, nread + 1) /\ dump' \in Seq(Nals) /\ slice_count' = Len(dump')
    <2>1. CASE x.type = "FrameSlice"
      <3>1. PICK N, y : N = Nals /\ y = x.nal
        OBVIOUS
      <3>2. y \in N /\ dump \in Seq(N) /\ dump' = Append(dump, y)
        BY <1>1, <1>3, <1>6, <2>1, <3>1
      <3>3. dump' \in Seq(N) /\ Len(dump') = Len(dump) + 1
        BY <3>2, AppendProperties
      <3>. QED  BY <1>3, <1>5, <1>6, <2>1, <3>1, <3>3
    <2>2. CASE x.type # "FrameSlice"
      BY <1>1, <1>3, <1>5, <1>6, <2>2
    <2>. QED  BY <2>1, <2>2
  <1>9. Taken'
    <2>1. /\ header_count' = HowMany(stream, nread + 1, "FrameHeader")
          /\ end_count' = HowMany(stream, nread + 1, "FrameEnd")
      BY <1>3, <1>5, <1>7, Zenon
    <2>. QED  BY <1>3, <1>4, <1>8, <2>1, Zenon DEF Taken
  <1>10. TypeOK'
    <2>1. nread' \in 0 .. Len(stream)
      BY <1>1, <1>3
    <2>2. header_count' \in Nat /\ slice_count' \in Nat /\ end_count' \in Nat
      BY <1>1, <1>3
    <2>. QED  BY <1>3, <1>4, <1>8, <2>1, <2>2, Zenon DEF DisplayInv, TypeOK
  <1>11. Content(All, encoded)' /\ InStep'
    BY <1>4, Zenon DEF DisplayInv, All, InStep
  <1>12. Ending'
    <2>1. receiver' = "running" /\ UNCHANGED <<cut, receiver>>
      BY <1>3
    <2>. QED  BY <1>4, <2>1 DEF DisplayInv, Ending
  <1>. QED  BY <1>9, <1>10, <1>11, <1>12, Zenon DEF DisplayInv

\* The ends of the two sides and of the connection move no frame.
LEMMA EndHolds ==
    ASSUME DisplayInv, EncoderFails \/ WriteFails \/ Finish \/ ConnectionLost \/ SeeEnd \/ ReceiverFails
    PROVE  DisplayInv'
  <1>1. /\ UNCHANGED <<encoded, frame_id, todo, stream>>
        /\ UNCHANGED <<nread, header_count, slice_count, end_count, dump>>
    BY Zenon DEF EncoderFails, WriteFails, Finish, ConnectionLost, SeeEnd, ReceiverFails,
                 senderVars, receiverVars
  <1>2. Content(All, encoded)' /\ InStep' /\ Taken'
    BY <1>1, Zenon DEF DisplayInv, All, InStep, Taken
  <1>3. frame_id \in 0 .. DISPLAY_FRAME_COUNT /\ finished \in BOOLEAN /\ cut \in BOOLEAN
    BY Zenon DEF DisplayInv, TypeOK
  <1>4. Ending
    BY Zenon DEF DisplayInv
  <1>5. CASE EncoderFails
    <2>1. /\ todo = <<>> /\ sender = "running" /\ sender' = "failed" /\ finished' = TRUE
          /\ UNCHANGED <<cut, receiver>>
      BY <1>5, Zenon DEF EncoderFails, Between, receiverVars
    <2>2. Ending'
      BY <1>1, <1>4, <2>1 DEF Ending
    <2>3. TypeOK'
      BY <1>1, <2>1, Zenon DEF DisplayInv, TypeOK
    <2>. QED  BY <1>2, <2>2, <2>3, Zenon DEF DisplayInv
  <1>6. CASE WriteFails
    <2>1. /\ sender = "running" /\ sender' = "failed" /\ finished' = TRUE
          /\ cut \/ receiver # "running"
          /\ UNCHANGED <<cut, receiver>>
      BY <1>6, Zenon DEF WriteFails, receiverVars
    <2>2. receiver \in {"running", "ended", "failed"}
      BY Zenon DEF DisplayInv, TypeOK
    <2>3. Ending'
      BY <1>1, <1>4, <2>1, <2>2 DEF Ending
    <2>4. TypeOK'
      BY <1>1, <2>1, Zenon DEF DisplayInv, TypeOK
    <2>. QED  BY <1>2, <2>3, <2>4, Zenon DEF DisplayInv
  <1>7. CASE Finish
    <2>1. /\ todo = <<>> /\ sender = "running" /\ sender' = "ended" /\ finished' = TRUE
          /\ ~(frame_id < DISPLAY_FRAME_COUNT) /\ UNCHANGED <<cut, receiver>>
      BY <1>7, Zenon DEF Finish, Between, MorePictures, receiverVars
    <2>2. frame_id = DISPLAY_FRAME_COUNT
      BY <1>3, <2>1, SizesAssumption
    <2>3. Ending'
      BY <1>1, <1>4, <2>1, <2>2 DEF Ending
    <2>4. TypeOK'
      BY <1>1, <2>1, Zenon DEF DisplayInv, TypeOK
    <2>. QED  BY <1>2, <2>3, <2>4, Zenon DEF DisplayInv
  <1>8. CASE ConnectionLost
    <2>1. cut' = TRUE /\ UNCHANGED <<sender, finished, receiver>>
      BY <1>8, Zenon DEF ConnectionLost, senderVars, receiverVars
    <2>2. Ending'
      BY <1>1, <1>4, <2>1 DEF Ending
    <2>3. TypeOK'
      BY <1>1, <2>1, Zenon DEF DisplayInv, TypeOK
    <2>. QED  BY <1>2, <2>2, <2>3, Zenon DEF DisplayInv
  <1>9. CASE SeeEnd
    <2>1. /\ receiver = "running" /\ ~cut /\ finished /\ nread = Len(stream) /\ receiver' = "ended"
          /\ UNCHANGED <<sender, finished, cut>>
      BY <1>9, Zenon DEF SeeEnd, Reading, senderVars
    <2>2. todo = <<>>
      <3>1. sender \in {"running", "ended", "failed"}
        BY Zenon DEF DisplayInv, TypeOK
      <3>. QED  BY <1>4, <2>1, <3>1 DEF Ending
    <2>3. Ending'
      BY <1>1, <1>4, <2>1, <2>2 DEF Ending
    <2>4. TypeOK'
      BY <1>1, <2>1, Zenon DEF DisplayInv, TypeOK
    <2>. QED  BY <1>2, <2>3, <2>4, Zenon DEF DisplayInv
  <1>10. CASE ReceiverFails
    <2>1. receiver = "running" /\ receiver' = "failed" /\ UNCHANGED <<sender, finished, cut>>
      BY <1>10, Zenon DEF ReceiverFails, senderVars
    <2>2. Ending'
      BY <1>1, <1>4, <2>1 DEF Ending
    <2>3. TypeOK'
      BY <1>1, <2>1, Zenon DEF DisplayInv, TypeOK
    <2>. QED  BY <1>2, <2>2, <2>3, Zenon DEF DisplayInv
  <1>. QED  BY <1>5, <1>6, <1>7, <1>8, <1>9, <1>10

LEMMA StutterHolds ==
    ASSUME DisplayInv, UNCHANGED vars
    PROVE  DisplayInv'
  <1>1. /\ UNCHANGED <<encoded, frame_id, todo, stream, finished, sender>>
        /\ UNCHANGED <<cut, nread, header_count, slice_count, end_count, dump, receiver>>
    BY Zenon DEF vars, senderVars, receiverVars
  <1>2. TypeOK'
    BY <1>1, Zenon DEF DisplayInv, TypeOK
  <1>3. Content(All, encoded)' /\ InStep' /\ Taken'
    BY <1>1, Zenon DEF DisplayInv, All, InStep, Taken
  <1>4. Ending'
    BY <1>1, Zenon DEF DisplayInv, Ending
  <1>. QED  BY <1>2, <1>3, <1>4, Zenon DEF DisplayInv

LEMMA DisplayInvHolds == Spec => []DisplayInv
  <1>1. Init => DisplayInv
    BY InitHolds
  <1>2. DisplayInv /\ [Next]_vars => DisplayInv'
    BY EncodeHolds, SkipHolds, WriteHolds, ReceiveHolds, EndHolds, StutterHolds, Zenon
       DEF Next, Sender, Receiver
  <1>. QED  BY <1>1, <1>2, PTL DEF Spec

-----------------------------------------------------------------------------
(* Theorems. *)

\* Every frame written has fields of the width the wire gives them, and the receiver
\* takes no frame that is not there (send_display_frames, receive_display).
THEOREM DisplayTypeCorrect == Spec => []TypeOK
  <1>1. DisplayInv => TypeOK
    BY Zenon DEF DisplayInv
  <1>. QED  BY <1>1, DisplayInvHolds, PTL

LEMMA StreamHeaders ==
    ASSUME DisplayInv, NEW i \in DOMAIN stream, stream[i].type = "FrameHeader"
    PROVE  i \in 1 .. Len(stream) /\ All[i] = stream[i] /\ PictureAt(All, i, encoded)
  <1>1. stream \in Seq(Frames) /\ todo \in Seq(Frames)
    BY Zenon DEF DisplayInv, TypeOK
  <1>2. i \in 1 .. Len(stream) /\ Len(stream) \in Nat
    BY <1>1, LenProperties
  <1>3. All \in Seq(Frames) /\ Len(stream) <= Len(All) /\ All[i] = stream[i]
    BY <1>1, <1>2, StreamOfAll
  <1>4. i \in 1 .. Len(All)
    <2>1. Len(All) \in Nat
      BY <1>3, LenProperties
    <2>. QED  BY <1>2, <1>3, <2>1
  <1>5. PictureAt(All, i, encoded)
    BY <1>3, <1>4, Zenon DEF DisplayInv, Content, PicturesWhole
  <1>. QED  BY <1>2, <1>3, <1>5

\* However many units the encoder makes of its pictures, a picture of at most MaxU8
\* units goes out with a header that announces them all and slices that carry the
\* numbers below that total, in order and of that picture.
THEOREM SlicesCountUpToTheirTotalHolds == Spec => []SlicesCountUpToTheirTotal
  <1>1. ASSUME DisplayInv PROVE SlicesCountUpToTheirTotal
    <2>1. stream \in Seq(Frames) /\ todo \in Seq(Frames)
      BY <1>1, Zenon DEF DisplayInv, TypeOK
    <2>2. DOMAIN stream = 1 .. Len(stream) /\ Len(stream) \in Nat
      BY <2>1, LenProperties
    <2>3. \A j \in 1 .. Len(stream) : All[j] = stream[j]
      BY <2>1, StreamOfAll
    <2>4. ASSUME NEW i \in DOMAIN stream, stream[i].type = "FrameHeader",
                 encoded[stream[i].frame_id + 1] <= MaxU8
          PROVE  /\ stream[i].n_slices = encoded[stream[i].frame_id + 1]
                 /\ \A j \in i + 1 .. i + stream[i].n_slices : j \in DOMAIN stream =>
                     /\ stream[j].type = "FrameSlice" /\ stream[j].frame_id = stream[i].frame_id
                     /\ stream[j].slice_idx = j - i - 1 /\ stream[j].slice_idx < stream[j].total
                     /\ stream[j].total = stream[i].n_slices
      <3>1. i \in Nat /\ All[i] = stream[i] /\ PictureAt(All, i, encoded)
        BY <1>1, <2>2, <2>4, StreamHeaders
      <3>2. PICK f \in Numbers, n \in Nat \ {0} : HeaderAt(All, i, encoded, f, n)
        BY <3>1, PictureAtFrames
      <3>3. /\ f = stream[i].frame_id /\ n = encoded[f + 1] /\ stream[i].n_slices = SliceCount(n)
            /\ \A k \in 1 .. n : All[i + k] = PictureFrame(f, n, k + 1)
        BY <3>1, <3>2, Zenon DEF HeaderAt
      <3>4. n <= MaxU8 /\ SliceCount(n) = n /\ MaxU8 \in Nat
        BY <2>4, <3>3, SizesAssumption DEF SliceCount
      <3>5. ASSUME NEW j \in i + 1 .. i + n, j \in DOMAIN stream
            PROVE  /\ stream[j].type = "FrameSlice" /\ stream[j].frame_id = f
                   /\ stream[j].slice_idx = j - i - 1 /\ stream[j].slice_idx < stream[j].total
                   /\ stream[j].total = n
        <4>1. PICK k \in 1 .. n : j = i + k
          <5>1. j - i \in 1 .. n /\ j = i + (j - i)
            BY <3>1
          <5>. QED  BY <5>1
        <4>2. stream[j] = PictureFrame(f, n, k + 1)
          BY <2>2, <2>3, <3>3, <3>5, <4>1
        <4>3. k + 1 # 1 /\ k + 1 <= n + 1 /\ (k + 1) - 2 = k - 1 /\ k - 1 = j - i - 1 /\ k - 1 < n
          BY <3>1, <4>1
        <4>4. (k - 1) % (MaxU8 + 1) = k - 1
          BY <3>4
        <4>5. stream[j] = [type |-> "FrameSlice", frame_id |-> f, slice_idx |-> k - 1,
                           total |-> n, nal |-> Nal(f, k - 1)]
          BY <3>4, <4>2, <4>3, <4>4 DEF PictureFrame
        <4>. QED  BY <4>3, <4>5
      <3>. QED  BY <3>3, <3>4, <3>5
    <2>. QED  BY <2>4, Zenon DEF SlicesCountUpToTheirTotal
  <1>. QED  BY <1>1, DisplayInvHolds, PTL

\* The first header of the stream is flagged as a keyframe if the encoder made
\* something of its first picture, and no other header ever is.
THEOREM KeyframeIsFirstHolds == Spec => []KeyframeIsFirst
  <1>1. ASSUME DisplayInv PROVE KeyframeIsFirst
    <2>. DEFINE I == {i \in DOMAIN stream : stream[i].type = "FrameHeader"}
    <2>1. PICK X : X = Frames
      OBVIOUS
    <2>2. stream \in Seq(X) /\ todo \in Seq(X)
      BY <1>1, <2>1, Zenon DEF DisplayInv, TypeOK
    <2>3. DOMAIN stream = 1 .. Len(stream) /\ Len(stream) \in Nat
      BY <2>2, LenProperties
    <2>4. PICK p : p = Picked(stream, I)
      OBVIOUS
    <2>5. Headers = p
      BY <2>4 DEF Headers
    <2>6. HoldsTheChosen(p, stream, I, Len(stream), X)
      <3>1. \A i \in 1 .. Len(stream) : i \in I => stream[i] \in X
        BY <2>2, ElementOfSeq
      <3>. HIDE DEF I
      <3>. QED  BY <2>3, <2>4, <3>1, PickedElements
    <2>7. p \in Seq(X)
      BY <2>6, Zenon DEF HoldsTheChosen
    <2>8. DOMAIN p = 1 .. Len(p) /\ Len(p) \in Nat
      BY <2>7, LenProperties
    <2>9. /\ \A i \in 1 .. Len(stream) : All[i] = stream[i]
          /\ All \in Seq(Frames) /\ Len(stream) <= Len(All) /\ Len(All) \in Nat
      <3>1. stream \in Seq(Frames) /\ todo \in Seq(Frames)
        BY <2>1, <2>2
      <3>2. All \in Seq(Frames)
        BY <3>1, StreamOfAll
      <3>. QED  BY <3>1, <3>2, StreamOfAll, LenProperties
    <2>10. /\ Len(All) >= 1 /\ All[1].type = "StreamParameters"
           /\ \A i \in 1 .. Len(All) : IsKeyframe(All[i]) => i = 2
           /\ (Len(encoded) # 0 /\ encoded[1] # 0) => Len(All) >= 2 /\ IsKeyframe(All[2])
      BY <1>1, Zenon DEF DisplayInv, Content, Begun, KeyframePlaced
    <2>11. ASSUME NEW i \in 1 .. Len(stream), i \in I
           PROVE  /\ i >= 2 /\ Len(encoded) # 0
                  /\ stream[i].idr <=> stream[i].frame_id = 0
                  /\ stream[i].frame_id = 0 => i = 2 /\ encoded[1] # 0
      <3>1. stream[i].type = "FrameHeader" /\ i \in Nat
        BY <2>3, <2>11
      <3>2. All[i] = stream[i] /\ PictureAt(All, i, encoded)
        BY <1>1, <2>3, <3>1, StreamHeaders
      <3>3. PICK f \in Numbers, n \in Nat \ {0} :
                /\ f = All[i].frame_id /\ f + 1 \in 1 .. Len(encoded) /\ n = encoded[f + 1]
                /\ All[i].type = "FrameHeader"
                /\ All[i].idr <=> f = 0
        <4>1. PICK f \in Numbers, n \in Nat \ {0} : HeaderAt(All, i, encoded, f, n)
          BY <3>1, <3>2, PictureAtFrames
        <4>. QED  BY <4>1, Zenon DEF HeaderAt
      <3>4. i # 1
        BY <2>10, <3>1, <3>2
      <3>5. i >= 2
        BY <3>1, <3>4
      <3>6. Len(encoded) # 0
        BY <3>3
      <3>7. stream[i].frame_id = 0 => i = 2 /\ encoded[1] # 0
        <4>. SUFFICES ASSUME f = 0 PROVE i = 2 /\ encoded[1] # 0
          BY <3>2, <3>3
        <4>1. IsKeyframe(All[i]) /\ i \in 1 .. Len(All)
          BY <2>9, <3>1, <3>2, <3>3 DEF IsKeyframe
        <4>2. f + 1 = 1
          OBVIOUS
        <4>. QED  BY <2>10, <3>3, <4>1, <4>2
      <3>8. stream[i].idr <=> stream[i].frame_id = 0
        <4>1. stream[i] = All[i] /\ f = All[i].frame_id
          BY <3>2, <3>3
        <4>2. All[i].idr <=> f = 0
          BY <3>3
        <4>. QED  BY <4>1, <4>2, Zenon
      <3>. QED  BY <3>5, <3>6, <3>7, <3>8, Zenon
    <2>12. ASSUME NEW k \in 1 .. Len(p), p[k].idr PROVE k = 1 /\ encoded[1] # 0
      <3>1. PICK i \in 1 .. Len(stream) : i \in I /\ p[k] = stream[i]
        BY <2>6, Zenon DEF HoldsTheChosen
      <3>2. encoded[1] # 0
        BY <2>11, <2>12, <3>1
      <3>3. ASSUME k # 1 PROVE FALSE
        <4>1. k \in 2 .. Len(p)
          BY <2>8, <3>3
        <4>2. PICK m \in 1 .. Len(stream) : /\ m \in I /\ p[k] = stream[m]
                                            /\ \E j \in 1 .. m - 1 : j \in I
          <5>. HIDE DEF I
          <5>. QED  BY <2>2, <2>4, <4>1, PickedLater
        <4>3. m = 2
          BY <2>11, <2>12, <4>2
        <4>4. 1 \in I /\ 1 \in 1 .. Len(stream)
          BY <4>2, <4>3
        <4>. HIDE DEF I
        <4>. QED  BY <2>11, <4>4
      <3>. QED  BY <3>2, <3>3
    <2>13. ASSUME 1 \in 1 .. Len(p), encoded[1] # 0 PROVE p[1].idr
      <3>1. p # <<>>
        BY <2>8, <2>13, EmptySeq
      <3>2. PICK i \in 1 .. Len(stream) : /\ i \in I /\ p[1] = stream[i]
                                          /\ \A j \in 1 .. i - 1 : j \notin I
        <4>. HIDE DEF I
        <4>. QED  BY <2>2, <2>4, <3>1, PickedFirst
      <3>3. i >= 2 /\ Len(encoded) # 0
        BY <2>11, <3>2
      <3>4. IsKeyframe(All[2])
        BY <2>10, <2>13, <3>3
      <3>5. 2 \in 1 .. Len(stream) /\ stream[2] = All[2]
        BY <2>3, <2>9, <3>3
      <3>6. 2 \in I /\ stream[2].frame_id = 0
        BY <2>3, <3>4, <3>5 DEF IsKeyframe
      <3>7. i = 2
        <4>1. i > 2 => 2 \in 1 .. i - 1
          BY <2>3
        <4>2. i \in Nat
          BY <2>3
        <4>. HIDE DEF I
        <4>. QED  BY <3>2, <3>3, <3>6, <4>1, <4>2
      <3>. QED  BY <2>11, <3>2, <3>6, <3>7
    <2>14. ASSUME NEW k \in 1 .. Len(p) PROVE p[k].idr <=> (k = 1 /\ encoded[1] # 0)
      BY <2>12, <2>13
    <2>. QED  BY <2>5, <2>8, <2>14 DEF KeyframeIsFirst
  <1>. QED  BY <1>1, DisplayInvHolds, PTL

\* For any number of pictures and any output of the encoder: a receiver that met the
\* end of the stream has in its dump exactly what the encoder made, and has counted as
\* many ends as headers.
THEOREM EndMeansWholePicturesHolds == Spec => []EndMeansWholePictures
  <1>1. ASSUME DisplayInv PROVE EndMeansWholePictures
    <2>. SUFFICES ASSUME receiver = "ended"
                  PROVE  /\ header_count = end_count /\ slice_count = Len(dump)
                         /\ dump = NalsOf(Len(encoded))
                         /\ sender = "ended" => Len(encoded) = DISPLAY_FRAME_COUNT
      BY Zenon DEF EndMeansWholePictures
    <2>1. nread = Len(stream) /\ todo = <<>>
          /\ (sender = "ended" => frame_id = DISPLAY_FRAME_COUNT) /\ Len(encoded) = frame_id
      BY <1>1, Zenon DEF DisplayInv, Ending, InStep
    <2>2. All = stream
      <3>1. stream \in Seq(Frames) /\ todo \in Seq(Frames)
        BY <1>1, Zenon DEF DisplayInv, TypeOK
      <3>. QED  BY <2>1, <3>1, StreamOfAll
    <2>3. /\ NalsIn(stream, Len(stream)) = UnitsUpTo(encoded, Len(encoded))
          /\ HowMany(stream, Len(stream), "FrameHeader") = HowMany(stream, Len(stream), "FrameEnd")
      BY <1>1, <2>2, Zenon DEF DisplayInv, Content, Complete
    <2>4. /\ dump = NalsIn(stream, nread) /\ slice_count = Len(dump)
          /\ header_count = HowMany(stream, nread, "FrameHeader")
          /\ end_count = HowMany(stream, nread, "FrameEnd")
      BY <1>1, Zenon DEF DisplayInv, Taken
    <2>5. NalsOf(Len(encoded)) = UnitsUpTo(encoded, Len(encoded))
      BY DEF NalsOf, UnitsUpTo, UnitLists
    <2>. QED  BY <2>1, <2>3, <2>4, <2>5, Zenon
  <1>. QED  BY <1>1, DisplayInvHolds, PTL

\* At every moment of every run the dump is a prefix of what the encoder made.
THEOREM DumpFollowsTheEncoderHolds == Spec => []DumpFollowsTheEncoder
  <1>1. ASSUME DisplayInv PROVE DumpFollowsTheEncoder
    <2>1. stream \in Seq(Frames) /\ todo \in Seq(Frames) /\ nread \in 0 .. Len(stream)
      BY <1>1, Zenon DEF DisplayInv, TypeOK
    <2>2. /\ All \in Seq(Frames) /\ Len(stream) <= Len(All)
          /\ \A i \in 1 .. Len(stream) : All[i] = stream[i]
      BY <2>1, StreamOfAll
    <2>3. PICK a : a = All
      OBVIOUS
    <2>4. /\ nread \in Nat /\ nread <= Len(stream) /\ nread <= Len(a)
          /\ \A i \in 1 .. nread : stream[i] = a[i]
      <3>1. Len(stream) \in Nat /\ Len(a) \in Nat
        BY <2>1, <2>2, <2>3, LenProperties
      <3>. QED  BY <2>1, <2>2, <2>3, <3>1
    <2>5. NalsIn(stream, nread) = NalsIn(a, nread)
      BY <2>1, <2>2, <2>3, <2>4, SameStart
    <2>6. Begins(NalsIn(a, nread), NalsIn(a, Len(a)))
      BY <2>2, <2>3, <2>4, NalsBegin
    <2>7. dump = NalsIn(a, nread)
      BY <1>1, <2>5, Zenon DEF DisplayInv, Taken
    <2>8. NalsIn(a, Len(a)) = NalsOf(Len(encoded))
      <3>1. NalsIn(a, Len(a)) = UnitsUpTo(encoded, Len(encoded))
        BY <1>1, <2>3, Zenon DEF DisplayInv, Content, Complete
      <3>. QED  BY <3>1 DEF NalsOf, UnitsUpTo, UnitLists
    <2>9. PICK N, u : N = Nals /\ u = NalsOf(Len(encoded))
      OBVIOUS
    <2>10. dump \in Seq(N) /\ u \in Seq(N)
      <3>1. Len(a) \in Nat /\ Len(a) <= Len(a)
        BY <2>2, <2>3, LenProperties
      <3>. QED  BY <2>2, <2>3, <2>4, <2>7, <2>8, <2>9, <3>1, NalsTyped
    <2>11. Len(dump) <= Len(u) /\ \A k \in 1 .. Len(dump) : dump[k] = u[k]
      BY <2>6, <2>7, <2>8, <2>9, Zenon DEF Begins
    <2>12. SubSeq(dump, 1, Len(dump)) = SubSeq(u, 1, Len(dump))
      BY <2>10, <2>11
    <2>. QED  BY <2>9, <2>11, <2>12 DEF DumpFollowsTheEncoder, IsPrefix
  <1>. QED  BY <1>1, DisplayInvHolds, PTL

=============================================================================
