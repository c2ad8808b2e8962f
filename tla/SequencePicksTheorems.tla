----------------------- MODULE SequencePicksTheorems ------------------------
(***************************************************************************)
(* Facts about Picked, by induction over the length of the sequence.       *)
(***************************************************************************)
EXTENDS SequencePicks, Integers, SequenceTheorems, WellFoundedInduction, TLAPS

-----------------------------------------------------------------------------
(* Induction over the naturals, with a set in place of a predicate: it is the *)
(* principle that a set of naturals has a smallest element.                   *)

LEMMA NatSetInduction ==
    ASSUME NEW S, 0 \in S, \A n \in Nat : n \in S => n + 1 \in S
    PROVE  Nat \subseteq S
  <1>. DEFINE R == OpToRel(<, Nat)
              T == Nat \ S
  <1>1. SUFFICES ASSUME T # {} PROVE FALSE
    OBVIOUS
  <1>2. PICK x \in T : \A y \in T : ~ (<<y, x>> \in R)
    <2>1. T \subseteq Nat
      OBVIOUS
    <2>. HIDE DEF R, T
    <2>2. IsWellFoundedOn(R, Nat)
      BY NatLessThanWellFounded DEF R
    <2>. QED  BY <1>1, <2>1, <2>2, WFMin
  <1>3. x \in Nat /\ x # 0
    OBVIOUS
  <1>4. x - 1 \in Nat /\ x - 1 \notin S
    BY <1>3
  <1>5. <<x - 1, x>> \in R
    BY <1>3, <1>4 DEF OpToRel
  <1>. QED  BY <1>2, <1>4, <1>5

-----------------------------------------------------------------------------
(* The recursive function in the definition of Picked, for the first n        *)
(* elements.                                                                  *)

IsTable(f, s, I, n) ==
    f = [k \in 0 .. n |-> IF k = 0 THEN <<>>
                          ELSE IF k \in I THEN Append(f[k - 1], s[k]) ELSE f[k - 1]]

LEMMA TableStart ==
    ASSUME NEW s, NEW I, NEW n \in Nat, NEW f, IsTable(f, s, I, n)
    PROVE  f[0] = <<>>
  <1>. DEFINE entry(k) == IF k = 0 THEN <<>>
                          ELSE IF k \in I THEN Append(f[k - 1], s[k]) ELSE f[k - 1]
  <1>1. f = [k \in 0 .. n |-> entry(k)]
    BY Zenon DEF IsTable
  <1>. HIDE DEF entry
  <1>2. f[0] = entry(0)
    BY <1>1
  <1>. QED  BY <1>2 DEF entry

LEMMA TableEntries ==
    ASSUME NEW s, NEW I, NEW n \in Nat, NEW f, IsTable(f, s, I, n)
    PROVE  \A k \in 1 .. n : f[k] = IF k \in I THEN Append(f[k - 1], s[k]) ELSE f[k - 1]
  <1>. DEFINE entry(k) == IF k = 0 THEN <<>>
                          ELSE IF k \in I THEN Append(f[k - 1], s[k]) ELSE f[k - 1]
  <1>1. f = [k \in 0 .. n |-> entry(k)]
    BY Zenon DEF IsTable
  <1>. HIDE DEF entry
  <1>2. \A k \in 0 .. n : f[k] = entry(k)
    BY <1>1, Zenon
  <1>. QED  BY <1>2 DEF entry

LEMMA TableExists ==
    ASSUME NEW s, NEW I, NEW n \in Nat
    PROVE  \E f : IsTable(f, s, I, n)
  <1>. DEFINE S == {m \in Nat : \E f : IsTable(f, s, I, m)}
  <1>1. 0 \in S
    <2>1. IsTable([k \in 0 .. 0 |-> <<>>], s, I, 0)
      BY DEF IsTable
    <2>. QED  BY <2>1
  <1>2. ASSUME NEW m \in Nat, m \in S PROVE m + 1 \in S
    <2>1. PICK f : IsTable(f, s, I, m)
      BY <1>2
    <2>. DEFINE last == IF m + 1 \in I THEN Append(f[m], s[m + 1]) ELSE f[m]
                g == [k \in 0 .. m + 1 |-> IF k = m + 1 THEN last ELSE f[k]]
    <2>2. IsTable(g, s, I, m + 1)
      <3>1. ASSUME NEW k \in 0 .. m + 1
            PROVE  g[k] = IF k = 0 THEN <<>>
                          ELSE IF k \in I THEN Append(g[k - 1], s[k]) ELSE g[k - 1]
        <4>1. CASE k = m + 1
          BY <4>1
        <4>2. CASE k \in 1 .. m
          <5>1. f[k] = IF k \in I THEN Append(f[k - 1], s[k]) ELSE f[k - 1]
            BY <2>1, <4>2, TableEntries
          <5>. QED  BY <4>2, <5>1
        <4>3. CASE k = 0
          <5>1. f[0] = <<>>
            BY <2>1, TableStart
          <5>. QED  BY <4>3, <5>1
        <4>. QED  BY <4>1, <4>2, <4>3
      <3>. HIDE DEF last
      <3>. QED  BY <3>1 DEF IsTable
    <2>. QED  BY <2>2
  <1>. HIDE DEF S
  <1>3. n \in S
    BY <1>1, <1>2, NatSetInduction
  <1>. QED  BY <1>3 DEF S

LEMMA UpToTable ==
    ASSUME NEW s, NEW I, NEW n \in Nat
    PROVE  \E f : IsTable(f, s, I, n) /\ PickedUpTo(s, I, n) = f[n]
  <1>. DEFINE f == CHOOSE g : IsTable(g, s, I, n)
  <1>1. IsTable(f, s, I, n)
    BY TableExists, Zenon
  <1>2. PickedUpTo(s, I, n) = f[n]
    BY Zenon DEF PickedUpTo, IsTable
  <1>. QED  BY <1>1, <1>2, Zenon

\* Two tables agree where both are defined.
LEMMA TablesAgree ==
    ASSUME NEW s, NEW I, NEW m \in Nat, NEW n \in Nat, m <= n,
           NEW f, NEW g, IsTable(f, s, I, m), IsTable(g, s, I, n)
    PROVE  f[m] = g[m]
  <1>. DEFINE S == {k \in Nat : k <= m => f[k] = g[k]}
  <1>1. 0 \in S
    <2>1. f[0] = <<>> /\ g[0] = <<>>
      BY TableStart
    <2>. QED  BY <2>1
  <1>2. ASSUME NEW k \in Nat, k \in S PROVE k + 1 \in S
    <2>. SUFFICES ASSUME k + 1 <= m PROVE f[k + 1] = g[k + 1]
      OBVIOUS
    <2>1. k + 1 \in 1 .. m /\ k + 1 \in 1 .. n /\ f[k] = g[k] /\ (k + 1) - 1 = k
      BY <1>2
    <2>2. f[k + 1] = IF k + 1 \in I THEN Append(f[k], s[k + 1]) ELSE f[k]
      BY <2>1, TableEntries
    <2>3. g[k + 1] = IF k + 1 \in I THEN Append(g[k], s[k + 1]) ELSE g[k]
      BY <2>1, TableEntries
    <2>. QED  BY <2>1, <2>2, <2>3
  <1>. HIDE DEF S
  <1>3. m \in S
    BY <1>1, <1>2, NatSetInduction
  <1>. QED  BY <1>3 DEF S

-----------------------------------------------------------------------------
(* The equations of PickedUpTo: all that is used of it from here on. *)

LEMMA UpToStart ==
    ASSUME NEW s, NEW I
    PROVE  PickedUpTo(s, I, 0) = <<>>
  <1>1. PICK f : IsTable(f, s, I, 0) /\ PickedUpTo(s, I, 0) = f[0]
    BY UpToTable
  <1>. QED  BY <1>1, TableStart

LEMMA UpToNext ==
    ASSUME NEW s, NEW I, NEW n \in Nat
    PROVE  /\ n + 1 \in I => PickedUpTo(s, I, n + 1) = Append(PickedUpTo(s, I, n), s[n + 1])
           /\ n + 1 \notin I => PickedUpTo(s, I, n + 1) = PickedUpTo(s, I, n)
  <1>1. PICK f : IsTable(f, s, I, n) /\ PickedUpTo(s, I, n) = f[n]
    BY UpToTable
  <1>. DEFINE k == n + 1
  <1>2. k \in Nat /\ n <= k /\ k \in 1 .. k /\ k - 1 = n
    OBVIOUS
  <1>. HIDE DEF k
  <1>3. PICK g : IsTable(g, s, I, k) /\ PickedUpTo(s, I, k) = g[k]
    BY <1>2, UpToTable
  <1>4. f[n] = g[n]
    BY <1>1, <1>2, <1>3, TablesAgree
  <1>5. g[k] = IF k \in I THEN Append(g[n], s[k]) ELSE g[n]
    BY <1>2, <1>3, TableEntries
  <1>. QED  BY <1>1, <1>3, <1>4, <1>5 DEF k

\* Nothing but the chosen elements matters.
LEMMA UpToSame ==
    ASSUME NEW s, NEW t, NEW I, NEW J, NEW n \in Nat,
           \A i \in 1 .. n : (i \in I <=> i \in J) /\ (i \in I => s[i] = t[i])
    PROVE  PickedUpTo(s, I, n) = PickedUpTo(t, J, n)
  <1>. DEFINE S == {k \in Nat : k <= n => PickedUpTo(s, I, k) = PickedUpTo(t, J, k)}
  <1>1. 0 \in S
    BY UpToStart
  <1>2. ASSUME NEW k \in Nat, k \in S PROVE k + 1 \in S
    <2>1. k + 1 <= n => k + 1 \in 1 .. n /\ k <= n
      OBVIOUS
    <2>2. /\ k + 1 \in I => PickedUpTo(s, I, k + 1) = Append(PickedUpTo(s, I, k), s[k + 1])
          /\ k + 1 \notin I => PickedUpTo(s, I, k + 1) = PickedUpTo(s, I, k)
          /\ k + 1 \in J => PickedUpTo(t, J, k + 1) = Append(PickedUpTo(t, J, k), t[k + 1])
          /\ k + 1 \notin J => PickedUpTo(t, J, k + 1) = PickedUpTo(t, J, k)
      BY UpToNext
    <2>. QED  BY <1>2, <2>1, <2>2
  <1>. HIDE DEF S
  <1>3. n \in S
    BY <1>1, <1>2, NatSetInduction
  <1>. QED  BY <1>3 DEF S

\* Behind the last chosen place nothing is added.
LEMMA UpToConstant ==
    ASSUME NEW s, NEW I, NEW m \in Nat, NEW n \in Nat, m <= n,
           \A i \in m + 1 .. n : i \notin I
    PROVE  PickedUpTo(s, I, n) = PickedUpTo(s, I, m)
  <1>. DEFINE S == {k \in Nat : m + k <= n => PickedUpTo(s, I, m + k) = PickedUpTo(s, I, m)}
  <1>1. 0 \in S
    OBVIOUS
  <1>2. ASSUME NEW k \in Nat, k \in S PROVE k + 1 \in S
    <2>. SUFFICES ASSUME m + (k + 1) <= n
                  PROVE  PickedUpTo(s, I, m + (k + 1)) = PickedUpTo(s, I, m)
      OBVIOUS
    <2>. DEFINE l == m + k
    <2>1. l \in Nat /\ m + (k + 1) = l + 1 /\ l + 1 \notin I
          /\ PickedUpTo(s, I, l) = PickedUpTo(s, I, m)
      BY <1>2
    <2>. HIDE DEF l
    <2>. QED  BY <2>1, UpToNext
  <1>. HIDE DEF S
  <1>3. n - m \in S
    BY <1>1, <1>2, NatSetInduction
  <1>. QED  BY <1>3 DEF S

\* The elements picked are the elements chosen: each comes from a chosen place, and
\* each chosen place gives one.
HoldsTheChosen(p, s, I, n, X) ==
    /\ p \in Seq(X) /\ Len(p) <= n
    /\ \A k \in 1 .. Len(p) : \E i \in 1 .. n : i \in I /\ p[k] = s[i]
    /\ \A i \in 1 .. n : i \in I => \E k \in 1 .. Len(p) : p[k] = s[i]

LEMMA UpToElements ==
    ASSUME NEW s, NEW I, NEW X, NEW n \in Nat, \A i \in 1 .. n : i \in I => s[i] \in X
    PROVE  HoldsTheChosen(PickedUpTo(s, I, n), s, I, n, X)
  <1>. DEFINE p(m) == PickedUpTo(s, I, m)
              Good(m) == /\ p(m) \in Seq(X) /\ Len(p(m)) <= m
                         /\ \A k \in 1 .. Len(p(m)) : \E i \in 1 .. m : i \in I /\ p(m)[k] = s[i]
                         /\ \A i \in 1 .. m : i \in I => \E k \in 1 .. Len(p(m)) : p(m)[k] = s[i]
              S == {m \in Nat : m <= n => Good(m)}
  <1>1. 0 \in S
    <2>1. p(0) = <<>>
      BY UpToStart
    <2>2. p(0) \in Seq(X) /\ Len(p(0)) = 0
      BY <2>1, EmptySeq
    <2>. QED  BY <2>2
  <1>2. ASSUME NEW m \in Nat, m \in S PROVE m + 1 \in S
    <2>. SUFFICES ASSUME m + 1 <= n PROVE Good(m + 1)
      OBVIOUS
    <2>. DEFINE g == p(m)
                h == p(m + 1)
    <2>1. /\ g \in Seq(X) /\ Len(g) <= m
          /\ \A k \in 1 .. Len(g) : \E i \in 1 .. m : i \in I /\ g[k] = s[i]
          /\ \A i \in 1 .. m : i \in I => \E k \in 1 .. Len(g) : g[k] = s[i]
      BY <1>2
    <2>2. /\ m + 1 \in I => h = Append(g, s[m + 1]) /\ s[m + 1] \in X
          /\ m + 1 \notin I => h = g
      BY UpToNext
    <2>3. SUFFICES /\ h \in Seq(X) /\ Len(h) <= m + 1
                   /\ \A k \in 1 .. Len(h) : \E i \in 1 .. m + 1 : i \in I /\ h[k] = s[i]
                   /\ \A i \in 1 .. m + 1 : i \in I => \E k \in 1 .. Len(h) : h[k] = s[i]
      BY Zenon
    <2>. HIDE DEF g, h
    <2>4. CASE m + 1 \in I
      <3>1. /\ h \in Seq(X) /\ Len(h) = Len(g) + 1 /\ Len(g) \in Nat
            /\ \A k \in 1 .. Len(g) : h[k] = g[k]
            /\ h[Len(g) + 1] = s[m + 1]
        <4>. DEFINE x == s[m + 1]
        <4>1. g \in Seq(X) /\ x \in X /\ h = Append(g, x)
          BY <2>1, <2>2, <2>4
        <4>. HIDE DEF x
        <4>2. h[Len(g) + 1] = x /\ \A k \in 1 .. Len(g) : h[k] = g[k]
          BY <4>1, AppendProperties
        <4>3. h \in Seq(X) /\ Len(h) = Len(g) + 1 /\ Len(g) \in Nat
          BY <4>1, AppendProperties, LenProperties
        <4>. QED  BY <4>2, <4>3 DEF x
      <3>2. ASSUME NEW k \in 1 .. Len(h)
            PROVE  \E i \in 1 .. m + 1 : i \in I /\ h[k] = s[i]
        <4>1. CASE k = Len(g) + 1
          BY <3>1, <4>1, <2>4
        <4>2. CASE k \in 1 .. Len(g)
          <5>1. PICK i \in 1 .. m : i \in I /\ g[k] = s[i]
            BY <2>1, <4>2
          <5>2. h[k] = g[k] /\ i \in 1 .. m + 1
            BY <3>1, <4>2
          <5>. QED  BY <5>1, <5>2
        <4>. QED  BY <3>1, <4>1, <4>2
      <3>3. ASSUME NEW i \in 1 .. m + 1, i \in I
            PROVE  \E k \in 1 .. Len(h) : h[k] = s[i]
        <4>1. CASE i = m + 1
          BY <3>1, <4>1
        <4>2. CASE i \in 1 .. m
          <5>1. PICK k \in 1 .. Len(g) : g[k] = s[i]
            BY <2>1, <3>3, <4>2
          <5>. QED  BY <3>1, <5>1
        <4>. QED  BY <4>1, <4>2
      <3>4. Len(h) <= m + 1
        BY <2>1, <3>1
      <3>. QED  BY <3>1, <3>2, <3>3, <3>4
    <2>5. CASE m + 1 \notin I
      <3>1. h = g
        BY <2>2, <2>5
      <3>2. \A i \in 1 .. m + 1 : i \in I => i \in 1 .. m
        BY <2>5
      <3>3. Len(g) \in Nat
        BY <2>1, LenProperties
      <3>. QED  BY <2>1, <3>1, <3>2, <3>3
    <2>. QED  BY <2>4, <2>5
  <1>. HIDE DEF S
  <1>3. n \in S
    BY <1>1, <1>2, NatSetInduction
  <1>. HIDE DEF Good
  <1>4. Good(n)
    BY <1>3 DEF S
  <1>. QED  BY <1>4, Zenon DEF Good, HoldsTheChosen

-----------------------------------------------------------------------------
(* What Picked returns. *)

\* Elements that are not chosen do not matter, and those behind the last chosen one
\* need not be there.
LEMMA PickedSame ==
    ASSUME NEW s, NEW t, NEW I, NEW J, Len(s) \in Nat, Len(t) \in Nat, Len(s) <= Len(t),
           \A i \in 1 .. Len(s) : (i \in I <=> i \in J) /\ (i \in I => s[i] = t[i]),
           \A i \in Len(s) + 1 .. Len(t) : i \notin J
    PROVE  Picked(t, J) = Picked(s, I)
  <1>. DEFINE m == Len(s)
              n == Len(t)
  <1>1. Picked(s, I) = PickedUpTo(s, I, m) /\ Picked(t, J) = PickedUpTo(t, J, n)
    BY Zenon DEF Picked
  <1>2. /\ m \in Nat /\ n \in Nat /\ m <= n
        /\ \A i \in 1 .. m : (i \in I <=> i \in J) /\ (i \in I => s[i] = t[i])
        /\ \A i \in m + 1 .. n : i \notin J
    OBVIOUS
  <1>. HIDE DEF m, n
  <1>3. PickedUpTo(s, I, m) = PickedUpTo(t, J, m)
    BY <1>2, UpToSame
  <1>4. PickedUpTo(t, J, n) = PickedUpTo(t, J, m)
    BY <1>2, UpToConstant, Zenon
  <1>. QED  BY <1>1, <1>3, <1>4

\* One more place, behind the others, adds its element at the end.
LEMMA PickedNext ==
    ASSUME NEW s, NEW I, NEW J, Len(s) \in Nat, NEW n \in 1 .. Len(s),
           n \in J, \A i \in 1 .. n - 1 : i \in I <=> i \in J,
           \A i \in n .. Len(s) : i \notin I,
           \A i \in n + 1 .. Len(s) : i \notin J
    PROVE  Picked(s, J) = Append(Picked(s, I), s[n])
  <1>. DEFINE l == Len(s)
              m == n - 1
  <1>1. Picked(s, I) = PickedUpTo(s, I, l) /\ Picked(s, J) = PickedUpTo(s, J, l)
    BY Zenon DEF Picked
  <1>2. /\ m \in Nat /\ n \in Nat /\ l \in Nat /\ m <= l /\ n <= l /\ m + 1 = n
        /\ \A i \in m + 1 .. l : i \notin I
        /\ \A i \in n + 1 .. l : i \notin J
        /\ \A i \in 1 .. m : (i \in I <=> i \in J) /\ (i \in I => s[i] = s[i])
    OBVIOUS
  <1>. HIDE DEF l, m
  <1>3. PickedUpTo(s, I, l) = PickedUpTo(s, I, m)
    BY <1>2, UpToConstant
  <1>4. PickedUpTo(s, J, l) = PickedUpTo(s, J, n)
    BY <1>2, UpToConstant, Zenon
  <1>5. PickedUpTo(s, I, m) = PickedUpTo(s, J, m)
    BY <1>2, UpToSame
  <1>6. PickedUpTo(s, J, m + 1) = Append(PickedUpTo(s, J, m), s[m + 1])
    BY <1>2, UpToNext, Zenon
  <1>. QED  BY <1>1, <1>2, <1>3, <1>4, <1>5, <1>6

LEMMA PickedNone ==
    ASSUME NEW s, NEW I, Len(s) \in Nat, \A i \in 1 .. Len(s) : i \notin I
    PROVE  Picked(s, I) = <<>>
  <1>. DEFINE l == Len(s)
  <1>1. Picked(s, I) = PickedUpTo(s, I, l)
    BY Zenon DEF Picked
  <1>2. l \in Nat /\ 0 \in Nat /\ 0 <= l /\ \A i \in 0 + 1 .. l : i \notin I
    OBVIOUS
  <1>. HIDE DEF l
  <1>3. PickedUpTo(s, I, l) = PickedUpTo(s, I, 0)
    BY <1>2, UpToConstant, Zenon
  <1>. QED  BY <1>1, <1>3, UpToStart

\* What is picked comes from the chosen places, and all they hold is picked.
LEMMA PickedElements ==
    ASSUME NEW s, NEW I, NEW X, Len(s) \in Nat, \A i \in 1 .. Len(s) : i \in I => s[i] \in X
    PROVE  HoldsTheChosen(Picked(s, I), s, I, Len(s), X)
  <1>. DEFINE n == Len(s)
  <1>1. Picked(s, I) = PickedUpTo(s, I, n)
    BY Zenon DEF Picked
  <1>2. n \in Nat /\ \A i \in 1 .. n : i \in I => s[i] \in X
    OBVIOUS
  <1>. HIDE DEF n
  <1>3. HoldsTheChosen(PickedUpTo(s, I, n), s, I, n, X)
    BY <1>2, UpToElements
  <1>. QED  BY <1>1, <1>3, Zenon DEF n

\* Elements appended behind the places chosen change nothing.
LEMMA PickedBehind ==
    ASSUME NEW X, NEW s \in Seq(X), NEW x \in X, NEW I,
           \A i \in I : i <= Len(s)
    PROVE  Picked(Append(s, x), I) = Picked(s, I)
  <1>. DEFINE t == Append(s, x)
  <1>1. /\ Len(s) \in Nat /\ Len(t) = Len(s) + 1
        /\ \A i \in 1 .. Len(s) : s[i] = t[i]
    BY AppendProperties, LenProperties
  <1>2. \A i \in Len(s) + 1 .. Len(t) : i \notin I
    BY <1>1
  <1>3. Len(t) \in Nat /\ Len(s) <= Len(t)
    BY <1>1
  <1>. HIDE DEF t
  <1>4. Picked(t, I) = Picked(s, I)
    BY <1>1, <1>2, <1>3, PickedSame
  <1>. QED  BY <1>4 DEF t

\* When every place is chosen, the sequence is picked whole.
LEMMA PickedAll ==
    ASSUME NEW X, NEW s \in Seq(X), NEW I, \A i \in 1 .. Len(s) : i \in I
    PROVE  Picked(s, I) = s
  <1>1. PICK n \in Nat : n = Len(s)
    BY LenProperties
  <1>. DEFINE p(m) == PickedUpTo(s, I, m)
              Good(m) == p(m) \in Seq(X) /\ Len(p(m)) = m /\ \A i \in 1 .. m : p(m)[i] = s[i]
              S == {m \in Nat : m <= n => Good(m)}
  <1>2. 0 \in S
    <2>1. p(0) = <<>>
      BY UpToStart
    <2>2. p(0) \in Seq(X) /\ Len(p(0)) = 0
      BY <2>1, EmptySeq
    <2>. QED  BY <2>2
  <1>3. ASSUME NEW m \in Nat, m \in S PROVE m + 1 \in S
    <2>. SUFFICES ASSUME m + 1 <= n PROVE Good(m + 1)
      OBVIOUS
    <2>. DEFINE g == p(m)
                h == p(m + 1)
    <2>1. g \in Seq(X) /\ Len(g) = m /\ \A i \in 1 .. m : g[i] = s[i]
      BY <1>3
    <2>2. h = Append(g, s[m + 1])
      BY <1>1, UpToNext
    <2>3. SUFFICES h \in Seq(X) /\ Len(h) = m + 1 /\ \A i \in 1 .. m + 1 : h[i] = s[i]
      BY Zenon
    <2>. HIDE DEF g, h
    <2>4. PICK x \in X : x = s[m + 1]
      BY <1>1, ElementOfSeq
    <2>5. /\ h \in Seq(X) /\ Len(h) = m + 1 /\ h[m + 1] = x
          /\ \A i \in 1 .. m : h[i] = g[i]
      BY <2>1, <2>2, <2>4, AppendProperties
    <2>. QED  BY <2>1, <2>4, <2>5
  <1>. HIDE DEF S
  <1>4. n \in S
    BY <1>2, <1>3, NatSetInduction
  <1>. HIDE DEF Good
  <1>5. Good(n)
    BY <1>4 DEF S
  <1>6. PICK q : q = Picked(s, I)
    OBVIOUS
  <1>7. q \in Seq(X) /\ Len(q) = n /\ \A i \in 1 .. n : q[i] = s[i]
    BY <1>1, <1>5, <1>6, Zenon DEF Good, Picked
  <1>8. q = s
    BY <1>1, <1>7, SeqEqual
  <1>. QED  BY <1>6, <1>8

\* The first element picked is the one at the first place chosen.
LEMMA PickedFirst ==
    ASSUME NEW X, NEW s \in Seq(X), NEW I, Picked(s, I) # <<>>
    PROVE  \E i \in 1 .. Len(s) : /\ i \in I /\ Picked(s, I)[1] = s[i]
                                  /\ \A j \in 1 .. i - 1 : j \notin I
  <1>1. PICK n \in Nat : n = Len(s)
    BY LenProperties
  <1>. DEFINE p(m) == PickedUpTo(s, I, m)
              First(q, m) == \E i \in 1 .. m : /\ i \in I /\ q[1] = s[i]
                                               /\ \A j \in 1 .. i - 1 : j \notin I
              None(m) == \A j \in 1 .. m : j \notin I
              Good(m) == /\ p(m) \in Seq(X)
                         /\ p(m) = <<>> => None(m)
                         /\ p(m) # <<>> => First(p(m), m)
              S == {m \in Nat : m <= n => Good(m)}
  <1>2. 0 \in S
    <2>1. p(0) = <<>>
      BY UpToStart
    <2>2. p(0) \in Seq(X)
      BY <2>1, EmptySeq
    <2>. QED  BY <2>1, <2>2
  <1>3. ASSUME NEW m \in Nat, m \in S PROVE m + 1 \in S
    <2>. SUFFICES ASSUME m + 1 <= n PROVE Good(m + 1)
      OBVIOUS
    <2>. DEFINE g == p(m)
                h == p(m + 1)
    <2>1. g \in Seq(X) /\ (g = <<>> => None(m)) /\ (g # <<>> => First(g, m))
      BY <1>3
    <2>2. /\ m + 1 \in I => h = Append(g, s[m + 1])
          /\ m + 1 \notin I => h = g
      BY UpToNext
    <2>3. SUFFICES h \in Seq(X) /\ (h = <<>> => None(m + 1)) /\ (h # <<>> => First(h, m + 1))
      BY Zenon
    <2>4. PICK x \in X : x = s[m + 1]
      BY <1>1, ElementOfSeq
    <2>. HIDE DEF g, h
    <2>5. CASE m + 1 \notin I
      <3>1. h = g
        BY <2>2, <2>5
      <3>2. None(m) => None(m + 1)
        BY <2>5
      <3>3. First(g, m) => First(g, m + 1)
        OBVIOUS
      <3>. QED  BY <2>1, <3>1, <3>2, <3>3, Zenon
    <2>6. CASE m + 1 \in I
      <3>1. h = Append(g, x)
        BY <2>2, <2>4, <2>6
      <3>2. /\ h \in Seq(X) /\ Len(h) = Len(g) + 1 /\ Len(g) \in Nat /\ h # <<>>
            /\ h[Len(g) + 1] = x /\ \A i \in 1 .. Len(g) : h[i] = g[i]
        BY <2>1, <3>1, AppendProperties, LenProperties
      <3>3. CASE g = <<>>
        <4>1. h[1] = s[m + 1] /\ \A j \in 1 .. (m + 1) - 1 : j \notin I
          BY <2>1, <2>4, <3>2, <3>3
        <4>2. First(h, m + 1)
          BY <2>6, <4>1
        <4>. QED  BY <3>2, <4>2, Zenon
      <3>4. CASE g # <<>>
        <4>1. h[1] = g[1]
          BY <2>1, <3>2, <3>4, EmptySeq
        <4>2. First(h, m + 1)
          BY <2>1, <3>4, <4>1
        <4>. QED  BY <3>2, <4>2, Zenon
      <3>. QED  BY <3>3, <3>4
    <2>. QED  BY <2>5, <2>6
  <1>. HIDE DEF S
  <1>4. n \in S
    BY <1>2, <1>3, NatSetInduction
  <1>. HIDE DEF Good
  <1>5. Good(n)
    BY <1>4 DEF S
  <1>6. Picked(s, I) = p(n)
    BY <1>1, Zenon DEF Picked
  <1>. HIDE DEF p
  <1>7. First(Picked(s, I), n)
    BY <1>5, <1>6, Zenon DEF Good
  <1>. QED  BY <1>1, <1>7

\* Any other element picked comes from a place behind a chosen one.
LEMMA PickedLater ==
    ASSUME NEW X, NEW s \in Seq(X), NEW I, NEW k \in 2 .. Len(Picked(s, I))
    PROVE  \E i \in 1 .. Len(s) : /\ i \in I /\ Picked(s, I)[k] = s[i]
                                  /\ \E j \in 1 .. i - 1 : j \in I
  <1>1. PICK n \in Nat : n = Len(s)
    BY LenProperties
  <1>. DEFINE p(m) == PickedUpTo(s, I, m)
              Behind(x, m) == \E i \in 1 .. m : /\ i \in I /\ x = s[i]
                                                /\ \E j \in 1 .. i - 1 : j \in I
              Some(m) == \E j \in 1 .. m : j \in I
              Later(q, m) == \A l \in 2 .. Len(q) : Behind(q[l], m)
              Good(m) == p(m) \in Seq(X) /\ (p(m) # <<>> => Some(m)) /\ Later(p(m), m)
              S == {m \in Nat : m <= n => Good(m)}
  <1>2. 0 \in S
    <2>1. p(0) = <<>>
      BY UpToStart
    <2>2. p(0) \in Seq(X) /\ Len(p(0)) = 0
      BY <2>1, EmptySeq
    <2>. QED  BY <2>1, <2>2
  <1>3. ASSUME NEW m \in Nat, m \in S PROVE m + 1 \in S
    <2>. SUFFICES ASSUME m + 1 <= n PROVE Good(m + 1)
      OBVIOUS
    <2>. DEFINE g == p(m)
                h == p(m + 1)
    <2>1. g \in Seq(X) /\ (g # <<>> => Some(m)) /\ Later(g, m)
      BY <1>3
    <2>2. /\ m + 1 \in I => h = Append(g, s[m + 1])
          /\ m + 1 \notin I => h = g
      BY UpToNext
    <2>3. SUFFICES h \in Seq(X) /\ (h # <<>> => Some(m + 1)) /\ Later(h, m + 1)
      BY Zenon
    <2>4. PICK x \in X : x = s[m + 1]
      BY <1>1, ElementOfSeq
    <2>. HIDE DEF g, h
    <2>5. \A y : Behind(y, m) => Behind(y, m + 1)
      OBVIOUS
    <2>6. Some(m) => Some(m + 1)
      OBVIOUS
    <2>7. CASE m + 1 \notin I
      <3>1. h = g
        BY <2>2, <2>7
      <3>2. Later(g, m + 1)
        <4>. HIDE DEF Behind
        <4>. QED  BY <2>1, <2>5
      <3>. QED  BY <2>1, <2>6, <3>1, <3>2, Zenon
    <2>8. CASE m + 1 \in I
      <3>1. h = Append(g, x)
        BY <2>2, <2>4, <2>8
      <3>2. /\ h \in Seq(X) /\ Len(h) = Len(g) + 1 /\ Len(g) \in Nat
            /\ h[Len(g) + 1] = x /\ \A i \in 1 .. Len(g) : h[i] = g[i]
        BY <2>1, <3>1, AppendProperties, LenProperties
      <3>3. Some(m + 1)
        BY <2>8
      <3>4. ASSUME NEW l \in 2 .. Len(h) PROVE Behind(h[l], m + 1)
        <4>1. CASE l = Len(g) + 1
          <5>1. g # <<>>
            BY <4>1, EmptySeq
          <5>2. Some(m) /\ (m + 1) - 1 = m
            BY <2>1, <5>1
          <5>3. Behind(x, m + 1)
            BY <2>4, <2>8, <5>2
          <5>. HIDE DEF Behind
          <5>. QED  BY <3>2, <4>1, <5>3
        <4>2. CASE l \in 2 .. Len(g)
          <5>. HIDE DEF Behind
          <5>1. Behind(g[l], m + 1)
            BY <2>1, <2>5, <4>2
          <5>2. h[l] = g[l]
            BY <3>2, <4>2
          <5>. QED  BY <5>1, <5>2
        <4>3. l = Len(g) + 1 \/ l \in 2 .. Len(g)
          BY <3>2
        <4>. QED  BY <4>1, <4>2, <4>3
      <3>. HIDE DEF Behind, Some
      <3>. QED  BY <3>2, <3>3, <3>4
    <2>. QED  BY <2>7, <2>8
  <1>. HIDE DEF S
  <1>4. n \in S
    BY <1>2, <1>3, NatSetInduction
  <1>. HIDE DEF Good
  <1>5. Good(n)
    BY <1>4 DEF S
  <1>6. Picked(s, I) = p(n)
    BY <1>1, Zenon DEF Picked
  <1>. HIDE DEF p
  <1>7. Later(Picked(s, I), n)
    BY <1>5, <1>6, Zenon DEF Good
  <1>. QED  BY <1>1, <1>7

=============================================================================
