---------------------------- MODULE Negotiation ----------------------------
(***************************************************************************)
(* Capability negotiation (crates/openrd-proto/src/capabilities.rs): each  *)
(* peer puts its capabilities in its hello, and each works out by itself   *)
(* the profile of the session from its own and from those it has read.     *)
(*                                                                         *)
(* One capability stands for all that are treated alike: "types" for       *)
(* clipboard_types and transport_features, "fps" for the resolution and    *)
(* every other u32 limit, "size" for the one u64 limit.                    *)
(***************************************************************************)
EXTENDS Integers, SequencesExt, SequencePicks

CONSTANTS
    U32,            \* the values of a u32 are 0 .. U32 - 1
    Default,        \* Capabilities::default()
    Variants(_),    \* other values a peer may have for a capability
    RawVariants(_)  \* values no peer of this code writes, as CBOR gives them

Keys == {"versions", "profile", "auth", "codecs", "audio", "types", "fps", "size", "chunk", "chat"}

\* "junk" stands for what is no text where a text should be.
Texts == STRING \ {"junk"}

Capabilities ==
    [versions : Seq(0 .. U32 - 1), profile : {"v0-base"}, auth : Seq(Texts),
     codecs : Seq(Texts), audio : Seq(Texts), types : Seq(Texts), fps : 0 .. U32 - 1,
     size : Nat, chunk : (0 .. U32 - 1) \X (0 .. U32 - 1), chat : BOOLEAN]

ASSUME CapabilitiesAssumption ==
    /\ U32 \in Nat \ {0}
    /\ Default \in Capabilities

VARIABLES
    program,    \* the client is "rust" (the test client) or "foreign"
    clientCaps, \* what the client supports
    serverCaps, \* what the server supports
    clientHello, serverHello,   \* the capability maps in the two hellos
    clientView, serverView,     \* the result of negotiate on each side
    phase       \* "hello", "answered", then the client goes on ("authing") or stops

vars == <<program, clientCaps, serverCaps, clientHello, serverHello, clientView, serverView, phase>>

-----------------------------------------------------------------------------
(* A capability map: the keys it has, those whose value is of another CBOR
   type, and the values.  A negative number stands for what is no u64. *)

CapabilityMaps ==
    [has : SUBSET Keys, junk : SUBSET Keys,
     val : [versions : Seq(Int), profile : {"v0-base"}, auth : Seq(STRING), codecs : Seq(STRING),
            audio : Seq(STRING), types : Seq(STRING), fps : Int, size : Int, chunk : Seq(Int),
            chat : BOOLEAN]]

ToCbor(c) == [has |-> Keys, junk |-> {}, val |-> c]

Usable(w, k) == k \in w.has /\ k \notin w.junk

IsU64(n) == n >= 0

\* The elements of a list that are of the type looked for.
TextsOf(list) == Picked(list, {i \in DOMAIN list : list[i] # "junk"})
NumbersOf(list) == Picked(list, {i \in DOMAIN list : IsU64(list[i])})

\* Mutant: an empty list is taken for a missing one.
ReadTextsEmptyAsMissing(w, k) ==
    IF k \notin w.has \/ (k \notin w.junk /\ TextsOf(w.val[k]) = <<>>) THEN Default[k]
    ELSE IF k \in w.junk THEN <<>>
    ELSE TextsOf(w.val[k])

ReadTexts(w, k) ==
    IF k \notin w.has THEN Default[k]
    ELSE IF k \in w.junk THEN <<>>
    ELSE TextsOf(w.val[k])

ReadVersions(w, k) ==
    IF k \notin w.has THEN Default[k]
    ELSE IF k \in w.junk THEN <<>>
    ELSE LET numbers == NumbersOf(w.val[k])
         IN [i \in DOMAIN numbers |-> numbers[i] % U32]

ReadNumber(w, k) == IF Usable(w, k) /\ IsU64(w.val[k]) THEN w.val[k] ELSE Default[k]

\* Mutant: the two numbers are stored at their full width.
ReadPairUncut(w, k) ==
    IF Usable(w, k) /\ Len(w.val[k]) = 2 /\ \A i \in 1 .. 2 : IsU64(w.val[k][i])
    THEN w.val[k]
    ELSE Default[k]

ReadPair(w, k) ==
    IF Usable(w, k) /\ Len(w.val[k]) = 2 /\ \A i \in 1 .. 2 : IsU64(w.val[k][i])
    THEN <<w.val[k][1] % U32, w.val[k][2] % U32>>
    ELSE Default[k]

ReadOther(w, k) == IF Usable(w, k) THEN w.val[k] ELSE Default[k]

\* Missing keys keep the default, a list of another type is empty, a number or
\* a pair of another type keeps the default, and u32s are cut to their width.
FromCbor(w) ==
    [versions |-> ReadVersions(w, "versions"),
     profile |-> ReadOther(w, "profile"),
     auth |-> ReadTexts(w, "auth"), codecs |-> ReadTexts(w, "codecs"),
     audio |-> ReadTexts(w, "audio"), types |-> ReadTexts(w, "types"),
     fps |-> ReadNumber(w, "fps") % U32, size |-> ReadNumber(w, "size"),
     chunk |-> ReadPair(w, "chunk"), chat |-> ReadOther(w, "chat")]

-----------------------------------------------------------------------------
(* NegotiatedProfile::negotiate. *)

Larger(m, n) == IF m >= n THEN m ELSE n
Smaller(m, n) == IF m <= n THEN m ELSE n

\* The elements of a list the other side has too, in the list's order.
Shared(list, other) == Picked(list, {i \in DOMAIN list : Contains(other, list[i])})

\* The first of them, None when there is none.
FirstShared(list, other) ==
    IF Shared(list, other) = <<>> THEN "None" ELSE Head(Shared(list, other))

ProfileOf(c, s) ==
    [error |-> "none",
     version |-> Max(ToSet(Shared(c.versions, s.versions))),
     profile |-> s.profile,
     auth |-> Shared(s.auth, c.auth),
     codec |-> FirstShared(c.codecs, s.codecs),
     audio |-> FirstShared(c.audio, s.audio),
     types |-> Shared(s.types, c.types),
     fps |-> Smaller(c.fps, s.fps),
     size |-> Smaller(c.size, s.size),
     chunk |-> <<Larger(c.chunk[1], s.chunk[1]), Smaller(c.chunk[2], s.chunk[2])>>,
     chat |-> c.chat /\ s.chat]

\* Mutant: the limits of the range are taken the other way round.
NegotiateWideRange(c, s) ==
    IF Shared(c.versions, s.versions) = <<>> THEN [error |-> "NoVersionOverlap"]
    ELSE IF Shared(s.auth, c.auth) = <<>> THEN [error |-> "NoAuthMethod"]
    ELSE IF Shared(c.codecs, s.codecs) = <<>> THEN [error |-> "NoDisplayCodec"]
    ELSE [ProfileOf(c, s) EXCEPT
            !.chunk = <<Smaller(c.chunk[1], s.chunk[1]), Larger(c.chunk[2], s.chunk[2])>>]

Negotiate(c, s) ==
    IF Shared(c.versions, s.versions) = <<>> THEN [error |-> "NoVersionOverlap"]
    ELSE IF Shared(s.auth, c.auth) = <<>> THEN [error |-> "NoAuthMethod"]
    ELSE IF Shared(c.codecs, s.codecs) = <<>> THEN [error |-> "NoDisplayCodec"]
    ELSE ProfileOf(c, s)

-----------------------------------------------------------------------------
(* The two peers. *)

\* The peers considered differ from the default in at most two capabilities,
\* the least in which an order between two checks or a mix-up of two keys shows.
Near(c) == UNION {{[c EXCEPT ![k] = v] : v \in Variants(k)} : k \in Keys}
Peers == {Default} \union UNION {Near(c) : c \in {Default} \union Near(Default)}

\* The map of a client of another make: one key missing, of another type, or
\* with a value this code does not write, on a client that differs in one more.
ForeignHellos ==
    LET Around(c) ==
            {[ToCbor(c) EXCEPT !.has = Keys \ {k}] : k \in Keys}
            \union {[ToCbor(c) EXCEPT !.junk = {k}] : k \in Keys}
            \union UNION {{ToCbor([c EXCEPT ![k] = v]) : v \in RawVariants(k)} : k \in Keys}
    IN UNION {Around(c) : c \in {Default} \union Near(Default)}

\* The variants of a capability are of its type, and the raw ones of the type CBOR gives it.
ASSUME VariantsAssumption ==
    /\ Near(Default) \subseteq Capabilities /\ Peers \subseteq Capabilities
    /\ ForeignHellos \subseteq CapabilityMaps

TypeOK ==
    /\ program \in {"rust", "foreign"}
    /\ clientCaps \in Capabilities /\ serverCaps \in Capabilities
    /\ clientHello \in CapabilityMaps /\ serverHello \in CapabilityMaps
    /\ phase \in {"hello", "answered", "authing", "stopped"}
    /\ FromCbor(clientHello) \in Capabilities

NotYet == [error |-> "pending"]
NoHello == [has |-> {}, junk |-> {}, val |-> Default]

Init ==
    /\ \/ /\ program = "rust" /\ clientCaps \in Peers
          /\ clientHello = ToCbor(clientCaps)
       \/ /\ program = "foreign" /\ clientCaps = Default
          /\ clientHello \in ForeignHellos
    /\ serverCaps \in {Default} \union Near(Default)
    /\ serverHello = NoHello
    /\ clientView = NotYet /\ serverView = NotYet
    /\ phase = "hello"

\* Mutant: the server passes the two sides the wrong way round.
HelloExchangeSwapped ==
    /\ phase = "hello"
    /\ serverView' = Negotiate(serverCaps, FromCbor(clientHello))
    /\ serverHello' = ToCbor(serverCaps)
    /\ phase' = "answered"
    /\ UNCHANGED <<program, clientCaps, serverCaps, clientHello, clientView>>

\* hello_exchange: a failure is logged, and the hello is answered all the same
\* with everything the server supports.
HelloExchange ==
    /\ phase = "hello"
    /\ serverView' = Negotiate(FromCbor(clientHello), serverCaps)
    /\ serverHello' = ToCbor(serverCaps)
    /\ phase' = "answered"
    /\ UNCHANGED <<program, clientCaps, serverCaps, clientHello, clientView>>

\* The test client bails when it finds no profile; another client may do as it
\* likes.
ClientNegotiates ==
    /\ phase = "answered" /\ program = "rust"
    /\ clientView' = Negotiate(clientCaps, FromCbor(serverHello))
    /\ phase' = IF clientView'.error = "none" THEN "authing" ELSE "stopped"
    /\ UNCHANGED <<program, clientCaps, serverCaps, clientHello, serverHello, serverView>>

ForeignClientGoesOn ==
    /\ phase = "answered" /\ program = "foreign"
    /\ phase' \in {"authing", "stopped"}
    /\ UNCHANGED <<program, clientCaps, serverCaps, clientHello, serverHello, clientView, serverView>>

Next == HelloExchange \/ ClientNegotiates \/ ForeignClientGoesOn

Spec == Init /\ [][Next]_vars

-----------------------------------------------------------------------------
(* Properties. *)

\* The profile is never sent: each side computes it from a copy of the other's
\* capabilities that went through CBOR.  They must come to the same one, or fail
\* for the same reason, whatever the two support (control.rs:219-228,
\* crates/openrd-test-client/src/main.rs:59-62).
BothSidesAgree ==
    phase \in {"authing", "stopped"} /\ program = "rust" => clientView = serverView

\* A profile gives the session nothing one side does not have, and no limit above
\* either side's; the common part of the chunk sizes is exactly what both
\* accept, even when that is nothing; the server's order of authentication
\* methods stands (capabilities.rs:176-247).
NothingBeyondEitherSide ==
    LET c == FromCbor(clientHello)
        s == serverCaps
        p == serverView
    IN p.error = "none" =>
        /\ \A side \in {c, s} :
             /\ p.version \in ToSet(side.versions) /\ p.codec \in ToSet(side.codecs)
             /\ p.audio \in ToSet(side.audio) \union {"None"}
             /\ ToSet(p.auth) \subseteq ToSet(side.auth)
             /\ ToSet(p.types) \subseteq ToSet(side.types)
             /\ p.fps <= side.fps /\ p.size <= side.size
             /\ p.chat => side.chat
        /\ p.chunk[1] .. p.chunk[2] = (c.chunk[1] .. c.chunk[2]) \intersect (s.chunk[1] .. s.chunk[2])
        /\ \E i \in DOMAIN s.auth :
             /\ s.auth[i] = Head(p.auth)
             /\ \A j \in 1 .. i - 1 : ~Contains(c.auth, s.auth[j])

\* What a client wrote is what the server weighs: from a key that is there and
\* of the right type, a profile takes only what stands in it, and never falls
\* back on the server's own default (capabilities.rs:94-142).  Versions above
\* 2^32 - 1, which the code cuts to 32 bits, are left out.
OffersAreTheClients ==
    LET w == clientHello
        p == serverView
        Offered(k, x) == Usable(w, k) => Contains(w.val[k], x)
    IN p.error = "none" =>
        /\ (\A n \in ToSet(w.val.versions) : n < U32) => Offered("versions", p.version)
        /\ Offered("codecs", p.codec)
        /\ p.audio = "None" \/ Offered("audio", p.audio)
        /\ \A m \in ToSet(p.auth) : Offered("auth", m)
        /\ \A m \in ToSet(p.types) : Offered("types", m)
        /\ Usable(w, "chat") /\ p.chat => w.val.chat
=============================================================================
