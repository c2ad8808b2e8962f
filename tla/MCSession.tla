----------------------------- MODULE MCSession ------------------------------
(***************************************************************************)
(* Small instances of Session for TLC: the values of its constants.        *)
(***************************************************************************)
EXTENDS Session

\* Every frame: what the handshake must tell apart.  The stream an OpenChannel names
\* is looked at by nobody.
AnyFrame == {f \in ClientFrame : f.type = "OpenChannel" => f.stream = 0}

AnyLetter == ChannelFrame

\* A frame is taken or it kills its handler; "ask" is a note to an Input handler.
TwoLetters == {"ask", "bad"}

\* Where the end of a handler does not matter: TaskBroken may end it anyway.
OneLetter == {"ask"}

\* The handshake that succeeds, and one of a client that has nothing in common
\* with the server.
Hello == [type |-> "ClientHello", version |-> 0, caps |-> "common"]
AlienHello == [type |-> "ClientHello", version |-> 0, caps |-> "none"]
PinAuth == [type |-> "AuthRequest", method |-> "pin", cred |-> Pin]

AlienFrames == {AlienHello, PinAuth}

\* Only what an admitted client needs to open channels.  INPUT and FILE have one id,
\* CHAT and AUDIO another: the pairs that differ in their answer (AUDIO is refused),
\* or in direction, include some that differ in id, so no answer passes for another's.
IdOf(kind) == IF kind \in {"INPUT", "FILE"} THEN 1 ELSE 2
Open(kind, stream) ==
    [type |-> "OpenChannel", kind |-> kind, id |-> IdOf(kind), stream |-> stream]

OpeningFrames == {Hello, PinAuth} \cup {Open(kind, 0) : kind \in ClientKinds}

\* The same, of a client that names the streams it opened.
NamingFrames ==
    {Hello, PinAuth} \cup {Open(kind, s) : kind \in ClientKinds, s \in 1 .. MaxStreams}

=============================================================================
