--------------------------- MODULE ControlClient ----------------------------
(***************************************************************************)
(* What the two clients of the repository have in common: a program that   *)
(* talks on Control in lock step with the server of Session, writing a     *)
(* frame, reading the next one, and giving up at the first one it does not *)
(* expect.  TestClient (crates/openrd-test-client) and WebClient           *)
(* (web/client.js) say what each of them writes and expects.               *)
(***************************************************************************)
EXTENDS Session

VARIABLES
    pc,         \* where the client program is
    heard,      \* how many frames it has read on Control
    secret,     \* the credential its user typed
    cut         \* the network failed under the connection

programVars == <<pc, heard, secret, cut>>

Hello == [type |-> "ClientHello", version |-> 0, caps |-> "common"]
PinRequest == [type |-> "AuthRequest", method |-> "pin", cred |-> secret]

ProgramInit ==
    /\ Init
    /\ pc = "hello"
    /\ heard = 0
    /\ secret \in Credentials
    /\ cut = FALSE

\* A frame written on Control.
Say(frame, from, to) ==
    /\ pc = from /\ connected
    /\ fromClient' = Append(fromClient, frame)
    /\ pc' = to
    /\ UNCHANGED <<connected, finished, streams, serverVars, heard, secret, cut>>

\* A frame has arrived on Control, and which one.
Spoken == heard < Len(toClient)
Heard == toClient[heard + 1]

\* Mutant: a frame read and dropped behind the one looked at.
HearAndSkip(expected, from, to) ==
    /\ pc = from /\ Spoken /\ expected
    /\ heard' = heard + 2
    /\ pc' = to
    /\ UNCHANGED <<vars, secret, cut>>

\* The next frame on Control is the one expected.
Hear(expected, from, to) ==
    /\ pc = from /\ Spoken /\ expected
    /\ heard' = heard + 1
    /\ pc' = to
    /\ UNCHANGED <<vars, secret, cut>>

\* The next frame on Control is not the one expected.
Unexpected(expected, from) == pc = from /\ Spoken /\ ~expected

\* No frame will come: the server's task has dropped Control, which ends it,
\* or the connection is gone.
Silence == ~connected \/ (Over /\ ~Spoken)

\* The answers both clients look for.
IsServerHello == Heard.type = "ServerHello"
IsAdmission == Heard.type = "AuthResult" /\ Heard.status = "OK"
IsGrant == Heard.type = "OpenChannelAck" /\ Heard.status = "OK"

\* The server's tasks, which leave the program alone.
Server ==
    /\ SessionTask \/ \E h \in DOMAIN handlers : ChannelTask(h)
    /\ UNCHANGED programVars

\* Once its session task and its channel tasks have returned, nothing in the
\* server holds the connection, and it is closed.
ServerDropsConnection ==
    /\ Over /\ \A h \in DOMAIN handlers : ~Running(h)
    /\ ConnectionLost
    /\ UNCHANGED programVars

\* Idle timeout, network failure: at any time, once.
NetworkFails ==
    /\ ConnectionLost
    /\ cut' = TRUE
    /\ UNCHANGED <<pc, heard, secret>>

=============================================================================
