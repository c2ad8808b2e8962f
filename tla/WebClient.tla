----------------------------- MODULE WebClient ------------------------------
(***************************************************************************)
(* The web client (web/client.js, the handler of the `go' button) against  *)
(* the server of Session: hello, PIN, OpenChannel(Input), its ack, the     *)
(* Input stream and a few events on it, the close.                         *)
(***************************************************************************)
EXTENDS ControlClient

webVars == <<vars, programVars>>

WebInit == ProgramInit

\* The next frame must be the ack: the program reads no announcement.  The stream
\* id it writes, 2, is of no stream it opens.
Conversation ==
    \/ Say(Hello, "hello", "helloSent")
    \/ Hear(IsServerHello, "helloSent", "auth")
    \/ Say(PinRequest, "auth", "authSent")
    \/ Hear(IsAdmission, "authSent", "open")
    \/ Say([type |-> "OpenChannel", kind |-> "INPUT", id |-> 1, stream |-> 0],
           "open", "openSent")
    \/ Hear(IsGrant, "openSent", "input")

\* The uni stream, the three events written on it, and its close.
SendInput ==
    /\ pc = "input" /\ connected
    /\ streams' = Append(streams, [dir |-> "uni", sent |-> <<"note">>, fin |-> TRUE])
    /\ pc' = "close"
    /\ UNCHANGED <<connected, fromClient, finished, serverVars, heard, secret, cut>>

WebClose ==
    /\ pc = "close"
    /\ connected' = FALSE
    /\ pc' = "done"
    /\ UNCHANGED <<clientVars, serverVars, heard, secret, cut>>

\* The handler returns, or throws: neither closes the WebTransport session.
WebGiveUp ==
    /\ \/ Unexpected(IsServerHello, "helloSent")
       \/ Unexpected(IsAdmission, "authSent")
       \/ Unexpected(IsGrant, "openSent")
       \/ Silence /\ pc \in {"helloSent", "authSent", "openSent"}
       \/ ~connected /\ pc \in {"hello", "auth", "open", "input"}
    /\ pc' = "failed"
    /\ UNCHANGED <<vars, heard, secret, cut>>

WebProgram == Conversation \/ SendInput \/ WebClose \/ WebGiveUp

WebNext == WebProgram \/ Server \/ ServerDropsConnection \/ NetworkFails

WebSpec ==
    /\ WebInit /\ [][WebNext]_webVars
    /\ WF_webVars(Server) /\ WF_webVars(WebProgram)

-----------------------------------------------------------------------------

\* What client.js:3-7 and web/README.md say: the web client runs the same flow
\* as openrd-test-client, through OpenChannel(Input), its ack and the Input
\* stream.  With the right PIN and a network that stays up it would get there.
WebFlowReachesInput == ([]~cut) => (secret = Pin ~> pc = "done")

=============================================================================
