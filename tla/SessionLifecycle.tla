-------------------------- MODULE SessionLifecycle --------------------------
(***************************************************************************)
(* What one OpenRD session promises, without saying how: it greets, it     *)
(* authenticates, only then it opens channels, and it closes in order only *)
(* when no channel is being served any more.  An abort (an error on the    *)
(* Control stream) ends the session and leaves the channels behind.        *)
(*                                                                         *)
(* The states HELLO, AUTH and READY are the ones control.rs walks through; *)
(* CLOSING is the time between the end of the Control stream and the       *)
(* return of handle_control_stream, CLOSED its return with Ok, ABORTED its *)
(* return with Err.                                                        *)
(***************************************************************************)
EXTENDS Naturals

VARIABLES
    state,      \* where the session is
    opened,     \* how many channels were ever opened
    live        \* the numbers of the channels still being served

vars == <<state, opened, live>>

States == {"HELLO", "AUTH", "READY", "CLOSING", "CLOSED", "ABORTED"}

Final == {"CLOSED", "ABORTED"}

TypeOK ==
    /\ state \in States
    /\ opened \in Nat
    /\ live \subseteq 1 .. opened

Init ==
    /\ state = "HELLO"
    /\ opened = 0
    /\ live = {}

Greet ==
    /\ state = "HELLO"
    /\ state' = "AUTH"
    /\ UNCHANGED <<opened, live>>

Admit ==
    /\ state = "AUTH"
    /\ state' = "READY"
    /\ UNCHANGED <<opened, live>>

Refuse ==
    /\ state = "AUTH"
    /\ state' = "CLOSED"
    /\ UNCHANGED <<opened, live>>

Open ==
    /\ state = "READY"
    /\ opened' = opened + 1
    /\ live' = live \cup {opened + 1}
    /\ UNCHANGED state

\* A channel may end at any time, after the session too: its task is not
\* cancelled when the session aborts.
EndChannel(c) ==
    /\ c \in live
    /\ live' = live \ {c}
    /\ UNCHANGED <<state, opened>>

BeginClose ==
    /\ state = "READY"
    /\ state' = "CLOSING"
    /\ UNCHANGED <<opened, live>>

FinishClose ==
    /\ state = "CLOSING"
    /\ live = {}
    /\ state' = "CLOSED"
    /\ UNCHANGED <<opened, live>>

Abort ==
    /\ state \in {"HELLO", "AUTH", "READY"}
    /\ state' = "ABORTED"
    /\ UNCHANGED <<opened, live>>

Next ==
    \/ Greet \/ Admit \/ Refuse \/ Open
    \/ \E c \in live : EndChannel(c)
    \/ BeginClose \/ FinishClose \/ Abort

Spec == Init /\ [][Next]_vars

-----------------------------------------------------------------------------

\* A session that closed in order has no channel left: what the loop over
\* the join handles at the end of handle_control_stream is for.
ClosedIsQuiet == state = "CLOSED" => live = {}

\* No channel is ever opened before the session is READY.
OpenedOnlyWhenReady == state \in {"HELLO", "AUTH"} => opened = 0

=============================================================================
