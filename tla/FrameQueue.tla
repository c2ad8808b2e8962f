----------------------------- MODULE FrameQueue -----------------------------
(***************************************************************************)
(* What a frame reader promises its caller: the frames its peer has sent,  *)
(* in order, each once, none made up, and an end only after the last one.  *)
(* FrameReader refines it.                                                 *)
(***************************************************************************)
EXTENDS Naturals, Sequences

CONSTANT Frames     \* the frames a peer may send

VARIABLES
    sent,       \* the frames the peer has sent
    closed,     \* the peer sends no more
    delivered,  \* the frames the caller was given
    outcome     \* "reading", "ended" or "failed"

queueVars == <<sent, closed, delivered, outcome>>

Init ==
    /\ sent = <<>> /\ delivered = <<>>
    /\ closed = FALSE
    /\ outcome = "reading"

Send ==
    /\ ~closed
    /\ \E f \in Frames : sent' = Append(sent, f)
    /\ UNCHANGED <<closed, delivered, outcome>>

Close ==
    /\ ~closed /\ closed' = TRUE
    /\ UNCHANGED <<sent, delivered, outcome>>

Deliver ==
    /\ outcome = "reading" /\ Len(delivered) < Len(sent)
    /\ delivered' = Append(delivered, sent[Len(delivered) + 1])
    /\ UNCHANGED <<sent, closed, outcome>>

End ==
    /\ outcome = "reading" /\ closed /\ delivered = sent
    /\ outcome' = "ended"
    /\ UNCHANGED <<sent, closed, delivered>>

\* What made it fail is said by FrameReader.
Fail ==
    /\ outcome = "reading"
    /\ outcome' = "failed"
    /\ UNCHANGED <<sent, closed, delivered>>

Next == Send \/ Close \/ Deliver \/ End \/ Fail

Spec == Init /\ [][Next]_queueVars
=============================================================================
