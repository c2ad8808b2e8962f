--------------------------- MODULE MCFrameReader ---------------------------
(* FrameReader with payloads that look like headers. *)
EXTENDS FrameReader

\* Empty, as long as allowed, and too long.
SmallLetters ==
    {[type |-> 0, payload |-> <<>>], [type |-> 1, payload |-> <<2>>],
     [type |-> 0, payload |-> <<1>>], [type |-> 2, payload |-> <<0, 1>>]}
=============================================================================
