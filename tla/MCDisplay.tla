------------------------------ MODULE MCDisplay ------------------------------
(* Display with a small u8, so that pictures of more units than it counts are
   small too. *)
EXTENDS Display

\* None, one, as many as u8 counts, one more, and so many that the index wraps.
SmallCounts == {0, 1, 3, 4, 5}
=============================================================================
