--------------------------- MODULE MCNegotiation ---------------------------
(* Negotiation with short lists and u32s of two bits. *)
EXTENDS Negotiation

DefaultCaps ==
    [versions |-> <<0>>, profile |-> "v0-base", auth |-> <<"pin", "token">>,
     codecs |-> <<"h264">>, audio |-> <<"opus">>, types |-> <<"text", "png">>,
     fps |-> 2, size |-> 5, chunk |-> <<1, 2>>, chat |-> TRUE]

\* No overlap, part of it, more than the default, another order.
SmallVariants(k) ==
    CASE k = "versions" -> {<<1>>, <<0, 1>>, <<>>}
      [] k = "auth" -> {<<"token", "pin">>, <<"pin">>, <<"oidc">>}
      [] k = "codecs" -> {<<"av1">>, <<"av1", "h264">>, <<"h264", "av1">>}
      [] k = "audio" -> {<<>>, <<"aac", "opus">>, <<"opus", "aac">>}
      [] k = "types" -> {<<"png", "text">>, <<"html">>}
      [] k = "fps" -> {1, 3}
      [] k = "size" -> {4, 6}
      [] k = "chunk" -> {<<0, 1>>, <<2, 3>>, <<3, 3>>}
      [] k = "chat" -> {FALSE}
      [] OTHER -> {}

\* Not a u64, above u32, elements of another type, a list too short.
SmallRawVariants(k) ==
    CASE k = "versions" -> {<<-1, 0>>, <<4>>, <<5, 0>>}
      [] k \in {"auth", "codecs", "audio", "types"} -> {<<"junk">>, <<"junk", "pin", "h264">>}
      [] k \in {"fps", "size"} -> {-1, 4, 7}
      [] k = "chunk" -> {<<1>>, <<-1, 2>>, <<4, 6>>}
      [] OTHER -> {}
=============================================================================
