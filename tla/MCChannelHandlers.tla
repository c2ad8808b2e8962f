------------------------- MODULE MCChannelHandlers -------------------------
(* ChannelHandlers with widths of two and three bits. *)
EXTENDS ChannelHandlers

Frame0(type) == [type |-> type]
Chunk(t, n) == [type |-> "Chunk", transfer |-> t, file |-> 0, chunk |-> n]
Manifest(t) == [type |-> "Manifest", transfer |-> t]
Message(id, ts) == [type |-> "ChatMessage", id |-> id, ts |-> ts]
Request(id, mime) == [type |-> "RequestContent", id |-> id, mime |-> mime]
Content(preview) == [type |-> "Content", preview |-> preview]
Text(claimed, present, utf8) ==
    [type |-> "TextInput", claimed |-> claimed, present |-> present, utf8 |-> utf8]
Await(type) == [type |-> "await", expect |-> type]
Fin == [type |-> "fin"]

\* A transfer id above 32 bits that collides with another one, ids that wrap.
SmallAlphabet(k) ==
    {Frame0("Undecodable")} \union
    CASE k = "INPUT" -> {Frame0("KeyEvent"), Frame0("ShortKeyEvent"), Text(1, 1, TRUE),
                         Text(1, 2, TRUE), Text(2, 1, TRUE), Text(3, 3, TRUE), Text(1, 1, FALSE)}
      [] k = "CLIPBOARD" -> {Frame0("OfferTypes"), Request(1, "text/plain"), Request(2, "image/png"),
                             Content("short"), Content("cuts a character")}
      [] k = "CHAT" -> {Frame0("TypingIndicator"), Message(0, 0), Message(3, 7), Message(6, 0)}
      [] k = "FILE" -> {Manifest(1), Manifest(5), Chunk(1, 0), Chunk(1, 1), Chunk(2, 0),
                        Frame0("ShortChunk"), Frame0("EndTransfer"), Frame0("CancelTransfer")}

\* The test client's exercise of each kind, and a client that asks as far ahead as
\* it can without reading: one question in either window and one in the handler.
SmallScripts(k) ==
    CASE k = "INPUT" -> {<<Frame0("KeyEvent"), Frame0("KeyEvent"), Text(2, 2, TRUE), Fin>>}
      [] k = "CLIPBOARD" -> {<<Frame0("OfferTypes"), Request(2, "text/plain"), Await("Content"),
                               Content("short"), Fin>>}
      [] k = "CHAT" -> {<<Frame0("TypingIndicator"), Message(1, 0), Await("ChatMessage"),
                          Frame0("TypingIndicator"), Fin>>}
      [] k = "FILE" -> {<<Manifest(1), Chunk(1, 0), Await("AckChunk"), Frame0("EndTransfer"), Fin>>,
                        <<Manifest(1), Chunk(1, 0), Chunk(1, 1), Chunk(1, 2), Await("AckChunk"),
                          Await("AckChunk"), Await("AckChunk"), Frame0("EndTransfer"), Fin>>}
=============================================================================
