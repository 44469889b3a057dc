------------------------------ MODULE MCGateway ------------------------------
(***************************************************************************)
(* Three requests compete for one slot: two streams and a JSON chat, or    *)
(* one of each with a status request, which is retried; or two chats share *)
(* a WebSocket connection while an index job is requested.                 *)
(***************************************************************************)
EXTENDS Gateway, TLC

CONSTANTS r1, r2, r3, c1, none

Asks(kind, tool, connection) == [kind |-> kind, tool |-> tool, connection |-> connection]
Post == Asks("post", "chat", none)
Stream == Asks("stream", "chat", none)
WebSocket == Asks("ws", "chat", c1)
Index == Asks("api", "index_repository", none)
Status == Asks("api", "get_index_status", none)

Load(a, b, c) == r1 :> a @@ r2 :> b @@ r3 :> c
MCLoads == {Load(Stream, Stream, Post), Load(Stream, Post, Status),
            Load(WebSocket, WebSocket, Index)}
MCWebSocketLoads == {Load(WebSocket, WebSocket, Post)}
==============================================================================
