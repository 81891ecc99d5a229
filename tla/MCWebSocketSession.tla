------------------------- MODULE MCWebSocketSession -------------------------
(* WebSocketSession for TLC: two ids, the default limit of one.            *)
EXTENDS WebSocketSession
=============================================================================
