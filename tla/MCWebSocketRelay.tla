-------------------------- MODULE MCWebSocketRelay --------------------------
(* Small instances of WebSocketRelay for TLC.                              *)
EXTENDS WebSocketRelay
=============================================================================
