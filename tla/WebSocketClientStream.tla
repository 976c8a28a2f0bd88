------------------------- MODULE WebSocketClientStream -----------------------
(***************************************************************************)
(* WebSocketClient as an implementation of FrameStream.                    *)
(***************************************************************************)
EXTENDS WebSocketClient

Stream == INSTANCE FrameStream WITH Item <- Items, answer <- returned

\* receive() hands out the items of the connection in order, each once, and
\* times out only when none is left (WebSocketClient.cpp:140-188, 235-257).
ImplementsStream == Stream!Spec
=============================================================================
