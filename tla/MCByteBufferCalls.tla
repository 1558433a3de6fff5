-------------------------- MODULE MCByteBufferCalls --------------------------
(* The calls of one ByteBuffer whose uint32_t is three bits wide, so that      *)
(* every combination of cursor, index and length that wraps is reached.        *)
EXTENDS ByteBufferCalls
=============================================================================
