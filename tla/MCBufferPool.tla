---------------------------- MODULE MCBufferPool ----------------------------
(***************************************************************************)
(* BufferPool for TLC: three goroutines share a pool, so that two of them  *)
(* can pass the size check together while a third holds a buffer.          *)
(***************************************************************************)
EXTENDS BufferPool

CONSTANTS g1, g2, g3

MCProcs == {g1, g2, g3}

=============================================================================
