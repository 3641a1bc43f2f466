--------------------------- MODULE MCBufferQueue ---------------------------
(***************************************************************************)
(* Small instances of BufferQueue.  The calls mix single buffers, empty    *)
(* buffers, multi-buffers, and a multi-buffer of no buffers at all: a push *)
(* that adds a callback but no buffer.                                     *)
(***************************************************************************)
EXTENDS BufferQueue

MixedCalls == {<<0>>, <<1>>, <<2>>, <<>>, <<1, 2>>, <<2, 0>>}
FewCalls == {<<0>>, <<2>>, <<1, 1>>}
=============================================================================
