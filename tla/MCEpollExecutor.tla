-------------------------- MODULE MCEpollExecutor --------------------------
(* Two handles, and a buffer of one event, so that the second has to wait; *)
(* an int of at most 7, and the first timeout that does not fit it.        *)
EXTENDS EpollExecutor

SomeTimeouts == {-1, 0, 7, 8}
NoTimeouts == {}
=============================================================================
