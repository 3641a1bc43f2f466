--------------------------- MODULE MCPolledTimer ---------------------------
(* A small instance of PolledTimer: wakeups past and to come. *)
EXTENDS PolledTimer

SomeWakeups == {0, 1, 4}
SomeDurations == {0, 2, 3}
=============================================================================
