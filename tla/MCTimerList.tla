---------------------------- MODULE MCTimerList ----------------------------
(* Timers of equal and different wakeups, with and without periods. *)
EXTENDS TimerList

SomeTimers == {Constructed(w, p) : w \in {1, 2}, p \in Optional({1, 2})}
=============================================================================
