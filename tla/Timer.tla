------------------------------- MODULE Timer -------------------------------
(***************************************************************************)
(* The values of n3::Timer (src/timer_list.h) and its member functions, as *)
(* functions of such a value.  Nothing runs when the time comes: update()  *)
(* is called by is_active() and has_elapsed(), so what a timer does        *)
(* depends on when it is asked (module PolledTimer).                       *)
(*                                                                         *)
(* std::optional<Duration> is a set of at most one duration.               *)
(***************************************************************************)
EXTENDS Integers

nullopt == {}
Optional(S) == {p \in SUBSET S : \A d, e \in p : d = e}
value(opt) == CHOOSE d \in opt : TRUE

TimerType ==
  [next_wakeup : Int, period : Optional(Nat), active : BOOLEAN, fired : BOOLEAN]

Elapsed_repeating_only(t, now) == t.active /\ now >= t.next_wakeup /\ t.period # nullopt
Elapsed(t, now) == t.active /\ now >= t.next_wakeup

\* update() sets a timer with a period again whether it had elapsed or not.
Deadline_kept_until_elapsed(t, now) ==
  IF t.period = nullopt \/ now < t.next_wakeup
  THEN t.next_wakeup
  ELSE now + value(t.period)

Deadline_from_old_wakeup(t, now) ==
  IF t.period = nullopt THEN t.next_wakeup ELSE t.next_wakeup + value(t.period)

Deadline(t, now) ==
  IF t.period = nullopt THEN t.next_wakeup ELSE now + value(t.period)

StaysActive_always(t, now) == TRUE
StaysActive(t, now) == t.period # nullopt \/ ~Elapsed(t, now)

update(t, now) ==
  IF ~t.active THEN t
  ELSE [next_wakeup |-> Deadline(t, now),
        period |-> t.period,
        active |-> StaysActive(t, now),
        fired |-> t.fired \/ Elapsed(t, now)]

\* Timer(wakeup, interval); Timer(interval) is Constructed(now + d, {d}).
Constructed(wakeup, period) ==
  [next_wakeup |-> wakeup, period |-> period, active |-> TRUE, fired |-> FALSE]

\* Timer() leaves active and fired uninitialised.
Uninitialised ==
  [next_wakeup : {0}, period : {nullopt}, active : BOOLEAN, fired : BOOLEAN]

\* operator<=> as a strict order: the earlier wakeup, then the shorter
\* period, no period being the shortest.
Less(a, b) ==
  \/ a.next_wakeup < b.next_wakeup
  \/ /\ a.next_wakeup = b.next_wakeup
     /\ b.period # nullopt
     /\ a.period = nullopt \/ value(a.period) < value(b.period)
=============================================================================
