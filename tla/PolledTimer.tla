---------------------------- MODULE PolledTimer ----------------------------
(***************************************************************************)
(* One n3::Timer, the clock, and the owner who asks whether it is active   *)
(* or has elapsed, and calls its other member functions, at any times.     *)
(***************************************************************************)
EXTENDS Timer

CONSTANTS
  Wakeups,      \* the time points the owner may ask for
  Durations,    \* the intervals the owner may ask for
  MaxTime,      \* bound on the clock
  MaxArms       \* bound on the calls that make the timer active

ASSUME TimeAssumption ==
  /\ Wakeups \subseteq Int
  /\ Durations \subseteq Nat
  /\ MaxTime \in Nat
  /\ MaxArms \in Nat

VARIABLES
  now,          \* Clock::now()
  timer,
  arms,         \* history: how often the timer was made active
  expiries,     \* history: how often it was found elapsed without a period
  use,          \* history: how it was set, if it was only asked since:
                \*   "interval": by Timer(interval), "wakeup": without a period
  asked,        \* history: when it was last asked, or set
  longest       \* history: the longest time between two such moments; -1: none

vars == <<now, timer, arms, expiries, use, asked, longest>>

Periods == Optional(Durations)

UseOf(period) == IF period = nullopt THEN "wakeup" ELSE "other"

Init ==
  /\ now = 0
  /\ \/ \E d \in Durations : timer = Constructed(now + d, {d}) /\ use = "interval"
     \/ \E w \in Wakeups, p \in Periods : timer = Constructed(w, p) /\ use = UseOf(p)
     \/ timer \in Uninitialised /\ use = "other"
  /\ arms = IF timer.active THEN 1 ELSE 0
  /\ expiries = 0
  /\ asked = now
  /\ longest = -1

Tick ==
  /\ now < MaxTime
  /\ now' = now + 1
  /\ UNCHANGED <<timer, arms, expiries, use, asked, longest>>

\* is_active() and has_elapsed(): update(), then read a flag.
Ask ==
  /\ timer' = update(timer, now)
  /\ expiries' = expiries + IF timer.period = nullopt /\ Elapsed(timer, now) THEN 1 ELSE 0
  /\ asked' = now
  /\ longest' = IF now - asked > longest THEN now - asked ELSE longest
  /\ UNCHANGED <<now, arms, use>>

Arm ==
  /\ arms < MaxArms
  /\ arms' = arms + 1

Touched == use' = "other"

resume ==
  /\ Arm
  /\ timer' = [timer EXCEPT !.active = TRUE]
  /\ Touched
  /\ UNCHANGED <<now, expiries, asked, longest>>

pause ==
  /\ timer' = [timer EXCEPT !.active = FALSE]
  /\ Touched
  /\ UNCHANGED <<now, arms, expiries, asked, longest>>

stop_repeat ==
  /\ timer' = [timer EXCEPT !.period = nullopt]
  /\ Touched
  /\ UNCHANGED <<now, arms, expiries, asked, longest>>

\* repeat() does not set the wakeup: an old one may be long past.
repeat(d) ==
  /\ Arm
  /\ timer' = [timer EXCEPT !.period = {d}, !.active = TRUE]
  /\ Touched
  /\ UNCHANGED <<now, expiries, asked, longest>>

reset_keeping_fired(wakeup, period) ==
  /\ Arm
  /\ timer' = [Constructed(wakeup, period) EXCEPT !.fired = timer.fired]
  /\ use' = UseOf(period)
  /\ asked' = now
  /\ longest' = -1
  /\ UNCHANGED <<now, expiries>>

reset(wakeup, period) ==
  /\ Arm
  /\ timer' = Constructed(wakeup, period)
  /\ use' = UseOf(period)
  /\ asked' = now
  /\ longest' = -1
  /\ UNCHANGED <<now, expiries>>

Next ==
  \/ Tick
  \/ Ask
  \/ resume
  \/ pause
  \/ stop_repeat
  \/ \E d \in Durations : repeat(d)
  \/ \E w \in Wakeups, p \in Periods : reset(w, p)

\* Time passes, and the owner keeps asking.
Spec == Init /\ [][Next]_vars /\ WF_vars(Tick) /\ WF_vars(Ask)
-----------------------------------------------------------------------------
\* The wakeups a timer can be set to: one the owner named, the one of Timer(),
\* or an interval counted from a moment that has been.
Deadlines == Wakeups \cup {0} \cup {t + d : t \in 0 .. now, d \in Durations}

Types ==
  /\ now \in Nat
  /\ timer \in TimerType
  /\ arms \in Nat
  /\ expiries \in Nat
  /\ use \in {"interval", "wakeup", "other"}
  /\ asked \in Nat
  /\ longest \in Nat \cup {-1}

WellSet == timer.period \in Periods /\ timer.next_wakeup \in Deadlines

\* The types of the timer and of the history.  A timer that repeats is set from
\* the time of the question (timer_list.h:34): however often it is asked, its
\* wakeup is never pushed further ahead than one of the intervals.
TypeOK == Types /\ WellSet

\* A timer without a period expires once for each time it was made active,
\* however often it is asked (update() deactivates it, timer_list.h:30).
ExpiresOncePerArming == expiries <= arms

\* A timer built from an interval and only asked since has fired exactly if
\* it was once left alone for a whole period: asking it more often than its
\* period keeps it from firing, because update() moves the wakeup each time.
FiresAfterQuietPeriodOnly ==
  use = "interval" => (timer.fired <=> longest >= value(timer.period))

\* A timer set for a wakeup without a period and only asked since fires when
\* it is first asked at that time or later, and stops at that moment.
FiresAtFirstAskFromWakeup ==
  use = "wakeup" =>
    /\ timer.fired <=> longest >= 0 /\ asked >= timer.next_wakeup
    /\ timer.active <=> ~timer.fired

\* A timer without a period that is left active is found elapsed in the end.
ElapsesInTheEnd ==
  (timer.active /\ timer.period = nullopt /\ timer.next_wakeup <= MaxTime)
    ~> (timer.fired \/ ~timer.active \/ timer.period # nullopt)
=============================================================================
