------------------------- MODULE PolledTimerProofs -------------------------
(***************************************************************************)
(* What a timer does, for any wakeups and intervals, whenever its owner    *)
(* asks it and whatever else he does with it.                              *)
(***************************************************************************)
EXTENDS PolledTimer, TLAPS

-----------------------------------------------------------------------------
(***************************************************************************)
(* The inductive invariant: the three properties, each with what is true   *)
(* of the timer between two calls.                                         *)
(***************************************************************************)

\* A timer that is active may still expire once more.
Allowance == expiries + (IF timer.active THEN 1 ELSE 0) <= arms

AskedInPast == asked <= now

\* A timer built from an interval is never stopped, and is always set to one
\* period after it was last asked.
Interval ==
  use = "interval" =>
    \E d \in Nat :
      /\ timer.period = {d}
      /\ timer.active
      /\ timer.next_wakeup = asked + d
      /\ timer.fired <=> longest >= d

Wakeup == use = "wakeup" => timer.period = nullopt

TimerInv ==
  /\ Types
  /\ Allowance
  /\ AskedInPast
  /\ Interval
  /\ Wakeup
  /\ FiresAtFirstAskFromWakeup
-----------------------------------------------------------------------------
LEMMA ValueOfSingleton ==
  ASSUME NEW d
  PROVE  value({d}) = d
  BY DEF value

LEMMA ValueInPeriod ==
  ASSUME NEW p \in Optional(Nat), p # nullopt
  PROVE  value(p) \in Nat
  BY DEF Optional, value, nullopt

LEMMA PeriodsAreOptional == \A p \in Periods : p \in Optional(Nat)
  BY TimeAssumption DEF Periods, Optional

LEMMA SingletonsAreOptional == \A d \in Nat : {d} \in Optional(Nat) /\ {} \in Optional(Nat)
  BY DEF Optional

\* update() gives a timer again.
LEMMA UpdateType ==
  ASSUME NEW t \in TimerType, NEW n \in Nat
  PROVE  update(t, n) \in TimerType
<1>1. Deadline(t, n) \in Int
  <2>1. t.period # nullopt => value(t.period) \in Nat
    BY ValueInPeriod DEF TimerType
  <2> QED
    BY <2>1 DEF Deadline, TimerType
<1>2. StaysActive(t, n) \in BOOLEAN /\ (t.fired \/ Elapsed(t, n)) \in BOOLEAN
  BY DEF StaysActive, Elapsed, TimerType
<1> QED
  BY <1>1, <1>2 DEF update, TimerType

\* What update() does to the wakeup of a timer that keeps its period.
LEMMA UpdateDeadline ==
  ASSUME NEW t \in TimerType, NEW n \in Nat, t.period \in Periods
  PROVE  /\ update(t, n).period = t.period
         /\ \/ update(t, n).next_wakeup = t.next_wakeup
            \/ \E d \in Durations : update(t, n).next_wakeup = n + d
<1>1. update(t, n).period = t.period
  BY DEF update
<1>2. CASE ~t.active \/ t.period = nullopt
  BY <1>2 DEF update, Deadline
<1>3. CASE t.active /\ t.period # nullopt
  <2>1. value(t.period) \in Durations
    BY <1>3 DEF Periods, Optional, value, nullopt
  <2>2. update(t, n).next_wakeup = n + value(t.period)
    BY <1>3 DEF update, Deadline
  <2> QED
    BY <1>1, <2>1, <2>2
<1> QED
  BY <1>1, <1>2, <1>3

LEMMA SettersType ==
  ASSUME NEW t \in TimerType
  PROVE  /\ \A p \in Optional(Nat) : [t EXCEPT !.period = p] \in TimerType
         /\ [t EXCEPT !.active = TRUE] \in TimerType
         /\ [t EXCEPT !.active = FALSE] \in TimerType
  BY DEF TimerType

LEMMA ConstructedType ==
  ASSUME NEW w \in Int, NEW p \in Optional(Nat)
  PROVE  Constructed(w, p) \in TimerType
  BY DEF Constructed, TimerType
-----------------------------------------------------------------------------
LEMMA TimerInit == Init => TimerInv
<1> SUFFICES ASSUME Init PROVE TimerInv
  OBVIOUS
<1>1. now = 0 /\ asked = 0 /\ longest = -1 /\ expiries = 0
      /\ arms = IF timer.active THEN 1 ELSE 0
  BY DEF Init
<1>2. ASSUME NEW d \in Durations, timer = Constructed(now + d, {d}), use = "interval"
      PROVE  TimerInv
  <2>1. d \in Nat /\ timer \in TimerType
    BY <1>1, <1>2, TimeAssumption, ConstructedType, SingletonsAreOptional
  <2>2. timer.period = {d} /\ timer.active /\ ~timer.fired /\ timer.next_wakeup = asked + d
    BY <1>1, <1>2, <2>1 DEF Constructed
  <2> QED
    BY <1>1, <1>2, <2>1, <2>2
       DEF TimerInv, Types, Allowance, AskedInPast, Interval, Wakeup, FiresAtFirstAskFromWakeup
<1>3. ASSUME NEW w \in Wakeups, NEW p \in Periods, timer = Constructed(w, p), use = UseOf(p)
      PROVE  TimerInv
  <2>1. timer \in TimerType
    BY <1>3, TimeAssumption, ConstructedType, PeriodsAreOptional
  <2>2. timer.active /\ ~timer.fired /\ timer.period = p
    BY <1>3 DEF Constructed
  <2> QED
    BY <1>1, <1>3, <2>1, <2>2
       DEF TimerInv, Types, Allowance, AskedInPast, Interval, Wakeup,
           FiresAtFirstAskFromWakeup, UseOf
<1>4. CASE timer \in Uninitialised /\ use = "other"
  <2>1. timer \in TimerType
    <3>1. nullopt \in Optional(Nat)
      BY SingletonsAreOptional DEF nullopt
    <3>2. PICK a \in BOOLEAN, f \in BOOLEAN :
            timer = [next_wakeup |-> 0, period |-> nullopt, active |-> a, fired |-> f]
      BY <1>4 DEF Uninitialised
    <3> QED
      BY <3>1, <3>2 DEF TimerType
  <2> QED
    BY <1>1, <1>4, <2>1
       DEF TimerInv, Types, Allowance, AskedInPast, Interval, Wakeup,
           FiresAtFirstAskFromWakeup, TimerType
<1> QED
  BY <1>2, <1>3, <1>4 DEF Init
-----------------------------------------------------------------------------
\* pause(), stop_repeat(), resume() and repeat() end the history of a timer
\* that was only asked, and never let it expire more often than it was set.
Meddling ==
  /\ Touched
  /\ timer' \in TimerType
  /\ arms' \in Nat
  /\ \/ arms' = arms /\ (timer'.active => timer.active)
     \/ arms' = arms + 1
  /\ UNCHANGED <<now, expiries, asked, longest>>

LEMMA MeddlingStep == TimerInv /\ Meddling => TimerInv'
  BY DEF TimerInv, Types, TimerType, Allowance, AskedInPast, Interval, Wakeup,
         FiresAtFirstAskFromWakeup, Meddling, Touched

LEMMA TickStep == TimerInv /\ Tick => TimerInv'
  BY TimeAssumption
     DEF TimerInv, Types, Allowance, AskedInPast, Interval, Wakeup,
         FiresAtFirstAskFromWakeup, Tick

LEMMA AskStep == TimerInv /\ Ask => TimerInv'
<1> SUFFICES ASSUME TimerInv, Ask PROVE TimerInv'
  OBVIOUS
<1>1. /\ now \in Nat /\ now' = now /\ arms \in Nat /\ arms' = arms /\ use' = use
      /\ asked \in Nat /\ asked' = now /\ asked <= now
      /\ expiries \in Nat /\ longest \in Nat \cup {-1}
      /\ timer \in TimerType /\ timer' = update(timer, now)
  BY DEF TimerInv, Types, AskedInPast, Ask
<1>2. longest' = IF now - asked > longest THEN now - asked ELSE longest
  BY DEF Ask
<1>3. Types'
  <2>1. timer' \in TimerType
    BY <1>1, UpdateType
  <2>2. expiries' \in Nat
    BY <1>1 DEF Ask
  <2>3. longest' \in Nat \cup {-1}
    BY <1>1, <1>2
  <2> QED
    BY <1>1, <2>1, <2>2, <2>3 DEF TimerInv, Types
<1>4. Allowance'
  <2>1. expiries' = expiries + IF timer.period = nullopt /\ Elapsed(timer, now) THEN 1 ELSE 0
    BY DEF Ask
  <2>2. Elapsed(timer, now) => timer.active
    BY DEF Elapsed
  <2>3. timer'.active <=> timer.active /\ StaysActive(timer, now)
    BY <1>1 DEF update, TimerType
  <2>4. expiries + (IF timer.active THEN 1 ELSE 0) <= arms
    BY DEF TimerInv, Allowance
  <2> QED
    BY <1>1, <2>1, <2>2, <2>3, <2>4 DEF Allowance, StaysActive
<1>5. AskedInPast'
  BY <1>1 DEF AskedInPast
<1>6. Interval'
  <2> SUFFICES ASSUME use = "interval"
      PROVE  \E d \in Nat :
               /\ timer'.period = {d}
               /\ timer'.active
               /\ timer'.next_wakeup = asked' + d
               /\ timer'.fired <=> longest' >= d
    BY <1>1 DEF Interval
  <2>1. PICK d \in Nat :
          /\ timer.period = {d}
          /\ timer.active
          /\ timer.next_wakeup = asked + d
          /\ timer.fired <=> longest >= d
    BY DEF TimerInv, Interval
  <2>2. timer.period # nullopt /\ value(timer.period) = d
    BY <2>1, ValueOfSingleton DEF nullopt
  <2>3. Elapsed(timer, now) <=> now - asked >= d
    BY <1>1, <2>1 DEF Elapsed
  <2>4. /\ timer'.period = {d} /\ timer'.active /\ timer'.next_wakeup = now + d
        /\ timer'.fired <=> timer.fired \/ Elapsed(timer, now)
    BY <1>1, <2>1, <2>2 DEF update, Deadline, StaysActive
  <2>5. (longest >= d \/ now - asked >= d) <=> longest' >= d
    BY <1>1, <1>2
  <2> QED
    BY <1>1, <2>1, <2>3, <2>4, <2>5
<1>7. Wakeup'
  BY <1>1 DEF TimerInv, Wakeup, update
<1>8. FiresAtFirstAskFromWakeup'
  <2> SUFFICES ASSUME use = "wakeup"
      PROVE  /\ timer'.fired <=> longest' >= 0 /\ asked' >= timer'.next_wakeup
             /\ timer'.active <=> ~timer'.fired
    BY <1>1 DEF FiresAtFirstAskFromWakeup
  <2>1. /\ timer.period = nullopt
        /\ timer.fired <=> longest >= 0 /\ asked >= timer.next_wakeup
        /\ timer.active <=> ~timer.fired
    BY DEF TimerInv, Wakeup, FiresAtFirstAskFromWakeup
  <2>2. longest' >= 0 /\ timer.next_wakeup \in Int
    BY <1>1, <1>2 DEF TimerType
  <2>3. CASE timer.active
    BY <1>1, <2>1, <2>2, <2>3 DEF update, Deadline, StaysActive, Elapsed
  <2>4. CASE ~timer.active
    BY <1>1, <2>1, <2>2, <2>4 DEF update
  <2> QED
    BY <2>3, <2>4
<1> QED
  BY <1>3, <1>4, <1>5, <1>6, <1>7, <1>8 DEF TimerInv

LEMMA ResetStep ==
  ASSUME TimerInv, NEW w \in Wakeups, NEW p \in Periods, reset(w, p)
  PROVE  TimerInv'
<1>1. timer' \in TimerType
  BY TimeAssumption, ConstructedType, PeriodsAreOptional DEF reset
<1>2. timer'.active /\ ~timer'.fired /\ timer'.period = p
  BY DEF reset, Constructed
<1> QED
  BY <1>1, <1>2
     DEF TimerInv, Types, Allowance, AskedInPast, Interval, Wakeup,
         FiresAtFirstAskFromWakeup, reset, Arm, UseOf

LEMMA TimerNext == TimerInv /\ [Next]_vars => TimerInv'
<1> SUFFICES ASSUME TimerInv, [Next]_vars PROVE TimerInv'
  OBVIOUS
<1>1. timer \in TimerType /\ arms \in Nat
  BY DEF TimerInv, Types
<1>2. CASE Tick
  BY <1>2, TickStep
<1>3. CASE Ask
  BY <1>3, AskStep
<1>4. CASE resume
  <2>1. timer' \in TimerType
    BY <1>1, <1>4, SettersType DEF resume
  <2> QED
    BY <1>1, <1>4, <2>1, MeddlingStep DEF resume, Arm, Meddling
<1>5. CASE pause
  <2>1. timer' \in TimerType
    BY <1>1, <1>5, SettersType DEF pause
  <2>2. ~timer'.active
    BY <1>1, <1>5 DEF pause, TimerType
  <2> QED
    BY <1>1, <1>5, <2>1, <2>2, MeddlingStep DEF pause, Meddling
<1>6. CASE stop_repeat
  <2>1. timer' \in TimerType
    BY <1>1, <1>6, SettersType, SingletonsAreOptional DEF stop_repeat, nullopt
  <2>2. timer'.active = timer.active
    BY <1>1, <1>6 DEF stop_repeat, TimerType
  <2> QED
    BY <1>1, <1>6, <2>1, <2>2, MeddlingStep DEF stop_repeat, Meddling
<1>7. ASSUME NEW d \in Durations, repeat(d)
      PROVE  TimerInv'
  <2>1. timer' = [[timer EXCEPT !.period = {d}] EXCEPT !.active = TRUE]
    BY <1>1, <1>7 DEF repeat, TimerType
  <2>2. timer' \in TimerType
    BY <1>1, <2>1, SettersType, SingletonsAreOptional, TimeAssumption
  <2> QED
    BY <1>1, <1>7, <2>2, MeddlingStep DEF repeat, Arm, Meddling
<1>8. ASSUME NEW w \in Wakeups, NEW p \in Periods, reset(w, p)
      PROVE  TimerInv'
  BY <1>8, ResetStep
<1>9. CASE UNCHANGED vars
  BY <1>9 DEF TimerInv, Types, Allowance, AskedInPast, Interval, Wakeup,
              FiresAtFirstAskFromWakeup, vars
<1> QED
  BY <1>2, <1>3, <1>4, <1>5, <1>6, <1>7, <1>8, <1>9 DEF Next

LEMMA TimerInvariant == Spec => []TimerInv
  BY TimerInit, TimerNext, PTL DEF Spec

-----------------------------------------------------------------------------
(***************************************************************************)
(* What the timer is set to.                                               *)
(***************************************************************************)
LEMMA PeriodsGiven == nullopt \in Periods /\ \A d \in Durations : {d} \in Periods
  BY DEF Periods, Optional, nullopt

LEMMA WellSetInit == Init => WellSet
<1> SUFFICES ASSUME Init PROVE WellSet
  OBVIOUS
<1>1. now = 0 /\ 0 \in 0 .. now
  BY DEF Init
<1>2. ASSUME NEW d \in Durations, timer = Constructed(now + d, {d})
      PROVE  WellSet
  <2>1. timer.next_wakeup = now + d /\ timer.period = {d}
    BY <1>2 DEF Constructed
  <2> QED
    BY <1>1, <2>1, PeriodsGiven DEF WellSet, Deadlines
<1>3. ASSUME NEW w \in Wakeups, NEW p \in Periods, timer = Constructed(w, p)
      PROVE  WellSet
  BY <1>3 DEF Constructed, WellSet, Deadlines
<1>4. CASE timer \in Uninitialised
  BY <1>4, PeriodsGiven DEF Uninitialised, WellSet, Deadlines
<1> QED
  BY <1>2, <1>3, <1>4 DEF Init

\* What was a moment of the past stays one.
LEMMA DeadlinesStay ==
  ASSUME now \in Nat, now' \in Nat, now <= now'
  PROVE  Deadlines \subseteq Deadlines'
<1>1. 0 .. now \subseteq 0 .. now'
  OBVIOUS
<1> QED
  BY <1>1 DEF Deadlines

LEMMA WellSetStep == TimerInv /\ WellSet /\ [Next]_vars => WellSet'
<1> SUFFICES ASSUME TimerInv, WellSet, [Next]_vars PROVE WellSet'
  OBVIOUS
<1>1. timer \in TimerType /\ now \in Nat
  BY DEF TimerInv, Types
<1>2. timer.period \in Periods /\ timer.next_wakeup \in Deadlines
  BY DEF WellSet
<1>3. CASE now' = now
  <2>1. Deadlines' = Deadlines /\ Periods' = Periods
    BY <1>3 DEF Deadlines, Periods
  <2>2. CASE Ask
    <3>1. timer' = update(timer, now)
      BY <2>2 DEF Ask
    <3>2. ASSUME NEW d \in Durations PROVE now + d \in Deadlines
      BY <1>1 DEF Deadlines
    <3> QED
      BY <1>1, <1>2, <2>1, <3>1, <3>2, UpdateDeadline DEF WellSet
  <2>3. CASE resume \/ pause
    BY <1>1, <1>2, <2>1, <2>3 DEF resume, pause, WellSet, TimerType
  <2>4. CASE stop_repeat
    BY <1>1, <1>2, <2>1, <2>4, PeriodsGiven DEF stop_repeat, WellSet, TimerType
  <2>5. ASSUME NEW d \in Durations, repeat(d) PROVE WellSet'
    BY <1>1, <1>2, <2>1, <2>5, PeriodsGiven DEF repeat, WellSet, TimerType
  <2>6. ASSUME NEW w \in Wakeups, NEW p \in Periods, reset(w, p) PROVE WellSet'
    BY <2>1, <2>6 DEF reset, Constructed, WellSet, Deadlines
  <2>7. CASE UNCHANGED vars
    BY <1>2, <2>1, <2>7 DEF vars, WellSet
  <2>8. CASE Tick
    BY <1>1, <1>3, <2>8 DEF Tick
  <2> QED
    BY <2>2, <2>3, <2>4, <2>5, <2>6, <2>7, <2>8 DEF Next
<1>4. CASE Tick
  <2>1. timer' = timer /\ Deadlines \subseteq Deadlines'
    BY <1>1, <1>4, DeadlinesStay DEF Tick
  <2> QED
    BY <1>2, <2>1 DEF WellSet, Periods
<1>5. CASE ~Tick
  BY <1>3, <1>5 DEF Next, Ask, resume, pause, stop_repeat, repeat, reset, vars
<1> QED
  BY <1>4, <1>5

LEMMA WellSetInvariant == Spec => []WellSet
  BY TimerInvariant, WellSetInit, WellSetStep, PTL DEF Spec
-----------------------------------------------------------------------------
\* The timer keeps its type, the flags that Timer() leaves uninitialised too, and
\* is never set further ahead than an interval from the last question.
THEOREM TimerTyped == Spec => []TypeOK
<1>1. TimerInv /\ WellSet => TypeOK
  BY DEF TimerInv, TypeOK
<1> QED
  BY <1>1, TimerInvariant, WellSetInvariant, PTL

\* However a timer is used, it expires once at most for each time it is armed.
THEOREM TimerExpiresOnce == Spec => []ExpiresOncePerArming
<1>1. TimerInv => ExpiresOncePerArming
  BY DEF TimerInv, Types, Allowance, ExpiresOncePerArming
<1> QED
  BY <1>1, TimerInvariant, PTL

\* A timer built from an interval fires exactly if it was left alone for one.
THEOREM TimerFiresWhenLeftAlone == Spec => []FiresAfterQuietPeriodOnly
<1>1. TimerInv => FiresAfterQuietPeriodOnly
  BY ValueOfSingleton DEF TimerInv, Interval, FiresAfterQuietPeriodOnly
<1> QED
  BY <1>1, TimerInvariant, PTL

\* A timer set for a wakeup fires when it is first asked from then on.
THEOREM TimerFiresWhenFirstAsked == Spec => []FiresAtFirstAskFromWakeup
<1>1. TimerInv => FiresAtFirstAskFromWakeup
  BY DEF TimerInv
<1> QED
  BY <1>1, TimerInvariant, PTL
=============================================================================
