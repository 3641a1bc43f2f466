SPECIFICATION Spec
CONSTANTS
  Wakeups <- SomeWakeups
  Durations <- SomeDurations
  MaxTime = 5
  MaxArms = 3
INVARIANTS TypeOK ExpiresOncePerArming FiresAfterQuietPeriodOnly FiresAtFirstAskFromWakeup
PROPERTIES ElapsesInTheEnd
