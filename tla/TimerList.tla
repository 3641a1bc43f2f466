----------------------------- MODULE TimerList -----------------------------
(***************************************************************************)
(* n3::TimerList (src/timer_list.h): a std::priority_queue<Timer>.  Its    *)
(* top is an element than which no other is greater by operator<=>; which  *)
(* of several equivalent ones it is, the library does not say.             *)
(*                                                                         *)
(* Timers are copied into the list: its owner asks and resets his own.     *)
(***************************************************************************)
EXTENDS Timer, Bags

CONSTANTS
  NDEBUG,       \* TRUE: release build, FALSE: debug build with asserts
  Timers,       \* the timers a user may push
  MaxSize       \* bound on the size of the heap

VARIABLES
  timer_heap,   \* bag of timers
  outcome       \* "running", or how the program ended

vars == <<timer_heap, outcome>>

Init ==
  /\ timer_heap = EmptyBag
  /\ outcome = "running"

size == BagCardinality(timer_heap)
empty == timer_heap = EmptyBag

\* The elements that may be at the top of the heap.
Tops == {t \in DOMAIN timer_heap : \A u \in DOMAIN timer_heap : ~Less(t, u)}

\* push() and emplace().
push(t) ==
  /\ outcome = "running"
  /\ size < MaxSize
  /\ timer_heap' = timer_heap (+) SetToBag({t})
  /\ UNCHANGED outcome

pop ==
  /\ outcome = "running"
  /\ \E t \in Tops : timer_heap' = timer_heap (-) SetToBag({t})
  /\ UNCHANGED outcome

\* pop() asserts that the heap is not empty; without the assert, and in
\* next(), which has none, the vector under the heap is read out of bounds.
pop_empty ==
  /\ outcome = "running"
  /\ empty
  /\ outcome' = IF NDEBUG THEN "undefined" ELSE "aborted"
  /\ UNCHANGED timer_heap

next_empty ==
  /\ outcome = "running"
  /\ empty
  /\ outcome' = "undefined"
  /\ UNCHANGED timer_heap

Next ==
  \/ \E t \in Timers : push(t)
  \/ pop
  \/ pop_empty
  \/ next_empty

Spec == Init /\ [][Next]_vars
-----------------------------------------------------------------------------
\* "Next wakeup first" (timer_list.h:62): next() is a timer whose wakeup is
\* the earliest in the list.
NextWakeupFirst ==
  \A t \in Tops, u \in DOMAIN timer_heap : t.next_wakeup <= u.next_wakeup
=============================================================================
