--------------------------- MODULE EpollExecutor ---------------------------
(***************************************************************************)
(* n3::linux::epoll::epoll_executor (src/epoll_executor.cpp): a loop over  *)
(* epoll_ctx::wait() that keeps the last known events of its handles; and  *)
(* an epoll_ctx without an executor, whose user calls wait() himself.      *)
(*                                                                         *)
(* The loop calls back no user code, so the thread inside run() adds and   *)
(* removes no handles; it may call run_once() between them instead.        *)
(***************************************************************************)
EXTENDS Epoll

VARIABLES
  active,       \* set by no constructor and no member function
  handle_map,   \* handle_map[key], the event_cache under that key
  mode,         \* the thread is in "user" code, in "run" or in run_"once";
                \*   "direct": the epoll_ctx has no executor
  reported      \* history: reported[fd], the flags wait() last told of

vars == <<epoll_vars, active, handle_map, mode, reported>>

\* EPOLLIN and its like, of which each field of struct events keeps one bit.
Bit == [in |-> 1, pri |-> 2, out |-> 4, err |-> 8, hup |-> 16, rdhup |-> 8192]

events(mask) ==
  [flag \in DOMAIN Bit |-> (IF flag \in mask THEN Bit[flag] ELSE 0) % 2]

has_error(event_flags) ==
  \E flag \in {"rdhup", "pri", "err", "hup"} : event_flags[flag] # 0

\* The handle read from an event: .data.fd of what was stored as .data.ptr.
HandleOf(event) == event.data

\* Each event replaces the event_cache under its handle: the last one stays.
Cached(map, batch) ==
  LET Of(h) == {i \in DOMAIN batch : HandleOf(batch[i]) = h}
      Latest(h) == CHOOSE i \in Of(h) : \A j \in Of(h) : j <= i
  IN  [h \in DOMAIN map \cup {HandleOf(batch[i]) : i \in DOMAIN batch} |->
         IF Of(h) = {} THEN map[h] ELSE events(batch[Latest(h)].events)]

Init ==
  /\ EpollInit
  /\ active \in BOOLEAN
  /\ handle_map = <<>>
  /\ mode \in {"user", "direct"}
  /\ reported = <<>>

Rest == UNCHANGED <<active, handle_map, mode, reported>>

AddsOrRemoves(fd) == mode \in {"user", "direct"} /\ (add(fd) \/ remove(fd)) /\ Rest

DirectWaits(timeout_ms) == mode = "direct" /\ wait(timeout_ms) /\ Rest

DirectReturns == mode = "direct" /\ (WaitReports \/ WaitTimesOut) /\ Rest

DirectFails == mode = "direct" /\ WaitFails /\ Rest

DirectInterrupted == mode = "direct" /\ WaitInterrupted /\ Rest

\* run() returns at once when active is not set.
run ==
  /\ mode = "user"
  /\ active
  /\ mode' = "run"
  /\ UNCHANGED <<epoll_vars, active, handle_map, reported>>

\* run_once() up to the system call.
RunOnceWaits ==
  /\ \/ mode = "user" /\ mode' = "once"
     \/ mode = "run" /\ mode' = "run"
  /\ wait(nullopt)
  /\ UNCHANGED <<active, handle_map, reported>>

\* Where the thread is after run_once(): run() looks at active again.
AfterRunOnce == IF mode = "run" /\ active THEN "run" ELSE "user"

\* run_once() from the return of the system call to its own.
RunOnceUpdates ==
  /\ mode # "direct"
  /\ WaitReports
  /\ handle_map' = Cached(handle_map, returned'.events)
  /\ reported' = [fd \in DOMAIN reported \cup Range(Told) |->
                    IF Contains(Told, fd) THEN Event(fd).events ELSE reported[fd]]
  /\ mode' = AfterRunOnce
  /\ UNCHANGED active

\* A wait that does not block is not interrupted.
RunOnceReturns ==
  /\ mode # "direct"
  /\ WaitTimesOut
  /\ mode' = AfterRunOnce
  /\ UNCHANGED <<active, handle_map, reported>>

\* run_once() drops any other error as it drops ETIMEDOUT, and run() calls it
\* again at once.
RunOnceFails ==
  /\ mode \in {"user", "run"}
  /\ WaitFails
  /\ mode' = AfterRunOnce
  /\ UNCHANGED <<active, handle_map, reported>>

Next ==
  \/ World /\ Rest
  \/ \E fd \in Handles : AddsOrRemoves(fd)
  \/ run
  \/ RunOnceWaits
  \/ RunOnceUpdates
  \/ RunOnceReturns
  \/ RunOnceFails
  \/ \E timeout_ms \in {nullopt} \cup {{n} : n \in Timeouts} : DirectWaits(timeout_ms)
  \/ DirectReturns
  \/ DirectInterrupted
  \/ DirectFails

\* The thread inside run() keeps running, and the kernel ends an epoll_wait
\* that has something to report or whose time is up.
Spec ==
  /\ Init /\ [][Next]_vars
  /\ WF_vars(mode = "run" /\ (RunOnceWaits \/ RunOnceFails))
  /\ WF_vars(RunOnceUpdates \/ RunOnceReturns)
  /\ WF_vars(DirectReturns)
-----------------------------------------------------------------------------
\* The types of the executor's members.
TypeOK ==
  /\ EpollTypeOK
  /\ active \in BOOLEAN
  /\ DOMAIN handle_map \subseteq {"this"}
  /\ \A h \in DOMAIN handle_map : handle_map[h] \in [DOMAIN Bit -> 0 .. 1]
  /\ mode \in {"user", "run", "once", "direct"}
  /\ call.waiting => mode # "user"

\* While run() loops, an edge on a registered handle is reported in the end,
\* unless the handle is drained, closed or removed first, or the epoll is lost
\* and its registrations with it: the buffer of one wait() being full and other
\* handles being busy only delay it.
NoEdgeLost ==
  \A fd \in Handles, flag \in Flags \cap {"in", "out", "err", "hup"} :
    (mode = "run" /\ <<fd, flag>> \in unseen) ~> <<fd, flag>> \notin unseen

\* A wait() that is given a timeout which is not negative and fits an int
\* returns, also when nothing ever happens on the handles: one of 2^31 ms or
\* more may wait for ever (epoll.cpp:63).
WaitsReturn ==
  (call.waiting /\ \E n \in call.requested : n \in 0 .. INT_MAX) ~> ~call.waiting

\* "Current known event values for the handle", "updated by returned epoll
\* events" (epoll_executor.h:74-76): the entry of a handle holds the events
\* last reported for it.
CacheIsPerHandle ==
  \A fd \in DOMAIN reported :
    fd \in DOMAIN handle_map /\ handle_map[fd] = events(reported[fd])

\* "Sanity check if any events are raised that ARE NOT read or write"
\* (epoll_executor.h:35): has_error() is true of an error or hangup.
ErrorsAreSeen ==
  \A i \in DOMAIN returned.events :
    returned.events[i].events \cap {"rdhup", "pri", "err", "hup"} # {}
      => has_error(events(returned.events[i].events))
=============================================================================
