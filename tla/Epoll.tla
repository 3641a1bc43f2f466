------------------------------- MODULE Epoll -------------------------------
(***************************************************************************)
(* n3::linux::epoll::epoll_ctx (src/epoll.cpp) over the kernel's epoll:    *)
(* add(), remove() and wait(), edge triggered.                             *)
(*                                                                         *)
(* The kernel is external: which handles are open, what may be done with   *)
(* each without blocking (its level), the interest list and the queue of   *)
(* handles with an edge not yet reported.                                  *)
(***************************************************************************)
EXTENDS Integers, Sequences, SequencesExt, Functions

CONSTANTS
  Handles,            \* descriptors of the handles the user opens
  Flags,              \* the event flags the kernel raises
  EVENT_BUFFER_SIZE,  \* capacity of epoll_ctx::events
  Timeouts,           \* the timeouts in ms passed to wait()
  INT_MAX             \* the largest int

ASSUME EpollAssumption ==
  /\ Flags \subseteq {"in", "out", "rdhup", "pri", "err", "hup"}
  /\ EVENT_BUFFER_SIZE \in Nat \ {0}
  /\ Timeouts \subseteq Int
  /\ INT_MAX \in Nat

VARIABLES
  efd,        \* kernel: what the number in this->efd.efd stands for, the
              \*   "epoll" of the constructor, nothing ("closed"), or a file
              \*   that is not an epoll and got the number since ("other")
  open,       \* kernel: the open handles
  level,      \* kernel: level[fd], the flags up for an open handle
  interest,   \* kernel: the handles registered with this epoll
  ready,      \* kernel: registered handles with an unreported edge, in order
  call,       \* the call of wait() in progress: [waiting, requested, timeout]
  returned,   \* what wait() last returned: [error, events]
  unseen      \* history: flags raised on registered handles, not told by a wait()

kernel == <<efd, open, level, interest, ready>>
epoll_vars == <<kernel, call, returned, unseen>>

\* EVENT_MASK of add(); the kernel adds the two that cannot be masked.
EVENT_MASK_read_only == {"in"}
EVENT_MASK == {"in", "out"}
Reported == (EVENT_MASK \cup {"err", "hup"}) \cap Flags

\* std::optional<milliseconds> is a set of at most one number.
nullopt == {}

INT_MIN == -INT_MAX - 1

\* Conversion of a number to int: modulo the number of values of an int.
ToInt(n) == ((n - INT_MIN) % (INT_MAX - INT_MIN + 1)) + INT_MIN

\* The timeout epoll_wait gets: 0 returns at once, below 0 waits forever.
EpollTimeout_in_us(timeout_ms) ==
  ToInt(IF timeout_ms = nullopt THEN 0 ELSE 1000 * CHOOSE n \in timeout_ms : TRUE)
EpollTimeout(timeout_ms) ==
  ToInt(IF timeout_ms = nullopt THEN 0 ELSE CHOOSE n \in timeout_ms : TRUE)
-----------------------------------------------------------------------------
(***************************************************************************)
(* The kernel and the user's system calls on handles.                      *)
(***************************************************************************)
Enqueued(fd) == IF Contains(ready, fd) THEN ready ELSE Append(ready, fd)

\* The handles of a queue that are in a set, in order.
Kept(queue, fds) ==
  LET kept[i \in 0 .. Len(queue)] ==
        IF i = 0 THEN <<>>
        ELSE IF queue[i] \in fds THEN Append(kept[i - 1], queue[i]) ELSE kept[i - 1]
  IN  kept[Len(queue)]

Dequeued(fd) == Kept(ready, Handles \ {fd})

Open(fd) ==
  /\ fd \notin open
  /\ open' = open \cup {fd}
  /\ level' = [level EXCEPT ![fd] = {}]
  /\ UNCHANGED <<efd, interest, ready, call, returned, unseen>>

\* The last close of a handle takes it out of the interest list.
Close(fd) ==
  /\ fd \in open
  /\ open' = open \ {fd}
  /\ level' = [level EXCEPT ![fd] = {}]
  /\ interest' = interest \ {fd}
  /\ ready' = Dequeued(fd)
  /\ unseen' = {u \in unseen : u[1] # fd}
  /\ UNCHANGED <<efd, call, returned>>

\* More bytes, more room, a hangup: an edge, whether flag was up or not.
Raise(fd, flag) ==
  /\ fd \in open
  /\ level' = [level EXCEPT ![fd] = @ \cup {flag}]
  /\ IF fd \in interest
     THEN /\ ready' = IF flag \in Reported THEN Enqueued(fd) ELSE ready
          /\ unseen' = unseen \cup {<<fd, flag>>}
     ELSE UNCHANGED <<ready, unseen>>
  /\ UNCHANGED <<efd, open, interest, call, returned>>

\* The user reads or writes until EAGAIN.
Lower(fd, flag) ==
  /\ flag \in level[fd] \ {"err", "hup"}
  /\ level' = [level EXCEPT ![fd] = @ \ {flag}]
  /\ unseen' = unseen \ {<<fd, flag>>}
  /\ UNCHANGED <<efd, open, interest, ready, call, returned>>

\* ~epoll_handle() of a copy of the epoll_ctx closes the number (module
\* Handles); without it the epoll and its interest list are gone.  An epoll that
\* is waited on goes when the wait has returned.
Lose(file) ==
  /\ ~call.waiting
  /\ efd # file
  /\ efd' = file
  /\ interest' = {}
  /\ ready' = <<>>
  /\ unseen' = {}
  /\ UNCHANGED <<open, level, call, returned>>
-----------------------------------------------------------------------------
Idle == ~call.waiting

NoCall == [waiting |-> FALSE, requested |-> nullopt, timeout |-> 0]

\* What epoll_wait says of a number that is no epoll any more.
EfdError == IF efd = "closed" THEN "EBADF" ELSE "EINVAL"

\* add(): EPOLL_CTL_ADD.  What is up already counts as an edge.
AddError(fd) ==
  IF efd = "closed" \/ fd \notin open THEN "EBADF"
  ELSE IF efd = "other" THEN "EINVAL"
  ELSE IF fd \in interest THEN "EEXIST" ELSE "none"

add(fd) ==
  /\ Idle
  /\ AddError(fd) = "none"
  /\ interest' = interest \cup {fd}
  /\ ready' = IF level[fd] \cap Reported # {} THEN Enqueued(fd) ELSE ready
  /\ unseen' = unseen \cup {<<fd, flag>> : flag \in level[fd]}
  /\ UNCHANGED <<efd, open, level, call, returned>>

RemoveError(fd) ==
  IF efd = "closed" \/ fd \notin open THEN "EBADF"
  ELSE IF efd = "other" THEN "EINVAL"
  ELSE IF fd \notin interest THEN "ENOENT" ELSE "none"

remove(fd) ==
  /\ Idle
  /\ RemoveError(fd) = "none"
  /\ interest' = interest \ {fd}
  /\ ready' = Dequeued(fd)
  /\ unseen' = {u \in unseen : u[1] # fd}
  /\ UNCHANGED <<efd, open, level, call, returned>>

wait(timeout_ms) ==
  /\ Idle
  /\ efd = "epoll"
  /\ call' = [waiting |-> TRUE, requested |-> timeout_ms, timeout |-> EpollTimeout(timeout_ms)]
  /\ UNCHANGED <<kernel, returned, unseen>>

\* The errors of epoll_wait that wait() hands on; EFAULT is not among them, the
\* events array being a member.
WaitFails ==
  /\ Idle
  /\ efd # "epoll"
  /\ returned' = [error |-> EfdError, events |-> <<>>]
  /\ UNCHANGED <<kernel, call, unseen>>

\* What epoll_wait writes to the events array: every registration stores the
\* address of the epoll_ctx (.ptr = this), so the events tell no handle.
Event(fd) == [events |-> level[fd] \cap Reported, data |-> "this"]

\* epoll_wait passes over the handles whose flags have gone down since.
Up == Kept(ready, {fd \in Handles : level[fd] \cap Reported # {}})

Batch_unbounded == Up
Batch == SubSeq(Up, 1, IF Len(Up) < EVENT_BUFFER_SIZE THEN Len(Up) ELSE EVENT_BUFFER_SIZE)

\* What wait() hands on: all events that epoll_wait wrote.
Told_but_the_last == SubSeq(Batch, 1, Len(Batch) - 1)
Told == Batch

WaitReports ==
  /\ call.waiting
  /\ Up # <<>>
  /\ returned' = [error |-> "none", events |-> [i \in DOMAIN Told |-> Event(Told[i])]]
  /\ ready' = SubSeq(Up, Len(Batch) + 1, Len(Up))
  /\ unseen' = {u \in unseen : ~(Contains(Told, u[1]) /\ u[2] \in Reported)}
  /\ call' = NoCall
  /\ UNCHANGED <<efd, open, level, interest>>

NothingReported(error) ==
  /\ call.waiting
  /\ Up = <<>>
  /\ returned' = [error |-> error, events |-> <<>>]
  /\ ready' = <<>>
  /\ call' = NoCall
  /\ UNCHANGED <<efd, open, level, interest, unseen>>

WaitTimesOut == call.timeout >= 0 /\ NothingReported("ETIMEDOUT")

\* A signal ends a wait that blocks; wait() reports EINTR as ETIMEDOUT.  One
\* that does not block looks at the handles and returns before the kernel looks
\* for signals; if it did not, that step would be WaitTimesOut all the same.
WaitInterrupted == call.timeout # 0 /\ NothingReported("ETIMEDOUT")
-----------------------------------------------------------------------------
EpollInit ==
  /\ efd = "epoll"
  /\ open = {}
  /\ level = [fd \in Handles |-> {}]
  /\ interest = {}
  /\ ready = <<>>
  /\ call = NoCall
  /\ returned = [error |-> "none", events |-> <<>>]
  /\ unseen = {}

\* The world outside the epoll_ctx, which nothing holds back.
World ==
  \/ \E file \in {"closed", "other"} : Lose(file)
  \/ \E fd \in Handles :
       \/ Open(fd)
       \/ Close(fd)
       \/ \E flag \in Flags : Raise(fd, flag) \/ Lower(fd, flag)

-----------------------------------------------------------------------------
\* The types of the kernel's and the calls' state; the ready queue holds no
\* handle twice, and only registered handles that are open.
EpollTypeOK ==
  /\ efd \in {"epoll", "closed", "other"}
  /\ open \subseteq Handles
  /\ level \in [Handles -> SUBSET Flags]
  /\ interest \subseteq open
  /\ IsInjective(ready)
  /\ Range(ready) \subseteq interest
  /\ call.timeout \in INT_MIN .. INT_MAX
  /\ Len(returned.events) <= EVENT_BUFFER_SIZE
  /\ unseen \subseteq interest \X Flags

\* A registered handle with an edge that no wait() told of is in the queue the
\* next epoll_wait looks at, however many handles did not fit the buffer of
\* the wait() before, were drained, removed or closed: what epoll_wait takes
\* off the queue, wait() hands on.
EdgesAreQueued ==
  \A u \in unseen : u[2] \in Reported => Contains(ready, u[1])
=============================================================================
