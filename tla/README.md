# A verification project for libn3

libn3 is a C++23 networking library for Linux in the making: buffers and a
queue of pending writes, timers, an epoll loop, owners of descriptors, and
wrappers of system calls. Much of it is not connected yet: the executor has a
write queue per handle that nothing fills, the timer list is read by nobody,
sockets do not use the executor, the awaitables wait for nothing. What there is can be stated, model-checked and
in part proved component by component. This directory holds the TLA+ modules,
the TLC configurations and the proofs.

Paths below are relative to `src/` of the library; line numbers are those of
the commit beside this directory.

## Inventory

| component | state it keeps | operations | used by |
|---|---|---|---|
| `BufferQueue`, `RefMultiBuffer` (`buffer.h`) | buffers, deque of (callback, bytes), two counters | `push`, `pop`, `consume`, `empty` | `epoll_handle_state` (declared, not used) |
| `callback<void>` (`callbacks.h`) | a `move_only_function` | call | `BufferQueue::pop` |
| `Timer` (`timer_list.h`) | wakeup, period, `active`, `fired` | ask (`is_active`, `has_elapsed`), `resume`, `pause`, `repeat`, `stop_repeat`, `reset` | its owner; copies in `TimerList` |
| `TimerList` | `std::priority_queue<Timer>` | `push`, `emplace`, `pop`, `next` | nobody yet |
| `epoll_ctx` (`epoll.h`, `epoll.cpp`) | epoll descriptor, event buffer | `add`, `remove`, `wait` | executor, runtime |
| `epoll_executor` (`epoll_executor.*`) | `active`, `handle_map` with the event cache | `add`, `remove`, `run_once`, `run` | `ExecutorOwnedHandle`, users |
| `MoveOnly` (`ownership.h`) | an optional | construct, move, destroy, `operator bool` | `OwnedHandle`, `OwnedCoroutine`, `io_uring_handle` |
| `OwnedCoroutine`, `Task`, awaitables (`ownership.h`, `io_uring.h`, `epoll_executor.h`) | a handle; frames, promises with an exception; the native stack | create, `resume`, `done`, `execute`, `await_suspend`, destroy | users |
| `OwnedHandle`, `TcpSocket`, `ExecutorOwnedHandle`, `epoll_handle` | a descriptor | construct, convert, destroy | users |
| `io_uring_handle` (`io_uring.*`) | a ring | set up, register, destroy | users |
| system call wrappers, error codes (`syscalls.*`, `error.h`) | `errno` of the thread | one per call | sockets, DNS, page size |
| `getaddrinfo` (`dns.cpp`) | none | look up | users |
| `socket<T>` (`socket.h`) | none: a CRTP interface | `listen`, `send`, `recv`, `accept`, options | classes of sockets |
| `GetPageSize` (`page_size.cpp`) | a static, initialised once | ask | `PageBuffer` |
| addresses (`address.*`) | values | convert | wrappers |
| runtime, `PageBuffer` | see "Not modelled" | | |

How they interact: `pop()` calls user callbacks, which may call the queue again;
the executor calls `epoll_ctx::wait` and copies what it says into its cache;
owners of descriptors share the process's descriptor table, through which a
wrong `close` of one is felt by another; wrappers share `errno` between calls;
coroutines resume each other, and themselves, on one native stack; the socket
interface passes its operations to the class that derives from it.

What is hard to test here: how writes of any size split over pushes and over
calls of `pop`; callbacks that push, pop or throw while `pop` holds a reference
to its deque; timers whose behaviour depends on when they are asked;
edge-triggered events with more ready handles than the event buffer holds, and
handles closed or drained meanwhile; moves of an object to itself; descriptors
closed by the wrong owner and reused; `errno` left by an earlier call; a
coroutine that is resumed inside its own suspension, fails, or is destroyed from
inside; an operation that a class inherits and that calls itself. The list,
line by line, is under `hazards` in `PROJECT.json`.

What makes each component correct: of the queue, that the bytes of the next
write are exactly those submitted and not yet written, and that each callback
runs once, in order, after its last byte, and as soon as `pop` is told of it; of
a timer, that it fires once per arming and at the first question from its wakeup
on; of the loop, that no edge is lost and that it goes on; of owners, one owner
per value, per frame and per descriptor; of `execute`, that it returns and tells
each failure once; of the wrappers, that the error told is the error of this
call; of the interface, that an operation reaches its system call.

## Modules

| module | models | composes |
|---|---|---|
| `WriteQueue` | abstract: what a write queue promises (submit, take, complete) | |
| `BufferQueue` | `BufferQueue`, `RefMultiBuffer`, `callback<void>` | implements `WriteQueue` |
| `MCBufferQueue` | the instances of it that are checked | `BufferQueue` |
| `Timer` | `Timer`'s members as functions of its value | |
| `PolledTimer` (`MCPolledTimer`) | one timer, its owner and the clock | `Timer` |
| `TimerList` (`MCTimerList`) | `TimerList` | `Timer` |
| `Epoll` | `epoll_ctx`, and the kernel's epoll and files | |
| `EpollExecutor` (`MCEpollExecutor`) | `epoll_executor`, or an `epoll_ctx` used directly | `Epoll` |
| `MoveOnly` | `MoveOnly<T>` | |
| `Coroutines` | `OwnedCoroutine`, the promises, `Task::execute`, the awaitables | `MoveOnly` |
| `Handles` | owners of descriptors and of rings, and the descriptor table | |
| `Syscalls` | wrappers, lookups, translation of errors, page size | |
| `Sockets` (`MCSockets`) | the interface `socket<T>` | `Syscalls` |
| `BufferQueueProofs`, `PolledTimerProofs`, `MoveOnlyProofs`, `CoroutinesProofs`, `HandlesProofs`, `SocketsProofs`, `EpollExecutorProofs` | theorems | |
| `Recursion` | induction and recursion for the proofs | |

### BufferQueue

A `RefBuffer` is an interval of the submitted byte stream, so that the contents
of a buffer say which bytes the next write would send. `push` is one step (two
overloads: one buffer is a sequence of one). `pop` is a frame on a stack: `pop`
does everything up to the loop over callbacks (early return, asserts, `consume`,
`buffer_size`), then `InvokeFront`, `CallbackReturns` (which is where the code
calls `pop_front`), `ShrinkFront` and `PopReturns` are the paths through the
loop. While a callback runs (`invoking`) its code may call `push`, and `pop` up
to `MaxDepth`; it may leave by an exception, which `pop` does not catch.
`consume` is the code's `erase_if` with its stateful predicate, not what the
comments say of it. Its asserts are steps that end the program (`pop_aborts`) in
a debug build; `NDEBUG` is set in release builds (`CMakeLists.txt:27`), and the
model chooses it once from `Builds`. An empty deque read or popped is
`"undefined"`. The initial counters are zero: the library makes queues only
through `handle_map[handle]`, which value-initialises them. `due`, `acked`,
`invoked` and `nested` are history.

### Timers

Nothing runs when a wakeup comes: `update()` runs when the owner asks, and moves
the wakeup of a timer with a period every time. `Timer()` leaves two flags
uninitialised: any values. The clock ticks up to `MaxTime`. In `TimerList` the
top of the heap is any timer than which none is greater by `operator<=>`.

### Epoll and the executor

The kernel keeps, for each handle, the flags that are up, and for the epoll
instance its interest list and the queue of handles with an unreported edge;
`Raise` is an edge whether or not the flag was up. `epoll_wait` skips handles
whose flags went down, reports at most `EVENT_BUFFER_SIZE` and leaves the rest.
Registrations carry the address of the `epoll_ctx`; that `run_once` reads the
other member of the union is modelled as every event having one key. `active` is
set by no constructor: either value at the start.

`epoll_wait` fails with EINTR when a signal ends a wait that blocks. One with
timeout 0 does not sleep and so is not interrupted, and would be told as the same
ETIMEDOUT that it returns for no events. The other errors are of the descriptor
of the epoll instance, which a copy of the `epoll_ctx` or another owner of
descriptors may close (`Handles`): `efd` says whether the number is still the
epoll's, closed (EBADF), or another file's (EINVAL), and `Lose` closes it. The
interest list goes with it. A close during a wait takes effect when the wait is
over, since the kernel holds the file until then, so that `Lose` waits for that.
EFAULT cannot happen: the events array is a member. `run_once` drops each of
these errors (`RunOnceFails`) and `run` loops on. `mode = "direct"` is an `epoll_ctx` with no executor,
whose user passes timeouts. The thread that is in `run` calls no user code, so
it can add no handles there, and the class has no synchronisation for a second
one to do so.

### MoveOnly, Coroutines

`MoveOnly`'s optional is a set of at most one value; moving from an optional
copies the value out and leaves the optional engaged, which is why the
`exchange` matters. A value stands for one construction by an rvalue, so that it
is put into an object once; those in `Shared` may be put into any number of
objects, as a default value is. `Coroutines` extends it: the values are coroutine handles
with the null handle among them, which is the one that is shared (the default
constructor of `OwnedCoroutine` may run any number of times); a user who copies a
`coroutine_handle` out of an object and makes a second owner of it is outside of
the model, as the constructors take the handle over by an rvalue. An `OwnedCoroutine` is an object that is an
*owner*, and the user keeps handles in `MoveOnly` objects of his own, from which
an `OwnedCoroutine` is made by a move (`ownership.h:88`). `OwnedCoroutine` has a
destructor and hence no move of its own. Each coroutine has a frame with a state
and a count of awaits. `stack` is the native stack, of the library's calls only:
`resume`, `execute` in its loop (`"execute"`) and in the call of `resume` in it
(`"executing"`), `await_suspend` before and in (`"suspended"`) its call of
`resume`. The user's code runs when the stack is empty or a running coroutine is
on top, and may then do anything to any object. A coroutine that ends by an
exception leaves it in its promise (`eptr`), which nothing clears. Undefined
behaviour ends what is looked at, with its reason. `Task`'s `promise_type` is
private, so that no function can be a coroutine of that type as the code is; the
model lets it be one, since `execute` can be reached in no other way. `EpollTask`
is `Task` without `execute`. A coroutine's own locals are not modelled: no frame
owns another.

### Handles

`OwnedHandle`'s conversion is modelled as the compiler takes it (`Handle(fd) ==
1`, through `operator bool`, `handle.h:18`), over a descriptor table in which
`open` takes the lowest free number, together with the user's own descriptors.
`socket`, `epoll_create1` and the set-up of a ring may fail at any time, with
descriptors left or not.
An `io_uring_handle` sets up its ring in the storage of a `MoveOnly` that is made
empty and that nothing fills, so that its destructor never exits the ring
(`HoldsARing == FALSE`); a constructor that throws after the set-up leaves the
ring as well. liburing's `io_uring_register_ring_fd` returns 1 when it succeeds,
which line 24 takes for an error; the model allows both ends of the constructor.

### Syscalls, Sockets

`errno` is left by one call and seen by the next. Each wrapper is one action by
what it tells its caller; switches without a matching case are undefined.
`vectored` is `readv` and `writev`, which convert their buffers to an array of
`IOV_MAX` entries: more than that end a debug build in the assertion and overrun
the array in a release build; either is a possible outcome. `GetPageSize` is one
step: threads that call it meanwhile wait for the first (`call_once`).
`truth` records what the last call really did. A lookup passes `::getaddrinfo` a
null pointer for its result (`dns.cpp:68`): one that fails is translated, with
`errno` for `EAI_SYSTEM` only, and one that succeeds writes through the null
pointer. An `ErrorCode` is an errno or, below 0, a code of a lookup.

`Sockets` is the interface whose operations ask whether `&T::op` is a member
function. It always is: a class that does not define the operation inherits the
interface's. The operation then calls itself, until the stack is used up or,
where the compiler makes the tail call a jump, for ever; the call that goes on is
modelled up to `StackLimit`. `bind` and `connect` do not compile when used
(`dynamic_cast` of a class that is not polymorphic, `syscalls.h:66`), and `send`
compiles only for classes that have their own.

## Runs

Passing runs:

* **BQWhole**: the release build with writes reported at buffer boundaries; a
  push of two buffers is split over two reports. Bytes are neither lost nor
  resent (`ByteFidelity`), callbacks run in order and once, not early, not late,
  every write with bytes completes, `pop` ends also when callbacks push, and the
  queue implements `WriteQueue` with its liveness. Three pushes out of single,
  empty, double buffers and a multi-buffer of none: that is enough for a split
  push with one callback behind and one before it, for zero-byte pushes at
  either side of it, and for a callback that pushes.
* **BQHostile**: both builds, writes reported at buffer boundaries, callbacks
  that throw or call `pop`, four pushes, depth two. Throwing alone makes no
  callback early and skips none (that the bytes are right and the count exact is
  proved for such callbacks too). In the debug build only a report of all that is queued gets
  past the asserts, which is why the release build is looked at too.
* **PolledTimer**: five ticks, wakeups before and after the start, two intervals
  and an interval of zero, three armings: enough for two expiries and an arming
  between them.
* **EpollExecutor**: two handles and a buffer of *one* event, so that one handle
  always waits for the next call; an int of at most 7, the timeouts at this edge,
  one past it (8), which wraps to a wait without end, and below zero. The epoll
  instance may be lost at any time. `WaitsReturn` is about waits that are given a
  timeout which fits and is not negative; of an absent one see below. `EdgesAreQueued` says that an edge is
  not dropped between two calls: what `epoll_wait` takes off its queue `wait`
  hands on, and the rest stays in the queue. `NoEdgeLost` adds that
  while `run` loops an edge is reported in the end unless the handle is drained,
  closed or removed, although the other handle keeps raising edges.
* **Coroutines**: two coroutines and the null handle, which any number of objects
  may hold, three objects, two awaits
  in each body: a coroutine runs another that fails while both have awaited, and
  a handle is moved out, back and into an `OwnedCoroutine`. Owners are unique, no
  value is lost, no frame is destroyed twice or used when gone, `execute` tells
  a failure once and never resumes a coroutine at its end, and calls return. An
  await never yields: that is what the code does, and what an executor would not
  want. A third coroutine adds depth to the stack and no new pair of neighbours
  on it.
* **Handles**: four descriptors (three in use at the start), two more files, two
  objects: a freed descriptor is reused by another object while the one that
  frees it is alive. An epoll or a ring whose object lives is closed by nobody
  else, until an `epoll_ctx` is copied; descriptor 1 is excepted, which every
  `OwnedHandle` closes.
* **Sockets**: three errno values, one of them (`EHOSTDOWN`) without a case;
  three codes of lookups, one (`EAI_OVERFLOW`) without; a family that is not of
  IP; an option that is not known and a buffer too small for the one that is;
  lists of as many buffers as fit and of one more; `TcpSocket`, which defines no
  operation, and a class that has all of its own. `OverridesAreReached`: the interface passes
  what the class defines to the class, before it calls anything else. Four calls
  deep is enough to see that an inherited operation only calls itself.

Violations, each a disagreement of the code with its own comments:

* **BQResend** (`buffer.h:282`): after a write that ends inside a buffer the
  whole buffer is sent again. In a debug build the assert on line 276 ends the
  program instead.
* **TimerListOrder** (`timer_list.h:62`): the list is a max-heap, `next()` is
  the last timer to wake up.
* **EpollCachePerHandle** (`epoll_executor.h:75`): `.data.ptr` is stored and
  `.data.fd` is read, so all handles share one cache entry.
* **EpollErrorsSeen** (`epoll_executor.h:35`): flags above 1 do not fit fields
  of one bit; `has_error()` is always false.
* **HandlesSocketLeak** (`tcp.cpp:44`): the conversion of an `OwnedHandle` gives
  1, so that the destructor closes descriptor 1 and the socket stays open. The
  same conversion hides a failed `socket()` (`tcp.cpp:36`) and registers
  descriptor 1 with the executor.

Seen while modelling and left without a run:

* `callbacks.h:8` calls callbacks one-time-only, but one that throws, or that
  calls `pop` itself, is run again, because it is still at the front of the deque
  (`buffer.h:367-368`).
* `epoll.cpp:62` says that a wait without a timeout will "block forever", and the
  0 it passes returns at once, so that `run()` polls (`NoTimeoutNeverBlocks` in
  `EpollExecutorProofs` shows that no such wait is made with another timeout).
* `epoll_executor.cpp:32`: `run_once()` drops every error of `wait()`. When the
  epoll's descriptor is gone, `run()` loops for ever on one that fails at once.
* `dns.cpp:68`: no lookup returns addresses. `::getaddrinfo` is given the null
  pointer that `addr_list` is made from, so that one that succeeds writes through
  it, before the assertion on line 72 and the list that line 76 walks.
* `socket.h:61` and its like: an operation that a class inherits calls itself. The
  fallbacks to the wrappers (`socket.h:64,183,208,219,230`) are there for such
  classes and are never reached; `OnlyOverridesReturn` in `SocketsProofs` shows it
  for any classes.
* `io_uring.cpp:24`: a registration that succeeds returns 1, which the constructor
  takes for an error; and `io_uring.cpp:29-33`: the destructor never exits the ring,
  because it asks a `MoveOnly` that nothing filled. Each ring is leaked.
* `syscalls.cpp:377,398`: the bound on the number of buffers is an assertion only,
  and the caller of a release build is told of nothing.
* `page_size.cpp:16`: a `sysconf()` that fails once makes the page size 4096.
* `buffer.h:355`: the assert compares the bytes reported with all bytes ever
  pushed, of which none are taken off.
* `buffer.h:316`: a `BufferQueue` made with `BufferQueue q;` has counters of
  unknown values.
* `buffer.h:131,221,225`: asserts accept an index that equals the size.
* `buffer.h:91`: the `static_assert` of `RefBuffer`'s constructor reads the other
  way round than its comment.
* `buffer.h:296`, `buffer.cpp:28`: a page is allocated with an alignment and
  freed without.
* `timer_list.h:151`: `next()` of an empty list is undefined.
* `syscalls.cpp:364`: `getsockopt` gives the kernel a length of 0 and hands on
  as many bytes.
* `socket.h:125,168`: the branch for `EAGAIN` makes a callback of the arguments
  and drops it; it is not reached, since the function calls the class's before.
* `ownership.h:100`: the conversion of an `OwnedCoroutine` uses an `address()`
  that `MoveOnly` has not.
* `runtime.cpp:21`: `runtime_st` is `noexcept` around an `epoll_ctx` that may throw.

## Fairness

`BufferQueue!Spec`: the thread inside `pop` keeps running, and callbacks return;
nothing makes the user push or pop. `PolledTimer`: time passes and the owner
keeps asking, which is the only way a timer is used. `EpollExecutor`: the thread
inside `run` calls `wait` again (weak fairness on the call, whether it waits or
fails), and the kernel ends a wait that has something to report or whose time is up. Opening, closing,
draining, raising, adding, losing the epoll and `run_once` by itself are not
fair, nor are signals.
`Coroutines`: the library's own steps go on (weak fairness), and the body of a
coroutine that runs again and again ends (strong fairness, since it is left
whenever it calls another): `execute` returns only because bodies do. `MoveOnly`,
`Handles` and `Sockets` state nothing that must happen, and no fairness.

## Proofs

All theorems hold for every value of the constants, under the assumption each
module names for its constants.

* `QueueTyped`: `SafeSpec => []TypeOK`. The work is in the recursive functions
  `Offsets` and `erase_if`: `PrefixRecursion` (module `Recursion`) shows that
  functions defined by recursion on a prefix exist, from which they satisfy the
  equations that define them; that they keep their type follows by induction
  stated with sets.
* `EmptyAlwaysExact`: the count read by `empty()` is the number of buffers,
  whatever callbacks do.
* `CallbacksRunInOrderOnce`, `CallbacksRunNeverEarly`, `CallbacksRunNeverLate`,
  for callbacks that do not throw and do not call `pop` (`Flat`; the runs show
  what happens otherwise), for any writes and any reports, also those that end
  inside buffers. None of them is inductive. `OrderInv` relates the deque to the
  history: the k-th entry belongs to the k-th push not yet run, its size is what
  of that push is not yet counted (`Queued`, `Waiting`), what was reported and
  what was counted agree outside `pop` (`CaughtUp`), offsets ascend, the counted
  bytes have passed the ends of all pushes that ran (`Reached`) and have reached
  no further than the front entry (`Partial`).
* `BytesAreFaithful`, also for callbacks that throw and nest: what the queue
  holds is the stream from the bytes reported to the bytes submitted (`Spans`).
  The property itself is inductive, and the work is in what `consume` does to a
  sequence: `SpansAppend` for `push`; for `pop`, `ScanWhole` says what the scan
  of `erase_if` has summed up and kept after each buffer when the report ends at
  a buffer's end, by induction over the scan. The assumption (`WholeOrChecked`)
  is that reports end at buffers' ends or that the build has its asserts; the
  run BQResend shows that the theorem does not hold without it.
* `ThrowingIsNeverEarly`, `ThrowingSkipsNone`: for all writes, reports, builds and
  callbacks, from `ThrowInv`, which holds as long as no callback called `pop`. A
  callback that throws stays at the front, so that the deque is still that of the
  last pushes (`Consecutive`) and its front is the callback run last or the next
  (`AtFront`); those behind it wait for all bytes of their push
  (`WaitingForAll`), and the front for so many that they reach the end of its
  push or further (`FrontReaches`): what a throwing `pop` had counted and
  forgets makes callbacks later, never earlier.
* `QueueImplementsWriteQueue`: `SafeSpec => WQ!SafeSpec` for flat callbacks and
  whole reports, step by step: `push` submits, `pop` takes what is reported (by
  `BytesAreFaithful` no more than was submitted), `InvokeFront` completes the
  next write (by `OrderInv`), and all other steps stutter.
* `TimerTyped`, `TimerExpiresOnce`, `TimerFiresWhenLeftAlone`,
  `TimerFiresWhenFirstAsked`: from `TimerInv`, which adds that an active timer
  without a period has an arming left (`Allowance`) and where the wakeup of a
  timer that was only asked lies (`Interval`, `Wakeup`). `TimerTyped` includes
  that no wakeup is set further ahead than an interval (`WellSet`).
* `ValuesHaveUniqueOwners`, `MovesLoseNothing`: for any objects and values.
* `HandlesHaveUniqueOwners`: each step of `Coroutines` is one of `MoveOnly` or
  leaves the objects alone, as it is made of its actions; up to the null handle,
  which is shared.
* `HandlesStayAlive`: from `Frames`, which adds to the ownership of values what
  the frames of the handles are; the only step that takes a frame away takes the
  one object with its handle.
* `CoroutinesTyped`, `AwaitsNeverYield`, `FailuresToldOnce`,
  `OnlyMisuseIsUndefined`: from `CoroutinesInv`. None is inductive, since what a
  call finds when another returns to it depends on the whole stack. `Shape` says
  that the calls of one coroutine follow one another, that those of another are
  on top of a `resume`, and that `execute` comes first of its coroutine; `Nested`
  that all coroutines under the innermost are running and which state the
  innermost is in; `Told` what `execute` has thrown, by the calls in progress.
* `TableTyped`: the descriptor table, the epoll's interest list and the owners.
  `ContextsKeepTheirEpoll`: from `Apart`, by which contexts,
  rings that have an object, and the user have disjoint descriptors, all but descriptor 1, of which
  nothing is known. That the lowest free descriptor exists is an induction, by
  `NatInductionSet`.
* `SyscallsTyped`, `ErrorsAreOfTheirCalls`, `FailuresAlwaysReported`,
  `OnlyTheUnknownIsUndefined`: of the wrappers, used directly or through the
  interface, whose steps are theirs or leave their state alone. The conjunction of
  the four properties is inductive, since each call sets what it tells and what
  happened together.
* `OverridesReached`: for any classes and any stack, from `CallInv`, which says how
  deep each function runs: the interface calls itself only for operations that the
  class inherits.
* `ExecutorTyped`, `EveryEdgeIsQueued`: for any handles, flags, timeouts, buffer
  and width of int. Both from `EpollInv`: the ready queue has registered, open
  handles once each (`KernelInv`), an edge not told of is on a flag that is still
  up, and its handle is queued (`EdgesInv`). The first half of `EdgesInv` is what
  the second needs when `epoll_wait` passes over handles whose flags are down.
  `KeptQueue` and `SubQueue` say what filtering and cutting do to a queue
  without repetition.
* `HasErrorNeverHolds`: of no mask, which is what EpollErrorsSeen shows of one.

Specifications with fairness imply the ones without, so that the theorems of
`SafeSpec` hold of `Spec`.

The steps keep facts about `Len` apart from facts about functions whose domain
does not start at 1, such as `Offsets`, and facts about sequences apart from
facts about the sets of their members, as in `FrontFacts` and `AppendFacts`.

Every invariant and every action property of the passing runs is proved.
Only model-checked is liveness, which is out of this prover's reach:
`EveryWriteCompletes`, `PopTerminates`, `ElapsesInTheEnd`, `NoEdgeLost`,
`WaitsReturn`, `CallsReturn`, and of `ImplementsWriteQueue` the part that writes
complete in the end. The kernel's queue is filtered by a recursive function
(`Kept`) and the cache is stated by what a batch leaves in it (`Cached`), since
the library has no facts about `SelectSeq` and `FoldLeft` to prove with.

## Not modelled, and why

* `runtime_st::run`: its flag is false and never set, it returns at once. A loop
  like it is `epoll_executor::run`, which is modelled.
* `PageBuffer`, `OwningBuffer`, byte order and layout of addresses, the
  comparison of error codes with each other: values that do not change.
* `get_sqe` and the executor of io_uring, which is declared and has no member
  that does anything: no entry of a ring is ever submitted.
* The text of `TcpSocket`'s and the addresses' constructors from strings.
* `socket<T>::bind` and `connect`: see above.
* The conversion and the comparisons of `OwnedCoroutine`; `EpollEventGenerator`,
  which has no operation.
* Two threads in one component: nothing in the library locks; the page size is
  the one exception, and `call_once` makes it one step.

## Plan

1. Done: all components that have state: the queue with its abstract
   specification, timers, the epoll loop, owners of values, frames, descriptors
   and rings, the wrappers with lookups and the socket interface; types and order
   of the queue, timers, moves, coroutines, owners and wrappers proved.
2. Done: the bytes of the queue, throwing callbacks, the refinement of
   `WriteQueue`, and the ready queue of the epoll module. Left to prove: which
   timer `TimerList` does return, for any timers; and what a report that ends
   inside a buffer leaves in the queue, in place of `BytesAreFaithful`.
3. When the library connects its parts, their composition: the executor with the
   write queue in its `handle_map`, `socket::send` in front of that queue, the
   awaitables with an executor that resumes them.
