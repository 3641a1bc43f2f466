---------------------------- MODULE BufferQueue ----------------------------
(***************************************************************************)
(* n3::BufferQueue (src/buffer.h): the queue of scatter-gather buffers     *)
(* waiting to be written on one handle, and of the one-shot callbacks to   *)
(* run when the bytes of a push have been written.                         *)
(*                                                                         *)
(* A RefBuffer is the interval of the submitted byte stream it refers to.  *)
(* push() is one step; pop() is a frame on a call stack, because the       *)
(* callbacks it runs are user code that may call the queue again.  An      *)
(* assert that fails ends the program in a debug build and is absent from  *)
(* a release build (CMakeLists.txt:27, -DNDEBUG).                          *)
(***************************************************************************)
EXTENDS Integers, Sequences

CONSTANTS
  Builds,             \* the builds looked at: the values of NDEBUG
  Calls,              \* the arguments of push(): sequences of buffer sizes
  MaxPushes,          \* bound on the number of calls of push()
  MaxDepth,           \* how deep pop() may nest; 1: no callback calls pop()
  WholeBuffers,       \* TRUE: the caller reports only whole buffers written
  CallbacksMayThrow   \* TRUE: a callback may leave pop() by an exception

ASSUME ConstantsAssumption ==
  /\ {WholeBuffers, CallbacksMayThrow} \subseteq BOOLEAN
  /\ Builds \subseteq BOOLEAN
  /\ Calls \subseteq Seq(Nat)
  /\ MaxPushes \in Nat
  /\ MaxDepth \in Nat \ {0}

VARIABLES
  NDEBUG,             \* TRUE: release build, FALSE: debug build with asserts
  buffers,            \* RefMultiBuffer: sequence of [base, len]
  callbacks,          \* deque of [cb, size]; cb is the number of its push
  buffer_size,
  buffer_bytes_size,
  frames,             \* active calls of pop(), innermost last
  outcome,            \* "running", or how the program ended
  due,                \* history: due[c] is the stream offset where push c ends
  acked,              \* history: bytes reported to pop() so far
  invoked,            \* history: the callbacks run, in order
  nested              \* history: a callback has called pop()

queue == <<buffers, callbacks, buffer_size, buffer_bytes_size>>
vars == <<NDEBUG, queue, frames, outcome, due, acked, invoked, nested>>

Front(s) == SubSeq(s, 1, Len(s) - 1)
Last(s) == s[Len(s)]

\* Offsets(s)[i] is the number of bytes in the first i buffers.
Offsets(sizes) ==
  LET off[i \in 0 .. Len(sizes)] == IF i = 0 THEN 0 ELSE off[i - 1] + sizes[i]
  IN  off

Sizes(bufs) == [i \in 1 .. Len(bufs) |-> bufs[i].len]

size_bytes(bufs) == Offsets(Sizes(bufs))[Len(bufs)]

Submitted == IF due = <<>> THEN 0 ELSE Last(due)
-----------------------------------------------------------------------------
(***************************************************************************)
(* RefMultiBuffer::consume.                                                *)
(***************************************************************************)

\* std::erase_if with its stateful predicate: every buffer is visited, the
\* first one kept takes what is left of bytes, so that afterwards only
\* empty buffers are erased.
erase_if_strictly_smaller(bufs, bytes) ==
  LET scan[i \in 0 .. Len(bufs)] ==
        IF i = 0 THEN [sum |-> 0, kept |-> <<>>]
        ELSE LET before == scan[i - 1]
                 remaining == bytes - before.sum
             IN  IF bufs[i].len < remaining
                 THEN [before EXCEPT !.sum = @ + bufs[i].len]
                 ELSE [sum |-> before.sum + remaining,
                       kept |-> Append(before.kept, bufs[i])]
  IN  scan[Len(bufs)]

erase_if(bufs, bytes) ==
  LET scan[i \in 0 .. Len(bufs)] ==
        IF i = 0 THEN [sum |-> 0, kept |-> <<>>]
        ELSE LET before == scan[i - 1]
                 remaining == bytes - before.sum
             IN  IF bufs[i].len <= remaining
                 THEN [before EXCEPT !.sum = @ + bufs[i].len]
                 ELSE [sum |-> before.sum + remaining,
                       kept |-> Append(before.kept, bufs[i])]
  IN  scan[Len(bufs)]

drop(buf, n) == [base |-> buf.base + n, len |-> buf.len - n]

consume(bufs, bytes) ==
  LET scan == erase_if(bufs, bytes)
  IN  IF scan.kept = <<>>
      THEN <<>>
      ELSE [scan.kept EXCEPT ![1] = drop(@, bytes - scan.sum)]

\* The asserts of consume(), in order.
consume_asserts(bufs, bytes) ==
  LET scan == erase_if(bufs, bytes)
      remaining == bytes - scan.sum
  IN  /\ bytes <= size_bytes(bufs)
      /\ scan.sum <= bytes
      /\ scan.kept = <<>> => scan.sum = bytes
      /\ scan.kept # <<>> => remaining > 0 /\ scan.kept[1].len > remaining
-----------------------------------------------------------------------------
Init ==
  /\ NDEBUG \in Builds
  /\ buffers = <<>>
  /\ callbacks = <<>>
  /\ buffer_size = 0
  /\ buffer_bytes_size = 0
  /\ frames = <<>>
  /\ outcome = "running"
  /\ due = <<>>
  /\ acked = 0
  /\ invoked = <<>>
  /\ nested = FALSE

Idle == frames = <<>>

\* The condition of pop()'s loop, and of its body.
LoopContinues_skipping_last_byte(remaining) == remaining > 1
LoopContinues_unsigned_ge(remaining) == remaining >= 0
LoopContinues(remaining) == remaining > 0

Covered_strictly(front, remaining) == front.size < remaining
Covered_always(front, remaining) == TRUE
Covered(front, remaining) == front.size <= remaining

pop_front_at_wrong_end(deque) == Front(deque)
pop_front(deque) == Tail(deque)

\* The user runs between calls of the queue and inside a callback.
UserRuns ==
  /\ outcome = "running"
  /\ ~Idle => Last(frames).invoking

\* A pop() is between two steps of its loop.
PopRuns ==
  /\ outcome = "running"
  /\ ~Idle
  /\ ~Last(frames).invoking

Pending_first_buffer(cb, sizes) ==
  [cb |-> cb, size |-> IF sizes = <<>> THEN 0 ELSE sizes[1]]

\* The pair pushed on the deque: a callback and the bytes it waits for.
Pending(cb, sizes) == [cb |-> cb, size |-> Offsets(sizes)[Len(sizes)]]

\* What a call of push() adds to buffer_size.
Added_one(sizes) == 1
Added(sizes) == Len(sizes)

\* push(): one buffer, or the buffers of a RefMultiBuffer, and one callback.
push(sizes) ==
  LET bytes == Offsets(sizes)[Len(sizes)]
      bufs == [i \in 1 .. Len(sizes) |->
                [base |-> Submitted + Offsets(sizes)[i - 1], len |-> sizes[i]]]
  IN  /\ UserRuns
      /\ Len(due) < MaxPushes
      /\ buffer_size' = buffer_size + Added(sizes)
      /\ buffer_bytes_size' = buffer_bytes_size + bytes
      /\ buffers' = buffers \o bufs
      /\ callbacks' = Append(callbacks, Pending(Len(due) + 1, sizes))
      /\ due' = Append(due, Submitted + bytes)
      /\ UNCHANGED <<NDEBUG, frames, outcome, acked, invoked, nested>>

\* The byte counts a caller may report: what a write of the queued buffers
\* can have taken.  pop() asserts that it is not more than is queued.
Reports ==
  IF WholeBuffers
  THEN {Offsets(Sizes(buffers))[i] : i \in 0 .. Len(buffers)}
  ELSE 0 .. size_bytes(buffers)

\* pop() on a queue that is empty() returns at once and changes nothing.
PopCalled(bytes) ==
  /\ UserRuns
  /\ Len(frames) < MaxDepth
  /\ buffer_size # 0
  /\ bytes \in Reports

pop_asserts(bytes) ==
  /\ bytes <= buffer_bytes_size
  /\ callbacks # <<>>
  /\ consume_asserts(buffers, bytes)

\* pop(), up to its loop over the callbacks.
pop(bytes) ==
  /\ PopCalled(bytes)
  /\ ~NDEBUG => pop_asserts(bytes)
  /\ buffers' = consume(buffers, bytes)
  /\ buffer_size' = Len(consume(buffers, bytes))
  /\ frames' = Append(frames, [remaining |-> bytes, invoking |-> FALSE])
  /\ acked' = acked + bytes
  /\ nested' = (nested \/ ~Idle)
  /\ UNCHANGED <<NDEBUG, callbacks, buffer_bytes_size, outcome, due, invoked>>

pop_aborts(bytes) ==
  /\ PopCalled(bytes)
  /\ ~NDEBUG
  /\ ~pop_asserts(bytes)
  /\ outcome' = "aborted"
  /\ UNCHANGED <<NDEBUG, queue, frames, due, acked, invoked, nested>>

\* The loop finds no callback for the bytes that remain.
LoopFindsNoCallback ==
  /\ PopRuns
  /\ LoopContinues(Last(frames).remaining)
  /\ callbacks = <<>>
  /\ outcome' = IF NDEBUG THEN "undefined" ELSE "aborted"
  /\ UNCHANGED <<NDEBUG, queue, frames, due, acked, invoked, nested>>

\* The front callback is covered by what remains: its code starts to run.
InvokeFront ==
  /\ PopRuns
  /\ callbacks # <<>>
  /\ LET remaining == Last(frames).remaining
         front == callbacks[1]
     IN  /\ LoopContinues(remaining)
         /\ Covered(front, remaining)
         /\ frames' = [frames EXCEPT ![Len(frames)] =
                        [remaining |-> remaining - front.size, invoking |-> TRUE]]
         /\ invoked' = Append(invoked, front.cb)
  /\ UNCHANGED <<NDEBUG, queue, outcome, due, acked, nested>>

\* The front callback is covered in part: the loop ends.
ShrinkFront ==
  /\ PopRuns
  /\ callbacks # <<>>
  /\ LET remaining == Last(frames).remaining
     IN  /\ LoopContinues(remaining)
         /\ ~Covered(callbacks[1], remaining)
         /\ callbacks' = [callbacks EXCEPT ![1].size = @ - remaining]
         /\ frames' = [frames EXCEPT ![Len(frames)].remaining = 0]
  /\ UNCHANGED <<NDEBUG, buffers, buffer_size, buffer_bytes_size, outcome,
                 due, acked, invoked, nested>>

InCallback ==
  /\ outcome = "running"
  /\ ~Idle
  /\ Last(frames).invoking

\* The callback returns and pop_front() removes the front of the deque.
CallbackReturns ==
  /\ InCallback
  /\ IF callbacks = <<>>
     THEN outcome' = "undefined" /\ UNCHANGED <<callbacks, frames>>
     ELSE /\ callbacks' = pop_front(callbacks)
          /\ frames' = [frames EXCEPT ![Len(frames)].invoking = FALSE]
          /\ UNCHANGED outcome
  /\ UNCHANGED <<NDEBUG, buffers, buffer_size, buffer_bytes_size, due, acked,
                 invoked, nested>>

\* The callback leaves by an exception, which pop() does not catch.
CallbackThrows ==
  /\ CallbacksMayThrow
  /\ InCallback
  /\ frames' = Front(frames)
  /\ UNCHANGED <<NDEBUG, queue, outcome, due, acked, invoked, nested>>

PopReturns ==
  /\ PopRuns
  /\ ~LoopContinues(Last(frames).remaining)
  /\ frames' = Front(frames)
  /\ UNCHANGED <<NDEBUG, queue, outcome, due, acked, invoked, nested>>

PopStep == InvokeFront \/ ShrinkFront \/ LoopFindsNoCallback \/ PopReturns

Next ==
  \/ \E sizes \in Calls : push(sizes)
  \/ \E bytes \in Reports : pop(bytes) \/ pop_aborts(bytes)
  \/ PopStep
  \/ CallbackReturns
  \/ CallbackThrows

SafeSpec == Init /\ [][Next]_vars

\* The thread inside pop() keeps running, and callbacks return.  Nothing
\* makes the user call push() or pop().
Spec == SafeSpec /\ WF_vars(PopStep) /\ WF_vars(CallbackReturns)
-----------------------------------------------------------------------------
Buffer == [base : Nat, len : Nat]
Callback == [cb : Nat, size : Nat]
Frame == [remaining : Nat, invoking : BOOLEAN]

\* The types of the queue's members and of the history.
TypeOK ==
  /\ NDEBUG \in BOOLEAN
  /\ buffers \in Seq(Buffer)
  /\ callbacks \in Seq(Callback)
  /\ buffer_size \in Nat
  /\ buffer_bytes_size \in Nat
  /\ frames \in Seq(Frame)
  /\ outcome \in {"running", "aborted", "undefined"}
  /\ due \in Seq(Nat)
  /\ acked \in Nat
  /\ invoked \in Seq(Nat)
  /\ nested \in BOOLEAN

\* The buffers handed to the next write are exactly the bytes submitted and
\* not yet reported written, in order: nothing is sent twice or skipped
\* (consume() and its "partial consumption of the remaining head buffer").
ByteFidelity ==
  outcome = "running" =>
    /\ acked + size_bytes(buffers) = Submitted
    /\ \A i \in 1 .. Len(buffers) :
         buffers[i].base = acked + Offsets(Sizes(buffers))[i - 1]

\* Callbacks run in the order of the pushes and each at most once ("this is
\* a one-time-only callback", callbacks.h:8).
InOrderOnce == \A i \in 1 .. Len(invoked) : invoked[i] = i

\* No callback is skipped, whatever the callbacks before it do.
NoCallbackSkipped ==
  \A i \in 1 .. Len(invoked) :
    invoked[i] <= 1 + IF i = 1 THEN 0 ELSE invoked[i - 1]

\* No callback runs before the last byte of its push was reported written,
\* however writes were split over calls of pop().
NeverEarly == \A i \in 1 .. Len(invoked) : due[invoked[i]] <= acked

\* Callbacks that throw make no other callback run before its bytes are
\* written: what pop() had counted for the callbacks it leaves in the deque
\* is forgotten.  Only a callback that itself calls pop() can do so.
NeverEarlyUnlessNested == ~nested => NeverEarly

\* However callbacks throw out of pop(), no callback is passed over; only
\* pop() within a callback removes one that has not run.
SkipsOnlyIfNested == ~nested => NoCallbackSkipped

\* When pop() has returned, every push whose bytes are all written has had
\* its callback; only pushes of no bytes at the very end of what is written
\* may still be waiting for theirs.
NeverLate ==
  Idle /\ outcome = "running" =>
    \A c \in Len(invoked) + 1 .. Len(due) :
      due[c] <= acked => due[c] = IF c = 1 THEN 0 ELSE due[c - 1]

\* The cached count that empty() reads agrees with the buffers, also while a
\* callback that pushes is running inside pop().
EmptyIsExact == buffer_size = Len(buffers)

\* Every push of at least one byte whose bytes are all reported written has
\* its callback run: the loop of pop() does not give up on the way.
EveryWriteCompletes ==
  \A c \in 1 .. MaxPushes :
    (c <= Len(due) /\ due[c] <= acked /\ due[c] > IF c = 1 THEN 0 ELSE due[c - 1])
      ~> (c <= Len(invoked) \/ outcome # "running")

\* pop() returns, also when its callbacks push more writes.
PopTerminates == ~Idle ~> (Idle \/ outcome # "running")

WQ == INSTANCE WriteQueue WITH completed <- Len(invoked)

\* The queue implements the promise of a write queue.
ImplementsWriteQueue == WQ!Spec
=============================================================================
