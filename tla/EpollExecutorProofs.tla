------------------------ MODULE EpollExecutorProofs ------------------------
(***************************************************************************)
(* The epoll_ctx and the loop of the executor, for any handles, flags and  *)
(* timeouts, any size of the event buffer and any width of int.            *)
(***************************************************************************)
EXTENDS EpollExecutor, Recursion, SequenceTheorems

-----------------------------------------------------------------------------
(***************************************************************************)
(* The ready queue: a sequence of handles without repetition.              *)
(***************************************************************************)

Queue(q) == q \in Seq(Handles) /\ IsInjective(q)

LEMMA NoHandles == Queue(<<>>) /\ \A y : ~Contains(<<>>, y)
<1>1. <<>> \in Seq(Handles) /\ Len(<<>>) = 0
  OBVIOUS
<1> QED
  BY <1>1 DEF Queue, IsInjective, Contains

LEMMA AppendQueue ==
  ASSUME NEW q, Queue(q), NEW x \in Handles, ~Contains(q, x)
  PROVE  /\ Queue(Append(q, x))
         /\ \A y : Contains(Append(q, x), y) <=> Contains(q, y) \/ y = x
<1> DEFINE n == Len(q)
<1> DEFINE r == Append(q, x)
<1>1. q \in Seq(Handles) /\ n \in Nat
  BY DEF Queue
<1>2. /\ r \in Seq(Handles) /\ Len(r) = n + 1 /\ r[n + 1] = x
      /\ \A i \in 1 .. n : r[i] = q[i]
  BY <1>1
<1>3. /\ \A i, j \in 1 .. n : q[i] = q[j] => i = j
      /\ \A i \in 1 .. n : q[i] # x
  BY <1>1 DEF Queue, IsInjective, Contains
<1>4. DOMAIN r = 1 .. n + 1
  BY <1>1, <1>2
<1> HIDE DEF r
<1>5. IsInjective(r)
  <2> SUFFICES ASSUME NEW i \in 1 .. n + 1, NEW j \in 1 .. n + 1, r[i] = r[j] PROVE i = j
    BY <1>4 DEF IsInjective
  <2> HIDE DEF n
  <2>1. (i \in 1 .. n \/ i = n + 1) /\ (j \in 1 .. n \/ j = n + 1)
    BY <1>1
  <2> QED
    BY <1>2, <1>3, <2>1
<1>6. ASSUME NEW y PROVE Contains(r, y) <=> Contains(q, y) \/ y = x
  <2>1. Contains(r, y) <=> \E i \in 1 .. n + 1 : r[i] = y
    BY <1>2 DEF Contains
  <2>2. Contains(q, y) <=> \E i \in 1 .. n : q[i] = y
    BY DEF Contains
  <2> HIDE DEF n
  <2>3. \A i \in 1 .. n + 1 : i \in 1 .. n \/ i = n + 1
    BY <1>1
  <2>4. n + 1 \in 1 .. n + 1 /\ \A i \in 1 .. n : i \in 1 .. n + 1
    BY <1>1
  <2> QED
    BY <1>2, <2>1, <2>2, <2>3, <2>4
<1> QED
  BY <1>2, <1>5, <1>6 DEF r, Queue

LEMMA SubQueue ==
  ASSUME NEW q, Queue(q), NEW a \in 1 .. Len(q) + 1, NEW b \in 0 .. Len(q), a <= b + 1
  PROVE  /\ Queue(SubSeq(q, a, b))
         /\ Len(SubSeq(q, a, b)) = b - a + 1
         /\ \A y : Contains(SubSeq(q, a, b), y) <=> \E i \in a .. b : q[i] = y
<1> DEFINE r == SubSeq(q, a, b)
<1> DEFINE n == Len(q)
<1>1. q \in Seq(Handles) /\ n \in Nat
  BY DEF Queue
<1>2. /\ r \in Seq(Handles) /\ Len(r) = b - a + 1
      /\ \A i \in 1 .. b - a + 1 : r[i] = q[a + i - 1]
  <2>1. \A i \in a .. b : q[i] \in Handles
    BY <1>1
  <2> QED
    BY <1>1, <2>1, SubSeqProperties
<1>3. DOMAIN r = 1 .. b - a + 1
  BY <1>2
<1>4. \A i, j \in 1 .. n : q[i] = q[j] => i = j
  BY <1>1 DEF Queue, IsInjective
<1>5. a \in Nat /\ b \in Nat /\ 1 <= a /\ b <= n
  BY <1>1
<1>6. \A i \in 1 .. b - a + 1 : a + i - 1 \in 1 .. n /\ a + i - 1 \in a .. b
  BY <1>1, <1>5
<1> HIDE DEF r, n
<1>7. IsInjective(r)
  <2> SUFFICES ASSUME NEW i \in 1 .. b - a + 1, NEW j \in 1 .. b - a + 1, r[i] = r[j]
               PROVE  i = j
    BY <1>3 DEF IsInjective
  <2>1. a + i - 1 = a + j - 1
    BY <1>2, <1>4, <1>6
  <2> QED
    BY <1>5, <2>1
<1>8. ASSUME NEW y PROVE Contains(r, y) <=> \E i \in a .. b : q[i] = y
  <2>1. Contains(r, y) <=> \E i \in 1 .. b - a + 1 : r[i] = y
    BY <1>2 DEF Contains
  <2>2. ASSUME NEW i \in a .. b PROVE i - a + 1 \in 1 .. b - a + 1 /\ r[i - a + 1] = q[i]
    <3>1. i - a + 1 \in 1 .. b - a + 1 /\ a + (i - a + 1) - 1 = i
      BY <1>5
    <3> QED
      BY <1>2, <3>1
  <2> QED
    BY <1>2, <1>6, <2>1, <2>2
<1> QED
  BY <1>2, <1>7, <1>8 DEF r, Queue

\* Kept looks at the handles of a queue one by one.
KeepStep(v, x, fds) == IF x \in fds THEN Append(v, x) ELSE v

Keeps(kept, q, n, fds) ==
  kept = [i \in 0 .. n |-> IF i = 0 THEN <<>> ELSE KeepStep(kept[i - 1], q[i], fds)]

LEMMA KeepsExist ==
  ASSUME NEW n \in Nat, NEW q \in [1 .. n -> Handles], NEW fds
  PROVE  \E f : Keeps(f, q, n, fds)
<1> DEFINE V == Seq(Handles)
<1> DEFINE step == [p \in Nat \X V |->
                     IF p[1] \in 1 .. n THEN KeepStep(p[2], q[p[1]], fds) ELSE p[2]]
<1>1. step \in [Nat \X V -> V]
  BY DEF KeepStep
<1>2. \A i \in 1 .. n, v \in V : step[<<i, v>>] = KeepStep(v, q[i], fds)
  OBVIOUS
<1>3. <<>> \in V
  OBVIOUS
<1> HIDE DEF step, V
<1>4. Recursive(V, <<>>, step, n) # {}
  BY <1>1, <1>3, PrefixRecursion, Zenon
<1>5. PICK f \in [0 .. n -> V] :
        f[0] = <<>> /\ \A i \in 1 .. n : f[i] = step[<<i, f[i - 1]>>]
  BY <1>4 DEF Recursive
<1>6. ASSUME NEW i \in 1 .. n PROVE f[i] = KeepStep(f[i - 1], q[i], fds)
  <2>1. f[i - 1] \in V
    OBVIOUS
  <2> QED
    BY <1>2, <1>5, <2>1
<1>7. f = [i \in 0 .. n |-> IF i = 0 THEN <<>> ELSE KeepStep(f[i - 1], q[i], fds)]
  BY <1>5, <1>6
<1> QED
  BY <1>7, Zenon DEF Keeps

\* What Kept returns is a queue of the handles that are in both.
LEMMA KeptQueue ==
  ASSUME NEW q, Queue(q), NEW fds
  PROVE  /\ Queue(Kept(q, fds))
         /\ \A y : Contains(Kept(q, fds), y) <=> Contains(q, y) /\ y \in fds
<1> DEFINE n == Len(q)
<1> DEFINE kept == CHOOSE f : Keeps(f, q, n, fds)
<1>1. q \in [1 .. n -> Handles] /\ n \in Nat
  BY DEF Queue
<1>2. Kept(q, fds) = kept[n]
  BY DEF Kept, Keeps, KeepStep
<1>3. \A i, j \in 1 .. n : q[i] = q[j] => i = j
  BY <1>1 DEF Queue, IsInjective
<1>4. \A y : Contains(q, y) <=> \E j \in 1 .. n : q[j] = y
  BY DEF Contains
<1> HIDE DEF n
<1>5. Keeps(kept, q, n, fds)
  BY <1>1, KeepsExist, Zenon
<1> HIDE DEF kept
<1> DEFINE empty == <<>>
<1>a. kept = [i \in 0 .. n |-> IF i = 0 THEN empty ELSE KeepStep(kept[i - 1], q[i], fds)]
  BY <1>5, Zenon DEF Keeps
<1>b. Queue(empty) /\ \A y : ~Contains(empty, y)
  BY NoHandles
<1> HIDE DEF empty
<1>6. kept[0] = empty /\ \A i \in 1 .. n : kept[i] = KeepStep(kept[i - 1], q[i], fds)
  BY <1>1, <1>a
<1> DEFINE Prefix(i) ==
      /\ Queue(kept[i])
      /\ \A y : Contains(kept[i], y) <=> y \in fds /\ \E j \in 1 .. i : q[j] = y
<1> DEFINE T == {i \in Nat : i \in 0 .. n => Prefix(i)}
<1>7. 0 \in T
  <2>1. ~\E j \in 1 .. 0 : TRUE
    OBVIOUS
  <2>2. Prefix(0)
    BY <1>6, <1>b, <2>1
  <2> QED
    BY <2>2
<1>8. ASSUME NEW k \in Nat, k \in T PROVE k + 1 \in T
  <2> SUFFICES ASSUME k + 1 \in 0 .. n PROVE Prefix(k + 1)
    OBVIOUS
  <2> DEFINE x == q[k + 1]
  <2>1. k \in 0 .. n /\ k + 1 \in 1 .. n /\ k + 1 - 1 = k /\ x \in Handles
    BY <1>1
  <2>2. Prefix(k)
    BY <1>8, <2>1
  <2>3. kept[k + 1] = IF x \in fds THEN Append(kept[k], x) ELSE kept[k]
    BY <1>6, <2>1 DEF KeepStep
  <2>4. \A j \in 1 .. k : q[j] # x
    <3>1. \A j \in 1 .. k : j \in 1 .. n /\ j # k + 1
      BY <1>1, <2>1
    <3> HIDE DEF T
    <3> QED
      BY <1>3, <2>1, <3>1
  <2>5. \A y : (\E j \in 1 .. k + 1 : q[j] = y) <=> (\E j \in 1 .. k : q[j] = y) \/ y = x
    <3>1. \A j \in 1 .. k + 1 : j \in 1 .. k \/ j = k + 1
      OBVIOUS
    <3>2. k + 1 \in 1 .. k + 1 /\ \A j \in 1 .. k : j \in 1 .. k + 1
      OBVIOUS
    <3> QED
      BY <3>1, <3>2
  <2> HIDE DEF T, x
  <2>6. CASE x \in fds
    <3>1. ~Contains(kept[k], x)
      BY <2>2, <2>4
    <3>2. /\ Queue(kept[k + 1])
          /\ \A y : Contains(kept[k + 1], y) <=> Contains(kept[k], y) \/ y = x
      BY <2>1, <2>2, <2>3, <2>6, <3>1, AppendQueue
    <3> QED
      BY <2>2, <2>5, <2>6, <3>2
  <2>7. CASE x \notin fds
    BY <2>2, <2>3, <2>5, <2>7
  <2> QED
    BY <2>6, <2>7
<1> HIDE DEF T
<1>9. n \in T
  BY <1>1, <1>7, <1>8, NatInductionSet
<1>10. Prefix(n)
  BY <1>1, <1>9 DEF T
<1> QED
  BY <1>2, <1>4, <1>10

-----------------------------------------------------------------------------
(***************************************************************************)
(* What the kernel makes of its queue.                                     *)
(***************************************************************************)

LEMMA InQueue ==
  ASSUME NEW q, Queue(q)
  PROVE  \A y : Contains(q, y) => y \in Handles
  BY DEF Queue, Contains

LEMMA EnqueuedQueue ==
  ASSUME Queue(ready), NEW fd \in Handles
  PROVE  /\ Queue(Enqueued(fd))
         /\ \A y : Contains(Enqueued(fd), y) <=> Contains(ready, y) \/ y = fd
<1>1. CASE Contains(ready, fd)
  BY <1>1 DEF Enqueued
<1>2. CASE ~Contains(ready, fd)
  BY <1>2, AppendQueue DEF Enqueued
<1> QED
  BY <1>1, <1>2

LEMMA DequeuedQueue ==
  ASSUME Queue(ready), NEW fd
  PROVE  /\ Queue(Dequeued(fd))
         /\ \A y : Contains(Dequeued(fd), y) <=> Contains(ready, y) /\ y # fd
<1>1. /\ Queue(Dequeued(fd))
      /\ \A y : Contains(Dequeued(fd), y) <=> Contains(ready, y) /\ y \in Handles \ {fd}
  BY KeptQueue, Zenon DEF Dequeued
<1> QED
  BY <1>1, InQueue

LEMMA UpQueue ==
  ASSUME Queue(ready)
  PROVE  /\ Queue(Up)
         /\ \A y : Contains(Up, y) <=> Contains(ready, y) /\ level[y] \cap Reported # {}
<1> DEFINE raised == {fd \in Handles : level[fd] \cap Reported # {}}
<1>1. \A y : y \in raised <=> y \in Handles /\ level[y] \cap Reported # {}
  OBVIOUS
<1> HIDE DEF raised
<1>2. Queue(Up) /\ \A y : Contains(Up, y) <=> Contains(ready, y) /\ y \in raised
  BY KeptQueue, Zenon DEF Up, raised
<1> QED
  BY <1>1, <1>2, InQueue

\* What fits the buffer is reported and the rest stays in the queue.
LEMMA BatchQueue ==
  ASSUME Queue(ready)
  PROVE  LET later == SubSeq(Up, Len(Batch) + 1, Len(Up))
         IN  /\ Queue(Batch) /\ Queue(later)
             /\ Len(Batch) \in 0 .. EVENT_BUFFER_SIZE
             /\ \A y : Contains(Up, y) <=> Contains(Batch, y) \/ Contains(later, y)
<1> DEFINE u == Up
<1> DEFINE n == Len(u)
<1> DEFINE b == IF n < EVENT_BUFFER_SIZE THEN n ELSE EVENT_BUFFER_SIZE
<1>1. Queue(u)
  BY UpQueue, Zenon
<1>2. n \in Nat
  BY <1>1 DEF Queue
<1>3. Batch = SubSeq(u, 1, b)
  BY Zenon DEF Batch
<1>4. \A y : Contains(u, y) <=> \E i \in 1 .. n : u[i] = y
  BY DEF Contains
<1> HIDE DEF u, n
<1>5. b \in Nat /\ b <= n /\ b <= EVENT_BUFFER_SIZE
  BY <1>2, EpollAssumption
<1> HIDE DEF b
<1>6. 1 \in 1 .. n + 1 /\ b \in 0 .. n /\ 1 <= b + 1 /\ b - 1 + 1 = b
  BY <1>2, <1>5
<1>7. /\ Queue(Batch) /\ Len(Batch) = b
      /\ \A y : Contains(Batch, y) <=> \E i \in 1 .. b : u[i] = y
  BY <1>1, <1>3, <1>6, SubQueue DEF n
<1>8. b + 1 \in 1 .. n + 1 /\ n \in 0 .. n /\ b + 1 <= n + 1
  BY <1>2, <1>5
<1> DEFINE later == SubSeq(u, b + 1, n)
<1>9. /\ Queue(later)
      /\ \A y : Contains(later, y) <=> \E i \in b + 1 .. n : u[i] = y
  BY <1>1, <1>8, SubQueue DEF n
<1> HIDE DEF later
<1>10. \A i : i \in 1 .. n <=> i \in 1 .. b \/ i \in b + 1 .. n
  BY <1>2, <1>5
<1>11. \A y : Contains(u, y) <=> Contains(Batch, y) \/ Contains(later, y)
  BY <1>4, <1>7, <1>9, <1>10
<1> QED
  BY <1>5, <1>7, <1>9, <1>11 DEF u, n, later
-----------------------------------------------------------------------------
(***************************************************************************)
(* The invariant of the epoll_ctx and the kernel: the queue holds the      *)
(* registered handles with an edge, each once, and an edge not yet         *)
(* reported is on a flag that is still up.                                 *)
(***************************************************************************)

KernelInv ==
  /\ open \subseteq Handles
  /\ level \in [Handles -> SUBSET Flags]
  /\ interest \subseteq open
  /\ Queue(ready)
  /\ \A fd : Contains(ready, fd) => fd \in interest

EdgesInv ==
  /\ unseen \subseteq interest \X Flags
  /\ \A u \in unseen : u[2] \in level[u[1]]
  /\ EdgesAreQueued

CallInv ==
  /\ DOMAIN call = {"waiting", "requested", "timeout"}
  /\ call.waiting \in BOOLEAN
  /\ call.timeout \in INT_MIN .. INT_MAX
  /\ call.waiting /\ call.requested = nullopt => call.timeout = 0
  /\ Len(returned.events) <= EVENT_BUFFER_SIZE

EfdInv == efd \in {"epoll", "closed", "other"}

EpollInv == KernelInv /\ EdgesInv /\ CallInv

LEMMA InvTypes == EpollInv /\ EfdInv => EpollTypeOK
<1> SUFFICES ASSUME EpollInv, EfdInv PROVE EpollTypeOK
  OBVIOUS
<1>1. Range(ready) \subseteq interest
  <2>1. DOMAIN ready = 1 .. Len(ready)
    BY DEF EpollInv, KernelInv, Queue
  <2> QED
    BY <2>1 DEF EpollInv, KernelInv, Range, Contains
<1> QED
  BY <1>1 DEF EpollInv, KernelInv, EdgesInv, CallInv, EfdInv, EpollTypeOK, Queue

LEMMA ZeroIsInt == 0 \in INT_MIN .. INT_MAX
  BY EpollAssumption DEF INT_MIN

LEMMA InvInit == EpollInit => EpollInv
<1> SUFFICES ASSUME EpollInit PROVE EpollInv
  OBVIOUS
<1>1. KernelInv
  BY NoHandles DEF EpollInit, KernelInv
<1>2. EdgesInv
  BY DEF EpollInit, EdgesInv, EdgesAreQueued
<1>3. 0 \in INT_MIN .. INT_MAX
  BY ZeroIsInt
<1>4. CallInv
  <2>1. call = NoCall /\ returned.events = <<>>
    BY DEF EpollInit
  <2>2. Len(<<>>) <= EVENT_BUFFER_SIZE
    BY EpollAssumption
  <2> QED
    BY <1>3, <2>1, <2>2 DEF CallInv, NoCall
<1> QED
  BY <1>1, <1>2, <1>4 DEF EpollInv

LEMMA CallKept ==
  ASSUME CallInv, UNCHANGED <<call, returned>>
  PROVE  CallInv'
  BY DEF CallInv

LEMMA OpenInv ==
  ASSUME EpollInv, NEW fd \in Handles, Open(fd)
  PROVE  EpollInv'
<1>1. CallInv'
  BY CallKept DEF Open, EpollInv
<1>2. KernelInv'
  BY DEF Open, EpollInv, KernelInv
<1>3. fd \notin interest
  BY DEF Open, EpollInv, KernelInv
<1>4. \A y \in interest : level'[y] = level[y]
  BY <1>3 DEF Open, EpollInv, KernelInv
<1>5. EdgesInv'
  BY <1>4 DEF Open, EpollInv, EdgesInv, EdgesAreQueued
<1> QED
  BY <1>1, <1>2, <1>5 DEF EpollInv

\* A handle that leaves the interest list leaves the queue and the edges.
LEMMA Leaves ==
  ASSUME EpollInv, NEW fd,
         interest' = interest \ {fd}, ready' = Dequeued(fd),
         unseen' = {u \in unseen : u[1] # fd},
         \A y \in interest' : level'[y] = level[y]
  PROVE  /\ EdgesInv'
         /\ Queue(ready') /\ \A y : Contains(ready', y) => y \in interest'
<1>1. Queue(ready) /\ \A y : Contains(ready, y) => y \in interest
  BY DEF EpollInv, KernelInv
<1>2. /\ Queue(ready')
      /\ \A y : Contains(ready', y) <=> Contains(ready, y) /\ y # fd
  BY <1>1, DequeuedQueue, Zenon
<1>3. /\ unseen \subseteq interest \X Flags
      /\ \A u \in unseen : u[2] \in level[u[1]]
      /\ \A u \in unseen : u[2] \in Reported => Contains(ready, u[1])
  BY DEF EpollInv, EdgesInv, EdgesAreQueued
<1>4. unseen' \subseteq interest' \X Flags
  BY <1>3
<1>5. \A u \in unseen' : u \in unseen /\ u[1] # fd /\ u[1] \in interest'
  BY <1>3
<1>6. \A u \in unseen' : u[2] \in level'[u[1]]
  BY <1>3, <1>5
<1>7. EdgesAreQueued'
  BY <1>2, <1>3, <1>5 DEF EdgesAreQueued, Reported, EVENT_MASK
<1> QED
  BY <1>1, <1>2, <1>4, <1>6, <1>7 DEF EdgesInv

LEMMA CloseInv ==
  ASSUME EpollInv, NEW fd \in Handles, Close(fd)
  PROVE  EpollInv'
<1>1. CallInv'
  BY CallKept DEF Close, EpollInv
<1>2. \A y \in interest' : level'[y] = level[y]
  BY DEF Close, EpollInv, KernelInv
<1>3. EdgesInv' /\ Queue(ready') /\ \A y : Contains(ready', y) => y \in interest'
  BY <1>2, Leaves, Zenon DEF Close
<1>4. open' \subseteq Handles /\ level' \in [Handles -> SUBSET Flags] /\ interest' \subseteq open'
  BY DEF Close, EpollInv, KernelInv
<1> QED
  BY <1>1, <1>3, <1>4 DEF EpollInv, KernelInv

LEMMA removeInv ==
  ASSUME EpollInv, NEW fd \in Handles, remove(fd)
  PROVE  EpollInv'
<1>1. CallInv'
  BY CallKept DEF remove, EpollInv
<1>2. \A y \in interest' : level'[y] = level[y]
  BY DEF remove
<1>3. EdgesInv' /\ Queue(ready') /\ \A y : Contains(ready', y) => y \in interest'
  BY <1>2, Leaves, Zenon DEF remove
<1>4. open' \subseteq Handles /\ level' \in [Handles -> SUBSET Flags] /\ interest' \subseteq open'
  BY DEF remove, EpollInv, KernelInv
<1> QED
  BY <1>1, <1>3, <1>4 DEF EpollInv, KernelInv

LEMMA RaiseInv ==
  ASSUME EpollInv, NEW fd \in Handles, NEW flag \in Flags, Raise(fd, flag)
  PROVE  EpollInv'
<1>1. CallInv'
  BY CallKept DEF Raise, EpollInv
<1>2. /\ open' = open /\ interest' = interest /\ interest \subseteq Handles
      /\ level' \in [Handles -> SUBSET Flags]
      /\ flag \in level'[fd] /\ \A y \in Handles : level[y] \subseteq level'[y]
  BY DEF Raise, EpollInv, KernelInv
<1>3. /\ Queue(ready) /\ \A y : Contains(ready, y) => y \in interest
      /\ unseen \subseteq interest \X Flags
      /\ \A u \in unseen : u[2] \in level[u[1]]
      /\ \A u \in unseen : u[2] \in Reported => Contains(ready, u[1])
  BY DEF EpollInv, KernelInv, EdgesInv, EdgesAreQueued
<1>4. CASE fd \in interest
  <2>1. /\ ready' = IF flag \in Reported THEN Enqueued(fd) ELSE ready
        /\ unseen' = unseen \cup {<<fd, flag>>}
    BY <1>4 DEF Raise
  <2>2. Queue(Enqueued(fd)) /\ \A y : Contains(Enqueued(fd), y) <=> Contains(ready, y) \/ y = fd
    BY <1>3, EnqueuedQueue, Zenon
  <2>3. /\ Queue(ready') /\ \A y : Contains(ready', y) => y \in interest
        /\ \A y : Contains(ready, y) => Contains(ready', y)
        /\ flag \in Reported => Contains(ready', fd)
    BY <1>3, <1>4, <2>1, <2>2
  <2>4. KernelInv'
    BY <1>2, <2>3 DEF KernelInv, EpollInv
  <2>5. \A u \in unseen' : u \in unseen \/ (u[1] = fd /\ u[2] = flag)
    BY <2>1
  <2>6. unseen' \subseteq interest' \X Flags
    BY <1>2, <1>3, <1>4, <2>1
  <2>7. \A u \in unseen : u[1] \in Handles
    BY <1>2, <1>3
  <2>8. \A u \in unseen' : u[2] \in level'[u[1]]
    BY <1>2, <1>3, <2>5, <2>7
  <2>9. EdgesAreQueued'
    BY <1>3, <2>3, <2>5 DEF EdgesAreQueued, Reported, EVENT_MASK
  <2> QED
    BY <1>1, <2>4, <2>6, <2>8, <2>9 DEF EpollInv, EdgesInv
<1>5. CASE fd \notin interest
  <2>1. UNCHANGED <<ready, unseen>>
    BY <1>5 DEF Raise
  <2>2. KernelInv'
    BY <1>2, <1>3, <2>1 DEF KernelInv, EpollInv
  <2>3. \A u \in unseen : u[1] \in Handles
    BY <1>2, <1>3
  <2>4. EdgesInv'
    BY <1>2, <1>3, <2>1, <2>3 DEF EdgesInv, EdgesAreQueued, Reported, EVENT_MASK
  <2> QED
    BY <1>1, <2>2, <2>4 DEF EpollInv
<1> QED
  BY <1>4, <1>5

LEMMA LowerInv ==
  ASSUME EpollInv, NEW fd \in Handles, NEW flag \in Flags, Lower(fd, flag)
  PROVE  EpollInv'
<1>1. CallInv'
  BY CallKept DEF Lower, EpollInv
<1>2. KernelInv'
  BY DEF Lower, EpollInv, KernelInv
<1>3. /\ interest' = interest /\ ready' = ready /\ unseen' = unseen \ {<<fd, flag>>}
      /\ \A y \in Handles : level'[y] = IF y = fd THEN level[y] \ {flag} ELSE level[y]
  BY DEF Lower, EpollInv, KernelInv
<1>4. /\ unseen \subseteq interest \X Flags /\ interest \subseteq Handles
      /\ \A u \in unseen : u[2] \in level[u[1]]
      /\ \A u \in unseen : u[2] \in Reported => Contains(ready, u[1])
  BY DEF EpollInv, KernelInv, EdgesInv, EdgesAreQueued
<1>5. \A u \in unseen' : u \in unseen /\ u[1] \in Handles /\ ~(u[1] = fd /\ u[2] = flag)
  BY <1>3, <1>4
<1>6. unseen' \subseteq interest' \X Flags
  BY <1>3, <1>4
<1>7. \A u \in unseen' : u[2] \in level'[u[1]]
  BY <1>3, <1>4, <1>5
<1>8. EdgesAreQueued'
  BY <1>3, <1>4, <1>5 DEF EdgesAreQueued, Reported, EVENT_MASK
<1> QED
  BY <1>1, <1>2, <1>6, <1>7, <1>8 DEF EpollInv, EdgesInv

\* The epoll goes with all it holds.
LEMMA LoseInv ==
  ASSUME EpollInv, NEW file, Lose(file)
  PROVE  EpollInv'
<1>1. CallInv'
  BY CallKept DEF Lose, EpollInv
<1>2. KernelInv'
  BY NoHandles DEF Lose, EpollInv, KernelInv
<1>3. EdgesInv'
  BY DEF Lose, EdgesInv, EdgesAreQueued
<1> QED
  BY <1>1, <1>2, <1>3 DEF EpollInv

\* What is up on a handle when it is added is queued with it.
LEMMA addInv ==
  ASSUME EpollInv, NEW fd \in Handles, add(fd)
  PROVE  EpollInv'
<1>1. CallInv'
  BY CallKept DEF add, EpollInv
<1>2. fd \in open
  BY DEF add, AddError
<1>3. /\ open' = open /\ level' = level /\ interest' = interest \cup {fd}
      /\ ready' = IF level[fd] \cap Reported # {} THEN Enqueued(fd) ELSE ready
      /\ unseen' = unseen \cup {<<fd, flag>> : flag \in level[fd]}
  BY DEF add
<1>4. /\ open \subseteq Handles /\ interest \subseteq open
      /\ level \in [Handles -> SUBSET Flags]
      /\ Queue(ready) /\ \A y : Contains(ready, y) => y \in interest
      /\ unseen \subseteq interest \X Flags
      /\ \A u \in unseen : u[2] \in level[u[1]]
      /\ \A u \in unseen : u[2] \in Reported => Contains(ready, u[1])
  BY DEF EpollInv, KernelInv, EdgesInv, EdgesAreQueued
<1>5. Queue(Enqueued(fd)) /\ \A y : Contains(Enqueued(fd), y) <=> Contains(ready, y) \/ y = fd
  BY <1>4, EnqueuedQueue, Zenon
<1>6. /\ Queue(ready') /\ \A y : Contains(ready', y) => y \in interest'
      /\ \A y : Contains(ready, y) => Contains(ready', y)
      /\ level[fd] \cap Reported # {} => Contains(ready', fd)
  BY <1>3, <1>4, <1>5
<1>7. KernelInv'
  BY <1>2, <1>3, <1>4, <1>6 DEF KernelInv
<1>8. level[fd] \subseteq Flags
  BY <1>4
<1>9. \A u \in unseen' : u \in unseen \/ (u[1] = fd /\ u[2] \in level[fd])
  BY <1>3
<1>10. unseen' \subseteq interest' \X Flags
  BY <1>3, <1>4, <1>8
<1>11. \A u \in unseen' : u[2] \in level'[u[1]]
  BY <1>3, <1>4, <1>9
<1>12. EdgesAreQueued'
  BY <1>4, <1>6, <1>9 DEF EdgesAreQueued, Reported, EVENT_MASK
<1> QED
  BY <1>1, <1>7, <1>10, <1>11, <1>12 DEF EpollInv, EdgesInv

LEMMA ToIntType == \A n \in Int : ToInt(n) \in INT_MIN .. INT_MAX
<1> SUFFICES ASSUME NEW n \in Int PROVE ToInt(n) \in INT_MIN .. INT_MAX
  OBVIOUS
<1> DEFINE d == n - INT_MIN
<1> DEFINE m == INT_MAX - INT_MIN + 1
<1>1. INT_MAX \in Nat /\ INT_MIN \in Int /\ INT_MIN = -INT_MAX - 1
  BY EpollAssumption DEF INT_MIN
<1>2. d \in Int /\ m \in Nat /\ m > 0
  BY <1>1
<1>3. ToInt(n) = (d % m) + INT_MIN
  BY DEF ToInt
<1>4. m = INT_MAX - INT_MIN + 1
  OBVIOUS
<1> HIDE DEF d, m
<1>5. d % m \in 0 .. m - 1
  BY <1>2
<1> QED
  BY <1>1, <1>3, <1>4, <1>5

LEMMA ZeroToInt == ToInt(0) = 0
<1>1. INT_MAX \in Nat /\ INT_MIN = -INT_MAX - 1
  BY EpollAssumption DEF INT_MIN
<1>2. 0 - INT_MIN = INT_MAX + 1 /\ INT_MAX - INT_MIN + 1 = 2 * INT_MAX + 2
  BY <1>1
<1>3. (INT_MAX + 1) % (2 * INT_MAX + 2) = INT_MAX + 1
  BY <1>1
<1> QED
  BY <1>1, <1>2, <1>3 DEF ToInt

LEMMA waitInv ==
  ASSUME EpollInv, NEW timeout_ms \in {nullopt} \cup {{n} : n \in Timeouts}, wait(timeout_ms)
  PROVE  EpollInv'
<1>1. EpollTimeout(timeout_ms) \in INT_MIN .. INT_MAX
  <2> DEFINE n == IF timeout_ms = nullopt THEN 0 ELSE CHOOSE m \in timeout_ms : TRUE
  <2>1. n \in Int
    BY EpollAssumption DEF nullopt
  <2>2. EpollTimeout(timeout_ms) = ToInt(n)
    BY DEF EpollTimeout
  <2> HIDE DEF n
  <2> QED
    BY <2>1, <2>2, ToIntType
<1>2. KernelInv'
  BY DEF wait, kernel, EpollInv, KernelInv
<1>3. EdgesInv'
  BY DEF wait, kernel, EpollInv, EdgesInv, EdgesAreQueued, Reported, EVENT_MASK
<1>4. CallInv'
  <2>1. /\ call' = [waiting |-> TRUE, requested |-> timeout_ms, timeout |-> EpollTimeout(timeout_ms)]
        /\ returned' = returned
    BY DEF wait
  <2>2. DOMAIN call' = {"waiting", "requested", "timeout"} /\ call'.waiting = TRUE
    BY <2>1
  <2>3. call'.timeout \in INT_MIN .. INT_MAX
    BY <1>1, <2>1
  <2>4. call'.requested = nullopt => call'.timeout = 0
    <3>1. EpollTimeout(nullopt) = 0
      BY ZeroToInt DEF EpollTimeout
    <3> QED
      BY <2>1, <3>1
  <2> QED
    BY <2>1, <2>2, <2>3, <2>4 DEF EpollInv, CallInv, INT_MIN, nullopt
<1> QED
  BY <1>2, <1>3, <1>4 DEF EpollInv

LEMMA CallEnds ==
  ASSUME call' = NoCall,
         Len(returned'.events) <= EVENT_BUFFER_SIZE
  PROVE  CallInv' /\ call'.waiting = FALSE
<1>1. DOMAIN call' = {"waiting", "requested", "timeout"} /\ call'.waiting = FALSE /\ call'.timeout = 0
  BY DEF NoCall
<1> QED
  BY <1>1, ZeroIsInt DEF CallInv, INT_MIN

LEMMA WaitReportsInv ==
  ASSUME EpollInv, WaitReports
  PROVE  EpollInv' /\ call'.waiting = FALSE
<1> DEFINE later == SubSeq(Up, Len(Batch) + 1, Len(Up))
<1>1. /\ open \subseteq Handles /\ interest \subseteq open
      /\ level \in [Handles -> SUBSET Flags]
      /\ Queue(ready) /\ \A y : Contains(ready, y) => y \in interest
      /\ unseen \subseteq interest \X Flags
      /\ \A u \in unseen : u[2] \in level[u[1]]
      /\ \A u \in unseen : u[2] \in Reported => Contains(ready, u[1])
  BY DEF EpollInv, KernelInv, EdgesInv, EdgesAreQueued
<1>2. \A y : Contains(Up, y) <=> Contains(ready, y) /\ level[y] \cap Reported # {}
  BY <1>1, UpQueue, Zenon
<1>3. /\ Queue(Batch) /\ Queue(later)
      /\ Len(Batch) \in 0 .. EVENT_BUFFER_SIZE
      /\ \A y : Contains(Up, y) <=> Contains(Batch, y) \/ Contains(later, y)
  BY <1>1, BatchQueue, Zenon
<1>4. /\ ready' = later
      /\ unseen' = {u \in unseen : ~(Contains(Batch, u[1]) /\ u[2] \in Reported)}
      /\ UNCHANGED <<open, level, interest>>
      /\ call' = NoCall
  BY DEF WaitReports, Told
<1>5. Len(returned'.events) <= EVENT_BUFFER_SIZE
  <2> DEFINE n == Len(Batch)
  <2> DEFINE V == {Event(Batch[i]) : i \in 1 .. n}
  <2> DEFINE reports == [i \in 1 .. n |-> Event(Batch[i])]
  <2>1. n \in Nat /\ n <= EVENT_BUFFER_SIZE /\ DOMAIN Batch = 1 .. n
    BY <1>3, EpollAssumption DEF Queue
  <2>2. returned' = [error |-> "none", events |-> reports]
    BY <2>1 DEF WaitReports, Told
  <2>3. reports \in [1 .. n -> V]
    OBVIOUS
  <2> HIDE DEF n, V, reports
  <2>4. reports \in Seq(V) /\ Len(reports) = n
    BY <2>1, <2>3
  <2> QED
    BY <2>1, <2>2, <2>4
<1>6. CallInv' /\ call'.waiting = FALSE
  BY <1>4, <1>5, CallEnds DEF EpollInv
<1> HIDE DEF later
<1>7. KernelInv'
  BY <1>1, <1>2, <1>3, <1>4 DEF KernelInv
<1>8. unseen' \subseteq interest' \X Flags /\ \A u \in unseen' : u[2] \in level'[u[1]]
  BY <1>1, <1>4
<1>9. ASSUME NEW u \in unseen', u[2] \in Reported PROVE Contains(ready', u[1])
  <2>1. u \in unseen /\ ~Contains(Batch, u[1])
    BY <1>4, <1>9
  <2>2. Contains(ready, u[1]) /\ level[u[1]] \cap Reported # {}
    BY <1>1, <1>9, <2>1
  <2> QED
    BY <1>2, <1>3, <1>4, <2>1, <2>2
<1>10. EdgesAreQueued'
  BY <1>9 DEF EdgesAreQueued, Reported, EVENT_MASK
<1> QED
  BY <1>6, <1>7, <1>8, <1>10 DEF EpollInv, EdgesInv

\* When nothing in the queue is up, no edge that counts is lost with it.
LEMMA NothingReportedInv ==
  ASSUME EpollInv, NEW error, NothingReported(error)
  PROVE  EpollInv' /\ call'.waiting = FALSE
<1>1. /\ open \subseteq Handles /\ interest \subseteq open
      /\ level \in [Handles -> SUBSET Flags]
      /\ Queue(ready) /\ \A y : Contains(ready, y) => y \in interest
      /\ unseen \subseteq interest \X Flags
      /\ \A u \in unseen : u[2] \in level[u[1]]
      /\ \A u \in unseen : u[2] \in Reported => Contains(ready, u[1])
  BY DEF EpollInv, KernelInv, EdgesInv, EdgesAreQueued
<1>2. \A y : Contains(Up, y) <=> Contains(ready, y) /\ level[y] \cap Reported # {}
  BY <1>1, UpQueue, Zenon
<1>3. Queue(<<>>) /\ \A y : ~Contains(<<>>, y)
  BY NoHandles
<1>4. /\ Up = <<>> /\ ready' = <<>>
      /\ UNCHANGED <<open, level, interest, unseen>>
      /\ returned' = [error |-> error, events |-> <<>>]
      /\ call' = NoCall
  BY DEF NothingReported
<1>5. \A y : ~Contains(Up, y)
  BY <1>3, <1>4
<1>6. \A y : ~(Contains(ready, y) /\ level[y] \cap Reported # {})
  BY <1>2, <1>5, Zenon
<1>7. \A u \in unseen : u[2] \notin Reported
  BY <1>1, <1>6
<1>8. Len(returned'.events) <= EVENT_BUFFER_SIZE
  <2>1. Len(<<>>) <= EVENT_BUFFER_SIZE
    BY EpollAssumption
  <2> QED
    BY <1>4, <2>1
<1>9. CallInv' /\ call'.waiting = FALSE
  BY <1>4, <1>8, CallEnds DEF EpollInv
<1>10. KernelInv'
  BY <1>1, <1>3, <1>4 DEF KernelInv
<1>11. EdgesInv'
  BY <1>1, <1>4, <1>7 DEF EdgesInv, EdgesAreQueued, Reported, EVENT_MASK
<1> QED
  BY <1>9, <1>10, <1>11 DEF EpollInv

\* An epoll_wait that fails leaves the kernel as it is.
LEMMA WaitFailsInv ==
  ASSUME EpollInv, WaitFails
  PROVE  EpollInv' /\ call'.waiting = FALSE
<1>1. /\ UNCHANGED <<open, level, interest, ready, call, unseen>>
      /\ returned' = [error |-> EfdError, events |-> <<>>]
      /\ ~call.waiting
  BY DEF WaitFails, kernel, Idle
<1>2. KernelInv' /\ EdgesInv'
  BY <1>1 DEF EpollInv, KernelInv, EdgesInv, EdgesAreQueued, Queue, Reported, EVENT_MASK
<1>3. Len(returned'.events) <= EVENT_BUFFER_SIZE
  <2>1. Len(<<>>) <= EVENT_BUFFER_SIZE
    BY EpollAssumption
  <2> QED
    BY <1>1, <2>1
<1>4. CallInv' /\ call'.waiting = FALSE
  BY <1>1, <1>3 DEF EpollInv, CallInv, INT_MIN, nullopt
<1> QED
  BY <1>2, <1>4 DEF EpollInv

LEMMA EpollKept ==
  ASSUME EpollInv, UNCHANGED epoll_vars
  PROVE  EpollInv'
<1>1. UNCHANGED <<open, level, interest, ready, call, returned, unseen>>
  BY DEF epoll_vars, kernel
<1> QED
  BY <1>1 DEF EpollInv, KernelInv, EdgesInv, EdgesAreQueued, CallInv, Queue, Reported, EVENT_MASK

-----------------------------------------------------------------------------
(***************************************************************************)
(* The executor, and the user who has none.                                *)
(***************************************************************************)

\* The event_caches; events carry no handle, so there is one key at most.
CacheInv ==
  /\ DOMAIN handle_map \subseteq {"this"}
  /\ \A h \in DOMAIN handle_map : handle_map[h] \in [DOMAIN Bit -> 0 .. 1]

\* The thread that waits is in run(), in run_once() or has no executor.
ThreadInv ==
  /\ active \in BOOLEAN
  /\ mode \in {"user", "run", "once", "direct"}
  /\ call.waiting => mode # "user"

ExecutorInv == EpollInv /\ CacheInv /\ ThreadInv

LEMMA eventsType == \A mask : events(mask) \in [DOMAIN Bit -> 0 .. 1]
<1> SUFFICES ASSUME NEW mask PROVE events(mask) \in [DOMAIN Bit -> 0 .. 1]
  OBVIOUS
<1> DEFINE bit(flag) == (IF flag \in mask THEN Bit[flag] ELSE 0) % 2
<1>1. \A flag \in DOMAIN Bit : Bit[flag] \in Nat
  BY DEF Bit
<1>2. ASSUME NEW flag \in DOMAIN Bit PROVE bit(flag) \in 0 .. 1
  <2> DEFINE n == IF flag \in mask THEN Bit[flag] ELSE 0
  <2>1. n \in Nat
    BY <1>1
  <2> HIDE DEF n
  <2>2. n % 2 \in 0 .. 1
    BY <2>1
  <2> QED
    BY <2>2 DEF n
<1>3. events(mask) = [flag \in DOMAIN Bit |-> bit(flag)]
  BY DEF events
<1> HIDE DEF bit
<1> QED
  BY <1>2, <1>3

\* has_error() (epoll_executor.h:35) is false whatever epoll reports: the
\* flags it looks at, of 2 and above, leave nothing in a field of one bit.
THEOREM HasErrorNeverHolds == \A mask : ~has_error(events(mask))
<1> SUFFICES ASSUME NEW mask, NEW flag \in {"rdhup", "pri", "err", "hup"}
             PROVE  events(mask)[flag] = 0
  BY DEF has_error
<1>1. flag \in DOMAIN Bit /\ Bit[flag] % 2 = 0
  BY DEF Bit
<1>2. events(mask)[flag] = (IF flag \in mask THEN Bit[flag] ELSE 0) % 2
  BY <1>1 DEF events
<1> QED
  BY <1>1, <1>2

LEMMA CachedType ==
  ASSUME CacheInv, NEW batch, \A i \in DOMAIN batch : HandleOf(batch[i]) = "this"
  PROVE  /\ DOMAIN Cached(handle_map, batch) \subseteq {"this"}
         /\ \A h \in DOMAIN Cached(handle_map, batch) :
              Cached(handle_map, batch)[h] \in [DOMAIN Bit -> 0 .. 1]
<1> DEFINE Of(h) == {i \in DOMAIN batch : HandleOf(batch[i]) = h}
<1> DEFINE Latest(h) == CHOOSE i \in Of(h) : \A j \in Of(h) : j <= i
<1> DEFINE D == DOMAIN handle_map \cup {HandleOf(batch[i]) : i \in DOMAIN batch}
<1> DEFINE entry(h) == IF Of(h) = {} THEN handle_map[h] ELSE events(batch[Latest(h)].events)
<1>1. Cached(handle_map, batch) = [h \in D |-> entry(h)]
  BY DEF Cached
<1>2. D \subseteq {"this"}
  BY DEF CacheInv
<1>3. ASSUME NEW h \in D PROVE entry(h) \in [DOMAIN Bit -> 0 .. 1]
  <2>1. CASE Of(h) = {}
    <3>1. h \in DOMAIN handle_map
      BY <2>1
    <3>2. handle_map[h] \in [DOMAIN Bit -> 0 .. 1]
      BY <3>1 DEF CacheInv
    <3> QED
      BY <2>1, <3>2
  <2>2. CASE Of(h) # {}
    <3> HIDE DEF Of, Latest
    <3>1. entry(h) = events(batch[Latest(h)].events)
      BY <2>2
    <3> QED
      BY <3>1, eventsType
  <2> QED
    BY <2>1, <2>2
<1> HIDE DEF D, entry
<1> QED
  BY <1>1, <1>2, <1>3

LEMMA ExecutorInit == Init => ExecutorInv
<1> SUFFICES ASSUME Init PROVE ExecutorInv
  OBVIOUS
<1>1. EpollInv
  BY InvInit DEF Init
<1>2. CacheInv
  BY DEF Init, CacheInv
<1>3. ThreadInv
  BY DEF Init, EpollInit, NoCall, ThreadInv
<1> QED
  BY <1>1, <1>2, <1>3 DEF ExecutorInv

LEMMA CacheKept ==
  ASSUME CacheInv, handle_map' = handle_map
  PROVE  CacheInv'
  BY DEF CacheInv, Bit

\* The thread stays where it is, and the call in progress or its end with it.
LEMMA ThreadKept ==
  ASSUME ThreadInv, active' = active, mode' = mode,
         call'.waiting => call.waiting \/ mode # "user"
  PROVE  ThreadInv'
  BY DEF ThreadInv

LEMMA RestKept ==
  ASSUME ExecutorInv, EpollInv', Rest,
         call'.waiting => call.waiting \/ mode # "user"
  PROVE  ExecutorInv'
<1>1. CacheInv'
  BY CacheKept DEF Rest, ExecutorInv
<1>2. ThreadInv'
  BY ThreadKept DEF Rest, ExecutorInv
<1> QED
  BY <1>1, <1>2 DEF ExecutorInv

LEMMA WaitReturns ==
  ASSUME EpollInv, WaitReports \/ WaitTimesOut \/ WaitInterrupted \/ WaitFails
  PROVE  EpollInv' /\ call'.waiting = FALSE
  BY WaitReportsInv, NothingReportedInv, WaitFailsInv DEF WaitTimesOut, WaitInterrupted

\* One lemma per action of the executor.
LEMMA WorldKeeps ==
  ASSUME ExecutorInv, World, Rest
  PROVE  ExecutorInv'
<1>1. EpollInv
  BY DEF ExecutorInv
<1>2. ASSUME NEW file, Lose(file)
      PROVE  EpollInv' /\ call' = call
  BY <1>1, <1>2, LoseInv DEF Lose
<1>3. ASSUME NEW fd \in Handles,
             Open(fd) \/ Close(fd) \/ \E flag \in Flags : Raise(fd, flag) \/ Lower(fd, flag)
      PROVE  EpollInv' /\ call' = call
  <2>1. EpollInv'
    BY <1>1, <1>3, OpenInv, CloseInv, RaiseInv, LowerInv
  <2>2. call' = call
    BY <1>3 DEF Open, Close, Raise, Lower
  <2> QED
    BY <2>1, <2>2
<1>4. EpollInv' /\ call' = call
  BY <1>2, <1>3 DEF World
<1> QED
  BY <1>4, RestKept

LEMMA AddsOrRemovesKeeps ==
  ASSUME ExecutorInv, NEW fd \in Handles, AddsOrRemoves(fd)
  PROVE  ExecutorInv'
<1>1. EpollInv' /\ call' = call
  BY addInv, removeInv DEF AddsOrRemoves, ExecutorInv, add, remove
<1> QED
  BY <1>1, RestKept DEF AddsOrRemoves

LEMMA DirectKeeps ==
  ASSUME ExecutorInv,
         \/ \E timeout_ms \in {nullopt} \cup {{n} : n \in Timeouts} : DirectWaits(timeout_ms)
         \/ DirectReturns
         \/ DirectInterrupted
         \/ DirectFails
  PROVE  ExecutorInv'
<1>1. EpollInv
  BY DEF ExecutorInv
<1>2. ASSUME NEW timeout_ms \in {nullopt} \cup {{n} : n \in Timeouts}, DirectWaits(timeout_ms)
      PROVE  ExecutorInv'
  <2>1. EpollInv' /\ mode # "user" /\ Rest
    BY <1>1, <1>2, waitInv DEF DirectWaits
  <2> QED
    BY <2>1, RestKept
<1>3. CASE DirectReturns \/ DirectInterrupted \/ DirectFails
  <2>1. EpollInv' /\ mode # "user" /\ Rest
    BY <1>1, <1>3, WaitReturns DEF DirectReturns, DirectInterrupted, DirectFails
  <2> QED
    BY <2>1, RestKept
<1> QED
  BY <1>2, <1>3

LEMMA runKeeps ==
  ASSUME ExecutorInv, run
  PROVE  ExecutorInv'
<1>1. EpollInv'
  BY EpollKept DEF run, ExecutorInv
<1>2. CacheInv'
  BY CacheKept DEF run, ExecutorInv
<1>3. ThreadInv'
  BY DEF run, epoll_vars, ExecutorInv, ThreadInv
<1> QED
  BY <1>1, <1>2, <1>3 DEF ExecutorInv

LEMMA RunOnceWaitsKeeps ==
  ASSUME ExecutorInv, RunOnceWaits
  PROVE  ExecutorInv'
<1>1. EpollInv'
  BY waitInv DEF RunOnceWaits, ExecutorInv
<1>2. CacheInv'
  BY CacheKept DEF RunOnceWaits, ExecutorInv
<1>3. ThreadInv'
  BY DEF RunOnceWaits, ExecutorInv, ThreadInv
<1> QED
  BY <1>1, <1>2, <1>3 DEF ExecutorInv

LEMMA ThreadGoesOn ==
  ASSUME ThreadInv, active' = active, mode' = AfterRunOnce, call'.waiting = FALSE
  PROVE  ThreadInv'
  BY DEF ThreadInv, AfterRunOnce

LEMMA RunOnceUpdatesKeeps ==
  ASSUME ExecutorInv, RunOnceUpdates
  PROVE  ExecutorInv'
<1>1. EpollInv' /\ call'.waiting = FALSE
  BY WaitReportsInv DEF RunOnceUpdates, ExecutorInv
<1>2. \A i \in DOMAIN returned'.events : HandleOf(returned'.events[i]) = "this"
  <2>1. returned'.events = [i \in DOMAIN Told |-> Event(Told[i])]
    BY DEF RunOnceUpdates, WaitReports
  <2> QED
    BY <2>1 DEF HandleOf, Event
<1>3. CacheInv'
  <2> DEFINE batch == returned'.events
  <2>1. handle_map' = Cached(handle_map, batch)
    BY DEF RunOnceUpdates
  <2> HIDE DEF batch
  <2>2. /\ DOMAIN Cached(handle_map, batch) \subseteq {"this"}
        /\ \A h \in DOMAIN Cached(handle_map, batch) :
             Cached(handle_map, batch)[h] \in [DOMAIN Bit -> 0 .. 1]
    BY <1>2, CachedType DEF ExecutorInv, batch
  <2> QED
    BY <2>1, <2>2 DEF CacheInv, Bit
<1>4. ThreadInv'
  BY <1>1, ThreadGoesOn DEF RunOnceUpdates, ExecutorInv
<1> QED
  BY <1>1, <1>3, <1>4 DEF ExecutorInv

LEMMA RunOnceReturnsKeeps ==
  ASSUME ExecutorInv, RunOnceReturns \/ RunOnceFails
  PROVE  ExecutorInv'
<1>1. EpollInv' /\ call'.waiting = FALSE
  BY WaitReturns DEF RunOnceReturns, RunOnceFails, ExecutorInv
<1>2. CacheInv'
  BY CacheKept DEF RunOnceReturns, RunOnceFails, ExecutorInv
<1>3. ThreadInv'
  BY <1>1, ThreadGoesOn DEF RunOnceReturns, RunOnceFails, ExecutorInv
<1> QED
  BY <1>1, <1>2, <1>3 DEF ExecutorInv

LEMMA ExecutorStep == ExecutorInv /\ [Next]_vars => ExecutorInv'
<1> SUFFICES ASSUME ExecutorInv, [Next]_vars PROVE ExecutorInv'
  OBVIOUS
<1>1. CASE World /\ Rest
  BY <1>1, WorldKeeps
<1>2. ASSUME NEW fd \in Handles, AddsOrRemoves(fd) PROVE ExecutorInv'
  BY <1>2, AddsOrRemovesKeeps
<1>3. CASE run
  BY <1>3, runKeeps
<1>4. CASE RunOnceWaits
  BY <1>4, RunOnceWaitsKeeps
<1>5. CASE RunOnceUpdates
  BY <1>5, RunOnceUpdatesKeeps
<1>6. CASE RunOnceReturns \/ RunOnceFails
  BY <1>6, RunOnceReturnsKeeps
<1>7. CASE \/ \E timeout_ms \in {nullopt} \cup {{n} : n \in Timeouts} : DirectWaits(timeout_ms)
           \/ DirectReturns
           \/ DirectInterrupted
           \/ DirectFails
  BY <1>7, DirectKeeps, Zenon
<1>8. CASE UNCHANGED vars
  <2>1. UNCHANGED epoll_vars /\ Rest /\ call' = call
    BY <1>8 DEF vars, epoll_vars, Rest
  <2>2. EpollInv'
    BY <2>1, EpollKept DEF ExecutorInv
  <2> QED
    BY <2>1, <2>2, RestKept
<1> QED
  BY <1>1, <1>2, <1>3, <1>4, <1>5, <1>6, <1>7, <1>8, Zenon DEF Next

LEMMA ExecutorInvariant == Spec => []ExecutorInv
  BY ExecutorInit, ExecutorStep, PTL DEF Spec

\* Nothing but Lose(file) touches the number of the epoll.
LEMMA EfdStep == EfdInv /\ [Next]_vars => EfdInv'
<1> SUFFICES ASSUME EfdInv, [Next]_vars PROVE EfdInv'
  OBVIOUS
<1> USE DEF EfdInv
<1>1. CASE World
  BY <1>1 DEF World, Lose, Open, Close, Raise, Lower
<1>2. ASSUME NEW fd \in Handles, AddsOrRemoves(fd) PROVE EfdInv'
  BY <1>2 DEF AddsOrRemoves, add, remove
<1>3. ASSUME NEW timeout_ms, wait(timeout_ms) PROVE EfdInv'
  BY <1>3 DEF wait, kernel
<1>4. CASE WaitReports \/ WaitTimesOut \/ WaitInterrupted \/ WaitFails
  BY <1>4 DEF WaitReports, WaitTimesOut, WaitInterrupted, NothingReported, WaitFails, kernel
<1>5. CASE run \/ UNCHANGED vars
  BY <1>5 DEF run, vars, epoll_vars, kernel
<1> QED
  BY <1>1, <1>2, <1>3, <1>4, <1>5
     DEF Next, RunOnceWaits, RunOnceUpdates, RunOnceReturns, RunOnceFails, DirectWaits,
         DirectReturns, DirectInterrupted, DirectFails

LEMMA EfdInvariant == Spec => []EfdInv
<1>1. Init => EfdInv
  BY DEF Init, EpollInit, EfdInv
<1> QED
  BY <1>1, EfdStep, PTL DEF Spec

LEMMA ExecutorTypes == ExecutorInv /\ EfdInv => TypeOK
  BY InvTypes DEF ExecutorInv, CacheInv, ThreadInv, TypeOK

\* The kernel's queue holds registered, open handles, each once; a wait()
\* fills no more than the events array (epoll.cpp:62) whatever is ready; the
\* timeout is an int; the thread waits only inside a call; and the events
\* land under one key of handle_map (epoll_executor.cpp:24).
THEOREM ExecutorTyped == Spec => []TypeOK
  BY ExecutorInvariant, EfdInvariant, ExecutorTypes, PTL

LEMMA EdgesOfInv == ExecutorInv => EdgesAreQueued
  BY DEF ExecutorInv, EpollInv, EdgesInv

\* Whatever is added, removed, closed, drained or raised between the calls of
\* wait() (epoll.cpp:37-79) and however small its buffer: an edge that no
\* wait() has reported is in the queue the next one looks at.
THEOREM EveryEdgeIsQueued == Spec => []EdgesAreQueued
  BY ExecutorInvariant, EdgesOfInv, PTL

\* A wait() that is given no timeout does not wait: epoll_wait gets the 0 that
\* tells it to return at once, whatever the comment at epoll.cpp:62 says, and
\* so the loop of run(), which gives none, never sleeps.
AbsentTimeoutIsZero ==
  call.waiting /\ call.requested = nullopt => call.timeout = 0

LEMMA NoTimeoutNeverBlocks == Spec => []AbsentTimeoutIsZero
<1>1. ExecutorInv => AbsentTimeoutIsZero
  BY DEF ExecutorInv, EpollInv, CallInv, AbsentTimeoutIsZero
<1> QED
  BY <1>1, ExecutorInvariant, PTL
=============================================================================
