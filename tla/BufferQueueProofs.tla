------------------------- MODULE BufferQueueProofs -------------------------
(***************************************************************************)
(* What BufferQueue guarantees for any writes, however many, and for any   *)
(* reports of bytes written.                                               *)
(***************************************************************************)
EXTENDS BufferQueue, Recursion, SequenceTheorems

-----------------------------------------------------------------------------
(***************************************************************************)
(* The recursive functions of the model: by PrefixRecursion they exist, so *)
(* that they satisfy the equations that define them.  The lemmas about     *)
(* them speak of functions on 1 .. n; Len comes in only afterwards.        *)
(***************************************************************************)

Sums(off, s, n) == off = [i \in 0 .. n |-> IF i = 0 THEN 0 ELSE off[i - 1] + s[i]]

LEMMA PrefixSumsExist ==
  ASSUME NEW n \in Nat, NEW s \in [1 .. n -> Nat]
  PROVE  \E f : Sums(f, s, n)
<1> DEFINE step == [p \in Nat \X Nat |-> p[2] + IF p[1] \in 1 .. n THEN s[p[1]] ELSE 0]
<1>1. step \in [Nat \X Nat -> Nat]
  OBVIOUS
<1>2. \A i \in 1 .. n, v \in Nat : step[<<i, v>>] = v + s[i]
  OBVIOUS
<1> HIDE DEF step
<1>3. Recursive(Nat, 0, step, n) # {}
  <2>1. 0 \in Nat
    OBVIOUS
  <2> QED
    BY <1>1, <2>1, PrefixRecursion, Zenon
<1>4. PICK f \in [0 .. n -> Nat] :
        f[0] = 0 /\ \A i \in 1 .. n : f[i] = step[<<i, f[i - 1]>>]
  BY <1>3 DEF Recursive
<1>5. ASSUME NEW i \in 1 .. n PROVE f[i] = f[i - 1] + s[i]
  <2>1. f[i - 1] \in Nat
    OBVIOUS
  <2> QED
    BY <1>2, <1>4, <2>1
<1>6. Sums(f, s, n)
  BY <1>4, <1>5 DEF Sums
<1> QED
  BY <1>6, Zenon

LEMMA SumsOf ==
  ASSUME NEW n \in Nat, NEW s \in [1 .. n -> Nat], NEW off, Sums(off, s, n)
  PROVE  /\ off[0] = 0
         /\ \A i \in 1 .. n : off[i] = off[i - 1] + s[i]
         /\ \A i \in 0 .. n : off[i] \in Nat
<1> DEFINE T == {k \in Nat : k \in 0 .. n => off[k] \in Nat}
<1>1. off[0] = 0
  BY DEF Sums
<1>2. \A i \in 1 .. n : off[i] = off[i - 1] + s[i]
  BY DEF Sums
<1>3. 0 \in T
  BY <1>1
<1>4. ASSUME NEW k \in Nat, k \in T PROVE k + 1 \in T
  BY <1>2, <1>4
<1> HIDE DEF T
<1>5. Nat \subseteq T
  BY <1>3, <1>4, NatInductionSet
<1> QED
  BY <1>1, <1>2, <1>5 DEF T

LEMMA OffsetsDef ==
  ASSUME NEW s \in Seq(Nat)
  PROVE  /\ Offsets(s)[0] = 0
         /\ \A i \in 1 .. Len(s) : Offsets(s)[i] = Offsets(s)[i - 1] + s[i]
         /\ \A i \in 0 .. Len(s) : Offsets(s)[i] \in Nat
<1>1. Len(s) \in Nat /\ s \in [1 .. Len(s) -> Nat]
  OBVIOUS
<1>2. Sums(Offsets(s), s, Len(s))
  <2>1. \E f : Sums(f, s, Len(s))
    BY <1>1, PrefixSumsExist, Zenon
  <2> QED
    BY <2>1, Zenon DEF Offsets, Sums
<1> QED
  BY <1>1, <1>2, SumsOf, Zenon

\* A sequence of buffers and its sizes.
LEMMA SizesType ==
  ASSUME NEW bufs \in Seq(Buffer)
  PROVE  /\ Len(bufs) \in Nat
         /\ Sizes(bufs) \in Seq(Nat)
         /\ Len(Sizes(bufs)) = Len(bufs)
         /\ \A i \in 1 .. Len(bufs) : /\ bufs[i].len \in Nat /\ bufs[i].base \in Nat
                                     /\ Sizes(bufs)[i] = bufs[i].len
<1> DEFINE n == Len(bufs)
<1>1. n \in Nat /\ \A i \in 1 .. n : bufs[i] \in Buffer
  OBVIOUS
<1> HIDE DEF n
<1>2. \A i \in 1 .. n : bufs[i].len \in Nat /\ bufs[i].base \in Nat
  BY <1>1 DEF Buffer
<1>3. Sizes(bufs) = [i \in 1 .. n |-> bufs[i].len]
  BY Zenon DEF Sizes, n
<1>4. Sizes(bufs) \in [1 .. n -> Nat]
  BY <1>2, <1>3
<1>5. Sizes(bufs) \in Seq(Nat) /\ Len(Sizes(bufs)) = n
  BY <1>1, <1>4
<1> QED
  BY <1>1, <1>2, <1>3, <1>5 DEF n

\* The offsets of buffers: of none, 0; and with each buffer its size more.
LEMMA BufferOffsets ==
  ASSUME NEW bufs \in Seq(Buffer)
  PROVE  /\ Offsets(Sizes(bufs))[0] = 0
         /\ \A i \in 1 .. Len(bufs) :
              Offsets(Sizes(bufs))[i] = Offsets(Sizes(bufs))[i - 1] + bufs[i].len
         /\ \A i \in 0 .. Len(bufs) : Offsets(Sizes(bufs))[i] \in Nat
         /\ size_bytes(bufs) \in Nat
<1>1. /\ Sizes(bufs) \in Seq(Nat) /\ Len(Sizes(bufs)) = Len(bufs) /\ Len(bufs) \in Nat
      /\ \A i \in 1 .. Len(bufs) : Sizes(bufs)[i] = bufs[i].len
  BY SizesType
<1>2. /\ Offsets(Sizes(bufs))[0] = 0
      /\ \A i \in 1 .. Len(bufs) :
           Offsets(Sizes(bufs))[i] = Offsets(Sizes(bufs))[i - 1] + Sizes(bufs)[i]
      /\ \A i \in 0 .. Len(bufs) : Offsets(Sizes(bufs))[i] \in Nat
  BY <1>1, OffsetsDef
<1>3. Len(bufs) \in 0 .. Len(bufs)
  BY <1>1
<1> QED
  BY <1>1, <1>2, <1>3 DEF size_bytes
-----------------------------------------------------------------------------
(***************************************************************************)
(* consume(): std::erase_if visits the buffers one by one.                 *)
(***************************************************************************)

ScanStep(before, buf, bytes) ==
  LET remaining == bytes - before.sum
  IN  IF buf.len <= remaining
      THEN [before EXCEPT !.sum = @ + buf.len]
      ELSE [sum |-> before.sum + remaining, kept |-> Append(before.kept, buf)]

\* As soon as a buffer is kept, the bytes to consume are used up.
ScanState(bytes) ==
  {r \in [sum : 0 .. bytes, kept : Seq(Buffer)] : r.kept # <<>> => r.sum = bytes}

Scans(scan, bufs, n, bytes) ==
  scan = [i \in 0 .. n |->
           IF i = 0 THEN [sum |-> 0, kept |-> <<>>] ELSE ScanStep(scan[i - 1], bufs[i], bytes)]

\* A buffer is erased, or it is kept and uses up the bytes.
LEMMA ScanErases ==
  ASSUME NEW bytes \in Nat, NEW before \in ScanState(bytes), NEW buf \in Buffer,
         buf.len <= bytes - before.sum
  PROVE  ScanStep(before, buf, bytes) = [sum |-> before.sum + buf.len, kept |-> before.kept]
<1>1. before = [sum |-> before.sum, kept |-> before.kept]
  BY DEF ScanState
<1> QED
  BY <1>1 DEF ScanStep

LEMMA ScanKeeps ==
  ASSUME NEW bytes \in Nat, NEW before \in ScanState(bytes), NEW buf \in Buffer,
         ~(buf.len <= bytes - before.sum)
  PROVE  ScanStep(before, buf, bytes) = [sum |-> bytes, kept |-> Append(before.kept, buf)]
<1>1. before.sum + (bytes - before.sum) = bytes
  BY DEF ScanState
<1> QED
  BY <1>1, Zenon DEF ScanStep

LEMMA ScanStepType ==
  ASSUME NEW bytes \in Nat, NEW before \in ScanState(bytes), NEW buf \in Buffer
  PROVE  ScanStep(before, buf, bytes) \in ScanState(bytes)
<1>1. /\ before.sum \in 0 .. bytes /\ before.kept \in Seq(Buffer)
      /\ before.kept # <<>> => before.sum = bytes
  BY DEF ScanState
<1>2. buf.len \in Nat
  BY DEF Buffer
<1>3. CASE buf.len <= bytes - before.sum
  <2>1. before.sum + buf.len \in 0 .. bytes
    BY <1>1, <1>2, <1>3
  <2>2. before.kept # <<>> => before.sum + buf.len = bytes
    BY <1>1, <1>2, <1>3
  <2> QED
    BY <1>1, <1>3, <2>1, <2>2, ScanErases DEF ScanState
<1>4. CASE ~(buf.len <= bytes - before.sum)
  <2>1. Append(before.kept, buf) \in Seq(Buffer) /\ bytes \in 0 .. bytes
    BY <1>1
  <2> QED
    BY <1>4, <2>1, ScanKeeps DEF ScanState
<1> QED
  BY <1>3, <1>4

LEMMA ScanStart == ASSUME NEW bytes \in Nat
                   PROVE  [sum |-> 0, kept |-> <<>>] \in ScanState(bytes)
<1>1. 0 \in 0 .. bytes /\ <<>> \in Seq(Buffer)
  OBVIOUS
<1> QED
  BY <1>1 DEF ScanState

LEMMA ScansExist ==
  ASSUME NEW bytes \in Nat, NEW n \in Nat, NEW bufs \in [1 .. n -> Buffer]
  PROVE  \E f : Scans(f, bufs, n, bytes)
<1> DEFINE V == ScanState(bytes)
<1> DEFINE v0 == [sum |-> 0, kept |-> <<>>]
<1> DEFINE step == [p \in Nat \X V |->
                     IF p[1] \in 1 .. n THEN ScanStep(p[2], bufs[p[1]], bytes) ELSE p[2]]
<1>1. step \in [Nat \X V -> V]
  BY ScanStepType
<1>2. \A i \in 1 .. n, v \in V : step[<<i, v>>] = ScanStep(v, bufs[i], bytes)
  OBVIOUS
<1>3. v0 \in V
  BY ScanStart
<1> HIDE DEF step, V, v0
<1>4. Recursive(V, v0, step, n) # {}
  BY <1>1, <1>3, PrefixRecursion, Zenon
<1>5. PICK f \in [0 .. n -> V] :
        f[0] = v0 /\ \A i \in 1 .. n : f[i] = step[<<i, f[i - 1]>>]
  BY <1>4 DEF Recursive
<1>6. ASSUME NEW i \in 1 .. n PROVE f[i] = ScanStep(f[i - 1], bufs[i], bytes)
  <2>1. f[i - 1] \in V
    OBVIOUS
  <2> QED
    BY <1>2, <1>5, <2>1
<1>7. f = [i \in 0 .. n |-> IF i = 0 THEN v0 ELSE ScanStep(f[i - 1], bufs[i], bytes)]
  BY <1>5, <1>6
<1> QED
  BY <1>7, Zenon DEF Scans, v0

LEMMA ScansType ==
  ASSUME NEW bytes \in Nat, NEW n \in Nat, NEW bufs \in [1 .. n -> Buffer],
         NEW scan, Scans(scan, bufs, n, bytes)
  PROVE  /\ scan[0] = [sum |-> 0, kept |-> <<>>]
         /\ \A i \in 1 .. n : scan[i] = ScanStep(scan[i - 1], bufs[i], bytes)
         /\ \A i \in 0 .. n : scan[i] \in ScanState(bytes)
<1> DEFINE V == ScanState(bytes)
<1> DEFINE v0 == [sum |-> 0, kept |-> <<>>]
<1> DEFINE T == {k \in Nat : k \in 0 .. n => scan[k] \in V}
<1>1. v0 \in V
  BY ScanStart
<1>2. \A v \in V, buf \in Buffer : ScanStep(v, buf, bytes) \in V
  BY ScanStepType
<1>3. scan = [i \in 0 .. n |-> IF i = 0 THEN v0 ELSE ScanStep(scan[i - 1], bufs[i], bytes)]
  BY Zenon DEF Scans
<1> HIDE DEF V, v0
<1>4. scan[0] = v0 /\ \A i \in 1 .. n : scan[i] = ScanStep(scan[i - 1], bufs[i], bytes)
  BY <1>3
<1>5. 0 \in T
  BY <1>1, <1>4
<1>6. ASSUME NEW k \in Nat, k \in T PROVE k + 1 \in T
  BY <1>2, <1>4, <1>6
<1> HIDE DEF T
<1>7. Nat \subseteq T
  BY <1>5, <1>6, NatInductionSet
<1> QED
  BY <1>4, <1>7 DEF T, V, v0

\* The scan that erase_if makes.
LEMMA EraseIfScans ==
  ASSUME NEW bufs \in Seq(Buffer), NEW bytes \in Nat
  PROVE  \E scan : Scans(scan, bufs, Len(bufs), bytes) /\ erase_if(bufs, bytes) = scan[Len(bufs)]
<1> DEFINE n == Len(bufs)
<1>1. n \in Nat /\ bufs \in [1 .. n -> Buffer]
  OBVIOUS
<1> DEFINE scan == CHOOSE f : Scans(f, bufs, n, bytes)
<1>2. erase_if(bufs, bytes) = scan[n]
  BY DEF erase_if, Scans, ScanStep
<1> HIDE DEF n
<1>3. Scans(scan, bufs, n, bytes)
  BY <1>1, ScansExist, Zenon
<1> HIDE DEF scan
<1> QED
  BY <1>2, <1>3 DEF n

LEMMA EraseIf ==
  ASSUME NEW bufs \in Seq(Buffer), NEW bytes \in Nat
  PROVE  erase_if(bufs, bytes) \in ScanState(bytes)
<1> DEFINE n == Len(bufs)
<1>1. n \in 0 .. n /\ n \in Nat /\ bufs \in [1 .. n -> Buffer]
  OBVIOUS
<1>2. PICK scan : Scans(scan, bufs, n, bytes) /\ erase_if(bufs, bytes) = scan[n]
  BY EraseIfScans
<1> HIDE DEF n
<1>3. \A i \in 0 .. n : scan[i] \in ScanState(bytes)
  BY <1>1, <1>2, ScansType
<1> QED
  BY <1>1, <1>2, <1>3

\* What erase_if leaves is what consume() leaves: nothing remains to be
\* dropped from the front.
LEMMA Consume ==
  ASSUME NEW bufs \in Seq(Buffer), NEW bytes \in Nat
  PROVE  /\ consume(bufs, bytes) \in Seq(Buffer)
         /\ consume(bufs, bytes) = erase_if(bufs, bytes).kept
<1> DEFINE scan == erase_if(bufs, bytes)
<1> DEFINE kept == scan.kept
<1>1. scan \in ScanState(bytes)
  BY EraseIf
<1> HIDE DEF scan
<1>2. kept \in Seq(Buffer) /\ (kept # <<>> => bytes - scan.sum = 0)
  BY <1>1 DEF ScanState
<1>3. CASE kept = <<>>
  BY <1>2, <1>3 DEF consume, scan
<1>4. CASE kept # <<>>
  <2>1. kept[1] \in Buffer
    BY <1>2, <1>4
  <2>2. drop(kept[1], 0) = kept[1]
    BY <2>1 DEF drop, Buffer
  <2>3. consume(bufs, bytes) = [kept EXCEPT ![1] = kept[1]]
    <3>1. consume(bufs, bytes) = [kept EXCEPT ![1] = drop(kept[1], 0)]
      BY <1>2, <1>4 DEF consume, scan
    <3> QED
      BY <2>2, <3>1
  <2>4. [kept EXCEPT ![1] = kept[1]] = kept
    BY <1>2
  <2> QED
    BY <1>2, <2>3, <2>4 DEF scan
<1> QED
  BY <1>3, <1>4
-----------------------------------------------------------------------------
(***************************************************************************)
(* Type correctness, in every build and for every user.                    *)
(***************************************************************************)

LEMMA BytesOfCall ==
  ASSUME NEW sizes \in Seq(Nat)
  PROVE  /\ Offsets(sizes)[Len(sizes)] \in Nat
         /\ \A i \in 0 .. Len(sizes) : Offsets(sizes)[i] \in Nat
<1>1. Len(sizes) \in 0 .. Len(sizes)
  OBVIOUS
<1> QED
  BY <1>1, OffsetsDef, Zenon

LEMMA ReportsType == TypeOK => Reports \subseteq Nat
<1> SUFFICES ASSUME TypeOK PROVE Reports \subseteq Nat
  OBVIOUS
<1>1. /\ size_bytes(buffers) \in Nat
      /\ \A i \in 0 .. Len(buffers) : Offsets(Sizes(buffers))[i] \in Nat
  BY BufferOffsets DEF TypeOK
<1> QED
  BY <1>1 DEF Reports

LEMMA SubmittedType == TypeOK => Submitted \in Nat
  BY DEF TypeOK, Submitted, Last

LEMMA LastFrame ==
  ASSUME TypeOK, ~Idle
  PROVE  /\ Len(frames) \in 1 .. Len(frames)
         /\ Last(frames) \in Frame
         /\ Front(frames) \in Seq(Frame)
         /\ \A f \in Frame : [frames EXCEPT ![Len(frames)] = f] \in Seq(Frame)
<1>1. frames \in Seq(Frame) /\ frames # <<>>
  BY DEF TypeOK, Idle
<1>2. Len(frames) \in 1 .. Len(frames) /\ Last(frames) \in Frame
  BY <1>1 DEF Last
<1>3. Front(frames) \in Seq(Frame)
  BY <1>1 DEF Front
<1> QED
  BY <1>1, <1>2, <1>3, ExceptSeq

LEMMA PushTypeOK ==
  ASSUME TypeOK, NEW sizes \in Calls, push(sizes)
  PROVE  TypeOK'
<1> DEFINE bytes == Offsets(sizes)[Len(sizes)]
<1> DEFINE bufs == [i \in 1 .. Len(sizes) |->
                     [base |-> Submitted + Offsets(sizes)[i - 1], len |-> sizes[i]]]
<1>1. sizes \in Seq(Nat)
  BY ConstantsAssumption
<1>2. bytes \in Nat /\ Submitted \in Nat
  BY <1>1, BytesOfCall, SubmittedType, Zenon
<1>3. bufs \in Seq(Buffer)
  <2>1. \A i \in 1 .. Len(sizes) : Offsets(sizes)[i - 1] \in Nat /\ sizes[i] \in Nat
    BY <1>1, BytesOfCall
  <2>2. \A i \in 1 .. Len(sizes) : bufs[i] \in Buffer
    BY <1>2, <2>1 DEF Buffer
  <2>3. Len(sizes) \in Nat /\ bufs \in [1 .. Len(sizes) -> Buffer]
    BY <1>1, <2>2
  <2> HIDE DEF bufs
  <2> QED
    BY <2>3
<1>4. Pending(Len(due) + 1, sizes) \in Callback
  BY <1>2 DEF Pending, Callback, TypeOK
<1>5. /\ buffer_size' = buffer_size + Len(sizes)
      /\ buffer_bytes_size' = buffer_bytes_size + bytes
      /\ buffers' = buffers \o bufs
      /\ callbacks' = Append(callbacks, Pending(Len(due) + 1, sizes))
      /\ due' = Append(due, Submitted + bytes)
      /\ UNCHANGED <<frames, outcome, acked, invoked, nested, NDEBUG>>
  BY DEF push, Added
<1> HIDE DEF bytes, bufs
<1>6. buffers' \in Seq(Buffer) /\ callbacks' \in Seq(Callback) /\ due' \in Seq(Nat)
  BY <1>2, <1>3, <1>4, <1>5 DEF TypeOK
<1> QED
  BY <1>1, <1>2, <1>5, <1>6 DEF TypeOK

LEMMA PopTypeOK ==
  ASSUME TypeOK, NEW bytes \in Reports, pop(bytes)
  PROVE  TypeOK'
<1>1. bytes \in Nat
  BY ReportsType
<1>2. consume(buffers, bytes) \in Seq(Buffer)
  BY <1>1, Consume DEF TypeOK
<1>3. [remaining |-> bytes, invoking |-> FALSE] \in Frame
  BY <1>1 DEF Frame
<1>4. Append(frames, [remaining |-> bytes, invoking |-> FALSE]) \in Seq(Frame)
  BY <1>3 DEF TypeOK
<1>5. Len(consume(buffers, bytes)) \in Nat
  BY <1>2
<1> QED
  BY <1>1, <1>2, <1>4, <1>5 DEF TypeOK, pop

LEMMA InvokeFrontTypeOK ==
  ASSUME TypeOK, InvokeFront
  PROVE  TypeOK'
<1> DEFINE new == [remaining |-> Last(frames).remaining - callbacks[1].size, invoking |-> TRUE]
<1>1. /\ ~Idle /\ callbacks # <<>>
      /\ callbacks[1].size <= Last(frames).remaining
      /\ frames' = [frames EXCEPT ![Len(frames)] = new]
      /\ invoked' = Append(invoked, callbacks[1].cb)
      /\ UNCHANGED <<queue, outcome, due, acked, nested, NDEBUG>>
  BY DEF InvokeFront, PopRuns, Covered
<1>2. callbacks[1].size \in Nat /\ callbacks[1].cb \in Nat
  <2>1. callbacks[1] \in Callback
    BY <1>1 DEF TypeOK
  <2> QED
    BY <2>1 DEF Callback
<1>3. Last(frames).remaining \in Nat
  BY <1>1, LastFrame DEF Frame
<1>4. new \in Frame
  BY <1>1, <1>2, <1>3 DEF Frame
<1> HIDE DEF new
<1>5. frames' \in Seq(Frame)
  BY <1>1, <1>4, LastFrame
<1>6. invoked' \in Seq(Nat)
  BY <1>1, <1>2 DEF TypeOK
<1> QED
  BY <1>1, <1>5, <1>6 DEF TypeOK, queue

LEMMA ShrinkFrontTypeOK ==
  ASSUME TypeOK, ShrinkFront
  PROVE  TypeOK'
<1> DEFINE remaining == Last(frames).remaining
<1> DEFINE shrunk == [callbacks[1] EXCEPT !.size = @ - remaining]
<1> DEFINE new == [Last(frames) EXCEPT !.remaining = 0]
<1>1. /\ ~Idle /\ callbacks # <<>>
      /\ ~(callbacks[1].size <= remaining)
      /\ callbacks' = [callbacks EXCEPT ![1] = shrunk]
      /\ frames' = [frames EXCEPT ![Len(frames)] = new]
      /\ UNCHANGED <<buffers, buffer_size, buffer_bytes_size, outcome, due, acked, invoked, nested, NDEBUG>>
  BY DEF ShrinkFront, PopRuns, Covered, Last
<1>2. callbacks[1] \in Callback /\ 1 \in 1 .. Len(callbacks)
  BY <1>1 DEF TypeOK
<1>3. Last(frames) \in Frame
  BY <1>1, LastFrame
<1>4. shrunk \in Callback
  <2>1. remaining \in Nat
    BY <1>3 DEF Frame
  <2> HIDE DEF remaining
  <2> QED
    BY <1>1, <1>2, <2>1 DEF Callback
<1>5. new \in Frame
  BY <1>3 DEF Frame
<1> HIDE DEF new, shrunk, remaining
<1>6. frames' \in Seq(Frame)
  BY <1>1, <1>5, LastFrame
<1>7. callbacks' \in Seq(Callback)
  BY <1>1, <1>2, <1>4, ExceptSeq DEF TypeOK
<1> QED
  BY <1>1, <1>6, <1>7 DEF TypeOK

LEMMA CallbackReturnsTypeOK ==
  ASSUME TypeOK, CallbackReturns
  PROVE  TypeOK'
<1> DEFINE new == [Last(frames) EXCEPT !.invoking = FALSE]
<1>1. ~Idle /\ UNCHANGED <<buffers, buffer_size, buffer_bytes_size, due, acked, invoked, nested, NDEBUG>>
  BY DEF CallbackReturns, InCallback
<1>2. new \in Frame
  BY <1>1, LastFrame DEF Frame
<1>3. CASE callbacks = <<>>
  BY <1>1, <1>3 DEF TypeOK, CallbackReturns
<1>4. CASE callbacks # <<>>
  <2>1. /\ callbacks' = Tail(callbacks)
        /\ frames' = [frames EXCEPT ![Len(frames)] = new]
        /\ UNCHANGED outcome
    BY <1>4 DEF CallbackReturns, pop_front, Last
  <2> HIDE DEF new
  <2>2. frames' \in Seq(Frame)
    BY <1>1, <1>2, <2>1, LastFrame
  <2>3. callbacks' \in Seq(Callback)
    BY <1>4, <2>1 DEF TypeOK
  <2> QED
    BY <1>1, <2>1, <2>2, <2>3 DEF TypeOK
<1> QED
  BY <1>3, <1>4

LEMMA InitTypeOK == Init => TypeOK
<1> SUFFICES ASSUME Init PROVE TypeOK
  OBVIOUS
<1>1. nested \in BOOLEAN /\ NDEBUG \in BOOLEAN
  BY ConstantsAssumption, Zenon DEF Init, ConstantsAssumption
<1>2. /\ buffers \in Seq(Buffer) /\ callbacks \in Seq(Callback)
      /\ frames \in Seq(Frame) /\ due \in Seq(Nat) /\ invoked \in Seq(Nat)
  BY DEF Init
<1>3. /\ buffer_size \in Nat /\ buffer_bytes_size \in Nat /\ acked \in Nat
      /\ outcome \in {"running", "aborted", "undefined"}
  BY DEF Init
<1> QED
  BY <1>1, <1>2, <1>3, Zenon DEF TypeOK

LEMMA NextTypeOK == TypeOK /\ [Next]_vars => TypeOK'
<1> SUFFICES ASSUME TypeOK, [Next]_vars PROVE TypeOK'
  OBVIOUS
<1>1. ASSUME NEW sizes \in Calls, push(sizes) PROVE TypeOK'
  BY <1>1, PushTypeOK
<1>2. ASSUME NEW bytes \in Reports, pop(bytes) PROVE TypeOK'
  BY <1>2, PopTypeOK
<1>3. ASSUME NEW bytes \in Reports, pop_aborts(bytes) PROVE TypeOK'
  BY <1>3 DEF TypeOK, pop_aborts, queue
<1>4. CASE InvokeFront
  BY <1>4, InvokeFrontTypeOK
<1>5. CASE ShrinkFront
  BY <1>5, ShrinkFrontTypeOK
<1>6. CASE LoopFindsNoCallback
  BY <1>6 DEF TypeOK, LoopFindsNoCallback, queue
<1>7. CASE PopReturns
  BY <1>7, LastFrame DEF TypeOK, PopReturns, PopRuns, queue
<1>8. CASE CallbackReturns
  BY <1>8, CallbackReturnsTypeOK
<1>9. CASE CallbackThrows
  BY <1>9, LastFrame DEF TypeOK, CallbackThrows, InCallback, queue
<1>10. CASE UNCHANGED vars
  BY <1>10 DEF TypeOK, vars, queue
<1> QED
  BY <1>1, <1>2, <1>3, <1>4, <1>5, <1>6, <1>7, <1>8, <1>9, <1>10 DEF Next, PopStep

\* In every build, whatever is reported and whatever the callbacks do, the
\* counters stay natural numbers: no subtraction of pop() or consume() wraps.
THEOREM QueueTyped == SafeSpec => []TypeOK
<1> QED
  BY InitTypeOK, NextTypeOK, PTL DEF SafeSpec
-----------------------------------------------------------------------------
(***************************************************************************)
(* The bytes in the queue.  Buffers that are a contiguous piece of the     *)
(* stream stay one when more are appended, and when whole buffers are      *)
(* consumed at the front.                                                  *)
(***************************************************************************)

\* The buffers refer to the stream from one offset to another, in order.
Spans(bufs, from, to) ==
  /\ bufs \in Seq(Buffer)
  /\ from + size_bytes(bufs) = to
  /\ \A i \in 1 .. Len(bufs) : bufs[i].base = from + Offsets(Sizes(bufs))[i - 1]

\* Two sums that grow alike differ by a constant.
LEMMA SameSums ==
  ASSUME NEW n \in Nat, NEW c \in Nat, NEW f, NEW g,
         \A i \in 0 .. n : f[i] \in Nat /\ g[i] \in Nat,
         f[0] = c + g[0],
         \A i \in 1 .. n : f[i] - f[i - 1] = g[i] - g[i - 1]
  PROVE  \A i \in 0 .. n : f[i] = c + g[i]
<1> DEFINE T == {k \in Nat : k \in 0 .. n => f[k] = c + g[k]}
<1>1. 0 \in T
  OBVIOUS
<1>2. ASSUME NEW k \in Nat, k \in T PROVE k + 1 \in T
  <2> SUFFICES ASSUME k + 1 \in 0 .. n PROVE f[k + 1] = c + g[k + 1]
    OBVIOUS
  <2>1. k \in 0 .. n /\ k + 1 \in 1 .. n /\ k + 1 - 1 = k
    OBVIOUS
  <2>2. f[k] = c + g[k] /\ f[k + 1] - f[k] = g[k + 1] - g[k]
    BY <1>2, <2>1
  <2>3. f[k] \in Nat /\ g[k] \in Nat /\ f[k + 1] \in Nat /\ g[k + 1] \in Nat
    BY <2>1
  <2> QED
    BY <2>2, <2>3
<1> HIDE DEF T
<1>3. Nat \subseteq T
  BY <1>1, <1>2, NatInductionSet
<1> QED
  BY <1>3 DEF T

\* Sums of natural numbers do not decrease.
LEMMA OffsetsAscend ==
  ASSUME NEW s \in Seq(Nat), NEW j \in 0 .. Len(s), NEW i \in 0 .. j
  PROVE  Offsets(s)[i] <= Offsets(s)[j]
<1> DEFINE off == Offsets(s)
<1> DEFINE n == Len(s)
<1> DEFINE T == {k \in Nat : k \in i .. n => off[i] <= off[k]}
<1>1. /\ n \in Nat
      /\ \A k \in 1 .. n : off[k] = off[k - 1] + s[k] /\ s[k] \in Nat
      /\ \A k \in 0 .. n : off[k] \in Nat
  BY OffsetsDef
<1> HIDE DEF off, n
<1>2. 0 \in T
  BY <1>1 DEF n
<1>3. ASSUME NEW k \in Nat, k \in T PROVE k + 1 \in T
  <2> SUFFICES ASSUME k + 1 \in i .. n PROVE off[i] <= off[k + 1]
    OBVIOUS
  <2>1. i \in 0 .. n /\ k + 1 \in 1 .. n /\ k \in 0 .. n /\ k + 1 - 1 = k
    BY <1>1 DEF n
  <2>2. off[k + 1] = off[k] + s[k + 1] /\ s[k + 1] \in Nat
    BY <1>1, <2>1
  <2>3. off[i] \in Nat /\ off[k] \in Nat /\ off[k + 1] \in Nat
    BY <1>1, <2>1
  <2>4. CASE i = k + 1
    BY <2>3, <2>4
  <2>5. CASE i # k + 1
    <3>1. off[i] <= off[k]
      BY <1>3, <2>1, <2>5
    <3> QED
      BY <2>2, <2>3, <3>1
  <2> QED
    BY <2>4, <2>5
<1> HIDE DEF T
<1>4. Nat \subseteq T
  BY <1>2, <1>3, NatInductionSet
<1>5. j \in T
  BY <1>1, <1>4
<1> QED
  BY <1>1, <1>5 DEF T, off, n

\* Buffers that continue others where they end.
LEMMA SpansConcat ==
  ASSUME NEW from \in Nat, NEW mid \in Nat, NEW to \in Nat, NEW a, NEW b,
         Spans(a, from, mid), Spans(b, mid, to)
  PROVE  Spans(a \o b, from, to)
<1> DEFINE c == a \o b
<1> DEFINE n == Len(a)
<1> DEFINE m == Len(b)
<1> DEFINE fa == Offsets(Sizes(a))
<1> DEFINE fb == Offsets(Sizes(b))
<1> DEFINE fc == Offsets(Sizes(c))
<1>1. a \in Seq(Buffer) /\ b \in Seq(Buffer)
  BY DEF Spans
<1>2. /\ c \in Seq(Buffer) /\ Len(c) = n + m /\ n \in Nat /\ m \in Nat
      /\ \A i \in 1 .. n : c[i] = a[i]
      /\ \A i \in 1 .. m : c[n + i] = b[i]
  BY <1>1
<1>3. /\ fa[0] = 0 /\ (\A i \in 1 .. n : fa[i] = fa[i - 1] + a[i].len)
      /\ \A i \in 0 .. n : fa[i] \in Nat
  BY <1>1, BufferOffsets, Zenon
<1>4. /\ fb[0] = 0 /\ (\A i \in 1 .. m : fb[i] = fb[i - 1] + b[i].len)
      /\ \A i \in 0 .. m : fb[i] \in Nat
  BY <1>1, BufferOffsets, Zenon
<1>5. /\ fc[0] = 0 /\ (\A i \in 1 .. n + m : fc[i] = fc[i - 1] + c[i].len)
      /\ \A i \in 0 .. n + m : fc[i] \in Nat
  BY <1>2, BufferOffsets, Zenon
<1>6. /\ from + fa[n] = mid /\ mid + fb[m] = to
      /\ \A i \in 1 .. n : a[i].base = from + fa[i - 1]
      /\ \A i \in 1 .. m : b[i].base = mid + fb[i - 1]
  BY DEF Spans, size_bytes
<1>7. /\ \A i \in 1 .. n : a[i].len \in Nat
      /\ \A i \in 1 .. m : b[i].len \in Nat
  BY <1>1, SizesType
<1>8. size_bytes(c) = fc[n + m]
  BY <1>2 DEF size_bytes
<1> HIDE DEF c, n, m, fa, fb, fc
<1>9. \A i \in 0 .. n : fc[i] = 0 + fa[i]
  <2>1. \A i \in 1 .. n : fc[i] - fc[i - 1] = fa[i] - fa[i - 1]
    <3> SUFFICES ASSUME NEW i \in 1 .. n PROVE fc[i] - fc[i - 1] = fa[i] - fa[i - 1]
      OBVIOUS
    <3>1. i \in 1 .. n + m /\ i - 1 \in 0 .. n + m /\ i - 1 \in 0 .. n
      BY <1>2
    <3>2. fc[i] = fc[i - 1] + a[i].len /\ fa[i] = fa[i - 1] + a[i].len
      BY <1>2, <1>3, <1>5, <3>1
    <3>3. fc[i - 1] \in Nat /\ fa[i - 1] \in Nat /\ a[i].len \in Nat
      BY <1>3, <1>5, <1>7, <3>1
    <3> QED
      BY <3>2, <3>3
  <2>2. \A i \in 0 .. n : fc[i] \in Nat /\ fa[i] \in Nat
    BY <1>2, <1>3, <1>5
  <2>3. fc[0] = 0 + fa[0] /\ 0 \in Nat /\ n \in Nat
    BY <1>2, <1>3, <1>5
  <2> QED
    BY <2>1, <2>2, <2>3, SameSums
<1>10. \A i \in 0 .. m : fc[n + i] = fa[n] + fb[i]
  <2> DEFINE g == [i \in 0 .. m |-> fc[n + i]]
  <2>1. \A i \in 1 .. m : g[i] - g[i - 1] = fb[i] - fb[i - 1]
    <3> SUFFICES ASSUME NEW i \in 1 .. m PROVE g[i] - g[i - 1] = fb[i] - fb[i - 1]
      OBVIOUS
    <3>1. n + i \in 1 .. n + m /\ i - 1 \in 0 .. m /\ n + i - 1 = n + (i - 1)
      BY <1>2
    <3>2. g[i] = fc[n + i] /\ g[i - 1] = fc[n + i - 1]
      BY <3>1
    <3>3. fc[n + i] = fc[n + i - 1] + b[i].len
      BY <1>2, <1>5, <3>1
    <3>4. fc[n + i - 1] \in Nat /\ fb[i - 1] \in Nat /\ b[i].len \in Nat
      BY <1>2, <1>4, <1>5, <1>7, <3>1
    <3>5. fb[i] = fb[i - 1] + b[i].len
      BY <1>4
    <3> HIDE DEF g
    <3> QED
      BY <3>2, <3>3, <3>4, <3>5
  <2>2. \A i \in 0 .. m : g[i] \in Nat /\ fb[i] \in Nat
    BY <1>2, <1>4, <1>5
  <2>3. g[0] = fa[n] + fb[0] /\ fa[n] \in Nat /\ m \in Nat
    BY <1>2, <1>3, <1>4, <1>9
  <2>4. \A i \in 0 .. m : g[i] = fa[n] + fb[i]
    <3> DEFINE d == fa[n]
    <3>1. g[0] = d + fb[0] /\ d \in Nat /\ m \in Nat
      BY <2>3
    <3> HIDE DEF g, d
    <3>2. \A i \in 0 .. m : g[i] = d + fb[i]
      BY <2>1, <2>2, <3>1, SameSums
    <3> QED
      BY <3>2 DEF d
  <2> QED
    BY <2>4
<1>11. from + size_bytes(c) = to
  BY <1>2, <1>3, <1>4, <1>6, <1>8, <1>10
<1>12. ASSUME NEW i \in 1 .. n + m PROVE c[i].base = from + fc[i - 1]
  <2>1. CASE i \in 1 .. n
    <3>1. i - 1 \in 0 .. n
      BY <1>2, <2>1
    <3>2. fc[i - 1] = fa[i - 1]
      BY <1>3, <1>9, <3>1
    <3> QED
      BY <1>2, <1>6, <2>1, <3>2
  <2>2. CASE i \in n + 1 .. n + m
    <3> DEFINE k == i - n
    <3>1. k \in 1 .. m /\ k - 1 \in 0 .. m /\ n + k = i /\ n + (k - 1) = i - 1
      BY <1>2, <2>2
    <3> HIDE DEF k
    <3>2. c[i] = b[k] /\ b[k].base = mid + fb[k - 1]
      BY <1>2, <1>6, <3>1
    <3>3. fc[i - 1] = fa[n] + fb[k - 1]
      BY <1>10, <3>1
    <3>4. fa[n] \in Nat /\ fb[k - 1] \in Nat
      BY <1>2, <1>3, <1>4, <3>1
    <3> QED
      BY <1>6, <3>2, <3>3, <3>4
  <2> QED
    BY <1>2, <2>1, <2>2
<1> QED
  BY <1>2, <1>11, <1>12 DEF Spans, c, fc

\* One buffer where others end.
LEMMA SpansAppend ==
  ASSUME NEW from \in Nat, NEW mid \in Nat, NEW bufs, Spans(bufs, from, mid),
         NEW buf \in Buffer, buf.base = mid
  PROVE  Spans(Append(bufs, buf), from, mid + buf.len)
<1>1. <<buf>> \in Seq(Buffer) /\ Len(<<buf>>) = 1 /\ <<buf>>[1] = buf
  OBVIOUS
<1>2. buf.len \in Nat
  BY DEF Buffer
<1> DEFINE f == Offsets(Sizes(<<buf>>))
<1>3. f[0] = 0 /\ \A i \in 1 .. 1 : f[i] = f[i - 1] + <<buf>>[i].len
  BY <1>1, BufferOffsets
<1>4. size_bytes(<<buf>>) = f[1]
  BY <1>1 DEF size_bytes
<1> HIDE DEF f
<1>5. f[1] = buf.len
  BY <1>1, <1>2, <1>3
<1>6. Spans(<<buf>>, mid, mid + buf.len)
  BY <1>1, <1>3, <1>4, <1>5 DEF Spans, f
<1>7. Append(bufs, buf) = bufs \o <<buf>>
  BY <1>1 DEF Spans
<1> QED
  BY <1>2, <1>6, <1>7, SpansConcat

LEMMA SpansNothing == ASSUME NEW from \in Nat PROVE Spans(<<>>, from, from)
<1>1. <<>> \in Seq(Buffer) /\ Len(<<>>) = 0
  OBVIOUS
<1>2. size_bytes(<<>>) = 0
  BY <1>1, BufferOffsets DEF size_bytes
<1> QED
  BY <1>1, <1>2 DEF Spans
-----------------------------------------------------------------------------
\* Whole buffers reported written are erased, and with them only empty ones.
LEMMA ScanWhole ==
  ASSUME NEW from \in Nat, NEW to \in Nat, NEW bufs, Spans(bufs, from, to),
         NEW k \in 0 .. Len(bufs)
  PROVE  Spans(erase_if(bufs, Offsets(Sizes(bufs))[k]).kept, from + Offsets(Sizes(bufs))[k], to)
<1> DEFINE n == Len(bufs)
<1> DEFINE off == Offsets(Sizes(bufs))
<1> DEFINE bytes == off[k]
<1>1. bufs \in Seq(Buffer) /\ bufs \in [1 .. n -> Buffer] /\ n \in Nat
  BY DEF Spans
<1>2. /\ off[0] = 0 /\ (\A i \in 1 .. n : off[i] = off[i - 1] + bufs[i].len)
      /\ \A i \in 0 .. n : off[i] \in Nat
  BY <1>1, BufferOffsets, Zenon
<1>3. \A i \in 1 .. n : bufs[i] \in Buffer /\ bufs[i].len \in Nat /\ bufs[i].base = from + off[i - 1]
  BY <1>1, SizesType DEF Spans
<1>4. from + off[n] = to
  BY DEF Spans, size_bytes
<1>5. \A j \in 0 .. n : \A i \in 0 .. j : off[i] <= off[j]
  <2>1. Sizes(bufs) \in Seq(Nat) /\ Len(Sizes(bufs)) = n
    BY <1>1, SizesType
  <2> QED
    BY <2>1, OffsetsAscend
<1>6. bytes \in Nat /\ k \in 0 .. n
  BY <1>2
<1>7. PICK scan : Scans(scan, bufs, n, bytes) /\ erase_if(bufs, bytes) = scan[n]
  BY <1>1, <1>6, EraseIfScans
<1> HIDE DEF n, off, bytes
<1>8. /\ scan[0] = [sum |-> 0, kept |-> <<>>]
      /\ \A i \in 1 .. n : scan[i] = ScanStep(scan[i - 1], bufs[i], bytes)
      /\ \A i \in 0 .. n : scan[i] \in ScanState(bytes)
  BY <1>1, <1>6, <1>7, ScansType
<1> DEFINE T == {i \in Nat : i \in 0 .. k => scan[i] = [sum |-> off[i], kept |-> <<>>]}
<1>9. 0 \in T
  BY <1>2, <1>8
<1>10. ASSUME NEW i \in Nat, i \in T PROVE i + 1 \in T
  <2> SUFFICES ASSUME i + 1 \in 0 .. k PROVE scan[i + 1] = [sum |-> off[i + 1], kept |-> <<>>]
    OBVIOUS
  <2>1. i \in 0 .. k /\ i \in 0 .. n /\ i + 1 \in 1 .. n /\ i + 1 \in 0 .. n /\ i + 1 - 1 = i
    BY <1>1, <1>6
  <2>2. scan[i].sum = off[i] /\ scan[i].kept = <<>> /\ scan[i] \in ScanState(bytes)
    BY <1>8, <1>10, <2>1
  <2> HIDE DEF T
  <2>3. off[i + 1] = off[i] + bufs[i + 1].len /\ off[i + 1] <= off[k]
    BY <1>2, <1>5, <1>6, <2>1
  <2>4. bufs[i + 1] \in Buffer /\ bufs[i + 1].len \in Nat /\ off[i] \in Nat /\ off[k] \in Nat
    BY <1>2, <1>3, <1>6, <2>1
  <2>5. bufs[i + 1].len <= bytes - scan[i].sum
    BY <2>2, <2>3, <2>4 DEF bytes
  <2> DEFINE buf == bufs[i + 1]
  <2> DEFINE before == scan[i]
  <2>6. buf \in Buffer /\ before \in ScanState(bytes) /\ buf.len <= bytes - before.sum
    BY <2>2, <2>4, <2>5
  <2>7. scan[i + 1] = ScanStep(before, buf, bytes)
    BY <1>8, <2>1
  <2>8. before.sum + buf.len = off[i + 1] /\ before.kept = <<>>
    BY <2>2, <2>3
  <2> HIDE DEF buf, before
  <2>9. ScanStep(before, buf, bytes) = [sum |-> before.sum + buf.len, kept |-> before.kept]
    BY <1>6, <2>6, ScanErases
  <2> QED
    BY <2>7, <2>8, <2>9
<1> DEFINE U == {i \in Nat : i \in k .. n =>
                   scan[i].sum = bytes /\ Spans(scan[i].kept, from + bytes, from + off[i])}
<1>11. k \in T
  <2> HIDE DEF T
  <2>1. Nat \subseteq T
    BY <1>9, <1>10, NatInductionSet
  <2> QED
    BY <1>6, <2>1
<1>12. scan[k].sum = bytes /\ Spans(scan[k].kept, from + bytes, from + off[k])
  <2>1. scan[k] = [sum |-> off[k], kept |-> <<>>]
    BY <1>6, <1>11
  <2>2. from + bytes \in Nat
    BY <1>6
  <2> QED
    BY <2>1, <2>2, SpansNothing DEF bytes
<1> HIDE DEF T
<1>13. 0 \in U
  BY <1>6, <1>12
<1>14. ASSUME NEW i \in Nat, i \in U PROVE i + 1 \in U
  <2> SUFFICES ASSUME i + 1 \in k .. n
      PROVE  scan[i + 1].sum = bytes /\ Spans(scan[i + 1].kept, from + bytes, from + off[i + 1])
    OBVIOUS
  <2>1. CASE i + 1 = k
    BY <1>12, <2>1
  <2>2. CASE i + 1 # k
    <3>1. i \in k .. n /\ i \in 0 .. n /\ i + 1 \in 1 .. n /\ i + 1 \in 0 .. n /\ i + 1 - 1 = i
      BY <1>1, <1>6, <2>2
    <3>2. scan[i].sum = bytes /\ Spans(scan[i].kept, from + bytes, from + off[i])
      BY <1>14, <3>1
    <3> HIDE DEF U
    <3> DEFINE buf == bufs[i + 1]
    <3>3. /\ buf \in Buffer /\ buf.len \in Nat /\ buf.base = from + off[i]
          /\ off[i + 1] = off[i] + buf.len /\ off[i] \in Nat
          /\ scan[i + 1] = ScanStep(scan[i], buf, bytes) /\ scan[i] \in ScanState(bytes)
      BY <1>2, <1>3, <1>8, <3>1
    <3> HIDE DEF buf
    <3>4. from + bytes \in Nat /\ from + off[i] \in Nat /\ bytes - scan[i].sum = 0
      BY <1>6, <3>2, <3>3
    <3>5. CASE buf.len <= bytes - scan[i].sum
      <4>1. buf.len = 0 /\ scan[i].sum + buf.len = bytes /\ off[i + 1] = off[i]
        BY <1>6, <3>2, <3>3, <3>4, <3>5
      <4>2. scan[i + 1] = [sum |-> scan[i].sum + buf.len, kept |-> scan[i].kept]
        BY <1>6, <3>3, <3>5, ScanErases
      <4> QED
        BY <3>2, <4>1, <4>2
    <3>6. CASE ~(buf.len <= bytes - scan[i].sum)
      <4>1. scan[i + 1] = [sum |-> bytes, kept |-> Append(scan[i].kept, buf)]
        BY <1>6, <3>3, <3>6, ScanKeeps
      <4>2. Spans(Append(scan[i].kept, buf), from + bytes, from + off[i] + buf.len)
        BY <3>2, <3>3, <3>4, SpansAppend
      <4>3. from + off[i] + buf.len = from + off[i + 1]
        BY <3>3
      <4> QED
        BY <4>1, <4>2, <4>3
    <3> QED
      BY <3>5, <3>6
  <2> QED
    BY <2>1, <2>2
<1> HIDE DEF U
<1>15. n \in U
  BY <1>1, <1>13, <1>14, NatInductionSet
<1>16. Spans(scan[n].kept, from + bytes, from + off[n])
  BY <1>1, <1>6, <1>15 DEF U
<1> QED
  BY <1>4, <1>7, <1>16 DEF bytes, off

\* A debug build goes on only if no buffer is left: what the scan kept has
\* used up the bytes, so that the last assert of consume() fails on it.
LEMMA ScanAll ==
  ASSUME NEW bufs \in Seq(Buffer), NEW bytes \in Nat, consume_asserts(bufs, bytes)
  PROVE  erase_if(bufs, bytes).kept = <<>> /\ bytes = size_bytes(bufs)
<1> DEFINE n == Len(bufs)
<1> DEFINE off == Offsets(Sizes(bufs))
<1>1. bufs \in [1 .. n -> Buffer] /\ n \in Nat
  OBVIOUS
<1>2. /\ off[0] = 0 /\ (\A i \in 1 .. n : off[i] = off[i - 1] + bufs[i].len)
      /\ \A i \in 0 .. n : off[i] \in Nat
  BY <1>1, BufferOffsets, Zenon
<1>3. PICK scan : Scans(scan, bufs, n, bytes) /\ erase_if(bufs, bytes) = scan[n]
  BY <1>1, EraseIfScans
<1>4. size_bytes(bufs) = off[n]
  BY DEF size_bytes
<1> HIDE DEF n, off
<1>5. /\ scan[0] = [sum |-> 0, kept |-> <<>>]
      /\ \A i \in 1 .. n : scan[i] = ScanStep(scan[i - 1], bufs[i], bytes)
      /\ \A i \in 0 .. n : scan[i] \in ScanState(bytes)
  BY <1>1, <1>3, ScansType
<1>6. scan[n].kept = <<>> /\ scan[n].sum = bytes
  <2>1. scan[n].kept # <<>> => bytes - scan[n].sum > 0
    BY <1>3 DEF consume_asserts
  <2>2. scan[n].kept # <<>> => scan[n].sum = bytes
    BY <1>1, <1>5 DEF ScanState
  <2>3. scan[n].kept = <<>>
    BY <2>1, <2>2
  <2> QED
    BY <1>3, <2>3 DEF consume_asserts
<1> DEFINE T == {i \in Nat : i \in 0 .. n /\ scan[i].kept = <<>> => scan[i].sum = off[i]}
<1>7. 0 \in T
  BY <1>2, <1>5
<1>8. ASSUME NEW i \in Nat, i \in T PROVE i + 1 \in T
  <2> SUFFICES ASSUME i + 1 \in 0 .. n, scan[i + 1].kept = <<>> PROVE scan[i + 1].sum = off[i + 1]
    OBVIOUS
  <2> DEFINE buf == bufs[i + 1]
  <2>1. i \in 0 .. n /\ i + 1 \in 1 .. n /\ i + 1 - 1 = i
    BY <1>1
  <2>2. /\ buf \in Buffer /\ scan[i + 1] = ScanStep(scan[i], buf, bytes)
        /\ scan[i] \in ScanState(bytes) /\ off[i + 1] = off[i] + buf.len
    BY <1>1, <1>2, <1>5, <2>1
  <2>3. scan[i].kept = <<>> => scan[i].sum = off[i]
    BY <1>8, <2>1
  <2> HIDE DEF T, buf
  <2>4. CASE buf.len <= bytes - scan[i].sum
    <3>1. scan[i + 1] = [sum |-> scan[i].sum + buf.len, kept |-> scan[i].kept]
      BY <2>2, <2>4, ScanErases
    <3> QED
      BY <2>2, <2>3, <3>1
  <2>5. CASE ~(buf.len <= bytes - scan[i].sum)
    <3>1. scan[i + 1].kept = Append(scan[i].kept, buf)
      BY <2>2, <2>5, ScanKeeps
    <3>2. scan[i].kept \in Seq(Buffer)
      BY <2>2 DEF ScanState
    <3> QED
      BY <2>2, <3>1, <3>2
  <2> QED
    BY <2>4, <2>5
<1> HIDE DEF T
<1>9. n \in T
  BY <1>1, <1>7, <1>8, NatInductionSet
<1> QED
  BY <1>1, <1>3, <1>4, <1>6, <1>9 DEF T
-----------------------------------------------------------------------------
\* The callers report whole buffers, or every build has the asserts.
WholeOrChecked == WholeBuffers = TRUE \/ Builds = {FALSE}

\* The queue's buffers are what is submitted and not yet reported written.
Faithful == Spans(buffers, acked, Submitted)

LEMMA PushFaithful ==
  ASSUME TypeOK, Faithful, NEW sizes \in Calls, push(sizes)
  PROVE  Faithful'
<1> DEFINE n == Len(sizes)
<1> DEFINE off == Offsets(sizes)
<1> DEFINE bufs == [i \in 1 .. n |-> [base |-> Submitted + off[i - 1], len |-> sizes[i]]]
<1>1. sizes \in Seq(Nat) /\ n \in Nat /\ \A i \in 1 .. n : sizes[i] \in Nat
  BY ConstantsAssumption
<1>2. \A i \in 0 .. n : off[i] \in Nat
  BY <1>1, OffsetsDef
<1>3. buffers' = buffers \o bufs /\ due' = Append(due, Submitted + off[n]) /\ acked' = acked
  BY DEF push
<1>4. Submitted \in Nat /\ acked \in Nat /\ due \in Seq(Nat)
  BY SubmittedType DEF TypeOK
<1>5. n \in 0 .. n /\ off[n] \in Nat
  BY <1>1, <1>2
<1>6. Submitted' = Submitted + off[n]
  <2>1. Submitted + off[n] \in Nat
    BY <1>4, <1>5
  <2>2. due' # <<>> /\ due'[Len(due')] = Submitted + off[n]
    BY <1>3, <1>4, <2>1
  <2> QED
    BY <2>2 DEF Submitted, Last
<1>7. Spans(bufs, Submitted, Submitted + off[n])
  <2>1. \A i \in 1 .. n : bufs[i] \in Buffer
    <3>1. \A i \in 1 .. n : off[i - 1] \in Nat
      BY <1>1, <1>2
    <3> QED
      BY <1>1, <1>4, <3>1 DEF Buffer
  <2>2. bufs \in [1 .. n -> Buffer]
    BY <2>1
  <2>3. \A i \in 1 .. n : bufs[i].base = Submitted + off[i - 1] /\ bufs[i].len = sizes[i]
    OBVIOUS
  <2> HIDE DEF bufs
  <2>4. bufs \in Seq(Buffer) /\ Len(bufs) = n
    BY <1>1, <2>2
  <2>5. Sizes(bufs) = sizes
    BY <1>1, <2>3, <2>4 DEF Sizes
  <2> QED
    BY <2>3, <2>4, <2>5 DEF Spans, size_bytes
<1> HIDE DEF bufs, off
<1>8. Spans(buffers \o bufs, acked, Submitted + off[n])
  <2>1. Submitted + off[n] \in Nat
    BY <1>4, <1>5
  <2> QED
    BY <1>4, <1>7, <2>1, SpansConcat DEF Faithful
<1> QED
  BY <1>3, <1>6, <1>8 DEF Faithful

LEMMA PopFaithful ==
  ASSUME TypeOK, WholeOrChecked, NDEBUG \in Builds, Faithful, NEW bytes \in Reports, pop(bytes)
  PROVE  Faithful'
<1>1. bytes \in Nat /\ acked \in Nat /\ Submitted \in Nat /\ buffers \in Seq(Buffer)
  BY ReportsType, SubmittedType DEF TypeOK
<1>2. /\ buffers' = erase_if(buffers, bytes).kept /\ acked' = acked + bytes /\ due' = due
      /\ ~NDEBUG => consume_asserts(buffers, bytes)
  BY <1>1, Consume DEF pop, pop_asserts
<1>3. Submitted' = Submitted
  BY <1>2 DEF Submitted, Last
<1>4. CASE WholeBuffers = TRUE
  <2>1. PICK k \in 0 .. Len(buffers) : bytes = Offsets(Sizes(buffers))[k]
    BY <1>4 DEF Reports
  <2> QED
    BY <1>1, <1>2, <1>3, <2>1, ScanWhole DEF Faithful
<1>5. CASE Builds = {FALSE}
  <2>1. erase_if(buffers, bytes).kept = <<>> /\ bytes = size_bytes(buffers)
    BY <1>1, <1>2, <1>5, ScanAll
  <2>2. acked + bytes = Submitted
    BY <2>1 DEF Faithful, Spans
  <2> QED
    BY <1>1, <1>2, <1>3, <2>1, <2>2, SpansNothing DEF Faithful
<1> QED
  BY <1>4, <1>5 DEF WholeOrChecked

FaithfulInv == NDEBUG \in Builds /\ Faithful

LEMMA FaithfulInvariant ==
  ASSUME WholeOrChecked
  PROVE  SafeSpec => [](TypeOK /\ FaithfulInv)
<1>1. Init => TypeOK /\ FaithfulInv
  <2> SUFFICES ASSUME Init PROVE TypeOK /\ FaithfulInv
    OBVIOUS
  <2>1. buffers = <<>> /\ acked = 0 /\ Submitted = 0
    BY DEF Init, Submitted
  <2> QED
    BY <2>1, InitTypeOK, SpansNothing DEF FaithfulInv, Faithful, Init
<1>2. TypeOK /\ FaithfulInv /\ [Next]_vars => FaithfulInv'
  <2> SUFFICES ASSUME TypeOK, FaithfulInv, [Next]_vars PROVE FaithfulInv'
    OBVIOUS
  <2>1. ASSUME NEW sizes \in Calls, push(sizes) PROVE NDEBUG' = NDEBUG /\ Faithful'
    BY <2>1, PushFaithful DEF push, FaithfulInv
  <2>2. ASSUME NEW bytes \in Reports, pop(bytes) PROVE NDEBUG' = NDEBUG /\ Faithful'
    BY <2>2, PopFaithful DEF pop, FaithfulInv
  <2>3. CASE UNCHANGED <<NDEBUG, buffers, acked, due>>
    BY <2>3 DEF FaithfulInv, Faithful, Submitted, Last
  <2>4. (\E bytes \in Reports : pop_aborts(bytes)) \/ PopStep \/ CallbackReturns
          \/ CallbackThrows \/ UNCHANGED vars => UNCHANGED <<NDEBUG, buffers, acked, due>>
    BY DEF pop_aborts, PopStep, InvokeFront, ShrinkFront, LoopFindsNoCallback,
           PopReturns, CallbackReturns, CallbackThrows, queue, vars
  <2> QED
    BY <2>1, <2>2, <2>3, <2>4 DEF Next, FaithfulInv
<1> QED
  BY <1>1, <1>2, NextTypeOK, PTL DEF SafeSpec

\* The next write is handed exactly the bytes submitted and not yet reported
\* written, in order, for any pushes and whatever callbacks throw or pop
\* again: if whole buffers are reported, or the asserts of consume() are on.
THEOREM BytesAreFaithful == ASSUME WholeOrChecked PROVE SafeSpec => []ByteFidelity
<1>1. TypeOK /\ FaithfulInv => ByteFidelity
  BY DEF FaithfulInv, Faithful, Spans, ByteFidelity
<1> QED
  BY <1>1, FaithfulInvariant, PTL
-----------------------------------------------------------------------------
(***************************************************************************)
(* Callbacks that return and do not call pop(): at most one pop() runs.    *)
(* Written bytes cover the pushes one after the other; what is inductive   *)
(* is where in the stream pop() has come to, and that each callback waits  *)
(* for the bytes from there to the end of its push.                        *)
(***************************************************************************)

Flat == MaxDepth = 1 /\ CallbacksMayThrow = FALSE

Busy == ~Idle /\ Last(frames).invoking

\* The offset in the stream up to which bytes were matched with callbacks.
Processed == acked - IF Idle THEN 0 ELSE Last(frames).remaining

Done == Len(invoked)

DueTo(c) == IF c = 0 THEN 0 ELSE due[c]

OneFrame == Len(frames) <= 1

\* The callbacks of the pushes from Done + 1 on are queued, in order, behind
\* the one that is running.
Queued ==
  /\ Done <= Len(due)
  /\ Len(due) + (IF Busy THEN 1 ELSE 0) = Done + Len(callbacks)
  /\ \A i \in 1 .. Len(callbacks) :
       callbacks[i].cb + (IF Busy THEN 1 ELSE 0) = Done + i

\* The next callback waits for the rest of its push, the others for all.
Waiting ==
  \A i \in 1 .. Len(callbacks) :
    /\ callbacks[i].cb = Done + 1 =>
         callbacks[i].size = due[Done + 1] - Processed
    /\ callbacks[i].cb > Done + 1 =>
         callbacks[i].size = due[callbacks[i].cb] - due[callbacks[i].cb - 1]

CaughtUp == Done = Len(due) => Processed = Submitted

Ascending == \A c, d \in 1 .. Len(due) : c <= d => due[c] <= due[d]

Reached == \A c \in 1 .. Done : due[c] <= Processed

\* A push whose callback is next is either untouched or not yet covered.
Partial ==
  \/ Processed = DueTo(Done)
  \/ Done < Len(due) /\ Processed < due[Done + 1]

OrderInv ==
  /\ OneFrame
  /\ Queued
  /\ Waiting
  /\ CaughtUp
  /\ Ascending
  /\ Reached
  /\ Partial
  /\ InOrderOnce
-----------------------------------------------------------------------------
LEMMA ProcessedType == TypeOK => Processed \in Int /\ Processed <= acked
<1> SUFFICES ASSUME TypeOK PROVE Processed \in Int /\ Processed <= acked
  OBVIOUS
<1>1. acked \in Nat
  BY DEF TypeOK
<1>2. ~Idle => Last(frames).remaining \in Nat
  BY LastFrame DEF Frame
<1> QED
  BY <1>1, <1>2 DEF Processed

LEMMA CallbackType ==
  ASSUME TypeOK, NEW i \in 1 .. Len(callbacks)
  PROVE  callbacks[i].cb \in Nat /\ callbacks[i].size \in Nat
<1>1. callbacks[i] \in Callback
  BY DEF TypeOK
<1> QED
  BY <1>1 DEF Callback

\* A step that leaves the callbacks and the place in the stream alone.
LEMMA SameOrder ==
  ASSUME OrderInv, OneFrame', Busy' = Busy, Processed' = Processed,
         UNCHANGED <<callbacks, due, invoked>>
  PROVE  OrderInv'
<1>1. UNCHANGED <<Done, Submitted, DueTo(Done)>>
  BY DEF Done, Submitted, DueTo, Last
<1>2. Queued' /\ Waiting' /\ CaughtUp'
  BY <1>1 DEF OrderInv, Queued, Waiting, CaughtUp
<1>3. Ascending' /\ Reached' /\ Partial' /\ InOrderOnce'
  BY <1>1 DEF OrderInv, Ascending, Reached, Partial, InOrderOnce
<1> QED
  BY <1>2, <1>3 DEF OrderInv

LEMMA PushOrder ==
  ASSUME TypeOK, OrderInv, NEW sizes \in Calls, push(sizes)
  PROVE  OrderInv'
<1> DEFINE bytes == Offsets(sizes)[Len(sizes)]
<1> DEFINE n == Len(due)
<1> DEFINE m == Len(callbacks)
<1>1. bytes \in Nat /\ Submitted \in Nat
  BY BytesOfCall, SubmittedType, ConstantsAssumption
<1>2. /\ callbacks' = Append(callbacks, [cb |-> n + 1, size |-> bytes])
      /\ due' = Append(due, Submitted + bytes)
      /\ UNCHANGED <<frames, acked, invoked>>
  BY DEF push, Pending
<1> HIDE DEF bytes
<1>3. OneFrame' /\ UNCHANGED <<Busy, Processed, Done>>
  BY <1>2 DEF OrderInv, Busy, Processed, Done, OneFrame, Idle, Last
<1>4. /\ n \in Nat /\ Len(due') = n + 1 /\ due'[n + 1] = Submitted + bytes
      /\ \A c \in 1 .. n : due'[c] = due[c] /\ due[c] \in Nat
  BY <1>1, <1>2 DEF TypeOK
<1>5. /\ m \in Nat /\ Len(callbacks') = m + 1
      /\ \A i \in 1 .. m : callbacks'[i] = callbacks[i]
      /\ callbacks'[m + 1].cb = n + 1 /\ callbacks'[m + 1].size = bytes
  BY <1>2 DEF TypeOK
<1>6. Submitted' = Submitted + bytes
  BY <1>2, <1>4 DEF Submitted, Last
<1>7. \A c \in 1 .. n : due[c] <= Submitted
  BY <1>4 DEF OrderInv, Ascending, Submitted, Last
<1>8. n > 0 => due[n] = Submitted
  BY <1>4 DEF Submitted, Last
<1>9. Done \in Nat /\ Done <= n /\ Processed \in Int
  BY ProcessedType DEF Done, TypeOK, OrderInv, Queued
<1>10. /\ n + (IF Busy THEN 1 ELSE 0) = Done + m
       /\ \A i \in 1 .. m : callbacks[i].cb + (IF Busy THEN 1 ELSE 0) = Done + i
  BY DEF OrderInv, Queued
<1>0. \A i \in 1 .. m : callbacks[i].cb \in Nat /\ callbacks[i].size \in Nat
  BY CallbackType
<1> HIDE DEF n, m
<1>11. Queued'
  <2>1. Len(due') + (IF Busy THEN 1 ELSE 0) = Done + Len(callbacks')
    BY <1>4, <1>5, <1>9, <1>10
  <2>2. ASSUME NEW i \in 1 .. m + 1
        PROVE  callbacks'[i].cb + (IF Busy THEN 1 ELSE 0) = Done + i
    <3>1. CASE i \in 1 .. m
      BY <1>5, <1>10, <3>1
    <3>2. CASE i = m + 1
      BY <1>4, <1>5, <1>9, <1>10, <3>2
    <3> QED
      BY <1>5, <3>1, <3>2
  <2> QED
    BY <1>3, <1>4, <1>5, <1>9, <2>1, <2>2 DEF Queued
<1>12. Waiting'
  <2>1. ASSUME NEW i \in 1 .. m
        PROVE  /\ callbacks'[i].cb = Done + 1 =>
                    callbacks'[i].size = due'[Done + 1] - Processed
               /\ callbacks'[i].cb > Done + 1 =>
                    callbacks'[i].size = due'[callbacks'[i].cb] - due'[callbacks'[i].cb - 1]
    <3>1. callbacks[i].cb \in 0 .. n
      BY <1>0, <1>4, <1>5, <1>9, <1>10
    <3>2. /\ callbacks[i].cb = Done + 1 => callbacks[i].size = due[Done + 1] - Processed
          /\ callbacks[i].cb > Done + 1 =>
               callbacks[i].size = due[callbacks[i].cb] - due[callbacks[i].cb - 1]
      BY DEF OrderInv, Waiting, m
    <3>3. callbacks'[i] = callbacks[i]
      BY <1>5
    <3>4. CASE callbacks[i].cb = Done + 1
      BY <1>4, <1>9, <3>1, <3>2, <3>3, <3>4
    <3>5. CASE callbacks[i].cb > Done + 1
      <4>1. callbacks[i].cb \in 1 .. n /\ callbacks[i].cb - 1 \in 1 .. n
        BY <1>4, <1>9, <3>1, <3>5
      <4> QED
        BY <1>4, <1>9, <3>2, <3>3, <3>5, <4>1
    <3> QED
      BY <3>3, <3>4, <3>5
  <2>2. n + 1 = Done + 1 => bytes = due'[Done + 1] - Processed
    <3>1. Done = n => Processed = Submitted
      BY DEF OrderInv, CaughtUp, n
    <3> QED
      BY <1>1, <1>4, <1>9, <3>1
  <2>3. n + 1 > Done + 1 => bytes = due'[n + 1] - due'[n]
    BY <1>1, <1>4, <1>8, <1>9
  <2> QED
    BY <1>3, <1>4, <1>5, <2>1, <2>2, <2>3 DEF Waiting
<1>13. CaughtUp'
  BY <1>3, <1>4, <1>9 DEF CaughtUp
<1>14. Ascending'
  BY <1>1, <1>4, <1>7 DEF OrderInv, Ascending, n
<1>15. Reached'
  BY <1>3, <1>4, <1>9 DEF OrderInv, Reached
<1>16. Partial'
  <2>1. DueTo(Done)' = DueTo(Done)
    BY <1>3, <1>4, <1>9 DEF DueTo
  <2>2. Done < n => due'[Done + 1] = due[Done + 1]
    BY <1>4, <1>9
  <2> QED
    BY <1>3, <1>4, <1>9, <2>1, <2>2 DEF OrderInv, Partial, n
<1>17. OneFrame' /\ InOrderOnce'
  BY <1>2, <1>3 DEF OrderInv, InOrderOnce
<1> QED
  BY <1>11, <1>12, <1>13, <1>14, <1>15, <1>16, <1>17 DEF OrderInv

\* With one pop() at most, the innermost frame is the only one.
LEMMA OnlyFrame ==
  ASSUME TypeOK, OneFrame, ~Idle
  PROVE  /\ Len(frames) = 1
         /\ Front(frames) = <<>>
         /\ \A f \in Frame : /\ Len([frames EXCEPT ![Len(frames)] = f]) = 1
                            /\ [frames EXCEPT ![Len(frames)] = f] # <<>>
                            /\ [frames EXCEPT ![Len(frames)] = f][1] = f
<1>1. frames \in Seq(Frame) /\ frames # <<>> /\ Len(frames) <= 1
  BY DEF TypeOK, Idle, OneFrame
<1>2. Len(frames) = 1 /\ Front(frames) = <<>>
  <2>1. Len(frames) = 1
    <3>1. Len(frames) \in Nat \ {0}
      BY <1>1, EmptySeq, Zenon
    <3>2. Len(frames) <= 1
      BY DEF OneFrame
    <3> DEFINE k == Len(frames)
    <3>3. k \in Nat \ {0} /\ k <= 1
      BY <3>1, <3>2
    <3> HIDE DEF k
    <3>4. k = 1
      BY <3>3
    <3> QED
      BY <3>4 DEF k
  <2>2. SubSeq(frames, 1, 0) = <<>>
    BY <1>1, SubSeqEmpty
  <2> QED
    BY <2>1, <2>2 DEF Front
<1>3. ASSUME NEW f \in Frame
      PROVE  /\ Len([frames EXCEPT ![1] = f]) = 1
             /\ [frames EXCEPT ![1] = f] # <<>>
             /\ [frames EXCEPT ![1] = f][1] = f
  <2>1. 1 \in 1 .. Len(frames)
    BY <1>2
  <2>2. [frames EXCEPT ![1] = f] \in Seq(Frame) /\ Len([frames EXCEPT ![1] = f]) = 1
    BY <1>1, <1>2, <2>1, ExceptSeq
  <2>3. [frames EXCEPT ![1] = f][1] = f
    BY <1>1, <2>1, ExceptSeq
  <2> QED
    BY <2>2, <2>3, EmptySeq
<1> QED
  BY <1>2, <1>3

LEMMA PopOrder ==
  ASSUME TypeOK, OrderInv, Flat, NEW bytes \in Reports, pop(bytes)
  PROVE  OrderInv'
<1>1. bytes \in Nat /\ acked \in Nat
  BY ReportsType DEF TypeOK
<1>2. frames = <<>>
  BY DEF pop, PopCalled, Flat, TypeOK
<1>3. /\ frames' = <<[remaining |-> bytes, invoking |-> FALSE]>>
      /\ acked' = acked + bytes
      /\ UNCHANGED <<callbacks, due, invoked>>
  BY <1>2 DEF pop
<1>4. /\ Len(frames') = 1 /\ frames' # <<>>
      /\ frames'[1].remaining = bytes /\ ~frames'[1].invoking
  BY <1>3
<1>5. Busy = FALSE /\ Busy' = FALSE
  BY <1>2, <1>4 DEF Busy, Idle, Last
<1>6. Processed' = Processed
  BY <1>1, <1>2, <1>3, <1>4 DEF Processed, Idle, Last
<1>7. OneFrame'
  BY <1>4 DEF OneFrame
<1> QED
  BY <1>3, <1>5, <1>6, <1>7, SameOrder

LEMMA PopReturnsOrder ==
  ASSUME TypeOK, OrderInv, PopReturns
  PROVE  OrderInv'
<1>1. /\ ~Idle /\ ~Last(frames).invoking /\ ~(Last(frames).remaining > 0)
      /\ frames' = Front(frames)
      /\ UNCHANGED <<callbacks, due, acked, invoked>>
  BY DEF PopReturns, PopRuns, LoopContinues, queue
<1>2. frames' = <<>>
  BY <1>1, OnlyFrame DEF OrderInv
<1>3. Last(frames).remaining = 0
  <2>1. Last(frames).remaining \in Nat
    BY <1>1, LastFrame DEF Frame
  <2> QED
    BY <1>1, <2>1
<1>4. Busy = FALSE /\ Busy' = FALSE
  BY <1>1, <1>2 DEF Busy, Idle
<1>5. Processed' = Processed
  BY <1>1, <1>2, <1>3 DEF Processed, Idle
<1>6. OneFrame'
  BY <1>2 DEF OneFrame
<1> QED
  BY <1>1, <1>4, <1>5, <1>6, SameOrder

\* What a step that replaces the only frame by f makes of the state.
LEMMA ReplacedFrame ==
  ASSUME TypeOK, OneFrame, ~Idle, NEW f \in Frame,
         frames' = [frames EXCEPT ![Len(frames)] = f], acked' = acked
  PROVE  /\ OneFrame'
         /\ Busy' = f.invoking
         /\ Processed' = acked - f.remaining
<1>1. Len(frames') = 1 /\ frames' # <<>> /\ frames'[1] = f
  BY OnlyFrame
<1>2. ~Idle' /\ Last(frames)' = f
  BY <1>1 DEF Idle, Last
<1>3. f.invoking \in BOOLEAN
  BY DEF Frame
<1> QED
  BY <1>1, <1>2, <1>3 DEF OneFrame, Busy, Processed

LEMMA InvokeFrontOrder ==
  ASSUME TypeOK, OrderInv, InvokeFront
  PROVE  OrderInv'
<1> DEFINE r == Last(frames).remaining
<1> DEFINE size == callbacks[1].size
<1> DEFINE f == [remaining |-> r - size, invoking |-> TRUE]
<1> DEFINE n == Len(due)
<1> DEFINE m == Len(callbacks)
<1>1. /\ ~Idle /\ ~Last(frames).invoking /\ callbacks # <<>> /\ size <= r
      /\ frames' = [frames EXCEPT ![Len(frames)] = f]
      /\ invoked' = Append(invoked, callbacks[1].cb)
      /\ UNCHANGED <<callbacks, due, acked>>
  BY DEF InvokeFront, PopRuns, Covered, queue
<1>2. m \in Nat \ {0} /\ n \in Nat /\ Done \in Nat /\ acked \in Nat
  BY <1>1 DEF TypeOK, Done
<1>3. \A i \in 1 .. m : callbacks[i].cb \in Nat /\ callbacks[i].size \in Nat
  BY CallbackType
<1>4. r \in Nat /\ size \in Nat
  <2>1. r \in Nat
    BY <1>1, LastFrame DEF Frame
  <2> QED
    BY <1>2, <1>3, <2>1
<1>5. f \in Frame
  BY <1>1, <1>4 DEF Frame
<1>6. OneFrame' /\ Busy' = TRUE /\ Processed' = acked - (r - size)
  <2>1. f.invoking = TRUE /\ f.remaining = r - size
    OBVIOUS
  <2> QED
    BY <1>1, <1>5, <2>1, ReplacedFrame DEF OrderInv
<1>7. Busy = FALSE /\ Processed = acked - r
  BY <1>1 DEF Busy, Processed
<1>8. /\ n = Done + m
      /\ \A i \in 1 .. m : callbacks[i].cb = Done + i
  BY <1>3, <1>7 DEF OrderInv, Queued
<1>9. \A c \in 1 .. n : due[c] \in Nat
  BY DEF TypeOK
<1> HIDE DEF n, m
<1>10. Processed' = due[Done + 1] /\ Done + 1 \in 1 .. n
  <2>1. callbacks[1].cb = Done + 1
    BY <1>2, <1>8
  <2>2. size = due[Done + 1] - Processed
    BY <1>2, <2>1 DEF OrderInv, Waiting, m
  <2>3. Done + 1 \in 1 .. n
    BY <1>2, <1>8
  <2> QED
    BY <1>2, <1>4, <1>6, <1>7, <1>9, <2>2, <2>3
<1> HIDE DEF r, size, f
<1>11. Done' = Done + 1 /\ invoked' = Append(invoked, Done + 1)
  BY <1>1, <1>2, <1>8 DEF Done, TypeOK
<1>12. Queued'
  BY <1>1, <1>2, <1>6, <1>8, <1>10, <1>11 DEF Queued, n, m
<1>13. Waiting'
  <2> SUFFICES ASSUME NEW i \in 1 .. m
      PROVE  /\ callbacks[i].cb = Done + 2 =>
                   callbacks[i].size = due[Done + 2] - due[Done + 1]
             /\ callbacks[i].cb > Done + 2 =>
                   callbacks[i].size = due[callbacks[i].cb] - due[callbacks[i].cb - 1]
    BY <1>1, <1>2, <1>10, <1>11 DEF Waiting, m
  <2>1. callbacks[i].cb > Done + 1 =>
          callbacks[i].size = due[callbacks[i].cb] - due[callbacks[i].cb - 1]
    BY DEF OrderInv, Waiting, m
  <2>2. Done + 2 - 1 = Done + 1
    BY <1>2
  <2> QED
    BY <1>2, <1>3, <2>1, <2>2
<1>14. CaughtUp'
  <2>1. Submitted' = Submitted
    BY <1>1 DEF Submitted, Last
  <2>2. Done + 1 = n => Submitted = due[Done + 1]
    BY <1>2 DEF Submitted, Last, n
  <2> QED
    BY <1>1, <1>10, <1>11, <2>1, <2>2 DEF CaughtUp, n
<1>15. Ascending'
  BY <1>1 DEF OrderInv, Ascending
<1>16. Reached'
  <2> SUFFICES ASSUME NEW c \in 1 .. Done + 1 PROVE due[c] <= due[Done + 1]
    BY <1>1, <1>10, <1>11 DEF Reached
  <2> QED
    BY <1>2, <1>10 DEF OrderInv, Ascending, n
<1>17. Partial'
  BY <1>1, <1>2, <1>10, <1>11 DEF Partial, DueTo
<1>18. InOrderOnce'
  BY <1>2, <1>11 DEF OrderInv, InOrderOnce, Done, TypeOK
<1> QED
  BY <1>6, <1>12, <1>13, <1>14, <1>15, <1>16, <1>17, <1>18 DEF OrderInv

LEMMA ShrinkFrontOrder ==
  ASSUME TypeOK, OrderInv, ShrinkFront
  PROVE  OrderInv'
<1> DEFINE r == Last(frames).remaining
<1> DEFINE size == callbacks[1].size
<1> DEFINE f == [Last(frames) EXCEPT !.remaining = 0]
<1> DEFINE shrunk == [callbacks[1] EXCEPT !.size = @ - r]
<1> DEFINE n == Len(due)
<1> DEFINE m == Len(callbacks)
<1>1. /\ ~Idle /\ ~Last(frames).invoking /\ callbacks # <<>> /\ r > 0 /\ ~(size <= r)
      /\ frames' = [frames EXCEPT ![Len(frames)] = f]
      /\ callbacks' = [callbacks EXCEPT ![1] = shrunk]
      /\ UNCHANGED <<due, acked, invoked>>
  BY DEF ShrinkFront, PopRuns, Covered, LoopContinues, Last
<1>2. m \in Nat \ {0} /\ n \in Nat /\ Done \in Nat /\ acked \in Nat
  BY <1>1 DEF TypeOK, Done
<1>3. \A i \in 1 .. m : callbacks[i].cb \in Nat /\ callbacks[i].size \in Nat
  BY CallbackType
<1>4. r \in Nat /\ size \in Nat /\ Last(frames) \in Frame
  <2>1. r \in Nat /\ Last(frames) \in Frame
    BY <1>1, LastFrame DEF Frame
  <2> QED
    BY <1>2, <1>3, <2>1
<1>5. f \in Frame /\ f.remaining = 0 /\ f.invoking = FALSE
  BY <1>1, <1>4 DEF Frame
<1>6. OneFrame' /\ Busy' = FALSE /\ Processed' = acked
  <2> HIDE DEF f
  <2>1. OneFrame' /\ Busy' = f.invoking /\ Processed' = acked - f.remaining
    BY <1>1, <1>5, ReplacedFrame DEF OrderInv
  <2> QED
    BY <1>2, <1>5, <2>1
<1>7. Busy = FALSE /\ Processed = acked - r
  BY <1>1 DEF Busy, Processed
<1>8. /\ n = Done + m
      /\ \A i \in 1 .. m : callbacks[i].cb = Done + i
  BY <1>3, <1>7 DEF OrderInv, Queued
<1>9. \A c \in 1 .. n : due[c] \in Nat
  BY DEF TypeOK
<1>10. /\ Len(callbacks') = m
       /\ callbacks'[1].cb = callbacks[1].cb /\ callbacks'[1].size = size - r
       /\ \A i \in 2 .. m : callbacks'[i] = callbacks[i]
  <2>1. callbacks \in Seq(Callback) /\ 1 \in 1 .. m /\ callbacks[1] \in Callback
    BY <1>2 DEF TypeOK
  <2>2. shrunk \in Callback /\ shrunk.cb = callbacks[1].cb /\ shrunk.size = size - r
    <3>1. size - r \in Nat
      BY <1>1, <1>4
    <3> HIDE DEF r
    <3> QED
      BY <2>1, <3>1 DEF Callback
  <2> HIDE DEF shrunk
  <2> QED
    BY <1>1, <1>2, <2>1, <2>2, ExceptSeq
<1>11. size = due[Done + 1] - Processed /\ Done + 1 \in 1 .. n
  <2>1. callbacks[1].cb = Done + 1
    BY <1>2, <1>8
  <2> QED
    BY <1>2, <1>8, <2>1 DEF OrderInv, Waiting, m
<1> HIDE DEF r, size, f, shrunk, n, m
<1>12. /\ Done' = Done
       /\ \A i \in 1 .. m : callbacks'[i].cb = Done + i
  BY <1>1, <1>2, <1>8, <1>10 DEF Done
<1>13. Queued'
  BY <1>1, <1>2, <1>6, <1>8, <1>10, <1>12 DEF Queued, n, m
<1>14. Waiting'
  <2>1. size - r = due[Done + 1] - acked
    BY <1>2, <1>4, <1>7, <1>9, <1>11
  <2>2. ASSUME NEW i \in 1 .. m
        PROVE  /\ callbacks'[i].cb = Done + 1 =>
                    callbacks'[i].size = due[Done + 1] - acked
               /\ callbacks'[i].cb > Done + 1 =>
                    callbacks'[i].size = due[callbacks'[i].cb] - due[callbacks'[i].cb - 1]
    <3>1. CASE i = 1
      BY <1>2, <1>10, <1>12, <2>1, <3>1
    <3>2. CASE i \in 2 .. m
      <4>1. callbacks'[i] = callbacks[i] /\ callbacks'[i].cb = Done + i
        BY <1>10, <1>12, <3>2
      <4>2. callbacks[i].cb > Done + 1 =>
              callbacks[i].size = due[callbacks[i].cb] - due[callbacks[i].cb - 1]
        BY DEF OrderInv, Waiting, m
      <4> QED
        BY <1>2, <3>2, <4>1, <4>2
    <3> QED
      BY <1>2, <3>1, <3>2
  <2> QED
    BY <1>1, <1>6, <1>10, <1>12, <2>2 DEF Waiting
<1>15. CaughtUp'
  BY <1>1, <1>2, <1>8, <1>12 DEF CaughtUp, n
<1>16. Ascending' /\ InOrderOnce'
  BY <1>1 DEF OrderInv, Ascending, InOrderOnce
<1>17. Reached'
  <2>1. ASSUME NEW c \in 1 .. Done PROVE due[c] <= acked
    <3>1. due[c] <= Processed /\ c \in 1 .. n
      BY <1>2, <1>8 DEF OrderInv, Reached
    <3> QED
      BY <1>2, <1>4, <1>7, <1>9, <3>1
  <2> QED
    BY <1>1, <1>6, <1>12, <2>1 DEF Reached
<1>18. Partial'
  <2>1. acked < due[Done + 1]
    BY <1>1, <1>2, <1>4, <1>7, <1>9, <1>11
  <2> QED
    BY <1>1, <1>2, <1>6, <1>11, <1>12, <2>1 DEF Partial, n
<1> QED
  BY <1>6, <1>13, <1>14, <1>15, <1>16, <1>17, <1>18 DEF OrderInv

LEMMA CallbackReturnsOrder ==
  ASSUME TypeOK, OrderInv, CallbackReturns
  PROVE  OrderInv'
<1> DEFINE f == [Last(frames) EXCEPT !.invoking = FALSE]
<1> DEFINE m == Len(callbacks)
<1>1. ~Idle /\ Last(frames).invoking /\ UNCHANGED <<due, acked, invoked>>
  BY DEF CallbackReturns, InCallback
<1>2. Busy = TRUE
  BY <1>1 DEF Busy
<1>3. m \in Nat /\ Len(due) + 1 = Done + m /\ Done <= Len(due) /\ Done \in Nat
      /\ Len(due) \in Nat
  BY <1>2 DEF OrderInv, Queued, TypeOK, Done
<1>4. /\ callbacks # <<>> /\ callbacks' = Tail(callbacks)
      /\ frames' = [frames EXCEPT ![Len(frames)] = f]
  <2>1. callbacks # <<>>
    BY <1>3
  <2> QED
    BY <2>1 DEF CallbackReturns, pop_front, Last
<1>5. f \in Frame /\ f.remaining = Last(frames).remaining /\ f.invoking = FALSE
  BY <1>1, LastFrame DEF Frame
<1> HIDE DEF f
<1>6. OneFrame' /\ Busy' = FALSE /\ Processed' = Processed
  <2>1. Processed = acked - Last(frames).remaining
    BY <1>1 DEF Processed
  <2> QED
    BY <1>1, <1>4, <1>5, <2>1, ReplacedFrame DEF OrderInv
<1>7. \A i \in 1 .. m : callbacks[i].cb \in Nat /\ callbacks[i].cb + 1 = Done + i
  BY <1>2, CallbackType DEF OrderInv, Queued
<1>8. Len(callbacks') = m - 1 /\ \A i \in 1 .. m - 1 : callbacks'[i] = callbacks[i + 1]
  BY <1>4 DEF TypeOK
<1> HIDE DEF m
<1>9. Done' = Done /\ Submitted' = Submitted /\ DueTo(Done)' = DueTo(Done)
  BY <1>1 DEF Done, Submitted, Last, DueTo
<1>10. Queued'
  <2>1. ASSUME NEW i \in 1 .. m - 1 PROVE callbacks'[i].cb = Done + i
    <3>1. i + 1 \in 1 .. m /\ callbacks'[i] = callbacks[i + 1]
      BY <1>3, <1>8
    <3>2. callbacks[i + 1].cb \in Nat /\ callbacks[i + 1].cb + 1 = Done + (i + 1)
      BY <1>7, <3>1
    <3> HIDE DEF m
    <3> QED
      BY <1>3, <3>1, <3>2
  <2>2. \A i \in 1 .. m - 1 : callbacks'[i].cb + 0 = Done + i
    BY <1>3, <2>1
  <2> QED
    BY <1>1, <1>3, <1>6, <1>8, <1>9, <2>2 DEF Queued
<1>11. Waiting'
  <2>1. ASSUME NEW i \in 1 .. m - 1
        PROVE  /\ callbacks'[i].cb = Done + 1 =>
                    callbacks'[i].size = due[Done + 1] - Processed
               /\ callbacks'[i].cb > Done + 1 =>
                    callbacks'[i].size = due[callbacks'[i].cb] - due[callbacks'[i].cb - 1]
    <3>1. i + 1 \in 1 .. m /\ callbacks'[i] = callbacks[i + 1]
      BY <1>3, <1>8
    <3> QED
      BY <3>1 DEF OrderInv, Waiting, m
  <2> QED
    BY <1>1, <1>6, <1>8, <1>9, <2>1 DEF Waiting
<1>12. CaughtUp' /\ Ascending' /\ Reached' /\ Partial' /\ InOrderOnce'
  BY <1>1, <1>6, <1>9
     DEF OrderInv, CaughtUp, Ascending, Reached, Partial, InOrderOnce
<1> QED
  BY <1>6, <1>10, <1>11, <1>12 DEF OrderInv

LEMMA NextOrder == Flat /\ TypeOK /\ OrderInv /\ [Next]_vars => OrderInv'
<1> SUFFICES ASSUME Flat, TypeOK, OrderInv, [Next]_vars PROVE OrderInv'
  OBVIOUS
<1>1. ASSUME NEW sizes \in Calls, push(sizes) PROVE OrderInv'
  BY <1>1, PushOrder
<1>2. ASSUME NEW bytes \in Reports, pop(bytes) PROVE OrderInv'
  BY <1>2, PopOrder
<1>3. CASE UNCHANGED <<callbacks, frames, due, acked, invoked>>
  <2>1. Busy' = Busy /\ Processed' = Processed /\ OneFrame'
    BY <1>3 DEF Busy, Processed, OneFrame, Idle, Last, OrderInv
  <2> QED
    BY <1>3, <2>1, SameOrder
<1>4. ASSUME NEW bytes \in Reports, pop_aborts(bytes) PROVE OrderInv'
  BY <1>3, <1>4 DEF pop_aborts, queue
<1>5. CASE InvokeFront
  BY <1>5, InvokeFrontOrder
<1>6. CASE ShrinkFront
  BY <1>6, ShrinkFrontOrder
<1>7. CASE LoopFindsNoCallback
  BY <1>3, <1>7 DEF LoopFindsNoCallback, queue
<1>8. CASE PopReturns
  BY <1>8, PopReturnsOrder
<1>9. CASE CallbackReturns
  BY <1>9, CallbackReturnsOrder
<1>10. CASE CallbackThrows
  BY <1>10 DEF CallbackThrows, Flat
<1>11. CASE UNCHANGED vars
  BY <1>3, <1>11 DEF vars, queue
<1> QED
  BY <1>1, <1>2, <1>4, <1>5, <1>6, <1>7, <1>8, <1>9, <1>10, <1>11 DEF Next, PopStep

LEMMA OrderInvariant == ASSUME Flat PROVE SafeSpec => [](TypeOK /\ OrderInv)
<1>1. Init => TypeOK /\ OrderInv
  <2> SUFFICES ASSUME Init PROVE TypeOK /\ OrderInv
    OBVIOUS
  <2>1. TypeOK
    BY InitTypeOK
  <2>2. /\ Idle /\ ~Busy /\ Processed = 0 /\ Done = 0
        /\ callbacks = <<>> /\ due = <<>> /\ invoked = <<>> /\ Len(frames) = 0
    BY DEF Init, Idle, Busy, Processed, Done
  <2>3. Submitted = 0
    BY <2>2 DEF Submitted
  <2> QED
    BY <2>1, <2>2, <2>3
       DEF OrderInv, OneFrame, Queued, Waiting, CaughtUp, Ascending, Reached, Partial,
           DueTo, InOrderOnce
<1> QED
  BY <1>1, NextTypeOK, NextOrder, PTL DEF SafeSpec
-----------------------------------------------------------------------------
\* Callbacks that return and do not pop again run in the order of the pushes,
\* each once, in every build, whatever byte counts are reported.
THEOREM CallbacksRunInOrderOnce == ASSUME Flat PROVE SafeSpec => []InOrderOnce
<1>1. TypeOK /\ OrderInv => InOrderOnce
  BY DEF OrderInv
<1> QED
  BY <1>1, OrderInvariant, PTL

\* ... none before the last byte of its push was reported written ...
THEOREM CallbacksRunNeverEarly == ASSUME Flat PROVE SafeSpec => []NeverEarly
<1>1. TypeOK /\ OrderInv => NeverEarly
  <2> SUFFICES ASSUME TypeOK, OrderInv, NEW i \in 1 .. Len(invoked)
      PROVE  due[invoked[i]] <= acked
    BY DEF NeverEarly
  <2>1. invoked[i] = i /\ i \in 1 .. Done
    BY DEF OrderInv, InOrderOnce, Done
  <2>2. due[i] <= Processed
    BY <2>1 DEF OrderInv, Reached
  <2>3. due[i] \in Nat
    <3>1. Done \in Nat /\ Done <= Len(due) /\ Len(due) \in Nat
      BY DEF OrderInv, Queued, Done, TypeOK
    <3> QED
      BY <2>1, <3>1 DEF TypeOK
  <2>4. acked \in Nat /\ Processed \in Int /\ Processed <= acked
    BY ProcessedType DEF TypeOK
  <2> QED
    BY <2>1, <2>2, <2>3, <2>4
<1> QED
  BY <1>1, OrderInvariant, PTL

\* ... and none is forgotten: when pop() has returned, at most pushes of no
\* bytes at the end of what is written still wait.
THEOREM CallbacksRunNeverLate == ASSUME Flat PROVE SafeSpec => []NeverLate
<1>1. TypeOK /\ OrderInv => NeverLate
  <2> SUFFICES ASSUME TypeOK, OrderInv, Idle,
                      NEW c \in Len(invoked) + 1 .. Len(due), due[c] <= acked
      PROVE  due[c] = DueTo(c - 1)
    BY DEF NeverLate, DueTo
  <2>1. /\ Done \in Nat /\ Len(due) \in Nat /\ c \in Done + 1 .. Len(due)
        /\ \A d \in 1 .. Len(due) : due[d] \in Nat
    BY DEF Done, TypeOK
  <2>2. acked \in Nat /\ Processed = acked
    BY DEF Processed, TypeOK
  <2>3. due[Done + 1] <= due[c] /\ (c > 1 => due[c - 1] <= due[c])
    BY <2>1 DEF OrderInv, Ascending
  <2>4. Processed = DueTo(Done)
    BY <2>1, <2>2, <2>3 DEF OrderInv, Partial
  <2>5. due[c] <= DueTo(Done)
    BY <2>2, <2>4
  <2>6. CASE c = 1
    BY <2>1, <2>5, <2>6 DEF DueTo
  <2>7. CASE c > 1
    <3>1. DueTo(Done) <= due[c - 1]
      <4>1. CASE Done = 0
        BY <2>1, <2>7, <4>1 DEF DueTo
      <4>2. CASE Done > 0
        BY <2>1, <2>7, <4>2 DEF DueTo, OrderInv, Ascending
      <4> QED
        BY <2>1, <4>1, <4>2
    <3>2. DueTo(Done) \in Nat
      BY <2>2, <2>4
    <3> QED
      BY <2>1, <2>3, <2>5, <2>7, <3>1, <3>2 DEF DueTo
  <2> QED
    BY <2>1, <2>6, <2>7
<1> QED
  BY <1>1, OrderInvariant, PTL
-----------------------------------------------------------------------------
(***************************************************************************)
(* Callbacks that throw.  As long as no callback calls pop(), the deque    *)
(* holds the last pushes in order; its front is the callback that runs,    *)
(* the next one, or after an exception the last one again.  An exception   *)
(* forgets the bytes pop() had counted, so that a callback may wait for    *)
(* more than its push still needs, but never for less.                     *)
(***************************************************************************)

First == Len(due) - Len(callbacks) + 1

LastInvoked == IF invoked = <<>> THEN 0 ELSE Last(invoked)

\* The callbacks in the deque are those of the last pushes.
Consecutive ==
  /\ Len(callbacks) <= Len(due)
  /\ \A i \in 1 .. Len(callbacks) : callbacks[i].cb = First + i - 1

\* The front is never further than one behind the last callback run.
AtFront ==
  /\ Busy => callbacks # <<>>
  /\ LastInvoked = First \/ (~Busy /\ LastInvoked = First - 1)

\* Behind the front, each callback waits for all bytes of its push.
WaitingForAll ==
  \A i \in 2 .. Len(callbacks) :
    callbacks[i].size = due[callbacks[i].cb] - due[callbacks[i].cb - 1]

\* The bytes that the front waits for reach the end of its push, or further.
FrontReaches ==
  /\ callbacks # <<>> =>
       due[First] <= Processed + IF Busy THEN 0 ELSE callbacks[1].size
  /\ callbacks = <<>> => Submitted <= Processed

Pushed == \A i \in 1 .. Len(invoked) : invoked[i] \in 1 .. Len(due)

ThrowInv ==
  /\ OneFrame
  /\ Consecutive
  /\ AtFront
  /\ WaitingForAll
  /\ FrontReaches
  /\ Pushed
  /\ NeverEarly
  /\ NoCallbackSkipped
-----------------------------------------------------------------------------
\* A step that leaves the callbacks and the place in the stream alone.
LEMMA SameThrow ==
  ASSUME TypeOK, ThrowInv, OneFrame', Busy' = Busy, Processed' = Processed, acked <= acked',
         acked' \in Nat, UNCHANGED <<callbacks, due, invoked>>
  PROVE  ThrowInv'
<1>1. UNCHANGED <<First, LastInvoked, Submitted>>
  BY DEF First, LastInvoked, Submitted, Last
<1>2. Consecutive' /\ AtFront'
  BY <1>1 DEF ThrowInv, Consecutive, AtFront
<1>3. WaitingForAll' /\ Pushed' /\ NoCallbackSkipped'
  BY DEF ThrowInv, WaitingForAll, Pushed, NoCallbackSkipped
<1>4. FrontReaches'
  BY <1>1 DEF ThrowInv, FrontReaches
<1>5. NeverEarly'
  <2> SUFFICES ASSUME NEW i \in 1 .. Len(invoked) PROVE due[invoked[i]] <= acked'
    BY DEF NeverEarly
  <2>1. due[invoked[i]] <= acked /\ invoked[i] \in 1 .. Len(due)
    BY DEF ThrowInv, NeverEarly, Pushed
  <2>2. due[invoked[i]] \in Nat /\ acked \in Nat
    BY <2>1 DEF TypeOK
  <2> QED
    BY <2>1, <2>2
<1> QED
  BY <1>2, <1>3, <1>4, <1>5 DEF ThrowInv

LEMMA PushThrow ==
  ASSUME TypeOK, ThrowInv, NEW sizes \in Calls, push(sizes)
  PROVE  ThrowInv'
<1> DEFINE bytes == Offsets(sizes)[Len(sizes)]
<1> DEFINE n == Len(due)
<1> DEFINE m == Len(callbacks)
<1>1. bytes \in Nat /\ Submitted \in Nat
  BY BytesOfCall, SubmittedType, ConstantsAssumption
<1>2. /\ callbacks' = Append(callbacks, [cb |-> n + 1, size |-> bytes])
      /\ due' = Append(due, Submitted + bytes)
      /\ UNCHANGED <<frames, acked, invoked>>
  BY DEF push, Pending
<1> HIDE DEF bytes
<1>3. OneFrame' /\ UNCHANGED <<Busy, Processed, LastInvoked>>
  BY <1>2 DEF ThrowInv, Busy, Processed, LastInvoked, OneFrame, Idle, Last
<1>4. /\ n \in Nat /\ Len(due') = n + 1 /\ due'[n + 1] = Submitted + bytes
      /\ \A c \in 1 .. n : due'[c] = due[c] /\ due[c] \in Nat
  BY <1>1, <1>2 DEF TypeOK
<1>5. /\ m \in Nat /\ Len(callbacks') = m + 1
      /\ \A i \in 1 .. m : callbacks'[i] = callbacks[i]
      /\ callbacks'[m + 1].cb = n + 1 /\ callbacks'[m + 1].size = bytes
  BY <1>2 DEF TypeOK
<1>6. Submitted' = Submitted + bytes
  BY <1>2, <1>4 DEF Submitted, Last
<1>7. callbacks' # <<>>
  BY <1>5
<1>8. n > 0 => due[n] = Submitted
  BY <1>4 DEF Submitted, Last
<1>9. First = n - m + 1 /\ First' = First /\ m <= n
  BY <1>4, <1>5 DEF First, ThrowInv, Consecutive
<1>10. \A i \in 1 .. m : callbacks[i].cb = First + i - 1 /\ callbacks[i].size \in Nat
  BY CallbackType DEF ThrowInv, Consecutive
<1>11. m = 0 <=> callbacks = <<>>
  BY <1>5 DEF TypeOK
<1>12. Processed \in Int
  BY ProcessedType
<1> HIDE DEF n, m
<1>13. Consecutive'
  <2>1. ASSUME NEW i \in 1 .. m + 1 PROVE callbacks'[i].cb = First + i - 1
    <3>1. CASE i = m + 1
      BY <1>4, <1>5, <1>9, <3>1
    <3>2. CASE i \in 1 .. m
      BY <1>5, <1>10, <3>2
    <3> QED
      BY <1>5, <3>1, <3>2
  <2> QED
    BY <1>4, <1>5, <1>9, <2>1 DEF Consecutive
<1>14. AtFront'
  BY <1>3, <1>7, <1>9 DEF ThrowInv, AtFront
<1>15. WaitingForAll'
  <2>1. ASSUME NEW i \in 2 .. m + 1
        PROVE  callbacks'[i].size = due'[callbacks'[i].cb] - due'[callbacks'[i].cb - 1]
    <3>1. CASE i = m + 1
      BY <1>1, <1>4, <1>5, <1>8, <1>9, <3>1
    <3>2. CASE i \in 2 .. m
      <4> DEFINE c == n - m + i
      <4>1. callbacks'[i] = callbacks[i] /\ callbacks[i].cb = c
        BY <1>4, <1>5, <1>9, <1>10, <3>2
      <4>2. callbacks[i].size = due[callbacks[i].cb] - due[callbacks[i].cb - 1]
        BY <3>2 DEF ThrowInv, WaitingForAll, m
      <4>3. c \in 1 .. n /\ c - 1 \in 1 .. n
        BY <1>4, <1>5, <1>9, <3>2
      <4> HIDE DEF c
      <4>4. due'[c] = due[c] /\ due'[c - 1] = due[c - 1]
        BY <1>4, <4>3
      <4> QED
        BY <4>1, <4>2, <4>4
    <3> QED
      BY <1>5, <3>1, <3>2
  <2> QED
    BY <1>5, <2>1 DEF WaitingForAll
<1>16. FrontReaches'
  <2>1. CASE callbacks = <<>>
    <3>1. Submitted <= Processed /\ ~Busy
      BY <2>1 DEF ThrowInv, FrontReaches, AtFront
    <3>2. m = 0 /\ First' = n + 1 /\ callbacks'[1].size = bytes
      BY <1>4, <1>5, <1>9, <1>11, <2>1
    <3> QED
      BY <1>1, <1>3, <1>4, <1>7, <1>12, <3>1, <3>2 DEF FrontReaches
  <2>2. CASE callbacks # <<>>
    <3>1. due[First] <= Processed + IF Busy THEN 0 ELSE callbacks[1].size
      BY <2>2 DEF ThrowInv, FrontReaches
    <3>2. m > 0 /\ First \in 1 .. n /\ callbacks'[1] = callbacks[1]
      BY <1>4, <1>5, <1>9, <1>11, <2>2
    <3> QED
      BY <1>3, <1>4, <1>7, <1>9, <3>1, <3>2 DEF FrontReaches
  <2> QED
    BY <2>1, <2>2
<1>17. Pushed' /\ NoCallbackSkipped'
  BY <1>2, <1>4 DEF ThrowInv, Pushed, NoCallbackSkipped, n
<1>18. NeverEarly'
  BY <1>2, <1>4 DEF ThrowInv, NeverEarly, Pushed, n
<1> QED
  BY <1>3, <1>13, <1>14, <1>15, <1>16, <1>17, <1>18 DEF ThrowInv

LEMMA PopThrow ==
  ASSUME TypeOK, ThrowInv, NEW bytes \in Reports, pop(bytes), ~nested'
  PROVE  ThrowInv'
<1>1. bytes \in Nat /\ acked \in Nat
  BY ReportsType DEF TypeOK
<1>2. frames = <<>>
  BY DEF pop, Idle
<1>3. /\ frames' = <<[remaining |-> bytes, invoking |-> FALSE]>>
      /\ acked' = acked + bytes
      /\ UNCHANGED <<callbacks, due, invoked>>
  BY <1>2 DEF pop
<1>4. /\ Len(frames') = 1 /\ frames' # <<>>
      /\ frames'[1].remaining = bytes /\ ~frames'[1].invoking
  BY <1>3
<1>5. Busy = FALSE /\ Busy' = FALSE
  BY <1>2, <1>4 DEF Busy, Idle, Last
<1>6. Processed' = Processed
  BY <1>1, <1>2, <1>3, <1>4 DEF Processed, Idle, Last
<1>7. OneFrame' /\ acked <= acked' /\ acked' \in Nat
  BY <1>1, <1>3, <1>4 DEF OneFrame
<1> QED
  BY <1>3, <1>5, <1>6, <1>7, SameThrow

LEMMA PopReturnsThrow ==
  ASSUME TypeOK, ThrowInv, PopReturns
  PROVE  ThrowInv'
<1>1. /\ ~Idle /\ ~Last(frames).invoking /\ ~(Last(frames).remaining > 0)
      /\ frames' = Front(frames)
      /\ UNCHANGED <<callbacks, due, acked, invoked>>
  BY DEF PopReturns, PopRuns, LoopContinues, queue
<1>2. frames' = <<>>
  BY <1>1, OnlyFrame DEF ThrowInv
<1>3. Last(frames).remaining = 0
  <2>1. Last(frames).remaining \in Nat
    BY <1>1, LastFrame DEF Frame
  <2> QED
    BY <1>1, <2>1
<1>4. Busy = FALSE /\ Busy' = FALSE
  BY <1>1, <1>2 DEF Busy, Idle
<1>5. Processed' = Processed
  BY <1>1, <1>2, <1>3 DEF Processed, Idle
<1>6. OneFrame' /\ acked <= acked' /\ acked' \in Nat
  BY <1>1, <1>2 DEF OneFrame, TypeOK
<1> QED
  BY <1>1, <1>4, <1>5, <1>6, SameThrow

LEMMA InvokeFrontThrow ==
  ASSUME TypeOK, ThrowInv, InvokeFront
  PROVE  ThrowInv'
<1> DEFINE r == Last(frames).remaining
<1> DEFINE size == callbacks[1].size
<1> DEFINE f == [remaining |-> r - size, invoking |-> TRUE]
<1> DEFINE n == Len(due)
<1> DEFINE m == Len(callbacks)
<1>1. /\ ~Idle /\ ~Last(frames).invoking /\ callbacks # <<>> /\ size <= r
      /\ frames' = [frames EXCEPT ![Len(frames)] = f]
      /\ invoked' = Append(invoked, callbacks[1].cb)
      /\ UNCHANGED <<callbacks, due, acked>>
  BY DEF InvokeFront, PopRuns, Covered, queue
<1>2. m \in Nat \ {0} /\ n \in Nat /\ m <= n /\ acked \in Nat
  BY <1>1 DEF TypeOK, ThrowInv, Consecutive
<1>3. r \in Nat /\ size \in Nat
  <2>1. r \in Nat
    BY <1>1, LastFrame DEF Frame
  <2> QED
    BY <1>2, <2>1, CallbackType
<1>4. f \in Frame
  BY <1>1, <1>3 DEF Frame
<1>5. OneFrame' /\ Busy' = TRUE /\ Processed' = acked - (r - size)
  <2>1. f.invoking = TRUE /\ f.remaining = r - size
    OBVIOUS
  <2> QED
    BY <1>1, <1>4, <2>1, ReplacedFrame DEF ThrowInv
<1>6. Busy = FALSE /\ Processed = acked - r
  BY <1>1 DEF Busy, Processed
<1>7. First = n - m + 1 /\ First' = First /\ First \in 1 .. n /\ callbacks[1].cb = First
  <2>1. callbacks[1].cb = First + 1 - 1
    BY <1>2 DEF ThrowInv, Consecutive
  <2>2. First = n - m + 1 /\ First' = First
    BY <1>1 DEF First
  <2> QED
    BY <1>2, <2>1, <2>2
<1>8. due[First] \in Nat /\ due[First] <= Processed + size
  <2>1. due[First] \in Nat
    BY <1>7 DEF TypeOK
  <2>2. due[First] <= Processed + IF Busy THEN 0 ELSE callbacks[1].size
    BY <1>1 DEF ThrowInv, FrontReaches
  <2> QED
    BY <1>6, <2>1, <2>2
<1> HIDE DEF r, size, f, n, m
<1>9. due[First] <= Processed' /\ Processed' <= acked
  BY <1>1, <1>2, <1>3, <1>5, <1>6, <1>8 DEF size, r
<1>10. invoked' = Append(invoked, First) /\ LastInvoked' = First
  <2>1. invoked' = Append(invoked, First)
    BY <1>1, <1>7
  <2>2. invoked' # <<>> /\ invoked'[Len(invoked')] = First
    <3>1. First \in Nat /\ invoked \in Seq(Nat)
      BY <1>7 DEF TypeOK
    <3>2. Len(invoked') = Len(invoked) + 1 /\ invoked'[Len(invoked) + 1] = First
      BY <2>1, <3>1
    <3> QED
      BY <3>1, <3>2
  <2> QED
    BY <2>1, <2>2 DEF LastInvoked, Last
<1>11. Consecutive' /\ WaitingForAll'
  BY <1>1, <1>7 DEF ThrowInv, Consecutive, WaitingForAll
<1>12. AtFront'
  BY <1>1, <1>7, <1>10 DEF AtFront
<1>13. FrontReaches'
  <2>1. Processed' \in Int
    BY <1>2, <1>3, <1>5
  <2> QED
    BY <1>1, <1>5, <1>7, <1>9, <2>1 DEF FrontReaches
<1>14. Len(invoked') = Len(invoked) + 1 /\ Len(invoked) \in Nat
       /\ invoked'[Len(invoked) + 1] = First
       /\ \A i \in 1 .. Len(invoked) : invoked'[i] = invoked[i] /\ invoked[i] \in Nat
  BY <1>7, <1>10 DEF TypeOK
<1>15. Pushed' /\ NeverEarly'
  <2>1. ASSUME NEW i \in 1 .. Len(invoked')
        PROVE  invoked'[i] \in 1 .. n /\ due[invoked'[i]] <= acked
    <3>1. CASE i = Len(invoked) + 1
      BY <1>2, <1>5, <1>7, <1>8, <1>9, <1>14, <1>3, <3>1
    <3>2. CASE i \in 1 .. Len(invoked)
      BY <1>14, <3>2 DEF ThrowInv, Pushed, NeverEarly, n
    <3> QED
      BY <1>14, <3>1, <3>2
  <2> QED
    BY <1>1, <2>1 DEF Pushed, NeverEarly, n
<1>16. NoCallbackSkipped'
  <2>1. ASSUME NEW i \in 1 .. Len(invoked')
        PROVE  invoked'[i] <= 1 + IF i = 1 THEN 0 ELSE invoked'[i - 1]
    <3>1. CASE i = Len(invoked) + 1
      <4>1. LastInvoked = First \/ LastInvoked = First - 1
        BY DEF ThrowInv, AtFront
      <4>2. First <= 1 + LastInvoked
        BY <1>2, <1>7, <4>1
      <4>3. CASE invoked = <<>>
        <5>1. i = 1 /\ LastInvoked = 0
          BY <3>1, <4>3 DEF LastInvoked
        <5> QED
          BY <1>14, <3>1, <4>2, <5>1
      <4>4. CASE invoked # <<>>
        <5>1. Len(invoked) # 0 /\ LastInvoked = invoked[Len(invoked)]
          BY <4>4 DEF LastInvoked, Last, TypeOK
        <5>2. i # 1 /\ i - 1 = Len(invoked) /\ Len(invoked) \in 1 .. Len(invoked)
          BY <1>14, <3>1, <5>1
        <5> QED
          BY <1>14, <3>1, <4>2, <5>1, <5>2
      <4> QED
        BY <4>3, <4>4
    <3>2. CASE i \in 1 .. Len(invoked)
      <4>1. invoked[i] <= 1 + IF i = 1 THEN 0 ELSE invoked[i - 1]
        BY <3>2 DEF ThrowInv, NoCallbackSkipped
      <4>2. i # 1 => i - 1 \in 1 .. Len(invoked)
        BY <1>14, <3>2
      <4> QED
        BY <1>14, <3>2, <4>1, <4>2
    <3> QED
      BY <1>14, <3>1, <3>2
  <2> QED
    BY <2>1 DEF NoCallbackSkipped
<1> QED
  BY <1>5, <1>11, <1>12, <1>13, <1>15, <1>16 DEF ThrowInv

LEMMA ShrinkFrontThrow ==
  ASSUME TypeOK, ThrowInv, ShrinkFront
  PROVE  ThrowInv'
<1> DEFINE r == Last(frames).remaining
<1> DEFINE size == callbacks[1].size
<1> DEFINE f == [Last(frames) EXCEPT !.remaining = 0]
<1> DEFINE shrunk == [callbacks[1] EXCEPT !.size = @ - r]
<1> DEFINE m == Len(callbacks)
<1>1. /\ ~Idle /\ ~Last(frames).invoking /\ callbacks # <<>> /\ r > 0 /\ ~(size <= r)
      /\ frames' = [frames EXCEPT ![Len(frames)] = f]
      /\ callbacks' = [callbacks EXCEPT ![1] = shrunk]
      /\ UNCHANGED <<due, acked, invoked>>
  BY DEF ShrinkFront, PopRuns, Covered, LoopContinues, Last
<1>2. m \in Nat \ {0} /\ acked \in Nat
  BY <1>1 DEF TypeOK
<1>3. r \in Nat /\ size \in Nat /\ Last(frames) \in Frame
  <2>1. r \in Nat /\ Last(frames) \in Frame
    BY <1>1, LastFrame DEF Frame
  <2> QED
    BY <1>2, <2>1, CallbackType
<1>4. f \in Frame /\ f.remaining = 0 /\ f.invoking = FALSE
  BY <1>1, <1>3 DEF Frame
<1>5. OneFrame' /\ Busy' = FALSE /\ Processed' = acked
  <2> HIDE DEF f
  <2>1. OneFrame' /\ Busy' = f.invoking /\ Processed' = acked - f.remaining
    BY <1>1, <1>4, ReplacedFrame DEF ThrowInv
  <2> QED
    BY <1>2, <1>4, <2>1
<1>6. Busy = FALSE /\ Processed = acked - r
  BY <1>1 DEF Busy, Processed
<1>7. /\ Len(callbacks') = m /\ callbacks' # <<>>
      /\ callbacks'[1].cb = callbacks[1].cb /\ callbacks'[1].size = size - r
      /\ \A i \in 2 .. m : callbacks'[i] = callbacks[i]
  <2>1. callbacks \in Seq(Callback) /\ 1 \in 1 .. m /\ callbacks[1] \in Callback
    BY <1>2 DEF TypeOK
  <2>2. shrunk \in Callback /\ shrunk.cb = callbacks[1].cb /\ shrunk.size = size - r
    <3>1. size - r \in Nat
      BY <1>1, <1>3
    <3> HIDE DEF r
    <3> QED
      BY <2>1, <3>1 DEF Callback
  <2> HIDE DEF shrunk
  <2> QED
    BY <1>1, <1>2, <2>1, <2>2, ExceptSeq
<1> HIDE DEF r, size, f, shrunk
<1>8. First' = First /\ LastInvoked' = LastInvoked
  BY <1>1, <1>7 DEF First, LastInvoked, m
<1>9. m <= Len(due) /\ \A i \in 1 .. m : callbacks[i].cb = First + i - 1
  BY DEF ThrowInv, Consecutive, m
<1>10. due[First] \in Nat /\ due[First] <= Processed + size
  <2>1. First \in 1 .. Len(due)
    BY <1>2, <1>9 DEF First, m, TypeOK
  <2> QED
    BY <1>1, <1>6, <2>1 DEF TypeOK, ThrowInv, FrontReaches, size
<1> HIDE DEF m
<1>11. Consecutive'
  <2>1. \A i \in 1 .. m : callbacks'[i].cb = First + i - 1
    BY <1>2, <1>7, <1>9
  <2> QED
    BY <1>1, <1>7, <1>8, <1>9, <2>1 DEF Consecutive
<1>12. AtFront'
  BY <1>5, <1>6, <1>7, <1>8 DEF ThrowInv, AtFront
<1>13. WaitingForAll'
  BY <1>1, <1>7 DEF ThrowInv, WaitingForAll, m
<1>14. FrontReaches'
  <2>1. due[First] <= acked + (size - r)
    BY <1>2, <1>3, <1>6, <1>10
  <2> QED
    BY <1>1, <1>5, <1>7, <1>8, <2>1 DEF FrontReaches
<1>15. Pushed' /\ NeverEarly' /\ NoCallbackSkipped'
  BY <1>1 DEF ThrowInv, Pushed, NeverEarly, NoCallbackSkipped
<1> QED
  BY <1>5, <1>11, <1>12, <1>13, <1>14, <1>15 DEF ThrowInv

LEMMA CallbackReturnsThrow ==
  ASSUME TypeOK, ThrowInv, CallbackReturns
  PROVE  ThrowInv'
<1> DEFINE f == [Last(frames) EXCEPT !.invoking = FALSE]
<1> DEFINE m == Len(callbacks)
<1> DEFINE n == Len(due)
<1>1. ~Idle /\ Last(frames).invoking /\ UNCHANGED <<due, acked, invoked>>
  BY DEF CallbackReturns, InCallback
<1>2. Busy = TRUE /\ callbacks # <<>>
  BY <1>1 DEF Busy, ThrowInv, AtFront
<1>3. /\ callbacks' = Tail(callbacks)
      /\ frames' = [frames EXCEPT ![Len(frames)] = f]
  BY <1>2 DEF CallbackReturns, pop_front, Last
<1>4. f \in Frame /\ f.remaining = Last(frames).remaining /\ f.invoking = FALSE
  BY <1>1, LastFrame DEF Frame
<1> HIDE DEF f
<1>5. OneFrame' /\ Busy' = FALSE /\ Processed' = Processed
  <2>1. Processed = acked - Last(frames).remaining
    BY <1>1 DEF Processed
  <2> QED
    BY <1>1, <1>3, <1>4, <2>1, ReplacedFrame DEF ThrowInv
<1>6. m \in Nat \ {0} /\ n \in Nat /\ m <= n /\ First = n - m + 1 /\ Processed \in Int
  BY <1>2, ProcessedType DEF TypeOK, ThrowInv, Consecutive, First
<1>7. /\ Len(callbacks') = m - 1
      /\ \A i \in 1 .. m - 1 : callbacks'[i] = callbacks[i + 1]
  BY <1>2, <1>3 DEF TypeOK
<1>17. callbacks' = <<>> <=> m = 1
  <2>1. callbacks' \in Seq(Callback)
    BY <1>2, <1>3 DEF TypeOK
  <2>2. callbacks' = <<>> <=> Len(callbacks') = 0
    BY <2>1, EmptySeq
  <2> QED
    BY <1>6, <1>7, <2>2
<1>8. \A i \in 1 .. m : callbacks[i].cb = First + i - 1
  BY DEF ThrowInv, Consecutive
<1>9. First' = First + 1 /\ LastInvoked' = LastInvoked /\ LastInvoked = First
  <2>1. First' = n - (m - 1) + 1
    BY <1>1, <1>7 DEF First
  <2>2. LastInvoked' = LastInvoked /\ LastInvoked = First
    BY <1>1, <1>2 DEF LastInvoked, ThrowInv, AtFront
  <2> HIDE DEF n, m
  <2> QED
    BY <1>6, <2>1, <2>2
<1>10. due[First] <= Processed
  <2>1. due[First] <= Processed + 0
    BY <1>2 DEF ThrowInv, FrontReaches
  <2> QED
    BY <1>6, <2>1
<1>11. \A c \in 1 .. n : due[c] \in Nat
  BY DEF TypeOK
<1> HIDE DEF m
<1>12. Consecutive'
  <2>1. ASSUME NEW i \in 1 .. m - 1 PROVE callbacks'[i].cb = First + 1 + i - 1
    <3>1. callbacks'[i] = callbacks[i + 1] /\ callbacks[i + 1].cb = First + (i + 1) - 1
      BY <1>6, <1>7, <1>8
    <3> HIDE DEF n
    <3> QED
      BY <1>6, <3>1
  <2>2. m - 1 <= Len(due)
    BY <1>6
  <2> QED
    BY <1>1, <1>7, <1>9, <2>1, <2>2 DEF Consecutive
<1>13. AtFront'
  <2>1. LastInvoked' = First' - 1
    <3> HIDE DEF n
    <3> QED
      BY <1>6, <1>9
  <2> QED
    BY <1>5, <2>1 DEF AtFront
<1>14. WaitingForAll'
  <2>1. ASSUME NEW i \in 2 .. m - 1
        PROVE  callbacks'[i].size = due[callbacks'[i].cb] - due[callbacks'[i].cb - 1]
    <3>1. callbacks'[i] = callbacks[i + 1] /\ i + 1 \in 2 .. m
      BY <1>6, <1>7
    <3> QED
      BY <3>1 DEF ThrowInv, WaitingForAll, m
  <2> QED
    BY <1>1, <1>7, <2>1 DEF WaitingForAll
<1>15. FrontReaches'
  <2>1. CASE m = 1
    <3>1. First = n /\ Submitted' = due[n]
      BY <1>1, <1>6, <2>1 DEF Submitted, Last
    <3> QED
      BY <1>5, <1>17, <1>10, <2>1, <3>1 DEF FrontReaches
  <2>2. CASE m # 1
    <3>1. 2 \in 2 .. m /\ 1 \in 1 .. m - 1
      BY <1>6, <2>2
    <3>2. callbacks'[1] = callbacks[2] /\ callbacks[2].cb = First + 2 - 1
      BY <1>7, <1>8, <3>1
    <3>3. callbacks[2].size = due[callbacks[2].cb] - due[callbacks[2].cb - 1]
      BY <3>1 DEF ThrowInv, WaitingForAll, m
    <3>4. /\ First \in 1 .. n /\ First + 1 \in 1 .. n
          /\ First + 2 - 1 = First + 1 /\ First + 1 - 1 = First
      <4> HIDE DEF n
      <4> QED
        BY <1>6, <3>1
    <3>5. callbacks'[1].size = due[First + 1] - due[First]
      BY <3>2, <3>3, <3>4
    <3>6. due[First + 1] <= Processed + callbacks'[1].size
      BY <1>6, <1>10, <1>11, <3>4, <3>5
    <3> QED
      BY <1>1, <1>5, <1>17, <1>9, <2>2, <3>6 DEF FrontReaches
  <2> QED
    BY <2>1, <2>2
<1>16. Pushed' /\ NeverEarly' /\ NoCallbackSkipped'
  BY <1>1 DEF ThrowInv, Pushed, NeverEarly, NoCallbackSkipped
<1> QED
  BY <1>5, <1>12, <1>13, <1>14, <1>15, <1>16 DEF ThrowInv

\* The callback stays in the deque, with the size it waited for.
LEMMA CallbackThrowsThrow ==
  ASSUME TypeOK, ThrowInv, CallbackThrows
  PROVE  ThrowInv'
<1>1. /\ ~Idle /\ Last(frames).invoking /\ frames' = Front(frames)
      /\ UNCHANGED <<callbacks, due, acked, invoked>>
  BY DEF CallbackThrows, InCallback, queue
<1>2. frames' = <<>>
  BY <1>1, OnlyFrame DEF ThrowInv
<1>3. Busy = TRUE /\ Busy' = FALSE /\ OneFrame' /\ callbacks # <<>>
  BY <1>1, <1>2 DEF Busy, Idle, OneFrame, ThrowInv, AtFront
<1>4. acked \in Nat /\ Processed' = acked
  BY <1>1, <1>2 DEF Processed, Idle, TypeOK
<1>5. First' = First /\ LastInvoked' = LastInvoked /\ LastInvoked = First
  BY <1>1, <1>3 DEF First, LastInvoked, ThrowInv, AtFront
<1>6. Consecutive' /\ WaitingForAll' /\ Pushed' /\ NeverEarly' /\ NoCallbackSkipped'
  BY <1>1, <1>5
     DEF ThrowInv, Consecutive, WaitingForAll, Pushed, NeverEarly, NoCallbackSkipped
<1>7. AtFront'
  BY <1>1, <1>3, <1>5 DEF AtFront
<1>8. FrontReaches'
  <2>1. due[First] <= Processed + 0
    BY <1>3 DEF ThrowInv, FrontReaches
  <2>2. Processed \in Int /\ Processed <= acked
    BY ProcessedType
  <2>3. First \in 1 .. Len(due) /\ 1 \in 1 .. Len(callbacks)
    BY <1>3 DEF ThrowInv, Consecutive, First, TypeOK
  <2>4. due[First] \in Nat /\ callbacks[1].size \in Nat
    BY <2>3, CallbackType DEF TypeOK
  <2>5. due[First] <= acked + callbacks[1].size
    BY <1>4, <2>1, <2>2, <2>4
  <2> QED
    BY <1>1, <1>3, <1>4, <1>5, <2>5 DEF FrontReaches
<1> QED
  BY <1>3, <1>6, <1>7, <1>8 DEF ThrowInv

LEMMA NextThrow == TypeOK /\ (~nested => ThrowInv) /\ [Next]_vars => (~nested' => ThrowInv')
<1> SUFFICES ASSUME TypeOK, ~nested => ThrowInv, [Next]_vars, ~nested' PROVE ThrowInv'
  OBVIOUS
<1>0. ~nested
  <2>1. nested \in BOOLEAN
    BY DEF TypeOK
  <2>2. ASSUME NEW bytes \in Reports, pop(bytes) PROVE ~nested
    BY <2>2 DEF pop
  <2>3. (\E bytes \in Reports : pop_aborts(bytes)) \/ (\E sizes \in Calls : push(sizes))
          \/ PopStep \/ CallbackReturns \/ CallbackThrows \/ UNCHANGED vars => ~nested
    BY Zenon DEF pop_aborts, push, PopStep, InvokeFront, ShrinkFront, LoopFindsNoCallback,
                 PopReturns, CallbackReturns, CallbackThrows, vars
  <2> QED
    BY <2>2, <2>3 DEF Next
<1>00. ThrowInv
  BY <1>0
<1>1. ASSUME NEW sizes \in Calls, push(sizes) PROVE ThrowInv'
  BY <1>00, <1>1, PushThrow
<1>2. ASSUME NEW bytes \in Reports, pop(bytes) PROVE ThrowInv'
  BY <1>00, <1>2, PopThrow
<1>3. ASSUME UNCHANGED <<callbacks, frames, due, acked, invoked>> PROVE ThrowInv'
  <2>1. Busy' = Busy /\ Processed' = Processed /\ OneFrame'
    BY <1>00, <1>3 DEF Busy, Processed, OneFrame, Idle, Last, ThrowInv
  <2>2. acked <= acked' /\ acked' \in Nat
    BY <1>3 DEF TypeOK
  <2> QED
    BY <1>00, <1>3, <2>1, <2>2, SameThrow
<1>4. ASSUME NEW bytes \in Reports, pop_aborts(bytes) PROVE ThrowInv'
  BY <1>3, <1>4 DEF pop_aborts, queue
<1>5. CASE InvokeFront
  BY <1>00, <1>5, InvokeFrontThrow
<1>6. CASE ShrinkFront
  BY <1>00, <1>6, ShrinkFrontThrow
<1>7. CASE LoopFindsNoCallback
  BY <1>3, <1>7 DEF LoopFindsNoCallback, queue
<1>8. CASE PopReturns
  BY <1>00, <1>8, PopReturnsThrow
<1>9. CASE CallbackReturns
  BY <1>00, <1>9, CallbackReturnsThrow
<1>10. CASE CallbackThrows
  BY <1>00, <1>10, CallbackThrowsThrow
<1>11. CASE UNCHANGED vars
  BY <1>3, <1>11 DEF vars, queue
<1> QED
  BY <1>1, <1>2, <1>4, <1>5, <1>6, <1>7, <1>8, <1>9, <1>10, <1>11 DEF Next, PopStep

LEMMA ThrowInvariant == SafeSpec => [](TypeOK /\ (~nested => ThrowInv))
<1>1. Init => TypeOK /\ ThrowInv
  <2> SUFFICES ASSUME Init PROVE TypeOK /\ ThrowInv
    OBVIOUS
  <2>1. TypeOK
    BY InitTypeOK
  <2>2. /\ Idle /\ ~Busy /\ Processed = 0 /\ Len(frames) = 0
        /\ callbacks = <<>> /\ due = <<>> /\ invoked = <<>>
    BY DEF Init, Idle, Busy, Processed
  <2>3. Submitted = 0 /\ First = 1 /\ LastInvoked = 0
    BY <2>2 DEF Submitted, First, LastInvoked
  <2> QED
    BY <2>1, <2>2, <2>3
       DEF ThrowInv, OneFrame, Consecutive, AtFront, WaitingForAll, FrontReaches,
           Pushed, NeverEarly, NoCallbackSkipped
<1> QED
  BY <1>1, NextTypeOK, NextThrow, PTL DEF SafeSpec

\* Whatever callbacks throw and whatever is reported, in every build: none
\* runs before its bytes are written, unless a callback itself called pop().
THEOREM ThrowingIsNeverEarly == SafeSpec => []NeverEarlyUnlessNested
<1>1. TypeOK /\ (~nested => ThrowInv) => NeverEarlyUnlessNested
  BY DEF ThrowInv, NeverEarlyUnlessNested
<1> QED
  BY <1>1, ThrowInvariant, PTL

\* ... and none is passed over, unless a callback itself called pop().
THEOREM ThrowingSkipsNone == SafeSpec => []SkipsOnlyIfNested
<1>1. TypeOK /\ (~nested => ThrowInv) => SkipsOnlyIfNested
  BY DEF ThrowInv, SkipsOnlyIfNested
<1> QED
  BY <1>1, ThrowInvariant, PTL
-----------------------------------------------------------------------------
\* empty() is exact in every build and for every user, also while callbacks
\* push, pop again or throw inside pop().
THEOREM EmptyAlwaysExact == SafeSpec => []EmptyIsExact
<1>1. Init => TypeOK /\ EmptyIsExact
  BY InitTypeOK DEF Init, EmptyIsExact
<1>2. TypeOK /\ EmptyIsExact /\ [Next]_vars => EmptyIsExact'
  <2> SUFFICES ASSUME TypeOK, EmptyIsExact, [Next]_vars PROVE EmptyIsExact'
    OBVIOUS
  <2>1. ASSUME NEW sizes \in Calls, push(sizes) PROVE EmptyIsExact'
    <3> DEFINE bufs == [i \in 1 .. Len(sizes) |->
                         [base |-> Submitted + Offsets(sizes)[i - 1], len |-> sizes[i]]]
    <3>1. buffers' = buffers \o bufs /\ buffer_size' = buffer_size + Len(sizes)
      BY <2>1 DEF push, Added
    <3>2. sizes \in Seq(Nat) /\ Len(sizes) \in Nat
      BY ConstantsAssumption
    <3> DEFINE V == {bufs[i] : i \in 1 .. Len(sizes)}
    <3>3. bufs \in [1 .. Len(sizes) -> V]
      OBVIOUS
    <3> HIDE DEF bufs, V
    <3>4. bufs \in Seq(V) /\ Len(bufs) = Len(sizes)
      BY <3>2, <3>3
    <3>5. buffers \in Seq(Buffer \cup V) /\ bufs \in Seq(Buffer \cup V)
      BY <3>4 DEF TypeOK
    <3>6. Len(buffers \o bufs) = Len(buffers) + Len(bufs)
      BY <3>5, ConcatProperties
    <3> QED
      BY <3>1, <3>4, <3>6 DEF EmptyIsExact
  <2>2. ASSUME NEW bytes \in Reports, pop(bytes) PROVE EmptyIsExact'
    BY <2>2 DEF pop, EmptyIsExact
  <2>3. CASE UNCHANGED <<buffers, buffer_size>>
    BY <2>3 DEF EmptyIsExact
  <2>4. (\E bytes \in Reports : pop_aborts(bytes)) \/ PopStep \/ CallbackReturns
          \/ CallbackThrows \/ UNCHANGED vars => EmptyIsExact'
    BY <2>3 DEF pop_aborts, PopStep, InvokeFront, ShrinkFront, LoopFindsNoCallback,
                PopReturns, CallbackReturns, CallbackThrows, queue, vars
  <2> QED
    BY <2>1, <2>2, <2>4 DEF Next
<1> QED
  BY <1>1, <1>2, NextTypeOK, PTL DEF SafeSpec
-----------------------------------------------------------------------------
(***************************************************************************)
(* The queue implements WriteQueue: push() is Submit, pop() is Take or, if *)
(* it reports nothing, a stutter, and running a callback is Complete.      *)
(***************************************************************************)

LEMMA PushSubmits ==
  ASSUME TypeOK, NEW sizes \in Calls, push(sizes)
  PROVE  WQ!Submit
<1> DEFINE bytes == Offsets(sizes)[Len(sizes)]
<1> DEFINE n == Len(due)
<1>1. bytes \in Nat /\ Submitted \in Nat /\ due \in Seq(Nat) /\ n \in Nat
  BY BytesOfCall, SubmittedType, ConstantsAssumption DEF TypeOK
<1>2. due' = Append(due, Submitted + bytes) /\ UNCHANGED <<acked, invoked>>
  BY DEF push
<1> HIDE DEF bytes
<1>3. Submitted + bytes \in Nat
  BY <1>1
<1>4. Len(due') = n + 1 /\ due'[n + 1] = Submitted + bytes
  BY <1>1, <1>2, <1>3
<1>5. SubSeq(due', 1, n) = due
  BY <1>1, <1>2, <1>3
<1>6. WQ!Submitted = Submitted
  BY DEF WQ!Submitted, Submitted, Last
<1>7. due'[n + 1] - WQ!Submitted \in Nat
  BY <1>1, <1>4, <1>6
<1> QED
  BY <1>2, <1>4, <1>5, <1>7 DEF WQ!Submit

\* What is reported is queued, and what is queued is submitted.
LEMMA PopTakes ==
  ASSUME TypeOK, FaithfulInv, NEW bytes \in Reports, pop(bytes)
  PROVE  WQ!Take \/ UNCHANGED WQ!vars
<1>1. bytes \in Nat /\ acked \in Nat /\ acked + size_bytes(buffers) = Submitted
  BY ReportsType DEF TypeOK, FaithfulInv, Faithful, Spans
<1>2. bytes <= size_bytes(buffers)
  <2>1. /\ Sizes(buffers) \in Seq(Nat) /\ Len(Sizes(buffers)) = Len(buffers)
        /\ Len(buffers) \in Nat /\ size_bytes(buffers) \in Nat
    BY SizesType, BufferOffsets DEF TypeOK
  <2>2. CASE WholeBuffers
    <3>1. PICK k \in 0 .. Len(buffers) : bytes = Offsets(Sizes(buffers))[k]
      BY <2>2 DEF Reports
    <3>2. Offsets(Sizes(buffers))[k] <= Offsets(Sizes(buffers))[Len(buffers)]
      BY <2>1, OffsetsAscend
    <3> QED
      BY <3>1, <3>2 DEF size_bytes
  <2>3. CASE ~WholeBuffers
    BY <2>1, <2>3 DEF Reports
  <2> QED
    BY <2>2, <2>3
<1>3. size_bytes(buffers) \in Nat /\ WQ!Submitted = Submitted
  BY BufferOffsets DEF TypeOK, WQ!Submitted, Submitted, Last
<1>4. acked' = acked + bytes /\ UNCHANGED <<due, invoked>>
  BY DEF pop
<1>5. CASE bytes = 0
  BY <1>1, <1>4, <1>5 DEF WQ!vars
<1>6. CASE bytes # 0
  BY <1>1, <1>2, <1>3, <1>4, <1>6 DEF WQ!Take
<1> QED
  BY <1>5, <1>6

LEMMA InvokeFrontCompletes ==
  ASSUME TypeOK, OrderInv, InvokeFront
  PROVE  WQ!Complete
<1> DEFINE r == Last(frames).remaining
<1> DEFINE size == callbacks[1].size
<1>1. /\ ~Idle /\ ~Last(frames).invoking /\ callbacks # <<>> /\ size <= r
      /\ invoked' = Append(invoked, callbacks[1].cb) /\ UNCHANGED <<due, acked>>
  BY DEF InvokeFront, PopRuns, Covered, queue
<1>2. Busy = FALSE /\ Processed = acked - r
  BY <1>1 DEF Busy, Processed
<1>3. Len(callbacks) \in Nat \ {0} /\ Len(due) \in Nat /\ Done \in Nat /\ acked \in Nat
  BY <1>1 DEF TypeOK, Done
<1>4. 1 \in 1 .. Len(callbacks) /\ callbacks[1].cb \in Nat /\ size \in Nat
  BY <1>3, CallbackType
<1>5. Len(due) = Done + Len(callbacks) /\ callbacks[1].cb = Done + 1
  BY <1>2, <1>4 DEF OrderInv, Queued
<1>6. Done + 1 \in 1 .. Len(due) /\ due[Done + 1] \in Nat
  <2>1. Done + 1 \in 1 .. Len(due)
    BY <1>3, <1>5
  <2> QED
    BY <2>1 DEF TypeOK
<1>7. size = due[Done + 1] - Processed
  BY <1>4, <1>5 DEF OrderInv, Waiting
<1>8. r \in Nat
  BY <1>1, LastFrame DEF Frame
<1> HIDE DEF r, size
<1>9. Done < Len(due) /\ due[Done + 1] <= acked
  BY <1>1, <1>2, <1>3, <1>4, <1>6, <1>7, <1>8
<1>10. Len(invoked') = Len(invoked) + 1
  BY <1>1, <1>4 DEF TypeOK
<1> QED
  BY <1>1, <1>9, <1>10 DEF WQ!Complete, Done

LEMMA InitRefines == Init => WQ!Init
  BY DEF Init, WQ!Init

LEMMA StepRefines ==
  TypeOK /\ OrderInv /\ FaithfulInv /\ [Next]_vars => [WQ!Next]_(WQ!vars)
<1> SUFFICES ASSUME TypeOK, OrderInv, FaithfulInv, [Next]_vars
             PROVE  WQ!Next \/ UNCHANGED WQ!vars
  OBVIOUS
<1>1. ASSUME NEW sizes \in Calls, push(sizes) PROVE WQ!Next
  BY <1>1, PushSubmits DEF WQ!Next
<1>2. ASSUME NEW bytes \in Reports, pop(bytes) PROVE WQ!Next \/ UNCHANGED WQ!vars
  BY <1>2, PopTakes DEF WQ!Next
<1>3. CASE InvokeFront
  BY <1>3, InvokeFrontCompletes DEF WQ!Next
<1>4. CASE UNCHANGED <<due, acked, invoked>>
  BY <1>4 DEF WQ!vars
<1>5. (\E bytes \in Reports : pop_aborts(bytes)) \/ ShrinkFront \/ LoopFindsNoCallback
        \/ PopReturns \/ CallbackReturns \/ CallbackThrows \/ UNCHANGED vars
        => UNCHANGED <<due, acked, invoked>>
  BY DEF pop_aborts, ShrinkFront, LoopFindsNoCallback, PopReturns, CallbackReturns,
         CallbackThrows, queue, vars
<1> QED
  BY <1>1, <1>2, <1>3, <1>4, <1>5 DEF Next, PopStep

\* Callbacks that return and do not pop again: the queue does only what a
\* write queue may do, step by step, for any pushes and any whole buffers
\* reported.  (That writes complete in the end is in WQ!Spec.)
THEOREM QueueImplementsWriteQueue ==
  ASSUME Flat, WholeOrChecked
  PROVE  SafeSpec => WQ!SafeSpec
<1>1. SafeSpec => [](TypeOK /\ OrderInv)
  BY OrderInvariant
<1>2. SafeSpec => [](TypeOK /\ FaithfulInv)
  BY FaithfulInvariant
<1> QED
  BY <1>1, <1>2, InitRefines, StepRefines, PTL DEF SafeSpec, WQ!SafeSpec
=============================================================================
