-------------------------- MODULE CoroutinesProofs --------------------------
(***************************************************************************)
(* Who destroys the frame of a coroutine, and what the calls on the native *)
(* stack find when others return to them, for any coroutines, objects and  *)
(* bodies.                                                                 *)
(***************************************************************************)
EXTENDS Coroutines, MoveOnlyProofs

-----------------------------------------------------------------------------
(***************************************************************************)
(* The objects that hold handles do what MoveOnly objects do.              *)
(***************************************************************************)
OwnersAreObjects == owners \subseteq Objects

\* The steps that construct, move or destroy objects, and what they are to
\* the objects; the others leave those alone.
LEMMA ResumesKeepsObjects ==
  ASSUME NEW calls, NEW c, Resumes(calls, c)
  PROVE  UNCHANGED <<vars, owners>>
  BY DEF Resumes, Calls, Undefined

LEMMA CallsKeepObjects ==
  ASSUME \/ \E o \in owners : resume(o) \/ execute(o)
         \/ ExecuteLoop \/ ExecuteResumed \/ Await \/ await_suspend \/ BodyEnds \/ Unwind
  PROVE  UNCHANGED <<vars, owners>>
  BY ResumesKeepsObjects
     DEF resume, execute, ExecuteLoop, ExecuteResumed, Await, await_suspend, BodyEnds, Unwind, Calls, Undefined

LEMMA StepIsAMove ==
  ASSUME OwnersAreObjects, CoroutinesNext
  PROVE  (Next \/ UNCHANGED vars) /\ OwnersAreObjects'
<1>1. ASSUME NEW o \in Objects, NEW c \in Coroutines, create(o, c)
      PROVE  Next /\ OwnersAreObjects'
  BY <1>1 DEF create, Next, OwnersAreObjects, Coroutines
<1>2. ASSUME NEW o \in Objects, OwnedCoroutine(o)
      PROVE  Next /\ OwnersAreObjects'
  BY <1>2, CoroutinesAssumption DEF OwnedCoroutine, Next, OwnersAreObjects
<1>3. ASSUME NEW o \in Objects, NEW other \in Plain, OwnedCoroutine_from(o, other)
      PROVE  Next /\ OwnersAreObjects'
  BY <1>3 DEF OwnedCoroutine_from, Plain, Next, OwnersAreObjects
<1>4. CASE PlainStep
  BY <1>4 DEF PlainStep, Plain, Next, OwnersAreObjects
<1>5. ASSUME NEW o \in owners, destroy_owner(o)
      PROVE  (Next \/ UNCHANGED vars) /\ OwnersAreObjects'
  <2>1. CASE UNCHANGED <<vars, owners>>
    BY <2>1 DEF OwnersAreObjects
  <2>2. CASE destroy(o) /\ owners' = owners \ {o}
    BY <2>2 DEF OwnersAreObjects, Next
  <2> QED
    BY <1>5, <2>1, <2>2 DEF destroy_owner, Undefined
<1>6. CASE UNCHANGED <<vars, owners>>
  BY <1>6 DEF OwnersAreObjects
<1> QED
  BY <1>1, <1>2, <1>3, <1>4, <1>5, <1>6, CallsKeepObjects, Zenon DEF CoroutinesNext

\* What is proved of MoveOnly objects holds of those that hold handles.
LEMMA CoroutinesMoveOnly == CoroutinesSpec => Spec
<1>1. ASSUME CoroutinesInit PROVE Init /\ OwnersAreObjects
  BY <1>1 DEF CoroutinesInit, OwnersAreObjects
<1>2. ASSUME UNCHANGED coroutine_vars PROVE UNCHANGED vars /\ UNCHANGED owners
  BY <1>2 DEF coroutine_vars
<1>3. ASSUME OwnersAreObjects, UNCHANGED owners PROVE OwnersAreObjects'
  BY <1>3 DEF OwnersAreObjects
<1> QED
  BY <1>1, <1>2, <1>3, StepIsAMove, PTL DEF CoroutinesSpec, Spec
-----------------------------------------------------------------------------
(***************************************************************************)
(* Frames.  A handle leaves its object only by a move, or with the object; *)
(* the frame goes with the object of an OwnedCoroutine.                    *)
(***************************************************************************)
States == {"none", "initial", "awaiting", "running", "final", "destroyed"}

FramesTyped == frame \in [Coroutines -> States]

\* The inductive invariant: what is true of MoveOnly objects, and of the
\* handles they hold.
Frames == Ownership /\ FramesTyped /\ HandlesAreAlive

\* A frame that is there.
Present(c) == frame[c] \notin {"none", "destroyed"}

\* Handles stay alive when no frame goes and objects get handles only from
\* one another.
LEMMA FramesStay ==
  ASSUME Frames, FramesTyped',
         \A c \in Coroutines : Present(c) => Present(c)',
         \A o \in Alive' : \A c \in inner'[o] : \/ \E p \in Alive : c \in inner[p]
                                                \/ c \in Coroutines /\ Present(c)'
                                                \/ c = null
  PROVE  HandlesAreAlive'
<1>1. \A p \in Alive : inner[p] \subseteq Values
  BY DEF Frames, Ownership, TypeOK
<1> QED
  BY <1>1 DEF Frames, HandlesAreAlive, Present, Coroutines

LEMMA ResumesKeepsFrames ==
  ASSUME FramesTyped, NEW calls, NEW c, Resumes(calls, c)
  PROVE  FramesTyped' /\ \A d \in Coroutines : Present(d) => Present(d)'
<1>1. CASE frame' = [frame EXCEPT ![c] = "running"]
  BY <1>1 DEF FramesTyped, States, Present
<1>2. CASE UNCHANGED frame
  BY <1>2 DEF FramesTyped, Present
<1> QED
  BY <1>1, <1>2 DEF Resumes, Undefined

\* Where the handles of an object come from.
LEMMA ConstructedContents ==
  ASSUME NEW o, NEW contents, construct(o, contents)
  PROVE  \A x \in Alive' : inner'[x] = contents \/ (x \in Alive /\ inner'[x] = inner[x])
<1>1. inner' = With([x \in {o} |-> contents])
  BY DEF construct
<1>2. \A x \in Alive' : x = o \/ x \in Alive \ {o}
  BY <1>1, WithLookup DEF Alive
<1> QED
  BY <1>1, <1>2, WithLookup

LEMMA MovedContents ==
  ASSUME NEW o, NEW other \in Alive, move_construct(o, other) \/ move_assign(o, other)
  PROVE  \A x \in Alive' : inner'[x] = {} \/ \E p \in Alive : inner'[x] = inner[p]
<1> DEFINE new == [x \in {o, other} |-> IF x = o THEN inner[other] ELSE nullopt]
<1>1. inner' = With(new)
  BY DEF move_construct, move_assign
<1>2. /\ DOMAIN new = {o, other}
      /\ new[o] = inner[other]
      /\ o # other => new[other] = {}
  BY DEF nullopt
<1> HIDE DEF new
<1>3. \A x \in Alive' : x = o \/ x = other \/ x \in Alive \ {o, other}
  BY <1>1, <1>2, WithLookup DEF Alive
<1>4. inner'[o] = new[o] /\ inner'[other] = new[other]
  BY <1>1, <1>2, WithLookup
<1>5. \A x \in Alive \ {o, other} : inner'[x] = inner[x]
  BY <1>1, <1>2, WithLookup
<1> QED
  BY <1>2, <1>3, <1>4, <1>5

LEMMA ObjectStepKeepsFrames ==
  ASSUME Frames, UNCHANGED frame,
         \A x \in Alive' : \/ inner'[x] \subseteq {null}
                           \/ \E p \in Alive : inner'[x] \subseteq inner[p]
  PROVE  FramesTyped' /\ HandlesAreAlive'
<1>1. FramesTyped' /\ \A c \in Coroutines : Present(c) => Present(c)'
  BY DEF Frames, FramesTyped, Present
<1> QED
  BY <1>1, FramesStay

LEMMA CreateKeepsFrames ==
  ASSUME Frames, NEW o \in Objects, NEW c \in Coroutines, create(o, c)
  PROVE  FramesTyped' /\ HandlesAreAlive'
<1>1. construct(o, {c}) /\ frame' = [frame EXCEPT ![c] = "initial"]
  BY DEF create, initial_suspend
<1>2. /\ FramesTyped'
      /\ \A d \in Coroutines : Present(d) => Present(d)'
      /\ Present(c)'
  BY <1>1 DEF Frames, FramesTyped, States, Present
<1>3. \A x \in Alive' : inner'[x] = {c} \/ (x \in Alive /\ inner'[x] = inner[x])
  BY <1>1, ConstructedContents
<1> QED
  BY <1>2, <1>3, FramesStay

\* The frames of an OwnedCoroutine go with it, and no other object holds
\* their handles.
LEMMA DestroyKeepsFrames ==
  ASSUME Frames, NEW o \in owners, destroy_owner(o)
  PROVE  FramesTyped' /\ HandlesAreAlive'
<1>1. CASE UNCHANGED <<vars, frame>>
  BY <1>1 DEF vars, Frames, FramesTyped, HandlesAreAlive, Alive
<1>2. CASE /\ destroy(o)
           /\ frame' = [c \in Coroutines |-> IF c \in inner[o] THEN "destroyed" ELSE frame[c]]
  <2>1. FramesTyped'
    BY <1>2 DEF Frames, FramesTyped, States
  <2>2. Alive' = Alive \ {o} /\ o \in Alive /\ \A p \in Alive' : inner'[p] = inner[p]
    BY <1>2 DEF destroy, Alive
  <2>3. \A p \in Alive' : inner[o] \cap inner[p] \subseteq {null} /\ inner[p] \subseteq Values
    BY <2>2, CoroutinesAssumption DEF Frames, Ownership, UniqueOwner, TypeOK
  <2>4. ASSUME NEW p \in Alive', NEW c \in inner'[p] \ {null} PROVE frame'[c] = frame[c]
    BY <1>2, <2>2, <2>3, <2>4 DEF Coroutines
  <2>5. \A p \in Alive' : \A c \in inner'[p] \ {null} : frame[c] \notin {"none", "destroyed"}
    BY <2>2 DEF Frames, HandlesAreAlive
  <2> QED
    BY <2>1, <2>4, <2>5 DEF HandlesAreAlive
<1> QED
  BY <1>1, <1>2 DEF destroy_owner, Undefined

LEMMA CallsKeepFrames ==
  ASSUME Frames,
         \/ \E o \in owners : resume(o) \/ execute(o)
         \/ ExecuteLoop \/ ExecuteResumed \/ Await \/ await_suspend \/ BodyEnds \/ Unwind
  PROVE  FramesTyped' /\ HandlesAreAlive'
<1>1. UNCHANGED inner /\ UNCHANGED Alive
  BY CallsKeepObjects DEF vars, Alive
<1>2. CASE UNCHANGED frame
  BY <1>1, <1>2 DEF Frames, FramesTyped, HandlesAreAlive
<1>3. ASSUME NEW calls, NEW c, Resumes(calls, c)
      PROVE  FramesTyped' /\ HandlesAreAlive'
  <2>1. FramesTyped' /\ \A d \in Coroutines : Present(d) => Present(d)'
    BY <1>3, ResumesKeepsFrames DEF Frames
  <2> QED
    BY <1>1, <2>1, FramesStay
<1>4. ASSUME NEW state \in {"awaiting", "final"}, frame' = [frame EXCEPT ![TopOf] = state]
      PROVE  FramesTyped' /\ HandlesAreAlive'
  <2>1. FramesTyped' /\ \A d \in Coroutines : Present(d) => Present(d)'
    BY <1>4 DEF Frames, FramesTyped, States, Present
  <2> QED
    BY <1>1, <2>1, FramesStay
<1>5. ASSUME NEW o \in owners, resume(o) PROVE FramesTyped' /\ HandlesAreAlive'
  BY <1>2, <1>3, <1>5 DEF resume, Undefined
<1>6. ASSUME NEW o \in owners, execute(o) PROVE FramesTyped' /\ HandlesAreAlive'
  BY <1>2, <1>6 DEF execute, Undefined
<1>7. CASE ExecuteLoop
  BY <1>2, <1>3, <1>7 DEF ExecuteLoop
<1>8. CASE ExecuteResumed
  BY <1>2, <1>8 DEF ExecuteResumed
<1>9. CASE await_suspend
  BY <1>3, <1>9 DEF await_suspend
<1>10. CASE Await
  BY <1>4, <1>10 DEF Await
<1>11. CASE BodyEnds
  BY <1>4, <1>11 DEF BodyEnds, final_suspend
<1>12. CASE Unwind
  BY <1>2, <1>12 DEF Unwind
<1> QED
  BY <1>5, <1>6, <1>7, <1>8, <1>9, <1>10, <1>11, <1>12

LEMMA FramesKept ==
  ASSUME Frames, OwnersAreObjects, [CoroutinesNext]_coroutine_vars
  PROVE  Frames'
<1>1. Ownership'
  <2>1. [Next]_vars
    BY StepIsAMove DEF coroutine_vars
  <2> QED
    BY <2>1, OwnershipStep DEF Frames
<1>2. ASSUME NEW o \in Objects, NEW c \in Coroutines, create(o, c)
      PROVE  FramesTyped' /\ HandlesAreAlive'
  BY <1>2, CreateKeepsFrames
<1>3. ASSUME NEW o \in Objects, OwnedCoroutine(o)
      PROVE  FramesTyped' /\ HandlesAreAlive'
  <2>1. construct(o, {null}) /\ UNCHANGED frame
    BY <1>3 DEF OwnedCoroutine, frames
  <2> QED
    BY <2>1, ConstructedContents, ObjectStepKeepsFrames
<1>4. ASSUME NEW o \in Objects, NEW other \in Plain, OwnedCoroutine_from(o, other)
      PROVE  FramesTyped' /\ HandlesAreAlive'
  <2>1. other \in Alive /\ move_construct(o, other) /\ UNCHANGED frame
    BY <1>4 DEF OwnedCoroutine_from, Plain, frames
  <2> QED
    BY <2>1, MovedContents, ObjectStepKeepsFrames
<1>5. ASSUME PlainStep PROVE FramesTyped' /\ HandlesAreAlive'
  <2>1. UNCHANGED frame
    BY <1>5 DEF PlainStep, frames
  <2>2. ASSUME NEW o \in Objects, construct(o, nullopt)
        PROVE  FramesTyped' /\ HandlesAreAlive'
    BY <2>1, <2>2, ConstructedContents, ObjectStepKeepsFrames DEF nullopt
  <2>3. ASSUME NEW o \in Objects, NEW other \in Plain, move_construct(o, other) \/ move_assign(o, other)
        PROVE  FramesTyped' /\ HandlesAreAlive'
    BY <2>1, <2>3, MovedContents, ObjectStepKeepsFrames DEF Plain
  <2>4. ASSUME NEW o \in Objects, destroy(o)
        PROVE  FramesTyped' /\ HandlesAreAlive'
    <3>1. \A x \in Alive' : x \in Alive /\ inner'[x] = inner[x]
      BY <2>4 DEF destroy, Alive
    <3> QED
      BY <2>1, <3>1, ObjectStepKeepsFrames
  <2> QED
    BY <1>5, <2>2, <2>3, <2>4 DEF PlainStep, Plain
<1>6. ASSUME NEW o \in owners, destroy_owner(o)
      PROVE  FramesTyped' /\ HandlesAreAlive'
  BY <1>6, DestroyKeepsFrames
<1>7. ASSUME UNCHANGED coroutine_vars PROVE FramesTyped' /\ HandlesAreAlive'
  <2>1. UNCHANGED inner /\ UNCHANGED frame
    BY <1>7 DEF coroutine_vars, vars
  <2>2. UNCHANGED Alive
    BY <2>1 DEF Alive
  <2> QED
    BY <2>1, <2>2 DEF Frames, FramesTyped, HandlesAreAlive
<1>8. ASSUME \/ \E o \in owners : resume(o) \/ execute(o)
             \/ ExecuteLoop \/ ExecuteResumed \/ Await \/ await_suspend \/ BodyEnds \/ Unwind
      PROVE  FramesTyped' /\ HandlesAreAlive'
  BY <1>8, CallsKeepFrames
<1>9. FramesTyped' /\ HandlesAreAlive'
  BY <1>2, <1>3, <1>4, <1>5, <1>6, <1>7, <1>8, Zenon DEF CoroutinesNext
<1> QED
  BY <1>1, <1>9 DEF Frames

LEMMA FramesInit == CoroutinesInit => Frames /\ OwnersAreObjects
<1> SUFFICES ASSUME CoroutinesInit PROVE Frames /\ OwnersAreObjects
  OBVIOUS
<1>1. Ownership
  BY OwnershipInit DEF CoroutinesInit
<1>2. FramesTyped /\ HandlesAreAlive /\ OwnersAreObjects
  BY DEF CoroutinesInit, Init, FramesTyped, States, HandlesAreAlive, Alive, OwnersAreObjects
<1> QED
  BY <1>1, <1>2 DEF Frames

\* No frame is destroyed twice, resumed when it is gone, or used before it is
\* there, through any object (ownership.h).
THEOREM HandlesStayAlive == CoroutinesSpec => []HandlesAreAlive
<1>1. ASSUME OwnersAreObjects, [CoroutinesNext]_coroutine_vars PROVE OwnersAreObjects'
  BY <1>1, StepIsAMove DEF coroutine_vars, OwnersAreObjects
<1>2. Frames => HandlesAreAlive
  BY DEF Frames
<1> QED
  BY <1>1, <1>2, FramesInit, FramesKept, PTL DEF CoroutinesSpec

\* The owners of coroutines' handles are unique, as of all values; only the
\* null handle has several.
THEOREM HandlesHaveUniqueOwners == CoroutinesSpec => []UniqueOwner
  BY CoroutinesMoveOnly, ValuesHaveUniqueOwners, PTL
-----------------------------------------------------------------------------
(***************************************************************************)
(* The native stack.  Each call is on top of the body that made it, or of  *)
(* one that the library made for the same coroutine.                       *)
(***************************************************************************)
Entries == [name : {"execute", "executing", "resume", "await_suspend", "suspended"},
            of : Coroutines]

\* The calls inside of which there may be others, and those that come first
\* of their coroutine.
Outer == {"resume", "suspended", "executing"}
Starts == {"execute", "executing"}

\* The calls of one coroutine follow one another, and those of another are
\* made by its body.
Shape(s) ==
  /\ s \in Seq(Entries)
  /\ \A i \in 1 .. Len(s) - 1 : /\ s[i].name \in Outer
                                /\ s[i].of # s[i + 1].of => s[i].name = "resume"
  /\ \A i, j, k \in 1 .. Len(s) : i < j /\ j < k /\ s[i].of = s[k].of => s[j].of = s[k].of
  /\ \A i \in 1 .. Len(s) : s[i].name \in Starts => \A j \in 1 .. i - 1 : s[j].of # s[i].of

LEMMA FrontFacts ==
  ASSUME NEW S, NEW s \in Seq(S), s # <<>>
  PROVE  /\ Len(s) \in Nat /\ Len(s) >= 1
         /\ Front(s) \in Seq(S) /\ Len(Front(s)) = Len(s) - 1
         /\ \A i \in 1 .. Len(s) - 1 : Front(s)[i] = s[i]
         /\ Last(s) = s[Len(s)] /\ Last(s) \in S
         /\ Range(s) = Range(Front(s)) \cup {Last(s)}
<1>1. Len(s) \in Nat /\ Len(s) >= 1
  OBVIOUS
<1>2. /\ Front(s) \in Seq(S) /\ Len(Front(s)) = Len(s) - 1
      /\ \A i \in 1 .. Len(s) - 1 : Front(s)[i] = s[i]
  <2>1. Front(s) \in Seq(S)
    BY <1>1 DEF Front
  <2>2. Len(Front(s)) = Len(s) - 1
    BY <1>1 DEF Front
  <2>3. \A i \in 1 .. Len(s) - 1 : Front(s)[i] = s[i]
    BY <1>1 DEF Front
  <2> QED
    BY <2>1, <2>2, <2>3
<1>3. Last(s) = s[Len(s)] /\ Last(s) \in S
  BY <1>1 DEF Last
<1>4. DOMAIN s = 1 .. Len(s) /\ DOMAIN Front(s) = 1 .. Len(s) - 1
  BY <1>1, <1>2
<1>5. ASSUME NEW e \in Range(s) PROVE e \in Range(Front(s)) \cup {Last(s)}
  <2>1. PICK i \in 1 .. Len(s) : e = s[i]
    BY <1>4, <1>5 DEF Range
  <2>2. i = Len(s) \/ i \in 1 .. Len(s) - 1
    BY <1>1
  <2> QED
    BY <1>2, <1>3, <1>4, <2>1, <2>2 DEF Range
<1>6. ASSUME NEW e \in Range(Front(s)) \cup {Last(s)} PROVE e \in Range(s)
  <2>1. CASE e = Last(s)
    BY <1>1, <1>3, <1>4, <2>1 DEF Range
  <2>2. CASE e \in Range(Front(s))
    <3>1. PICK i \in 1 .. Len(s) - 1 : e = Front(s)[i]
      BY <1>4, <2>2 DEF Range
    <3>2. i \in 1 .. Len(s) /\ e = s[i]
      BY <1>1, <1>2, <3>1
    <3> QED
      BY <1>4, <3>2 DEF Range
  <2> QED
    BY <1>6, <2>1, <2>2
<1> QED
  BY <1>1, <1>2, <1>3, <1>5, <1>6

LEMMA AppendFacts ==
  ASSUME NEW S, NEW s \in Seq(S), NEW e \in S
  PROVE  /\ Append(s, e) \in Seq(S) /\ Append(s, e) # <<>>
         /\ Last(Append(s, e)) = e
         /\ Range(Append(s, e)) = Range(s) \cup {e}
<1> DEFINE t == Append(s, e)
<1>1. /\ t \in Seq(S) /\ t # <<>> /\ Len(t) = Len(s) + 1 /\ Len(s) \in Nat
      /\ t[Len(s) + 1] = e /\ \A i \in 1 .. Len(s) : t[i] = s[i]
  OBVIOUS
<1>2. DOMAIN s = 1 .. Len(s) /\ DOMAIN t = 1 .. Len(s) + 1
  BY <1>1
<1> HIDE DEF t
<1>3. Last(t) = e
  BY <1>1 DEF Last
<1>4. ASSUME NEW x \in Range(t) PROVE x \in Range(s) \cup {e}
  <2>1. PICK i \in 1 .. Len(s) + 1 : x = t[i]
    BY <1>2, <1>4 DEF Range
  <2>2. i = Len(s) + 1 \/ i \in 1 .. Len(s)
    BY <1>1
  <2> QED
    BY <1>1, <1>2, <2>1, <2>2 DEF Range
<1>5. ASSUME NEW x \in Range(s) \cup {e} PROVE x \in Range(t)
  <2>1. CASE x = e
    BY <1>1, <1>2, <2>1 DEF Range
  <2>2. CASE x \in Range(s)
    <3>1. PICK i \in 1 .. Len(s) : x = s[i]
      BY <1>2, <2>2 DEF Range
    <3>2. i \in 1 .. Len(s) + 1 /\ x = t[i]
      BY <1>1, <3>1
    <3> QED
      BY <1>2, <3>2 DEF Range
  <2> QED
    BY <1>5, <2>1, <2>2
<1> QED
  BY <1>1, <1>3, <1>4, <1>5 DEF t

\* A call that returns.
LEMMA ShapePop ==
  ASSUME NEW s, Shape(s), s # <<>>
  PROVE  /\ Shape(Front(s))
         /\ Last(s).name \in Starts => \A e \in Range(Front(s)) : e.of # Last(s).of
         /\ Front(s) # <<>> =>
              /\ Last(Front(s)).name \in Outer
              /\ Last(Front(s)).of # Last(s).of =>
                   /\ Last(Front(s)).name = "resume"
                   /\ \A e \in Range(Front(s)) : e.of # Last(s).of
<1> DEFINE r == Front(s)
<1> DEFINE n == Len(s)
<1>1. /\ s \in Seq(Entries)
      /\ \A i \in 1 .. n - 1 : /\ s[i].name \in Outer
                               /\ s[i].of # s[i + 1].of => s[i].name = "resume"
      /\ \A i, j, k \in 1 .. n : i < j /\ j < k /\ s[i].of = s[k].of => s[j].of = s[k].of
      /\ \A i \in 1 .. n : s[i].name \in Starts => \A j \in 1 .. i - 1 : s[j].of # s[i].of
  BY DEF Shape
<1>2. /\ n \in Nat /\ n >= 1 /\ r \in Seq(Entries) /\ Len(r) = n - 1
      /\ \A i \in 1 .. n - 1 : r[i] = s[i]
      /\ Last(s) = s[n]
  BY <1>1, FrontFacts
<1>3. \A e \in Range(r) : \E i \in 1 .. n - 1 : e = s[i]
  BY <1>2 DEF Range
<1> HIDE DEF r, n
<1>4. \A i \in 1 .. n - 1 : i \in 1 .. n
  BY <1>2
<1>5. Shape(r)
  <2>1. ASSUME NEW i \in 1 .. Len(r) - 1
        PROVE  r[i].name \in Outer /\ (r[i].of # r[i + 1].of => r[i].name = "resume")
    <3>1. i \in 1 .. n - 1 /\ i + 1 \in 1 .. n - 1
      BY <1>2
    <3> QED
      BY <1>1, <1>2, <3>1
  <2>2. ASSUME NEW i \in 1 .. Len(r), NEW j \in 1 .. Len(r), NEW k \in 1 .. Len(r),
               i < j, j < k, r[i].of = r[k].of
        PROVE  r[j].of = r[k].of
    BY <1>1, <1>2, <1>4, <2>2
  <2>3. ASSUME NEW i \in 1 .. Len(r), r[i].name \in Starts, NEW j \in 1 .. i - 1
        PROVE  r[j].of # r[i].of
    <3>1. j \in 1 .. n - 1 /\ i \in 1 .. n - 1
      BY <1>2
    <3> QED
      BY <1>1, <1>2, <1>4, <2>3, <3>1
  <2> QED
    BY <1>2, <2>1, <2>2, <2>3 DEF Shape
<1>6. ASSUME Last(s).name \in Starts, NEW e \in Range(r) PROVE e.of # Last(s).of
  <2>1. n \in 1 .. n
    BY <1>2
  <2> QED
    BY <1>1, <1>2, <1>3, <1>6, <2>1
<1>7. ASSUME r # <<>>
      PROVE  /\ Last(r).name \in Outer
             /\ Last(r).of # Last(s).of =>
                  /\ Last(r).name = "resume"
                  /\ \A e \in Range(r) : e.of # Last(s).of
  <2>1. n - 1 \in 1 .. n - 1 /\ n \in 1 .. n /\ (n - 1) + 1 = n /\ Last(r) = s[n - 1]
    <3>1. Len(r) >= 1 /\ Last(r) = r[Len(r)]
      BY <1>2, <1>7, FrontFacts
    <3>2. n - 1 \in 1 .. n - 1 /\ n \in 1 .. n /\ (n - 1) + 1 = n
      BY <1>2, <3>1
    <3> QED
      BY <1>2, <3>1, <3>2
  <2>2. Last(r).name \in Outer /\ (Last(r).of # Last(s).of => Last(r).name = "resume")
    BY <1>1, <1>2, <2>1
  <2>3. ASSUME Last(r).of # Last(s).of, NEW e \in Range(r) PROVE e.of # Last(s).of
    <3>1. PICK i \in 1 .. n - 1 : e = s[i]
      BY <1>3
    <3>2. i < n - 1 \/ i = n - 1
      BY <1>2
    <3>3. i \in 1 .. n /\ n - 1 \in 1 .. n /\ n - 1 < n
      BY <1>2, <2>1
    <3> QED
      BY <1>1, <1>2, <2>1, <2>3, <3>1, <3>2, <3>3
  <2> QED
    BY <2>2, <2>3
<1> QED
  BY <1>5, <1>6, <1>7 DEF r

\* A call that is made.
LEMMA ShapePush ==
  ASSUME NEW s, Shape(s), NEW e \in Entries,
         s # <<>> => /\ Last(s).name \in Outer
                     /\ Last(s).of # e.of => /\ Last(s).name = "resume"
                                             /\ \A x \in Range(s) : x.of # e.of,
         e.name \in Starts => \A x \in Range(s) : x.of # e.of
  PROVE  Shape(Append(s, e))
<1> DEFINE t == Append(s, e)
<1> DEFINE n == Len(s)
<1>1. /\ s \in Seq(Entries)
      /\ \A i \in 1 .. n - 1 : /\ s[i].name \in Outer
                               /\ s[i].of # s[i + 1].of => s[i].name = "resume"
      /\ \A i, j, k \in 1 .. n : i < j /\ j < k /\ s[i].of = s[k].of => s[j].of = s[k].of
      /\ \A i \in 1 .. n : s[i].name \in Starts => \A j \in 1 .. i - 1 : s[j].of # s[i].of
  BY DEF Shape
<1>2. /\ n \in Nat /\ t \in Seq(Entries) /\ Len(t) = n + 1
      /\ t[n + 1] = e /\ \A i \in 1 .. n : t[i] = s[i]
  BY <1>1
<1>3. \A i \in 1 .. n : s[i] \in Range(s)
  BY <1>1 DEF Range
<1>4. n >= 1 => s # <<>> /\ Last(s) = s[n]
  BY <1>1 DEF Last
<1> HIDE DEF t, n
<1>5. ASSUME NEW i \in 1 .. Len(t) - 1
      PROVE  t[i].name \in Outer /\ (t[i].of # t[i + 1].of => t[i].name = "resume")
  <2>1. CASE i = n
    BY <1>2, <1>4, <2>1
  <2>2. CASE i # n
    <3>1. i \in 1 .. n - 1 /\ i \in 1 .. n /\ i + 1 \in 1 .. n
      BY <1>2, <2>2
    <3> QED
      BY <1>1, <1>2, <3>1
  <2> QED
    BY <2>1, <2>2
<1>6. ASSUME NEW i \in 1 .. Len(t), NEW j \in 1 .. Len(t), NEW k \in 1 .. Len(t),
             i < j, j < k, t[i].of = t[k].of
      PROVE  t[j].of = t[k].of
  <2>1. i \in 1 .. n /\ j \in 1 .. n
    BY <1>2, <1>6
  <2>2. CASE k \in 1 .. n
    BY <1>1, <1>2, <1>6, <2>1, <2>2
  <2>3. CASE k = n + 1
    <3>1. n \in 1 .. n /\ s[i].of = e.of /\ s[i] \in Range(s)
      BY <1>2, <1>3, <1>6, <2>1, <2>3
    <3>2. s[n].of = e.of
      BY <1>2, <1>4, <3>1
    <3>3. j = n \/ j < n
      BY <1>2, <2>1
    <3>4. s[j].of = s[n].of
      BY <1>1, <1>6, <2>1, <3>1, <3>2, <3>3
    <3> QED
      BY <1>2, <2>1, <2>3, <3>2, <3>4
  <2> QED
    BY <1>2, <2>2, <2>3
<1>7. ASSUME NEW i \in 1 .. Len(t), t[i].name \in Starts, NEW j \in 1 .. i - 1
      PROVE  t[j].of # t[i].of
  <2>1. j \in 1 .. n
    BY <1>2
  <2>2. CASE i \in 1 .. n
    BY <1>1, <1>2, <1>7, <2>1, <2>2
  <2>3. CASE i = n + 1
    BY <1>2, <1>3, <1>7, <2>1, <2>3
  <2> QED
    BY <1>2, <2>2, <2>3
<1>8. Shape(t)
  BY <1>2, <1>5, <1>6, <1>7 DEF Shape
<1> QED
  BY <1>8 DEF t

LEMMA CoroutinesOf ==
  ASSUME NEW s \in Seq(Entries)
  PROVE  \A e \in Range(s) : e.of \in Coroutines
<1>1. DOMAIN s = 1 .. Len(s) /\ \A i \in 1 .. Len(s) : s[i] \in Entries
  OBVIOUS
<1>2. \A e \in Range(s) : e \in Entries
  BY <1>1 DEF Range
<1> QED
  BY <1>2 DEF Entries

\* The coroutines in calls below the innermost are running; what the others
\* do the innermost call tells.
Fits(name, state) ==
  \/ name = "resume" /\ state \in {"running", "final"}
  \/ name = "execute" /\ state \in {"initial", "final"}
  \/ name \in {"executing", "suspended"} /\ state = "final"
  \/ name = "await_suspend" /\ state = "awaiting"

Nested ==
  /\ Shape(stack)
  /\ \A e \in Range(stack) : e.of # TopOf => frame[e.of] = "running"
  /\ stack # <<>> => Fits(Last(stack).name, frame[TopOf])
  /\ \A c \in Coroutines : frame[c] = "awaiting" => Top("await_suspend") /\ TopOf = c
  /\ \A c \in Coroutines : frame[c] = "running" => Call("resume", c) \in Range(stack)

\* What is known of the failures of a coroutine that execute() runs, or ran.
Told ==
  /\ \A c \in eptr : c \in Coroutines /\ frame[c] \in {"final", "destroyed"}
  /\ \A c \in DOMAIN told :
       /\ c \in Coroutines /\ frame[c] # "none"
       /\ frame[c] = "initial" => Top("execute") /\ TopOf = c
       /\ frame[c] \in {"running", "awaiting"} => Call("executing", c) \in Range(stack)
       /\ told[c] = IF c \in eptr /\ Call("executing", c) \notin Range(stack) THEN 1 ELSE 0

StackInv == FramesTyped /\ Nested /\ Told

LEMMA TopEntry ==
  ASSUME Nested, stack # <<>>
  PROVE  /\ Last(stack) \in Entries /\ Last(stack) \in Range(stack)
         /\ TopOf \in Coroutines /\ Last(stack) = Call(Last(stack).name, TopOf)
<1>1. stack \in Seq(Entries)
  BY DEF Nested, Shape
<1>2. Last(stack) \in Entries /\ Last(stack) \in Range(stack)
  BY <1>1, FrontFacts
<1> QED
  BY <1>2 DEF Entries, TopOf, Call

\* When the user's code runs, all the coroutines on the stack are running.
LEMMA UserState ==
  ASSUME Nested, UserRuns
  PROVE  /\ \A e \in Range(stack) : frame[e.of] = "running"
         /\ stack # <<>> => Last(stack).name = "resume"
         /\ \A c \in Coroutines : frame[c] # "awaiting"
         /\ ~Top("execute")
<1>1. CASE stack = <<>>
  BY <1>1 DEF Nested, Range, Top
<1>2. CASE Running
  BY <1>2 DEF Nested, Running, Top
<1> QED
  BY <1>1, <1>2 DEF UserRuns

LEMMA StackKept ==
  ASSUME StackInv, UserRuns, UNCHANGED <<stack, eptr, told>>, FramesTyped',
         \A c \in Coroutines :
           \/ frame'[c] = frame[c]
           \/ frame[c] = "none" /\ frame'[c] = "initial"
           \/ frame[c] \notin {"none", "running"} /\ frame'[c] = "destroyed"
  PROVE  StackInv'
<1>1. /\ \A e \in Range(stack) : frame[e.of] = "running"
      /\ stack # <<>> => Last(stack).name = "resume"
      /\ \A c \in Coroutines : frame[c] # "awaiting"
      /\ ~Top("execute")
  BY UserState DEF StackInv
<1>2. stack \in Seq(Entries)
  BY DEF StackInv, Nested, Shape
<1>3. \A e \in Range(stack) : e.of \in Coroutines
  BY <1>2, CoroutinesOf
<1>4. \A e \in Range(stack) : frame'[e.of] = "running"
  BY <1>1, <1>3
<1>5. stack # <<>> => Last(stack) \in Range(stack)
  BY <1>2, FrontFacts
<1>6. \A c \in Coroutines : frame'[c] # "awaiting"
  BY <1>1
<1>7. \A c \in Coroutines : frame'[c] = "running" => frame[c] = "running"
  OBVIOUS
<1>8. Nested'
  <2>1. Shape(stack)' /\ \A e \in Range(stack') : frame'[e.of] = "running"
    BY <1>4 DEF StackInv, Nested, Shape
  <2>2. stack' # <<>> => Fits(Last(stack').name, frame'[TopOf'])
    BY <1>1, <1>4, <1>5 DEF Fits, TopOf
  <2>3. \A c \in Coroutines : frame'[c] = "running" => Call("resume", c) \in Range(stack')
    BY <1>7 DEF StackInv, Nested
  <2> QED
    BY <1>6, <2>1, <2>2, <2>3 DEF Nested
<1>9. Told'
  <2>1. \A c \in eptr' : c \in Coroutines /\ frame'[c] \in {"final", "destroyed"}
    BY DEF StackInv, Told
  <2>2. ASSUME NEW c \in DOMAIN told
        PROVE  /\ c \in Coroutines /\ frame'[c] \notin {"none", "initial", "awaiting"}
               /\ frame'[c] = "running" => Call("executing", c) \in Range(stack)
               /\ told[c] = IF c \in eptr /\ Call("executing", c) \notin Range(stack) THEN 1 ELSE 0
    BY <1>1, <1>6 DEF StackInv, Told
  <2> QED
    BY <2>1, <2>2 DEF Told
<1> QED
  BY <1>8, <1>9 DEF StackInv

\* A call of a coroutine at its end returns.
LEMMA NestedPop ==
  ASSUME FramesTyped, Nested, stack # <<>>, frame[TopOf] = "final",
         stack' = Front(stack), UNCHANGED frame
  PROVE  Nested'
<1> DEFINE c == TopOf
<1> DEFINE r == Front(stack)
<1>1. /\ Shape(r)
      /\ r # <<>> => /\ Last(r).name \in Outer
                     /\ Last(r).of # c => /\ Last(r).name = "resume"
                                          /\ \A e \in Range(r) : e.of # c
  BY ShapePop DEF Nested, TopOf
<1>2. stack \in Seq(Entries)
  BY DEF Nested, Shape
<1>3. Range(stack) = Range(r) \cup {Last(stack)}
  BY <1>2, FrontFacts
<1>4. r # <<>> => Last(r) \in Range(r) /\ Last(r) \in Entries
  BY <1>1, FrontFacts DEF Shape
<1>5. Last(stack).of = c /\ c \in Coroutines
  BY TopEntry DEF TopOf
<1> HIDE DEF r, c
<1>6. \A e \in Range(r) : e.of # c => frame[e.of] = "running"
  BY <1>3 DEF Nested, c
<1>7. frame[c] = "final"
  BY DEF c
<1>8. \A e \in Range(r) : e.of # Last(r).of => frame[e.of] = "running"
  <2>1. ASSUME NEW e \in Range(r), e.of # Last(r).of PROVE e.of # c
    <3>1. r # <<>>
      BY <2>1 DEF Range
    <3> QED
      BY <1>1, <2>1, <3>1
  <2> QED
    BY <1>6, <2>1
<1>9. r # <<>> => Fits(Last(r).name, frame[Last(r).of])
  <2>1. ASSUME r # <<>>, Last(r).of = c PROVE Fits(Last(r).name, frame[Last(r).of])
    BY <1>1, <1>7, <2>1 DEF Fits, Outer
  <2>2. ASSUME r # <<>>, Last(r).of # c PROVE Fits(Last(r).name, frame[Last(r).of])
    BY <1>1, <1>4, <1>6, <2>2 DEF Fits
  <2> QED
    BY <2>1, <2>2
<1>10. \A d \in Coroutines : frame[d] # "awaiting"
  BY <1>7 DEF Nested, c
<1>11. ASSUME NEW d \in Coroutines, frame[d] = "running" PROVE Call("resume", d) \in Range(r)
  <2>1. Call("resume", d) \in Range(stack)
    BY <1>11 DEF Nested
  <2>2. Call("resume", d) # Last(stack)
    BY <1>5, <1>7, <1>11 DEF Call
  <2> QED
    BY <1>3, <2>1, <2>2
<1>12. stack' = r /\ frame' = frame
  BY DEF r
<1> QED
  BY <1>1, <1>8, <1>9, <1>10, <1>11, <1>12 DEF Nested, TopOf

\* Coroutine c is resumed on top of the calls given.
LEMMA NestedResume ==
  ASSUME FramesTyped, NEW calls, NEW c \in Coroutines, Shape(calls),
         calls # <<>> => /\ Last(calls).name \in Outer
                         /\ Last(calls).of # c => /\ Last(calls).name = "resume"
                                                  /\ \A x \in Range(calls) : x.of # c,
         \A x \in Range(calls) : x.of # c => frame[x.of] = "running",
         \A d \in Coroutines : /\ frame[d] = "running" => Call("resume", d) \in Range(calls)
                               /\ frame[d] = "awaiting" => d = c,
         stack' = Append(calls, Call("resume", c)),
         frame' = [frame EXCEPT ![c] = "running"]
  PROVE  FramesTyped' /\ Nested'
<1> DEFINE e == Call("resume", c)
<1>1. e \in Entries /\ e.name = "resume" /\ e.of = c
  BY DEF Entries, Call
<1>2. calls \in Seq(Entries)
  BY DEF Shape
<1> HIDE DEF e
<1>3. stack' = Append(calls, e)
  BY DEF e
<1>4. Shape(stack')
  BY <1>1, <1>3, ShapePush DEF Starts
<1>5. stack' # <<>> /\ Last(stack') = e /\ Range(stack') = Range(calls) \cup {e}
  BY <1>1, <1>2, <1>3, AppendFacts
<1>6. /\ FramesTyped' /\ frame'[c] = "running"
      /\ \A d \in Coroutines : d # c => frame'[d] = frame[d]
  BY DEF FramesTyped, States
<1>7. \A x \in Range(calls) : x.of \in Coroutines
  BY <1>2, CoroutinesOf
<1>8. \A x \in Range(stack') : frame'[x.of] = "running"
  BY <1>1, <1>5, <1>6, <1>7
<1>9. \A d \in Coroutines : /\ frame'[d] # "awaiting"
                            /\ frame'[d] = "running" => Call("resume", d) \in Range(stack')
  BY <1>5, <1>6 DEF e
<1>10. Fits(Last(stack').name, frame'[TopOf'])
  BY <1>1, <1>5, <1>6 DEF Fits, TopOf
<1> QED
  BY <1>4, <1>6, <1>8, <1>9, <1>10 DEF Nested
-----------------------------------------------------------------------------
(***************************************************************************)
(* The steps.                                                              *)
(***************************************************************************)
LEMMA NothingChanges ==
  ASSUME StackInv, UNCHANGED <<stack, frame, eptr, told>>
  PROVE  StackInv'
  BY DEF StackInv, FramesTyped, Nested, Told, Top, TopOf

\* What an OwnedCoroutine holds when nothing is wrong with it.
LEMMA HandleOf ==
  ASSUME Frames, NEW o \in Alive, Wrong(o) = "nothing", NEW c \in inner[o]
  PROVE  c \in Coroutines /\ frame[c] \in {"initial", "awaiting", "final"}
<1>1. c \in Values /\ c # null
  BY DEF Frames, Ownership, TypeOK, Wrong
<1>2. c \in Coroutines
  BY <1>1 DEF Coroutines
<1>3. frame[c] \notin {"none", "destroyed"} /\ frame[c] \in States
  BY <1>1, <1>2 DEF Frames, HandlesAreAlive, FramesTyped
<1>4. frame[c] # "running"
  BY DEF Wrong
<1> QED
  BY <1>2, <1>3, <1>4 DEF States

LEMMA WrongIsMisuse == \A o : Wrong(o) \in Misuse \cup {"nothing"}
  BY DEF Wrong, Misuse

LEMMA ResumeStep ==
  ASSUME Frames, StackInv, UndefinedOnlyByMisuse, NEW o \in Alive, resume(o)
  PROVE  StackInv' /\ UndefinedOnlyByMisuse'
<1>1. CASE Wrong(o) # "nothing"
  <2>1. Undefined(Wrong(o))
    BY <1>1 DEF resume
  <2> QED
    BY <1>1, <2>1, WrongIsMisuse, NothingChanges DEF Undefined, UndefinedOnlyByMisuse
<1>2. CASE Wrong(o) = "nothing"
  <2>1. UserRuns
    BY DEF resume
  <2>2. PICK c \in inner[o] : ~Done(c) /\ Resumes(stack, c)
    BY <1>2 DEF resume
  <2>3. /\ \A e \in Range(stack) : frame[e.of] = "running"
        /\ stack # <<>> => Last(stack).name = "resume"
        /\ \A d \in Coroutines : frame[d] # "awaiting"
        /\ ~Top("execute")
    BY <2>1, UserState DEF StackInv
  <2>4. c \in Coroutines /\ frame[c] = "initial"
    BY <1>2, <2>2, <2>3, HandleOf DEF Done
  <2>5. /\ stack' = Append(stack, Call("resume", c))
        /\ frame' = [frame EXCEPT ![c] = "running"]
        /\ UNCHANGED <<eptr, told, undefined>>
    BY <2>2, <2>4 DEF Resumes, Resumable, Calls
  <2>6. Shape(stack) /\ stack \in Seq(Entries)
    BY DEF StackInv, Nested, Shape
  <2>7. \A x \in Range(stack) : x.of # c
    BY <2>3, <2>4
  <2>8. \A d \in Coroutines : frame[d] = "running" => Call("resume", d) \in Range(stack)
    BY DEF StackInv, Nested
  <2>9. FramesTyped
    BY DEF StackInv
  <2>10. stack # <<>> => Last(stack).name \in Outer
    BY <2>3 DEF Outer
  <2>11. FramesTyped' /\ Nested'
    BY <2>3, <2>4, <2>5, <2>6, <2>7, <2>8, <2>9, <2>10, NestedResume
  <2>12. Range(stack') = Range(stack) \cup {Call("resume", c)}
    <3>1. Call("resume", c) \in Entries
      BY <2>4 DEF Entries, Call
    <3> QED
      BY <2>5, <2>6, <3>1, AppendFacts
  <2>13. \A d : Call("executing", d) \in Range(stack') <=> Call("executing", d) \in Range(stack)
    BY <2>12 DEF Call
  <2>14. Told
    BY DEF StackInv
  <2>15. c \notin DOMAIN told /\ c \notin eptr
    BY <2>3, <2>4, <2>14 DEF Told
  <2>16. \A d \in Coroutines : d # c => frame'[d] = frame[d]
    BY <2>5, <2>9 DEF FramesTyped
  <2>17. Told'
    BY <2>3, <2>5, <2>13, <2>14, <2>15, <2>16 DEF Told
  <2> QED
    BY <2>5, <2>11, <2>17 DEF StackInv, UndefinedOnlyByMisuse
<1> QED
  BY <1>1, <1>2

LEMMA ExecuteStep ==
  ASSUME Frames, StackInv, UndefinedOnlyByMisuse, NEW o \in Alive, execute(o)
  PROVE  StackInv' /\ UndefinedOnlyByMisuse'
<1>1. CASE Wrong(o) # "nothing"
  <2>1. Undefined(Wrong(o))
    BY <1>1 DEF execute
  <2> QED
    BY <1>1, <2>1, WrongIsMisuse, NothingChanges DEF Undefined, UndefinedOnlyByMisuse
<1>2. CASE Wrong(o) = "nothing"
  <2>1. UserRuns
    BY DEF execute
  <2>2. PICK c \in inner[o] : /\ Calls(Append(stack, Call("execute", c)))
                              /\ told' = IF Resumable(c) THEN Executes(c) ELSE told
                              /\ UNCHANGED frame
    BY <1>2 DEF execute
  <2>3. /\ \A e \in Range(stack) : frame[e.of] = "running"
        /\ stack # <<>> => Last(stack).name = "resume"
        /\ \A d \in Coroutines : frame[d] # "awaiting"
        /\ ~Top("execute")
    BY <2>1, UserState DEF StackInv
  <2>4. c \in Coroutines /\ frame[c] \in {"initial", "final"}
    BY <1>2, <2>3, HandleOf
  <2> DEFINE e == Call("execute", c)
  <2>5. e \in Entries /\ e.name = "execute" /\ e.of = c
    BY <2>4 DEF Entries, Call
  <2>6. stack' = Append(stack, e) /\ UNCHANGED <<eptr, undefined, frame>>
    BY <2>2 DEF Calls
  <2>7. Shape(stack) /\ stack \in Seq(Entries)
    BY DEF StackInv, Nested, Shape
  <2>8. \A d : Call("resume", d) # e /\ Call("executing", d) # e
    BY DEF Call
  <2> HIDE DEF e
  <2>9. \A x \in Range(stack) : x.of # c
    BY <2>3, <2>4
  <2>10. Shape(stack')
    <3>1. stack # <<>> => Last(stack).name \in Outer /\ Last(stack).name = "resume"
      BY <2>3 DEF Outer
    <3> QED
      BY <2>5, <2>6, <2>7, <2>9, <3>1, ShapePush
  <2>11. stack' # <<>> /\ Last(stack') = e /\ Range(stack') = Range(stack) \cup {e}
    BY <2>5, <2>6, <2>7, AppendFacts
  <2>12. Top("execute")' /\ TopOf' = c
    BY <2>5, <2>11 DEF Top, TopOf
  <2>13. Nested'
    <3>1. \A x \in Range(stack') : x.of # TopOf' => frame'[x.of] = "running"
      BY <2>3, <2>5, <2>6, <2>11, <2>12
    <3>2. Fits(Last(stack').name, frame'[TopOf'])
      BY <2>4, <2>5, <2>6, <2>11, <2>12 DEF Fits
    <3>3. \A d \in Coroutines : /\ frame'[d] # "awaiting"
                                /\ frame'[d] = "running" => Call("resume", d) \in Range(stack')
      BY <2>3, <2>6, <2>11 DEF StackInv, Nested
    <3> QED
      BY <2>10, <3>1, <3>2, <3>3 DEF Nested
  <2>14. \A d : Call("executing", d) \in Range(stack') <=> Call("executing", d) \in Range(stack)
    BY <2>8, <2>11
  <2>15. Call("executing", c) \notin Range(stack)
    BY <2>9 DEF Call
  <2>16. /\ DOMAIN told' \subseteq DOMAIN told \cup {c}
         /\ \A d \in DOMAIN told : told'[d] = told[d]
         /\ frame[c] = "initial" => c \in DOMAIN told'
         /\ c \in DOMAIN told' /\ c \notin DOMAIN told => told'[c] = 0 /\ frame[c] = "initial"
    <3>1. CASE Resumable(c)
      <4>1. told' = Executes(c) /\ frame[c] = "initial"
        BY <2>2, <2>4, <3>1 DEF Resumable
      <4> QED
        BY <4>1 DEF Executes
    <3>2. CASE ~Resumable(c)
      BY <2>2, <3>2 DEF Resumable
    <3> QED
      BY <3>1, <3>2
  <2>17. Told
    BY DEF StackInv
  <2>18. frame[c] = "initial" => c \notin eptr
    BY <2>17 DEF Told
  <2>19. Told'
    <3>1. \A d \in eptr' : d \in Coroutines /\ frame'[d] \in {"final", "destroyed"}
      BY <2>6, <2>17 DEF Told
    <3>2. ASSUME NEW d \in DOMAIN told', d \in DOMAIN told
          PROVE  /\ d \in Coroutines /\ frame'[d] \notin {"none", "initial"}
                 /\ frame'[d] \in {"running", "awaiting"} => Call("executing", d) \in Range(stack')
                 /\ told'[d] = IF d \in eptr' /\ Call("executing", d) \notin Range(stack') THEN 1 ELSE 0
      BY <2>3, <2>6, <2>14, <2>16, <2>17, <3>2 DEF Told
    <3>3. ASSUME NEW d \in DOMAIN told', d \notin DOMAIN told
          PROVE  d = c /\ frame'[d] = "initial" /\ told'[d] = 0 /\ d \notin eptr'
      BY <2>6, <2>16, <2>18, <3>3
    <3> QED
      BY <2>4, <2>12, <3>1, <3>2, <3>3 DEF Told
  <2> QED
    BY <2>6, <2>13, <2>19 DEF StackInv, FramesTyped, UndefinedOnlyByMisuse
<1> QED
  BY <1>1, <1>2

\* What is known when a call of the library is on top, and what is under it.
LEMMA CallOnTop ==
  ASSUME StackInv, stack # <<>>
  PROVE  /\ TopOf \in Coroutines /\ Fits(Last(stack).name, frame[TopOf])
         /\ Shape(Front(stack)) /\ Front(stack) \in Seq(Entries)
         /\ Range(stack) = Range(Front(stack)) \cup {Call(Last(stack).name, TopOf)}
         /\ Last(stack).name \in Starts => \A x \in Range(Front(stack)) : x.of # TopOf
         /\ \A x \in Range(Front(stack)) : x.of # TopOf => frame[x.of] = "running"
         /\ Front(stack) # <<>> => /\ Last(Front(stack)).name \in Outer
                                   /\ Last(Front(stack)).of # TopOf =>
                                        /\ Last(Front(stack)).name = "resume"
                                        /\ \A x \in Range(Front(stack)) : x.of # TopOf
<1>1. Nested /\ Shape(stack) /\ stack \in Seq(Entries)
  BY DEF StackInv, Nested, Shape
<1>2. Range(stack) = Range(Front(stack)) \cup {Last(stack)}
  BY <1>1, FrontFacts
<1>3. TopOf \in Coroutines /\ Last(stack) = Call(Last(stack).name, TopOf) /\ Last(stack).of = TopOf
  BY <1>1, TopEntry DEF TopOf
<1>4. \A x \in Range(Front(stack)) : x.of # TopOf => frame[x.of] = "running"
  BY <1>1, <1>2 DEF Nested
<1>5. Fits(Last(stack).name, frame[TopOf])
  BY <1>1 DEF Nested
<1>6. Shape(Front(stack)) /\ Front(stack) \in Seq(Entries)
  BY <1>1, ShapePop DEF Shape
<1> QED
  BY <1>1, <1>2, <1>3, <1>4, <1>5, <1>6, ShapePop

\* The innermost call, of a coroutine at its end, returns without a failure.
LEMMA Returns ==
  ASSUME StackInv, stack # <<>>, frame[TopOf] = "final", Last(stack).name # "executing",
         stack' = Front(stack), UNCHANGED <<frame, eptr, told>>
  PROVE  StackInv'
<1>1. Nested'
  BY NestedPop DEF StackInv
<1>2. \A d : Call("executing", d) \in Range(stack') <=> Call("executing", d) \in Range(stack)
  BY CallOnTop DEF Call
<1>3. \A d \in DOMAIN told : frame[d] # "initial"
  BY DEF StackInv, Told
<1>4. Told'
  BY <1>2, <1>3 DEF StackInv, Told
<1> QED
  BY <1>1, <1>4 DEF StackInv, FramesTyped

LEMMA ExecuteLoopStep ==
  ASSUME StackInv, UndefinedOnlyByMisuse, ExecuteLoop
  PROVE  StackInv' /\ UndefinedOnlyByMisuse'
<1> DEFINE c == TopOf
<1> DEFINE s == Front(stack)
<1>1. stack # <<>> /\ Last(stack).name = "execute"
  BY DEF ExecuteLoop, Top
<1>2. /\ c \in Coroutines /\ frame[c] \in {"initial", "final"}
      /\ Shape(s) /\ s \in Seq(Entries) /\ Range(stack) = Range(s) \cup {Call("execute", c)}
      /\ \A x \in Range(s) : x.of # c
      /\ \A x \in Range(s) : x.of # c => frame[x.of] = "running"
      /\ s # <<>> => /\ Last(s).name \in Outer
                     /\ Last(s).of # c => Last(s).name = "resume"
  BY <1>1, CallOnTop DEF Fits, Starts
<1>3. CASE Done(c)
  <2>1. Calls(s) /\ UNCHANGED <<frame, told>>
    BY <1>3 DEF ExecuteLoop
  <2> QED
    BY <1>1, <1>3, <2>1, Returns DEF Calls, Done, UndefinedOnlyByMisuse
<1>4. CASE ~Done(c)
  <2> DEFINE e == Call("executing", c)
  <2> DEFINE calls == Append(s, e)
  <2>1. frame[c] = "initial"
    BY <1>2, <1>4 DEF Done
  <2>2. Resumes(calls, c)
    BY <1>4 DEF ExecuteLoop
  <2>3. /\ stack' = Append(calls, Call("resume", c))
        /\ frame' = [frame EXCEPT ![c] = "running"]
        /\ UNCHANGED <<eptr, told, undefined>>
    BY <2>1, <2>2 DEF Resumes, Resumable, Calls
  <2>4. e \in Entries /\ e.name = "executing" /\ e.of = c
    BY <1>2 DEF Entries, Call
  <2>5. Call("resume", c) \in Entries
    BY <1>2 DEF Entries, Call
  <2> HIDE DEF c, s, e
  <2>6. Shape(calls) /\ calls \in Seq(Entries)
    BY <1>2, <2>4, ShapePush, AppendFacts
  <2>7. Last(calls) = e /\ Range(calls) = Range(s) \cup {e}
    BY <1>2, <2>4, AppendFacts
  <2> HIDE DEF calls
  <2>8. ASSUME NEW d \in Coroutines
        PROVE  /\ frame[d] = "running" => Call("resume", d) \in Range(calls)
               /\ frame[d] # "awaiting"
    <3>1. frame[d] # "awaiting"
      BY <1>1 DEF StackInv, Nested, Top
    <3>2. ASSUME frame[d] = "running" PROVE Call("resume", d) \in Range(calls)
      <4>1. Call("resume", d) \in Range(stack)
        BY <3>2 DEF StackInv, Nested
      <4> QED
        BY <1>2, <2>7, <4>1 DEF Call
    <3> QED
      BY <3>1, <3>2
  <2>9. FramesTyped' /\ Nested'
    <3>1. FramesTyped
      BY DEF StackInv
    <3>2. \A x \in Range(calls) : x.of # c => frame[x.of] = "running"
      BY <1>2, <2>4, <2>7
    <3>3. Last(calls).name \in Outer /\ Last(calls).of = c
      BY <2>4, <2>7 DEF Outer
    <3> QED
      BY <1>2, <2>3, <2>6, <2>8, <3>1, <3>2, <3>3, NestedResume
  <2>10. Range(stack') = Range(s) \cup {e, Call("resume", c)}
    BY <2>3, <2>5, <2>6, <2>7, AppendFacts
  <2>11. ASSUME NEW d, d # c
         PROVE  Call("executing", d) \in Range(stack') <=> Call("executing", d) \in Range(stack)
    BY <1>2, <2>10, <2>11 DEF Call, e
  <2>12. Told
    BY DEF StackInv
  <2>13. c \notin eptr
    BY <2>1, <2>12 DEF Told
  <2>14. frame'[c] = "running" /\ \A d \in Coroutines : d # c => frame'[d] = frame[d]
    BY <1>2, <2>3 DEF StackInv, FramesTyped
  <2>15. \A d \in DOMAIN told : d # c => frame[d] # "initial"
    BY <2>12 DEF Told, c
  <2>16. Told'
    <3>1. \A d \in eptr' : d \in Coroutines /\ frame'[d] \in {"final", "destroyed"}
      BY <2>3, <2>12, <2>13, <2>14 DEF Told
    <3>2. ASSUME NEW d \in DOMAIN told, d # c
          PROVE  /\ d \in Coroutines /\ frame'[d] \notin {"none", "initial"}
                 /\ frame'[d] \in {"running", "awaiting"} => Call("executing", d) \in Range(stack')
                 /\ told[d] = IF d \in eptr /\ Call("executing", d) \notin Range(stack') THEN 1 ELSE 0
      BY <2>11, <2>12, <2>14, <2>15, <3>2 DEF Told
    <3>3. c \in DOMAIN told => told[c] = 0
      BY <2>12, <2>13 DEF Told
    <3>4. Call("executing", c) \in Range(stack')
      BY <2>10 DEF e
    <3> QED
      BY <1>2, <2>3, <2>13, <2>14, <3>1, <3>2, <3>3, <3>4 DEF Told
  <2> QED
    BY <2>3, <2>9, <2>16 DEF StackInv, UndefinedOnlyByMisuse
<1> QED
  BY <1>3, <1>4

LEMMA ExecuteResumedStep ==
  ASSUME StackInv, ExecuteResumed
  PROVE  StackInv'
<1> DEFINE c == TopOf
<1> DEFINE s == Front(stack)
<1>1. stack # <<>> /\ Last(stack).name = "executing"
  BY DEF ExecuteResumed, Top
<1>2. /\ c \in Coroutines /\ frame[c] = "final"
      /\ Shape(s) /\ s \in Seq(Entries) /\ Range(stack) = Range(s) \cup {Call("executing", c)}
      /\ \A x \in Range(s) : x.of # c
      /\ \A x \in Range(s) : x.of # c => frame[x.of] = "running"
      /\ s # <<>> => /\ Last(s).name \in Outer
                     /\ Last(s).of # c => Last(s).name = "resume"
  BY <1>1, CallOnTop DEF Fits, Starts
<1>3. UNCHANGED <<frame, eptr>>
  BY DEF ExecuteResumed, Calls
<1>4. Told
  BY DEF StackInv
<1>5. /\ \A d \in DOMAIN told : frame[d] # "initial"
      /\ \A d \in Coroutines : frame[d] # "awaiting"
  BY <1>1, <1>4 DEF Told, Top, StackInv, Nested
<1>6. ASSUME NEW d, d # c
      PROVE  Call("executing", d) \in Range(s) <=> Call("executing", d) \in Range(stack)
  BY <1>2, <1>6 DEF Call
<1>7. Call("executing", c) \notin Range(s)
  BY <1>2 DEF Call
<1>8. CASE Rethrows(c)
  <2>1. stack' = s /\ told' = [told EXCEPT ![c] = @ + 1] /\ c \in eptr
    BY <1>8 DEF ExecuteResumed, Calls, Rethrows
  <2>2. Nested'
    BY <1>1, <1>2, <1>3, <2>1, NestedPop DEF StackInv
  <2>3. Told'
    <3>1. \A d \in eptr' : d \in Coroutines /\ frame'[d] \in {"final", "destroyed"}
      BY <1>3, <1>4 DEF Told
    <3>2. ASSUME NEW d \in DOMAIN told
          PROVE  /\ d \in Coroutines /\ frame'[d] \notin {"none", "initial", "awaiting"}
                 /\ frame'[d] = "running" => Call("executing", d) \in Range(stack')
                 /\ told'[d] = IF d \in eptr' /\ Call("executing", d) \notin Range(stack') THEN 1 ELSE 0
      <4>1. CASE d = c
        <5>1. told[c] = 0
          BY <1>2, <1>4, <4>1 DEF Told
        <5> QED
          BY <1>2, <1>3, <1>7, <2>1, <4>1, <5>1
      <4>2. CASE d # c
        <5>1. told'[d] = told[d]
          BY <2>1, <4>2
        <5> QED
          BY <1>3, <1>4, <1>5, <1>6, <2>1, <4>2, <5>1 DEF Told
      <4> QED
        BY <4>1, <4>2
    <3>3. DOMAIN told' = DOMAIN told
      BY <2>1
    <3> QED
      BY <3>1, <3>2, <3>3 DEF Told
  <2> QED
    BY <1>3, <2>2, <2>3 DEF StackInv, FramesTyped
<1>9. CASE ~Rethrows(c)
  <2> DEFINE e == Call("execute", c)
  <2>1. stack' = Append(s, e) /\ told' = told /\ c \notin eptr
    BY <1>9 DEF ExecuteResumed, Calls, Rethrows
  <2>2. e \in Entries /\ e.name = "execute" /\ e.of = c
    BY <1>2 DEF Entries, Call
  <2>3. \A d : Call("resume", d) # e /\ Call("executing", d) # e
    BY DEF Call
  <2>4. \A d : Call("resume", d) # Call("executing", c)
    BY DEF Call
  <2> HIDE DEF c, s, e
  <2>5. Shape(stack')
    BY <1>2, <2>1, <2>2, ShapePush
  <2>6. stack' # <<>> /\ Last(stack') = e /\ Range(stack') = Range(s) \cup {e}
    BY <1>2, <2>1, <2>2, AppendFacts
  <2>7. Nested'
    <3>1. \A x \in Range(stack') : x.of # TopOf' => frame'[x.of] = "running"
      BY <1>2, <1>3, <2>2, <2>6 DEF TopOf
    <3>2. Fits(Last(stack').name, frame'[TopOf'])
      BY <1>2, <1>3, <2>2, <2>6 DEF Fits, TopOf
    <3>3. \A d \in Coroutines : /\ frame'[d] # "awaiting"
                                /\ frame'[d] = "running" => Call("resume", d) \in Range(stack')
      BY <1>2, <1>3, <1>5, <2>4, <2>6 DEF StackInv, Nested
    <3> QED
      BY <2>5, <3>1, <3>2, <3>3 DEF Nested
  <2>8. Told'
    <3>1. \A d : Call("executing", d) \in Range(stack') <=> Call("executing", d) \in Range(s)
      BY <2>3, <2>6
    <3>2. ASSUME NEW d \in DOMAIN told
          PROVE  /\ d \in Coroutines /\ frame'[d] \notin {"none", "initial", "awaiting"}
                 /\ frame'[d] = "running" => Call("executing", d) \in Range(stack')
                 /\ told[d] = IF d \in eptr /\ Call("executing", d) \notin Range(stack') THEN 1 ELSE 0
      BY <1>2, <1>3, <1>4, <1>5, <1>6, <2>1, <3>1 DEF Told
    <3> QED
      BY <1>3, <1>4, <2>1, <3>2 DEF Told
  <2> QED
    BY <1>3, <2>7, <2>8 DEF StackInv, FramesTyped
<1> QED
  BY <1>8, <1>9

LEMMA UnwindStep ==
  ASSUME StackInv, Unwind
  PROVE  StackInv'
<1>1. stack # <<>> /\ stack' = Front(stack) /\ UNCHANGED <<frame, eptr, told>>
  BY DEF Unwind, Top, Calls
<1>2. frame[TopOf] = "final" /\ Last(stack).name # "executing"
  BY <1>1, CallOnTop DEF Unwind, Top, Fits
<1> QED
  BY <1>1, <1>2, Returns

LEMMA AwaitStep ==
  ASSUME StackInv, Await
  PROVE  StackInv'
<1> DEFINE c == TopOf
<1> DEFINE e == Call("await_suspend", c)
<1>1. UserRuns /\ stack # <<>> /\ frame[c] = "running"
  BY DEF Await, UserRuns, Running, Top
<1>2. stack' = Append(stack, e) /\ frame' = [frame EXCEPT ![c] = "awaiting"] /\ UNCHANGED <<eptr, told>>
  BY DEF Await
<1>3. /\ \A x \in Range(stack) : frame[x.of] = "running"
      /\ Last(stack).name = "resume"
      /\ \A d \in Coroutines : frame[d] # "awaiting"
      /\ ~Top("execute")
  BY <1>1, UserState DEF StackInv
<1>4. c \in Coroutines /\ Last(stack).of = c
  BY <1>1, TopEntry DEF StackInv, TopOf
<1>5. e \in Entries /\ e.name = "await_suspend" /\ e.of = c
  BY <1>4 DEF Entries, Call
<1>6. \A d : Call("resume", d) # e /\ Call("executing", d) # e
  BY DEF Call
<1>7. Shape(stack) /\ stack \in Seq(Entries)
  BY DEF StackInv, Nested, Shape
<1> HIDE DEF c, e
<1>8. Shape(stack')
  BY <1>2, <1>3, <1>4, <1>5, <1>7, ShapePush DEF Outer, Starts
<1>9. stack' # <<>> /\ Last(stack') = e /\ Range(stack') = Range(stack) \cup {e}
  BY <1>2, <1>5, <1>7, AppendFacts
<1>10. /\ FramesTyped' /\ frame'[c] = "awaiting"
       /\ \A d \in Coroutines : d # c => frame'[d] = frame[d]
  BY <1>2, <1>4 DEF StackInv, FramesTyped, States
<1>11. \A x \in Range(stack) : x.of \in Coroutines
  BY <1>7, CoroutinesOf
<1>12. Top("await_suspend")' /\ TopOf' = c
  BY <1>5, <1>9 DEF Top, TopOf
<1>13. Nested'
  <2>1. \A x \in Range(stack') : x.of # TopOf' => frame'[x.of] = "running"
    BY <1>3, <1>5, <1>9, <1>10, <1>11, <1>12
  <2>2. Fits(Last(stack').name, frame'[TopOf'])
    BY <1>5, <1>9, <1>10, <1>12 DEF Fits
  <2>3. \A d \in Coroutines : frame'[d] = "awaiting" => d = c
    BY <1>3, <1>10
  <2>4. \A d \in Coroutines : frame'[d] = "running" => Call("resume", d) \in Range(stack')
    BY <1>9, <1>10 DEF StackInv, Nested
  <2> QED
    BY <1>8, <1>12, <2>1, <2>2, <2>3, <2>4 DEF Nested
<1>14. Told'
  <2>1. \A d : Call("executing", d) \in Range(stack') <=> Call("executing", d) \in Range(stack)
    BY <1>6, <1>9
  <2>2. Told
    BY DEF StackInv
  <2>3. \A d \in eptr' : d \in Coroutines /\ frame'[d] \in {"final", "destroyed"}
    BY <1>1, <1>2, <1>10, <2>2 DEF Told, c
  <2>4. ASSUME NEW d \in DOMAIN told
        PROVE  /\ d \in Coroutines /\ frame'[d] \notin {"none", "initial"}
               /\ frame'[d] \in {"running", "awaiting"} => Call("executing", d) \in Range(stack')
               /\ told[d] = IF d \in eptr /\ Call("executing", d) \notin Range(stack') THEN 1 ELSE 0
    BY <1>1, <1>3, <1>10, <2>1, <2>2 DEF Told, c
  <2> QED
    BY <1>2, <2>3, <2>4 DEF Told
<1> QED
  BY <1>10, <1>13, <1>14 DEF StackInv

LEMMA AwaitSuspendStep ==
  ASSUME StackInv, UndefinedOnlyByMisuse, await_suspend
  PROVE  StackInv' /\ UndefinedOnlyByMisuse'
<1> DEFINE c == TopOf
<1> DEFINE s == Front(stack)
<1> DEFINE e == Call("suspended", c)
<1> DEFINE calls == Append(s, e)
<1>1. stack # <<>> /\ Last(stack).name = "await_suspend"
  BY DEF await_suspend, Top
<1>2. /\ c \in Coroutines /\ frame[c] = "awaiting"
      /\ Shape(s) /\ s \in Seq(Entries) /\ Range(stack) = Range(s) \cup {Call("await_suspend", c)}
      /\ \A x \in Range(s) : x.of # c => frame[x.of] = "running"
      /\ s # <<>> => /\ Last(s).name \in Outer
                     /\ Last(s).of # c => /\ Last(s).name = "resume"
                                          /\ \A x \in Range(s) : x.of # c
  BY <1>1, CallOnTop DEF Fits
<1>3. /\ stack' = Append(calls, Call("resume", c))
      /\ frame' = [frame EXCEPT ![c] = "running"]
      /\ UNCHANGED <<eptr, told, undefined>>
  BY <1>2 DEF await_suspend, Resumes, Resumable, Calls
<1>4. e \in Entries /\ e.name = "suspended" /\ e.of = c /\ Call("resume", c) \in Entries
  BY <1>2 DEF Entries, Call
<1>5. \A d : /\ Call("executing", d) \notin {Call("await_suspend", c), Call("suspended", c), Call("resume", c)}
             /\ Call("resume", d) # Call("await_suspend", c)
  BY DEF Call
<1>6. \A d \in Coroutines : frame[d] = "awaiting" => d = c
  BY DEF StackInv, Nested
<1> HIDE DEF c, s
<1>7. Shape(calls) /\ calls \in Seq(Entries)
  BY <1>2, <1>4, ShapePush, AppendFacts DEF Starts
<1>8. calls # <<>> /\ Last(calls) = e /\ Range(calls) = Range(s) \cup {e}
  BY <1>2, <1>4, AppendFacts
<1> HIDE DEF calls
<1>9. Range(stack') = Range(s) \cup {e, Call("resume", c)}
  BY <1>3, <1>4, <1>7, <1>8, AppendFacts
<1>10. \A d \in Coroutines : frame[d] = "running" => Call("resume", d) \in Range(calls)
  BY <1>2, <1>5, <1>8 DEF StackInv, Nested
<1>11. FramesTyped' /\ Nested'
  <2>1. \A x \in Range(calls) : x.of # c => frame[x.of] = "running"
    BY <1>2, <1>4, <1>8
  <2>2. Last(calls).name \in Outer /\ Last(calls).of = c
    BY <1>4, <1>8 DEF Outer
  <2>3. FramesTyped
    BY DEF StackInv
  <2> QED
    BY <1>2, <1>3, <1>6, <1>7, <1>10, <2>1, <2>2, <2>3, NestedResume
<1>12. \A d : Call("executing", d) \in Range(stack') <=> Call("executing", d) \in Range(stack)
  BY <1>2, <1>5, <1>9 DEF e
<1>13. frame'[c] = "running" /\ \A d \in Coroutines : d # c => frame'[d] = frame[d]
  BY <1>2, <1>3 DEF StackInv, FramesTyped
<1>14. Told'
  <2>1. Told
    BY DEF StackInv
  <2>2. \A d \in DOMAIN told : frame[d] # "initial"
    BY <1>1, <2>1 DEF Told, Top
  <2>3. \A d \in eptr' : d \in Coroutines /\ frame'[d] \in {"final", "destroyed"}
    BY <1>2, <1>3, <1>13, <2>1 DEF Told
  <2>4. ASSUME NEW d \in DOMAIN told
        PROVE  /\ d \in Coroutines /\ frame'[d] \notin {"none", "initial"}
               /\ frame'[d] \in {"running", "awaiting"} => Call("executing", d) \in Range(stack')
               /\ told[d] = IF d \in eptr /\ Call("executing", d) \notin Range(stack') THEN 1 ELSE 0
    BY <1>2, <1>12, <1>13, <2>1, <2>2 DEF Told
  <2> QED
    BY <1>3, <2>3, <2>4 DEF Told
<1> QED
  BY <1>3, <1>11, <1>14 DEF StackInv, UndefinedOnlyByMisuse

LEMMA BodyEndsStep ==
  ASSUME StackInv, BodyEnds
  PROVE  StackInv'
<1> DEFINE c == TopOf
<1>1. UserRuns /\ stack # <<>> /\ frame[c] = "running"
  BY DEF BodyEnds, UserRuns, Running, Top
<1>2. /\ frame' = [frame EXCEPT ![c] = "final"] /\ eptr' \in {eptr, eptr \cup {c}}
      /\ UNCHANGED <<stack, told>>
  BY DEF BodyEnds, final_suspend
<1>3. /\ \A x \in Range(stack) : frame[x.of] = "running"
      /\ Last(stack).name = "resume"
      /\ \A d \in Coroutines : frame[d] # "awaiting"
      /\ ~Top("execute")
  BY <1>1, UserState DEF StackInv
<1>4. c \in Coroutines /\ Last(stack).of = c
  BY <1>1, TopEntry DEF StackInv, TopOf
<1>5. Shape(stack) /\ stack \in Seq(Entries)
  BY DEF StackInv, Nested, Shape
<1>6. TopOf' = c
  BY <1>2 DEF TopOf
<1> HIDE DEF c
<1>7. /\ FramesTyped' /\ frame'[c] = "final"
      /\ \A d \in Coroutines : d # c => frame'[d] = frame[d]
  BY <1>2, <1>4 DEF StackInv, FramesTyped, States
<1>8. \A x \in Range(stack) : x.of \in Coroutines
  BY <1>5, CoroutinesOf
<1>9. Nested'
  <2>1. \A x \in Range(stack') : x.of # TopOf' => frame'[x.of] = "running"
    BY <1>2, <1>3, <1>6, <1>7, <1>8
  <2>2. Fits(Last(stack').name, frame'[TopOf'])
    BY <1>2, <1>3, <1>6, <1>7 DEF Fits
  <2>3. \A d \in Coroutines : /\ frame'[d] # "awaiting"
                              /\ frame'[d] = "running" => Call("resume", d) \in Range(stack')
    BY <1>2, <1>3, <1>7 DEF StackInv, Nested
  <2> QED
    BY <1>2, <1>5, <2>1, <2>2, <2>3 DEF Nested
<1>10. Told'
  <2>1. Told
    BY DEF StackInv
  <2>2. \A d \in eptr' : d \in Coroutines /\ frame'[d] \in {"final", "destroyed"}
    BY <1>2, <1>4, <1>7, <2>1 DEF Told
  <2>3. ASSUME NEW d \in DOMAIN told
        PROVE  /\ d \in Coroutines /\ frame'[d] \notin {"none", "initial"}
               /\ frame'[d] \in {"running", "awaiting"} => Call("executing", d) \in Range(stack')
               /\ told[d] = IF d \in eptr' /\ Call("executing", d) \notin Range(stack') THEN 1 ELSE 0
    <3>1. CASE d = c
      BY <1>1, <1>2, <1>7, <2>1, <3>1 DEF Told, c
    <3>2. CASE d # c
      BY <1>2, <1>3, <1>7, <2>1, <3>2 DEF Told
    <3> QED
      BY <3>1, <3>2
  <2> QED
    BY <1>2, <2>2, <2>3 DEF Told
<1> QED
  BY <1>7, <1>9, <1>10 DEF StackInv

\* The steps of objects.
LEMMA ObjectSteps ==
  ASSUME Frames, FramesTyped', StackInv, UndefinedOnlyByMisuse,
         \/ \E o \in Objects :
              \/ \E c \in Coroutines : create(o, c)
              \/ OwnedCoroutine(o)
              \/ \E other \in Plain : OwnedCoroutine_from(o, other)
         \/ \E o \in owners : o \in Alive /\ destroy_owner(o)
         \/ PlainStep
  PROVE  StackInv' /\ UndefinedOnlyByMisuse'
<1>1. ASSUME NEW o \in Objects, NEW c \in Coroutines, create(o, c)
      PROVE  StackInv' /\ UndefinedOnlyByMisuse'
  <2>1. /\ UserRuns /\ frame[c] = "none" /\ frame' = [frame EXCEPT ![c] = "initial"]
        /\ UNCHANGED <<eptr, stack, undefined, told>>
    BY <1>1 DEF create, initial_suspend
  <2>2. \A d \in Coroutines : frame'[d] = frame[d] \/ (frame[d] = "none" /\ frame'[d] = "initial")
    BY <2>1 DEF StackInv, FramesTyped
  <2> QED
    BY <2>1, <2>2, StackKept DEF UndefinedOnlyByMisuse
<1>2. ASSUME UNCHANGED frames PROVE StackInv' /\ UndefinedOnlyByMisuse'
  BY <1>2, NothingChanges DEF frames, UndefinedOnlyByMisuse
<1>3. ASSUME NEW o \in owners, o \in Alive, destroy_owner(o)
      PROVE  StackInv' /\ UndefinedOnlyByMisuse'
  <2>1. CASE \E why \in Misuse : Undefined(why)
    BY <2>1, NothingChanges DEF Undefined, UndefinedOnlyByMisuse
  <2>2. CASE /\ ~(null \in inner[o]) /\ ~(\E c \in inner[o] : frame[c] = "running")
             /\ frame' = [c \in Coroutines |-> IF c \in inner[o] THEN "destroyed" ELSE frame[c]]
             /\ UNCHANGED <<awaits, eptr, stack, undefined, told>>
    <3>1. \A c \in Coroutines : c \in inner[o] => frame[c] \notin {"none", "running"}
      BY <1>3, <2>2 DEF Frames, HandlesAreAlive
    <3>2. \A c \in Coroutines : \/ frame'[c] = frame[c]
                                \/ frame[c] \notin {"none", "running"} /\ frame'[c] = "destroyed"
      BY <2>2, <3>1
    <3>3. UserRuns
      BY <1>3 DEF destroy_owner
    <3> QED
      BY <2>2, <3>2, <3>3, StackKept DEF UndefinedOnlyByMisuse
  <2>3. "null handle destroyed" \in Misuse /\ "destroyed while it runs" \in Misuse
    BY DEF Misuse
  <2> QED
    BY <1>3, <2>1, <2>2, <2>3 DEF destroy_owner
<1> QED
  BY <1>1, <1>2, <1>3 DEF OwnedCoroutine, OwnedCoroutine_from, PlainStep

\* The objects of owners are there, and awaits are counted to their bound.
OwnersTyped ==
  /\ owners \subseteq Alive
  /\ awaits \in [Coroutines -> 0 .. MaxAwaits]

LEMMA OwnersTypedStep ==
  ASSUME Frames, StackInv, OwnersTyped, [CoroutinesNext]_coroutine_vars
  PROVE  OwnersTyped'
<1>1. ASSUME NEW o, NEW contents, construct(o, contents) PROVE Alive' = Alive \cup {o}
  BY <1>1 DEF construct, With, Alive
<1>2. ASSUME NEW o, NEW other, move_construct(o, other) \/ move_assign(o, other)
      PROVE  Alive \subseteq Alive' /\ o \in Alive'
  BY <1>2 DEF move_construct, move_assign, With, Alive
<1>3. ASSUME NEW o, destroy(o) PROVE Alive' = Alive \ {o}
  BY <1>3 DEF destroy, Alive
<1>4. ASSUME UNCHANGED <<vars, owners, awaits>> PROVE OwnersTyped'
  BY <1>4 DEF OwnersTyped, vars, Alive
<1>5. ASSUME NEW o \in Objects, NEW c \in Coroutines, create(o, c) PROVE OwnersTyped'
  BY <1>1, <1>5 DEF create, OwnersTyped
<1>6. ASSUME NEW o \in Objects, OwnedCoroutine(o) PROVE OwnersTyped'
  BY <1>1, <1>6 DEF OwnedCoroutine, OwnersTyped, frames
<1>7. ASSUME NEW o \in Objects, NEW other \in Plain, OwnedCoroutine_from(o, other)
      PROVE  OwnersTyped'
  BY <1>2, <1>7 DEF OwnedCoroutine_from, OwnersTyped, frames
<1>8. ASSUME PlainStep PROVE OwnersTyped'
  <2>1. UNCHANGED <<owners, awaits>>
    BY <1>8 DEF PlainStep, frames
  <2>2. owners \subseteq Alive'
    BY <1>1, <1>2, <1>3, <1>8 DEF PlainStep, Plain, OwnersTyped
  <2> QED
    BY <2>1, <2>2 DEF OwnersTyped
<1>9. ASSUME NEW o \in owners, destroy_owner(o) PROVE OwnersTyped'
  <2>1. CASE UNCHANGED <<vars, owners, awaits>>
    BY <1>4, <2>1
  <2>2. CASE destroy(o) /\ owners' = owners \ {o} /\ UNCHANGED awaits
    BY <1>3, <2>2 DEF OwnersTyped
  <2> QED
    BY <1>9, <2>1, <2>2 DEF destroy_owner, Undefined
<1>10. ASSUME Await PROVE OwnersTyped'
  <2>1. awaits[TopOf] < MaxAwaits /\ awaits' = [awaits EXCEPT ![TopOf] = @ + 1]
        /\ UNCHANGED <<vars, owners>>
    BY <1>10 DEF Await
  <2>2. TopOf \in Coroutines
    BY <1>10, TopEntry DEF Await, Running, Top, StackInv
  <2>3. awaits' \in [Coroutines -> 0 .. MaxAwaits]
    <3>1. awaits[TopOf] + 1 \in 0 .. MaxAwaits
      BY <2>1, <2>2, CoroutinesAssumption DEF OwnersTyped
    <3> QED
      BY <2>1, <2>2, <3>1 DEF OwnersTyped
  <2> QED
    BY <2>1, <2>3 DEF OwnersTyped, vars, Alive
<1>11. ASSUME \/ \E o \in owners : resume(o) \/ execute(o)
              \/ ExecuteLoop \/ ExecuteResumed \/ await_suspend \/ BodyEnds \/ Unwind
       PROVE  UNCHANGED <<vars, owners, awaits>>
  <2>1. ASSUME NEW calls, NEW c, Resumes(calls, c) PROVE UNCHANGED <<vars, owners, awaits>>
    BY <2>1 DEF Resumes, Calls, Undefined
  <2> QED
    BY <1>11, <2>1
       DEF resume, execute, ExecuteLoop, ExecuteResumed, await_suspend, BodyEnds, Unwind, Calls, Undefined
<1>12. CASE UNCHANGED coroutine_vars
  BY <1>4, <1>12 DEF coroutine_vars
<1> QED
  BY <1>4, <1>5, <1>6, <1>7, <1>8, <1>9, <1>10, <1>11, <1>12, Zenon DEF CoroutinesNext

\* The inductive invariant.
CoroutinesInv ==
  Frames /\ OwnersAreObjects /\ OwnersTyped /\ StackInv /\ UndefinedOnlyByMisuse

LEMMA CoroutinesInvInit == CoroutinesInit => CoroutinesInv
<1> SUFFICES ASSUME CoroutinesInit PROVE CoroutinesInv
  OBVIOUS
<1>1. Frames /\ OwnersAreObjects
  BY FramesInit
<1>2. stack = <<>> /\ Range(stack) = {} /\ Len(stack) = 0
  BY DEF CoroutinesInit, Range
<1>3. Shape(stack)
  BY <1>2 DEF Shape
<1>4. FramesTyped /\ Nested
  BY <1>1, <1>2, <1>3 DEF Nested, CoroutinesInit, Frames
<1>5. Told
  BY DEF Told, CoroutinesInit
<1>6. OwnersTyped
  BY CoroutinesAssumption DEF OwnersTyped, CoroutinesInit
<1>7. UndefinedOnlyByMisuse
  BY DEF UndefinedOnlyByMisuse, CoroutinesInit
<1> QED
  BY <1>1, <1>4, <1>5, <1>6, <1>7 DEF CoroutinesInv, StackInv

LEMMA CoroutinesInvStep == CoroutinesInv /\ [CoroutinesNext]_coroutine_vars => CoroutinesInv'
<1> SUFFICES ASSUME CoroutinesInv, [CoroutinesNext]_coroutine_vars PROVE CoroutinesInv'
  OBVIOUS
<1>1. Frames /\ OwnersAreObjects /\ OwnersTyped /\ StackInv /\ UndefinedOnlyByMisuse
  BY DEF CoroutinesInv
<1>2. Frames'
  BY <1>1, FramesKept
<1>3. OwnersAreObjects'
  BY <1>1, StepIsAMove DEF coroutine_vars, OwnersAreObjects
<1>4. OwnersTyped'
  BY <1>1, OwnersTypedStep
<1>5. FramesTyped' /\ \A o \in owners : o \in Alive
  BY <1>1, <1>2 DEF Frames, OwnersTyped
<1>6. StackInv' /\ UndefinedOnlyByMisuse'
  <2>1. ASSUME NEW o \in owners, resume(o) \/ execute(o)
        PROVE  StackInv' /\ UndefinedOnlyByMisuse'
    BY <1>1, <1>5, <2>1, ResumeStep, ExecuteStep
  <2>2. ASSUME ExecuteResumed \/ Await \/ BodyEnds \/ Unwind
        PROVE  StackInv' /\ UndefinedOnlyByMisuse'
    <3>1. undefined' = undefined
      BY <2>2 DEF ExecuteResumed, Await, BodyEnds, Unwind, Calls
    <3> QED
      BY <1>1, <2>2, <3>1, ExecuteResumedStep, AwaitStep, BodyEndsStep, UnwindStep
         DEF UndefinedOnlyByMisuse
  <2>3. ASSUME ExecuteLoop \/ await_suspend
        PROVE  StackInv' /\ UndefinedOnlyByMisuse'
    BY <1>1, <2>3, ExecuteLoopStep, AwaitSuspendStep
  <2>4. ASSUME \/ \E o \in Objects :
                    \/ \E c \in Coroutines : create(o, c)
                    \/ OwnedCoroutine(o)
                    \/ \E other \in Plain : OwnedCoroutine_from(o, other)
               \/ \E o \in owners : destroy_owner(o)
               \/ PlainStep
        PROVE  StackInv' /\ UndefinedOnlyByMisuse'
    BY <1>1, <1>5, <2>4, ObjectSteps
  <2>5. CASE UNCHANGED coroutine_vars
    BY <1>1, <2>5, NothingChanges DEF coroutine_vars, UndefinedOnlyByMisuse
  <2> QED
    BY <2>1, <2>2, <2>3, <2>4, <2>5, Zenon DEF CoroutinesNext
<1> QED
  BY <1>2, <1>3, <1>4, <1>6 DEF CoroutinesInv

LEMMA CoroutinesInvariant == CoroutinesSpec => []CoroutinesInv
  BY CoroutinesInvInit, CoroutinesInvStep, PTL DEF CoroutinesSpec

\* The objects, the frames and the stack stay in their types, and a coroutine
\* that runs is on the stack.
THEOREM CoroutinesTyped == CoroutinesSpec => []CoroutinesTypeOK
<1>1. CoroutinesInv => CoroutinesTypeOK
  BY DEF CoroutinesInv, Frames, Ownership, FramesTyped, States, OwnersTyped,
         StackInv, Nested, Told, CoroutinesTypeOK
<1> QED
  BY <1>1, CoroutinesInvariant, PTL

\* No await gives control back to main() or to another coroutine
\* (io_uring.h:132, epoll_executor.h:212), however coroutines run each other.
THEOREM AwaitsNeverYield == CoroutinesSpec => []AwaitNeverYields
<1>1. CoroutinesInv => AwaitNeverYields
  <2> SUFFICES ASSUME CoroutinesInv, UserRuns PROVE \A c \in Coroutines : frame[c] # "awaiting"
    BY DEF AwaitNeverYields
  <2> QED
    BY UserState DEF CoroutinesInv, StackInv
<1> QED
  BY <1>1, CoroutinesInvariant, PTL

\* Task::execute() throws the exception that ends its coroutine once and only
\* once (io_uring.h:120), for any nesting of calls.
THEOREM FailuresToldOnce == CoroutinesSpec => []FailureToldOnce
<1>1. CoroutinesInv => FailureToldOnce
  BY DEF CoroutinesInv, StackInv, Told, FailureToldOnce
<1> QED
  BY <1>1, CoroutinesInvariant, PTL

\* The library itself never resumes or destroys a coroutine that is running,
\* at its end or gone.
THEOREM OnlyMisuseIsUndefined == CoroutinesSpec => []UndefinedOnlyByMisuse
<1>1. CoroutinesInv => UndefinedOnlyByMisuse
  BY DEF CoroutinesInv
<1> QED
  BY <1>1, CoroutinesInvariant, PTL
=============================================================================
