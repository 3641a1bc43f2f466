----------------------------- MODULE Coroutines -----------------------------
(***************************************************************************)
(* n3::OwnedCoroutine (src/ownership.h), Task with its execute() and the   *)
(* awaitables (src/io_uring.h, src/epoll_executor.h): who destroys the     *)
(* frame of a coroutine, and what runs on the native stack.                *)
(*                                                                         *)
(* An OwnedCoroutine is a MoveOnly of a handle, which is not moved again;  *)
(* users keep handles in a MoveOnly of their own too.  The values of       *)
(* module MoveOnly are the handles; the null handle among them is Shared:  *)
(* any number of OwnedCoroutine() may hold it.                             *)
(***************************************************************************)
EXTENDS MoveOnly, Naturals, Sequences, SequencesExt, Functions

CONSTANTS
  null,
  MaxAwaits       \* bound on the awaits in the body of a coroutine

ASSUME CoroutinesAssumption ==
  /\ null \in Values
  /\ Shared = {null}
  /\ MaxAwaits \in Nat

Coroutines == Values \ {null}

VARIABLES
  owners,       \* the objects that are the member of an OwnedCoroutine
  frame,        \* frame[c]: "none" before the call and "destroyed" in the end;
                \*   suspended at the start, at an await or at the end
                \*   ("initial", "awaiting", "final"), or "running"
  awaits,       \* awaits[c]: the awaits c has come to
  eptr,         \* the coroutines whose promise holds an exception
  stack,        \* the calls of the library in progress, the innermost last
  undefined,    \* why a call was undefined, or "none"
  told          \* history: told[c], how often execute() threw of those it ran

coroutine_vars == <<vars, owners, frame, awaits, eptr, stack, undefined, told>>
frames == <<frame, awaits, eptr, stack, undefined, told>>

CoroutinesInit ==
  /\ Init
  /\ owners = {}
  /\ frame = [c \in Coroutines |-> "none"]
  /\ awaits = [c \in Coroutines |-> 0]
  /\ eptr = {}
  /\ stack = <<>>
  /\ undefined = "none"
  /\ told = [c \in {} |-> 0]

Call(name, c) == [name |-> name, of |-> c]
Top(name) == stack # <<>> /\ Last(stack).name = name
TopOf == Last(stack).of
Running == Top("resume") /\ frame[TopOf] = "running"

\* The thread is in main() or in the body of the innermost coroutine.
UserRuns == undefined = "none" /\ (stack = <<>> \/ Running)

Undefined(why) == undefined' = why /\ UNCHANGED <<vars, owners, frame, awaits, eptr, stack, told>>
-----------------------------------------------------------------------------
(***************************************************************************)
(* Objects.                                                                *)
(***************************************************************************)
Plain == Alive \ owners

\* The promise's initial_suspend() and final_suspend() return suspend_always.
\* With suspend_never the body would run at once, and the frame go with it.
initial_suspend_never == "running"
initial_suspend == "initial"

final_suspend_never == "destroyed"
final_suspend == "final"

\* A call of a coroutine: its handle goes to an OwnedCoroutine, as in
\* get_return_object(), or to a MoveOnly.
create(o, c) ==
  /\ UserRuns
  /\ frame[c] = "none"
  /\ construct(o, {c})
  /\ frame' = [frame EXCEPT ![c] = initial_suspend]
  /\ owners' \in {owners, owners \cup {o}}
  /\ UNCHANGED <<awaits, eptr, stack, undefined, told>>

\* OwnedCoroutine(): coro{nullptr} is a handle, of no coroutine.
OwnedCoroutine(o) ==
  /\ UserRuns
  /\ construct(o, {null})
  /\ owners' = owners \cup {o}
  /\ UNCHANGED frames

\* OwnedCoroutine(args...) from a MoveOnly that is moved.
OwnedCoroutine_from(o, other) ==
  /\ UserRuns
  /\ other \in Plain
  /\ move_construct(o, other)
  /\ owners' = owners \cup {o}
  /\ UNCHANGED frames

\* The operations of the user's own MoveOnly objects.
PlainStep ==
  /\ UserRuns
  /\ \E o \in Objects :
       \/ construct(o, nullopt)
       \/ \E other \in Plain : move_construct(o, other) \/ (o \in Plain /\ move_assign(o, other))
       \/ o \in Plain /\ destroy(o)
  /\ UNCHANGED <<owners, frames>>

\* ~OwnedCoroutine(): has_value() is true of a null handle.  A coroutine must
\* be suspended to be destroyed.
destroy_owner(o) ==
  /\ UserRuns
  /\ o \in owners
  /\ IF null \in inner[o] THEN Undefined("null handle destroyed")
     ELSE IF \E c \in inner[o] : frame[c] = "running" THEN Undefined("destroyed while it runs")
     ELSE /\ destroy(o)
          /\ owners' = owners \ {o}
          /\ frame' = [c \in Coroutines |-> IF c \in inner[o] THEN "destroyed" ELSE frame[c]]
          /\ UNCHANGED <<awaits, eptr, stack, undefined, told>>
-----------------------------------------------------------------------------
(***************************************************************************)
(* Calls.                                                                  *)
(***************************************************************************)
\* What is wrong with done() and resume() of o: they read a handle that is
\* there, of a coroutine that is suspended.
Wrong(o) ==
  IF inner[o] = {} THEN "no handle"
  ELSE IF null \in inner[o] THEN "null handle"
  ELSE IF \E c \in inner[o] : frame[c] = "running" THEN "resumed while it runs"
  ELSE "nothing"

Resumable(c) == frame[c] \in {"initial", "awaiting"}
Done(c) == frame[c] = "final"

Calls(calls) == /\ stack' = calls
                /\ UNCHANGED <<vars, owners, awaits, eptr, undefined>>

\* coroutine_handle::resume(), on top of the calls given.
Resumes(calls, c) ==
  IF Resumable(c)
  THEN /\ Calls(Append(calls, Call("resume", c)))
       /\ frame' = [frame EXCEPT ![c] = "running"]
       /\ UNCHANGED told
  ELSE Undefined("resumed at its end")

\* OwnedCoroutine::resume(), called by its user, who asks done() first.
resume(o) ==
  /\ UserRuns
  /\ o \in owners
  /\ IF Wrong(o) # "nothing" THEN Undefined(Wrong(o))
     ELSE \E c \in inner[o] : ~Done(c) /\ Resumes(stack, c)

\* The history with coroutine c in it, of which execute() has thrown nothing.
Executes(c) ==
  [d \in DOMAIN told \cup {c} |-> IF d \in DOMAIN told THEN told[d] ELSE 0]

\* Task::execute(), as far as its loop.
execute(o) ==
  /\ UserRuns
  /\ o \in owners
  /\ IF Wrong(o) # "nothing" THEN Undefined(Wrong(o))
     ELSE \E c \in inner[o] :
            /\ Calls(Append(stack, Call("execute", c)))
            /\ told' = IF Resumable(c) THEN Executes(c) ELSE told
            /\ UNCHANGED frame

\* The condition of its loop, and coro_handle.resume().
ExecuteLoop_do_while ==
  /\ Top("execute")
  /\ undefined = "none"
  /\ Resumes(Append(Front(stack), Call("executing", TopOf)), TopOf)

ExecuteLoop ==
  /\ Top("execute")
  /\ IF Done(TopOf) THEN Calls(Front(stack)) /\ UNCHANGED <<frame, told>>
     ELSE Resumes(Append(Front(stack), Call("executing", TopOf)), TopOf)

\* After resume(): the exception in the promise is thrown to the caller.
Rethrows_if_unfinished(c) == c \in eptr /\ ~Done(c)
Rethrows(c) == c \in eptr

ExecuteResumed ==
  /\ Top("executing")
  /\ IF Rethrows(TopOf)
     THEN Calls(Front(stack)) /\ told' = [told EXCEPT ![TopOf] = @ + 1]
     ELSE Calls(Append(Front(stack), Call("execute", TopOf))) /\ UNCHANGED told
  /\ UNCHANGED frame

\* co_await of an awaitable that is not ready: the coroutine is suspended and
\* await_suspend() called.
Await ==
  /\ undefined = "none"
  /\ Running
  /\ awaits[TopOf] < MaxAwaits
  /\ awaits' = [awaits EXCEPT ![TopOf] = @ + 1]
  /\ frame' = [frame EXCEPT ![TopOf] = "awaiting"]
  /\ stack' = Append(stack, Call("await_suspend", TopOf))
  /\ UNCHANGED <<vars, owners, eptr, undefined, told>>

\* await_suspend(h): h.resume().
await_suspend_only_returning ==
  /\ Top("await_suspend")
  /\ Calls(Front(stack))
  /\ UNCHANGED <<frame, told>>

await_suspend ==
  /\ Top("await_suspend")
  /\ Resumes(Append(Front(stack), Call("suspended", TopOf)), TopOf)

\* The body ends, by return or by an exception, which unhandled_exception()
\* keeps in the promise.
BodyEnds ==
  /\ undefined = "none"
  /\ Running
  /\ frame' = [frame EXCEPT ![TopOf] = final_suspend]
  /\ eptr' \in {eptr, eptr \cup {TopOf}}
  /\ UNCHANGED <<vars, owners, awaits, stack, undefined, told>>

\* The coroutine does not run: resume() returns, to await_suspend() as well,
\* which returns to the resume() before it.
Unwind ==
  /\ Top("suspended") \/ (Top("resume") /\ frame[TopOf] # "running")
  /\ Calls(Front(stack))
  /\ UNCHANGED <<frame, told>>

CoroutinesNext ==
  \/ \E o \in Objects :
       \/ \E c \in Coroutines : create(o, c)
       \/ OwnedCoroutine(o)
       \/ \E other \in Plain : OwnedCoroutine_from(o, other)
  \/ \E o \in owners : destroy_owner(o) \/ resume(o) \/ execute(o)
  \/ PlainStep
  \/ ExecuteLoop
  \/ ExecuteResumed
  \/ Await
  \/ await_suspend
  \/ BodyEnds
  \/ Unwind

\* The thread keeps running, and the bodies of coroutines end.
CoroutinesSpec ==
  /\ CoroutinesInit /\ [][CoroutinesNext]_coroutine_vars
  /\ WF_coroutine_vars(ExecuteLoop \/ ExecuteResumed \/ await_suspend \/ Unwind)
  /\ SF_coroutine_vars(BodyEnds)
-----------------------------------------------------------------------------
\* The types of the frames, and those that run are on the stack.
CoroutinesTypeOK ==
  /\ TypeOK
  /\ owners \subseteq Alive
  /\ frame \in [Coroutines -> {"none", "initial", "awaiting", "running", "final", "destroyed"}]
  /\ awaits \in [Coroutines -> 0 .. MaxAwaits]
  /\ eptr \subseteq Coroutines
  /\ \A c \in Coroutines : frame[c] = "running" => Call("resume", c) \in Range(stack)

\* No object holds the handle of a frame that is not there, so that nobody
\* destroys a frame twice or resumes one that is destroyed.
HandlesAreAlive ==
  \A o \in Alive : \A c \in inner[o] \ {null} : frame[c] \notin {"none", "destroyed"}

\* An await gives control back to nobody: when main() or the body of another
\* coroutine runs, no coroutine is suspended at an await; its body goes on
\* inside its own await_suspend().
AwaitNeverYields == UserRuns => \A c \in Coroutines : frame[c] # "awaiting"

\* An exception that ends a coroutine run by execute() reaches a caller of
\* execute(), and reaches one only.
FailureToldOnce ==
  \A c \in DOMAIN told :
    Call("executing", c) \notin Range(stack) => told[c] = IF c \in eptr THEN 1 ELSE 0

Misuse ==
  {"no handle", "null handle", "null handle destroyed", "resumed while it runs", "destroyed while it runs"}

\* What is undefined is the use of an OwnedCoroutine without a coroutine, or
\* from inside its own coroutine: execute() resumes none at its end.
UndefinedOnlyByMisuse == undefined \in {"none"} \cup Misuse

\* A call of execute() or resume() returns if bodies end, however often they
\* await, fail, and execute other coroutines.
CallsReturn == stack # <<>> ~> (stack = <<>> \/ undefined \in Misuse)
=============================================================================
