------------------------------ MODULE Sockets ------------------------------
(***************************************************************************)
(* n3::net::linux::socket<T> (src/socket.h), the interface that classes of *)
(* sockets derive from, over the wrappers of module Syscalls.              *)
(*                                                                         *)
(* Each operation asks at compile time whether &T::op is a member function *)
(* and calls T's if so.  A class that does not define op inherits it, so   *)
(* that &T::op is the interface's own.  The operations bind() and          *)
(* connect() do not compile when used, and are left out.                   *)
(***************************************************************************)
EXTENDS Syscalls

CONSTANTS
  Overrides,      \* Overrides[class]: the operations the class defines itself
  StackLimit      \* the calls that fit the thread's stack

Operations == {"listen", "send", "recv", "accept", "setsockopt", "getsockopt"}

ASSUME SocketsAssumption ==
  /\ \A class \in DOMAIN Overrides : Overrides[class] \subseteq Operations
  /\ StackLimit \in Nat

VARIABLE
  call      \* the call of an operation in progress: its class and name, whose
            \*   function runs ("none", "socket", "class"), the calls under it

socket_vars == <<vars, call>>

NoCall == [class |-> "none", op |-> "none", in |-> "none", depth |-> 0]

SocketsInit == Init /\ call = NoCall

\* std::is_member_function_pointer_v<decltype(&T::op)>.
IsMember(class, op) == TRUE

\* static_cast<T const *>(this)->op: the most derived function of that name.
CalledOnT_of_this(class, op) == "socket"
CalledOnT(class, op) == IF op \in Overrides[class] THEN "class" ELSE "socket"

\* A user calls an operation of the interface; send() does not compile
\* unless T defines it.
UserCalls(class, op) ==
  /\ outcome = "running"
  /\ call = NoCall
  /\ op = "send" => op \in Overrides[class]
  /\ call' = [class |-> class, op |-> op, in |-> "socket", depth |-> 1]
  /\ UNCHANGED vars

\* The thread ends with its stack.
Dispatch ==
  /\ call.in = "socket"
  /\ IsMember(call.class, call.op)
  /\ call.depth < StackLimit
  /\ call' = [call EXCEPT !.in = CalledOnT(call.class, call.op), !.depth = @ + 1]
  /\ UNCHANGED vars

\* The wrapper of n3::linux that belongs to an operation.
Wrapper(op, e, n) ==
  \/ op = "listen" /\ listen(e)
  \/ op = "send" /\ send(e, n)
  \/ op = "recv" /\ recv(e, n)
  \/ op = "accept" /\ \E family \in Families : receive_from(family, e, n)
  \/ op = "setsockopt" /\ setsockopt(e)
  \/ op = "getsockopt" /\ \E opt \in Options, size \in BufferSizes : getsockopt(opt, size, e)

\* The function that runs passes the operation on to no other class.
IsLast == call.in = "class" \/ (call.in = "socket" /\ ~IsMember(call.class, call.op))

\* It calls the wrapper, and all return.  What a class's own function does is
\* external.  A callback given to send() is not passed on.
Returns(e, n) ==
  /\ IsLast
  /\ Wrapper(call.op, e, n)
  /\ call' = NoCall

\* The wrappers used without the interface.
Direct(wrapper) == call = NoCall /\ wrapper /\ UNCHANGED call

SocketsNext ==
  \/ \E class \in DOMAIN Overrides, op \in Operations : UserCalls(class, op)
  \/ Dispatch
  \/ \E e \in Errnos, n \in Counts : Returns(e, n)
  \/ \E e \in Errnos :
       \/ Direct(setsockopt(e)) \/ Direct(bind(e)) \/ Direct(listen(e)) \/ Direct(connect(e))
       \/ \E n \in Counts :
            Direct(send(e, n)) \/ Direct(sendto(e, n)) \/ Direct(recv(e, n)) \/ Direct(recvmsg(e, n))
       \/ \E list \in DOMAIN Buffers, n \in Counts : Direct(vectored(list, e, n))
       \/ \E opt \in Options, size \in BufferSizes : Direct(getsockopt(opt, size, e))
       \/ \E family \in Families, n \in Counts : Direct(receive_from(family, e, n))
       \/ \E node, service \in BOOLEAN, addr_err \in GaiErrors :
            Direct(getaddrinfo(node, service, addr_err, e))
  \/ \E limit \in Limits : Direct(sysconf(limit)) \/ Direct(GetPageSize(limit))

SocketsSpec == SocketsInit /\ [][SocketsNext]_socket_vars
-----------------------------------------------------------------------------
\* The interface passes an operation that the class defines to the class and
\* never to itself: its function runs next, before the stack can grow.  (Of
\* those it inherits nothing like that is true: see README.)
OverridesAreReached ==
  call # NoCall /\ call.op \in Overrides[call.class] =>
    \/ call.in = "socket" /\ call.depth = 1
    \/ call.in = "class" /\ call.depth = 2
=============================================================================
