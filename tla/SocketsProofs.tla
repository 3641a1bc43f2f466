--------------------------- MODULE SocketsProofs ---------------------------
(***************************************************************************)
(* What callers of the system calls are told, directly or through the      *)
(* socket interface, for any errors, options, families and classes.        *)
(***************************************************************************)
EXTENDS Sockets, TLAPS

\* The inductive invariant: no more than the properties themselves, because
\* each call sets what it tells and what happened together.
SyscallsInv ==
  /\ TypeOK
  /\ ErrorIsOfThisCall
  /\ FailuresAreReported
  /\ UndefinedOnlyIfUnknown

Results ==
  [ok : {TRUE}, value : Nat] \cup [ok : {FALSE}, error : Translated \cup GaiTranslated]
-----------------------------------------------------------------------------
LEMMA ValueIsResult ==
  ASSUME NEW n \in Nat
  PROVE  Value(n) \in Results /\ Value(n).ok
  BY DEF Value, Results

LEMMA ErrorIsResult ==
  ASSUME NEW e \in Translated \cup GaiTranslated
  PROVE  Error(e) \in Results /\ ~Error(e).ok /\ Error(e).error = e
  BY DEF Error, Results

LEMMA InitHolds == Init => SyscallsInv
<1> SUFFICES ASSUME Init PROVE SyscallsInv
  OBVIOUS
<1>1. result \in Results /\ result.ok
  BY ValueIsResult DEF Init
<1>2. TypeOK
  BY <1>1 DEF Init, TypeOK, Results
<1> QED
  BY <1>1, <1>2
     DEF Init, SyscallsInv, ErrorIsOfThisCall, FailuresAreReported, UndefinedOnlyIfUnknown

\* The ways a call may end.
LEMMA SucceedsKeeps ==
  ASSUME TypeOK, outcome = "running", NEW c, NEW n \in Nat, Succeeds(c, n)
  PROVE  SyscallsInv'
<1>1. result' \in Results /\ result'.ok
  BY ValueIsResult DEF Succeeds
<1>2. TypeOK'
  BY <1>1 DEF Succeeds, TypeOK, Results
<1> QED
  BY <1>1, <1>2
     DEF Succeeds, SyscallsInv, ErrorIsOfThisCall, FailuresAreReported, UndefinedOnlyIfUnknown

\* One that tells its error.
LEMMA TellsError ==
  ASSUME NEW e \in Translated \cup GaiTranslated,
         result' = Error(e),
         errno' \in {0} \cup Errnos,
         page_size' \subseteq Nat,
         outcome' = "running",
         truth'.errno = e
  PROVE  SyscallsInv'
<1>1. result' \in Results /\ ~result'.ok /\ result'.error = e
  BY ErrorIsResult
<1>2. TypeOK'
  BY <1>1 DEF TypeOK, Results
<1> QED
  BY <1>1, <1>2
     DEF SyscallsInv, ErrorIsOfThisCall, FailuresAreReported, UndefinedOnlyIfUnknown

\* One that is undefined or aborted, for a reason.
Reason(t) ==
  \/ t.errno \notin {0} \cup Translated \cup GaiTranslated
  \/ t.call = "null"
  \/ t.call \in Options \ DOMAIN SockoptSize
  \/ t.call \in Families \ {"inet", "inet6"}
  \/ t.call \in DOMAIN Buffers /\ Buffers[t.call] > IOV_MAX

LEMMA EndsUndefined ==
  ASSUME TypeOK,
         result' = result,
         errno' \in {0} \cup Errnos,
         page_size' \subseteq Nat,
         outcome' \in {"aborted", "undefined"},
         Reason(truth')
  PROVE  SyscallsInv'
<1>1. TypeOK'
  BY DEF TypeOK
<1> QED
  BY <1>1
     DEF SyscallsInv, ErrorIsOfThisCall, FailuresAreReported, UndefinedOnlyIfUnknown,
         Reason

LEMMA FailsKeeps ==
  ASSUME TypeOK, outcome = "running", NEW c, NEW e \in Errnos, Fails(c, e)
  PROVE  SyscallsInv'
<1>1. /\ truth'.errno = e
      /\ errno' \in {0} \cup Errnos
      /\ page_size' \subseteq Nat
  BY DEF Fails, TypeOK
<1>2. CASE e \in Translated
  <2>1. result' = Error(e) /\ outcome' = "running"
    BY <1>2 DEF Fails, get_error_code_from_errno
  <2> QED
    BY <1>1, <1>2, <2>1, TellsError
<1>3. CASE e \notin Translated
  <2>1. result' = result /\ outcome' = "undefined"
    BY <1>3 DEF Fails
  <2>2. Reason(truth')
    BY <1>1, <1>3, SyscallsAssumption DEF Reason
  <2> QED
    BY <1>1, <2>1, <2>2, EndsUndefined
<1> QED
  BY <1>2, <1>3

LEMMA UnreachableKeeps ==
  ASSUME TypeOK, outcome = "running", NEW case,
         \/ case = "null"
         \/ case \in Options \ DOMAIN SockoptSize
         \/ case \in Families \ {"inet", "inet6"},
         Unreachable(case)
  PROVE  SyscallsInv'
<1>1. Reason(truth')
  BY DEF Unreachable, Reason
<1> QED
  BY <1>1, EndsUndefined DEF Unreachable, TypeOK
-----------------------------------------------------------------------------
(***************************************************************************)
(* The operations.                                                         *)
(***************************************************************************)
LEMMA WrapsKeeps ==
  ASSUME TypeOK, NEW c, NEW e \in Errnos, NEW n \in Nat, Wraps(c, e, n)
  PROVE  SyscallsInv'
  BY FailsKeeps, SucceedsKeeps DEF Wraps

LEMMA WrappersKeep ==
  ASSUME TypeOK, NEW e \in Errnos, NEW n \in Nat,
         \/ setsockopt(e) \/ bind(e) \/ listen(e)
         \/ send(e, n) \/ sendto(e, n) \/ recv(e, n) \/ recvmsg(e, n)
  PROVE  SyscallsInv'
  BY WrapsKeeps DEF setsockopt, bind, listen, send, sendto, recv, recvmsg

LEMMA VectoredKeeps ==
  ASSUME TypeOK, NEW list \in DOMAIN Buffers, NEW e \in Errnos, NEW n \in Nat, vectored(list, e, n)
  PROVE  SyscallsInv'
<1>1. outcome = "running"
  BY DEF vectored
<1>2. CASE Fails("vectored", e)
  BY <1>1, <1>2, FailsKeeps
<1>3. CASE Succeeds("vectored", n)
  BY <1>1, <1>3, SucceedsKeeps
<1>4. CASE /\ Buffers[list] > IOV_MAX
           /\ outcome' \in {"aborted", "undefined"}
           /\ truth' = [call |-> list, errno |-> 0]
           /\ UNCHANGED <<errno, result, page_size>>
  <2>1. Reason(truth')
    BY <1>4 DEF Reason
  <2> QED
    BY <1>4, <2>1, EndsUndefined DEF TypeOK
<1> QED
  BY <1>2, <1>3, <1>4 DEF vectored

LEMMA ConnectKeeps ==
  ASSUME TypeOK, NEW e \in Errnos, connect(e)
  PROVE  SyscallsInv'
<1>1. outcome = "running"
  BY DEF connect
<1>2. CASE Fails("connect", e)
  BY <1>1, <1>2, FailsKeeps
<1>3. CASE Succeeds("connect", 0)
  BY <1>1, <1>3, SucceedsKeeps
<1>4. CASE /\ e = EINPROGRESS
           /\ errno' = e
           /\ truth' = [call |-> "connect", errno |-> e]
           /\ result' = Value(0)
           /\ UNCHANGED <<page_size, outcome>>
  <2>1. result' \in Results /\ result'.ok
    BY <1>4, ValueIsResult
  <2>2. TypeOK'
    BY <1>4, <2>1 DEF TypeOK, Results
  <2> QED
    BY <1>1, <1>4, <2>1, <2>2
       DEF SyscallsInv, ErrorIsOfThisCall, FailuresAreReported, UndefinedOnlyIfUnknown
<1> QED
  BY <1>2, <1>3, <1>4 DEF connect

\* An argument that a wrapper rejects before the system call.
LEMMA CheckedKeeps ==
  ASSUME TypeOK, outcome = "running",
         truth' = [call |-> "check", errno |-> EINVAL],
         result' = Error(EINVAL),
         UNCHANGED <<errno, page_size, outcome>>
  PROVE  SyscallsInv'
<1>1. EINVAL \in Translated \cup GaiTranslated
  BY SyscallsAssumption
<1> QED
  BY <1>1, TellsError DEF TypeOK

LEMMA GetsockoptKeeps ==
  ASSUME TypeOK, NEW opt \in Options, NEW size, NEW e \in Errnos, getsockopt(opt, size, e)
  PROVE  SyscallsInv'
<1>1. outcome = "running"
  BY DEF getsockopt
<1>2. CASE opt \notin DOMAIN SockoptSize
  BY <1>1, <1>2, UnreachableKeeps DEF getsockopt
<1>3. CASE opt \in DOMAIN SockoptSize /\ size < get_sockopt_size(opt)
  BY <1>1, <1>3, CheckedKeeps DEF getsockopt
<1>4. CASE opt \in DOMAIN SockoptSize /\ ~(size < get_sockopt_size(opt))
  <2>1. Fails("getsockopt", e) \/ Succeeds("getsockopt", 0)
    BY <1>4 DEF getsockopt
  <2> QED
    BY <1>1, <2>1, FailsKeeps, SucceedsKeeps
<1> QED
  BY <1>2, <1>3, <1>4

LEMMA ReceiveKeeps ==
  ASSUME TypeOK, NEW family \in Families, NEW e \in Errnos, NEW n \in Nat, receive_from(family, e, n)
  PROVE  SyscallsInv'
<1>1. outcome = "running"
  BY DEF receive_from
<1>2. CASE Fails("receive_from", e)
  BY <1>1, <1>2, FailsKeeps
<1>3. CASE Succeeds("receive_from", n)
  BY <1>1, <1>3, SucceedsKeeps
<1>4. CASE family \notin Convertible /\ Unreachable(family)
  BY <1>1, <1>4, UnreachableKeeps DEF Convertible
<1> QED
  BY <1>2, <1>3, <1>4 DEF receive_from

LEMMA LookupFailsKeeps ==
  ASSUME TypeOK, outcome = "running", NEW addr_err \in GaiErrors, NEW e \in Errnos,
         LookupFails(addr_err, e)
  PROVE  SyscallsInv'
<1> DEFINE told == LookupError(addr_err, e)
<1>1. /\ errno' \in {0} \cup Errnos
      /\ page_size' \subseteq Nat
      /\ truth'.errno = told
  BY DEF LookupFails, TypeOK
<1>2. CASE addr_err \in GaiTranslated /\ told \in Translated \cup GaiTranslated
  <2>1. outcome' = "running"
    BY <1>2 DEF LookupFails
  <2>2. result' = Error(told)
    BY <1>2 DEF LookupFails, get_error_code_from_getaddrinfo_err, get_error_code_from_errno, LookupError
  <2> QED
    BY <1>1, <1>2, <2>1, <2>2, TellsError
<1>3. CASE ~(addr_err \in GaiTranslated /\ told \in Translated \cup GaiTranslated)
  <2>1. result' = result /\ outcome' = "undefined"
    BY <1>3 DEF LookupFails
  <2>2. told \notin {0} \cup Translated \cup GaiTranslated
    <3>1. CASE addr_err = EAI_SYSTEM
      BY <1>3, <3>1, SyscallsAssumption DEF LookupError
    <3>2. CASE addr_err # EAI_SYSTEM
      BY <1>3, <3>2, SyscallsAssumption DEF LookupError
    <3> QED
      BY <3>1, <3>2
  <2>3. Reason(truth')
    BY <1>1, <2>2 DEF Reason
  <2> QED
    BY <1>1, <2>1, <2>3, EndsUndefined
<1> QED
  BY <1>2, <1>3

LEMMA LookupKeeps ==
  ASSUME TypeOK, NEW node \in BOOLEAN, NEW service \in BOOLEAN, NEW addr_err \in GaiErrors,
         NEW e \in Errnos, getaddrinfo(node, service, addr_err, e)
  PROVE  SyscallsInv'
<1>1. outcome = "running"
  BY DEF getaddrinfo
<1>2. CASE ~node /\ ~service
  BY <1>1, <1>2, CheckedKeeps DEF getaddrinfo
<1>3. CASE node \/ service
  <2>1. LookupFails(addr_err, e) \/ Unreachable("null")
    BY <1>3 DEF getaddrinfo
  <2> QED
    BY <1>1, <2>1, LookupFailsKeeps, UnreachableKeeps
<1> QED
  BY <1>2, <1>3
-----------------------------------------------------------------------------
LEMMA LimitCases ==
  ASSUME NEW limit \in Limits
  PROVE  \/ limit.found = "value" /\ limit.n \in Counts
         \/ limit.found = "error" /\ limit.n \in Errnos
         \/ limit.found = "no limit"
<1>1. CASE \E n \in Counts : limit = [found |-> "value", n |-> n]
  BY <1>1
<1>2. CASE \E e \in Errnos : limit = [found |-> "error", n |-> e]
  BY <1>2
<1>3. CASE limit = [found |-> "no limit", n |-> 0]
  BY <1>3
<1> QED
  BY <1>1, <1>2, <1>3 DEF Limits

\* sysconf(): errno is of this call, whatever it was before.
LEMMA CallsSysconfKeeps ==
  ASSUME TypeOK, outcome = "running", page_size' \subseteq Nat, NEW limit \in Limits, CallsSysconf(limit)
  PROVE  SyscallsInv'
<1>1. CASE limit.found = "value" /\ limit.n \in Counts
  <2>1. /\ result' = Value(limit.n)
        /\ outcome' = "running"
        /\ errno' = 0
        /\ truth' = [call |-> "sysconf", errno |-> 0]
    BY <1>1 DEF CallsSysconf, SysconfTruth, SysconfResult, ErrnoAfter
  <2>2. result' \in Results /\ result'.ok
    BY <1>1, <2>1, ValueIsResult, SyscallsAssumption
  <2>3. TypeOK'
    BY <2>1, <2>2 DEF TypeOK, Results
  <2> QED
    BY <2>1, <2>2, <2>3
       DEF SyscallsInv, ErrorIsOfThisCall, FailuresAreReported, UndefinedOnlyIfUnknown
<1>2. CASE limit.found = "no limit"
  <2>1. ENOTSUP \in Translated \cup GaiTranslated
    BY SyscallsAssumption
  <2>2. ErrnoAfter(limit) = 0
    BY <1>2 DEF ErrnoAfter
  <2>3. /\ result' = Error(ENOTSUP)
        /\ outcome' = "running"
        /\ errno' = 0
        /\ truth'.errno = ENOTSUP
    BY <1>2, <2>2 DEF CallsSysconf, SysconfTruth, SysconfResult
  <2> QED
    BY <2>1, <2>3, TellsError
<1>3. CASE limit.found = "error" /\ limit.n \in Errnos
  <2>1. ErrnoAfter(limit) = limit.n /\ limit.n # 0
    BY <1>3, SyscallsAssumption DEF ErrnoAfter
  <2>2. errno' = limit.n /\ truth'.errno = limit.n
    BY <1>3, <2>1 DEF CallsSysconf, SysconfTruth
  <2>3. CASE limit.n \in Translated
    <3>1. result' = Error(limit.n) /\ outcome' = "running"
      BY <1>3, <2>1, <2>3 DEF CallsSysconf, SysconfResult
    <3> QED
      BY <1>3, <2>2, <2>3, <3>1, TellsError
  <2>4. CASE limit.n \notin Translated
    <3>1. result' = result /\ outcome' = "undefined"
      BY <1>3, <2>1, <2>4 DEF CallsSysconf
    <3>2. Reason(truth')
      BY <1>3, <2>1, <2>2, <2>4, SyscallsAssumption DEF Reason
    <3> QED
      BY <1>3, <2>2, <3>1, <3>2, EndsUndefined
  <2> QED
    BY <2>3, <2>4
<1> QED
  BY <1>1, <1>2, <1>3, LimitCases

LEMMA PageSizeIsNat ==
  ASSUME NEW limit \in Limits
  PROVE  PageSize(limit) \in Nat
<1>1. limit.found = "value" => limit.n \in Nat
  BY LimitCases, SyscallsAssumption
<1> QED
  BY <1>1 DEF PageSize

LEMMA LimitsKeep ==
  ASSUME SyscallsInv, NEW limit \in Limits, sysconf(limit) \/ GetPageSize(limit)
  PROVE  SyscallsInv'
<1>1. outcome = "running" /\ TypeOK
  BY DEF sysconf, GetPageSize, SyscallsInv
<1>2. page_size' \subseteq Nat
  BY <1>1, PageSizeIsNat DEF sysconf, GetPageSize, TypeOK, vars
<1>3. CASE CallsSysconf(limit)
  BY <1>1, <1>2, <1>3, CallsSysconfKeeps
<1>4. CASE UNCHANGED vars
  BY <1>4 DEF vars, SyscallsInv, TypeOK, ErrorIsOfThisCall, FailuresAreReported, UndefinedOnlyIfUnknown
<1> QED
  BY <1>3, <1>4 DEF sysconf, GetPageSize

LEMMA NextKeeps ==
  ASSUME SyscallsInv, Next
  PROVE  SyscallsInv'
<1>1. TypeOK /\ Counts \subseteq Nat
  BY SyscallsAssumption DEF SyscallsInv
<1>2. ASSUME NEW e \in Errnos, NEW n \in Counts,
             \/ setsockopt(e) \/ bind(e) \/ listen(e)
             \/ send(e, n) \/ sendto(e, n) \/ recv(e, n) \/ recvmsg(e, n)
      PROVE  SyscallsInv'
  BY <1>1, <1>2, WrappersKeep
<1>3. ASSUME NEW e \in Errnos, setsockopt(e) \/ bind(e) \/ listen(e)
      PROVE  SyscallsInv'
  BY <1>1, <1>3, 0 \in Nat, WrappersKeep
<1>4. ASSUME NEW e \in Errnos, connect(e) PROVE SyscallsInv'
  BY <1>1, <1>4, ConnectKeeps
<1>5. ASSUME NEW e \in Errnos, NEW opt \in Options, NEW size \in BufferSizes, getsockopt(opt, size, e)
      PROVE  SyscallsInv'
  BY <1>1, <1>5, GetsockoptKeeps
<1>6. ASSUME NEW e \in Errnos, NEW family \in Families, NEW n \in Counts, receive_from(family, e, n)
      PROVE  SyscallsInv'
  BY <1>1, <1>6, ReceiveKeeps
<1>7. ASSUME NEW e \in Errnos, NEW node \in BOOLEAN, NEW service \in BOOLEAN,
             NEW addr_err \in GaiErrors, getaddrinfo(node, service, addr_err, e)
      PROVE  SyscallsInv'
  BY <1>1, <1>7, LookupKeeps
<1>8. ASSUME NEW limit \in Limits, sysconf(limit) \/ GetPageSize(limit)
      PROVE  SyscallsInv'
  BY <1>8, LimitsKeep
<1>9. ASSUME NEW e \in Errnos, NEW list \in DOMAIN Buffers, NEW n \in Counts, vectored(list, e, n)
      PROVE  SyscallsInv'
  BY <1>1, <1>9, VectoredKeeps
<1> QED
  BY <1>2, <1>3, <1>4, <1>5, <1>6, <1>7, <1>8, <1>9, Zenon DEF Next

LEMMA SyscallsInvariant == Spec => []SyscallsInv
<1>1. ASSUME SyscallsInv, UNCHANGED vars PROVE SyscallsInv'
  BY <1>1
     DEF vars, SyscallsInv, TypeOK, ErrorIsOfThisCall, FailuresAreReported, UndefinedOnlyIfUnknown
<1> QED
  BY <1>1, InitHolds, NextKeeps, PTL DEF Spec
-----------------------------------------------------------------------------
(***************************************************************************)
(* The socket interface adds nothing to the calls: every step of it is one *)
(* of the wrappers' or leaves their state alone.                           *)
(***************************************************************************)
LEMMA ReturnsIsACall ==
  ASSUME NEW e \in Errnos, NEW n \in Counts, Returns(e, n)
  PROVE  Next
  BY DEF Returns, Wrapper, Next

LEMMA StepIsACall ==
  ASSUME SocketsNext
  PROVE  Next \/ UNCHANGED vars
<1>1. ASSUME NEW class \in DOMAIN Overrides, NEW op \in Operations, UserCalls(class, op)
      PROVE  UNCHANGED vars
  BY <1>1 DEF UserCalls
<1>2. CASE Dispatch
  BY <1>2 DEF Dispatch
<1>3. ASSUME NEW e \in Errnos, NEW n \in Counts, Returns(e, n)
      PROVE  Next
  BY <1>3, ReturnsIsACall
<1>4. ASSUME NEW e \in Errnos,
             \/ Direct(setsockopt(e)) \/ Direct(bind(e)) \/ Direct(listen(e)) \/ Direct(connect(e))
             \/ \E n \in Counts :
                  Direct(send(e, n)) \/ Direct(sendto(e, n)) \/ Direct(recv(e, n)) \/ Direct(recvmsg(e, n))
      PROVE  Next
  BY <1>4 DEF Direct, Next
<1>5. ASSUME NEW e \in Errnos, NEW opt \in Options, NEW size \in BufferSizes,
             Direct(getsockopt(opt, size, e))
      PROVE  Next
  BY <1>5 DEF Direct, Next
<1>6. ASSUME NEW e \in Errnos, NEW family \in Families, NEW n \in Counts,
             Direct(receive_from(family, e, n))
      PROVE  Next
  BY <1>6 DEF Direct, Next
<1>7. ASSUME NEW e \in Errnos, NEW node \in BOOLEAN, NEW service \in BOOLEAN,
             NEW addr_err \in GaiErrors, Direct(getaddrinfo(node, service, addr_err, e))
      PROVE  Next
  BY <1>7 DEF Direct, Next
<1>8. ASSUME NEW limit \in Limits, Direct(sysconf(limit)) \/ Direct(GetPageSize(limit))
      PROVE  Next
  BY <1>8 DEF Direct, Next
<1>9. ASSUME NEW e \in Errnos, NEW list \in DOMAIN Buffers, NEW n \in Counts,
             Direct(vectored(list, e, n))
      PROVE  Next
  BY <1>9 DEF Direct, Next
<1> QED
  BY <1>1, <1>2, <1>3, <1>4, <1>5, <1>6, <1>7, <1>8, <1>9, Zenon DEF SocketsNext

\* Every behaviour of the socket interface (socket.h) is one of the system
\* call wrappers under it, for any classes and operations they define.
LEMMA SocketsAreSyscalls == SocketsSpec => Spec
<1>1. ASSUME SocketsInit PROVE Init
  BY <1>1 DEF SocketsInit
<1>2. ASSUME UNCHANGED socket_vars PROVE UNCHANGED vars
  BY <1>2 DEF socket_vars
<1> QED
  BY <1>1, <1>2, StepIsACall, PTL DEF SocketsSpec, Spec
-----------------------------------------------------------------------------
\* An error a caller is told of is that of its own call, never one that an
\* earlier call left in errno (sysconf(), getaddrinfo() and the wrappers).
THEOREM ErrorsAreOfTheirCalls == SocketsSpec => []ErrorIsOfThisCall
<1>1. SyscallsInv => ErrorIsOfThisCall
  BY DEF SyscallsInv
<1> QED
  BY <1>1, SyscallsInvariant, SocketsAreSyscalls, PTL

\* No wrapper takes a failure for a success, but connect() one that is under
\* way.
THEOREM FailuresAlwaysReported == SocketsSpec => []FailuresAreReported
<1>1. SyscallsInv => FailuresAreReported
  BY DEF SyscallsInv
<1> QED
  BY <1>1, SyscallsInvariant, SocketsAreSyscalls, PTL

\* A call ends in undefined behaviour or an assertion only for what the switches
\* over errnos, codes of lookups, options and families have no case for, for a
\* lookup that succeeds, or for more buffers than readv() and writev() take.
THEOREM OnlyTheUnknownIsUndefined == SocketsSpec => []UndefinedOnlyIfUnknown
<1>1. SyscallsInv => UndefinedOnlyIfUnknown
  BY DEF SyscallsInv
<1> QED
  BY <1>1, SyscallsInvariant, SocketsAreSyscalls, PTL

\* The state of the calls stays in its types.
THEOREM SyscallsTyped == SocketsSpec => []TypeOK
<1>1. SyscallsInv => TypeOK
  BY DEF SyscallsInv
<1> QED
  BY <1>1, SyscallsInvariant, SocketsAreSyscalls, PTL

-----------------------------------------------------------------------------
\* The function of a class runs only if the class defines it; the interface
\* calls itself only for operations that the class inherits.
CallInv ==
  /\ call \in [class : DOMAIN Overrides \cup {"none"}, op : Operations \cup {"none"},
               in : {"none", "socket", "class"}, depth : Nat]
  /\ call.in = "none" => call = NoCall
  /\ call.in = "class" => call.op \in Overrides[call.class] /\ call.depth = 2
  /\ call.in = "socket" /\ call.op \in Overrides[call.class] => call.depth = 1

LEMMA DispatchKeeps ==
  ASSUME CallInv, Dispatch
  PROVE  CallInv'
<1> DEFINE runs == CalledOnT(call.class, call.op)
<1>1. /\ runs \in {"socket", "class"}
      /\ runs = "class" <=> call.op \in Overrides[call.class]
  BY DEF CalledOnT
<1>2. call' = [call EXCEPT !.in = runs, !.depth = call.depth + 1]
  BY DEF Dispatch
<1> HIDE DEF runs
<1>3. /\ call.class \in DOMAIN Overrides \cup {"none"}
      /\ call.op \in Operations \cup {"none"}
      /\ call.depth \in Nat
      /\ call.in = "socket"
      /\ call.op \in Overrides[call.class] => call.depth = 1
  BY DEF CallInv, Dispatch
<1>4. call' = [class |-> call.class, op |-> call.op, in |-> runs, depth |-> call.depth + 1]
  BY <1>2 DEF CallInv
<1>5. call' \in [class : DOMAIN Overrides \cup {"none"}, op : Operations \cup {"none"},
                 in : {"none", "socket", "class"}, depth : Nat]
  BY <1>1, <1>3, <1>4
<1> QED
  BY <1>1, <1>3, <1>4, <1>5 DEF CallInv

LEMMA CallInvariant == SocketsSpec => []CallInv
<1>1. ASSUME SocketsInit PROVE CallInv
  BY <1>1 DEF SocketsInit, NoCall, CallInv
<1>2. ASSUME CallInv, [SocketsNext]_socket_vars PROVE CallInv'
  <2>1. ASSUME NEW class \in DOMAIN Overrides, NEW op \in Operations, UserCalls(class, op)
        PROVE  CallInv'
    BY <2>1 DEF UserCalls, CallInv
  <2>2. CASE call' = NoCall
    BY <2>2 DEF NoCall, CallInv
  <2>3. CASE call' = call
    BY <1>2, <2>3 DEF CallInv
  <2>4. ASSUME NEW e \in Errnos, NEW n \in Counts, Returns(e, n)
        PROVE  call' = NoCall
    BY <2>4 DEF Returns
  <2>5. \/ \E class \in DOMAIN Overrides, op \in Operations : UserCalls(class, op)
        \/ Dispatch
        \/ \E e \in Errnos, n \in Counts : Returns(e, n)
        \/ call' = call
    BY <1>2 DEF SocketsNext, Direct, socket_vars
  <2> QED
    BY <1>2, <2>1, <2>2, <2>3, <2>4, <2>5, DispatchKeeps
<1> QED
  BY <1>1, <1>2, PTL DEF SocketsSpec

\* An operation that a class defines is passed to the class at once, whatever
\* classes there are and whatever the calls under it do (socket.h).
THEOREM OverridesReached == SocketsSpec => []OverridesAreReached
<1>1. CallInv => OverridesAreReached
  BY DEF CallInv, OverridesAreReached
<1> QED
  BY <1>1, CallInvariant, PTL

\* The defect beside it: an operation of the interface returns only to the
\* users of classes that define it.  The fallbacks of socket.h, which are there
\* for the others, are never reached.
InheritedNeverReturns ==
  [][call # NoCall /\ call' = NoCall => call.op \in Overrides[call.class]]_socket_vars

LEMMA OnlyOverridesReturn == SocketsSpec => InheritedNeverReturns
<1>1. ASSUME CallInv, [SocketsNext]_socket_vars, call # NoCall, call' = NoCall
      PROVE  call.op \in Overrides[call.class]
  <2>1. \/ \E class \in DOMAIN Overrides, op \in Operations : UserCalls(class, op)
        \/ Dispatch
        \/ \E e \in Errnos, n \in Counts : Returns(e, n)
        \/ call' = call
    BY <1>1 DEF SocketsNext, Direct, socket_vars
  <2>2. ASSUME NEW class \in DOMAIN Overrides, NEW op \in Operations, UserCalls(class, op)
        PROVE  FALSE
    BY <1>1, <2>2 DEF UserCalls
  <2>3. CASE Dispatch
    <3>1. call'.in \in {"class", "socket"}
      BY <1>1, <2>3 DEF Dispatch, CalledOnT, CallInv
    <3> QED
      BY <1>1, <3>1 DEF NoCall
  <2>4. ASSUME NEW e \in Errnos, NEW n \in Counts, Returns(e, n)
        PROVE  call.in = "class"
    BY <2>4 DEF Returns, IsLast, IsMember
  <2> QED
    BY <1>1, <2>1, <2>2, <2>3, <2>4 DEF CallInv
<1> QED
  BY <1>1, CallInvariant, PTL DEF SocketsSpec, InheritedNeverReturns
=============================================================================
