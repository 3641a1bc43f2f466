------------------------------ MODULE Syscalls ------------------------------
(***************************************************************************)
(* The system call wrappers of n3::linux (src/syscalls.cpp, syscalls.h),   *)
(* getaddrinfo() (src/dns.cpp), the translation of errors to an ErrorCode  *)
(* (src/error.h) and the cached page size (src/page_size.cpp): what a      *)
(* thread is told of its calls.                                            *)
(*                                                                         *)
(* errno is left by one call and seen by the next.  A call that returns -1 *)
(* sets it, except that sysconf() returns -1 for a limit that is           *)
(* indeterminate and leaves errno alone.  An ErrorCode is an errno, or a   *)
(* code of getaddrinfo(), which are numbers below 0.                       *)
(***************************************************************************)
EXTENDS Integers

CONSTANTS
  Errnos,         \* the errno values calls may fail with, 0 not among them
  Translated,     \* the errno values get_error_code_from_errno() has a case for
  Counts,         \* the values calls may return
  SockoptSize,    \* SockoptSize[opt]: size of the value of each known option
  Options,        \* the options a user may ask for
  Families,       \* the address families of peers
  BufferSizes,    \* the sizes of the buffers users pass to getsockopt()
  Buffers,        \* Buffers[list]: the length of each list of buffers users pass
  IOV_MAX,        \* the length of the array such a list is converted to
  GaiErrors,      \* the codes ::getaddrinfo() may fail with
  GaiTranslated,  \* the codes get_error_code_from_getaddrinfo_err() has a case for
  EINVAL, ENOTSUP, EINPROGRESS,
  EAI_SYSTEM      \* the code that says: see errno

ASSUME SyscallsAssumption ==
  /\ {EINVAL, ENOTSUP, EINPROGRESS} \subseteq Translated
  /\ 0 \notin Errnos \cup Translated
  /\ EAI_SYSTEM \in GaiTranslated
  /\ (GaiErrors \cup GaiTranslated) \cap ({0} \cup Errnos \cup Translated) = {}
  /\ Counts \subseteq Nat
  /\ \A opt \in DOMAIN SockoptSize : SockoptSize[opt] \in Nat
  /\ IOV_MAX \in Nat /\ \A list \in DOMAIN Buffers : Buffers[list] \in Nat

VARIABLES
  errno,
  result,       \* the std::expected of the last call: [ok, value] or [ok, error]
  page_size,    \* {} before the once_flag of GetPageSize() is set, then {PAGE_SIZE}
  outcome,      \* "running", "aborted" by an assertion, or "undefined"
  truth         \* history: what the last system call did: [call, errno]

vars == <<errno, result, page_size, outcome, truth>>

Value(n) == [ok |-> TRUE, value |-> n]
Error(e) == [ok |-> FALSE, error |-> e]

get_error_code_from_errno_negated(e) == Error(-e)

\* A switch over errno whose default is std::unreachable().
get_error_code_from_errno(e) == Error(e)

Init ==
  /\ errno = 0
  /\ result = Value(0)
  /\ page_size = {}
  /\ outcome = "running"
  /\ truth = [call |-> "none", errno |-> 0]

\* A call failed with e and its wrapper translates it.
Fails(call, e) ==
  /\ errno' = e
  /\ truth' = [call |-> call, errno |-> e]
  /\ IF e \in Translated
     THEN result' = get_error_code_from_errno(e) /\ UNCHANGED outcome
     ELSE outcome' = "undefined" /\ UNCHANGED result
  /\ UNCHANGED page_size

\* A switch over an option or a family runs into its std::unreachable().
Unreachable(case) ==
  /\ outcome' = "undefined"
  /\ truth' = [call |-> case, errno |-> 0]
  /\ UNCHANGED <<errno, result, page_size>>

Succeeds(call, n) ==
  /\ truth' = [call |-> call, errno |-> 0]
  /\ result' = Value(n)
  /\ UNCHANGED <<errno, page_size, outcome>>

Wraps(call, e, n) == outcome = "running" /\ (Fails(call, e) \/ Succeeds(call, n))

setsockopt(e) == Wraps("setsockopt", e, 0)
bind(e) == Wraps("bind", e, 0)
listen(e) == Wraps("listen", e, 0)

\* readv() and writev(): more buffers than the array of iovecs has room for
\* end a debug build in the assertion; a release build writes past the array.
vectored(list, e, n) ==
  /\ outcome = "running"
  /\ \/ /\ Buffers[list] > IOV_MAX
        /\ outcome' \in {"aborted", "undefined"}
        /\ truth' = [call |-> list, errno |-> 0]
        /\ UNCHANGED <<errno, result, page_size>>
     \/ /\ Buffers[list] <= IOV_MAX
        /\ Fails("vectored", e) \/ Succeeds("vectored", n)

\* send() and sendmsg().
send(e, n) == Wraps("send", e, n)
sendto(e, n) == Wraps("sendto", e, n)
recv(e, n) == Wraps("recv", e, n)
recvmsg(e, n) == Wraps("recvmsg", e, n)

\* connect() of a nonblocking socket that is under way is a success.
connect_ignoring_errors(e) ==
  /\ outcome = "running"
  /\ errno' = e
  /\ truth' = [call |-> "connect", errno |-> e]
  /\ result' = Value(0)
  /\ UNCHANGED <<page_size, outcome>>

connect(e) ==
  /\ outcome = "running"
  /\ \/ e # EINPROGRESS /\ Fails("connect", e)
     \/ /\ e = EINPROGRESS
        /\ errno' = e
        /\ truth' = [call |-> "connect", errno |-> e]
        /\ result' = Value(0)
        /\ UNCHANGED <<page_size, outcome>>
     \/ Succeeds("connect", 0)

get_sockopt_size(opt) == SockoptSize[opt]

\* getsockopt(): the buffer is checked before the call, and the kernel is
\* given a length of 0, so it writes nothing.
getsockopt(opt, size, e) ==
  /\ outcome = "running"
  /\ IF opt \notin DOMAIN SockoptSize
     THEN Unreachable(opt)
     ELSE IF size < get_sockopt_size(opt)
     THEN /\ truth' = [call |-> "check", errno |-> EINVAL]
          /\ result' = Error(EINVAL)
          /\ UNCHANGED <<errno, page_size, outcome>>
     ELSE Fails("getsockopt", e) \/ Succeeds("getsockopt", 0)

\* accept() and recvfrom() also convert the peer's address, of the families
\* sockaddr_to_address() knows; a stream socket's recvfrom() gives none.
Convertible_v4_only == {"inet"}
Convertible == {"inet", "inet6"}

receive_from(family, e, n) ==
  /\ outcome = "running"
  /\ \/ Fails("receive_from", e)
     \/ family \in Convertible /\ Succeeds("receive_from", n)
     \/ family \notin Convertible /\ Unreachable(family)

get_error_code_from_getaddrinfo_err(addr_err, e) ==
  IF addr_err = EAI_SYSTEM THEN get_error_code_from_errno(e) ELSE Error(addr_err)

\* The code a lookup failed with, or the errno it refers to.
LookupError(addr_err, e) == IF addr_err = EAI_SYSTEM THEN e ELSE addr_err

LookupFails(addr_err, e) ==
  /\ errno' = e
  /\ truth' = [call |-> "getaddrinfo", errno |-> LookupError(addr_err, e)]
  /\ IF addr_err \in GaiTranslated /\ LookupError(addr_err, e) \in Translated \cup GaiTranslated
     THEN result' = get_error_code_from_getaddrinfo_err(addr_err, e) /\ UNCHANGED outcome
     ELSE outcome' = "undefined" /\ UNCHANGED result
  /\ UNCHANGED page_size

\* dns::getaddrinfo(): addr_list is made from nullptr, so that a lookup that
\* succeeds stores its list through a null pointer.
getaddrinfo(node, service, addr_err, e) ==
  /\ outcome = "running"
  /\ IF ~node /\ ~service
     THEN /\ truth' = [call |-> "check", errno |-> EINVAL]
          /\ result' = Error(EINVAL)
          /\ UNCHANGED <<errno, page_size, outcome>>
     ELSE LookupFails(addr_err, e) \/ Unreachable("null")

\* What sysconf() may do: return a value, fail, or find no limit.
Limits ==
  {[found |-> "value", n |-> n] : n \in Counts}
    \cup {[found |-> "error", n |-> e] : e \in Errnos}
    \cup {[found |-> "no limit", n |-> 0]}

\* errno after "errno = 0" and the call.
ErrnoAfter_not_cleared(limit) == IF limit.found = "error" THEN limit.n ELSE errno
ErrnoAfter(limit) == IF limit.found = "error" THEN limit.n ELSE 0

SysconfResult(limit, e) ==
  IF limit.found = "value" THEN Value(limit.n)
  ELSE IF e = 0 THEN Error(ENOTSUP)
  ELSE Error(e)

SysconfTruth(limit) ==
  [call |-> "sysconf", errno |-> IF limit.found = "no limit" THEN ENOTSUP
                                 ELSE IF limit.found = "error" THEN limit.n
                                 ELSE 0]

CallsSysconf(limit) ==
  /\ errno' = ErrnoAfter(limit)
  /\ truth' = SysconfTruth(limit)
  /\ IF limit.found # "value" /\ ErrnoAfter(limit) \notin {0} \cup Translated
     THEN outcome' = "undefined" /\ UNCHANGED result
     ELSE result' = SysconfResult(limit, ErrnoAfter(limit)) /\ UNCHANGED outcome

sysconf(limit) ==
  /\ outcome = "running"
  /\ CallsSysconf(limit)
  /\ UNCHANGED page_size

\* GetPageSize(): the first call asks, whatever it is told; the others find the
\* once_flag set.  Threads that call meanwhile wait for the first, and errno is
\* each thread's own: one step stands for call_once().
PageSize(limit) == IF limit.found = "value" THEN limit.n ELSE 4096

GetPageSize(limit) ==
  /\ outcome = "running"
  /\ \/ page_size = {} /\ page_size' = {PageSize(limit)} /\ CallsSysconf(limit)
     \/ page_size # {} /\ UNCHANGED vars

Next ==
  \/ \E e \in Errnos :
       \/ setsockopt(e) \/ bind(e) \/ listen(e) \/ connect(e)
       \/ \E n \in Counts : send(e, n) \/ sendto(e, n) \/ recv(e, n) \/ recvmsg(e, n)
       \/ \E list \in DOMAIN Buffers, n \in Counts : vectored(list, e, n)
       \/ \E opt \in Options, size \in BufferSizes : getsockopt(opt, size, e)
       \/ \E family \in Families, n \in Counts : receive_from(family, e, n)
       \/ \E node, service \in BOOLEAN, addr_err \in GaiErrors :
            getaddrinfo(node, service, addr_err, e)
  \/ \E limit \in Limits : sysconf(limit) \/ GetPageSize(limit)

Spec == Init /\ [][Next]_vars
-----------------------------------------------------------------------------
\* The types of errno, of the results and of the page size.
TypeOK ==
  /\ errno \in {0} \cup Errnos
  /\ result \in [ok : {TRUE}, value : Nat] \cup [ok : {FALSE}, error : Translated \cup GaiTranslated]
  /\ page_size \subseteq Nat
  /\ outcome \in {"running", "aborted", "undefined"}

\* An error a caller is told of is the error of the call it made: never one
\* that an earlier call left in errno, and ENOTSUP for a limit that is
\* indeterminate ("set errno to zero before the call", syscalls.cpp:440).
ErrorIsOfThisCall ==
  outcome = "running" /\ ~result.ok => result.error = truth.errno

\* No wrapper takes a call that failed for a success, except connect() that of
\* a nonblocking socket.  (GetPageSize() hides the failure of its sysconf();
\* `result' is what that wrapper returned to it.)
FailuresAreReported ==
  outcome = "running" /\ result.ok =>
    truth.errno = 0 \/ truth = [call |-> "connect", errno |-> EINPROGRESS]

\* A call ends in a std::unreachable() only for an errno that has no case, an
\* option that is not known, or a peer that is of no IP family; and in undefined
\* behaviour or an assertion otherwise only for a lookup that succeeds, or for
\* more buffers than readv() and writev() take.
UndefinedOnlyIfUnknown ==
  outcome # "running" =>
    \/ truth.errno \notin {0} \cup Translated \cup GaiTranslated
    \/ truth.call = "null"
    \/ truth.call \in Options \ DOMAIN SockoptSize
    \/ truth.call \in Families \ {"inet", "inet6"}
    \/ truth.call \in DOMAIN Buffers /\ Buffers[truth.call] > IOV_MAX
=============================================================================
