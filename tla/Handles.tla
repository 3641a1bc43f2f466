------------------------------ MODULE Handles ------------------------------
(***************************************************************************)
(* The objects of n3 that own a descriptor (OwnedHandle, TcpSocket,        *)
(* ExecutorOwnedHandle, epoll_ctx, io_uring_handle) and the process's      *)
(* descriptor table.                                                       *)
(*                                                                         *)
(* OwnedHandle keeps its descriptor in a MoveOnly<int>, whose conversion   *)
(* to int is deleted but explicit: `return this->fd` (handle.h:18) takes   *)
(* its implicit conversion to bool instead.                                *)
(*                                                                         *)
(* A file stands for an open file description: a number that is not reused.*)
(***************************************************************************)
EXTENDS Integers

CONSTANTS
  MaxFd,              \* the table has descriptors 0 .. MaxFd
  MaxFiles,           \* bound on the files opened in a run
  Objects             \* names of the objects

ASSUME HandlesAssumption ==
  /\ MaxFd \in Nat /\ MaxFd >= 2
  /\ MaxFiles \in Nat

VARIABLES
  table,      \* kernel: table[fd] is the file open at fd; 0: none
  interest,   \* kernel: the files registered with the executor's epoll
  files,      \* the number of files opened so far
  object,     \* object[o]: [kind, fd, file] of each object that is alive
  users,      \* history: the descriptors the user opened and has not closed
              \*   or handed to an object
  orphans,    \* history: files of sockets whose object is destroyed
  copied      \* history: the epoll instances whose epoll_ctx was copied

vars == <<table, interest, files, object, users, orphans, copied>>

Fds == 0 .. MaxFd
Free == {fd \in Fds : table[fd] = 0}
Alive == DOMAIN object

\* What an OwnedHandle that holds fd converts to: that it holds one.
Handle_inverted(fd) == 0
Handle(fd) == 1

\* open(), socket() and epoll_create1() take the lowest free descriptor.
Lowest == CHOOSE fd \in Free : \A free \in Free : fd <= free

Init ==
  /\ table = [fd \in Fds |-> IF fd <= 2 THEN fd + 1 ELSE 0]
  /\ interest = {}
  /\ files = 3
  /\ object = [o \in {} |-> 0]
  /\ users = {0, 1, 2}
  /\ orphans = {}
  /\ copied = {}

\* close(fd): an error is ignored.
closed(fd) == IF fd \in Fds THEN [table EXCEPT ![fd] = 0] ELSE table
forgotten_never(fd) == interest
forgotten(fd) == IF fd \in Fds THEN interest \ {table[fd]} ELSE interest

With(o, kind, fd, file) ==
  [x \in Alive \cup {o} |->
     IF x = o THEN [kind |-> kind, fd |-> fd, file |-> file] ELSE object[x]]

Without(o) == [x \in Alive \ {o} |-> object[x]]

CanOpen == Free # {} /\ files < MaxFiles

Opens(fd) ==
  /\ table' = [table EXCEPT ![fd] = files + 1]
  /\ files' = files + 1

UserOpens ==
  /\ CanOpen
  /\ Opens(Lowest)
  /\ users' = users \cup {Lowest}
  /\ UNCHANGED <<interest, object, orphans, copied>>

UserCloses(fd) ==
  /\ fd \in users
  /\ table' = closed(fd)
  /\ interest' = forgotten(fd)
  /\ users' = users \ {fd}
  /\ UNCHANGED <<files, object, orphans, copied>>

\* TcpSocket(): socket() may fail for want of a descriptor, of a file, of
\* memory or of a permission.  The test for -1 is made on the converted handle.
TcpSocket(o) ==
  /\ o \notin Alive
  /\ \/ /\ CanOpen
        /\ Opens(Lowest)
        /\ object' = With(o, "TcpSocket", Lowest, files + 1)
     \/ /\ object' = IF Handle(-1) = -1 THEN object ELSE With(o, "TcpSocket", -1, 0)
        /\ UNCHANGED <<table, files>>
  /\ UNCHANGED <<interest, users, orphans, copied>>

\* OwnedHandle(fd), TcpSocket(fd).
Adopt(o, fd, kind) ==
  /\ o \notin Alive
  /\ fd \in users
  /\ object' = With(o, kind, fd, table[fd])
  /\ users' = users \ {fd}
  /\ UNCHANGED <<table, interest, files, orphans, copied>>

\* ExecutorOwnedHandle(executor, fd): add() fails on a handle that is closed,
\* registered already or of a kind epoll does not take, and throws: the
\* member fd is destroyed.
ExecutorOwnedHandle(o, fd) ==
  /\ o \notin Alive
  /\ fd \in users
  /\ users' = users \ {fd}
  /\ LET handle == Handle(fd)
     IN  \/ /\ table[handle] \notin {0} \cup interest
            /\ interest' = interest \cup {table[handle]}
            /\ object' = With(o, "ExecutorOwnedHandle", fd, table[fd])
            /\ UNCHANGED table
         \/ /\ table' = closed(handle)
            /\ interest' = forgotten(handle)
            /\ UNCHANGED object
  /\ UNCHANGED <<files, orphans, copied>>

\* If epoll_create1() fails the constructor throws.
epoll_ctx(o) ==
  /\ o \notin Alive
  /\ \/ /\ CanOpen
        /\ Opens(Lowest)
        /\ object' = With(o, "epoll_ctx", Lowest, files + 1)
     \/ UNCHANGED <<table, files, object>>
  /\ UNCHANGED <<interest, users, orphans, copied>>

\* The copy constructor of epoll_ctx copies the descriptor.
copy_epoll_ctx(o, other) ==
  /\ o \notin Alive
  /\ object[other].kind = "epoll_ctx"
  /\ object' = With(o, "epoll_ctx", object[other].fd, object[other].file)
  /\ copied' = copied \cup {object[other].file}
  /\ UNCHANGED <<table, interest, files, users, orphans>>

\* io_uring_handle(): the ring is set up in the storage of a MoveOnly that is
\* made empty and stays so.  If setting it up fails, or registering it, the
\* constructor throws and there is no object to be destroyed.  (A registration
\* that succeeds returns 1 and throws also: the object is more than the code
\* as it stands allows.)
HoldsARing == FALSE

io_uring_handle(o) ==
  /\ o \notin Alive
  /\ \/ /\ CanOpen
        /\ Opens(Lowest)
        /\ \/ object' = With(o, "io_uring_handle", Lowest, files + 1)
           \/ UNCHANGED object
     \/ UNCHANGED <<table, files, object>>
  /\ UNCHANGED <<interest, users, orphans, copied>>

\* ~io_uring_handle() asks the MoveOnly whether there is a ring to exit.
destroy_ring(o) ==
  /\ object[o].kind = "io_uring_handle"
  /\ table' = IF HoldsARing THEN closed(object[o].fd) ELSE table
  /\ object' = Without(o)
  /\ UNCHANGED <<interest, files, users, orphans, copied>>

\* The destructors: remove() from the executor, shutdown() of the socket,
\* close() of the descriptor.
destroy(o) ==
  LET handle == IF object[o].kind = "epoll_ctx" THEN object[o].fd ELSE Handle(object[o].fd)
  IN  /\ object[o].kind # "io_uring_handle"
      /\ table' = closed(handle)
      /\ interest' = forgotten(handle)
      /\ object' = Without(o)
      /\ orphans' = IF object[o].kind = "TcpSocket" /\ object[o].file # 0
                    THEN orphans \cup {object[o].file}
                    ELSE orphans
      /\ UNCHANGED <<files, users, copied>>

Next ==
  \/ UserOpens
  \/ \E fd \in users : UserCloses(fd)
  \/ \E o \in Objects :
       \/ TcpSocket(o)
       \/ \E fd \in users :
            Adopt(o, fd, "OwnedHandle") \/ Adopt(o, fd, "TcpSocket") \/ ExecutorOwnedHandle(o, fd)
       \/ epoll_ctx(o)
       \/ io_uring_handle(o)
       \/ \E other \in Alive : copy_epoll_ctx(o, other)
  \/ \E o \in Alive : destroy(o) \/ destroy_ring(o)

Spec == Init /\ [][Next]_vars
-----------------------------------------------------------------------------
OpenFiles == {table[fd] : fd \in Fds} \ {0}

\* The table and the objects are of their types, no file is open twice, and
\* only open files are registered.
TypeOK ==
  /\ table \in [Fds -> 0 .. files]
  /\ \A fd, other \in Fds : table[fd] = table[other] /\ fd # other => table[fd] = 0
  /\ interest \subseteq OpenFiles
  /\ \A o \in Alive : object[o].fd \in Fds \cup {-1}

\* Until an epoll_ctx is copied, each epoll_ctx and io_uring_handle refers to
\* its own instance for as long as it lives, whatever the other objects close;
\* unless it was given descriptor 1, which every OwnedHandle closes.  The copies
\* would close one descriptor twice, the second time when it may be another's.
ContextStaysOpen ==
  copied = {} =>
    \A o \in Alive :
      object[o].kind \in {"epoll_ctx", "io_uring_handle"} /\ object[o].fd # 1 =>
        table[object[o].fd] = object[o].file

\* "Socket fd close handled by the OwnedHandle destructor" (tcp.cpp:44): a
\* socket is closed when its TcpSocket is destroyed.
SocketsAreClosed == orphans \cap OpenFiles = {}
=============================================================================
