--------------------------- MODULE HandlesProofs ---------------------------
(***************************************************************************)
(* The descriptor table and the objects that own descriptors, for tables   *)
(* and programs of any size.                                               *)
(***************************************************************************)
EXTENDS Handles, Recursion

-----------------------------------------------------------------------------
(***************************************************************************)
(* The table.                                                              *)
(***************************************************************************)

\* A set of numbers that is not empty has a least one.
LEMMA LeastExists ==
  ASSUME NEW S \in SUBSET Nat, S # {}
  PROVE  \E n \in S : \A m \in S : n <= m
<1> SUFFICES ASSUME \A n \in S : \E m \in S : ~(n <= m) PROVE FALSE
  OBVIOUS
<1> DEFINE T == {n \in Nat : \A k \in 0 .. n : k \notin S}
<1>1. 0 \in T
  OBVIOUS
<1>2. ASSUME NEW n \in Nat, n \in T PROVE n + 1 \in T
  <2>1. ASSUME NEW k \in 0 .. n + 1, k \in S PROVE FALSE
    <3>1. k = n + 1
      BY <1>2, <2>1
    <3>2. PICK m \in S : ~(n + 1 <= m)
      BY <2>1, <3>1
    <3>3. m \in 0 .. n
      BY <3>2
    <3> QED
      BY <1>2, <3>3
  <2> QED
    BY <2>1
<1>3. \A n \in T : n \notin S
  OBVIOUS
<1> HIDE DEF T
<1>4. Nat \subseteq T
  BY <1>1, <1>2, NatInductionSet
<1> QED
  BY <1>3, <1>4

LEMMA LowestIsFree ==
  ASSUME CanOpen
  PROVE  Lowest \in Fds /\ table[Lowest] = 0
<1>1. Free \in SUBSET Nat /\ Free # {}
  BY HandlesAssumption DEF Free, Fds, CanOpen
<1>2. \E fd \in Free : \A free \in Free : fd <= free
  BY <1>1, LeastExists
<1>3. Lowest \in Free
  BY <1>2, Zenon DEF Lowest
<1> QED
  BY <1>3 DEF Free

LEMMA OneIsAnFd == 1 \in Fds
  BY HandlesAssumption DEF Fds

\* The objects that own an epoll instance or a ring.
Owners == {o \in Alive : object[o].kind \in {"epoll_ctx", "io_uring_handle"}}

\* What is true of the table and of the owners' descriptors.
Typed ==
  /\ files \in Nat
  /\ users \subseteq Fds
  /\ TypeOK
  /\ \A o \in Owners : object[o].fd \in Fds

\* The descriptors the objects have.
ObjectsTyped ==
  /\ \A o \in Alive : object[o].fd \in Fds \cup {-1}
  /\ \A o \in Owners : object[o].fd \in Fds

LEMMA OpensKeepsTyped ==
  ASSUME Typed, CanOpen, Opens(Lowest), interest' = interest,
         users' \subseteq Fds, ObjectsTyped'
  PROVE  Typed'
<1>1. PICK fd \in Fds : fd = Lowest /\ table[fd] = 0
  BY LowestIsFree
<1>2. /\ table' = [table EXCEPT ![fd] = files + 1]
      /\ files' = files + 1
  BY <1>1 DEF Opens
<1>3. /\ files \in Nat
      /\ table \in [Fds -> 0 .. files]
      /\ \A f, other \in Fds : table[f] = table[other] /\ f # other => table[f] = 0
      /\ interest \subseteq OpenFiles
  BY DEF Typed, TypeOK
<1>4. files' \in Nat /\ table' \in [Fds -> 0 .. files']
  BY <1>2, <1>3
<1>5. ASSUME NEW f \in Fds, NEW other \in Fds, table'[f] = table'[other], f # other
      PROVE  table'[f] = 0
  <2>1. table[f] # files + 1 /\ table[other] # files + 1
    BY <1>3
  <2> QED
    BY <1>2, <1>3, <1>5, <2>1
<1>6. interest' \subseteq OpenFiles'
  <2>1. ASSUME NEW file \in interest PROVE file \in OpenFiles'
    <3>1. PICK f \in Fds : file = table[f] /\ file # 0
      BY <1>3, <2>1 DEF OpenFiles
    <3>2. table'[f] = file
      BY <1>1, <1>2, <1>3, <3>1
    <3> QED
      BY <3>1, <3>2 DEF OpenFiles
  <2> QED
    BY <2>1
<1>7. TypeOK'
  BY <1>4, <1>5, <1>6 DEF TypeOK, ObjectsTyped
<1> QED
  BY <1>4, <1>7 DEF Typed, ObjectsTyped

LEMMA CloseKeepsTyped ==
  ASSUME Typed, NEW fd \in Fds \cup {-1}, table' = closed(fd), interest' = forgotten(fd),
         files' = files, users' \subseteq Fds, ObjectsTyped'
  PROVE  Typed'
<1>1. /\ files \in Nat
      /\ table \in [Fds -> 0 .. files]
      /\ \A f, other \in Fds : table[f] = table[other] /\ f # other => table[f] = 0
      /\ interest \subseteq OpenFiles
  BY DEF Typed, TypeOK
<1>2. CASE fd \in Fds
  <2>1. table' = [table EXCEPT ![fd] = 0] /\ interest' = interest \ {table[fd]}
    BY <1>2 DEF closed, forgotten
  <2>2. table' \in [Fds -> 0 .. files']
    <3>1. 0 \in 0 .. files
      BY <1>1
    <3> QED
      BY <1>1, <2>1, <3>1
  <2>3. \A f, other \in Fds : table'[f] = table'[other] /\ f # other => table'[f] = 0
    BY <1>1, <2>1
  <2>4. ASSUME NEW file \in interest' PROVE file \in OpenFiles'
    <3>1. PICK f \in Fds : file = table[f] /\ file # 0
      BY <1>1, <2>1 DEF OpenFiles
    <3>2. f # fd
      BY <2>1, <3>1
    <3>3. table'[f] = file
      BY <1>1, <2>1, <3>1, <3>2
    <3> QED
      BY <3>1, <3>3 DEF OpenFiles
  <2>5. TypeOK'
    BY <2>2, <2>3, <2>4 DEF TypeOK, ObjectsTyped
  <2> QED
    BY <1>1, <2>5 DEF Typed, ObjectsTyped
<1>3. CASE fd \notin Fds
  <2>1. table' = table /\ interest' = interest
    BY <1>3 DEF closed, forgotten
  <2>2. TypeOK'
    BY <2>1 DEF Typed, TypeOK, ObjectsTyped, OpenFiles
  <2> QED
    BY <1>1, <2>2 DEF Typed, ObjectsTyped
<1> QED
  BY <1>2, <1>3

\* The steps that open and close nothing.
LEMMA TableKeptTyped ==
  ASSUME Typed, table' = table, files' = files,
         interest' \subseteq OpenFiles, users' \subseteq Fds, ObjectsTyped'
  PROVE  Typed'
<1>1. TypeOK'
  BY DEF Typed, TypeOK, ObjectsTyped, OpenFiles
<1> QED
  BY <1>1 DEF Typed, ObjectsTyped

\* A new object, and the end of one.
LEMMA WithTyped ==
  ASSUME Typed, NEW o, NEW kind, NEW fd \in Fds \cup {-1}, NEW file,
         kind \in {"epoll_ctx", "io_uring_handle"} => fd \in Fds,
         object' = With(o, kind, fd, file)
  PROVE  ObjectsTyped'
<1>1. \A x \in Alive' : \/ x = o /\ object'[x] = [kind |-> kind, fd |-> fd, file |-> file]
                        \/ x \in Alive /\ object'[x] = object[x]
  BY DEF With, Alive
<1> QED
  BY <1>1 DEF Typed, TypeOK, ObjectsTyped, Owners

LEMMA WithoutTyped ==
  ASSUME Typed, NEW o, object' = Without(o)
  PROVE  ObjectsTyped'
<1>1. \A x \in Alive' : x \in Alive /\ object'[x] = object[x]
  BY DEF Without, Alive
<1> QED
  BY <1>1 DEF Typed, TypeOK, ObjectsTyped, Owners

LEMMA SameObjectsTyped ==
  ASSUME Typed, object' = object
  PROVE  ObjectsTyped'
  BY DEF Typed, TypeOK, ObjectsTyped, Owners, Alive

\* Every action keeps the table and the objects of their types.
LEMMA OpeningsKeepTyped ==
  ASSUME Typed
  PROVE  /\ UserOpens => Typed'
         /\ \A o : TcpSocket(o) \/ epoll_ctx(o) \/ io_uring_handle(o) => Typed'
<1>1. /\ users \subseteq Fds /\ interest \subseteq OpenFiles
  BY DEF Typed, TypeOK
<1>2. ASSUME UserOpens PROVE Typed'
  <2>1. CanOpen /\ Lowest \in Fds /\ Opens(Lowest)
    BY <1>2, LowestIsFree DEF UserOpens
  <2>2. users' \subseteq Fds /\ interest' = interest /\ object' = object
    BY <1>1, <1>2, <2>1 DEF UserOpens
  <2>3. ObjectsTyped'
    BY <2>2, SameObjectsTyped
  <2> QED
    BY <1>1, <2>1, <2>2, <2>3, OpensKeepsTyped
<1>3. ASSUME NEW o, TcpSocket(o) PROVE Typed'
  <2>1. users' = users /\ interest' = interest
    BY <1>3 DEF TcpSocket
  <2>2. CASE CanOpen /\ Opens(Lowest) /\ object' = With(o, "TcpSocket", Lowest, files + 1)
    <3>1. ObjectsTyped'
      BY <2>2, LowestIsFree, WithTyped
    <3> QED
      BY <1>1, <2>1, <2>2, <3>1, OpensKeepsTyped
  <2>3. CASE /\ object' = IF Handle(-1) = -1 THEN object ELSE With(o, "TcpSocket", -1, 0)
             /\ UNCHANGED <<table, files>>
    <3>1. object' = With(o, "TcpSocket", -1, 0)
      BY <2>3 DEF Handle
    <3>2. ObjectsTyped'
      BY <3>1, WithTyped
    <3> QED
      BY <1>1, <2>1, <2>3, <3>2, TableKeptTyped
  <2> QED
    BY <1>3, <2>2, <2>3, Zenon DEF TcpSocket
<1>4. ASSUME NEW o, NEW kind, CanOpen, Opens(Lowest), users' = users, interest' = interest,
             object' = With(o, kind, Lowest, files + 1) \/ object' = object
      PROVE  Typed'
  <2>1. ObjectsTyped'
    BY <1>4, LowestIsFree, WithTyped, SameObjectsTyped
  <2> QED
    BY <1>1, <1>4, <2>1, OpensKeepsTyped
<1>5. ASSUME UNCHANGED <<table, files, object>>, users' = users, interest' = interest
      PROVE  Typed'
  BY <1>1, <1>5, SameObjectsTyped, TableKeptTyped
<1>6. ASSUME NEW o, epoll_ctx(o) PROVE Typed'
  BY <1>4, <1>5, <1>6, Zenon DEF epoll_ctx
<1>7. ASSUME NEW o, io_uring_handle(o) PROVE Typed'
  BY <1>4, <1>5, <1>7, Zenon DEF io_uring_handle
<1> QED
  BY <1>2, <1>3, <1>6, <1>7

LEMMA OthersKeepTyped ==
  ASSUME Typed
  PROVE  /\ \A fd \in users : UserCloses(fd) => Typed'
         /\ \A o : \A fd \in users : \A kind \in {"OwnedHandle", "TcpSocket"} :
              Adopt(o, fd, kind) => Typed'
         /\ \A o : \A fd \in users : ExecutorOwnedHandle(o, fd) => Typed'
         /\ \A o : \A other \in Alive : copy_epoll_ctx(o, other) => Typed'
         /\ \A o \in Alive : destroy(o) \/ destroy_ring(o) => Typed'
<1>1. users \subseteq Fds /\ interest \subseteq OpenFiles
  BY DEF Typed, TypeOK
<1>2. ASSUME NEW fd \in users, UserCloses(fd) PROVE Typed'
  <2>1. /\ table' = closed(fd) /\ interest' = forgotten(fd) /\ files' = files
        /\ users' \subseteq Fds /\ object' = object
    BY <1>1, <1>2 DEF UserCloses
  <2>2. ObjectsTyped'
    BY <2>1, SameObjectsTyped
  <2> QED
    BY <1>1, <2>1, <2>2, CloseKeepsTyped
<1>3. ASSUME NEW o, NEW fd \in users, NEW kind \in {"OwnedHandle", "TcpSocket"},
             Adopt(o, fd, kind)
      PROVE  Typed'
  <2>1. /\ table' = table /\ files' = files /\ interest' = interest
        /\ users' \subseteq Fds /\ object' = With(o, kind, fd, table[fd])
    BY <1>1, <1>3 DEF Adopt
  <2>2. ObjectsTyped'
    BY <1>1, <2>1, WithTyped
  <2> QED
    BY <1>1, <2>1, <2>2, TableKeptTyped
<1>4. ASSUME NEW o, NEW fd \in users, ExecutorOwnedHandle(o, fd) PROVE Typed'
  <2>1. users' \subseteq Fds /\ files' = files
    BY <1>1, <1>4 DEF ExecutorOwnedHandle
  <2>2. CASE /\ table[1] \notin {0} \cup interest
             /\ interest' = interest \cup {table[1]}
             /\ object' = With(o, "ExecutorOwnedHandle", fd, table[fd])
             /\ UNCHANGED table
    <3>1. ObjectsTyped'
      BY <1>1, <2>2, WithTyped
    <3>2. table[1] \in OpenFiles
      BY <2>2, OneIsAnFd DEF OpenFiles
    <3> QED
      BY <1>1, <2>1, <2>2, <3>1, <3>2, TableKeptTyped
  <2>3. CASE table' = closed(1) /\ interest' = forgotten(1) /\ UNCHANGED object
    <3>1. ObjectsTyped'
      BY <2>3, SameObjectsTyped
    <3> QED
      BY <2>1, <2>3, <3>1, OneIsAnFd, CloseKeepsTyped
  <2> QED
    BY <1>4, <2>2, <2>3 DEF ExecutorOwnedHandle, Handle
<1>5. ASSUME NEW o, NEW other \in Alive, copy_epoll_ctx(o, other) PROVE Typed'
  <2>1. /\ table' = table /\ files' = files /\ interest' = interest
        /\ users' = users
        /\ object' = With(o, "epoll_ctx", object[other].fd, object[other].file)
    BY <1>5 DEF copy_epoll_ctx
  <2>2. object[other].fd \in Fds
    BY <1>5 DEF Typed, Owners, copy_epoll_ctx
  <2>3. ObjectsTyped'
    BY <2>1, <2>2, WithTyped
  <2> QED
    BY <1>1, <2>1, <2>3, TableKeptTyped
<1>6. ASSUME NEW o \in Alive, destroy(o) PROVE Typed'
  <2> DEFINE fd == IF object[o].kind = "epoll_ctx" THEN object[o].fd ELSE 1
  <2>1. /\ table' = closed(fd) /\ interest' = forgotten(fd) /\ files' = files
        /\ users' = users /\ object' = Without(o)
    BY <1>6 DEF destroy, Handle
  <2>2. fd \in Fds
    BY OneIsAnFd DEF Typed, Owners
  <2>3. ObjectsTyped'
    BY <2>1, WithoutTyped
  <2> QED
    BY <1>1, <2>1, <2>2, <2>3, CloseKeepsTyped
<1>7. ASSUME NEW o \in Alive, destroy_ring(o) PROVE Typed'
  <2>1. /\ table' = table /\ files' = files /\ interest' = interest
        /\ users' = users /\ object' = Without(o)
    BY <1>7 DEF destroy_ring, HoldsARing
  <2>2. ObjectsTyped'
    BY <2>1, WithoutTyped
  <2> QED
    BY <1>1, <2>1, <2>2, TableKeptTyped
<1> QED
  BY <1>2, <1>3, <1>4, <1>5, <1>6, <1>7

LEMMA TypedInit == Init => Typed
<1> SUFFICES ASSUME Init PROVE Typed
  OBVIOUS
<1>1. table = [fd \in Fds |-> IF fd <= 2 THEN fd + 1 ELSE 0] /\ files = 3
  BY DEF Init
<1>2. table \in [Fds -> 0 .. files]
  BY <1>1, HandlesAssumption DEF Fds
<1>3. ASSUME NEW f \in Fds, NEW other \in Fds, table[f] = table[other], f # other
      PROVE  table[f] = 0
  BY <1>1, <1>3, HandlesAssumption DEF Fds
<1>4. Alive = {}
  BY DEF Init, Alive
<1>5. users \subseteq Fds
  BY HandlesAssumption DEF Init, Fds
<1>6. TypeOK
  BY <1>2, <1>3, <1>4 DEF TypeOK, Init
<1> QED
  BY <1>1, <1>4, <1>5, <1>6 DEF Typed, Owners, Init

LEMMA TypedStep == Typed /\ [Next]_vars => Typed'
<1> SUFFICES ASSUME Typed, [Next]_vars PROVE Typed'
  OBVIOUS
<1>1. CASE UNCHANGED vars
  BY <1>1 DEF vars, Typed, TypeOK, Owners, OpenFiles, Alive
<1>2. CASE Next
  BY <1>2, OpeningsKeepTyped, OthersKeepTyped, Zenon DEF Next
<1> QED
  BY <1>1, <1>2

\* Whatever is opened, handed over, copied, destroyed and closed, in any
\* order: no file is open twice and only open files are registered.
THEOREM TableTyped == Spec => []TypeOK
<1>1. Typed => TypeOK
  BY DEF Typed
<1> QED
  BY <1>1, TypedInit, TypedStep, PTL DEF Spec

-----------------------------------------------------------------------------
(***************************************************************************)
(* What owns a descriptor alone.                                           *)
(***************************************************************************)

\* A descriptor that is open on its file and that no user closes: or it is 1.
Claim(fd, file) ==
  fd \in Fds /\ (fd # 1 => fd \notin users /\ table[fd] = file /\ file # 0)

\* The instances have descriptors of their own, and the user's
\* are open; of descriptor 1 nothing is known.
Apart ==
  /\ \A fd \in users : fd # 1 => table[fd] # 0
  /\ \A o \in Owners : Claim(object[o].fd, object[o].file)
  /\ \A o, other \in Owners : object[o].fd = object[other].fd /\ o # other => object[o].fd = 1

\* The inductive invariant.
Owned == Typed /\ (copied = {} => Apart)

\* A step that makes no instance and nothing of the user's keeps them
\* apart if what it closes or opens is descriptor 1, or nobody's afterwards.
LEMMA ApartKept ==
  ASSUME Typed, Apart, users' \subseteq users,
         \A o \in Owners' : o \in Owners /\ object'[o] = object[o],
         \A fd \in Fds : fd # 1 /\ table'[fd] # table[fd] =>
            /\ fd \notin users'
            /\ \A o \in Owners' : object[o].fd # fd
  PROVE  Apart'
<1>1. \A fd \in users' : fd # 1 => table'[fd] # 0
  BY DEF Typed, Apart
<1>2. ASSUME NEW o \in Owners' PROVE Claim(object[o].fd, object[o].file)'
  BY <1>2 DEF Apart, Claim
<1>3. \A o, other \in Owners' :
        object'[o].fd = object'[other].fd /\ o # other => object'[o].fd = 1
  BY DEF Apart
<1> QED
  BY <1>1, <1>2, <1>3 DEF Apart

\* The descriptor that is opened was nobody's, or it is 1.
LEMMA OpenedIsNew ==
  ASSUME Typed, Apart, CanOpen, Opens(Lowest)
  PROVE  /\ Lowest \in Fds /\ table'[Lowest] = files + 1 /\ files + 1 # 0
         /\ \A fd \in Fds : fd # Lowest => table'[fd] = table[fd]
         /\ Lowest # 1 => /\ Lowest \notin users
                          /\ \A o \in Owners : object[o].fd # Lowest
<1>1. Lowest \in Fds /\ table[Lowest] = 0
  BY LowestIsFree
<1>2. table' = [table EXCEPT ![Lowest] = files + 1]
  BY DEF Opens
<1>3. table \in [Fds -> 0 .. files] /\ files \in Nat
  BY DEF Typed, TypeOK
<1>4. table'[Lowest] = files + 1 /\ files + 1 # 0
  BY <1>1, <1>2, <1>3
<1>5. \A fd \in Fds : fd # Lowest => table'[fd] = table[fd]
  BY <1>2, <1>3
<1>6. Lowest # 1 => /\ Lowest \notin users
                    /\ \A o \in Owners : object[o].fd # Lowest
  BY <1>1 DEF Apart, Claim
<1> QED
  BY <1>1, <1>4, <1>5, <1>6

\* What With and Without leave of the owners.
LEMMA OwnersOfWith ==
  ASSUME NEW o, NEW kind, NEW fd, NEW file, object' = With(o, kind, fd, file)
  PROVE  \A x \in Owners' : \/ x \in Owners /\ object'[x] = object[x]
                            \/ /\ kind \in {"epoll_ctx", "io_uring_handle"}
                               /\ x = o /\ object'[x].fd = fd /\ object'[x].file = file
<1>1. \A x \in Alive' : \/ x = o /\ object'[x] = [kind |-> kind, fd |-> fd, file |-> file]
                        \/ x \in Alive /\ object'[x] = object[x]
  BY DEF With, Alive
<1> QED
  BY <1>1 DEF Owners

LEMMA OwnersOfWithout ==
  ASSUME NEW o, object' = Without(o)
  PROVE  \A x \in Owners' : x # o /\ x \in Owners /\ object'[x] = object[x]
  BY DEF Owners, Without, Alive

LEMMA OwnersSame ==
  ASSUME object' = object
  PROVE  \A x \in Owners' : x \in Owners /\ object'[x] = object[x]
  BY DEF Owners, Alive

\* Closing changes the descriptor that is closed.
LEMMA ClosedOnly ==
  ASSUME Typed, NEW fd, table' = closed(fd)
  PROVE  \A other \in Fds : table'[other] # table[other] => other = fd
  BY DEF Typed, TypeOK, closed

LEMMA OpeningsKeepApart ==
  ASSUME Typed, Apart
  PROVE  /\ UserOpens => Apart'
         /\ \A o : TcpSocket(o) => Apart'
         /\ \A o : epoll_ctx(o) => Apart'
         /\ \A o : io_uring_handle(o) => Apart'
<1>1. ASSUME UserOpens PROVE Apart'
  <2>1. CanOpen /\ Opens(Lowest) /\ users' = users \cup {Lowest}
    BY <1>1 DEF UserOpens
  <2>2. \A x \in Owners' : x \in Owners /\ object'[x] = object[x]
    BY <1>1, OwnersSame DEF UserOpens
  <2>3. \A fd \in users' : fd # 1 => table'[fd] # 0
    BY <2>1, OpenedIsNew DEF Typed, Apart
  <2>4. ASSUME NEW o \in Owners' PROVE Claim(object[o].fd, object[o].file)'
    BY <2>1, <2>2, <2>4, OpenedIsNew DEF Apart, Claim
  <2>5. \A o, other \in Owners' :
          object'[o].fd = object'[other].fd /\ o # other => object'[o].fd = 1
    BY <2>2 DEF Apart
  <2> QED
    BY <2>3, <2>4, <2>5 DEF Apart
<1>2. ASSUME NEW o, TcpSocket(o) PROVE Apart'
  <2>1. users' = users
    BY <1>2 DEF TcpSocket
  <2>2. CASE CanOpen /\ Opens(Lowest) /\ object' = With(o, "TcpSocket", Lowest, files + 1)
    <3>1. \A x \in Owners' : x \in Owners /\ object'[x] = object[x]
      BY <2>2, OwnersOfWith
    <3> QED
      BY <2>1, <2>2, <3>1, OpenedIsNew, ApartKept
  <2>3. CASE /\ object' = IF Handle(-1) = -1 THEN object ELSE With(o, "TcpSocket", -1, 0)
             /\ UNCHANGED <<table, files>>
    <3>1. object' = With(o, "TcpSocket", -1, 0)
      BY <2>3 DEF Handle
    <3>2. \A x \in Owners' : x \in Owners /\ object'[x] = object[x]
      BY <3>1, OwnersOfWith
    <3> QED
      BY <2>1, <2>3, <3>2, ApartKept
  <2> QED
    BY <1>2, <2>2, <2>3, Zenon DEF TcpSocket
<1>3. ASSUME NEW o, NEW kind, CanOpen, Opens(Lowest), users' = users,
             object' = With(o, kind, Lowest, files + 1) \/ object' = object
      PROVE  Apart'
  <2>1. \A x \in Owners' : \/ x \in Owners /\ object'[x] = object[x]
                           \/ x = o /\ object'[x].fd = Lowest /\ object'[x].file = files + 1
    BY <1>3, OwnersOfWith, OwnersSame
  <2>2. \A fd \in users' : fd # 1 => table'[fd] # 0
    BY <1>3, OpenedIsNew DEF Typed, Apart
  <2>3. ASSUME NEW x \in Owners' PROVE Claim(object[x].fd, object[x].file)'
    <3>1. CASE x \in Owners /\ object'[x] = object[x]
      BY <1>3, <3>1, OpenedIsNew DEF Apart, Claim
    <3>2. CASE object'[x].fd = Lowest /\ object'[x].file = files + 1
      BY <1>3, <3>2, OpenedIsNew DEF Claim
    <3> QED
      BY <2>1, <3>1, <3>2
  <2>4. \A x, other \in Owners' :
          object'[x].fd = object'[other].fd /\ x # other => object'[x].fd = 1
    BY <1>3, <2>1, OpenedIsNew DEF Apart
  <2> QED
    BY <2>2, <2>3, <2>4 DEF Apart
<1>4. ASSUME UNCHANGED <<table, files, object>>, users' = users PROVE Apart'
  BY <1>4, OwnersSame, ApartKept
<1>5. ASSUME NEW o, epoll_ctx(o) PROVE Apart'
  BY <1>3, <1>4, <1>5, Zenon DEF epoll_ctx
<1>6. ASSUME NEW o, io_uring_handle(o) PROVE Apart'
  BY <1>3, <1>4, <1>6, Zenon DEF io_uring_handle
<1> QED
  BY <1>1, <1>2, <1>5, <1>6

LEMMA OthersKeepApart ==
  ASSUME Typed, Apart
  PROVE  /\ \A fd \in users : UserCloses(fd) => Apart'
         /\ \A o : \A fd \in users : \A kind \in {"OwnedHandle", "TcpSocket"} :
              Adopt(o, fd, kind) => Apart'
         /\ \A o : \A fd \in users : ExecutorOwnedHandle(o, fd) => Apart'
         /\ \A o \in Alive : destroy(o) \/ destroy_ring(o) => Apart'
<1>1. ASSUME NEW fd \in users, UserCloses(fd) PROVE Apart'
  <2>1. table' = closed(fd) /\ users' = users \ {fd} /\ object' = object
    BY <1>1 DEF UserCloses
  <2>2. fd # 1 => \A o \in Owners : object[o].fd # fd
    BY DEF Apart, Claim
  <2> QED
    BY <2>1, <2>2, ClosedOnly, OwnersSame, ApartKept
<1>2. ASSUME NEW o, NEW fd \in users, NEW kind \in {"OwnedHandle", "TcpSocket"},
             Adopt(o, fd, kind)
      PROVE  Apart'
  <2>1. /\ table' = table /\ users' = users \ {fd}
        /\ object' = With(o, kind, fd, table[fd])
    BY <1>2 DEF Adopt
  <2>2. \A x \in Owners' : x \in Owners /\ object'[x] = object[x]
    BY <2>1, OwnersOfWith
  <2> QED
    BY <2>1, <2>2, ApartKept
<1>3. ASSUME NEW o, NEW fd \in users, ExecutorOwnedHandle(o, fd) PROVE Apart'
  <2>1. users' = users \ {fd}
    BY <1>3 DEF ExecutorOwnedHandle
  <2>2. \/ table' = table /\ object' = With(o, "ExecutorOwnedHandle", fd, table[fd])
        \/ table' = closed(1) /\ object' = object
    BY <1>3 DEF ExecutorOwnedHandle, Handle
  <2>3. \A x \in Owners' : x \in Owners /\ object'[x] = object[x]
    BY <2>2, OwnersOfWith, OwnersSame
  <2>4. \A other \in Fds : table'[other] # table[other] => other = 1
    BY <2>2, ClosedOnly
  <2> QED
    BY <2>1, <2>3, <2>4, ApartKept
<1>4. ASSUME NEW o \in Alive, destroy(o) PROVE Apart'
  <2> DEFINE fd == IF object[o].kind = "epoll_ctx" THEN object[o].fd ELSE 1
  <2>1. table' = closed(fd) /\ users' = users /\ object' = Without(o)
    BY <1>4 DEF destroy, Handle
  <2>2. \A x \in Owners' : x # o /\ x \in Owners /\ object'[x] = object[x]
    BY <2>1, OwnersOfWithout
  <2>3. fd # 1 => o \in Owners
    BY DEF Owners
  <2>4. fd # 1 => /\ fd \notin users
                  /\ \A x \in Owners' : object[x].fd # fd
    BY <2>2, <2>3 DEF Apart, Claim
  <2>5. \A other \in Fds : table'[other] # table[other] => other = fd
    BY <2>1, ClosedOnly
  <2> HIDE DEF fd
  <2> QED
    BY <2>1, <2>2, <2>4, <2>5, ApartKept
<1>5. ASSUME NEW o \in Alive, destroy_ring(o) PROVE Apart'
  <2>1. table' = table /\ users' = users /\ object' = Without(o)
    BY <1>5 DEF destroy_ring, HoldsARing
  <2> QED
    BY <2>1, OwnersOfWithout, ApartKept
<1> QED
  BY <1>1, <1>2, <1>3, <1>4, <1>5

\* That an epoll_ctx was copied is not forgotten.
LEMMA CopiedStays ==
  ASSUME [Next]_vars, copied' = {}
  PROVE  copied = {}
<1>1. ASSUME NEW o, NEW other \in Alive, copy_epoll_ctx(o, other) PROVE copied = {}
  BY <1>1 DEF copy_epoll_ctx
<1> QED
  BY <1>1 DEF Next, vars, UserOpens, UserCloses, TcpSocket, Adopt, ExecutorOwnedHandle,
              epoll_ctx, io_uring_handle, destroy, destroy_ring

LEMMA OwnedInit == Init => Owned
<1> SUFFICES ASSUME Init PROVE Owned
  OBVIOUS
<1>1. Alive = {} /\ Owners = {}
  BY DEF Init, Alive, Owners
<1>2. \A fd \in users : fd # 1 => table[fd] # 0
  BY HandlesAssumption DEF Init, Fds
<1> QED
  BY <1>1, <1>2, TypedInit DEF Owned, Apart

LEMMA OwnedStep == Owned /\ [Next]_vars => Owned'
<1> SUFFICES ASSUME Owned, [Next]_vars, copied' = {} PROVE Apart'
  BY TypedStep DEF Owned
<1>1. Typed /\ Apart
  BY CopiedStays DEF Owned
<1>2. CASE UNCHANGED vars
  BY <1>1, <1>2 DEF vars, Apart, Claim, Owners, Alive
<1>3. CASE Next
  <2>1. ~\E o, other : copy_epoll_ctx(o, other)
    BY DEF copy_epoll_ctx
  <2> QED
    BY <1>1, <1>3, <2>1, OpeningsKeepApart, OthersKeepApart, Zenon DEF Next
<1> QED
  BY <1>2, <1>3

\* Until an epoll_ctx is copied, none and no io_uring_handle loses its instance
\* to what other objects or the user close, unless it has descriptor 1.
THEOREM ContextsKeepTheirEpoll == Spec => []ContextStaysOpen
<1>1. Owned => ContextStaysOpen
  BY DEF Owned, Apart, Claim, Owners, ContextStaysOpen
<1> QED
  BY <1>1, OwnedInit, OwnedStep, PTL DEF Spec
=============================================================================
