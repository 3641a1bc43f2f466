------------------------------ MODULE MoveOnly ------------------------------
(***************************************************************************)
(* n3::MoveOnly<T> (src/ownership.h): objects that hold a value or none,   *)
(* and may be moved but not copied.  std::optional<T> is a set of at most  *)
(* one value; a value is copied when a std::optional is moved from, as an  *)
(* int is: the moved-from optional keeps it.                               *)
(*                                                                         *)
(* A value stands for one construction, by an rvalue that its constructor  *)
(* takes over; those in Shared are put into any number of objects, as a    *)
(* default value is.                                                       *)
(***************************************************************************)
CONSTANTS
  Objects,      \* names of MoveOnly objects
  Values,
  Shared        \* the values that several constructors may be given

ASSUME SharedAssumption == Shared \subseteq Values

VARIABLES
  inner,        \* inner[o]: the optional of each object that is alive
  made,         \* history: the values put into objects so far
  dropped       \* history: values destroyed with, or replaced in, their object

vars == <<inner, made, dropped>>

nullopt == {}

Alive == DOMAIN inner

Init ==
  /\ inner = [o \in {} |-> nullopt]
  /\ made = {}
  /\ dropped = {}

\* The objects with the optionals of those that constitute or change it.
With(new) ==
  [o \in Alive \cup DOMAIN new |-> IF o \in DOMAIN new THEN new[o] ELSE inner[o]]

\* MoveOnly() and MoveOnly(args...).
construct(o, contents) ==
  /\ o \notin Alive
  /\ contents \cap made \subseteq Shared
  /\ inner' = With([x \in {o} |-> contents])
  /\ made' = made \cup contents
  /\ UNCHANGED dropped

\* std::exchange(other.inner, std::nullopt) empties other, then its old
\* contents go to the new object.
move_construct_as_optional(o, other) ==
  /\ o \notin Alive
  /\ other \in Alive
  /\ inner' = With([x \in {o} |-> inner[other]])
  /\ UNCHANGED <<made, dropped>>

move_construct(o, other) ==
  /\ o \notin Alive
  /\ other \in Alive
  /\ inner' = With([x \in {o, other} |-> IF x = o THEN inner[other] ELSE nullopt])
  /\ UNCHANGED <<made, dropped>>

\* The same for assignment, where the two may be one object.
Replaced(o, other) == IF o = other THEN {} ELSE inner[o]

move_assign_then_reset(o, other) ==
  /\ {o, other} \subseteq Alive
  /\ inner' = With([x \in {o, other} |-> IF x = other THEN nullopt ELSE inner[other]])
  /\ dropped' = dropped \cup Replaced(o, other)
  /\ UNCHANGED made

move_assign(o, other) ==
  /\ {o, other} \subseteq Alive
  /\ inner' = With([x \in {o, other} |-> IF x = o THEN inner[other] ELSE nullopt])
  /\ dropped' = dropped \cup Replaced(o, other)
  /\ UNCHANGED made

destroy(o) ==
  /\ o \in Alive
  /\ inner' = [x \in Alive \ {o} |-> inner[x]]
  /\ dropped' = dropped \cup inner[o]
  /\ UNCHANGED made

Next ==
  \E o \in Objects :
    \/ \E v \in Values : construct(o, {v})
    \/ construct(o, nullopt)
    \/ \E other \in Alive : move_construct(o, other) \/ move_assign(o, other)
    \/ destroy(o)

Spec == Init /\ [][Next]_vars
-----------------------------------------------------------------------------
\* The types of the objects and of the history.
TypeOK ==
  /\ Alive \subseteq Objects
  /\ \A o \in Alive : inner[o] \subseteq Values
  /\ made \subseteq Values
  /\ dropped \subseteq made

\* An object has one value at most, no value that was constructed once is in
\* two objects, and none that was destroyed is still in one, whatever the moves
\* (test/ownership.cpp tries one move construction).
UniqueOwner ==
  \A o \in Alive :
    /\ inner[o] \cap dropped \subseteq Shared
    /\ \A v, w \in inner[o] : v = w
    /\ \A p \in Alive : o # p => inner[o] \cap inner[p] \subseteq Shared

\* A move loses no value, not even the move of an object to itself: each
\* value made is in an object until it is destroyed or replaced.
NothingLost == made = dropped \cup UNION {inner[o] : o \in Alive}
=============================================================================
