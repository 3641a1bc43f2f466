--------------------------- MODULE MoveOnlyProofs ---------------------------
(***************************************************************************)
(* The ownership of values by MoveOnly objects, for any objects and values *)
(* and any program of constructions, moves, assignments and destructions.  *)
(***************************************************************************)
EXTENDS MoveOnly, TLAPS

\* The inductive invariant.
Ownership == TypeOK /\ UniqueOwner /\ NothingLost

\* What With makes of the objects.
LEMMA WithLookup ==
  ASSUME NEW new
  PROVE  /\ DOMAIN With(new) = Alive \cup DOMAIN new
         /\ \A o \in DOMAIN new : With(new)[o] = new[o]
         /\ \A o \in Alive \ DOMAIN new : With(new)[o] = inner[o]
  BY DEF With, Alive

LEMMA OwnershipInit == Init => Ownership
  BY DEF Init, Ownership, TypeOK, UniqueOwner, NothingLost, Alive, nullopt

LEMMA OwnershipStep == Ownership /\ [Next]_vars => Ownership'
<1> SUFFICES ASSUME Ownership, [Next]_vars PROVE Ownership'
  OBVIOUS
<1>1. ASSUME NEW o \in Objects, NEW contents \in SUBSET Values, construct(o, contents),
             \A v, w \in contents : v = w
      PROVE  Ownership'
  <2> DEFINE new == [x \in {o} |-> contents]
  <2>1. /\ inner' = With(new)
        /\ DOMAIN With(new) = Alive \cup {o}
        /\ With(new)[o] = contents
        /\ \A p \in Alive : With(new)[p] = inner[p]
    BY <1>1, WithLookup DEF construct
  <2> QED
    BY <1>1, <2>1 DEF construct, Ownership, TypeOK, UniqueOwner, NothingLost, Alive
<1>2. ASSUME NEW o \in Objects, NEW other \in Alive, move_construct(o, other)
      PROVE  Ownership'
  <2> DEFINE new == [x \in {o, other} |-> IF x = o THEN inner[other] ELSE nullopt]
  <2>1. inner' = With(new)
    BY <1>2 DEF move_construct
  <2>2. /\ DOMAIN new = {o, other}
        /\ new[o] = inner[other]
        /\ o # other => new[other] = {}
    BY DEF nullopt
  <2> HIDE DEF new
  <2>3. /\ DOMAIN With(new) = Alive \cup {o, other}
        /\ \A p \in {o, other} : With(new)[p] = new[p]
        /\ \A p \in Alive \ {o, other} : With(new)[p] = inner[p]
    BY <2>2, WithLookup
  <2>4. o \notin Alive /\ made' = made /\ dropped' = dropped
    BY <1>2 DEF move_construct
  <2>5. /\ Alive' = Alive \cup {o}
        /\ inner'[o] = inner[other]
        /\ o # other => inner'[other] = {}
        /\ \A p \in Alive \ {o, other} : inner'[p] = inner[p]
    BY <2>1, <2>2, <2>3, <2>4 DEF Alive
  <2>6. TypeOK'
    BY <2>4, <2>5 DEF Ownership, TypeOK, NothingLost
  <2>7. UniqueOwner'
    BY <2>4, <2>5 DEF Ownership, UniqueOwner
  <2>8. NothingLost'
    BY <2>4, <2>5 DEF Ownership, NothingLost
  <2> QED
    BY <2>6, <2>7, <2>8 DEF Ownership
<1>3. ASSUME NEW o \in Objects, NEW other \in Alive, move_assign(o, other)
      PROVE  Ownership'
  <2> DEFINE new == [x \in {o, other} |-> IF x = o THEN inner[other] ELSE nullopt]
  <2>1. inner' = With(new)
    BY <1>3 DEF move_assign
  <2>2. /\ DOMAIN new = {o, other}
        /\ new[o] = inner[other]
        /\ o # other => new[other] = {}
    BY DEF nullopt
  <2> HIDE DEF new
  <2>3. /\ DOMAIN With(new) = Alive \cup {o, other}
        /\ \A p \in {o, other} : With(new)[p] = new[p]
        /\ \A p \in Alive \ {o, other} : With(new)[p] = inner[p]
    BY <2>2, WithLookup
  <2>4. o \in Alive /\ made' = made /\ dropped' = dropped \cup Replaced(o, other)
    BY <1>3 DEF move_assign
  <2>5. /\ Alive' = Alive
        /\ inner'[o] = inner[other]
        /\ o # other => inner'[other] = {}
        /\ \A p \in Alive \ {o, other} : inner'[p] = inner[p]
    BY <2>1, <2>2, <2>3, <2>4 DEF Alive
  <2>6. TypeOK'
    BY <2>4, <2>5 DEF Ownership, TypeOK, NothingLost, Replaced
  <2>7. UniqueOwner'
    BY <2>4, <2>5 DEF Ownership, UniqueOwner, Replaced
  <2>8. NothingLost'
    BY <2>4, <2>5 DEF Ownership, NothingLost, Replaced
  <2> QED
    BY <2>6, <2>7, <2>8 DEF Ownership
<1>4. ASSUME NEW o \in Objects, destroy(o) PROVE Ownership'
  BY <1>4 DEF destroy, Ownership, TypeOK, UniqueOwner, NothingLost, Alive
<1>5. CASE UNCHANGED vars
  BY <1>5 DEF vars, Ownership, TypeOK, UniqueOwner, NothingLost, Alive
<1>6. ASSUME NEW o \in Objects, NEW v \in Values, construct(o, {v}) PROVE Ownership'
  BY <1>1, <1>6
<1>7. ASSUME NEW o \in Objects, construct(o, nullopt) PROVE Ownership'
  BY <1>1, <1>7 DEF nullopt
<1> QED
  BY <1>2, <1>3, <1>4, <1>5, <1>6, <1>7 DEF Next

LEMMA OwnershipInvariant == Spec => []Ownership
  BY OwnershipInit, OwnershipStep, PTL DEF Spec

\* An object has one value at most, and a value that was constructed once, one
\* object at most.
THEOREM ValuesHaveUniqueOwners == Spec => []UniqueOwner
<1>1. Ownership => UniqueOwner
  BY DEF Ownership
<1> QED
  BY OwnershipInvariant, <1>1, PTL

\* Moves lose no value.
THEOREM MovesLoseNothing == Spec => []NothingLost
<1>1. Ownership => NothingLost
  BY DEF Ownership
<1> QED
  BY OwnershipInvariant, <1>1, PTL
=============================================================================
