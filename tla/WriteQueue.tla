----------------------------- MODULE WriteQueue -----------------------------
(***************************************************************************)
(* What a write queue promises its users, whatever it is built from: a     *)
(* user submits writes, the transport reports how many bytes of the stream *)
(* it has taken, and each write completes once, in the order of            *)
(* submission, after its last byte was taken.                              *)
(*                                                                         *)
(* n3::BufferQueue is shown to implement it (module BufferQueue).          *)
(***************************************************************************)
EXTENDS Integers, Sequences

VARIABLES
  due,        \* due[c]: offset in the byte stream at which write c ends
  acked,      \* bytes of the stream the transport has taken so far
  completed   \* number of writes whose completion was delivered

vars == <<due, acked, completed>>

Submitted == IF due = <<>> THEN 0 ELSE due[Len(due)]

Init ==
  /\ due = <<>>
  /\ acked = 0
  /\ completed = 0

\* A write of some number of bytes, possibly none, joins the stream.
Submit ==
  /\ Len(due') = Len(due) + 1
  /\ SubSeq(due', 1, Len(due)) = due
  /\ due'[Len(due) + 1] - Submitted \in Nat
  /\ UNCHANGED <<acked, completed>>

\* The transport takes some of the bytes that are still waiting.
Take ==
  /\ acked' > acked
  /\ acked' <= Submitted
  /\ UNCHANGED <<due, completed>>

\* The oldest outstanding write completes once its last byte is taken.
Complete ==
  /\ completed < Len(due)
  /\ due[completed + 1] <= acked
  /\ completed' = completed + 1
  /\ UNCHANGED <<due, acked>>

\* Bytes were taken for which no completion has been delivered yet: the
\* completion of a write of no bytes may wait for the write behind it.
Owed ==
  \E c \in completed + 1 .. Len(due) :
    /\ due[c] <= acked
    /\ due[c] > IF completed = 0 THEN 0 ELSE due[completed]

Next == Submit \/ Take \/ Complete

SafeSpec == Init /\ [][Next]_vars

Spec == SafeSpec /\ WF_vars(Owed /\ Complete)
=============================================================================
