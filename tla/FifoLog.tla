------------------------------ MODULE FifoLog -------------------------------
(***************************************************************************)
(* What the file logger promises: an append-only file that holds the       *)
(* accepted messages in the order they were accepted, without a gap, and   *)
(* of which a growing prefix is durable.  Messages are numbered 1, 2, ...  *)
(* in the order of acceptance.  The logger may stop at any point.          *)
(***************************************************************************)
EXTENDS Naturals, Sequences

VARIABLES accepted,  \* messages accepted so far
          file,      \* their numbers, in file order
          durable    \* length of the prefix that has been flushed

vars == <<accepted, file, durable>>

Init ==
  /\ accepted = 0
  /\ file = <<>>
  /\ durable = 0

Accept ==
  /\ accepted' = accepted + 1
  /\ UNCHANGED <<file, durable>>

(* The next messages are appended and more of the file becomes durable.    *)
Store ==
  /\ \E n \in 0 .. accepted - Len(file) :
       file' = file \o [i \in 1 .. n |-> Len(file) + i]
  /\ durable' \in durable .. Len(file')
  /\ UNCHANGED accepted

Next == Accept \/ Store

Spec == Init /\ [][Next]_vars

=============================================================================
