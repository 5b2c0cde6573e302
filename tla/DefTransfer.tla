---------------------------- MODULE DefTransfer -----------------------------
(***************************************************************************)
(* What the streamer promises its client: the definitions are transferred  *)
(* one at a time and in order, each confirmed before the next is sent, and *)
(* data is streamed only when all of them have been confirmed.             *)
(***************************************************************************)
EXTENDS Naturals

VARIABLES total,      \* definitions to transfer
          sealed,     \* no more will be added
          delivered,  \* definitions the client has
          confirmed,  \* definitions the streamer knows the client has
          streaming   \* data may be sent

vars == <<total, sealed, delivered, confirmed, streaming>>

Init ==
  /\ total = 0
  /\ ~ sealed
  /\ delivered = 0
  /\ confirmed = 0
  /\ ~ streaming

Define ==
  /\ ~ sealed
  /\ total' = total + 1
  /\ UNCHANGED <<sealed, delivered, confirmed, streaming>>

Seal ==
  /\ ~ sealed
  /\ sealed' = TRUE
  /\ UNCHANGED <<total, delivered, confirmed, streaming>>

Deliver ==
  /\ sealed
  /\ delivered = confirmed
  /\ delivered < total
  /\ delivered' = delivered + 1
  /\ UNCHANGED <<total, sealed, confirmed, streaming>>

Confirm ==
  /\ confirmed < delivered
  /\ confirmed' = confirmed + 1
  /\ UNCHANGED <<total, sealed, delivered, streaming>>

Stream ==
  /\ sealed
  /\ confirmed = total
  /\ streaming' = TRUE
  /\ UNCHANGED <<total, sealed, delivered, confirmed>>

Next == Define \/ Seal \/ Deliver \/ Confirm \/ Stream

Spec == Init /\ [][Next]_vars

=============================================================================
