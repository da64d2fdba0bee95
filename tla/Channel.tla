------------------------------ MODULE Channel ------------------------------
(***************************************************************************)
(* What a pipe promises: a first-in first-out queue of at most Capacity    *)
(* bytes with a read end and a write end that close for good.  Bytes are   *)
(* put only while somebody can still read them.                            *)
(***************************************************************************)
EXTENDS Naturals, Sequences

CONSTANTS Capacity, Bytes

VARIABLES queue, ropen, wopen

cvars == <<queue, ropen, wopen>>

Init == queue = <<>> /\ ropen = TRUE /\ wopen = TRUE

Put(b) ==
  /\ ropen /\ wopen
  /\ Len(queue) < Capacity
  /\ queue' = Append(queue, b)
  /\ UNCHANGED <<ropen, wopen>>

Get ==
  /\ ropen
  /\ queue # <<>>
  /\ queue' = Tail(queue)
  /\ UNCHANGED <<ropen, wopen>>

CloseRead == ropen /\ ropen' = FALSE /\ UNCHANGED <<queue, wopen>>
CloseWrite == wopen /\ wopen' = FALSE /\ UNCHANGED <<queue, ropen>>

Next == (\E b \in Bytes : Put(b)) \/ Get \/ CloseRead \/ CloseWrite

Spec == Init /\ [][Next]_cvars
===========================================================================
