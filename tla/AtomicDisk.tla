---------------------------- MODULE AtomicDisk ----------------------------
(***************************************************************************)
(* What the log promises to the file system (the comment at the top of     *)
(* kernel/log.c): system calls write blocks between begin_op() and         *)
(* end_op(); the writes of a group of calls reach the disk together, at a  *)
(* moment when no call of the group is still open; a crash falls back to   *)
(* the last such moment.                                                   *)
(***************************************************************************)
CONSTANTS Blocks, Vals, Ops

VARIABLES
  committed,        \* what a recovery would restore
  current,          \* what a system call reads
  open              \* system calls between begin_op and end_op

avars == <<committed, current, open>>

Init ==
  /\ committed \in [Blocks -> Vals]
  /\ current = committed
  /\ open = {}

Begin(o) ==
  /\ o \notin open
  /\ open' = open \cup {o}
  /\ UNCHANGED <<committed, current>>

Write(o, b, v) ==
  /\ o \in open
  /\ current' = [current EXCEPT ![b] = v]
  /\ UNCHANGED <<committed, open>>

End(o) ==
  /\ o \in open
  /\ open' = open \ {o}
  /\ UNCHANGED <<committed, current>>

Commit ==
  /\ open = {}
  /\ committed' = current
  /\ UNCHANGED <<current, open>>

Crash ==
  /\ current' = committed
  /\ open' = {}
  /\ UNCHANGED committed

Next ==
  \/ \E o \in Ops :
       Begin(o) \/ End(o) \/ \E b \in Blocks, v \in Vals : Write(o, b, v)
  \/ Commit
  \/ Crash

Spec == Init /\ [][Next]_avars
===========================================================================
