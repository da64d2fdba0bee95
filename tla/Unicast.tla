------------------------------ MODULE Unicast ------------------------------
(***************************************************************************)
(* user/unicast.c: a parent forks numChildren children that share one pipe *)
(* to them and one pipe back, and sends a message for one of them.  A      *)
(* child that reads a message for somebody else writes it back.            *)
(*                                                                         *)
(* A message is shorter than PIPESIZE and the pipe is empty when it is     *)
(* written, so pipewrite() stores it, and piperead() takes it, in one      *)
(* critical section (module Pipe).  Every process keeps both ends of both  *)
(* pipes open until it exits, so a read of an empty pipe blocks.           *)
(***************************************************************************)
EXTENDS Integers, FiniteSets

CONSTANTS numChildren, targetChild

ASSUME UnicastAssumption == numChildren \in Nat /\ targetChild \in Int

Children == 0 .. numChildren - 1

VARIABLES
  ppc,            \* the parent: "fork", "send", "ack", "done", "failed"
  forked,         \* i in the parent's loop
  cpc,            \* a child: "none", "read", "got", "exited"
  toChildren,     \* messages in channelToChildren
  fromChild       \* acknowledgements in channelFromChild

vars == <<ppc, forked, cpc, toChildren, fromChild>>

Init ==
  /\ ppc = "fork" /\ forked = 0
  /\ cpc = [c \in Children |-> "none"]
  /\ toChildren = 0 /\ fromChild = 0

ParentFork ==
  /\ ppc = "fork" /\ forked < numChildren
  /\ cpc' = [cpc EXCEPT ![forked] = "read"]
  /\ forked' = forked + 1
  /\ UNCHANGED <<ppc, toChildren, fromChild>>

\* fork1(): panic() exits without telling the children forked so far.
ParentForkFails ==
  /\ ppc = "fork" /\ forked < numChildren
  /\ ppc' = "failed"
  /\ UNCHANGED <<forked, cpc, toChildren, fromChild>>

ParentSend ==
  /\ ppc = "fork" /\ forked >= numChildren
  /\ toChildren' = toChildren + 1
  /\ ppc' = "ack"
  /\ UNCHANGED <<forked, cpc, fromChild>>

ParentReadAck ==
  /\ ppc = "ack" /\ fromChild > 0
  /\ fromChild' = fromChild - 1
  /\ ppc' = "done"
  /\ UNCHANGED <<forked, cpc, toChildren>>

ChildRead(c) ==
  /\ cpc[c] = "read" /\ toChildren > 0
  /\ toChildren' = toChildren - 1
  /\ cpc' = [cpc EXCEPT ![c] = "got"]
  /\ UNCHANGED <<ppc, forked, fromChild>>

\* The message is for this child.  Mutant: the test is inverted.
IsNotTarget(c) == c # targetChild
IsTarget(c) == c = targetChild

\* Mutant: the target also writes the message back.
AcknowledgeAndPassOn == fromChild' = fromChild + 1 /\ toChildren' = toChildren + 1
Acknowledge == fromChild' = fromChild + 1 /\ UNCHANGED toChildren

\* Mutant: a message for another child is dropped.
PassOnDropped == UNCHANGED <<toChildren, fromChild>>
PassOn == toChildren' = toChildren + 1 /\ UNCHANGED fromChild

\* The message is for this child: acknowledge; otherwise write it back.
ChildAnswer(c) ==
  /\ cpc[c] = "got"
  /\ IF IsTarget(c) THEN Acknowledge ELSE PassOn
  /\ cpc' = [cpc EXCEPT ![c] = "exited"]
  /\ UNCHANGED <<ppc, forked>>

Parent == ParentFork \/ ParentSend \/ ParentReadAck
Child(c) == ChildRead(c) \/ ChildAnswer(c)

Next == Parent \/ ParentForkFails \/ \E c \in Children : Child(c)

\* The scheduler runs every runnable process (RunnableRuns in module Proc).
Spec ==
  /\ Init /\ [][Next]_vars
  /\ WF_vars(Parent)
  /\ \A c \in Children : WF_vars(Child(c))

---------------------------------------------------------------------------
\* There is one message: in the pipe, in the hands of one child, or delivered
\* to its target; it is never duplicated by the writing back.
OneMessage ==
  /\ toChildren + Cardinality({c \in Children : cpc[c] = "got"}) <= 1
  /\ fromChild + Cardinality({c \in Children : cpc[c] = "got"}) + toChildren
       = IF ppc = "ack" THEN 1 ELSE 0

\* The parent is told of a delivery only after the target has the message.
AckMeansDelivered ==
  ppc = "done" => targetChild \in Children /\ cpc[targetChild] = "exited"

\* If the target exists the parent gets its acknowledgement: every wrong
\* reader passes the message on and none reads it twice.
ParentFinishes ==
  targetChild \in Children => <>(ppc \in {"done", "failed"})

===========================================================================
