----------------------------- MODULE Broadcast -----------------------------
(***************************************************************************)
(* user/broadcast.c: a parent sends one message to numReceiver children    *)
(* through one shared pipe.  The message carries a flag per receiver; each *)
(* receiver clears its own and writes the message back, and the one that   *)
(* finds all flags cleared acknowledges to the parent.                     *)
(*                                                                         *)
(* As in module Unicast a message is moved by one critical section of the  *)
(* pipe and a read of an empty pipe blocks.  The parent initialises only   *)
(* the first numReceiver of the MAX_NUM_RECEIVERS flags; Stale is the set  *)
(* of values the others may have (the stack of a new process is zeroed by  *)
(* exec(), and main() has not used these bytes before).                    *)
(***************************************************************************)
EXTENDS Integers, FiniteSets, FiniteSetsExt

CONSTANTS numReceiver, MAX_NUM_RECEIVERS, Stale

ASSUME BroadcastAssumption ==
  /\ MAX_NUM_RECEIVERS \in Nat
  /\ numReceiver \in 1 .. MAX_NUM_RECEIVERS
  /\ Stale \subseteq Int

Receivers == 0 .. numReceiver - 1
Flags == 0 .. MAX_NUM_RECEIVERS - 1

VARIABLES
  ppc,            \* the parent: "fork", "ack", "done", "failed"
  forked,         \* i in the parent's loop
  cpc,            \* a child: "none", "read", "got", "exited"
  msg,            \* msg.flags in the hands of a child
  toReceivers,    \* messages in channelToReceivers
  fromReceivers   \* acknowledgements in channelFromReceivers

vars == <<ppc, forked, cpc, msg, toReceivers, fromReceivers>>

NoFlags == [j \in Flags |-> 0]
\* Mutant: the sum leaves out the last receiver.
SumSkipsLast(f) == MapThenSumSet(LAMBDA j : f[j], Flags \ {numReceiver - 1})
Sum(f) == MapThenSumSet(LAMBDA j : f[j], Flags)

Init ==
  /\ ppc = "fork" /\ forked = 0
  /\ cpc = [c \in Receivers |-> "none"]
  /\ msg = [c \in Receivers |-> NoFlags]
  /\ toReceivers = {}
  /\ fromReceivers = 0

ParentFork ==
  /\ ppc = "fork" /\ forked < numReceiver
  /\ cpc' = [cpc EXCEPT ![forked] = "read"]
  /\ forked' = forked + 1
  /\ UNCHANGED <<ppc, msg, toReceivers, fromReceivers>>

ParentForkFails ==
  /\ ppc = "fork" /\ forked < numReceiver
  /\ ppc' = "failed"
  /\ UNCHANGED <<forked, cpc, msg, toReceivers, fromReceivers>>

\* Mutant: one flag too many is set.
FreshFlagsOffByOne(g) == [j \in Flags |-> IF j <= numReceiver THEN 1 ELSE g[j]]
FreshFlags(g) == [j \in Flags |-> IF j < numReceiver THEN 1 ELSE g[j]]

ParentSend ==
  /\ ppc = "fork" /\ forked = numReceiver
  /\ \E g \in [Flags -> Stale] : toReceivers' = {FreshFlags(g)}
  /\ ppc' = "ack"
  /\ UNCHANGED <<forked, cpc, msg, fromReceivers>>

ParentReadAck ==
  /\ ppc = "ack" /\ fromReceivers > 0
  /\ fromReceivers' = fromReceivers - 1
  /\ ppc' = "done"
  /\ UNCHANGED <<forked, cpc, msg, toReceivers>>

\* Mutant: a receiver clears the flag of its neighbour.
ClearedNext(f, c) == [f EXCEPT ![(c + 1) % MAX_NUM_RECEIVERS] = 0]
Cleared(f, c) == [f EXCEPT ![c] = 0]

\* read(), and msg.flags[i] = 0.
ChildRead(c) ==
  /\ cpc[c] = "read"
  /\ \E f \in toReceivers :
       /\ toReceivers' = toReceivers \ {f}
       /\ msg' = [msg EXCEPT ![c] = Cleared(f, c)]
  /\ cpc' = [cpc EXCEPT ![c] = "got"]
  /\ UNCHANGED <<ppc, forked, fromReceivers>>

ChildAnswer(c) ==
  /\ cpc[c] = "got"
  /\ IF Sum(msg[c]) = 0
     THEN fromReceivers' = fromReceivers + 1 /\ UNCHANGED toReceivers
     ELSE toReceivers' = toReceivers \cup {msg[c]} /\ UNCHANGED fromReceivers
  /\ msg' = [msg EXCEPT ![c] = NoFlags]
  /\ cpc' = [cpc EXCEPT ![c] = "exited"]
  /\ UNCHANGED <<ppc, forked>>

Parent == ParentFork \/ ParentSend \/ ParentReadAck
Child(c) == ChildRead(c) \/ ChildAnswer(c)

Next == Parent \/ ParentForkFails \/ \E c \in Receivers : Child(c)

\* The scheduler runs every runnable process (RunnableRuns in module Proc).
Spec ==
  /\ Init /\ [][Next]_vars
  /\ WF_vars(Parent)
  /\ \A c \in Receivers : WF_vars(Child(c))

---------------------------------------------------------------------------
\* The acknowledgement comes after every receiver has read the message.
AckMeansAllReceived ==
  ppc = "done" \/ fromReceivers > 0 =>
    \A c \in Receivers : cpc[c] = "exited"

\* The flags of the message in flight are exactly the receivers that have not
\* read it yet, wherever it is.
FlagsArePending ==
  \A f \in toReceivers \cup {msg[c] : c \in {d \in Receivers : cpc[d] = "got"}} :
    \A c \in Receivers : f[c] = 1 <=> cpc[c] = "read"

\* Unless a fork fails, all receivers read the message and exit, and the
\* parent gets the acknowledgement.
BroadcastCompletes ==
  <>(\/ ppc = "failed"
     \/ ppc = "done" /\ \A c \in Receivers : cpc[c] = "exited")
===========================================================================
