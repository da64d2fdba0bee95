--------------------------- MODULE SchedHistory ---------------------------
(***************************************************************************)
(* The scheduling counters of struct proc and sys_getschedhistory().       *)
(*                                                                         *)
(* One slot of the process table and the processes that occupy it in turn: *)
(* the counters are fields of the slot, only ever touched on behalf of its *)
(* occupant (by the occupant, or by scheduler() holding its p->lock), so   *)
(* slots do not interfere.  The actions are the paths through usertrap(),  *)
(* kerneltrap(), scheduler(), yield(), sleep(), exit() and wait() as far   *)
(* as the counters can tell them apart.  Module Proc has the locking.      *)
(*                                                                         *)
(* own is a history variable: what has really happened to the current      *)
(* occupant since allocproc() gave it the slot.  exits counts the exit()s  *)
(* of the slot's occupants.                                                *)
(***************************************************************************)
EXTENDS Integers

CONSTANT MaxEvents      \* bound: each counter stops growing here

ASSUME MaxEventsAssumption == MaxEvents \in Nat \ {0}

Counters == {"run", "sys", "intr", "preempt", "trap", "sleep"}
\* Mutant: the runs are read last.
ReadOrderRunLast == <<"sys", "intr", "preempt", "trap", "sleep", "run">>

\* The order in which sys_getschedhistory() reads them.
ReadOrder == <<"run", "sys", "intr", "preempt", "trap", "sleep">>

VARIABLES
  state,                \* p->state
  killed,               \* p->killed
  pc,                   \* "user", "sys" (in syscall()), "hist", "yield", "exit"
  cnt,                  \* the six counters of struct proc
  hist,                 \* my_history in sys_getschedhistory()
  hidx,                 \* how many of its fields are filled
  own, exits            \* history variables

vars == <<state, killed, pc, cnt, hist, hidx, own, exits>>

Zero == [k \in Counters |-> 0]
Below(S) == \A k \in S : cnt[k] < MaxEvents /\ own[k] < MaxEvents
\* Mutant: the counters go down.
BumpDown(f, S) == [k \in Counters |-> IF k \in S THEN f[k] - 1 ELSE f[k]]
Bump(f, S) == [k \in Counters |-> IF k \in S THEN f[k] + 1 ELSE f[k]]
\* Events of S happen to the process; the code counts those of C.
Happen(S, C) ==
  /\ Below(S \cup C)
  /\ own' = Bump(own, S)
  /\ cnt' = Bump(cnt, C)

Init ==
  /\ state = "UNUSED" /\ killed = FALSE /\ pc = "user"
  /\ cnt = Zero /\ own = Zero
  /\ hist = Zero /\ hidx = 0
  /\ exits = 0

Running == state = "RUNNING"

\* allocproc() in fork() or userinit(); the counters are left alone.
Allocproc ==
  /\ state = "UNUSED"
  /\ state' = "RUNNABLE"
  /\ pc' = "user"
  /\ own' = Zero
  /\ UNCHANGED <<killed, cnt, hist, hidx, exits>>

\* freeproc() in wait(); the counters are left alone.
Freeproc ==
  /\ state = "ZOMBIE"
  /\ state' = "UNUSED"
  /\ killed' = FALSE
  /\ UNCHANGED <<pc, cnt, hist, hidx, own, exits>>

\* scheduler()
Schedule ==
  /\ state = "RUNNABLE"
  /\ state' = "RUNNING"
  /\ Happen({"run"}, {"run"})
  /\ UNCHANGED <<killed, pc, hist, hidx, exits>>

(***************************************************************************)
(* usertrap(), by cause.  killed(p) is tested before the dispatch of a     *)
(* system call and again at the end.                                       *)
(***************************************************************************)
TrapSyscall ==
  /\ Running /\ pc = "user"
  /\ Happen({"trap", "sys"}, {"trap", "sys"})
  /\ pc' = IF killed THEN "exit" ELSE "sys"
  /\ UNCHANGED <<state, killed, hist, hidx, exits>>

\* What a timer interrupt counts.  Mutant: the trap is not counted.
TimerCountsNoTrap == IF killed THEN {} ELSE {"intr"}
TimerCounts == IF killed THEN {"trap"} ELSE {"trap", "intr"}

TrapTimer ==
  /\ Running /\ pc = "user"
  /\ Happen({"trap", "intr"}, TimerCounts)
  /\ pc' = IF killed THEN "exit" ELSE "yield"
  /\ UNCHANGED <<state, killed, hist, hidx, exits>>

TrapDevice ==
  /\ Running /\ pc = "user"
  /\ Happen({"trap", "intr"}, {"trap"})
  /\ pc' = IF killed THEN "exit" ELSE "user"
  /\ UNCHANGED <<state, killed, hist, hidx, exits>>

TrapFault ==
  /\ Running /\ pc = "user"
  /\ Happen({"trap"}, {"trap"})
  /\ killed' = TRUE
  /\ pc' = "exit"
  /\ UNCHANGED <<state, hist, hidx, exits>>

\* Mutant: the preemption is not counted.
YieldUncounted ==
  /\ Running /\ pc = "yield"
  /\ Happen({"preempt"}, {})
  /\ state' = "RUNNABLE"
  /\ pc' = "user"
  /\ UNCHANGED <<killed, hist, hidx, exits>>

\* yield(), called by usertrap() for a timer interrupt.
Yield ==
  /\ Running /\ pc = "yield"
  /\ Happen({"preempt"}, {"preempt"})
  /\ state' = "RUNNABLE"
  /\ pc' = "user"
  /\ UNCHANGED <<killed, hist, hidx, exits>>

(***************************************************************************)
(* Inside a system call: kerneltrap() for a timer or a device interrupt,   *)
(* sleep(), and the return to the end of usertrap().                       *)
(***************************************************************************)
InKernel == Running /\ pc \in {"sys", "hist", "exit"}

KernelTimer ==
  /\ InKernel
  /\ Happen({"intr", "preempt"}, {"preempt"})
  /\ state' = "RUNNABLE"
  /\ UNCHANGED <<killed, pc, hist, hidx, exits>>

KernelDevice ==
  /\ InKernel
  /\ Happen({"intr"}, {})
  /\ UNCHANGED <<state, killed, pc, hist, hidx, exits>>

Sleep ==
  /\ Running /\ pc \in {"sys", "exit"}
  /\ Happen({"sleep"}, {"sleep"})
  /\ state' = "SLEEPING"
  /\ UNCHANGED <<killed, pc, hist, hidx, exits>>

Wakeup ==
  /\ state = "SLEEPING"
  /\ state' = "RUNNABLE"
  /\ UNCHANGED <<killed, pc, cnt, hist, hidx, own, exits>>

SyscallReturn ==
  /\ Running /\ pc = "sys"
  /\ pc' = IF killed THEN "exit" ELSE "user"
  /\ hist' = Zero /\ hidx' = 0
  /\ UNCHANGED <<state, killed, cnt, own, exits>>

ExitCall ==
  /\ Running /\ pc = "sys"
  /\ pc' = "exit"
  /\ hist' = Zero /\ hidx' = 0
  /\ UNCHANGED <<state, killed, cnt, own, exits>>

\* exit(): the last sched() of the process.
Exit ==
  /\ Running /\ pc = "exit"
  /\ exits < MaxEvents
  /\ exits' = exits + 1
  /\ state' = "ZOMBIE"
  /\ UNCHANGED <<killed, pc, cnt, hist, hidx, own>>

\* kill() by another process; kill(0) matches a free slot.
Kill ==
  /\ killed' = TRUE
  /\ state' = IF state = "SLEEPING" THEN "RUNNABLE" ELSE state
  /\ UNCHANGED <<pc, cnt, hist, hidx, own, exits>>

(***************************************************************************)
(* sys_getschedhistory(): six loads with interrupts on, then copyout().    *)
(***************************************************************************)
HistStart ==
  /\ Running /\ pc = "sys" /\ hidx = 0
  /\ pc' = "hist"
  /\ UNCHANGED <<state, killed, cnt, hist, hidx, own, exits>>

HistRead ==
  /\ Running /\ pc = "hist" /\ hidx < 6
  /\ hidx' = hidx + 1
  /\ hist' = [hist EXCEPT ![ReadOrder[hidx + 1]] = cnt[ReadOrder[hidx + 1]]]
  /\ UNCHANGED <<state, killed, pc, cnt, own, exits>>

HistCopyout ==
  /\ Running /\ pc = "hist" /\ hidx = 6
  /\ pc' = "sys"
  /\ UNCHANGED <<state, killed, cnt, hist, hidx, own, exits>>

Next ==
  \/ Allocproc \/ Freeproc \/ Schedule
  \/ TrapSyscall \/ TrapTimer \/ TrapDevice \/ TrapFault \/ Yield
  \/ KernelTimer \/ KernelDevice \/ Sleep \/ Wakeup
  \/ SyscallReturn \/ ExitCall \/ Exit \/ Kill
  \/ HistStart \/ HistRead \/ HistCopyout

Spec == Init /\ [][Next]_vars

---------------------------------------------------------------------------
\* The counters and the snapshot are natural numbers (ints that have not
\* overflowed), and the snapshot is filled at most once per call.
TypeOK ==
  /\ state \in {"UNUSED", "RUNNABLE", "RUNNING", "SLEEPING", "ZOMBIE"}
  /\ killed \in BOOLEAN
  /\ pc \in {"user", "sys", "hist", "yield", "exit"}
  /\ cnt \in [Counters -> Nat] /\ own \in [Counters -> Nat]
  /\ hist \in [Counters -> Nat] /\ hidx \in 0 .. 6
  /\ exits \in Nat

\* Every time a process of the slot was given the CPU it gave it back by a
\* counted preemption, by a counted sleep, or by its exit; the one that has
\* the CPU now has been counted but has not given it back.
RunsAccounted ==
  cnt["run"] =
    cnt["preempt"] + cnt["sleep"] + exits + (IF Running THEN 1 ELSE 0)

\* Every counted system call and every counted interrupt is one counted trap,
\* and every counted interrupt leads to a counted preemption.
TrapsAccounted ==
  /\ cnt["sys"] + cnt["intr"] <= cnt["trap"]
  /\ cnt["intr"] <= cnt["preempt"] + (IF pc = "yield" THEN 1 ELSE 0)

\* What getschedhistory() returns can be torn by a preemption between two
\* loads, but only one way: fields that are read later may be ahead, so a run
\* is never reported without the preemptions and sleeps that ended it and a
\* system call never without its trap.
HistoryBounds ==
  hidx = 6 =>
    /\ hist["run"] <= hist["preempt"] + hist["sleep"] + exits + 1
    /\ hist["sys"] <= hist["trap"]
    /\ hist["sys"] >= 1 /\ hist["run"] >= 1

\* "number of times that the process has been scheduled to run on CPU" and so
\* on (proc.h): a counter counts what happened to this process.
CountersAreOwn ==
  state # "UNUSED" =>
    \A k \in {"run", "sys", "preempt", "trap", "sleep"} : cnt[k] = own[k]
===========================================================================
