------------------------------- MODULE Proc -------------------------------
(***************************************************************************)
(* The process table of kernel/proc.c: allocproc, freeproc, fork, exit,    *)
(* reparent, wait, sleep, wakeup, kill, yield, sched and the per-CPU       *)
(* scheduler, with the checks usertrap() makes around a system call.       *)
(*                                                                         *)
(* A step is the code between two points where another CPU can interfere:  *)
(* it takes at most one of p->lock and wait_lock, and a critical section   *)
(* that spans several steps keeps its lock in plock or wlock.  Locks are   *)
(* owned by a CPU, as lk->cpu is, so that p->lock can be taken by a        *)
(* process and released by the scheduler on the other side of swtch().     *)
(*                                                                         *)
(* Left out: memory, registers, files (exit closes them before it takes    *)
(* wait_lock), names, the exit status, and the counters of struct proc     *)
(* (module SchedHistory).                                                  *)
(***************************************************************************)
EXTENDS Integers, FiniteSets

CONSTANTS
  NPROC,       \* slots of the process table
  NCPU,        \* CPUs running scheduler()
  MaxPid,      \* bound: fork() fails once this pid has been given out
  Calls,       \* system calls the user programs make
  KillPids     \* arguments the user programs pass to kill()

ASSUME ProcAssumption ==
  /\ NPROC \in Nat \ {0}
  /\ NCPU \in Nat \ {0}
  /\ MaxPid \in Nat \ {0}
  /\ Calls \subseteq {"fork", "exit", "wait", "kill", "fault"}
  /\ KillPids \subseteq Nat

Slots == 0 .. NPROC - 1
Indices == 0 .. NPROC       \* of a loop over the table, its end included
CPUs == 0 .. NCPU - 1
NONE == -1                  \* a null pointer, a free lock
initproc == 0               \* userinit() takes the first slot

VARIABLES
  state, chan, killed, pid, parent,   \* struct proc
  nextpid,
  plock,                    \* CPU that holds p->lock
  wlock,                    \* CPU that holds wait_lock
  cproc,                    \* c->proc
  sidx,                     \* p in scheduler()
  pc,                       \* where the kernel thread of a process is
  rpc,                      \* where it continues when swtch() returns to it
  ypc,                      \* what a timer interrupt interrupted
  idx,                      \* loop index in allocproc, reparent, wait, kill
  np,                       \* np in fork
  havekids,                 \* havekids in wait
  kpid,                     \* argument of kill
  wchan, widx, wret         \* wakeup(): channel, loop index, return point

table == <<state, chan, killed, pid, parent, nextpid>>
locks == <<plock, wlock>>
cpu == <<cproc, sidx>>
locals == <<rpc, ypc, idx, np, havekids, kpid, wchan, widx, wret>>
vars == <<table, locks, cpu, pc, locals>>

States == {"UNUSED", "USED", "SLEEPING", "RUNNABLE", "RUNNING", "ZOMBIE"}

\* Points of the system calls that read the table without a lock (module
\* ProcQuery).
QueryLabels == {"getppid", "deref", "ps", "pspid", "psparent", "psppid"}
\* Points where a thread holds no lock, so that interrupts are on.
OpenLabels ==
  {"user", "ret", "alloc", "setparent", "setrun", "exit", "wait", "relock",
   "kill"} \cup QueryLabels
\* Points inside a section that holds wait_lock.
WaitLockLabels ==
  {"reparent", "wakeup", "zombie", "scan", "sleep"}
\* Points where a thread that is not running will find itself, with its own
\* p->lock taken for it by scheduler().
ResumeLabels == {"forkret", "awake", "yielded"}
Labels ==
  OpenLabels \cup WaitLockLabels \cup ResumeLabels
    \cup {"copy", "sched", "dead", "panic"}

(***************************************************************************)
(* Steps are taken by a CPU c on behalf of the process p it runs.          *)
(***************************************************************************)
At(c, p, label) == cproc[c] = p /\ pc[p] = label
Goto(p, label) == pc' = [pc EXCEPT ![p] = label]
Free(i) == plock[i] = NONE
Set(f, p, v) == [f EXCEPT ![p] = v]

Init ==
  /\ state = [i \in Slots |-> IF i = initproc THEN "RUNNABLE" ELSE "UNUSED"]
  /\ chan = [i \in Slots |-> NONE]
  /\ killed = [i \in Slots |-> FALSE]
  /\ pid = [i \in Slots |-> IF i = initproc THEN 1 ELSE 0]
  /\ parent = [i \in Slots |-> NONE]
  /\ nextpid = 2
  /\ plock = [i \in Slots |-> NONE]
  /\ wlock = NONE
  /\ cproc = [c \in CPUs |-> NONE]
  /\ sidx = [c \in CPUs |-> 0]
  /\ pc = [i \in Slots |-> IF i = initproc THEN "forkret" ELSE "dead"]
  /\ rpc = [i \in Slots |-> "dead"]
  /\ ypc = [i \in Slots |-> "user"]
  /\ idx = [i \in Slots |-> 0]
  /\ np = [i \in Slots |-> NONE]
  /\ havekids = [i \in Slots |-> FALSE]
  /\ kpid = [i \in Slots |-> 0]
  /\ wchan = [i \in Slots |-> NONE]
  /\ widx = [i \in Slots |-> 0]
  /\ wret = [i \in Slots |-> "zombie"]

(***************************************************************************)
(* scheduler(): look at slot sidx[c]; run it if it is RUNNABLE.  The       *)
(* process comes back through Sched, with its p->lock still held by c.     *)
(***************************************************************************)
\* Mutants: scheduler() runs off the table; it starts over after every slot.
NextSlotNoWrap(i) == i + 1
NextSlot(i) == IF i + 1 = NPROC THEN 0 ELSE i + 1

Dispatch(c) ==
  /\ cproc[c] = NONE
  /\ Free(sidx[c])
  /\ state[sidx[c]] = "RUNNABLE"
  /\ state' = Set(state, sidx[c], "RUNNING")
  /\ plock' = Set(plock, sidx[c], c)
  /\ cproc' = Set(cproc, c, sidx[c])
  /\ UNCHANGED <<chan, killed, pid, parent, nextpid, wlock, sidx, pc, locals>>

SkipSlot(c) ==
  /\ cproc[c] = NONE
  /\ Free(sidx[c])
  /\ state[sidx[c]] # "RUNNABLE"
  /\ sidx' = Set(sidx, c, NextSlot(sidx[c]))
  /\ UNCHANGED <<table, locks, cproc, pc, locals>>

\* sched(): swtch() leaves p's kernel stack; scheduler() then clears c->proc
\* and releases p->lock.
Sched(c, p) ==
  /\ At(c, p, "sched")
  /\ Goto(p, rpc[p])
  /\ cproc' = Set(cproc, c, NONE)
  /\ plock' = Set(plock, p, NONE)
  /\ sidx' = Set(sidx, c, NextSlot(sidx[c]))
  /\ rpc' = Set(rpc, p, "dead")
  /\ UNCHANGED <<table, wlock, ypc, idx, np, havekids, kpid, wchan, widx, wret>>

\* How yield(), sleep() and exit() get to sched(): take p->lock, set the state
\* and keep the lock until scheduler() releases it.  Mutants: the lock is not
\* taken; the state is not set.
EnterSchedUnlocked(c, p, s, back) ==
  state' = Set(state, p, s) /\ Goto(p, "sched") /\ rpc' = Set(rpc, p, back)
    /\ UNCHANGED plock
EnterSchedRunning(c, p, s, back) ==
  Free(p) /\ plock' = Set(plock, p, c) /\ Goto(p, "sched")
    /\ rpc' = Set(rpc, p, back) /\ UNCHANGED state
EnterSched(c, p, s, back) ==
  /\ Free(p)
  /\ plock' = Set(plock, p, c)
  /\ state' = Set(state, p, s)
  /\ Goto(p, "sched")
  /\ rpc' = Set(rpc, p, back)

\* The first scheduling of a process lands in forkret(), which releases
\* p->lock and returns to user space.
Forkret(c, p) ==
  /\ At(c, p, "forkret")
  /\ plock' = Set(plock, p, NONE)
  /\ Goto(p, "user")
  /\ UNCHANGED <<table, wlock, cpu, locals>>

(***************************************************************************)
(* Entering and leaving the kernel.  init only forks and waits             *)
(* (user/init.c); exit() by init panics.                                   *)
(***************************************************************************)
ExitLabel(p) == IF p = initproc THEN "panic" ELSE "exit"

FirstLabel(call) ==
  [fork |-> "alloc", exit |-> "exit", wait |-> "wait", kill |-> "kill"][call]

\* usertrap() for an ecall of a process that is not killed: syscall().
Syscall(c, p, call, k) ==
  /\ At(c, p, "user")
  /\ Free(p)
  /\ ~killed[p]
  /\ p = initproc => call \in {"fork", "wait"}
  /\ Goto(p, FirstLabel(call))
  /\ kpid' = Set(kpid, p, IF call = "kill" THEN k ELSE 0)
  /\ UNCHANGED <<table, locks, cpu, rpc, ypc, idx, np, havekids, wchan, widx,
                 wret>>

\* usertrap() finds the process killed, on an ecall or on an interrupt.
TrapKilled(c, p) ==
  /\ At(c, p, "user")
  /\ Free(p)
  /\ killed[p]
  /\ Goto(p, ExitLabel(p))
  /\ UNCHANGED <<table, locks, cpu, locals>>

\* usertrap() for an exception of a user program: setkilled(p), exit(-1).
TrapFault(c, p) ==
  /\ At(c, p, "user")
  /\ "fault" \in Calls
  /\ p # initproc
  /\ Free(p)
  /\ killed' = Set(killed, p, TRUE)
  /\ Goto(p, "exit")
  /\ UNCHANGED <<state, chan, pid, parent, nextpid, locks, cpu, locals>>

\* The rest of usertrap() once syscall() has returned.
Return(c, p) ==
  /\ At(c, p, "ret")
  /\ Free(p)
  /\ Goto(p, IF killed[p] THEN ExitLabel(p) ELSE "user")
  /\ idx' = Set(idx, p, 0)
  /\ np' = Set(np, p, NONE)
  /\ havekids' = Set(havekids, p, FALSE)
  /\ kpid' = Set(kpid, p, 0)
  /\ UNCHANGED <<table, locks, cpu, rpc, ypc, wchan, widx, wret>>

\* yield(), from usertrap() or, while a lock-free stretch of the kernel runs,
\* from kerneltrap().
Yield(c, p) ==
  /\ cproc[c] = p
  /\ pc[p] \in OpenLabels
  /\ pc[p] = "user" => ~killed[p]
  /\ EnterSched(c, p, "RUNNABLE", "yielded")
  /\ ypc' = Set(ypc, p, pc[p])
  /\ UNCHANGED <<chan, killed, pid, parent, nextpid, wlock, cpu, idx, np,
                 havekids, kpid, wchan, widx, wret>>

\* yield() after sched() returns.
Yielded(c, p) ==
  /\ At(c, p, "yielded")
  /\ plock' = Set(plock, p, NONE)
  /\ Goto(p, ypc[p])
  /\ ypc' = Set(ypc, p, "user")
  /\ UNCHANGED <<table, wlock, cpu, rpc, idx, np, havekids, kpid, wchan, widx,
                 wret>>

(***************************************************************************)
(* fork().  The new slot's lock is held from allocproc() until its memory  *)
(* has been copied; parent is set under wait_lock and the state under the  *)
(* slot's lock again.                                                      *)
(***************************************************************************)
Freeproc(i) ==
  /\ state' = Set(state, i, "UNUSED")
  /\ chan' = Set(chan, i, NONE)
  /\ killed' = Set(killed, i, FALSE)
  /\ pid' = Set(pid, i, 0)
  /\ parent' = Set(parent, i, NONE)
  /\ UNCHANGED nextpid

\* allocproc(): slot idx[p] is in use.
AllocSkip(c, p) ==
  /\ At(c, p, "alloc")
  /\ idx[p] < NPROC
  /\ Free(idx[p])
  /\ state[idx[p]] # "UNUSED"
  /\ idx' = Set(idx, p, idx[p] + 1)
  /\ UNCHANGED <<table, locks, cpu, pc, rpc, ypc, np, havekids, kpid, wchan,
                 widx, wret>>

\* Mutant: nextpid does not advance.
AllocpidSame == nextpid' = nextpid
allocpid == nextpid' = nextpid + 1

\* allocproc(): slot idx[p] is taken, with the next pid.
AllocFound(c, p) ==
  /\ At(c, p, "alloc")
  /\ idx[p] < NPROC
  /\ Free(idx[p])
  /\ state[idx[p]] = "UNUSED"
  /\ nextpid <= MaxPid
  /\ plock' = Set(plock, idx[p], c)
  /\ state' = Set(state, idx[p], "USED")
  /\ pid' = Set(pid, idx[p], nextpid)
  /\ allocpid
  /\ np' = Set(np, p, idx[p])
  /\ pc' = [pc EXCEPT ![p] = "copy", ![idx[p]] = "forkret"]
  /\ UNCHANGED <<chan, killed, parent, wlock, cpu, rpc, ypc, idx, havekids,
                 kpid, wchan, widx, wret>>

\* No slot was free (or the bound on pids is reached): fork() returns -1.
AllocNone(c, p) ==
  /\ At(c, p, "alloc")
  /\ idx[p] = NPROC \/ nextpid > MaxPid
  /\ Goto(p, "ret")
  /\ UNCHANGED <<table, locks, cpu, locals>>

\* A page could not be allocated in allocproc() or in uvmcopy().
ForkFail(c, p) ==
  /\ At(c, p, "copy")
  /\ Freeproc(np[p])
  /\ plock' = Set(plock, np[p], NONE)
  /\ pc' = [pc EXCEPT ![p] = "ret", ![np[p]] = "dead"]
  /\ UNCHANGED <<wlock, cpu, locals>>

\* Mutant: the child is made runnable before its parent is set.
ForkCopyNoParent(c, p) ==
  /\ At(c, p, "copy")
  /\ plock' = Set(plock, np[p], NONE)
  /\ Goto(p, "setrun")
  /\ UNCHANGED <<table, wlock, cpu, locals>>
ForkCopy(c, p) ==
  /\ At(c, p, "copy")
  /\ plock' = Set(plock, np[p], NONE)
  /\ Goto(p, "setparent")
  /\ UNCHANGED <<table, wlock, cpu, locals>>

ForkParent(c, p) ==
  /\ At(c, p, "setparent")
  /\ wlock = NONE
  /\ parent' = Set(parent, np[p], p)
  /\ Goto(p, "setrun")
  /\ UNCHANGED <<state, chan, killed, pid, nextpid, locks, cpu, locals>>

ForkRun(c, p) ==
  /\ At(c, p, "setrun")
  /\ Free(np[p])
  /\ state' = Set(state, np[p], "RUNNABLE")
  /\ Goto(p, "ret")
  /\ UNCHANGED <<chan, killed, pid, parent, nextpid, locks, cpu, locals>>

(***************************************************************************)
(* wakeup(chan): one step per slot, under that slot's lock.  The callers   *)
(* modelled here, exit() and reparent(), hold wait_lock throughout.        *)
(***************************************************************************)
\* Mutant: the call of wakeup() is missing.
CallWakeupMissing(p, ch, back) == Goto(p, back) /\ UNCHANGED <<wchan, widx, wret>>
CallWakeup(p, ch, back) ==
  /\ wchan' = Set(wchan, p, ch)
  /\ widx' = Set(widx, p, 0)
  /\ wret' = Set(wret, p, back)
  /\ Goto(p, "wakeup")

WakeupSlot(c, p) ==
  LET i == widx[p] IN
  /\ At(c, p, "wakeup")
  /\ i < NPROC
  /\ i # p => Free(i)
  /\ state' = IF i # p /\ state[i] = "SLEEPING" /\ chan[i] = wchan[p]
                THEN Set(state, i, "RUNNABLE") ELSE state
  /\ widx' = Set(widx, p, i + 1)
  /\ UNCHANGED <<chan, killed, pid, parent, nextpid, locks, cpu, pc, rpc, ypc,
                 idx, np, havekids, kpid, wchan, wret>>

WakeupDone(c, p) ==
  /\ At(c, p, "wakeup")
  /\ widx[p] = NPROC
  /\ Goto(p, wret[p])
  /\ widx' = Set(widx, p, 0)
  /\ wchan' = Set(wchan, p, NONE)
  /\ wret' = Set(wret, p, "zombie")
  /\ UNCHANGED <<table, locks, cpu, rpc, ypc, idx, np, havekids, kpid>>

(***************************************************************************)
(* exit(): wait_lock is held from before reparent() until the process is   *)
(* a ZOMBIE; p->lock is then held until scheduler() releases it.           *)
(***************************************************************************)
ExitLock(c, p) ==
  /\ At(c, p, "exit")
  /\ wlock = NONE
  /\ wlock' = c
  /\ Goto(p, "reparent")
  /\ idx' = Set(idx, p, 0)
  /\ UNCHANGED <<table, plock, cpu, rpc, ypc, np, havekids, kpid, wchan, widx,
                 wret>>

\* Mutant: the child keeps the parent that is about to go.
ReparentKept(i) == UNCHANGED parent
Reparent(i) == parent' = Set(parent, i, initproc)

\* reparent(): slot idx[p] is a child; hand it to init and wake init.
ReparentChild(c, p) ==
  /\ At(c, p, "reparent")
  /\ idx[p] < NPROC
  /\ parent[idx[p]] = p
  /\ Reparent(idx[p])
  /\ idx' = Set(idx, p, idx[p] + 1)
  /\ CallWakeup(p, initproc, "reparent")
  /\ UNCHANGED <<state, chan, killed, pid, nextpid, locks, cpu, rpc, ypc, np,
                 havekids, kpid>>

ReparentSkip(c, p) ==
  /\ At(c, p, "reparent")
  /\ idx[p] < NPROC
  /\ parent[idx[p]] # p
  /\ idx' = Set(idx, p, idx[p] + 1)
  /\ UNCHANGED <<table, locks, cpu, pc, rpc, ypc, np, havekids, kpid, wchan,
                 widx, wret>>

\* The parent might be sleeping in wait().
ExitWakeParent(c, p) ==
  /\ At(c, p, "reparent")
  /\ idx[p] = NPROC
  /\ CallWakeup(p, parent[p], "zombie")
  /\ idx' = Set(idx, p, 0)
  /\ UNCHANGED <<table, locks, cpu, rpc, ypc, np, havekids, kpid>>

ExitZombie(c, p) ==
  /\ At(c, p, "zombie")
  /\ EnterSched(c, p, "ZOMBIE", "dead")
  /\ wlock' = NONE
  /\ np' = Set(np, p, NONE)
  /\ havekids' = Set(havekids, p, FALSE)
  /\ kpid' = Set(kpid, p, 0)
  /\ UNCHANGED <<chan, killed, pid, parent, nextpid, cpu, ypc, idx, wchan,
                 widx, wret>>

(***************************************************************************)
(* wait(): scan the table under wait_lock, taking each child's p->lock.    *)
(***************************************************************************)
StartScan(p) ==
  /\ Goto(p, "scan")
  /\ idx' = Set(idx, p, 0)
  /\ havekids' = Set(havekids, p, FALSE)

WaitLock(c, p) ==
  /\ At(c, p, "wait")
  /\ wlock = NONE
  /\ wlock' = c
  /\ StartScan(p)
  /\ UNCHANGED <<table, plock, cpu, rpc, ypc, np, kpid, wchan, widx, wret>>

WaitSkip(c, p) ==
  LET i == idx[p] IN
  /\ At(c, p, "scan")
  /\ i < NPROC
  /\ parent[i] = p => Free(i) /\ state[i] # "ZOMBIE"
  /\ idx' = Set(idx, p, i + 1)
  /\ havekids' = Set(havekids, p, havekids[p] \/ parent[i] = p)
  /\ UNCHANGED <<table, locks, cpu, pc, rpc, ypc, np, kpid, wchan, widx, wret>>

\* A child whose lock has been taken and that is a ZOMBIE.  Mutant: the lock of
\* the child is not taken.
ReapableUnlocked(p, i) == parent[i] = p /\ state[i] = "ZOMBIE"
Reapable(p, i) == parent[i] = p /\ Free(i) /\ state[i] = "ZOMBIE"

\* A ZOMBIE child: free its slot, unless its status cannot be copied out.
WaitReap(c, p) ==
  LET i == idx[p] IN
  /\ At(c, p, "scan")
  /\ i < NPROC
  /\ Reapable(p, i)
  /\ Freeproc(i)
  /\ wlock' = NONE
  /\ Goto(p, "ret")
  /\ UNCHANGED <<plock, cpu, locals>>

WaitCopyoutFails(c, p) ==
  LET i == idx[p] IN
  /\ At(c, p, "scan")
  /\ p # initproc
  /\ i < NPROC
  /\ Reapable(p, i)
  /\ wlock' = NONE
  /\ Goto(p, "ret")
  /\ UNCHANGED <<table, plock, cpu, locals>>

\* End of the scan: return -1, or sleep(p, &wait_lock).
WaitNone(c, p) ==
  /\ At(c, p, "scan")
  /\ idx[p] = NPROC
  /\ havekids[p] => Free(p)
  /\ IF ~havekids[p] \/ killed[p]
     THEN wlock' = NONE /\ Goto(p, "ret")
     ELSE wlock' = wlock /\ Goto(p, "sleep")
  /\ UNCHANGED <<table, plock, cpu, locals>>

(***************************************************************************)
(* sleep(p, &wait_lock): p->lock is taken before wait_lock is released,    *)
(* and kept until scheduler() releases it after swtch().                   *)
(***************************************************************************)
Sleep(c, p) ==
  /\ At(c, p, "sleep")
  /\ EnterSched(c, p, "SLEEPING", "awake")
  /\ wlock' = NONE
  /\ chan' = Set(chan, p, p)
  /\ UNCHANGED <<killed, pid, parent, nextpid, cpu, ypc, idx, np, havekids,
                 kpid, wchan, widx, wret>>

\* sleep() after sched() returns: tidy up and release p->lock ...
SleepAwake(c, p) ==
  /\ At(c, p, "awake")
  /\ chan' = Set(chan, p, NONE)
  /\ plock' = Set(plock, p, NONE)
  /\ Goto(p, "relock")
  /\ UNCHANGED <<state, killed, pid, parent, nextpid, wlock, cpu, locals>>

\* ... and reacquire wait_lock; wait() scans again.
SleepRelock(c, p) ==
  /\ At(c, p, "relock")
  /\ wlock = NONE
  /\ wlock' = c
  /\ StartScan(p)
  /\ UNCHANGED <<table, plock, cpu, rpc, ypc, np, kpid, wchan, widx, wret>>

(***************************************************************************)
(* kill(pid): the first slot whose pid matches.                            *)
(***************************************************************************)
KillHit(c, p) ==
  LET i == idx[p] IN
  /\ At(c, p, "kill")
  /\ i < NPROC
  /\ Free(i)
  /\ pid[i] = kpid[p]
  /\ killed' = Set(killed, i, TRUE)
  /\ state' = IF state[i] = "SLEEPING" THEN Set(state, i, "RUNNABLE") ELSE state
  /\ Goto(p, "ret")
  /\ UNCHANGED <<chan, pid, parent, nextpid, locks, cpu, locals>>

KillSkip(c, p) ==
  LET i == idx[p] IN
  /\ At(c, p, "kill")
  /\ i < NPROC
  /\ Free(i)
  /\ pid[i] # kpid[p]
  /\ idx' = Set(idx, p, i + 1)
  /\ UNCHANGED <<table, locks, cpu, pc, rpc, ypc, np, havekids, kpid, wchan,
                 widx, wret>>

KillNone(c, p) ==
  /\ At(c, p, "kill")
  /\ idx[p] = NPROC
  /\ Goto(p, "ret")
  /\ UNCHANGED <<table, locks, cpu, locals>>

---------------------------------------------------------------------------
Scheduler(c) == Dispatch(c) \/ SkipSlot(c)

SyscallAny(c, p) ==
  \E call \in Calls \ {"fault"} :
    \E k \in (IF call = "kill" THEN KillPids ELSE {0}) : Syscall(c, p, call, k)

\* Leaving for the scheduler, and the first step after it comes back.
Switch(c, p) ==
  Sched(c, p) \/ Forkret(c, p) \/ Yielded(c, p) \/ SleepAwake(c, p)

\* What the kernel does for p once it has been entered.
Handler(c, p) ==
  \/ TrapKilled(c, p) \/ Return(c, p)
  \/ AllocSkip(c, p) \/ AllocFound(c, p) \/ AllocNone(c, p)
  \/ ForkFail(c, p) \/ ForkCopy(c, p) \/ ForkParent(c, p) \/ ForkRun(c, p)
  \/ WakeupSlot(c, p) \/ WakeupDone(c, p)
  \/ ExitLock(c, p) \/ ReparentChild(c, p) \/ ReparentSkip(c, p)
  \/ ExitWakeParent(c, p) \/ ExitZombie(c, p)
  \/ WaitLock(c, p) \/ WaitSkip(c, p) \/ WaitReap(c, p)
  \/ WaitCopyoutFails(c, p) \/ WaitNone(c, p)
  \/ Sleep(c, p) \/ SleepRelock(c, p)
  \/ KillHit(c, p) \/ KillSkip(c, p) \/ KillNone(c, p)

Next ==
  \E c \in CPUs :
    \/ Scheduler(c)
    \/ \E p \in Slots :
         \/ SyscallAny(c, p) \/ TrapFault(c, p) \/ Yield(c, p)
         \/ Switch(c, p) \/ Handler(c, p)

Spec == Init /\ [][Next]_vars

(***************************************************************************)
(* Fairness.  A CPU in scheduler() keeps scanning, and a swtch() that has  *)
(* begun completes.  A thread in the kernel eventually takes its next      *)
(* step: strong fairness, because the timer may interrupt it and a lock    *)
(* may be taken and released by others while it spins.  Timer interrupts   *)
(* recur, and a pending one is taken when interrupts are next on: strong   *)
(* fairness of Yield.  init calls wait() again and again (user/init.c).    *)
(***************************************************************************)
Fairness ==
  /\ \A c \in CPUs : WF_vars(Scheduler(c))
  /\ \A p \in Slots : WF_vars(\E c \in CPUs : Switch(c, p))
  /\ \A p \in Slots : SF_vars(\E c \in CPUs : Handler(c, p))
  /\ \A p \in Slots : SF_vars(\E c \in CPUs : Yield(c, p))
  /\ SF_vars(\E c \in CPUs : Syscall(c, initproc, "wait", 0))

FairSpec == Spec /\ Fairness

---------------------------------------------------------------------------
\* Every field, lock and local variable has a value the code can give it.
TypeOK ==
  /\ state \in [Slots -> States]
  /\ chan \in [Slots -> Slots \cup {NONE}]
  /\ killed \in [Slots -> BOOLEAN]
  /\ pid \in [Slots -> Nat]
  /\ parent \in [Slots -> Slots \cup {NONE}]
  /\ nextpid \in Nat
  /\ plock \in [Slots -> CPUs \cup {NONE}]
  /\ wlock \in CPUs \cup {NONE}
  /\ cproc \in [CPUs -> Slots \cup {NONE}]
  /\ sidx \in [CPUs -> Slots]
  /\ pc \in [Slots -> Labels]
  /\ rpc \in [Slots -> {"dead", "awake", "yielded"}]
  /\ ypc \in [Slots -> OpenLabels]
  /\ idx \in [Slots -> Indices]
  /\ np \in [Slots -> Slots \cup {NONE}]
  /\ havekids \in [Slots -> BOOLEAN]
  /\ kpid \in [Slots -> Nat]
  /\ wchan \in [Slots -> Slots \cup {NONE}]
  /\ widx \in [Slots -> Indices]
  /\ wret \in [Slots -> {"reparent", "zombie"}]

(***************************************************************************)
(* Which locks a CPU holds follows from where its process is.              *)
(***************************************************************************)
\* Where p is, whether or not a timer interrupt has taken the CPU from it.
Loc(p) ==
  IF pc[p] = "yielded" \/ (pc[p] = "sched" /\ rpc[p] = "yielded")
  THEN ypc[p] ELSE pc[p]

\* p->lock of slot i is held on behalf of p.
HoldsSlot(p, i) ==
  \/ i = p /\ pc[p] \in ResumeLabels \cup {"sched"}
  \/ i = np[p] /\ pc[p] = "copy"

\* No two CPUs are on the same process.
CpusDistinct ==
  \A c, d \in CPUs : cproc[c] # NONE /\ cproc[c] = cproc[d] => c = d

\* A CPU holds exactly the locks that the place of its process in fork(),
\* exit(), wait(), sleep() or yield() says, and none while it scans.
LocksHeld ==
  \A c \in CPUs :
    /\ \A i \in Slots : plock[i] = c <=> cproc[c] # NONE /\ HoldsSlot(cproc[c], i)
    /\ wlock = c <=> cproc[c] # NONE /\ pc[cproc[c]] \in WaitLockLabels

\* A process is RUNNING while a CPU is on it and not about to leave it, and one
\* that no CPU is on resumes at a place that expects its p->lock to be held.
StatesMatch ==
  \A p \in Slots :
    /\ \A c \in CPUs : cproc[c] = p =>
         IF pc[p] = "sched"
         THEN /\ state[p] \in {"RUNNABLE", "SLEEPING", "ZOMBIE"}
              /\ state[p] # "ZOMBIE" => rpc[p] \in {"yielded", "awake"}
         ELSE state[p] = "RUNNING"
    /\ state[p] \in {"USED", "RUNNABLE", "SLEEPING"}
         => pc[p] \in ResumeLabels \/ \E c \in CPUs : cproc[c] = p

\* The slot a fork() is filling is USED and no other fork() has it.
ForksDistinct ==
  \A p \in Slots :
    Loc(p) \in {"copy", "setparent", "setrun"} =>
      /\ np[p] \in Slots
      /\ state[np[p]] = "USED"
      /\ \A q \in Slots :
           Loc(q) \in {"copy", "setparent", "setrun"} /\ np[q] = np[p] => q = p

\* The locks a CPU holds, the state of a process and the place of its kernel
\* thread agree at every step of the code of proc.c.
LockDiscipline == CpusDistinct /\ LocksHeld /\ StatesMatch /\ ForksDistinct

\* A kernel stack is used by one CPU: no two CPUs run the same process, and
\* a process that a CPU is still on is RUNNING or has its p->lock held by that
\* CPU, so neither scheduler() nor wait() can take it ("make sure the child
\* isn't still in exit() or swtch()", proc.c).
StackExclusive ==
  \A c \in CPUs : \A p \in Slots :
    cproc[c] = p =>
      /\ \A d \in CPUs : cproc[d] = p => d = c
      /\ state[p] = "RUNNING" \/ plock[p] = c

\* When a thread enters sched() its CPU holds p->lock and no other lock, and
\* the state has been changed: none of the panics of sched() can happen.
SchedReady ==
  \A c \in CPUs : \A p \in Slots :
    At(c, p, "sched") =>
      /\ plock[p] = c
      /\ wlock # c
      /\ \A i \in Slots : plock[i] = c => i = p
      /\ state[p] # "RUNNING"

\* Whatever still points at a slot keeps it from being free: a CPU, a child's
\* parent pointer, or a fork() that has not finished with its np.
UnusedUnreferenced ==
  \A i \in Slots :
    state[i] = "UNUSED" =>
      /\ \A c \in CPUs : cproc[c] # i
      /\ \A j \in Slots : parent[j] # i
      /\ \A j \in Slots :
           pc[j] \in {"copy", "setparent", "setrun"} => np[j] # i

\* Outside wait_lock's critical sections every started process has a parent
\* that can still call wait(): exit() hands its children to init before it
\* becomes a ZOMBIE.
ParentAlive ==
  wlock = NONE =>
    \A i \in Slots :
      /\ parent[i] # NONE => state[parent[i]] \notin {"UNUSED", "ZOMBIE"}
      /\ i # initproc /\ state[i] \notin {"UNUSED", "USED"} => parent[i] # NONE

\* No wakeup is lost: a parent is never left asleep in wait() while it has a
\* ZOMBIE child, because exit() and wait() both hold wait_lock.
NoLostWakeup ==
  wlock = NONE =>
    \A p, i \in Slots :
      state[p] = "SLEEPING" /\ parent[i] = p => state[i] # "ZOMBIE"

\* Two processes never have the same pid, and exactly the free slots have
\* pid 0.
PidUnique ==
  \A i, j \in Slots :
    /\ pid[i] = 0 <=> state[i] = "UNUSED"
    /\ pid[i] = pid[j] /\ pid[i] # 0 => i = j


\* A process that exits, or whose parent exits without waiting for it, is
\* eventually reaped: init's slot-by-slot wait() finds every orphaned ZOMBIE.
ZombieReaped ==
  \A p \in Slots :
    state[p] = "ZOMBIE" /\ parent[p] = initproc ~> state[p] = "UNUSED"

\* kill() wakes its victim from sleep(): outside wait_lock no process sleeps
\* in wait() with its killed flag set.
KilledNotAsleep ==
  wlock = NONE =>
    \A p \in Slots : killed[p] => state[p] # "SLEEPING"
============================================================================
