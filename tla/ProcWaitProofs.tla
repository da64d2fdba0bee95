-------------------------- MODULE ProcWaitProofs --------------------------
(***************************************************************************)
(* Proofs about module Proc: the wakeups between exit() and wait().        *)
(*                                                                         *)
(* A thread in one of wait_lock's sections is alone there, so a step of    *)
(* any other thread is quiet: it changes nothing WaitInv is about.         *)
(***************************************************************************)
EXTENDS ProcProofs

\* A sleeper is in wait(), and a thread inside wait_lock's sections is on a CPU.
Sleepers ==
  \A p \in Slots :
    /\ state[p] = "SLEEPING" => chan[p] = p
    /\ pc[p] \in WaitLockLabels => \E c \in CPUs : cproc[c] = p

\* What a scan of wait() has seen so far stays true, for it holds wait_lock.
Scanned ==
  \A p, j \in Slots :
    /\ pc[p] = "scan" /\ j < idx[p] /\ parent[j] = p => state[j] # "ZOMBIE"
    /\ pc[p] = "sleep" /\ parent[j] = p => state[j] # "ZOMBIE"

\* From exit()'s wakeup() on its parent is awake.
ParentWoken ==
  \A p \in Slots : parent[p] \in Slots =>
    /\ pc[p] = "wakeup" /\ wret[p] = "zombie" =>
         wchan[p] = parent[p] /\ (widx[p] > parent[p] => state[parent[p]] # "SLEEPING")
    /\ pc[p] = "zombie" => state[parent[p]] # "SLEEPING"

\* A parent that sleeps although it has a ZOMBIE child is about to be woken.
WakeupComing ==
  \A p, i \in Slots :
    state[p] = "SLEEPING" /\ parent[i] = p /\ state[i] = "ZOMBIE" =>
      \E q \in Slots : pc[q] = "wakeup" /\ wchan[q] = p /\ widx[q] <= p

WaitInv == Sleepers /\ Scanned /\ ParentWoken /\ WakeupComing

\* At most one thread is inside, it is RUNNING, and none if wait_lock is free.
LEMMA Inside ==
  ASSUME TypeOK, LockDiscipline, Sleepers
  PROVE  /\ \A p, q \in Slots :
              pc[p] \in WaitLockLabels /\ pc[q] \in WaitLockLabels => p = q
         /\ \A p \in Slots :
              pc[p] \in WaitLockLabels => state[p] = "RUNNING" /\ wlock # NONE
<1> USE Arithmetic DEF LockDiscipline, Sleepers
<1>1. ASSUME NEW p \in Slots, pc[p] \in WaitLockLabels
      PROVE  \E c \in CPUs : cproc[c] = p /\ wlock = c
  BY <1>1 DEF LocksHeld
<1>2. ASSUME NEW p \in Slots, pc[p] \in WaitLockLabels PROVE pc[p] # "sched"
  BY <1>2 DEF WaitLockLabels
<1> QED
  BY <1>1, <1>2 DEF StatesMatch

Quiet ==
  /\ \A q \in Slots : pc'[q] \in WaitLockLabels =>
       /\ \/ /\ pc'[q] = pc[q] /\ idx'[q] = idx[q] /\ widx'[q] = widx[q]
             /\ wchan'[q] = wchan[q] /\ wret'[q] = wret[q] /\ parent'[q] = parent[q]
          \/ pc'[q] \in {"scan", "reparent"} /\ idx'[q] = 0
       /\ \E c \in CPUs : cproc'[c] = q
  /\ \A q \in Slots : pc[q] = "wakeup" => pc'[q] = "wakeup"
  /\ \A q \in Slots : state'[q] = "SLEEPING" => state[q] = "SLEEPING" /\ chan'[q] = chan[q]
  /\ \A q \in Slots : state'[q] = "ZOMBIE" => state[q] = "ZOMBIE" /\ parent'[q] = parent[q]

\* A quiet step keeps WaitInv.
LEMMA QuietStep == TypeOK /\ TypeOK' /\ WaitInv /\ Quiet => WaitInv'
<1> SUFFICES ASSUME TypeOK, TypeOK', WaitInv, Quiet PROVE WaitInv'
  OBVIOUS
<1> USE DEF WaitInv
<1>1. Sleepers'
  BY DEF Sleepers, Quiet
<1>2. Scanned'
  <2>1. \A j \in Slots : ~ (j < 0)
    BY LoopOrder
  <2> QED
    BY <2>1 DEF Scanned, Quiet, WaitLockLabels
<1>3. ParentWoken'
  BY DEF ParentWoken, Quiet, WaitLockLabels, TypeOK
<1>4. WakeupComing'
  BY DEF WakeupComing, Quiet, WaitLockLabels
<1> QED
  BY <1>1, <1>2, <1>3, <1>4


\* All steps are quiet but those taken inside wait_lock's sections.
Busy(c, p) ==
  \/ ReparentChild(c, p) \/ ReparentSkip(c, p) \/ ExitWakeParent(c, p)
  \/ ExitZombie(c, p) \/ WakeupSlot(c, p) \/ WakeupDone(c, p)
  \/ WaitSkip(c, p) \/ WaitNone(c, p) \/ Sleep(c, p)

LEMMA QuietOrBusy ==
  TypeOK /\ LockDiscipline /\ Sleepers /\ [Next]_vars =>
    Quiet \/ \E c \in CPUs, p \in Slots : Busy(c, p)
<1> SUFFICES ASSUME TypeOK, LockDiscipline, Sleepers, [Next]_vars,
                    ~ \E c \in CPUs, p \in Slots : Busy(c, p)
             PROVE Quiet
  OBVIOUS
<1> USE Arithmetic DEF At, Goto, Set, Free, table, locks, cpu, locals, Labels,
   OpenLabels, QueryLabels, WaitLockLabels,
        ResumeLabels, TypeOK, States,
        LockDiscipline, CpusDistinct, LocksHeld, StatesMatch,
        ForksDistinct, HoldsSlot, Loc, Quiet
<1>0. \A q \in Slots : pc[q] \in WaitLockLabels =>
        state[q] = "RUNNING" /\ \E c \in CPUs : cproc[c] = q
  <2> HIDE DEF LockDiscipline, TypeOK, WaitLockLabels
  <2> QED BY Inside DEF Sleepers
<1> HIDE DEF LocksHeld
<1>1. ASSUME NEW c \in CPUs, Dispatch(c) PROVE Quiet
  BY <1>0, <1>1 DEF Dispatch
<1>2. ASSUME NEW c \in CPUs, SkipSlot(c) PROVE Quiet
  BY <1>0, <1>2 DEF SkipSlot
<1>3. ASSUME NEW c \in CPUs, NEW p \in Slots, SyscallAny(c, p) PROVE Quiet
  <2>1. PICK call \in Calls \ {"fault"} : \E k \in KillPids \cup {0} : Syscall(c, p, call, k)
    BY <1>3 DEF SyscallAny
  <2>2. FirstLabel(call) \in {"alloc", "exit", "wait", "kill"} /\ (p = initproc => FirstLabel(call) # "exit")
    BY <2>1, SyscallLabel DEF Syscall
  <2> HIDE DEF FirstLabel
  <2> QED BY <1>0, <2>1, <2>2 DEF Syscall
<1>4. ASSUME NEW c \in CPUs, NEW p \in Slots, Sched(c, p) PROVE Quiet
  BY <1>0, <1>4 DEF Sched
<1>5. ASSUME NEW c \in CPUs, NEW p \in Slots, Forkret(c, p) PROVE Quiet
  BY <1>0, <1>5 DEF Forkret
<1>6. ASSUME NEW c \in CPUs, NEW p \in Slots, Yielded(c, p) PROVE Quiet
  <2>1. \A q \in Slots : pc'[q] = pc[q] \/ (pc'[q] \in OpenLabels /\ pc[q] = "yielded")
    BY <1>6 DEF Yielded
  <2>2. UNCHANGED <<table, cpu, idx, widx, wchan, wret>>
    BY <1>6 DEF Yielded
  <2> HIDE DEF LockDiscipline, TypeOK
  <2> QED BY <1>0, <2>1, <2>2
<1>7. ASSUME NEW c \in CPUs, NEW p \in Slots, SleepAwake(c, p) PROVE Quiet
  BY <1>0, <1>7 DEF SleepAwake
<1>8. ASSUME NEW c \in CPUs, NEW p \in Slots, TrapFault(c, p) PROVE Quiet
  BY <1>0, <1>8 DEF TrapFault
<1>9. ASSUME NEW c \in CPUs, NEW p \in Slots, Yield(c, p) PROVE Quiet
  BY <1>0, <1>9 DEF Yield, EnterSched
<1>10. ASSUME NEW c \in CPUs, NEW p \in Slots, TrapKilled(c, p) PROVE Quiet
  BY <1>0, <1>10 DEF TrapKilled, ExitLabel
<1>11. ASSUME NEW c \in CPUs, NEW p \in Slots, Return(c, p) PROVE Quiet
  BY <1>0, <1>11 DEF Return, ExitLabel
<1>12. ASSUME NEW c \in CPUs, NEW p \in Slots, AllocSkip(c, p) PROVE Quiet
  BY <1>0, <1>12 DEF AllocSkip
<1>13. ASSUME NEW c \in CPUs, NEW p \in Slots, AllocFound(c, p) PROVE Quiet
  BY <1>0, <1>13 DEF AllocFound, allocpid
<1>14. ASSUME NEW c \in CPUs, NEW p \in Slots, AllocNone(c, p) PROVE Quiet
  BY <1>0, <1>14 DEF AllocNone
<1>15. ASSUME NEW c \in CPUs, NEW p \in Slots, ForkFail(c, p) PROVE Quiet
  BY <1>0, <1>15 DEF ForkFail, Freeproc
<1>16. ASSUME NEW c \in CPUs, NEW p \in Slots, ForkCopy(c, p) PROVE Quiet
  BY <1>0, <1>16 DEF ForkCopy
<1>17. ASSUME NEW c \in CPUs, NEW p \in Slots, ForkParent(c, p) PROVE Quiet
  BY <1>0, <1>17 DEF ForkParent
<1>18. ASSUME NEW c \in CPUs, NEW p \in Slots, ForkRun(c, p) PROVE Quiet
  BY <1>0, <1>18 DEF ForkRun
<1>19. ASSUME NEW c \in CPUs, NEW p \in Slots, ExitLock(c, p) PROVE Quiet
  BY <1>0, <1>19 DEF ExitLock
<1>20. ASSUME NEW c \in CPUs, NEW p \in Slots, WaitLock(c, p) PROVE Quiet
  BY <1>0, <1>20 DEF WaitLock, StartScan
<1>21. ASSUME NEW c \in CPUs, NEW p \in Slots, WaitReap(c, p) PROVE Quiet
  BY <1>0, <1>21 DEF WaitReap, Freeproc, Reapable
<1>22. ASSUME NEW c \in CPUs, NEW p \in Slots, WaitCopyoutFails(c, p) PROVE Quiet
  BY <1>0, <1>22 DEF WaitCopyoutFails, Reapable
<1>23. ASSUME NEW c \in CPUs, NEW p \in Slots, SleepRelock(c, p) PROVE Quiet
  BY <1>0, <1>23 DEF SleepRelock, StartScan
<1>24. ASSUME NEW c \in CPUs, NEW p \in Slots, KillHit(c, p) PROVE Quiet
  BY <1>0, <1>24 DEF KillHit
<1>25. ASSUME NEW c \in CPUs, NEW p \in Slots, KillSkip(c, p) PROVE Quiet
  BY <1>0, <1>25 DEF KillSkip
<1>26. ASSUME NEW c \in CPUs, NEW p \in Slots, KillNone(c, p) PROVE Quiet
  BY <1>0, <1>26 DEF KillNone
<1>27. CASE UNCHANGED vars
  BY <1>0, <1>27 DEF vars
<1> HIDE DEF Quiet, TypeOK, LockDiscipline
<1> QED
  BY <1>1, <1>2, <1>3, <1>4, <1>5, <1>6, <1>7, <1>8, <1>9, <1>10, <1>11, <1>12,
     <1>13, <1>14, <1>15, <1>16, <1>17, <1>18, <1>19, <1>20, <1>21, <1>22,
     <1>23, <1>24, <1>25, <1>26, <1>27 DEF Next, Scheduler, Switch, Handler,
     Busy

\* The steps inside wait_lock's sections, where p is the only thread.
LEMMA BusyStep ==
  ASSUME NEW c \in CPUs, NEW p \in Slots,
         TypeOK, LockDiscipline, WaitInv, Busy(c, p)
  PROVE  WaitInv'
<1> USE DEF At, Goto, Set, WaitInv
<1>1. cproc[c] = p /\ pc[p] \in WaitLockLabels
  BY DEF Busy, WaitLockLabels, ReparentChild, ReparentSkip, ExitWakeParent,
         ExitZombie, WakeupSlot, WakeupDone, WaitSkip, WaitNone, Sleep
<1>2. \A q \in Slots : pc[q] \in WaitLockLabels => q = p
  BY <1>1, Inside
<1>3. state[p] = "RUNNING"
  BY <1>1, Inside
<1>4. ASSUME pc[p] # "wakeup"
      PROVE  \A q, i \in Slots :
               state[q] = "SLEEPING" /\ parent[i] = q => state[i] # "ZOMBIE"
  BY <1>2, <1>4 DEF WakeupComing, WaitLockLabels
<1> USE DEF TypeOK, WaitLockLabels
<1>5. CASE ReparentChild(c, p)
  <2>0. pc[p] # "wakeup"
    BY <1>5 DEF ReparentChild
  <2>1. Sleepers'
    BY <1>5, <1>1, <1>2, <1>3, Arithmetic DEF ReparentChild, Reparent,
       CallWakeup, table, locks, cpu, locals, Sleepers
  <2>2. Scanned'
    BY <1>5, <1>1, <1>2, <1>3, Arithmetic DEF ReparentChild, Reparent,
       CallWakeup, table, locks, cpu, locals, Scanned
  <2>3. ParentWoken'
    BY <1>5, <1>1, <1>2, <1>3, LoopOrder, Arithmetic DEF ReparentChild,
       Reparent, CallWakeup, table, locks, cpu, locals, ParentWoken
  <2>4. WakeupComing'
    BY <1>5, <1>1, <1>2, <1>3, <1>4, <2>0, LoopOrder, Arithmetic DEF
       ReparentChild, Reparent, CallWakeup, table, locks, cpu, locals,
       WakeupComing
  <2> QED BY <2>1, <2>2, <2>3, <2>4
<1>6. CASE ReparentSkip(c, p)
  <2>0. pc[p] # "wakeup"
    BY <1>6 DEF ReparentSkip
  <2>1. Sleepers'
    BY <1>6, <1>1, <1>2, <1>3 DEF ReparentSkip, table, locks, cpu, locals,
       Sleepers
  <2>2. Scanned'
    BY <1>6, <1>1, <1>2, <1>3 DEF ReparentSkip, table, locks, cpu, locals,
       Scanned
  <2>3. ParentWoken'
    BY <1>6, <1>1, <1>2, <1>3 DEF ReparentSkip, table, locks, cpu, locals,
       ParentWoken
  <2>4. WakeupComing'
    BY <1>6, <1>1, <1>2, <1>3, <1>4, <2>0 DEF ReparentSkip, table, locks, cpu,
       locals, WakeupComing
  <2> QED BY <2>1, <2>2, <2>3, <2>4
<1>7. CASE ExitWakeParent(c, p)
  <2>0. pc[p] # "wakeup"
    BY <1>7 DEF ExitWakeParent
  <2>1. Sleepers'
    BY <1>7, <1>1, <1>2, <1>3, Arithmetic DEF ExitWakeParent, CallWakeup,
       table, locks, cpu, locals, Sleepers
  <2>2. Scanned'
    BY <1>7, <1>1, <1>2, <1>3, Arithmetic DEF ExitWakeParent, CallWakeup,
       table, locks, cpu, locals, Scanned
  <2>3. ParentWoken'
    BY <1>7, <1>1, <1>2, <1>3, LoopOrder DEF ExitWakeParent,
       CallWakeup, table, locks, cpu, locals, ParentWoken
  <2>4. WakeupComing'
    BY <1>7, <1>1, <1>2, <1>3, <1>4, <2>0, LoopOrder, Arithmetic DEF
       ExitWakeParent, CallWakeup, table, locks, cpu, locals, WakeupComing
  <2> QED BY <2>1, <2>2, <2>3, <2>4
<1>8. CASE ExitZombie(c, p)
  <2>0. pc[p] # "wakeup"
    BY <1>8 DEF ExitZombie
  <2>1. Sleepers'
    BY <1>8, <1>1, <1>2, <1>3 DEF ExitZombie, EnterSched, table, locks, cpu,
       locals, Sleepers
  <2>2. Scanned'
    BY <1>8, <1>1, <1>2, <1>3 DEF ExitZombie, EnterSched, table, locks, cpu,
       locals, Scanned
  <2>3. ParentWoken'
    BY <1>8, <1>1, <1>2, <1>3 DEF ExitZombie, EnterSched, table, locks, cpu,
       locals, ParentWoken
  <2>4. WakeupComing'
    BY <1>8, <1>1, <1>2, <1>3, <1>4, <2>0 DEF ExitZombie, EnterSched, table,
       locks, cpu, locals, WakeupComing, ParentWoken
  <2> QED BY <2>1, <2>2, <2>3, <2>4
<1>9. CASE WakeupSlot(c, p)
  <2>1. Sleepers'
    BY <1>9, <1>1, <1>2, <1>3 DEF WakeupSlot, table, locks, cpu, locals,
       Sleepers
  <2>2. Scanned'
    BY <1>9, <1>1, <1>2, <1>3 DEF WakeupSlot, table, locks, cpu, locals,
       Scanned
  <2>3. ParentWoken'
    BY <1>9, <1>1, <1>2, <1>3, LoopOrder DEF WakeupSlot, table, locks, cpu,
       locals, ParentWoken, Sleepers
  <2>4. WakeupComing'
    BY <1>9, <1>1, <1>2, <1>3, LoopOrder DEF WakeupSlot, table, locks, cpu,
       locals, WakeupComing, Sleepers
  <2> QED BY <2>1, <2>2, <2>3, <2>4
<1>10. CASE WakeupDone(c, p)
  <2>1. Sleepers'
    BY <1>10, <1>1, <1>2, <1>3, Arithmetic DEF WakeupDone, table, locks, cpu,
       locals, Sleepers
  <2>2. Scanned'
    BY <1>10, <1>1, <1>2, <1>3, Arithmetic DEF WakeupDone, table, locks, cpu,
       locals, Scanned
  <2>3. ParentWoken'
    BY <1>10, <1>1, <1>2, <1>3, LoopOrder, Arithmetic DEF WakeupDone, table,
       locks, cpu, locals, ParentWoken
  <2>4. WakeupComing'
    BY <1>10, <1>1, <1>2, <1>3, LoopOrder DEF WakeupDone, table,
       locks, cpu, locals, WakeupComing
  <2> QED BY <2>1, <2>2, <2>3, <2>4
<1>11. CASE WaitSkip(c, p)
  <2>0. pc[p] # "wakeup"
    BY <1>11 DEF WaitSkip
  <2>1. Sleepers'
    BY <1>11, <1>1, <1>2, <1>3 DEF WaitSkip, table, locks, cpu, locals,
       Sleepers
  <2>2. Scanned'
    BY <1>11, <1>1, <1>2, <1>3, LoopOrder DEF WaitSkip, table, locks, cpu,
       locals, Scanned
  <2>3. ParentWoken'
    BY <1>11, <1>1, <1>2, <1>3 DEF WaitSkip, table, locks, cpu, locals,
       ParentWoken
  <2>4. WakeupComing'
    BY <1>11, <1>1, <1>2, <1>3, <1>4, <2>0 DEF WaitSkip, table, locks, cpu,
       locals, WakeupComing
  <2> QED BY <2>1, <2>2, <2>3, <2>4
<1>12. CASE WaitNone(c, p)
  <2>0. pc[p] # "wakeup"
    BY <1>12 DEF WaitNone
  <2>1. Sleepers'
    BY <1>12, <1>1, <1>2, <1>3 DEF WaitNone, table, locks, cpu, locals,
       Sleepers
  <2>2. Scanned'
    BY <1>12, <1>1, <1>2, <1>3, LoopOrder DEF WaitNone, table, locks, cpu,
       locals, Scanned
  <2>3. ParentWoken'
    BY <1>12, <1>1, <1>2, <1>3 DEF WaitNone, table, locks, cpu, locals,
       ParentWoken
  <2>4. WakeupComing'
    BY <1>12, <1>1, <1>2, <1>3, <1>4, <2>0 DEF WaitNone, table, locks, cpu,
       locals, WakeupComing
  <2> QED BY <2>1, <2>2, <2>3, <2>4
<1>13. CASE Sleep(c, p)
  <2>0. pc[p] # "wakeup"
    BY <1>13 DEF Sleep
  <2>1. Sleepers'
    BY <1>13, <1>1, <1>2, <1>3 DEF Sleep, EnterSched, table, locks, cpu,
       locals, Sleepers
  <2>2. Scanned'
    BY <1>13, <1>1, <1>2, <1>3 DEF Sleep, EnterSched, table, locks, cpu,
       locals, Scanned
  <2>3. ParentWoken'
    BY <1>13, <1>1, <1>2, <1>3 DEF Sleep, EnterSched, table, locks, cpu,
       locals, ParentWoken
  <2>4. WakeupComing'
    BY <1>13, <1>1, <1>2, <1>3, <1>4, <2>0 DEF Sleep, EnterSched, table,
       locks, cpu, locals, WakeupComing, Scanned
  <2> QED BY <2>1, <2>2, <2>3, <2>4
<1> QED
  BY <1>5, <1>6, <1>7, <1>8, <1>9, <1>10, <1>11, <1>12, <1>13 DEF Busy

\* exit() and wait() keep every needed wakeup on its way.
LEMMA WaitStep ==
  TypeOK /\ TypeOK' /\ LockDiscipline /\ WaitInv /\ [Next]_vars => WaitInv'
BY QuietOrBusy, QuietStep, BusyStep DEF WaitInv

---------------------------------------------------------------------------
LEMMA WaitInit == Init => WaitInv
BY Arithmetic DEF Init, WaitInv, Sleepers, Scanned, ParentWoken, WakeupComing,
   WaitLockLabels

\* What the steps of exit(), wait() and wakeup() keep, for every reachable state.
THEOREM WaitInvariance == Spec => []WaitInv
BY TypeCorrect, LockSafety, WaitInit, WaitStep, PTL DEF Spec

\* No wakeup between exit() and wait() is lost.
THEOREM WakeupSafety == Spec => []NoLostWakeup
<1>1. TypeOK /\ LockDiscipline /\ WaitInv => NoLostWakeup
  <2> SUFFICES ASSUME TypeOK, LockDiscipline, WaitInv,
                      wlock = NONE PROVE NoLostWakeup
    BY DEF NoLostWakeup
  <2>1. \A q \in Slots : pc[q] # "wakeup"
    BY Inside DEF WaitInv, WaitLockLabels
  <2> QED
    BY <2>1 DEF WaitInv, WakeupComing, NoLostWakeup
<1> QED
  BY <1>1, TypeCorrect, LockSafety, WaitInvariance, PTL
===========================================================================
