-------------------------- MODULE ProcTreeProofs --------------------------
(***************************************************************************)
(* Proofs about module Proc: pids, and the tree of processes that fork(),  *)
(* exit(), reparent() and wait() maintain.                                 *)
(***************************************************************************)
EXTENDS ProcProofs

Alive == {"RUNNABLE", "RUNNING", "SLEEPING"}

\* Pids are given out in increasing order.
PidInv ==
  /\ nextpid > 0
  /\ \A i \in Slots : pid[i] < nextpid
  /\ PidUnique

\* init never exits.
InitAlive ==
  /\ state[initproc] \in Alive
  /\ Loc(initproc) \notin {"exit", "reparent", "wakeup", "zombie"}

\* Whoever is a parent is alive, and every process that was started has one.
Parents ==
  \A i \in Slots :
    /\ parent[i] # NONE => state[parent[i]] \in Alive
    /\ i # initproc /\ state[i] \notin {"UNUSED", "USED"} => parent[i] # NONE
    /\ Loc(i) = "setrun" => parent[np[i]] # NONE

\* How far exit() has got with handing its children to init.
Reparented ==
  \A p, j \in Slots :
    /\ pc[p] = "reparent" /\ j < idx[p] => parent[j] # p
    /\ pc[p] = "wakeup" /\ wret[p] = "reparent" /\ j < idx[p] => parent[j] # p
    /\ pc[p] = "wakeup" /\ wret[p] = "zombie" => parent[j] # p
    /\ pc[p] = "zombie" => parent[j] # p

ParentInv == InitAlive /\ Parents /\ Reparented

\* The loop of reparent() keeps what exit() has handed over.
LEMMA ReparentLoop ==
  ASSUME NEW c \in CPUs, NEW p \in Slots, TypeOK, LockDiscipline, ParentInv,
         ReparentChild(c, p) \/ ReparentSkip(c, p)
  PROVE  ParentInv'
<1> USE Arithmetic DEF At, Goto, Set, Loc, TypeOK, ParentInv
<1>1. p # initproc /\ idx[p] \in Slots
  BY DEF ReparentChild, ReparentSkip, InitAlive
<1>2. InitAlive'
  BY <1>1 DEF ReparentChild, ReparentSkip, Reparent, CallWakeup, table, locals,
        InitAlive
<1>3. Parents'
  BY <1>1 DEF ReparentChild, ReparentSkip, Reparent, CallWakeup, table, locals,
        InitAlive, Parents, LockDiscipline, ForksDistinct
<1>4. \A j \in Slots : j < idx[p] + 1 => j < idx[p] \/ j = idx[p]
  <2> HIDE DEF TypeOK
  <2> QED BY <1>1, LoopOrder
<1>5. Reparented'
  <2> SUFFICES ASSUME NEW q \in Slots, NEW j \in Slots PROVE Reparented!(q, j)'
    BY DEF Reparented
  <2>1. q = initproc => pc[q] \notin {"reparent", "wakeup", "zombie"}
    BY DEF InitAlive
  <2>2. CASE q = p
    BY <1>1, <1>4, <2>2 DEF ReparentChild, ReparentSkip, Reparent, CallWakeup,
          table, Reparented
  <2>3. CASE q # p
    BY <2>1, <2>3 DEF ReparentChild, ReparentSkip, Reparent, CallWakeup, table,
          Reparented
  <2> QED BY <2>2, <2>3
<1> QED
  BY <1>2, <1>3, <1>5


\* allocpid() and freeproc() keep pids unique.
LEMMA PidStep == TypeOK /\ LockDiscipline /\ PidInv /\ [Next]_vars => PidInv'
<1> SUFFICES ASSUME TypeOK, LockDiscipline, PidInv, [Next]_vars PROVE PidInv'
  OBVIOUS
<1> USE Arithmetic DEF At, Goto, Set, Free, table, locks, cpu, locals, Labels,
   OpenLabels, QueryLabels, WaitLockLabels,
        ResumeLabels, TypeOK, States,
        LockDiscipline, CpusDistinct, LocksHeld, StatesMatch,
        ForksDistinct, HoldsSlot, Loc, PidInv, PidUnique
<1>1. ASSUME NEW c \in CPUs, Dispatch(c) PROVE PidInv'
  BY <1>1 DEF Dispatch
<1>2. ASSUME NEW c \in CPUs, SkipSlot(c) PROVE PidInv'
  BY <1>2 DEF SkipSlot
<1>3. ASSUME NEW c \in CPUs, NEW p \in Slots, SyscallAny(c, p) PROVE PidInv'
  <2>1. PICK call \in Calls \ {"fault"} : \E k \in KillPids \cup {0} : Syscall(c, p, call, k)
    BY <1>3 DEF SyscallAny
  <2>2. FirstLabel(call) \in {"alloc", "exit", "wait", "kill"} /\ (p = initproc => FirstLabel(call) # "exit")
    BY <2>1, SyscallLabel DEF Syscall
  <2> HIDE DEF FirstLabel
  <2> QED BY <2>1, <2>2 DEF Syscall
<1>4. ASSUME NEW c \in CPUs, NEW p \in Slots, Sched(c, p) PROVE PidInv'
  BY <1>4 DEF Sched
<1>5. ASSUME NEW c \in CPUs, NEW p \in Slots, Forkret(c, p) PROVE PidInv'
  BY <1>5 DEF Forkret
<1>6. ASSUME NEW c \in CPUs, NEW p \in Slots, Yielded(c, p) PROVE PidInv'
  BY <1>6 DEF Yielded
<1>7. ASSUME NEW c \in CPUs, NEW p \in Slots, SleepAwake(c, p) PROVE PidInv'
  BY <1>7 DEF SleepAwake
<1>8. ASSUME NEW c \in CPUs, NEW p \in Slots, TrapFault(c, p) PROVE PidInv'
  BY <1>8 DEF TrapFault
<1>9. ASSUME NEW c \in CPUs, NEW p \in Slots, Yield(c, p) PROVE PidInv'
  BY <1>9 DEF Yield, EnterSched
<1>10. ASSUME NEW c \in CPUs, NEW p \in Slots, TrapKilled(c, p) PROVE PidInv'
  BY <1>10 DEF TrapKilled, ExitLabel
<1>11. ASSUME NEW c \in CPUs, NEW p \in Slots, Return(c, p) PROVE PidInv'
  BY <1>11 DEF Return, ExitLabel
<1>12. ASSUME NEW c \in CPUs, NEW p \in Slots, AllocSkip(c, p) PROVE PidInv'
  BY <1>12 DEF AllocSkip
<1>13. ASSUME NEW c \in CPUs, NEW p \in Slots, AllocFound(c, p) PROVE PidInv'
  BY <1>13 DEF AllocFound, allocpid
<1>14. ASSUME NEW c \in CPUs, NEW p \in Slots, AllocNone(c, p) PROVE PidInv'
  BY <1>14 DEF AllocNone
<1>15. ASSUME NEW c \in CPUs, NEW p \in Slots, ForkFail(c, p) PROVE PidInv'
  BY <1>15 DEF ForkFail, Freeproc
<1>16. ASSUME NEW c \in CPUs, NEW p \in Slots, ForkCopy(c, p) PROVE PidInv'
  BY <1>16 DEF ForkCopy
<1>17. ASSUME NEW c \in CPUs, NEW p \in Slots, ForkParent(c, p) PROVE PidInv'
  BY <1>17 DEF ForkParent
<1>18. ASSUME NEW c \in CPUs, NEW p \in Slots, ForkRun(c, p) PROVE PidInv'
  BY <1>18 DEF ForkRun
<1>19. ASSUME NEW c \in CPUs, NEW p \in Slots, WakeupSlot(c, p) PROVE PidInv'
  BY <1>19 DEF WakeupSlot
<1>20. ASSUME NEW c \in CPUs, NEW p \in Slots, WakeupDone(c, p) PROVE PidInv'
  BY <1>20 DEF WakeupDone
<1>21. ASSUME NEW c \in CPUs, NEW p \in Slots, ExitLock(c, p) PROVE PidInv'
  BY <1>21 DEF ExitLock
<1>22. ASSUME NEW c \in CPUs, NEW p \in Slots, ReparentChild(c, p) PROVE PidInv'
  BY <1>22 DEF ReparentChild, Reparent, CallWakeup
<1>23. ASSUME NEW c \in CPUs, NEW p \in Slots, ReparentSkip(c, p) PROVE PidInv'
  BY <1>23 DEF ReparentSkip
<1>24. ASSUME NEW c \in CPUs, NEW p \in Slots, ExitWakeParent(c, p) PROVE PidInv'
  BY <1>24 DEF ExitWakeParent, CallWakeup
<1>25. ASSUME NEW c \in CPUs, NEW p \in Slots, ExitZombie(c, p) PROVE PidInv'
  BY <1>25 DEF ExitZombie, EnterSched
<1>26. ASSUME NEW c \in CPUs, NEW p \in Slots, WaitLock(c, p) PROVE PidInv'
  BY <1>26 DEF WaitLock, StartScan
<1>27. ASSUME NEW c \in CPUs, NEW p \in Slots, WaitSkip(c, p) PROVE PidInv'
  BY <1>27 DEF WaitSkip
<1>28. ASSUME NEW c \in CPUs, NEW p \in Slots, WaitReap(c, p) PROVE PidInv'
  BY <1>28 DEF WaitReap, Freeproc, Reapable
<1>29. ASSUME NEW c \in CPUs, NEW p \in Slots, WaitCopyoutFails(c, p) PROVE PidInv'
  BY <1>29 DEF WaitCopyoutFails, Reapable
<1>30. ASSUME NEW c \in CPUs, NEW p \in Slots, WaitNone(c, p) PROVE PidInv'
  BY <1>30 DEF WaitNone
<1>31. ASSUME NEW c \in CPUs, NEW p \in Slots, Sleep(c, p) PROVE PidInv'
  BY <1>31 DEF Sleep, EnterSched
<1>32. ASSUME NEW c \in CPUs, NEW p \in Slots, SleepRelock(c, p) PROVE PidInv'
  BY <1>32 DEF SleepRelock, StartScan
<1>33. ASSUME NEW c \in CPUs, NEW p \in Slots, KillHit(c, p) PROVE PidInv'
  BY <1>33 DEF KillHit
<1>34. ASSUME NEW c \in CPUs, NEW p \in Slots, KillSkip(c, p) PROVE PidInv'
  BY <1>34 DEF KillSkip
<1>35. ASSUME NEW c \in CPUs, NEW p \in Slots, KillNone(c, p) PROVE PidInv'
  BY <1>35 DEF KillNone
<1>36. CASE UNCHANGED vars
  BY <1>36 DEF vars
<1> HIDE DEF TypeOK, LockDiscipline, PidInv
<1> QED
  BY <1>1, <1>2, <1>3, <1>4, <1>5, <1>6, <1>7, <1>8, <1>9, <1>10, <1>11, <1>12,
     <1>13, <1>14, <1>15, <1>16, <1>17, <1>18, <1>19, <1>20, <1>21, <1>22,
     <1>23, <1>24, <1>25, <1>26, <1>27, <1>28, <1>29, <1>30, <1>31, <1>32,
     <1>33, <1>34, <1>35, <1>36 DEF Next, Scheduler, Switch, Handler

\* fork(), exit() and wait() keep the tree of processes.
LEMMA ParentStep == TypeOK /\ LockDiscipline /\ ParentInv /\ [Next]_vars => ParentInv'
<1> SUFFICES ASSUME TypeOK, LockDiscipline, ParentInv, [Next]_vars PROVE ParentInv'
  OBVIOUS
<1> USE Arithmetic DEF At, Goto, Set, Free, table, locks, cpu, locals, Labels,
   OpenLabels, QueryLabels, WaitLockLabels,
        ResumeLabels, TypeOK, States,
        LockDiscipline, CpusDistinct, LocksHeld, StatesMatch,
        ForksDistinct, HoldsSlot, Loc, ParentInv, InitAlive, Parents,
        Reparented, Alive
<1>1. ASSUME NEW c \in CPUs, Dispatch(c) PROVE ParentInv'
  BY <1>1 DEF Dispatch
<1>2. ASSUME NEW c \in CPUs, SkipSlot(c) PROVE ParentInv'
  BY <1>2 DEF SkipSlot
<1>3. ASSUME NEW c \in CPUs, NEW p \in Slots, SyscallAny(c, p) PROVE ParentInv'
  <2>1. PICK call \in Calls \ {"fault"} : \E k \in KillPids \cup {0} : Syscall(c, p, call, k)
    BY <1>3 DEF SyscallAny
  <2>2. FirstLabel(call) \in {"alloc", "exit", "wait", "kill"} /\ (p = initproc => FirstLabel(call) # "exit")
    BY <2>1, SyscallLabel DEF Syscall
  <2> HIDE DEF FirstLabel
  <2> QED BY <2>1, <2>2 DEF Syscall
<1>4. ASSUME NEW c \in CPUs, NEW p \in Slots, Sched(c, p) PROVE ParentInv'
  <2> HIDE DEF LockDiscipline
  <2>1. \A q \in Slots : Loc(q)' \in {Loc(q), "dead", "awake"}
    BY <1>4 DEF Sched
  <2>2. \A q \in Slots : pc'[q] # pc[q] => pc'[q] \in {"dead", "awake", "yielded"}
    BY <1>4 DEF Sched
  <2>3. UNCHANGED <<state, parent, idx, np, wret>>
    BY <1>4 DEF Sched
  <2> HIDE DEF Loc, TypeOK
  <2> QED BY <2>1, <2>2, <2>3
<1>5. ASSUME NEW c \in CPUs, NEW p \in Slots, Forkret(c, p) PROVE ParentInv'
  BY <1>5 DEF Forkret
<1>6. ASSUME NEW c \in CPUs, NEW p \in Slots, Yielded(c, p) PROVE ParentInv'
  <2> HIDE DEF LockDiscipline
  <2>1. \A q \in Slots : Loc(q)' \in {Loc(q)}
    BY <1>6 DEF Yielded
  <2>2. \A q \in Slots : pc'[q] # pc[q] => pc'[q] \in OpenLabels
    BY <1>6 DEF Yielded
  <2>3. UNCHANGED <<state, parent, idx, np, wret>>
    BY <1>6 DEF Yielded
  <2> HIDE DEF Loc, TypeOK
  <2> QED BY <2>1, <2>2, <2>3
<1>7. ASSUME NEW c \in CPUs, NEW p \in Slots, SleepAwake(c, p) PROVE ParentInv'
  BY <1>7 DEF SleepAwake
<1>8. ASSUME NEW c \in CPUs, NEW p \in Slots, TrapFault(c, p) PROVE ParentInv'
  BY <1>8 DEF TrapFault
<1>9. ASSUME NEW c \in CPUs, NEW p \in Slots, Yield(c, p) PROVE ParentInv'
  BY <1>9 DEF Yield, EnterSched
<1>10. ASSUME NEW c \in CPUs, NEW p \in Slots, TrapKilled(c, p) PROVE ParentInv'
  BY <1>10 DEF TrapKilled, ExitLabel
<1>11. ASSUME NEW c \in CPUs, NEW p \in Slots, Return(c, p) PROVE ParentInv'
  BY <1>11 DEF Return, ExitLabel
<1>12. ASSUME NEW c \in CPUs, NEW p \in Slots, AllocSkip(c, p) PROVE ParentInv'
  BY <1>12 DEF AllocSkip
<1>13. ASSUME NEW c \in CPUs, NEW p \in Slots, AllocFound(c, p) PROVE ParentInv'
  BY <1>13 DEF AllocFound, allocpid
<1>14. ASSUME NEW c \in CPUs, NEW p \in Slots, AllocNone(c, p) PROVE ParentInv'
  BY <1>14 DEF AllocNone
<1>15. ASSUME NEW c \in CPUs, NEW p \in Slots, ForkFail(c, p) PROVE ParentInv'
  BY <1>15 DEF ForkFail, Freeproc
<1>16. ASSUME NEW c \in CPUs, NEW p \in Slots, ForkCopy(c, p) PROVE ParentInv'
  BY <1>16 DEF ForkCopy
<1>17. ASSUME NEW c \in CPUs, NEW p \in Slots, ForkParent(c, p) PROVE ParentInv'
  BY <1>17 DEF ForkParent
<1>18. ASSUME NEW c \in CPUs, NEW p \in Slots, ForkRun(c, p) PROVE ParentInv'
  BY <1>18 DEF ForkRun
<1>19. ASSUME NEW c \in CPUs, NEW p \in Slots, WakeupSlot(c, p) PROVE ParentInv'
  BY <1>19 DEF WakeupSlot
<1>20. ASSUME NEW c \in CPUs, NEW p \in Slots, WakeupDone(c, p) PROVE ParentInv'
  BY <1>20 DEF WakeupDone
<1>21. ASSUME NEW c \in CPUs, NEW p \in Slots, ExitLock(c, p) PROVE ParentInv'
  BY <1>21, LoopOrder DEF ExitLock
<1>22. ASSUME NEW c \in CPUs, NEW p \in Slots, ReparentChild(c, p) PROVE ParentInv'
  BY <1>22, ReparentLoop
<1>23. ASSUME NEW c \in CPUs, NEW p \in Slots, ReparentSkip(c, p) PROVE ParentInv'
  BY <1>23, ReparentLoop
<1>24. ASSUME NEW c \in CPUs, NEW p \in Slots, ExitWakeParent(c, p) PROVE ParentInv'
  <2>1. InitAlive'
    BY <1>24, LoopOrder DEF ExitWakeParent, CallWakeup
  <2>2. Parents'
    BY <1>24, LoopOrder DEF ExitWakeParent, CallWakeup
  <2>3. Reparented'
    BY <1>24, LoopOrder DEF ExitWakeParent, CallWakeup
  <2> QED BY <2>1, <2>2, <2>3
<1>25. ASSUME NEW c \in CPUs, NEW p \in Slots, ExitZombie(c, p) PROVE ParentInv'
  BY <1>25 DEF ExitZombie, EnterSched
<1>26. ASSUME NEW c \in CPUs, NEW p \in Slots, WaitLock(c, p) PROVE ParentInv'
  BY <1>26 DEF WaitLock, StartScan
<1>27. ASSUME NEW c \in CPUs, NEW p \in Slots, WaitSkip(c, p) PROVE ParentInv'
  BY <1>27 DEF WaitSkip
<1>28. ASSUME NEW c \in CPUs, NEW p \in Slots, WaitReap(c, p) PROVE ParentInv'
  BY <1>28 DEF WaitReap, Freeproc, Reapable
<1>29. ASSUME NEW c \in CPUs, NEW p \in Slots, WaitCopyoutFails(c, p) PROVE ParentInv'
  BY <1>29 DEF WaitCopyoutFails, Reapable
<1>30. ASSUME NEW c \in CPUs, NEW p \in Slots, WaitNone(c, p) PROVE ParentInv'
  BY <1>30 DEF WaitNone
<1>31. ASSUME NEW c \in CPUs, NEW p \in Slots, Sleep(c, p) PROVE ParentInv'
  BY <1>31 DEF Sleep, EnterSched
<1>32. ASSUME NEW c \in CPUs, NEW p \in Slots, SleepRelock(c, p) PROVE ParentInv'
  BY <1>32 DEF SleepRelock, StartScan
<1>33. ASSUME NEW c \in CPUs, NEW p \in Slots, KillHit(c, p) PROVE ParentInv'
  BY <1>33 DEF KillHit
<1>34. ASSUME NEW c \in CPUs, NEW p \in Slots, KillSkip(c, p) PROVE ParentInv'
  BY <1>34 DEF KillSkip
<1>35. ASSUME NEW c \in CPUs, NEW p \in Slots, KillNone(c, p) PROVE ParentInv'
  BY <1>35 DEF KillNone
<1>36. CASE UNCHANGED vars
  BY <1>36 DEF vars
<1> HIDE DEF TypeOK, LockDiscipline, ParentInv
<1> QED
  BY <1>1, <1>2, <1>3, <1>4, <1>5, <1>6, <1>7, <1>8, <1>9, <1>10, <1>11, <1>12,
     <1>13, <1>14, <1>15, <1>16, <1>17, <1>18, <1>19, <1>20, <1>21, <1>22,
     <1>23, <1>24, <1>25, <1>26, <1>27, <1>28, <1>29, <1>30, <1>31, <1>32,
     <1>33, <1>34, <1>35, <1>36 DEF Next, Scheduler, Switch, Handler

---------------------------------------------------------------------------
LEMMA PidInit == Init => PidInv
BY Arithmetic DEF Init, PidInv, PidUnique

LEMMA ParentInit == Init => ParentInv
BY Arithmetic DEF Init, ParentInv, InitAlive, Parents, Reparented, Loc, Alive

\* What the steps of exit() and wait() keep, for every reachable state.
THEOREM TreeInvariance == Spec => [](PidInv /\ ParentInv)
BY TypeCorrect, LockSafety, PidInit, PidStep, ParentInit, ParentStep, PTL
   DEF Spec

\* allocproc() never gives two processes one pid.
THEOREM PidSafety == Spec => []PidUnique
BY TreeInvariance, PTL DEF PidInv

\* A slot that freeproc() has given back is not referred to any more.
THEOREM SlotSafety == Spec => []UnusedUnreferenced
<1>1. LockDiscipline /\ ParentInv => UnusedUnreferenced
  <2> SUFFICES ASSUME LockDiscipline, ParentInv,
                      NEW i \in Slots, state[i] = "UNUSED"
               PROVE  UnusedUnreferenced!(i)!2
    BY DEF UnusedUnreferenced
  <2>1. \A c \in CPUs : cproc[c] # i
    BY DEF LockDiscipline, StatesMatch
  <2>2. \A j \in Slots : parent[j] # i
    BY Arithmetic DEF ParentInv, Parents, Alive
  <2>3. \A j \in Slots : pc[j] \in {"copy", "setparent", "setrun"} => np[j] # i
    BY DEF LockDiscipline, ForksDistinct, Loc
  <2> QED
    BY <2>1, <2>2, <2>3
<1> QED
  BY <1>1, LockSafety, TreeInvariance, PTL

\* exit() and reparent() leave no child behind without a live parent.
THEOREM ParentSafety == Spec => []ParentAlive
<1>1. ParentInv => ParentAlive
  BY DEF ParentInv, Parents, Alive, ParentAlive
<1> QED
  BY <1>1, LockSafety, TreeInvariance, PTL
===========================================================================
