---------------------------- MODULE ProcProofs ----------------------------
(***************************************************************************)
(* Proofs about module Proc, for any number of slots, CPUs, pids and       *)
(* calls: types, and who holds which lock.                                 *)
(***************************************************************************)
EXTENDS Proc, TLAPS


\* What the arithmetic on slots and loop indices gives; the proofs below use
\* these facts and leave Slots, CPUs and Indices unexpanded.
LEMMA Arithmetic ==
  /\ initproc \in Slots /\ NONE \notin Slots /\ NONE \notin CPUs
  /\ 0 \in Slots /\ 0 \in Indices /\ NPROC \notin Slots
  /\ \A i \in Indices : i < NPROC => i \in Slots /\ i + 1 \in Indices
  /\ \A i \in Slots : NextSlot(i) \in Slots
BY ProcAssumption DEF initproc, NONE, Slots, CPUs, Indices, NextSlot

\* The order on slots and indices, for the loops that go through the table.
LEMMA LoopOrder ==
  /\ \A i, j \in Slots :
       /\ j < i + 1 => j < i \/ j = i
       /\ i + 1 > j => i > j \/ i = j
       /\ i <= j /\ i # j => i + 1 <= j
  /\ \A j \in Slots : 0 <= j /\ j < NPROC
  /\ \A j \in Slots : ~ (j < 0) /\ ~ (0 > j) /\ ~ (NPROC <= j) /\ NPROC > j
  /\ \A i \in Indices : i < NPROC => i \in Slots
<1>1. Slots \subseteq Int /\ Indices \subseteq Int
  BY ProcAssumption DEF Slots, Indices
<1>2. \A j \in Slots : 0 <= j /\ j < NPROC
  BY ProcAssumption DEF Slots
<1>3. \A i \in Indices : i < NPROC => i \in Slots
  BY ProcAssumption DEF Slots, Indices
<1> QED
  BY <1>1, <1>2, <1>3, ProcAssumption

\* Where a system call enters the kernel code.
LEMMA SyscallLabel ==
  ASSUME NEW call \in Calls \ {"fault"}
  PROVE  /\ FirstLabel(call) \in {"alloc", "exit", "wait", "kill"}
         /\ call \in {"fork", "wait"} => FirstLabel(call) # "exit"
<1>1. call \in {"fork", "exit", "wait", "kill"}
  BY ProcAssumption
<1> QED
  BY <1>1 DEF FirstLabel

\* Every step of the code keeps every variable in its type.
LEMMA TypeStep == TypeOK /\ [Next]_vars => TypeOK'
<1> SUFFICES ASSUME TypeOK, [Next]_vars PROVE TypeOK'
  OBVIOUS
<1> USE DEF TypeOK, States, Labels, OpenLabels, QueryLabels,
        WaitLockLabels, ResumeLabels, At, Goto, Set, table, locks, cpu, locals
<1>1. ASSUME NEW c \in CPUs, Dispatch(c) PROVE TypeOK'
  BY <1>1, Arithmetic DEF Dispatch
<1>2. ASSUME NEW c \in CPUs, SkipSlot(c) PROVE TypeOK'
  BY <1>2, Arithmetic DEF SkipSlot
<1>3. ASSUME NEW c \in CPUs, NEW p \in Slots, SyscallAny(c, p) PROVE TypeOK'
  BY <1>3, ProcAssumption DEF SyscallAny, Syscall, FirstLabel
<1>4. ASSUME NEW c \in CPUs, NEW p \in Slots, Sched(c, p) PROVE TypeOK'
  BY <1>4, Arithmetic DEF Sched
<1>5. ASSUME NEW c \in CPUs, NEW p \in Slots, Forkret(c, p) PROVE TypeOK'
  BY <1>5, Arithmetic DEF Forkret
<1>6. ASSUME NEW c \in CPUs, NEW p \in Slots, Yielded(c, p) PROVE TypeOK'
  BY <1>6, Arithmetic DEF Yielded
<1>7. ASSUME NEW c \in CPUs, NEW p \in Slots, SleepAwake(c, p) PROVE TypeOK'
  BY <1>7, Arithmetic DEF SleepAwake
<1>8. ASSUME NEW c \in CPUs, NEW p \in Slots, TrapFault(c, p) PROVE TypeOK'
  BY <1>8, Arithmetic DEF TrapFault
<1>9. ASSUME NEW c \in CPUs, NEW p \in Slots, Yield(c, p) PROVE TypeOK'
  BY <1>9, Arithmetic DEF Yield, EnterSched
<1>10. ASSUME NEW c \in CPUs, NEW p \in Slots, TrapKilled(c, p) PROVE TypeOK'
  BY <1>10, Arithmetic DEF TrapKilled, ExitLabel
<1>11. ASSUME NEW c \in CPUs, NEW p \in Slots, Return(c, p) PROVE TypeOK'
  BY <1>11, Arithmetic DEF Return, ExitLabel
<1>12. ASSUME NEW c \in CPUs, NEW p \in Slots, AllocSkip(c, p) PROVE TypeOK'
  BY <1>12, Arithmetic DEF AllocSkip
<1>13. ASSUME NEW c \in CPUs, NEW p \in Slots, AllocFound(c, p) PROVE TypeOK'
  BY <1>13, Arithmetic DEF AllocFound, allocpid
<1>14. ASSUME NEW c \in CPUs, NEW p \in Slots, AllocNone(c, p) PROVE TypeOK'
  BY <1>14, Arithmetic DEF AllocNone
<1>15. ASSUME NEW c \in CPUs, NEW p \in Slots, ForkFail(c, p) PROVE TypeOK'
  BY <1>15, Arithmetic DEF ForkFail, Freeproc
<1>16. ASSUME NEW c \in CPUs, NEW p \in Slots, ForkCopy(c, p) PROVE TypeOK'
  BY <1>16, Arithmetic DEF ForkCopy
<1>17. ASSUME NEW c \in CPUs, NEW p \in Slots, ForkParent(c, p) PROVE TypeOK'
  BY <1>17, Arithmetic DEF ForkParent
<1>18. ASSUME NEW c \in CPUs, NEW p \in Slots, ForkRun(c, p) PROVE TypeOK'
  BY <1>18, Arithmetic DEF ForkRun
<1>19. ASSUME NEW c \in CPUs, NEW p \in Slots, WakeupSlot(c, p) PROVE TypeOK'
  BY <1>19, Arithmetic DEF WakeupSlot
<1>20. ASSUME NEW c \in CPUs, NEW p \in Slots, WakeupDone(c, p) PROVE TypeOK'
  BY <1>20, Arithmetic DEF WakeupDone
<1>21. ASSUME NEW c \in CPUs, NEW p \in Slots, ExitLock(c, p) PROVE TypeOK'
  BY <1>21, Arithmetic DEF ExitLock
<1>22. ASSUME NEW c \in CPUs, NEW p \in Slots, ReparentChild(c, p) PROVE TypeOK'
  BY <1>22, Arithmetic DEF ReparentChild, Reparent, CallWakeup
<1>23. ASSUME NEW c \in CPUs, NEW p \in Slots, ReparentSkip(c, p) PROVE TypeOK'
  BY <1>23, Arithmetic DEF ReparentSkip
<1>24. ASSUME NEW c \in CPUs, NEW p \in Slots, ExitWakeParent(c, p) PROVE TypeOK'
  BY <1>24, Arithmetic DEF ExitWakeParent, CallWakeup
<1>25. ASSUME NEW c \in CPUs, NEW p \in Slots, ExitZombie(c, p) PROVE TypeOK'
  BY <1>25, Arithmetic DEF ExitZombie, EnterSched
<1>26. ASSUME NEW c \in CPUs, NEW p \in Slots, WaitLock(c, p) PROVE TypeOK'
  BY <1>26, Arithmetic DEF WaitLock, StartScan
<1>27. ASSUME NEW c \in CPUs, NEW p \in Slots, WaitSkip(c, p) PROVE TypeOK'
  BY <1>27, Arithmetic DEF WaitSkip
<1>28. ASSUME NEW c \in CPUs, NEW p \in Slots, WaitReap(c, p) PROVE TypeOK'
  BY <1>28, Arithmetic DEF WaitReap, Freeproc, Reapable
<1>29. ASSUME NEW c \in CPUs, NEW p \in Slots, WaitCopyoutFails(c, p) PROVE TypeOK'
  BY <1>29, Arithmetic DEF WaitCopyoutFails, Reapable
<1>30. ASSUME NEW c \in CPUs, NEW p \in Slots, WaitNone(c, p) PROVE TypeOK'
  BY <1>30, Arithmetic DEF WaitNone
<1>31. ASSUME NEW c \in CPUs, NEW p \in Slots, Sleep(c, p) PROVE TypeOK'
  BY <1>31, Arithmetic DEF Sleep, EnterSched
<1>32. ASSUME NEW c \in CPUs, NEW p \in Slots, SleepRelock(c, p) PROVE TypeOK'
  BY <1>32, Arithmetic DEF SleepRelock, StartScan
<1>33. ASSUME NEW c \in CPUs, NEW p \in Slots, KillHit(c, p) PROVE TypeOK'
  BY <1>33, Arithmetic DEF KillHit
<1>34. ASSUME NEW c \in CPUs, NEW p \in Slots, KillSkip(c, p) PROVE TypeOK'
  BY <1>34, Arithmetic DEF KillSkip
<1>35. ASSUME NEW c \in CPUs, NEW p \in Slots, KillNone(c, p) PROVE TypeOK'
  BY <1>35, Arithmetic DEF KillNone
<1>36. CASE UNCHANGED vars
  BY <1>36 DEF vars
<1> QED
  BY <1>1, <1>2, <1>3, <1>4, <1>5, <1>6, <1>7, <1>8, <1>9, <1>10, <1>11, <1>12,
     <1>13, <1>14, <1>15, <1>16, <1>17, <1>18, <1>19, <1>20, <1>21, <1>22,
     <1>23, <1>24, <1>25, <1>26, <1>27, <1>28, <1>29, <1>30, <1>31, <1>32,
     <1>33, <1>34, <1>35, <1>36 DEF Next, Scheduler, Switch, Handler

\* The locks and places agree after every step, given that they did before.
LEMMA LockStep == TypeOK /\ LockDiscipline /\ [Next]_vars => LockDiscipline'
<1> SUFFICES ASSUME TypeOK, LockDiscipline, [Next]_vars PROVE LockDiscipline'
  OBVIOUS
<1> USE Arithmetic DEF At, Goto, Set, Free, table, locks, cpu, locals, Labels,
   OpenLabels, QueryLabels,
        WaitLockLabels, ResumeLabels, TypeOK, States, LockDiscipline,
        CpusDistinct, LocksHeld, StatesMatch, ForksDistinct, HoldsSlot, Loc
<1>1. ASSUME NEW c \in CPUs, Dispatch(c) PROVE LockDiscipline'
  BY <1>1 DEF Dispatch
<1>2. ASSUME NEW c \in CPUs, SkipSlot(c) PROVE LockDiscipline'
  BY <1>2 DEF SkipSlot
<1>3. ASSUME NEW c \in CPUs, NEW p \in Slots, SyscallAny(c, p) PROVE LockDiscipline'
  <2>1. PICK call \in Calls \ {"fault"} : \E k \in KillPids \cup {0} : Syscall(c, p, call, k)
    BY <1>3 DEF SyscallAny
  <2>2. FirstLabel(call) \in {"alloc", "exit", "wait", "kill"}
    BY ProcAssumption DEF FirstLabel
  <2> HIDE DEF FirstLabel
  <2> QED BY <2>1, <2>2 DEF Syscall
<1>4. ASSUME NEW c \in CPUs, NEW p \in Slots, Sched(c, p) PROVE LockDiscipline'
  BY <1>4 DEF Sched
<1>5. ASSUME NEW c \in CPUs, NEW p \in Slots, Forkret(c, p) PROVE LockDiscipline'
  BY <1>5 DEF Forkret
<1>6. ASSUME NEW c \in CPUs, NEW p \in Slots, Yielded(c, p) PROVE LockDiscipline'
  <2> DEFINE y == ypc[p]
  <2>1. /\ y \in OpenLabels
        /\ y \notin ResumeLabels \cup WaitLockLabels \cup {"sched", "copy"}
    OBVIOUS
  <2>2. pc' = [pc EXCEPT ![p] = y] /\ Loc(p) = y
    BY <1>6 DEF Yielded
  <2> HIDE DEF y, OpenLabels
  <2> QED BY <1>6, <2>1, <2>2 DEF Yielded
<1>7. ASSUME NEW c \in CPUs, NEW p \in Slots, SleepAwake(c, p) PROVE LockDiscipline'
  BY <1>7 DEF SleepAwake
<1>8. ASSUME NEW c \in CPUs, NEW p \in Slots, TrapFault(c, p) PROVE LockDiscipline'
  BY <1>8 DEF TrapFault
<1>9. ASSUME NEW c \in CPUs, NEW p \in Slots, Yield(c, p) PROVE LockDiscipline'
  BY <1>9 DEF Yield, EnterSched
<1>10. ASSUME NEW c \in CPUs, NEW p \in Slots, TrapKilled(c, p) PROVE LockDiscipline'
  BY <1>10 DEF TrapKilled, ExitLabel
<1>11. ASSUME NEW c \in CPUs, NEW p \in Slots, Return(c, p) PROVE LockDiscipline'
  BY <1>11 DEF Return, ExitLabel
<1>12. ASSUME NEW c \in CPUs, NEW p \in Slots, AllocSkip(c, p) PROVE LockDiscipline'
  BY <1>12 DEF AllocSkip
<1>13. ASSUME NEW c \in CPUs, NEW p \in Slots, AllocFound(c, p) PROVE LockDiscipline'
  BY <1>13 DEF AllocFound, allocpid
<1>14. ASSUME NEW c \in CPUs, NEW p \in Slots, AllocNone(c, p) PROVE LockDiscipline'
  BY <1>14 DEF AllocNone
<1>15. ASSUME NEW c \in CPUs, NEW p \in Slots, ForkFail(c, p) PROVE LockDiscipline'
  <2>1. CpusDistinct'
    BY <1>15 DEF ForkFail, Freeproc
  <2>2. LocksHeld'
    BY <1>15 DEF ForkFail, Freeproc
  <2>3. StatesMatch'
    BY <1>15 DEF ForkFail, Freeproc
  <2>4. ForksDistinct'
    BY <1>15 DEF ForkFail, Freeproc
  <2> QED BY <2>1, <2>2, <2>3, <2>4
<1>16. ASSUME NEW c \in CPUs, NEW p \in Slots, ForkCopy(c, p) PROVE LockDiscipline'
  BY <1>16 DEF ForkCopy
<1>17. ASSUME NEW c \in CPUs, NEW p \in Slots, ForkParent(c, p) PROVE LockDiscipline'
  BY <1>17 DEF ForkParent
<1>18. ASSUME NEW c \in CPUs, NEW p \in Slots, ForkRun(c, p) PROVE LockDiscipline'
  <2>1. CpusDistinct'
    BY <1>18 DEF ForkRun
  <2>2. LocksHeld'
    BY <1>18 DEF ForkRun
  <2>3. StatesMatch'
    BY <1>18 DEF ForkRun
  <2>4. ForksDistinct'
    BY <1>18 DEF ForkRun
  <2> QED BY <2>1, <2>2, <2>3, <2>4
<1>19. ASSUME NEW c \in CPUs, NEW p \in Slots, WakeupSlot(c, p) PROVE LockDiscipline'
  BY <1>19 DEF WakeupSlot
<1>20. ASSUME NEW c \in CPUs, NEW p \in Slots, WakeupDone(c, p) PROVE LockDiscipline'
  BY <1>20 DEF WakeupDone
<1>21. ASSUME NEW c \in CPUs, NEW p \in Slots, ExitLock(c, p) PROVE LockDiscipline'
  BY <1>21 DEF ExitLock
<1>22. ASSUME NEW c \in CPUs, NEW p \in Slots, ReparentChild(c, p) PROVE LockDiscipline'
  BY <1>22 DEF ReparentChild, Reparent, CallWakeup
<1>23. ASSUME NEW c \in CPUs, NEW p \in Slots, ReparentSkip(c, p) PROVE LockDiscipline'
  BY <1>23 DEF ReparentSkip
<1>24. ASSUME NEW c \in CPUs, NEW p \in Slots, ExitWakeParent(c, p) PROVE LockDiscipline'
  BY <1>24 DEF ExitWakeParent, CallWakeup
<1>25. ASSUME NEW c \in CPUs, NEW p \in Slots, ExitZombie(c, p) PROVE LockDiscipline'
  BY <1>25 DEF ExitZombie, EnterSched
<1>26. ASSUME NEW c \in CPUs, NEW p \in Slots, WaitLock(c, p) PROVE LockDiscipline'
  BY <1>26 DEF WaitLock, StartScan
<1>27. ASSUME NEW c \in CPUs, NEW p \in Slots, WaitSkip(c, p) PROVE LockDiscipline'
  BY <1>27 DEF WaitSkip
<1>28. ASSUME NEW c \in CPUs, NEW p \in Slots, WaitReap(c, p) PROVE LockDiscipline'
  BY <1>28 DEF WaitReap, Freeproc, Reapable
<1>29. ASSUME NEW c \in CPUs, NEW p \in Slots, WaitCopyoutFails(c, p) PROVE LockDiscipline'
  BY <1>29 DEF WaitCopyoutFails, Reapable
<1>30. ASSUME NEW c \in CPUs, NEW p \in Slots, WaitNone(c, p) PROVE LockDiscipline'
  <2>1. CpusDistinct'
    BY <1>30 DEF WaitNone
  <2>2. LocksHeld'
    BY <1>30 DEF WaitNone
  <2>3. StatesMatch'
    BY <1>30 DEF WaitNone
  <2>4. ForksDistinct'
    BY <1>30 DEF WaitNone
  <2> QED BY <2>1, <2>2, <2>3, <2>4
<1>31. ASSUME NEW c \in CPUs, NEW p \in Slots, Sleep(c, p) PROVE LockDiscipline'
  BY <1>31 DEF Sleep, EnterSched
<1>32. ASSUME NEW c \in CPUs, NEW p \in Slots, SleepRelock(c, p) PROVE LockDiscipline'
  BY <1>32 DEF SleepRelock, StartScan
<1>33. ASSUME NEW c \in CPUs, NEW p \in Slots, KillHit(c, p) PROVE LockDiscipline'
  BY <1>33 DEF KillHit
<1>34. ASSUME NEW c \in CPUs, NEW p \in Slots, KillSkip(c, p) PROVE LockDiscipline'
  BY <1>34 DEF KillSkip
<1>35. ASSUME NEW c \in CPUs, NEW p \in Slots, KillNone(c, p) PROVE LockDiscipline'
  BY <1>35 DEF KillNone
<1>36. CASE UNCHANGED vars
  BY <1>36 DEF vars
<1> HIDE DEF LockDiscipline, TypeOK
<1> QED
  BY <1>1, <1>2, <1>3, <1>4, <1>5, <1>6, <1>7, <1>8, <1>9, <1>10, <1>11, <1>12,
     <1>13, <1>14, <1>15, <1>16, <1>17, <1>18, <1>19, <1>20, <1>21, <1>22,
     <1>23, <1>24, <1>25, <1>26, <1>27, <1>28, <1>29, <1>30, <1>31, <1>32,
     <1>33, <1>34, <1>35, <1>36 DEF Next, Scheduler, Switch, Handler

---------------------------------------------------------------------------
LEMMA TypeInit == Init => TypeOK
BY Arithmetic, ProcAssumption DEF Init, TypeOK, States, Labels, OpenLabels,
   QueryLabels, WaitLockLabels, ResumeLabels

LEMMA LockInit == Init => LockDiscipline
BY Arithmetic DEF Init, LockDiscipline, CpusDistinct, LocksHeld, StatesMatch,
   ForksDistinct, HoldsSlot, Loc, ResumeLabels, WaitLockLabels

\* Every field, lock and local of proc.c keeps its type, for tables and machines
\* of any size: no loop over proc[] leaves the table.
THEOREM TypeCorrect == Spec => []TypeOK
BY TypeInit, TypeStep, PTL DEF Spec

\* A CPU holds exactly the locks the place of its process calls for: the
\* hand-over of p->lock across swtch() never loses or doubles a lock.
THEOREM LockSafety == Spec => []LockDiscipline
BY TypeCorrect, LockInit, LockStep, PTL DEF Spec

\* Two CPUs are never on one kernel stack.
THEOREM StackSafety == Spec => []StackExclusive
<1>1. LockDiscipline => StackExclusive
  BY Arithmetic DEF LockDiscipline, CpusDistinct, LocksHeld, StatesMatch,
     HoldsSlot, StackExclusive
<1> QED
  BY <1>1, LockSafety, PTL

\* None of the panics of sched() can happen.
THEOREM SchedSafety == Spec => []SchedReady
<1>1. LockDiscipline => SchedReady
  BY Arithmetic DEF LockDiscipline, LocksHeld, StatesMatch, HoldsSlot,
     WaitLockLabels, SchedReady, At
<1> QED
  BY <1>1, LockSafety, PTL
===========================================================================
