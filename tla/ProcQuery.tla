----------------------------- MODULE ProcQuery -----------------------------
(***************************************************************************)
(* sys_getppid() and sys_ps() of kernel/sysproc.c running beside the       *)
(* process table of module Proc.  Neither takes wait_lock or a p->lock, so *)
(* every load of a field of another process is a step of its own; the      *)
(* compiled code (kernel.asm) loads proc[i].parent once per row.           *)
(***************************************************************************)
EXTENDS Proc, Sequences

CONSTANT Queries          \* subset of {"getppid", "ps"}

ASSUME QueriesAssumption == Queries \subseteq {"getppid", "ps"}

VARIABLES
  ptr,                    \* parent pointer loaded last
  val,                    \* pid loaded last; at "ret", the value of getppid
  rows                    \* pid and ppid columns of ps[] filled so far

qvars == <<ptr, val, rows>>
allvars == <<vars, qvars>>

NoVal == -2               \* no value loaded

QInit ==
  /\ Init
  /\ ptr = [i \in Slots |-> NONE]
  /\ val = [i \in Slots |-> NoVal]
  /\ rows = [i \in Slots |-> <<>>]

QueryCall(c, p, q) ==
  /\ At(c, p, "user")
  /\ p # initproc
  /\ Free(p)
  /\ ~killed[p]
  /\ Goto(p, q)
  /\ rows' = Set(rows, p, <<>>)
  /\ val' = Set(val, p, NoVal)
  /\ UNCHANGED <<table, locks, cpu, locals, ptr>>

\* sys_getppid(): load current_proc->parent; -1 if it is null ...
GetppidParent(c, p) ==
  /\ At(c, p, "getppid")
  /\ ptr' = Set(ptr, p, parent[p])
  /\ Goto(p, IF parent[p] = NONE THEN "ret" ELSE "deref")
  /\ val' = Set(val, p, IF parent[p] = NONE THEN -1 ELSE NoVal)
  /\ UNCHANGED <<table, locks, cpu, locals, rows>>

\* ... and then parent_proc->pid.
GetppidPid(c, p) ==
  /\ At(c, p, "deref")
  /\ val' = Set(val, p, pid[ptr[p]])
  /\ ptr' = Set(ptr, p, NONE)
  /\ Goto(p, "ret")
  /\ UNCHANGED <<table, locks, cpu, locals, rows>>

\* sys_ps(): the test of proc[i].state.
PsState(c, p) ==
  /\ At(c, p, "ps")
  /\ idx[p] < NPROC
  /\ IF state[idx[p]] = "UNUSED"
     THEN idx' = Set(idx, p, idx[p] + 1) /\ UNCHANGED pc
     ELSE Goto(p, "pspid") /\ UNCHANGED idx
  /\ UNCHANGED <<table, locks, cpu, rpc, ypc, np, havekids, kpid, wchan, widx,
                 wret, qvars>>

PsPid(c, p) ==
  /\ At(c, p, "pspid")
  /\ val' = Set(val, p, pid[idx[p]])
  /\ Goto(p, "psparent")
  /\ UNCHANGED <<table, locks, cpu, locals, ptr, rows>>

PsParent(c, p) ==
  /\ At(c, p, "psparent")
  /\ ptr' = Set(ptr, p, parent[idx[p]])
  /\ Goto(p, "psppid")
  /\ UNCHANGED <<table, locks, cpu, locals, val, rows>>

\* The ppid column, and numProc++.
PsPpid(c, p) ==
  LET ppid == IF ptr[p] = NONE THEN -1 ELSE pid[ptr[p]] IN
  /\ At(c, p, "psppid")
  /\ rows' = Set(rows, p, Append(rows[p], [pid |-> val[p], ppid |-> ppid]))
  /\ ptr' = Set(ptr, p, NONE)
  /\ val' = Set(val, p, NoVal)
  /\ idx' = Set(idx, p, idx[p] + 1)
  /\ Goto(p, "ps")
  /\ UNCHANGED <<table, locks, cpu, rpc, ypc, np, havekids, kpid, wchan, widx,
                 wret>>

\* copyout() of the rows.
PsDone(c, p) ==
  /\ At(c, p, "ps")
  /\ idx[p] = NPROC
  /\ Goto(p, "ret")
  /\ UNCHANGED <<table, locks, cpu, locals, qvars>>

QNext ==
  \/ Next /\ UNCHANGED qvars
  \/ \E c \in CPUs : \E p \in Slots :
       \/ \E q \in Queries : QueryCall(c, p, q)
       \/ GetppidParent(c, p) \/ GetppidPid(c, p)
       \/ PsState(c, p) \/ PsPid(c, p) \/ PsParent(c, p) \/ PsPpid(c, p)
       \/ PsDone(c, p)

QSpec == QInit /\ [][QNext]_allvars

---------------------------------------------------------------------------

\* A process can call getppid() only after fork() has set its parent, so the
\* call never returns the -1 of the "no parent process is found" branch.
GetppidFindsParent ==
  \A p \in Slots : val[p] # -1
===========================================================================
