-------------------------------- MODULE Pipe --------------------------------
(***************************************************************************)
(* kernel/pipe.c: pipewrite, piperead and pipeclose on one pipe, called by *)
(* processes that hold its ends (fileread, filewrite and fileclose).       *)
(*                                                                         *)
(* pi->lock is held from one step to the next, so that a kill() can land   *)
(* between two bytes.  sleep(chan, &pi->lock) releases the lock and sleeps *)
(* in one step: module Proc shows that no wakeup falls in between.         *)
(* nread and nwrite are uints that wrap at UINT; data is indexed modulo    *)
(* PIPESIZE.                                                               *)
(***************************************************************************)
EXTENDS Integers, Sequences, FiniteSets

CONSTANTS
  Procs,
  PIPESIZE,
  UINT,             \* 2^32 in the code
  MaxN,             \* bound: largest n of a read or write
  Bytes,
  HoldR, HoldW,     \* processes that start with the read, the write end
  Killable,         \* processes kill() may be aimed at
  NONE

ASSUME PipeAssumption ==
  /\ PIPESIZE \in Nat \ {0} /\ MaxN \in Nat \ {0}
  /\ UINT \in Nat /\ UINT > PIPESIZE /\ UINT % PIPESIZE = 0
  /\ HoldR \subseteq Procs /\ HoldR # {} /\ HoldW \subseteq Procs /\ HoldW # {}
  /\ Killable \subseteq Procs
  /\ NONE \notin Procs

VARIABLES
  data, nread, nwrite, readopen, writeopen,    \* struct pipe
  lock,                                        \* holder of pi->lock
  freed,                                       \* kfree((char*)pi) was called
  rends, wends,                                \* processes with an open end
  pc, i, n, killed                             \* per process

pipe == <<data, nread, nwrite, readopen, writeopen, freed>>
ends == <<rends, wends>>
vars == <<pipe, lock, ends, pc, i, n, killed>>

Labels ==
  {"out", "dead", "wlock", "wloop", "wbody", "wend", "wsleep",
   "rlock", "rloop", "rwait", "rcopy", "rend", "rsleep"}

Empty == nread = nwrite
\* Mutant: one byte too many fits.
FullOffByOne == nwrite = (nread + PIPESIZE + 1) % UINT
Full == nwrite = (nread + PIPESIZE) % UINT
Inc(x) == (x + 1) % UINT

Init ==
  /\ data \in [0 .. PIPESIZE - 1 -> Bytes]
  /\ nread = 0 /\ nwrite = 0
  /\ readopen = TRUE /\ writeopen = TRUE
  /\ lock = NONE
  /\ freed = FALSE
  /\ rends = HoldR /\ wends = HoldW
  /\ pc = [p \in Procs |-> "out"]
  /\ i = [p \in Procs |-> 0]
  /\ n = [p \in Procs |-> 0]
  /\ killed = [p \in Procs |-> FALSE]

Goto(p, label) == pc' = [pc EXCEPT ![p] = label]
Forget(p) == i' = [i EXCEPT ![p] = 0] /\ n' = [n EXCEPT ![p] = 0]
Keep == UNCHANGED <<i, n>>

\* pc after wakeup(): the sleepers of the channel go to reacquire the lock.
\* Mutant: the call is missing.
WakeMissing(f, asleep, relock) == f
Wake(f, asleep, relock) ==
  [q \in Procs |-> IF f[q] = asleep THEN relock ELSE f[q]]
WakeReaders(f) == Wake(f, "rsleep", "rlock")
WakeWriters(f) == Wake(f, "wsleep", "wlock")

(***************************************************************************)
(* pipewrite()                                                             *)
(***************************************************************************)
WriteCall(p, k) ==
  /\ pc[p] = "out" /\ p \in wends /\ ~killed[p]
  /\ Goto(p, "wlock")
  /\ n' = [n EXCEPT ![p] = k]
  /\ i' = [i EXCEPT ![p] = 0]
  /\ UNCHANGED <<pipe, lock, ends, killed>>

\* acquire(&pi->lock), at the start or at the end of sleep().
WriteLock(p) ==
  /\ pc[p] = "wlock" /\ lock = NONE
  /\ lock' = p
  /\ Goto(p, "wloop")
  /\ UNCHANGED <<pipe, ends, i, n, killed>>

\* The test of the loop and of readopen and killed(pr).
WriteTest(p) ==
  /\ pc[p] = "wloop"
  /\ IF i[p] < n[p] /\ (~readopen \/ killed[p])
     THEN lock' = NONE /\ Goto(p, "out") /\ Forget(p)
     ELSE /\ lock' = lock
          /\ Goto(p, IF i[p] < n[p] THEN "wbody" ELSE "wend")
          /\ Keep
  /\ UNCHANGED <<pipe, ends, killed>>

\* The pipe is full: wake the readers and sleep(&pi->nwrite, &pi->lock).
WriteFull(p) ==
  /\ pc[p] = "wbody" /\ Full
  /\ pc' = WakeReaders([pc EXCEPT ![p] = "wsleep"])
  /\ lock' = NONE
  /\ UNCHANGED <<pipe, ends, i, n, killed>>

WriteByte(p, b) ==
  /\ pc[p] = "wbody" /\ ~Full
  /\ data' = [data EXCEPT ![nwrite % PIPESIZE] = b]
  /\ nwrite' = Inc(nwrite)
  /\ i' = [i EXCEPT ![p] = i[p] + 1]
  /\ Goto(p, "wloop")
  /\ UNCHANGED <<nread, readopen, writeopen, freed, lock, ends, n, killed>>

\* copyin() fails: leave the loop.
WriteCopyinFails(p) ==
  /\ pc[p] = "wbody" /\ ~Full
  /\ Goto(p, "wend")
  /\ UNCHANGED <<pipe, lock, ends, i, n, killed>>

WriteEnd(p) ==
  /\ pc[p] = "wend"
  /\ pc' = WakeReaders([pc EXCEPT ![p] = "out"])
  /\ lock' = NONE
  /\ Forget(p)
  /\ UNCHANGED <<pipe, ends, killed>>

(***************************************************************************)
(* piperead()                                                              *)
(***************************************************************************)
ReadCall(p, k) ==
  /\ pc[p] = "out" /\ p \in rends /\ ~killed[p]
  /\ Goto(p, "rlock")
  /\ n' = [n EXCEPT ![p] = k]
  /\ i' = [i EXCEPT ![p] = 0]
  /\ UNCHANGED <<pipe, lock, ends, killed>>

ReadLock(p) ==
  /\ pc[p] = "rlock" /\ lock = NONE
  /\ lock' = p
  /\ Goto(p, "rloop")
  /\ UNCHANGED <<pipe, ends, i, n, killed>>

\* The test of the waiting loop, and killed(pr) inside it.
ReadTest(p) ==
  /\ pc[p] = "rloop"
  /\ IF Empty /\ writeopen
     THEN IF killed[p] THEN lock' = NONE /\ Goto(p, "out") /\ Forget(p)
                       ELSE lock' = lock /\ Goto(p, "rwait") /\ Keep
     ELSE lock' = lock /\ Goto(p, "rcopy") /\ Keep
  /\ UNCHANGED <<pipe, ends, killed>>

\* sleep(&pi->nread, &pi->lock)
ReadSleep(p) ==
  /\ pc[p] = "rwait"
  /\ lock' = NONE
  /\ Goto(p, "rsleep")
  /\ UNCHANGED <<pipe, ends, i, n, killed>>

\* One byte is taken out; the loop ends if copyout() fails, and the byte is
\* gone.
ReadByte(p, copied) ==
  /\ pc[p] = "rcopy" /\ i[p] < n[p] /\ ~Empty
  /\ nread' = Inc(nread)
  /\ IF copied THEN i' = [i EXCEPT ![p] = i[p] + 1] /\ UNCHANGED pc
               ELSE Goto(p, "rend") /\ UNCHANGED i
  /\ UNCHANGED <<data, nwrite, readopen, writeopen, freed, lock, ends, n,
                 killed>>

ReadBreak(p) ==
  /\ pc[p] = "rcopy" /\ (i[p] = n[p] \/ Empty)
  /\ Goto(p, "rend")
  /\ UNCHANGED <<pipe, lock, ends, i, n, killed>>

ReadEnd(p) ==
  /\ pc[p] = "rend"
  /\ pc' = WakeWriters([pc EXCEPT ![p] = "out"])
  /\ lock' = NONE
  /\ Forget(p)
  /\ UNCHANGED <<pipe, ends, killed>>

(***************************************************************************)
(* fileclose() of an end; the last reference calls pipeclose(), which      *)
(* wakes the other side and frees the pipe when both ends are closed.      *)
(***************************************************************************)
\* Mutant: the pipe is freed with the other end open.
FreeAlways(otheropen) == freed' = TRUE
FreeUnless(otheropen) == freed' = (freed \/ ~otheropen)

CloseWriteEnd(p) ==
  /\ pc[p] = "out" /\ p \in wends
  /\ wends' = wends \ {p}
  /\ IF wends = {p}
     THEN /\ lock = NONE
          /\ writeopen' = FALSE
          /\ pc' = WakeReaders(pc)
          /\ FreeUnless(readopen)
     ELSE UNCHANGED <<writeopen, pc, freed>>
  /\ UNCHANGED <<data, nread, nwrite, readopen, lock, rends, i, n, killed>>

CloseReadEnd(p) ==
  /\ pc[p] = "out" /\ p \in rends
  /\ rends' = rends \ {p}
  /\ IF rends = {p}
     THEN /\ lock = NONE
          /\ readopen' = FALSE
          /\ pc' = WakeWriters(pc)
          /\ FreeUnless(writeopen)
     ELSE UNCHANGED <<readopen, pc, freed>>
  /\ UNCHANGED <<data, nread, nwrite, writeopen, lock, wends, i, n, killed>>

\* kill(): a sleeper is made runnable and goes to reacquire pi->lock.
Kill(p) ==
  /\ p \in Killable /\ ~killed[p] /\ pc[p] # "dead"
  /\ killed' = [killed EXCEPT ![p] = TRUE]
  /\ Goto(p, CASE pc[p] = "rsleep" -> "rlock"
               [] pc[p] = "wsleep" -> "wlock"
               [] OTHER -> pc[p])
  /\ UNCHANGED <<pipe, lock, ends, i, n>>

\* exit(), once fileclose() has been called on every end.
Exit(p) ==
  /\ pc[p] = "out" /\ p \notin rends \cup wends
  /\ Goto(p, "dead")
  /\ UNCHANGED <<pipe, lock, ends, i, n, killed>>

Step(p) ==
  \/ WriteLock(p) \/ WriteTest(p) \/ WriteFull(p) \/ WriteCopyinFails(p)
  \/ (\E b \in Bytes : WriteByte(p, b)) \/ WriteEnd(p)
  \/ ReadLock(p) \/ ReadTest(p) \/ ReadSleep(p) \/ ReadBreak(p) \/ ReadEnd(p)
  \/ \E copied \in BOOLEAN : ReadByte(p, copied)

Next ==
  \E p \in Procs :
    \/ Step(p)
    \/ \E k \in 1 .. MaxN : WriteCall(p, k) \/ ReadCall(p, k)
    \/ CloseWriteEnd(p) \/ CloseReadEnd(p) \/ Kill(p) \/ Exit(p)

Spec == Init /\ [][Next]_vars

---------------------------------------------------------------------------
\* The indices stay uints, the lock has at most one holder, and a call never
\* moves more bytes than it was asked to.
TypeOK ==
  /\ data \in [0 .. PIPESIZE - 1 -> Bytes]
  /\ nread \in 0 .. UINT - 1 /\ nwrite \in 0 .. UINT - 1
  /\ readopen \in BOOLEAN /\ writeopen \in BOOLEAN /\ freed \in BOOLEAN
  /\ lock \in Procs \cup {NONE}
  /\ rends \subseteq Procs /\ wends \subseteq Procs
  /\ pc \in [Procs -> Labels]
  /\ i \in [Procs -> 0 .. MaxN] /\ n \in [Procs -> 0 .. MaxN]
  /\ killed \in [Procs -> BOOLEAN]

Stored == (nwrite - nread) % UINT
Contents == [k \in 1 .. Stored |-> data[((nread + k - 1) % UINT) % PIPESIZE]]

Abstract == INSTANCE Channel WITH
  Capacity <- PIPESIZE, queue <- Contents, ropen <- readopen, wopen <- writeopen

\* The ring buffer is a first-in first-out queue of at most PIPESIZE bytes,
\* also when nread and nwrite wrap around.
PipeIsChannel == Abstract!Spec

\* A writer left asleep has a reason to be: the pipe is full and somebody can
\* still read from it.
SleepingWriterFull ==
  lock = NONE => \A p \in Procs : pc[p] = "wsleep" => Full /\ readopen

\* A reader left asleep has a reason to be (pipe.c: "DOC: pipe-empty"): somebody
\* can still write, and the pipe is empty unless a writer was killed, for
\* pipewrite() returns -1 to a killed writer without waking the readers.
SleepingReaderEmpty ==
  lock = NONE =>
    \A p \in Procs :
      pc[p] = "rsleep" =>
        writeopen /\ (Empty \/ \E q \in Procs \ {p} : killed[q])

\* The pipe is freed only when no process is inside one of its operations,
\* asleep in one, or able to start one.
FreedUnused ==
  freed => rends = {} /\ wends = {} /\ \A p \in Procs : pc[p] \in {"out", "dead"}
============================================================================
