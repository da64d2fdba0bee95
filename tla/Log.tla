-------------------------------- MODULE Log --------------------------------
(***************************************************************************)
(* The redo log of kernel/log.c over the buffer cache and the disk, with   *)
(* crashes.  Every bwrite() is a step of its own: virtio_disk_rw() returns *)
(* only when the device has written the block, so writes reach the disk in *)
(* program order, one block at a time.  A crash may come between any two   *)
(* steps, also while a previous crash is being recovered from.             *)
(*                                                                         *)
(* A buffer of the cache holds a block's data or is absent; an absent      *)
(* block is read from its home location, as bread() does.  A pinned buffer *)
(* (bpin) is not recycled.  An update of a buffer by a system call,        *)
(* log_write() and brelse() are one step: the buffer's sleep-lock is held. *)
(***************************************************************************)
EXTENDS Integers, Sequences, FiniteSets, SequencesExt

CONSTANTS
  Blocks,           \* home blocks of the file system
  Vals,             \* contents of a block
  Ops,              \* processes that make file system calls
  LOGSIZE,          \* param.h
  MAXOPBLOCKS,      \* param.h
  LogBlocks,        \* log.size = sb.nlog, header block included
  OpBlocks,         \* distinct blocks a call really writes
  NoBuf             \* the block is not in the cache

ASSUME LogAssumption ==
  /\ LOGSIZE \in Nat /\ MAXOPBLOCKS \in Nat \ {0} /\ LogBlocks \in Nat
  /\ OpBlocks \in 0 .. MAXOPBLOCKS
  /\ NoBuf \notin Vals

VARIABLES
  home,             \* disk: the blocks of the file system
  logd,             \* disk: the data blocks of the log
  hdr,              \* disk: the header block (n is its length)
  cache,            \* buffer cache
  pin,              \* pins on a buffer
  lh,               \* log.lh
  outstanding, committing,
  opc,              \* where a process is
  wrote,            \* distinct blocks its call has written
  phase,            \* where commit() or recover_from_log() is
  tail,             \* loop index of write_log() and install_trans()
  recovering

disk == <<home, logd, hdr>>
bufs == <<cache, pin>>
shared == <<lh, outstanding, committing>>
procs == <<opc, wrote>>
prog == <<phase, tail, recovering>>
vars == <<disk, bufs, shared, procs, prog>>

Phases == {"read", "idle", "log", "head", "install", "clear", "done"}

Bread(b) == IF cache[b] = NoBuf THEN home[b] ELSE cache[b]

\* At power on the log is blank (mkfs) and initlog() has not run yet.
Init ==
  /\ home \in [Blocks -> Vals]
  /\ \E v \in Vals : logd = [t \in 1 .. LOGSIZE |-> v]
  /\ hdr = <<>>
  /\ cache = [b \in Blocks |-> NoBuf]
  /\ pin = [b \in Blocks |-> 0]
  /\ lh = <<>>
  /\ outstanding = 0
  /\ committing = FALSE
  /\ opc = [o \in Ops |-> "out"]
  /\ wrote = [o \in Ops |-> {}]
  /\ phase = "read"
  /\ tail = 0
  /\ recovering = TRUE

NoSpace == Len(lh) + (outstanding + 1) * MAXOPBLOCKS > LOGSIZE

\* When begin_op() sleeps.  Mutant: it does not wait for a commit.
MustWaitForSpace == NoSpace
MustWait == committing \/ NoSpace

BeginOp(o) ==
  /\ opc[o] = "out"
  /\ ~recovering
  /\ ~MustWait
  /\ outstanding' = outstanding + 1
  /\ opc' = [opc EXCEPT ![o] = "in"]
  /\ UNCHANGED <<disk, bufs, lh, committing, wrote, prog>>

BeginSleep(o) ==
  /\ opc[o] = "out"
  /\ ~recovering
  /\ MustWait
  /\ opc' = [opc EXCEPT ![o] = "asleep"]
  /\ UNCHANGED <<disk, bufs, shared, wrote, prog>>

\* The two panics of log_write() other than "log_write outside of trans".
TooBig == Len(lh) >= LOGSIZE \/ Len(lh) >= LogBlocks - 1

\* Record b in the log and pin it, once.  Mutant: an absorbed block is pinned
\* again.
RecordRepins(b) ==
  /\ pin' = [pin EXCEPT ![b] = pin[b] + 1]
  /\ lh' = IF Contains(lh, b) THEN lh ELSE Append(lh, b)
Record(b) ==
  IF Contains(lh, b)                         \* log absorption
  THEN UNCHANGED <<lh, pin>>
  ELSE lh' = Append(lh, b) /\ pin' = [pin EXCEPT ![b] = pin[b] + 1]

LogWrite(o, b, v) ==
  /\ opc[o] = "in"
  /\ b \in wrote[o] \/ Cardinality(wrote[o]) < OpBlocks
  /\ ~TooBig
  /\ outstanding >= 1
  /\ cache' = [cache EXCEPT ![b] = v]
  /\ Record(b)
  /\ wrote' = [wrote EXCEPT ![o] = wrote[o] \cup {b}]
  /\ UNCHANGED <<disk, outstanding, committing, opc, prog>>

\* wakeup(&log).  Mutant: the call is missing.
WakeupMissing(f) == f
Wakeup(f) == [o \in Ops |-> IF f[o] = "asleep" THEN "out" ELSE f[o]]

\* Not the last call of the group: begin_op() may be waiting for the space.
EndOp(o) ==
  /\ opc[o] = "in"
  /\ outstanding > 1
  /\ outstanding' = outstanding - 1
  /\ opc' = Wakeup([opc EXCEPT ![o] = "out"])
  /\ wrote' = [wrote EXCEPT ![o] = {}]
  /\ UNCHANGED <<disk, bufs, lh, committing, prog>>

\* Where commit() starts.  Mutant: the header is written before the log.
CommitHeadFirst == IF Len(lh) > 0 THEN "head" ELSE "done"
CommitFrom == IF Len(lh) > 0 THEN "log" ELSE "done"

\* The last one commits, without the lock.
EndOpCommit(o) ==
  /\ opc[o] = "in"
  /\ outstanding = 1
  /\ outstanding' = 0
  /\ committing' = TRUE
  /\ opc' = [opc EXCEPT ![o] = "commit"]
  /\ wrote' = [wrote EXCEPT ![o] = {}]
  /\ phase' = CommitFrom
  /\ tail' = 1
  /\ UNCHANGED <<disk, bufs, lh, recovering>>

\* end_op() after commit() has returned.
EndCommit(o) ==
  /\ opc[o] = "commit"
  /\ phase = "done"
  /\ committing' = FALSE
  /\ opc' = Wakeup([opc EXCEPT ![o] = "out"])
  /\ phase' = "idle"
  /\ UNCHANGED <<disk, bufs, lh, outstanding, wrote, tail, recovering>>

(***************************************************************************)
(* commit(): write_log(), write_head(), install_trans(0), write_head().    *)
(***************************************************************************)
NextTail(after) ==
  IF tail < Len(lh) THEN tail' = tail + 1 /\ phase' = phase
  ELSE tail' = 1 /\ phase' = after

WriteLog ==
  /\ phase = "log"
  /\ logd' = [logd EXCEPT ![tail] = Bread(lh[tail])]
  /\ cache' = [cache EXCEPT ![lh[tail]] = Bread(lh[tail])]
  /\ NextTail("head")
  /\ UNCHANGED <<home, hdr, pin, shared, procs, recovering>>

\* Mutant: the header is cleared before the blocks are installed.
WriteHeadNoInstall ==
  /\ phase = "head"
  /\ hdr' = lh
  /\ phase' = "clear"
  /\ UNCHANGED <<home, logd, bufs, shared, procs, tail, recovering>>

\* The true point at which the current transaction commits.
WriteHead ==
  /\ phase = "head"
  /\ hdr' = lh
  /\ phase' = "install"
  /\ UNCHANGED <<home, logd, bufs, shared, procs, tail, recovering>>

\* Mutant: recovery unpins what it never pinned.
UnpinAlways(b) == pin' = [pin EXCEPT ![b] = pin[b] - 1]
Unpin(b) == pin' = IF recovering THEN pin ELSE [pin EXCEPT ![b] = pin[b] - 1]

InstallTrans ==
  LET b == lh[tail] IN
  /\ phase = "install"
  /\ cache' = [cache EXCEPT ![b] = logd[tail]]
  /\ home' = [home EXCEPT ![b] = logd[tail]]
  /\ Unpin(b)
  /\ NextTail("clear")
  /\ UNCHANGED <<logd, hdr, shared, procs, recovering>>

\* log.lh.n = 0; write_head(), in commit() and in recover_from_log().
ClearHead ==
  /\ phase = "clear"
  /\ lh' = <<>>
  /\ hdr' = <<>>
  /\ phase' = IF recovering THEN "idle" ELSE "done"
  /\ recovering' = FALSE
  /\ UNCHANGED <<home, logd, bufs, outstanding, committing, procs, tail>>

(***************************************************************************)
(* The buffer cache may recycle a buffer nobody has pinned (bget).         *)
(***************************************************************************)
Recycle(b) ==
  /\ cache[b] # NoBuf
  /\ pin[b] = 0
  /\ cache' = [cache EXCEPT ![b] = NoBuf]
  /\ UNCHANGED <<disk, pin, shared, procs, prog>>

(***************************************************************************)
(* A crash keeps the disk only.  initlog() then reads the header and       *)
(* installs what it lists before any system call runs.                     *)
(***************************************************************************)
Crash ==
  /\ cache' = [b \in Blocks |-> NoBuf]
  /\ pin' = [b \in Blocks |-> 0]
  /\ lh' = <<>>
  /\ outstanding' = 0
  /\ committing' = FALSE
  /\ opc' = [o \in Ops |-> "out"]
  /\ wrote' = [o \in Ops |-> {}]
  /\ phase' = "read"
  /\ tail' = 0
  /\ recovering' = TRUE
  /\ UNCHANGED disk

ReadHead ==
  /\ phase = "read"
  /\ lh' = hdr
  /\ phase' = IF Len(hdr) > 0 THEN "install" ELSE "clear"
  /\ tail' = 1
  /\ UNCHANGED <<disk, bufs, outstanding, committing, procs, recovering>>

CommitStep == WriteLog \/ WriteHead \/ InstallTrans \/ ClearHead \/ ReadHead

Next ==
  \/ \E o \in Ops :
       \/ BeginOp(o) \/ BeginSleep(o) \/ EndOp(o) \/ EndOpCommit(o)
       \/ EndCommit(o)
       \/ \E b \in Blocks, v \in Vals : LogWrite(o, b, v)
  \/ CommitStep
  \/ \E b \in Blocks : Recycle(b)
  \/ Crash

Spec == Init /\ [][Next]_vars

---------------------------------------------------------------------------
\* The disk, the cache and the log's state have values the code can give them;
\* in particular no buffer is unpinned more often than it was pinned.
TypeOK ==
  /\ home \in [Blocks -> Vals]
  /\ logd \in [1 .. LOGSIZE -> Vals]
  /\ hdr \in Seq(Blocks) /\ Len(hdr) <= LOGSIZE
  /\ cache \in [Blocks -> Vals \cup {NoBuf}]
  /\ pin \in [Blocks -> Nat]
  /\ lh \in Seq(Blocks) /\ Len(lh) <= LOGSIZE
  /\ outstanding \in Nat
  /\ committing \in BOOLEAN
  /\ opc \in [Ops -> {"out", "asleep", "in", "commit"}]
  /\ wrote \in [Ops -> SUBSET Blocks]
  /\ phase \in Phases
  /\ tail \in 0 .. LOGSIZE
  /\ recovering \in BOOLEAN

\* What a recovery would restore: the home blocks with the log installed.
Recovered ==
  [b \in Blocks |->
     IF \E i \in 1 .. Len(hdr) : hdr[i] = b
     THEN logd[CHOOSE i \in 1 .. Len(hdr) : hdr[i] = b] ELSE home[b]]

\* What a system call reads.
View == [b \in Blocks |-> Bread(b)]

Abstract ==
  INSTANCE AtomicDisk WITH
    committed <- Recovered,
    current <- (IF recovering THEN Recovered ELSE View),
    open <- {o \in Ops : opc[o] = "in"}

\* Every crash, at any write, falls back to a moment at which no system call
\* was open, with all the writes made before it and none made after it.
CrashAtomic == Abstract!Spec

\* Once the last call of a group has returned from commit(), and whenever no
\* call is active, all that was written is on the disk.
QuiescentDurable ==
  ~recovering /\ outstanding = 0 /\ phase \in {"idle", "done"} =>
    Recovered = View


\* While commit() runs without log.lock no call is inside a transaction: the
\* blocks it copies cannot change, and end_op() cannot panic on committing.
CommitAlone ==
  /\ committing => outstanding = 0
  /\ outstanding = Cardinality({o \in Ops : opc[o] = "in"})
  /\ committing <=> \E o \in Ops : opc[o] = "commit"

\* A block that is listed in the log but not yet installed has its buffer
\* pinned exactly once, and no other buffer is pinned: nothing is recycled
\* early and nothing stays pinned for good.
PinnedWhileLogged ==
  ~recovering =>
    \A b \in Blocks :
      pin[b] = IF \E i \in 1 .. Len(lh) :
                    lh[i] = b /\ (phase = "install" => i >= tail)
                  /\ phase # "clear"
               THEN 1 ELSE 0

\* A call asleep in begin_op() has somebody left to wake it up.
SleeperHasWaker ==
  \A o \in Ops : opc[o] = "asleep" => committing \/ outstanding > 0
============================================================================
