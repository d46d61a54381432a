------------------------------ MODULE GSJobQueue ------------------------------
(***************************************************************************)
(* GSJobQueue of plugins/GS/GSThread_CXX11.h: a single-producer ring of    *)
(* jobs drained by a worker thread (ThreadProc), with m_lock and the       *)
(* condition variable m_notempty between the producer and the worker, and  *)
(* m_wait_lock with m_empty between the worker and a caller of Wait.  The  *)
(* owner thread is the only producer, the only caller of Wait and the one  *)
(* that runs the destructor; the worker is the only consumer.              *)
(*                                                                         *)
(* Each thread has a program counter whose values are the points between  *)
(* two steps another thread can observe.  A mutex is its owner; a         *)
(* condition variable is whether its one possible waiter is still in its   *)
(* wait set.  std::condition_variable may wake a waiter spuriously, so a  *)
(* waiter may leave the wait set at any time.                              *)
(***************************************************************************)
EXTENDS Naturals

CONSTANTS
  Capacity,   \* CAPACITY of ringbuffer_base, the jobs the ring holds
  MaxJobs,    \* bound on the jobs the owner pushes in a behaviour
  MaxSpurious \* bound on spurious wake-ups in a behaviour

ASSUME Capacity \in Nat \ {0} /\ MaxJobs \in Nat \ {0} /\ MaxSpurious \in Nat

NoOne == "none"

VARIABLES
  wpc,       \* worker program counter in ThreadProc
  opc,       \* owner program counter in Push, Wait and ~GSJobQueue
  queued,    \* jobs in m_queue (pushed and not yet consumed)
  pushed,    \* history: jobs pushed so far
  finished,  \* history: jobs whose m_func call has returned
  exiting,   \* m_exit
  lock,      \* owner of m_lock
  waitLock,  \* owner of m_wait_lock
  inNotEmpty,\* the worker is in the wait set of m_notempty
  inEmpty,   \* the owner is in the wait set of m_empty
  spurious   \* spurious wake-ups so far

vars == <<wpc, opc, queued, pushed, finished, exiting, lock, waitLock,
          inNotEmpty, inEmpty, spurious>>

IsEmpty == queued = 0

Free(m) == m = NoOne

-----------------------------------------------------------------------------
(* The worker: ThreadProc.                                                 *)

\* Mutant: m_exit is tested before the queue.
WorkerCheckExitFirst ==
  /\ wpc = "check"
  /\ CASE exiting  -> wpc' = "done" /\ lock' = NoOne
       [] ~IsEmpty -> wpc' = "consume" /\ lock' = NoOne
       [] OTHER    -> wpc' = "towait" /\ UNCHANGED lock
  /\ UNCHANGED <<spurious, opc, queued, pushed, finished, exiting, waitLock,
                 inNotEmpty, inEmpty>>

\* Holding m_lock at the top of the loop: with the queue empty, return on
\* m_exit (the unique_lock releases m_lock) or go on to wait; otherwise
\* unlock and consume.
WorkerCheck ==
  /\ wpc = "check"
  /\ CASE ~IsEmpty -> wpc' = "consume" /\ lock' = NoOne
       [] exiting  -> wpc' = "done" /\ lock' = NoOne
       [] OTHER    -> wpc' = "towait" /\ UNCHANGED lock
  /\ UNCHANGED <<spurious, opc, queued, pushed, finished, exiting, waitLock,
                 inNotEmpty, inEmpty>>

\* m_notempty.wait(l): join the wait set and release m_lock, atomically.
WorkerSleep ==
  /\ wpc = "towait"
  /\ wpc' = "sleep" /\ lock' = NoOne /\ inNotEmpty' = TRUE
  /\ UNCHANGED <<spurious, opc, queued, pushed, finished, exiting, waitLock,
                 inEmpty>>

\* m_notempty.wait(l) returns once the worker left the wait set and
\* reacquired m_lock.
WorkerWake ==
  /\ wpc = "sleep" /\ ~inNotEmpty /\ Free(lock)
  /\ wpc' = "check" /\ lock' = "worker"
  /\ UNCHANGED <<spurious, opc, queued, pushed, finished, exiting, waitLock,
                 inNotEmpty, inEmpty>>

\* consume_one: the ring calls operator() (m_func) on the front job and
\* only then advances its read index, so the job stays in the queue while
\* it runs.  With nothing left the loop ends.
WorkerConsume ==
  /\ wpc = "consume"
  /\ IF IsEmpty THEN wpc' = "waitlock" ELSE wpc' = "run"
  /\ UNCHANGED <<spurious, opc, queued, pushed, finished, exiting, lock,
                 waitLock, inNotEmpty, inEmpty>>

WorkerRunDone ==
  /\ wpc = "run"
  /\ finished' = finished + 1
  /\ wpc' = "pop"
  /\ UNCHANGED <<spurious, opc, queued, pushed, exiting, lock, waitLock,
                 inNotEmpty, inEmpty>>

WorkerPop ==
  /\ wpc = "pop"
  /\ queued' = queued - 1
  /\ wpc' = "consume"
  /\ UNCHANGED <<spurious, opc, pushed, finished, exiting, lock, waitLock,
                 inNotEmpty, inEmpty>>

\* Mutant: the worker notifies m_empty without the m_wait_lock guard.
WorkerWaitLockSkipped ==
  /\ wpc = "waitlock"
  /\ wpc' = "notify"
  /\ UNCHANGED <<spurious, opc, queued, pushed, finished, exiting, lock,
                 waitLock, inNotEmpty, inEmpty>>

\* Mutant: Wait tests IsEmpty with an if, not a while, and returns after
\* the first wake-up.
WaitLockNoRecheck ==
  /\ opc \in {"waitlock", "waitwake"} /\ Free(waitLock)
  /\ ~(opc = "waitwake" /\ inEmpty)
  /\ IF opc = "waitwake"
     THEN opc' = "idle" /\ UNCHANGED waitLock
     ELSE waitLock' = "owner" /\ opc' = "waitcheck"
  /\ UNCHANGED <<spurious, wpc, queued, pushed, finished, exiting, lock,
                 inNotEmpty, inEmpty>>

\* The empty lock_guard on m_wait_lock: taken and released at once.
WorkerWaitLock ==
  /\ wpc = "waitlock" /\ Free(waitLock)
  /\ wpc' = "notify"
  /\ UNCHANGED <<spurious, opc, queued, pushed, finished, exiting, lock,
                 waitLock, inNotEmpty, inEmpty>>

\* m_empty.notify_one(), then l.lock() back at the top of the loop (or,
\* when the thread starts, the unique_lock that opens ThreadProc).
WorkerNotify ==
  /\ wpc = "notify"
  /\ inEmpty' = FALSE
  /\ wpc' = "relock"
  /\ UNCHANGED <<spurious, opc, queued, pushed, finished, exiting, lock,
                 waitLock, inNotEmpty>>

WorkerRelock ==
  /\ wpc \in {"start", "relock"} /\ Free(lock)
  /\ wpc' = "check" /\ lock' = "worker"
  /\ UNCHANGED <<spurious, opc, queued, pushed, finished, exiting, waitLock,
                 inNotEmpty, inEmpty>>

Worker == WorkerCheck \/ WorkerSleep \/ WorkerWake \/ WorkerConsume
            \/ WorkerRunDone \/ WorkerPop
            \/ WorkerWaitLock \/ WorkerNotify \/ WorkerRelock

-----------------------------------------------------------------------------
(* The owner thread: Push, Wait and the destructor.                        *)

\* Push: spin with yield until the ring accepts the job ...
OwnerPush ==
  /\ opc = "idle" /\ pushed < MaxJobs
  /\ opc' = "push"
  /\ UNCHANGED <<spurious, wpc, queued, pushed, finished, exiting, lock,
                 waitLock, inNotEmpty, inEmpty>>

\* Mutant: Push does not check that the ring has room.
PushRingUnbounded ==
  /\ opc = "push"
  /\ queued' = queued + 1 /\ pushed' = pushed + 1
  /\ opc' = "pushlock"
  /\ UNCHANGED <<spurious, wpc, finished, exiting, lock, waitLock, inNotEmpty,
                 inEmpty>>

PushRing ==
  /\ opc = "push" /\ queued < Capacity
  /\ queued' = queued + 1 /\ pushed' = pushed + 1
  /\ opc' = "pushlock"
  /\ UNCHANGED <<spurious, wpc, finished, exiting, lock, waitLock, inNotEmpty,
                 inEmpty>>

\* Mutant: Push notifies without taking m_lock.
PushLockSkipped ==
  /\ opc = "pushlock"
  /\ opc' = "pushnotify"
  /\ UNCHANGED <<spurious, wpc, queued, pushed, finished, exiting, lock,
                 waitLock, inNotEmpty, inEmpty>>

\* ... take and release m_lock (so that a worker between its emptiness
\* check and its wait has reached the wait) ...
PushLock ==
  /\ opc = "pushlock" /\ Free(lock)
  /\ opc' = "pushnotify"
  /\ UNCHANGED <<spurious, wpc, queued, pushed, finished, exiting, lock,
                 waitLock, inNotEmpty, inEmpty>>

\* ... and m_notempty.notify_one().
PushNotify ==
  /\ opc = "pushnotify"
  /\ inNotEmpty' = FALSE
  /\ opc' = "idle"
  /\ UNCHANGED <<spurious, wpc, queued, pushed, finished, exiting, lock,
                 waitLock, inEmpty>>

\* Wait: return at once if the queue is empty, else take m_wait_lock.
OwnerWait ==
  /\ opc = "idle"
  /\ opc' = IF IsEmpty THEN "idle" ELSE "waitlock"
  /\ UNCHANGED <<spurious, wpc, queued, pushed, finished, exiting, lock,
                 waitLock, inNotEmpty, inEmpty>>

\* Taking m_wait_lock, first or again when m_empty.wait returns.
WaitLock ==
  /\ opc \in {"waitlock", "waitwake"} /\ Free(waitLock)
  /\ ~(opc = "waitwake" /\ inEmpty)
  /\ waitLock' = "owner" /\ opc' = "waitcheck"
  /\ UNCHANGED <<spurious, wpc, queued, pushed, finished, exiting, lock,
                 inNotEmpty, inEmpty>>

\* while (!IsEmpty()), holding m_wait_lock: return, releasing it, or go on
\* to wait.
WaitCheck ==
  /\ opc = "waitcheck"
  /\ IF IsEmpty
     THEN opc' = "idle" /\ waitLock' = NoOne
     ELSE opc' = "waitenter" /\ UNCHANGED waitLock
  /\ UNCHANGED <<spurious, wpc, queued, pushed, finished, exiting, lock,
                 inNotEmpty, inEmpty>>

\* m_empty.wait(l): join the wait set and release m_wait_lock, atomically.
WaitEnter ==
  /\ opc = "waitenter"
  /\ opc' = "waitwake" /\ waitLock' = NoOne /\ inEmpty' = TRUE
  /\ UNCHANGED <<spurious, wpc, queued, pushed, finished, exiting, lock,
                 inNotEmpty>>

\* Mutant: the destructor sets m_exit without taking m_lock.
OwnerDestroyUnlocked ==
  /\ opc = "idle"
  /\ exiting' = TRUE
  /\ opc' = "exitnotify"
  /\ UNCHANGED <<spurious, wpc, queued, pushed, finished, lock, waitLock,
                 inNotEmpty, inEmpty>>

\* ~GSJobQueue: set m_exit under m_lock, notify m_notempty, join.
OwnerDestroy ==
  /\ opc = "idle" /\ Free(lock)
  /\ exiting' = TRUE
  /\ opc' = "exitnotify"
  /\ UNCHANGED <<spurious, wpc, queued, pushed, finished, lock, waitLock,
                 inNotEmpty, inEmpty>>

ExitNotify ==
  /\ opc = "exitnotify"
  /\ inNotEmpty' = FALSE
  /\ opc' = "join"
  /\ UNCHANGED <<spurious, wpc, queued, pushed, finished, exiting, lock,
                 waitLock, inEmpty>>

Join ==
  /\ opc = "join" /\ wpc = "done"
  /\ opc' = "gone"
  /\ UNCHANGED <<spurious, wpc, queued, pushed, finished, exiting, lock,
                 waitLock, inNotEmpty, inEmpty>>

\* The steps the owner takes once it is inside Push, Wait or the
\* destructor; the calls themselves are its free choice.
OwnerProgress == PushRing \/ PushLock \/ PushNotify \/ WaitLock \/ WaitCheck
                   \/ WaitEnter
                   \/ ExitNotify \/ Join

\* A spurious wake-up: either waiter leaves its wait set unnotified.  They
\* are finitely many: an endless series of them, each timed against the
\* other thread, is not a behaviour of a real condition variable.
SpuriousWake ==
  /\ spurious < MaxSpurious /\ spurious' = spurious + 1
  /\ \/ inNotEmpty /\ inNotEmpty' = FALSE /\ UNCHANGED inEmpty
     \/ inEmpty /\ inEmpty' = FALSE /\ UNCHANGED inNotEmpty
  /\ UNCHANGED <<wpc, opc, queued, pushed, finished, exiting, lock, waitLock>>

-----------------------------------------------------------------------------
Init ==
  /\ wpc = "start" /\ opc = "idle"
  /\ queued = 0 /\ pushed = 0 /\ finished = 0
  /\ exiting = FALSE
  /\ lock = NoOne /\ waitLock = NoOne
  /\ inNotEmpty = FALSE /\ inEmpty = FALSE
  /\ spurious = 0

Next == Worker \/ OwnerPush \/ OwnerWait \/ OwnerDestroy \/ OwnerProgress
          \/ SpuriousWake

\* Once the destructor returned the system stops: no step is enabled.  Any
\* other state without a successor has a thread blocked in Push, Wait or
\* the join, which WaitReturns, JobsRun and ShutdownCompletes report.
Spec == Init /\ [][Next]_vars

\* Both threads are scheduled by the operating system; a spurious wake-up
\* is never owed, and what the owner calls is its own choice.
FairSpec == Spec /\ WF_vars(Worker) /\ WF_vars(OwnerProgress)

-----------------------------------------------------------------------------
TypeOK ==
  /\ wpc \in {"start", "check", "towait", "sleep", "consume", "run", "pop",
              "waitlock", "notify", "relock", "done"}
  /\ opc \in {"idle", "push", "pushlock", "pushnotify", "waitlock",
              "waitcheck", "waitenter", "waitwake", "exitnotify", "join",
              "gone"}
  /\ queued \in 0 .. Capacity
  /\ pushed \in 0 .. MaxJobs /\ finished \in 0 .. MaxJobs
  /\ exiting \in BOOLEAN
  /\ lock \in {NoOne, "worker"} /\ waitLock \in {NoOne, "owner"}
  /\ inNotEmpty \in BOOLEAN /\ inEmpty \in BOOLEAN
  /\ spurious \in 0 .. MaxSpurious

\* The owner is inside Wait, past its first IsEmpty check.
InWait == opc \in {"waitlock", "waitcheck", "waitenter", "waitwake"}

\* Wait returns only when the function of every job pushed before it has
\* returned: the queue reads empty only after consume_one ran the last
\* job, and Wait re-checks IsEmpty after every wake-up of m_empty,
\* spurious ones included.
WaitMeansDone ==
  [][(InWait /\ opc' = "idle") => finished = pushed]_vars

\* The worker leaves ThreadProc only with every pushed job run: it reads
\* m_exit only once it found the queue empty.
ExitOnlyDrained == wpc = "done" => finished = pushed

\* Every call of Wait returns: the worker's notify of m_empty cannot fall
\* between Wait's emptiness check and its wait, because the worker takes
\* m_wait_lock first.
WaitReturns == InWait ~> (opc = "idle")

\* Every pushed job runs, even when the owner never calls anything again:
\* Push's notify of m_notempty cannot fall between the worker's emptiness
\* check and its wait, because Push takes m_lock first.
JobsRun == \A k \in 1 .. MaxJobs : (pushed >= k) ~> (finished >= k)

\* The destructor's join returns: setting m_exit under m_lock keeps the
\* notify from falling before the worker's wait.
ShutdownCompletes == (opc = "exitnotify") ~> (opc = "gone")
=============================================================================
