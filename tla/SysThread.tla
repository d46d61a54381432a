------------------------------- MODULE SysThread -------------------------------
(***************************************************************************)
(* The execution-mode protocol of pcsx2/System/SysFakeThread.cpp.  GUI     *)
(* threads (the controllers) call Suspend, Pause and Resume "from outside  *)
(* the context of this thread"; the emulation thread runs OnStartInThread  *)
(* and then StateCheckInThread between slices of emulation.  They share    *)
(* m_ExecMode (an atomic), m_running, the mutexes m_ExecModeMutex (taken   *)
(* by controllers only) and m_RunningLock (held by the emulation thread    *)
(* while it executes), and the semaphores m_sem_Resume and                 *)
(* m_sem_ChangingExecMode.                                                 *)
(*                                                                         *)
(* Threading semantics taken from pcsx2's Threading classes, which are not *)
(* in this tree: Mutex::Wait acquires and releases at once (it waits for   *)
(* the mutex to be free), a Semaphore counts posts, and RecreateIfLocked   *)
(* replaces a locked mutex by a fresh, unlocked one.  m_sem_event is       *)
(* posted but never waited on in this file and is left out.                *)
(***************************************************************************)
EXTENDS Naturals

CONSTANTS
  Controllers,  \* the GUI threads that call Suspend, Pause and Resume
  MaxCalls      \* bound on the calls each controller makes

ASSUME Controllers # {} /\ MaxCalls \in Nat

Modes == {"NoThreadYet", "Opened", "Closing", "Closed", "Pausing", "Paused"}
NoOne == "none"

VARIABLES
  mode,       \* m_ExecMode
  running,    \* m_running
  execMutex,  \* owner of m_ExecModeMutex
  runLock,    \* owner of m_RunningLock
  semResume,  \* count of m_sem_Resume
  semChg,     \* count of m_sem_ChangingExecMode
  wpc,        \* emulation thread program counter
  cpc,        \* controller program counters
  blocking,   \* the isBlocking argument of a controller's Suspend
  calls       \* calls each controller made

ctl == <<cpc, blocking, calls>>
vars == <<mode, running, execMutex, runLock, semResume, semChg, wpc, ctl>>

Free(m) == m = NoOne

-----------------------------------------------------------------------------
(* The emulation thread.                                                   *)

\* Mutant: the thread starts as Closed, the mode Start() gives.
OnStartInThreadClosed ==
  /\ wpc = "start" /\ Free(runLock)
  /\ runLock' = "worker" /\ running' = TRUE /\ mode' = "Closed"
  /\ wpc' = "run"
  /\ UNCHANGED <<execMutex, semResume, semChg, ctl>>

\* OnStartInThread: take m_RunningLock for the emulation that follows and
\* enter Closing.
OnStartInThread ==
  /\ wpc = "start" /\ Free(runLock)
  /\ runLock' = "worker" /\ running' = TRUE /\ mode' = "Closing"
  /\ wpc' = "run"
  /\ UNCHANGED <<execMutex, semResume, semChg, ctl>>

\* StateCheckInThread's switch reads m_ExecMode once.  Opened returns
\* false and changes nothing, so only Pausing and Closing make a step: into
\* their case, which stores the parked mode afterwards, over whatever a
\* controller wrote in between.  The thread itself is the only one to set
\* Paused, Closed (outside Start) and NoThreadYet, so it never enters with
\* those (StateCheckSeesRequest).
StateCheck ==
  /\ wpc = "run" /\ mode \in {"Pausing", "Closing"}
  /\ wpc' = IF mode = "Pausing" THEN "pausing" ELSE "closing"
  /\ UNCHANGED <<mode, running, execMutex, runLock, semResume, semChg, ctl>>

\* Mutant: Pausing is parked without releasing m_RunningLock.
PausingCaseKeepsLock ==
  /\ wpc = "pausing"
  /\ mode' = "Paused" /\ wpc' = "pausedWait"
  /\ UNCHANGED <<running, execMutex, runLock, semResume, semChg, ctl>>

\* The Pausing case: park as Paused, release m_RunningLock, fall through to
\* the Paused loop.
PausingCase ==
  /\ wpc = "pausing"
  /\ mode' = "Paused" /\ runLock' = NoOne /\ wpc' = "pausedWait"
  /\ UNCHANGED <<running, execMutex, semResume, semChg, ctl>>

\* Mutant: the wait on m_sem_Resume does not block on a zero count.
SemWaitNoBlock(pc) ==
  /\ semResume' = semResume - 1 /\ wpc' = pc
  /\ UNCHANGED <<mode, running, execMutex, runLock, semChg, ctl>>

\* m_sem_Resume.WaitWithoutYield() returns on a post.
SemWait(pc) ==
  /\ semResume > 0 /\ semResume' = semResume - 1 /\ wpc' = pc
  /\ UNCHANGED <<mode, running, execMutex, runLock, semChg, ctl>>

\* The test of "while (m_ExecMode == m) m_sem_Resume.WaitWithoutYield();":
\* enter the wait (pc semPc), or leave the loop, take m_RunningLock and go
\* on at pc next.
LoopTest(m, semPc, next) ==
  /\ IF mode = m
     THEN wpc' = semPc /\ UNCHANGED runLock
     ELSE Free(runLock) /\ runLock' = "worker" /\ wpc' = next
  /\ UNCHANGED <<mode, running, execMutex, semResume, semChg, ctl>>

\* The Paused loop of StateCheckInThread.
PausedWait ==
  \/ wpc = "pausedWait" /\ LoopTest("Paused", "pausedSem", "pausedResumed")
  \/ wpc = "pausedSem" /\ SemWait("pausedWait")

\* Back from Paused: carry on emulating unless a Suspend switched the mode
\* to Closing, in which case post m_sem_ChangingExecMode and fall through
\* to the Closing case.
PausedResumed ==
  /\ wpc = "pausedResumed"
  /\ IF mode # "Closing"
     THEN wpc' = "run" /\ UNCHANGED semChg
     ELSE wpc' = "closing" /\ semChg' = semChg + 1
  /\ UNCHANGED <<mode, running, execMutex, runLock, semResume, ctl>>

\* The Closing case, entered from the switch or from Paused: park as Closed,
\* release m_RunningLock, fall through to the Closed loop.
ClosingCase ==
  /\ wpc = "closing"
  /\ mode' = "Closed" /\ runLock' = NoOne /\ wpc' = "closedWait"
  /\ UNCHANGED <<running, execMutex, semResume, semChg, ctl>>

\* The Closed loop of StateCheckInThread; OnResumeInThread(true) follows.
ClosedWait ==
  \/ wpc = "closedWait" /\ LoopTest("Closed", "closedSem", "run")
  \/ wpc = "closedSem" /\ SemWait("closedWait")

\* OnCleanupInThread: the thread ends, back to NoThreadYet.
OnCleanupInThread ==
  /\ wpc = "run"
  /\ mode' = "NoThreadYet" /\ runLock' = NoOne /\ wpc' = "exited"
  /\ UNCHANGED <<running, execMutex, semResume, semChg, ctl>>

Worker == OnStartInThread \/ StateCheck \/ PausingCase \/ PausedWait
            \/ PausedResumed \/ ClosingCase \/ ClosedWait

-----------------------------------------------------------------------------
(* The controllers.  A call starts with the unlocked "shortcut" test of    *)
(* m_ExecMode; what runs under m_ExecModeMutex up to the next wait is one  *)
(* step, as the emulation thread changes m_ExecMode only from Pausing or   *)
(* Closing, which a controller set.                                        *)

Goto(c, pc) == cpc' = [cpc EXCEPT ![c] = pc]

\* A new call by controller c, with the shortcut test that may return.
Call(c, b, returns, pc) ==
  /\ cpc[c] = "idle" /\ calls[c] < MaxCalls
  /\ calls' = [calls EXCEPT ![c] = @ + 1]
  /\ blocking' = [blocking EXCEPT ![c] = b]
  /\ IF returns THEN UNCHANGED cpc ELSE Goto(c, pc)
  /\ UNCHANGED <<mode, running, execMutex, runLock, semResume, semChg, wpc>>

SuspendCall(c, b) ==
  Call(c, b, ~running \/ mode = "Closed", "suspendLock")

\* Suspend under m_ExecModeMutex.  From Pausing or Paused a non-blocking
\* call throws CancelEvent; a blocking one switches to Closing, posts
\* m_sem_Resume and waits on m_sem_ChangingExecMode still holding the
\* mutex.  From Opened it switches to Closing.
SuspendLocked(c) ==
  /\ cpc[c] = "suspendLock" /\ Free(execMutex)
  /\ CASE mode \in {"NoThreadYet", "Closed"} ->
            Goto(c, "idle") /\ UNCHANGED <<mode, execMutex, semResume>>
       [] mode \in {"Pausing", "Paused"} /\ ~blocking[c] ->
            Goto(c, "idle") /\ UNCHANGED <<mode, execMutex, semResume>>
       [] mode \in {"Pausing", "Paused"} ->
            /\ mode' = "Closing" /\ semResume' = semResume + 1
            /\ execMutex' = c /\ Goto(c, "suspendChanging")
       [] OTHER ->
            /\ mode' = "Closing"
            /\ Goto(c, IF blocking[c] THEN "suspendRunning" ELSE "idle")
            /\ UNCHANGED <<execMutex, semResume>>
  /\ UNCHANGED <<running, runLock, semChg, wpc, blocking, calls>>

\* m_sem_ChangingExecMode.Wait() returns; the mutex is released.
SuspendChanging(c) ==
  /\ cpc[c] = "suspendChanging" /\ semChg > 0
  /\ semChg' = semChg - 1 /\ execMutex' = NoOne
  /\ Goto(c, "suspendRunning")
  /\ UNCHANGED <<mode, running, runLock, semResume, wpc, blocking, calls>>

\* Mutant: m_RunningLock.Wait() does not wait for the thread.
RunningLockWaitNoWait(c) ==
  /\ cpc[c] \in {"suspendRunning", "pauseRunning"}
  /\ Goto(c, "idle")
  /\ UNCHANGED <<mode, running, execMutex, runLock, semResume, semChg, wpc,
                 blocking, calls>>

\* m_RunningLock.Wait() of a blocking Suspend, and of Pause.
RunningLockWait(c) ==
  /\ cpc[c] \in {"suspendRunning", "pauseRunning"} /\ Free(runLock)
  /\ Goto(c, "idle")
  /\ UNCHANGED <<mode, running, execMutex, runLock, semResume, semChg, wpc,
                 blocking, calls>>

PauseCall(c) ==
  Call(c, FALSE, ~running \/ mode \in {"Closed", "Paused"}, "pauseLock")

\* Pause under m_ExecModeMutex: check again, switch Opened to Pausing.
PauseLocked(c) ==
  /\ cpc[c] = "pauseLock" /\ Free(execMutex)
  /\ IF mode \in {"Closed", "Paused"}
     THEN Goto(c, "idle") /\ UNCHANGED mode
     ELSE /\ mode' = IF mode = "Opened" THEN "Pausing" ELSE mode
          /\ Goto(c, "pauseRunning")
  /\ UNCHANGED <<running, execMutex, runLock, semResume, semChg, wpc,
                 blocking, calls>>

ResumeCall(c) == Call(c, FALSE, mode = "Opened", "resumeLock")

\* Mutant: Resume opens without posting m_sem_Resume.
OpenNoPost ==
  mode' = "Opened" /\ UNCHANGED semResume

\* The end of Resume: OnResumeReady, Opened, post m_sem_Resume.
Open ==
  mode' = "Opened" /\ semResume' = semResume + 1

\* Start(): m_running, then OnStart resets both semaphores, recreates both
\* mutexes if they are locked (m_ExecModeMutex is: the calling Resume holds
\* it) and sets Closed.
Start ==
  /\ running' = TRUE /\ mode' = "Closed"
  /\ semResume' = 0 /\ semChg' = 0
  /\ execMutex' = NoOne /\ runLock' = NoOne

\* Resume under m_ExecModeMutex.  NoThreadYet runs Start() and falls
\* through to the wait on m_RunningLock, as Closing and Pausing do.
ResumeLocked(c) ==
  /\ cpc[c] = "resumeLock" /\ Free(execMutex)
  /\ CASE mode = "Opened" ->
            /\ Goto(c, "idle")
            /\ UNCHANGED <<mode, running, execMutex, runLock, semResume,
                           semChg>>
       [] mode = "NoThreadYet" -> Start /\ Goto(c, "resumeRunning")
       [] mode \in {"Closing", "Pausing"} ->
            /\ execMutex' = c /\ Goto(c, "resumeRunning")
            /\ UNCHANGED <<mode, running, runLock, semResume, semChg>>
       [] OTHER ->
            /\ Open /\ Goto(c, "idle")
            /\ UNCHANGED <<running, execMutex, runLock, semChg>>
  /\ UNCHANGED <<wpc, blocking, calls>>

\* Resume's m_RunningLock.Wait() returns: give up unless running and
\* parked as Closed or Paused, else open; release m_ExecModeMutex.
ResumeRunning(c) ==
  /\ cpc[c] = "resumeRunning" /\ Free(runLock)
  /\ IF running /\ mode \in {"Closed", "Paused"}
     THEN Open
     ELSE UNCHANGED <<mode, semResume>>
  /\ execMutex' = NoOne /\ Goto(c, "idle")
  /\ UNCHANGED <<running, runLock, semChg, wpc, blocking, calls>>

\* The steps of a controller inside a call.
Progress(c) ==
  \/ SuspendLocked(c) \/ SuspendChanging(c) \/ RunningLockWait(c)
  \/ PauseLocked(c) \/ ResumeLocked(c) \/ ResumeRunning(c)

-----------------------------------------------------------------------------
Init ==
  /\ mode = "NoThreadYet" /\ running = FALSE
  /\ execMutex = NoOne /\ runLock = NoOne
  /\ semResume = 0 /\ semChg = 0
  /\ wpc = "start"
  /\ cpc = [c \in Controllers |-> "idle"]
  /\ blocking = [c \in Controllers |-> FALSE]
  /\ calls = [c \in Controllers |-> 0]

Next ==
  \/ Worker \/ OnCleanupInThread
  \/ \E c \in Controllers :
       \/ \E b \in BOOLEAN : SuspendCall(c, b)
       \/ PauseCall(c) \/ ResumeCall(c)
       \/ Progress(c)

\* Once every controller made its last call and the emulation thread waits
\* parked, nothing is enabled: the system stops there.
Spec == Init /\ [][Next]_vars

\* The operating system schedules every thread; what the controllers call,
\* and whether the emulation thread ever ends, is not owed.
FairSpec == Spec /\ WF_vars(Worker)
                 /\ \A c \in Controllers : WF_vars(Progress(c))

-----------------------------------------------------------------------------
TypeOK ==
  /\ mode \in Modes /\ running \in BOOLEAN
  /\ execMutex \in Controllers \cup {NoOne}
  /\ runLock \in {"worker", NoOne}
  /\ semResume \in Nat /\ semChg \in Nat
  /\ wpc \in {"start", "run", "pausing", "pausedWait", "pausedSem", "pausedResumed",
              "closing", "closedWait", "closedSem", "exited"}
  /\ cpc \in [Controllers -> {"idle", "suspendLock", "suspendChanging",
                              "suspendRunning", "pauseLock", "pauseRunning",
                              "resumeLock", "resumeRunning"}]
  /\ blocking \in [Controllers -> BOOLEAN]
  /\ calls \in [Controllers -> 0 .. MaxCalls]

\* The emulation thread executes: between StateCheckInThread calls, or
\* back from a wait and deciding what to do.
Executing == wpc \in {"run", "pausing", "pausedResumed", "closing"}

\* A blocking Suspend and a Pause return only once the emulation thread has
\* stopped executing: m_RunningLock, which the thread holds whenever it
\* executes, is free.  This is what callers rely on to touch emulation
\* state from the GUI side.
ParkedWhenReturned ==
  [][\A c \in Controllers :
       (cpc[c] \in {"suspendRunning", "pauseRunning"} /\ cpc'[c] = "idle")
         => ~Executing]_vars

\* The emulation thread, whenever it executes, finds m_ExecMode Opened or
\* a request (Pausing, Closing) a controller made: never a parked mode or
\* NoThreadYet, which StateCheckInThread's switch does not expect.
StateCheckSeesRequest ==
  Executing => mode \in {"Opened", "Pausing", "Closing"}

\* The pxAssertDev checks of Suspend (line 110: Closing once the switch is
\* done) and Pause (line 139: Pausing once Opened was switched).
ModeAssertions ==
  [][\A c \in Controllers :
       /\ (cpc[c] = "suspendChanging" /\ cpc'[c] = "suspendRunning")
            => mode = "Closing"
       /\ (cpc[c] = "pauseLock" /\ cpc'[c] = "pauseRunning")
            => mode' = "Pausing"]_vars

\* Every wait of Suspend, Pause and Resume on m_RunningLock returns: the
\* emulation thread, having seen the request, parks and releases the lock
\* (or ends), although Resume waits holding m_ExecModeMutex.
RunningLockWaitsReturn ==
  \A c \in Controllers :
     (cpc[c] \in {"suspendRunning", "pauseRunning", "resumeRunning"})
       ~> (cpc[c] = "idle")

\* Every call of Suspend, Pause and Resume returns, as long as the emulation
\* thread has not ended.
CallsReturn ==
  \A c \in Controllers :
     (cpc[c] # "idle") ~> (cpc[c] = "idle" \/ wpc = "exited")

\* A Resume that opened the emulation gets the parked thread going again:
\* the post of m_sem_Resume is not lost against the thread's mode test.
Parked == {"pausedWait", "pausedSem", "closedWait", "closedSem"}

ThreadResumes ==
  (mode = "Opened" /\ wpc \in Parked) ~> Executing
=============================================================================
