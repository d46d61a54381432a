-------------------------------- MODULE HostSys --------------------------------
(***************************************************************************)
(* Windows host memory and the page-fault filter of                        *)
(* common/src/Utilities/Windows/WinHostSys.cpp.                            *)
(*                                                                         *)
(* The main thread maps memory with the HostSys calls (reserve, commit,    *)
(* reset, map, unmap, protect) while emulation is suspended, and frees     *)
(* Source_PageFault at shutdown.  Emulation threads (the EE and MTVU       *)
(* threads) fault on pages they may not access; the vectored handler      *)
(* SysPageFaultExceptionFilter takes PageFault_Mutex, dispatches the fault *)
(* to Source_PageFault's listeners, and resumes the thread when one of     *)
(* them handled it.  Each page is its own reservation.                     *)
(*                                                                         *)
(* The listeners (PageFaultSource.h, not in this tree) are modelled from   *)
(* the spec: a fault on a reserved page is handled by committing it with   *)
(* ReserveMode through HostSys::MmapCommit, a fault on a committed page    *)
(* that denies the access (write-protected recompiled code) by             *)
(* re-protecting it read-write; a fault on a free page is not handled.     *)
(* The OS's answers (VirtualAlloc running out of memory, the               *)
(* out-of-memory handler freeing enough) are inputs.                       *)
(***************************************************************************)
EXTENDS Naturals, FiniteSets

CONSTANTS
  Threads,        \* the emulation threads that fault
  Pages,          \* the pages, numbered from 1; 0 is the null base
  Modes,          \* the PageProtectionModes the callers use
  ReserveMode,    \* the mode a listener commits a reserved page with
  HasOOMHandler,  \* pxDoOutOfMemory is set
  Win64,          \* _WIN64: the vectored handler is installed
  MaxFaults,      \* bound on faults per thread
  MaxOps,         \* bound on the main thread's HostSys calls
  NoOne           \* the owner of a free mutex

Accesses == {"r", "w"}
RW == {"r", "w"}
Errors == {"COMMITMENT_MINIMUM", "NOT_ENOUGH_MEMORY", "OUTOFMEMORY", "OTHER"}

\* The accesses a Windows page protection grants.
Allows(prot) ==
  CASE prot = "NOACCESS"          -> {}
    [] prot = "READONLY"          -> {"r"}
    [] prot = "READWRITE"         -> {"r", "w"}
    [] prot = "EXECUTE_READ"      -> {"r", "x"}
    [] prot = "EXECUTE_READWRITE" -> {"r", "w", "x"}

\* ConvertToWinApi: execute wins over read; write only adds to either.
ConvertToWinApi(mode) ==
  IF "x" \in mode THEN IF "w" \in mode THEN "EXECUTE_READWRITE" ELSE "EXECUTE_READ"
  ELSE IF "r" \in mode THEN IF "w" \in mode THEN "READWRITE" ELSE "READONLY"
  ELSE "NOACCESS"

VARIABLES
  pstate,    \* per page: free, reserved or committed
  prot,      \* per page: its Windows protection while committed
  pc,        \* per thread: run, lock, dispatch, check, done or dead
  fault,     \* per thread: the page and access of its current fault
  faults,    \* per thread: faults so far
  mtx,       \* PageFault_Mutex: its owner or NoOne
  src,       \* Source_PageFault: alive or freed
  handled,   \* Source_PageFault's handled flag (WasHandled)
  verdict,   \* per thread: the filter's answer, exec or search
  ops        \* the main thread's HostSys calls so far

vars == <<pstate, prot, pc, fault, faults, mtx, src, handled, verdict, ops>>

Accessible(p, a) == pstate[p] = "committed" /\ a \in Allows(prot[p])

-----------------------------------------------------------------------------
(* The HostSys calls.  The OS's answer to a commit is an input: the first  *)
(* VirtualAlloc succeeds (ok1) or fails with err, and the retry after      *)
(* pxDoOutOfMemory succeeds (ok2) or not.  Committing a free page always   *)
(* fails with an error other than the memory ones.  A commit's result is   *)
(* what the call returns (ret) and whether a VirtualAlloc it made did      *)
(* commit the page (done).                                                 *)

\* MmapCommitPtr: COMMITMENT_MINIMUM sleeps and falls through to the
\* out-of-memory path; any other error but the two out-of-memory ones
\* fails at once; with no pxDoOutOfMemory it fails; else the handler runs
\* and the result is that of one more VirtualAlloc.
MmapCommitPtr(p, ok1, err, ok2) ==
  LET e == IF pstate[p] = "free" THEN "OTHER" ELSE err
  IN IF pstate[p] # "free" /\ ok1 THEN [ret |-> TRUE, done |-> TRUE]
     ELSE IF e = "OTHER" \/ ~HasOOMHandler THEN [ret |-> FALSE, done |-> FALSE]
     ELSE LET ok == pstate[p] # "free" /\ ok2 IN [ret |-> ok, done |-> ok]

\* The page table after a commit of p with mode that did commit or not.
Committed(p, mode, done) ==
  [st |-> IF done THEN [pstate EXCEPT ![p] = "committed"] ELSE pstate,
   pr |-> IF done THEN [prot EXCEPT ![p] = ConvertToWinApi(mode)] ELSE prot]

\* The threads are parked at a call of the main thread (emulation suspended).
Suspended == \A t \in Threads : pc[t] \in {"run", "dead"}

MainCall ==
  /\ Suspended /\ ops < MaxOps /\ ops' = ops + 1
  /\ UNCHANGED <<pc, fault, faults, mtx, src, handled, verdict>>

\* MmapReservePtr: VirtualAlloc MEM_RESERVE, which fails on a used range.
MmapReservePtr(p) ==
  IF pstate[p] = "free" THEN [pstate EXCEPT ![p] = "reserved"] ELSE pstate

\* MmapResetPtr: VirtualFree MEM_DECOMMIT of a committed page.
MmapResetPtr(p) ==
  IF pstate[p] = "committed" THEN [pstate EXCEPT ![p] = "reserved"] ELSE pstate

\* The uptr wrappers MmapReserve, MmapCommit and MmapReset call the Ptr
\* functions on the same range.
MmapReserve(p) ==
  /\ MainCall
  /\ pstate' = MmapReservePtr(p)
  /\ UNCHANGED prot

MmapCommit(p, mode, ok1, err, ok2) ==
  /\ MainCall
  /\ LET c == Committed(p, mode, MmapCommitPtr(p, ok1, err, ok2).done)
     IN pstate' = c.st /\ prot' = c.pr

MmapReset(p) ==
  /\ MainCall
  /\ pstate' = MmapResetPtr(p)
  /\ UNCHANGED prot

\* Mmap: reserve and commit read-write-execute in one VirtualAlloc.
Mmap(p) ==
  /\ MainCall
  /\ IF pstate[p] = "free"
     THEN /\ pstate' = [pstate EXCEPT ![p] = "committed"]
          /\ prot' = [prot EXCEPT ![p] = "EXECUTE_READWRITE"]
     ELSE UNCHANGED <<pstate, prot>>

\* Munmap: nothing for a null base, else VirtualFree MEM_RELEASE.
Munmap(p) ==
  /\ MainCall
  /\ pstate' = IF p = 0 THEN pstate ELSE [pstate EXCEPT ![p] = "free"]
  /\ UNCHANGED prot

\* MemProtect: VirtualProtect, which fails (and is only logged) on a page
\* that is not committed.
MemProtect(p, mode) ==
  /\ MainCall
  /\ prot' = IF pstate[p] = "committed" THEN [prot EXCEPT ![p] = ConvertToWinApi(mode)]
             ELSE prot
  /\ UNCHANGED pstate

\* Shutdown deletes Source_PageFault while emulation threads may still run.
FreeSource ==
  /\ src = "alive" /\ src' = "freed"
  /\ UNCHANGED <<pstate, prot, pc, fault, faults, mtx, handled, verdict, ops>>

-----------------------------------------------------------------------------
(* The emulation threads and the filter.                                   *)

\* A thread touches a page it may not access: an access violation, which
\* goes to the vectored handler when _platform_InstallSignalHandler
\* installed it (Win64), and kills the thread otherwise.
Fault(t, p, a) ==
  /\ pc[t] = "run" /\ faults[t] < MaxFaults /\ ~Accessible(p, a)
  /\ fault' = [fault EXCEPT ![t] = [page |-> p, acc |-> a]]
  /\ faults' = [faults EXCEPT ![t] = @ + 1]
  /\ pc' = [pc EXCEPT ![t] = IF Win64 THEN "lock" ELSE "dead"]
  /\ UNCHANGED <<pstate, prot, mtx, src, handled, verdict, ops>>

\* ScopedLock lock(PageFault_Mutex).
Lock(t) ==
  /\ pc[t] = "lock" /\ mtx = NoOne
  /\ mtx' = t /\ pc' = [pc EXCEPT ![t] = "dispatch"]
  /\ UNCHANGED <<pstate, prot, fault, faults, src, handled, verdict, ops>>

\* Thread t, holding PageFault_Mutex, touches the freed Source_PageFault.
\* The access violation goes to the vectored handlers before any frame
\* handler, so the __except of SysPageFaultExceptionFilter is not reached:
\* the filter is entered again and its ScopedLock takes PageFault_Mutex
\* once more.  Whether Threading::Mutex is recursive is decided outside
\* the tree.  If it is not, t waits on itself for good, holding the lock.
\* If it is, every nested call faults the same way until the stack
\* overflows, an exception the filter passes on, and the process dies.
FaultInFilter(t, recursive) ==
  IF recursive
  THEN pc' = [u \in Threads |-> "dead"] /\ mtx' = NoOne
  ELSE pc' = [pc EXCEPT ![t] = "hung"] /\ UNCHANGED mtx

\* Source_PageFault->Dispatch: the handled flag is cleared and the
\* listeners run; a freed source faults inside the filter.
DispatchOn(t, ok1, err, ok2, unlock, recursive) ==
  LET p == fault[t].page
      r == MmapCommitPtr(p, ok1, err, ok2)
      c == Committed(p, ReserveMode, r.done)
  IN
  /\ pc[t] = "dispatch"
  /\ IF src = "freed"
     THEN /\ FaultInFilter(t, recursive)
          /\ UNCHANGED <<pstate, prot, handled, verdict>>
     ELSE /\ CASE pstate[p] = "reserved" ->
                    /\ pstate' = c.st /\ prot' = c.pr
                    /\ handled' = r.ret
               [] pstate[p] = "committed" ->
                    /\ prot' = [prot EXCEPT ![p] = ConvertToWinApi(RW)]
                    /\ handled' = TRUE /\ UNCHANGED pstate
               [] OTHER -> handled' = FALSE /\ UNCHANGED <<pstate, prot>>
          /\ pc' = [pc EXCEPT ![t] = "check"]
          /\ mtx' = IF unlock THEN NoOne ELSE mtx
          /\ UNCHANGED verdict
  /\ UNCHANGED <<fault, faults, src, ops>>

\* Mutant: the lock's scope ends with Dispatch, before WasHandled.
DispatchUnlocked(t, ok1, err, ok2, recursive) ==
  DispatchOn(t, ok1, err, ok2, TRUE, recursive)

Dispatch(t, ok1, err, ok2, recursive) ==
  DispatchOn(t, ok1, err, ok2, FALSE, recursive)

\* Mutant: the lock is left held when the filter returns.
CheckKeepsLock(t, recursive) ==
  /\ pc[t] = "check"
  /\ IF src = "freed"
     THEN FaultInFilter(t, recursive) /\ UNCHANGED verdict
     ELSE /\ verdict' = [verdict EXCEPT ![t] = IF handled THEN "exec" ELSE "search"]
          /\ pc' = [pc EXCEPT ![t] = "done"] /\ UNCHANGED mtx
  /\ UNCHANGED <<pstate, prot, fault, faults, src, handled, ops>>

\* return WasHandled() ? EXCEPTION_CONTINUE_EXECUTION : ..._SEARCH, then
\* the ScopedLock is released; WasHandled on a freed source faults inside
\* the filter as Dispatch does.
Check(t, recursive) ==
  /\ pc[t] = "check"
  /\ IF src = "freed"
     THEN FaultInFilter(t, recursive) /\ UNCHANGED verdict
     ELSE /\ verdict' = [verdict EXCEPT ![t] = IF handled THEN "exec" ELSE "search"]
          /\ mtx' = NoOne /\ pc' = [pc EXCEPT ![t] = "done"]
  /\ UNCHANGED <<pstate, prot, fault, faults, src, handled, ops>>

\* EXCEPTION_CONTINUE_EXECUTION retries the access; CONTINUE_SEARCH finds
\* no other handler for the access violation and the process dies.
Resume(t) ==
  /\ pc[t] = "done"
  /\ pc' = [pc EXCEPT ![t] = IF verdict[t] = "exec" THEN "run" ELSE "dead"]
  /\ UNCHANGED <<pstate, prot, fault, faults, mtx, src, handled, verdict, ops>>

-----------------------------------------------------------------------------
\* _platform_InstallSignalHandler ran at startup; every page is free.
Init ==
  /\ pstate = [p \in Pages |-> "free"] /\ prot = [p \in Pages |-> "NOACCESS"]
  /\ pc = [t \in Threads |-> "run"]
  /\ fault = [t \in Threads |-> [page |-> 0, acc |-> "r"]]
  /\ faults = [t \in Threads |-> 0]
  /\ mtx = NoOne /\ src = "alive" /\ handled = FALSE
  /\ verdict = [t \in Threads |-> "search"] /\ ops = 0

\* A thread inside the filter.
Filter(t) ==
  \/ Lock(t) \/ Resume(t)
  \/ \E recursive \in BOOLEAN :
       \/ Check(t, recursive)
       \/ \E ok1, ok2 \in BOOLEAN, err \in Errors : Dispatch(t, ok1, err, ok2, recursive)

Main ==
  \/ \E p \in Pages :
       \/ MmapReserve(p) \/ MmapReset(p) \/ Mmap(p)
       \/ \E m \in Modes : MemProtect(p, m)
       \/ \E m \in Modes, ok1, ok2 \in BOOLEAN, err \in Errors :
            MmapCommit(p, m, ok1, err, ok2)
  \/ \E p \in Pages \cup {0} : Munmap(p)
  \/ FreeSource

Next ==
  \/ Main
  \/ \E t \in Threads : Filter(t) \/ \E p \in Pages, a \in Accesses : Fault(t, p, a)

Spec == Init /\ [][Next]_vars

\* The OS keeps running a thread that is inside the filter.
FairSpec == Spec /\ \A t \in Threads : WF_vars(Filter(t))

-----------------------------------------------------------------------------
TypeOK ==
  /\ pstate \in [Pages -> {"free", "reserved", "committed"}]
  /\ pc \in [Threads -> {"run", "lock", "dispatch", "check", "done", "dead", "hung"}]
  /\ mtx \in Threads \cup {NoOne} /\ src \in {"alive", "freed"}
  /\ handled \in BOOLEAN /\ verdict \in [Threads -> {"exec", "search"}]
  /\ faults \in [Threads -> 0 .. MaxFaults] /\ ops \in 0 .. MaxOps

\* The filter resumes a thread (EXCEPTION_CONTINUE_EXECUTION) only when its
\* own fault was repaired: the page it faulted on is now committed with a
\* protection that grants the access, so the retried access does not fault
\* again.  Two threads faulting together must not see each other's
\* handled flag, and a commit that ran out of memory must not count.
ResumeOnlyFixed ==
  \A t \in Threads :
    pc[t] = "done" /\ verdict[t] = "exec" => Accessible(fault[t].page, fault[t].acc)

\* While Source_PageFault lives, every fault that reaches the filter gets
\* an answer: a thread waiting on PageFault_Mutex gets it, because every
\* holder dispatches, reads WasHandled and releases it, and the OS acts on
\* the answer, although two threads and the main thread's HostSys calls
\* interleave.  Once the source is freed nothing is promised (see
\* FaultInFilter).
FaultsAnsweredWhileAlive ==
  \A t \in Threads : pc[t] = "lock" ~> (pc[t] \in {"run", "dead"} \/ src = "freed")
=============================================================================
