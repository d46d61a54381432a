# TLA+ models of the PCSX2 IPU DMA engine and its neighbours

This directory holds TLA+ specifications of parts of this repository, the
TLC configurations that check them, and `PROJECT.json`, which maps every
definition to the source lines it models and lists the runs, mutants,
findings and hazards.

## 1. Inventory of the system

The source tree is a slice of PCSX2: the IPU DMA channels, the hardware FIFO
register pages, the emulation-thread state machine, a GS worker queue, some
wxWidgets support code and a few platform shims.

| Component | Source | State it keeps | Operations | Interacts with |
|---|---|---|---|---|
| toIPU DMA channel (IPU1) | `pcsx2/IPU/IPUdma.cpp` | `ipu1ch` (MADR, QWC, TADR, CHCR: STR, MOD, TIE, TAG), `IPU1Status` (InProgress, DMAFinished, DMAMode, ChainMode) | `ipuDmaReset`, `dmaIPU1` (start/resume on a CHCR write), `IPU1dma` (one step: burst, then tag fetch), `IPU1chain` (burst), `ipu1Interrupt` | IPU input FIFO (`ipu_fifo.in`, level IFC), cycle scheduler (`IPU_INT_TO`, `eCycle[4]`), DMAC helpers (`hwDmacSrcChain`, `hwDmacSrcTadrInc`, `transfer`), IPU decoder (`IPUProcessInterrupt`) |
| fromIPU DMA channel (IPU0) | `pcsx2/IPU/IPUdma.cpp` | `ipu0ch`, `g_nDMATransfer` (FIREINT0, GIFSTALL, VIFSTALL, SIFSTALL, TIE0), `dmacRegs.stadr` | `dmaIPU0`, `IPU0dma`, `ipu0Interrupt` | IPU output FIFO (level OFC), scheduler (`IPU_INT_FROM`), stall control (STS/STD) of GIF, VIF1, SIF1 |
| Savestate of the IPU DMA | `pcsx2/IPU/IPUdma.cpp` | – | `ipuDmaFreeze` | whole `g_nDMATransfer` and `IPU1Status` |
| FIFO register pages | `pcsx2/FiFo.cpp` | VIF1 FQC/GSLastDownloadSize, VIF0 QWC, GIF FIFO size, GIF path state, APATH/OPH | `ReadFIFO_VIF1`, `WriteFIFO_VIF0`, `WriteFIFO_VIF1`, `WriteFIFO_GIF` | VIF units, GIF unit paths, MTGS |
| Emulation thread state machine | `pcsx2/System/SysFakeThread.cpp` | `m_ExecMode` (NoThreadYet, Closed, Closing, Opened, Pausing, Paused), `m_running`, `m_ExecModeMutex`, `m_RunningLock`, `m_sem_Resume`, `m_sem_ChangingExecMode`, `m_sem_event` | `Start`, `Suspend`, `Pause`, `Resume` (controller side); `OnStartInThread`, `StateCheckInThread`, `OnCleanupInThread` (worker side) | GUI/controller thread and emulation thread, through the mutex and semaphores |
| GS job queue | `plugins/GS/GSThread_CXX11.h` | SPSC ring of jobs, `m_exit`, `m_lock`, `m_wait_lock`, `m_empty`, `m_notempty` | `Push`, `Wait`, `IsEmpty`, destructor; worker `ThreadProc` | producer thread and one worker thread |
| wxModule registry | `3rdparty/wxwidgets3.0/src/common/module.cpp` | `m_modules`, per-module `m_state`, dependencies | `RegisterModule(s)`, `DoInitializeModule` (recursive), `InitializeModules`, `DoCleanUpModules` | module `Init`/`Exit` callbacks |
| GS code buffer | `plugins/GS/GSCodeBuffer.cpp` | block list, `m_ptr`, `m_pos` | `GetBuffer`, `ReleaseBuffer` | `vmalloc`/`vmfree` |
| wx streams | `3rdparty/wxwidgets3.0/src/common/stream.cpp` | buffer start/pos/end, write-back buffer, last count | fill, flush, get/put, seek, ungetch | underlying OnSysRead/OnSysWrite |
| Windows host memory | `common/src/Utilities/Windows/WinHostSys.cpp` | `PageFault_Mutex`; the OS's page states and protections | `HostSys::MmapReserve`, `MmapCommit` (with an out-of-memory retry), `MmapReset`, `Mmap`, `Munmap`, `MemProtect`; the vectored page-fault filter | emulation threads that fault, `Source_PageFault`'s listeners, the main thread |
| Others | `DarwinThreads.cpp`, `AppGameDatabase.cpp`, `stringimpl.cpp`, `GSVertexTrace.h`, `GSTextureNull.h`, `setup.h` | thread helpers, lazy DB construction under a mutex, string utilities, declarations | – | – |

### What is hard

* **IPU1 chain walker.** A transfer is a linked list of tags (CNT, NEXT,
  REF, REFE, END, optionally IRQ). Each `IPU1dma` step first finishes the
  current tag's burst into an 8-entry FIFO, which may accept only part of it,
  then fetches the next tag. Progress is driven by scheduled events
  (`IPU_INT_TO` → `ipu1Interrupt` → `IPU1dma`). When a burst moves nothing,
  the channel parks on the marker `eCycle[4] = 0x9999`, and the decoder
  re-arms it when it reads the FIFO down to one entry. The guest may clear
  and set CHCR.STR at any time, and `dmaIPU1` re-derives the status from the
  registers. These are interleavings of three parties (guest, scheduler,
  decoder) over state that every call reads and writes.
* **IPU0** drains the output FIFO and implements stall control: it raises
  stall flags for GIF, VIF1 and SIF1, and clears them on completion.
* **SysFakeThread** is a two-thread protocol over a mutex, a "running lock"
  and two semaphores, with check-then-lock shortcuts.
* **GSJobQueue** avoids lost wake-ups by taking a lock between publishing and
  notifying.
* **wxModule** initialisation is a recursive dependency walk with cycle
  detection and a rollback path.

### Properties that make each component correct

* IPU1: the FIFO receives exactly the quad-words the programmed chain denotes,
  in order, with no loss or repeat. The completion interrupt comes only after
  all of them. Every transfer over valid memory completes. The FIFO never
  overflows.
* IPU0: the data leaves the output FIFO in order and without loss. Stall
  flags are set only at the end of a transfer under stall control. A stalled
  consumer is eventually released.
* SysFakeThread: the controller and the worker agree on the mode. Suspend
  returns only when the worker is Closed. No deadlock between the mutex, the
  running lock and the semaphores.
* GSJobQueue: no lost wake-up. `Wait` returns only when every pushed job has
  run, and it eventually returns. The destructor's join terminates.
* wxModule: each module is initialised after its dependencies. A cycle or a
  missing dependency fails without recursing forever. Cleanup exits exactly
  the initialised modules, in reverse order.
* GSCodeBuffer: buffers handed out never overlap and never run past a block.

## 2. Plan

In order of importance:

1. **`IPU1Dma`** (done): the toIPU channel with its FIFO level, scheduler
   event, guest CHCR writes and decoder pull.
2. **`IPU0Dma`** (done): the fromIPU channel, the output FIFO written by an
   abstract decoder, stall control, and `ipu0Interrupt`. The stalled
   consumers (GIF, VIF1, SIF1) are left for the composition.
3. **`IPUDma`**: composes `IPU1Dma` and `IPU0Dma` around one decoder that
   reads the input FIFO and writes the output FIFO. (Not done: there is
   no decoder code in the tree to compose them through, see §6.)
4. **`DmaSource`** (done): the abstract specification of a source DMA
   channel. `IPU1Dma` is checked against it by `INSTANCE ... WITH`, with the
   abstract `Spec` as a `PROPERTY`.
5. **`SysThread`** (done): the SysFakeThread controller/worker protocol, with its
   mutex, running lock and semaphores as explicit state. It is checked for
   deadlock freedom, mode agreement and Suspend/Resume postconditions.
6. **`GSJobQueue`** (done): producer, worker and waiter over the ring, the mutexes
   and the condition variables, with spurious wake-ups. It is checked for
   lost wake-ups, `Wait` correctness and termination.
7. **`WxModules`** (done): `DoInitializeModule` as a RECURSIVE operator, checked
   against a reference (every dependency initialised first, failure on cycles
   or missing modules) over small dependency graphs.
8. **`GSCodeBuffer`** (done): a small sequential allocator.
9. **`FifoPages`** (done): the GIF and VIF1 FIFO pages, with the GIF unit
   they drive modelled from the spec.
10. **`HostSys`** (done): the Windows page-fault filter with two faulting
    threads, and the main thread's memory calls.

## 3. Modules

### `IPU1Dma.tla`: the toIPU channel

State (VARIABLES) and where it lives in the code:

* `ch`: `ipu1ch`, with fields `madr`, `qwc`, `tadr`, `str` (CHCR.STR),
  `chain` (CHCR.MOD), `tie` (CHCR.TIE), and `tag` (CHCR.TAG: ID and IRQ).
* `st`: `IPU1Status`.
* `ifc`: `g_BP.IFC`, the input FIFO level. Only the level matters to the
  channel, and the data identity is kept in `delivered`.
* `pending`: the DMAC_TO_IPU bit of `cpuRegs.interrupt`, meaning
  `ipu1Interrupt` is scheduled. `waiting` is `eCycle[4] = 0x9999`.
* `irq`: the completion interrupt raised by `hwDmacIrq(DMAC_TO_IPU)`.
  `beis`: the bus error.
* `guest`, `suspends`: what the guest program has done (start, suspend,
  resume).
* `expected`, `delivered`: history variables. `expected` is the quad-word
  stream that the programmed registers and memory denote, computed at the
  start by the recursive `ChainStream`. `delivered` is the sequence of
  quad-words pushed into the FIFO since the start.

Memory is a constant image chosen in `Init`. Its addresses are quad-word
indices. Each quad-word is given its parse as a tag, and a data quad-word is
identified by its address.

Actions. Each C++ entry point runs to completion on the emulation thread, so
each is one action. It is written as the composition of operators over a
snapshot record. `IPU1chain` is the burst, `FetchTag` the tag-fetch branch,
`IPU1dmaBody` the body of `IPU1dma`, `IPU1dmaFinish` its scheduling tail, and
`DmaIPU1Arm` the status set-up of `dmaIPU1`.

* `StartNormal`, `StartChain`: the guest programs the channel and sets STR,
  which runs `dmaIPU1`.
* `Suspend`: the guest clears STR.
* `Resume`: the guest sets STR again, which runs `dmaIPU1` and resumes the
  chain.
* `Ipu1Interrupt`: the scheduler fires the event and runs `ipu1Interrupt`.
* `DecoderRead`: the decoder pops one quad-word (`IPU_Fifo_Input::read`) and
  re-arms a parked channel.
* `Reset`: a subsystem reset. It runs `ipuDmaReset` (`IpuDmaReset`:
  InProgress cleared, DMAMode NORMAL, DMAFinished set) and clears the
  channel registers (`ZeroCh`), the FIFO and the scheduled event. `Init`
  is the same power-on reset. This is the only step that returns the guest
  to idle without an interrupt or a bus error.

Some code is not part of this source tree and is modelled from the spec
(marked `spec_modelled` in the map): the Dmac.h helpers `hwDmacSrcChain` and
`hwDmacSrcTadrInc`, the decoder's FIFO read, and the guest's CHCR writes. The
tag semantics follow spec §4.2; in particular, REFE leaves TADR unchanged.

### `DmaSource.tla`: what a source DMA channel promises

`DmaSource` is an abstract specification, not a model of any one function.
A transfer denotes a stream (`program`). The channel hands the peripheral a
growing prefix of it (`sent`). It raises completion (`done`) only once the
whole stream has been handed over, or it stops on a bus error (`fault`). A
new transfer may start only when the channel is idle, completed or faulted.
The actions are `Start`, `Push`, `Fail`, `Complete` and `Reset`, which
cancels whatever transfer is under way.

`IPU1Dma` defines `Source == INSTANCE DmaSource WITH ...` with this mapping:

| abstract | `IPU1Dma` |
|---|---|
| `program` | `expected` |
| `sent` | `delivered` |
| `done` | `irq` |
| `fault` | `beis` |
| `active` | `guest # "idle"` |
| `Data` | `Nat` |

The property `SourceRefined == Source!Spec` is checked by the
`ipu1_stream` run. It adds to `StreamPrefix` a statement about steps:
`delivered` never shrinks or changes within a transfer, and `irq` is raised
only on a complete stream. Registers, `IPU1Status`, the FIFO level, the
scheduler bit and guest suspension are all hidden: their steps are
stuttering steps of the abstract source. `IPU1Dma`'s `Reset` maps to the
abstract `Reset`. Because `ipuDmaReset` sets DMAFinished and clears
InProgress, which is the state in which `ipu1Interrupt` completes, a reset
that left the DMAC_TO_IPU event scheduled would raise `irq` for a cancelled
transfer. The refinement fails for such a reset, so it checks that the
reset clears the event. With one guest suspension per
transfer the refinement fails, for the same reason as `ipu1_replay` (see
the findings).

### `IPU0Dma.tla`: the fromIPU channel

State and where it lives in the code:

* `ch0`: `ipu0ch` (`madr`, `qwc`, CHCR.STR). IPU0 runs in normal mode only;
  `IPU0dma` asserts it.
* `dmac`: `dmacRegs.ctrl.STS == STS_fromIPU` (`sts`), `ctrl.STD` (`std`) and
  `stadr`, the stall address a stalled consumer may read up to.
* `xfer`: the IPU0 flags of `g_nDMATransfer` (FIREINT0 and the three stall
  flags). `ofc`: `ipuRegs.ctrl.OFC`, the output FIFO level.
* `pending0`: the DMAC_FROM_IPU bit of `cpuRegs.interrupt`. `irq0`:
  `hwDmacIrq(DMAC_FROM_IPU)`. `intcIpu`: `hwIntcIrq(INTC_IPU)`.
* `guest0`, `suspends0`, and the histories `start0` (the programmed MADR and
  QWC) and `written` (the addresses stored to, in order).

Actions:

* `Start0`, `Resume0`: the guest sets STR, which runs `dmaIPU0`
  (`DmaIPU0`): STADR starts at MADR under stall control, and the event is
  scheduled. `Suspend0`: the guest clears STR.
* `Ipu0Interrupt`: `ipu0Interrupt` after the scheduler cleared the event
  bit. With QWC left it calls `IPU0dma(FALSE)`, whose parameter is the event
  bit as `IPU0dma` reads it. `IPU0dma` keeps both early returns: an
  empty FIFO returns without rescheduling, as do STR clear, the event pending
  and QWC 0. Otherwise it moves `min(QWC, OFC)` quad-words, applies stall
  control when QWC reaches 0, and reschedules. With QWC 0 the handler raises
  INTC_IPU if FIREINT0 is set, clears the flags and STR, and raises the
  channel interrupt.
* `DecoderWrite`: the decoder stores one quad-word (`IPU_Fifo_Output::write`)
  and, with STR set, schedules the channel. `DecoderCommandEnd`: a command
  asks for its interrupt (FIREINT0). Both are modelled from the spec: the
  decoder is not in this source tree.

### `GSJobQueue.tla`: the GS job queue (`GSThread_CXX11.h`)

There are two threads. The worker runs `ThreadProc`, with program counter
`wpc`. The owner calls `Push`, `Wait` and the destructor, with program
counter `opc`. Each step of a thread runs between two points where another
thread can observe it:

* a lock taken or released;
* a condition-variable wait entered or left;
* a notify;
* a ring-buffer push or consume.

State:

* **The ring.** `queued` counts the jobs in the ring. `pushed` and `finished`
  are history counters that the properties use.
* **The mutexes.** `m_lock` and `m_wait_lock` are `lock` and `waitLock`,
  each holding the name of its owner.
* **The condition variables.** `m_notempty` and `m_empty` are `inNotEmpty`
  and `inEmpty`, true while their thread is in the wait set. A notify clears
  the flag. A waiter wakes once the flag is clear and it has retaken the
  mutex.
* **Spurious wake-ups.** `SpuriousWake` clears a wait flag with no notify.
  It is bounded by `MaxSpurious`.

`consume_one` runs the job before it advances the read index, so a running
job is still counted in `queued` (`WorkerRunDone`, then `WorkerPop`). The
ring itself (`boost_spsc_queue.hpp`) is not in the tree and is modelled from
its documented behaviour.

The system stops after the destructor's `join`, so the cfg says
`CHECK_DEADLOCK FALSE`. The liveness properties report every other state
in which a thread is stuck.

### `SysThread.tla`: the emulation thread's execution modes (`SysFakeThread.cpp`)

There are two kinds of thread:

* **GUI threads** (`Controllers`) call `Suspend`, `Pause` and `Resume`.
  Their program counters are `cpc`.
* **The emulation thread** runs `OnStartInThread`, then
  `StateCheckInThread` between slices of emulation, then
  `OnCleanupInThread`. Its program counter is `wpc`.

State:

* `mode` is `m_ExecMode`.
* `execMutex` and `runLock` hold the owners of `m_ExecModeMutex` and
  `m_RunningLock`.
* `semResume` and `semChg` hold the counts of the two semaphores.

How the calls are split into steps:

* A call's unlocked shortcut test is the `Call` step.
* The work under `m_ExecModeMutex` up to the next wait is one step
  (`SuspendLocked`, `PauseLocked`, `ResumeLocked`). This is sound because
  the emulation thread changes the mode only from a request, and a request
  is set under that mutex.
* Each wait is a step of its own: `SuspendChanging`, `RunningLockWait`,
  `ResumeRunning`.
* `m_RunningLock.Wait()` waits until the mutex is free. It does not keep it.

`StateCheckInThread`'s switch reads the mode once (`StateCheck`). The case
it enters stores the parked mode in a later step (`PausingCase`,
`ClosingCase`). A controller can write Closing in between, and the store
overwrites it.

The thread's wait loops have two steps each. `LoopTest` re-reads the mode.
`SemWait` blocks on `m_sem_Resume`. A post is needed to leave the wait, but
not to leave the loop once the mode has changed.

`Start` is `Start()` together with `OnStart`. It resets both semaphores and
sets Closed. It also recreates both mutexes if they are locked, and
`m_ExecModeMutex` is locked, because the calling `Resume` holds it. The
Threading classes are not in the tree, so this is modelled from their
documented behaviour. `m_sem_event` is posted but never waited on in this
file, and is left out.

### `WxModules.tla`: the wxModule registry (`module.cpp`)

The model is sequential. Each action is a whole public function:

* `RegisterModule` and `UnregisterModule`;
* `InitializeModules`, together with its cleanup on failure;
* `CleanUpModules`.

Inside `InitializeModules`, `DoInitializeModule`, its loop over
`m_dependencies` (`InitDependencies`) and the loop over `m_modules`
(`InitializeLoop`) are RECURSIVE operators. They pass along a record that
holds the module states, `initializedModules` and the log of `Init` calls.
The inputs are chosen in `Init`:

* every class's dependency list, of up to `MaxDeps` distinct classes,
  including itself;
* at most one class whose `Init` fails.

The reference definition `Initialisable` is independent of the code. It uses
the transitive closure of the dependency relation (`Relation`): every module
reachable from a registered module is registered, has a working `Init`, and
lies on no cycle.

### `GSCodeBuffer.tla`: the JIT code allocator (`GSCodeBuffer.cpp`)

This is a sequential model of `GetBuffer`, `ReleaseBuffer` and the
destructor:

* `ptr` is the number of the current block, with 0 for `m_ptr == NULL`.
* `pos` is `m_pos`.
* `blocks` is the length of `m_buffers`.
* `handed` is the room that the code generator (the caller) holds.
* `written` is, for each block, the end of the code written into it.

The caller is not in the tree. It asks for at most a block, and writes at
most what it asked for. `RoundUp16` is `(x + 15) & ~15` on values far below
the width of `size_t`.

### `FifoPages.tla`: the GIF and VIF1 FIFO pages (`FiFo.cpp`)

Four handlers are modelled, each as one action:

* `WriteFIFO_GIF`. With PATH3 able to run and `gif_fifo` empty, the
  quad-word goes straight to the GS (`TransferGSPacketData`), and PATH3
  becomes the active path. Otherwise the quad-word goes into `gif_fifo`,
  and `read_fifo` passes the FIFO on if PATH3 may run. Then a waiting PATH3
  becomes idle, and an active PATH3 gives the GIF back (APATH and OPH
  cleared).
* `WriteFIFO_VIF1(cmd, done, qwcZero, path2Done)`. The effect of
  `VIF1transfer` is an input. VPS follows it. A finished PATH2 gives the GIF
  back, releases a VIF1 flush (VGW), and lets `Execute` drain PATH3's FIFO.
* `WriteFIFO_VIF0(consumed, cmd, done)`. The quad-word is added to
  `vif0ch.qwc` (`qwc0`) before `VIF0transfer` runs. `VIF0transfer` is not
  in the tree, so its outcome is an input: whether it consumed the
  quad-word, and whether a command is open and done. VPS (`vps0`) becomes
  WAITING only when the command is done and QWC is back at 0. It becomes
  IDLE when no command is open, and is otherwise left alone. The result of
  `VIF0transfer` is ignored, as in the code.
* `ReadFIFO_VIF1`. The GS-to-memory download counter
  `GSLastDownloadSize` (`size`) is kept modulo `2^SizeBits`. `FQC` and OPH
  follow it. No property is checked about the download. FQC has writers
  outside the tree, and the spec gives only the set-up's
  FQC = min(16, size). Under that set-up the counter cannot wrap, while
  line 53 warns of FQC above the size (see §6).

The GIF unit (`Gif_Unit.h`) and the VIF1 and GS download set-up are not in
the tree. They are modelled from the spec as the environment actions
`Path2Start`, `Mask`, `GifDrain` and `StartDownload`. The two directions
share `oph`, the GIF's OPH bit. Quad-words are numbered in write order, and
the history `written` records them. `gs` is what reached the GS through
PATH3.

### `HostSys.tla`: host memory and the page-fault filter (`WinHostSys.cpp`)

There are two kinds of thread:

* **Emulation threads** (`Threads`) fault on pages they may not access.
  Their program counters are `pc`: run, lock, dispatch, check, done, dead.
  A fault goes to the vectored handler when `_platform_InstallSignalHandler`
  installed it (`Win64`). Otherwise it kills the thread.
* **The main thread** makes the `HostSys` calls while emulation is
  suspended: reserve, commit, reset, map, unmap and protect. At shutdown it
  also frees `Source_PageFault` (`FreeSource`).

The filter's steps:

* `Lock` is the `ScopedLock` on `PageFault_Mutex`.
* `Dispatch` runs the listeners, which are modelled from the spec. A
  reserved page is committed with `ReserveMode` through `MmapCommitPtr`,
  and `handled` is its return value. A committed page is re-protected
  read-write. A free page is not handled.
* `Check` reads `WasHandled()` and releases the lock.
* `FaultInFilter` is what happens when `Dispatch` or `Check` touches a
  freed `Source_PageFault`. The access violation goes to the vectored
  handlers before any frame handler, so the `__except` is not reached. The
  filter is entered again, and its `ScopedLock` takes `PageFault_Mutex` on
  the thread that already holds it. Whether `Threading::Mutex` is recursive
  is decided outside the tree, so both outcomes are modelled. If it is not
  recursive, the thread hangs holding the lock. If it is recursive, the
  nesting overflows the stack and the process dies.
* `Resume` is the OS acting on the answer.

`MmapCommitPtr` takes the OS's answers as inputs: the first `VirtualAlloc`
succeeds or fails with an error code, and an out-of-memory handler then
retries. The action returns the result and what was actually committed.
`ConvertToWinApi` is translated line for line. `MmapReservePtr` and
`MmapResetPtr` are operators on the page table, and the `uptr` wrappers
`MmapReserve`, `MmapCommit` and `MmapReset` are the actions that call them. `pstate` and `prot` are the
OS's view of each page. Each page is its own reservation.

## 4. Runs

| Run | Config | Expect | Checks |
|---|---|---|---|
| `ipu1_stream` | `IPU1Dma_stream.cfg` | pass | `TypeOK`, `StreamPrefix` (the FIFO gets a prefix of the programmed stream), `CompleteOnIrq` (the interrupt comes only after the whole stream), `SourceRefined` (`IPU1Dma` implements `DmaSource` under the mapping above). No guest suspension, all five memory images, a reset at any point; 1,772 states. |
| `ipu1_live` | `IPU1Dma_live.cfg` | pass | `IrqOnlyWhenDrained` (never complete with QWC left or a burst in progress), `TransferCompletes` (`guest # "idle" ~> (irq \/ guest = "idle")`: a started transfer raises its interrupt unless a reset cancels it). One suspension per transfer, valid images, fair spec. |
| `ipu1_replay` | `IPU1Dma_replay.cfg` | violation | `StreamPrefix` with one suspension per transfer. See the finding below. |
| `ipu0_drain` | `IPU0Dma.cfg` | pass | `TypeOK`, `WrittenContiguous` (memory gets consecutive addresses from the programmed MADR, and MADR and QWC account for exactly what was stored), `StallReleasesAll` (a completed transfer under stall control has STADR = MADR), `StallNeverAhead` (STADR never exceeds what was stored), `TransferCompletes` (a started transfer raises its interrupt). One suspension per transfer, fair spec. |
| `gs_jobqueue` | `GSJobQueue.cfg` | pass | `TypeOK`; `ExitOnlyDrained` (the worker exits only with every job run); `WaitMeansDone` (`Wait` returns only when every pushed job has finished); `WaitReturns`; `JobsRun` (every pushed job runs); `ShutdownCompletes` (the destructor's join returns). Ring of 2, three jobs, two spurious wake-ups. |
| `sys_thread` | `SysThread.cfg` | pass | `TypeOK`; `StateCheckSeesRequest` (the executing thread only meets Opened, Pausing or Closing); `ParkedWhenReturned` (a blocking `Suspend` or a `Pause` returns only when the thread is not executing); `ThreadResumes` (an Opened mode gets a parked thread executing); `RunningLockWaitsReturn` (every wait on `m_RunningLock` returns). One GUI thread, five calls. |
| `fifo_pages` | `FifoPages.cfg` | pass | `Path3InOrder` (what reached the GS, followed by what `gif_fifo` holds, is exactly what the guest wrote, in order); with the VIF0 and VIF1 pages and GS downloads interleaved. Four GIF page writes, four PATH2/mask/VIF1 events, downloads of 0, 1, 16 and 17 over 20 reads, an 8-bit counter, VIF0 page writes with every `VIF0transfer` outcome; 1,278,382 states. |
| `host_sys` | `HostSys.cfg` | pass | `ResumeOnlyFixed` (the filter answers CONTINUE_EXECUTION only when the faulting access is now allowed); `FaultsAnsweredWhileAlive` (while `Source_PageFault` lives, every fault that enters the filter is answered). Two threads, two faults each, two pages, four modes, three main-thread calls with every out-of-memory outcome, and the source freed at any point; 247,926 states. |
| `wx_modules` | `WxModules.cfg` | pass | `InitOutcome` (success exactly when `Initialisable` holds for the registered classes); `DependenciesFirst` (after success, `m_modules` lists each module once, after its dependencies); `InitOnce`; `ExitReverse` (cleanup exits exactly the successfully initialised modules, in reverse order). Three classes under symmetry, every graph with lists of up to two dependencies, every registration order. |
| `gs_codebuffer` | `GSCodeBuffer.cfg` | pass | `TypeOK`; `CodeInBlock` (code is written only inside its block); `CodeAligned` (every buffer starts 16-aligned); `CodeDisjoint` (a buffer starts after all code released into its block before). Blocks of 48 bytes, sizes 0, 8, 16, 20 and 48, up to three blocks. |
| `sys_suspend_hang` | `SysThread_hang.cfg` | violation | `CallsReturn` with one GUI thread. See the findings. |
| `sys_mode_assert` | `SysThread_assert.cfg` | violation | `ModeAssertions` (the `pxAssertDev` checks at lines 110 and 139) with one GUI thread. See the findings. |

`IPU0Dma.cfg` uses an output FIFO of 2, QWC up to 3 and the start addresses
1 and 8. QWC 3 over a FIFO of 2 forces a partial burst followed by an empty
FIFO. The decoder may fill the FIFO while the channel is idle or suspended,
so a start also meets a full FIFO. Every STS/STD combination is enumerated.

Bounds, all in `MC_IPU1Dma.tla` and the cfgs:

* **Memory.** Six quad-words (0..5) plus the bad addresses 7 and 9.
* **Memory images.** Five of them:
  * CNT→NEXT→END: the spec's three-tag example, shape NEXT-then-END.
  * REF→REFE: data taken from ADDR, with bursts larger than the FIFO.
  * A CNT with IRQ: checked with TIE both set and clear.
  * Zero-length tags followed by a NEXT to a bad address.
  * A REFE whose data lies outside memory.
* **FIFO capacity** is 2 instead of 8, so that every image has a burst that
  fills the FIFO and has to be resumed.
* **Normal transfers** use QWC up to 2 at a valid and an invalid MADR.

Together these cover every tag type, every branch of `IPU1dma`,
`IPU1chain`, `dmaIPU1` and `ipu1Interrupt`, and both scheduling outcomes.

### Fairness

`FairSpec` assumes three things:

* **`WF(Ipu1Interrupt)`.** The cycle scheduler fires every pending event.
  `cpuTestInterrupts` runs each due handler.
* **`WF(DecoderRead)`.** The decoder keeps reading while the FIFO holds
  data. This holds for a decoder executing a command. An idle decoder would
  leave the FIFO full, and the transfer would then legitimately wait.
* **`WF(Resume)`.** A guest that suspended a transfer resumes it, as the
  games that suspend do.

Suspensions are bounded by `MaxSuspends`.

`IPU0Dma`'s `FairSpec` assumes `WF(Ipu0Interrupt)` and `WF(Resume0)` for the
same reasons. It also assumes `WF(DecoderWrite)`: the decoder keeps writing
while the output FIFO has room. This holds while a command that produces
output runs; a transfer longer than the decoder's output would wait, as on
hardware.

`GSJobQueue` and `SysThread` assume weak fairness on every thread's steps:
the operating system schedules every runnable thread. Nothing is assumed of
what the owner or the GUI threads call next. The numbers of calls and jobs
are bounded (`MaxJobs`, `MaxCalls`), and so are spurious wake-ups
(`MaxSpurious`). Without that bound, a wait woken spuriously forever could
starve, which the standard allows and no scheduler does.

`HostSys` assumes weak fairness on each faulting thread's filter steps: the
OS schedules a thread inside the handler. Nothing is assumed of the main
thread.

`SysThread`'s passing run uses one GUI thread. `RunningLockWaitsReturn`
does not hold with two. With two, the
following happens even under strong fairness: one thread's `Resume` reopens
the emulation while another thread is still blocked in
`m_RunningLock.Wait()`. The emulation thread then retakes the lock and keeps
it while it runs, so the blocked wait can last until the next pause. PCSX2
issues these calls from its main GUI thread.

## 5. Findings

* **`ipu1_replay`: the chain runs past its end after a suspend/resume**
  (`IPUdma.cpp:294`).
  * When the guest sets STR on a chain-mode channel whose QWC is 0,
    `dmaIPU1` sets `InProgress = false` and `DMAFinished = false`. It does
    this without looking at CHCR.TAG. The QWC > 0 branch, at line 305,
    treats END, REFE and IRQ+TIE as final.
  * Suppose the guest clears and sets STR after the last burst of such a tag
    but before `ipu1Interrupt` runs. The channel then reads a new tag at
    TADR. For END and REFE, TADR still points at the final tag, so its data
    is transferred a second time. For an IRQ-terminated CNT, the chain goes
    on past the tag that should have stopped it.
  * TLC's trace for this has four states. `StartChain` runs a CNT tag with
    QWC 1 and IRQ set, whose one quad-word (at address 1) reaches the FIFO.
    `Suspend` follows, then `Resume` with QWC 0. The resume ignores the IRQ
    tag, fetches the next tag at TADR 2 and pushes its data (address 3),
    which lies past the end of the chain. Spec §8 says that such a resumption
    "immediately finalizes without consuming further tags".

* **`sys_suspend_hang`: `Suspend` hangs on `m_sem_ChangingExecMode`**
  (`SysFakeThread.cpp:99`).
  * `Suspend` handles Pausing the same way as Paused: it sets Closing,
    posts `m_sem_Resume` and waits on `m_sem_ChangingExecMode`, still
    holding `m_ExecModeMutex`.
  * Only the Paused loop of `StateCheckInThread` posts that semaphore. A
    thread that has not yet parked sees Closing through the Closing case and
    never posts it.
  * Pausing outlives `Pause`'s return. `Pause`'s `m_RunningLock.Wait()`
    succeeds at once while the thread waits in the Closed loop, or has not
    attached yet.
  * TLC's trace has one GUI thread: Resume (through `Start`), Pause, then a
    blocking Suspend. Suspend never returns, and since it keeps the mutex,
    every later call blocks too.
* **`sys_mode_assert`: `Pause`'s assertion fails on Closing or
  NoThreadYet** (`SysFakeThread.cpp:139`).
  * `Pause` switches only Opened to Pausing, then asserts that the mode is
    Pausing. Its shortcut and its re-check reject only Closed and Paused.
  * With `m_running` set, `Pause` therefore reaches the assertion in two
    other modes, and fails it. One is Closing, which holds right after
    `OnStartInThread` and after a non-blocking `Suspend`. The other is
    NoThreadYet, after `OnCleanupInThread`, which resets the mode but leaves
    `m_running` true.
  * Which trace TLC reports depends on its search order. With one worker,
    it is OnStartInThread, then Pause, with the mode Closing.

## 6. Not modelled, and why

* **Data contents and FIFO layout.** Only quad-word identities and the FIFO
  level are kept. The properties are about which quad-words move, not about
  their bytes.
* **Cycle counts.** `IPU_INT_TO(n)` and `CPU_INT(n)` delays are abstracted
  to "fires eventually". Every ordering of events, guest writes and decoder
  reads is explored, which includes every timing.
* **The IPU decoder's command processing.** `IPUProcessInterrupt` is
  modelled only by its effect on the FIFOs: `DecoderRead` may happen at any
  point.
* **`VIF0transfer`'s stall.** `WriteFIFO_VIF0` ignores the result of
  `VIF0transfer`, and the assertion for it is commented out. What a stalled
  VIF0 does next is in the VIF code, which is not in the tree. This is
  listed as a hazard with no property.
* **The GIF FIFO's capacity.** `WriteFIFO_GIF` stores into `gif_fifo`
  without checking the room left. With PATH3 masked, a 17th quad-word
  reaches `write_fifo` with the FIFO full. What `write_fifo` then does (drop
  the quad-word or overrun) is in `Gif_Unit.h`, which is not in the tree.
  `FifoPages` therefore keeps `gif_fifo` unbounded. This is listed as a
  hazard, against spec §5, which says that writers check the free capacity
  first.
* **The `GSLastDownloadSize` wrap.** `ReadFIFO_VIF1` decrements the u32
  counter on every read while FQC > 0. If FQC ever exceeds it, which is the
  case line 53 warns of, the counter wraps and the download never ends.
  FQC's other writers (VIF1 DMA, the guest's FDR write, the GS download
  set-up) are not in the tree. `StartDownload` follows the spec's
  FQC = min(16, size), so the model cannot reach the wrap, and no property
  is claimed for it.
* **The filter's self-deadlock at shutdown.** After `Source_PageFault` is
  freed, `FaultInFilter` hangs a thread holding `PageFault_Mutex`, or
  kills the process. `FaultsAnsweredWhileAlive` therefore promises nothing
  once the source is freed. Showing the hang would need a violation run of
  its own, and the project has none to spare. It is listed as a hazard.
* **The decoder's re-invocation of IPU0.** `DecoderWrite` re-arms
  `ipu0Interrupt` on every write while STR is set, taken from the spec
  (line 75). `TransferCompletes` rests on it, so it does not check that
  hazard (`IPUdma.cpp:202`).
* **`AppGameDatabase.cpp`.** The test, the creation, the `Load` and the
  read of the pointer all sit inside one `ScopedLock`. There is no
  interleaving to explore, and `Load` itself is a YAML parse.
* **`DarwinThreads.cpp`.** These are thread helpers with no state.
* **`ipuDmacSrcChain`.** It is never called.
* **`ipuDmaFreeze`.** A savestate load restores `g_nDMATransfer` and
  `IPU1Status` together with the channel registers, the FIFOs and the
  scheduler, which other freezers outside the tree handle. A load therefore
  returns the model to a state it has already reached, and adds no
  behaviour. `ipuDmaReset` is modelled as `IPU1Dma`'s `Reset`. In
  `IPU0Dma` it is only the power-on `Init`, because clearing `xfer` is all
  it does to the fromIPU channel. `ipuDmaReset` leaves `ChainMode` stale,
  which is harmless: only the dead `ipuDmacSrcChain` reads it.
* **The `IPUDma` composition.** The two channels meet only in the decoder
  (`IPU.cpp`, not in the tree). A composition would add an invented
  decoder, not code of this repository.
* **`GSVertexTrace.h`.** It holds declarations only.
* **wx strings, build setup and declarations.** These have no
  behaviour worth a model (see `PROJECT.json` components).
