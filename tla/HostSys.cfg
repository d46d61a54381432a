\* The EE and MTVU threads fault up to twice each on two pages while the
\* main thread makes three HostSys calls and may free Source_PageFault.
CONSTANTS
  ee = ee
  vu = vu
  NoOne = NoOne
  Threads <- MCThreads
  Pages = {1, 2}
  Modes <- MCModes
  ReserveMode = {"r", "w"}
  HasOOMHandler = TRUE
  Win64 = TRUE
  MaxFaults = 2
  MaxOps = 3
SPECIFICATION FairSpec
INVARIANT ResumeOnlyFixed
PROPERTY FaultsAnsweredWhileAlive
CHECK_DEADLOCK FALSE
