\* One GUI thread driving the emulation thread through five calls (the
\* Suspend/Resume/Pause sequences the GUI makes), under fair scheduling.
CONSTANTS
  c1 = c1
  c2 = c2
  Controllers <- MCOneController
  MaxCalls = 5
SPECIFICATION FairSpec
INVARIANTS TypeOK StateCheckSeesRequest
PROPERTIES ParkedWhenReturned ThreadResumes RunningLockWaitsReturn
\* The system stops once every controller made its last call.
CHECK_DEADLOCK FALSE
