CONSTANTS
  a = a
  b = b
  c = c
  Classes <- MCClasses
  MaxDeps = 2
SYMMETRY MCSymmetry
SPECIFICATION Spec
INVARIANTS InitOutcome DependenciesFirst InitOnce ExitReverse
\* The application stops once the modules are cleaned up or failed.
CHECK_DEADLOCK FALSE
