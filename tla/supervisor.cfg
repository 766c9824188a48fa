\* Every budget at one, two stop commands.  taskkill, which may fail, also does
\* what killpg does.
SPECIFICATION Spec
CONSTANTS
  s1 = s1
  s2 = s2
  a1 = a1
  a2 = a2
  Supervisors = {s1, s2}
  Hand = hand
  Stoppers = {a1, a2}
  Ghost = ghost
  Failures = {f1}
  LockHeld = lockheld
  MaxRepairs <- MCBudget
  MaxRetries <- MCBudget
  Posix = FALSE
  MaxEdits = 1
  MaxEvents = 2
SYMMETRY MCStopSymmetry
INVARIANTS
  TypeOK
  DispatcherAlone
  OneSupervisor
  BoundedRestarts
  
  RequestKept
PROPERTIES
  CleanRestart
CHECK_DEADLOCK FALSE
