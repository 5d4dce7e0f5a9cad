SPECIFICATION Spec
CONSTANTS
  Typed = {TRUE, FALSE}
INVARIANTS DeadTargetNotStopped
