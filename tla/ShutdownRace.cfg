CONSTANTS
  Loops = {worker, notifier}
  Handlers = {g1}
SPECIFICATION Spec
CHECK_DEADLOCK FALSE
INVARIANT NothingRacesClose
