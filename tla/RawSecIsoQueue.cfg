SPECIFICATION Spec
CONSTANTS
  DiscTypes = {1}
INVARIANTS
  QueueDestroyedInStopThread
