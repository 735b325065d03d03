SPECIFICATION Spec
CONSTANTS
  Reader = r
  Nobody = nobody
  Sender = {r, a}
  Jobs <- Mixed
  Capacity = 1
  MaxBatch = 2
  MaxFrames = 3
CHECK_DEADLOCK FALSE
INVARIANTS NoOvertaking QueuedExact DropsCounted
PROPERTIES PlacedIsWritten TeardownCompletes
