SPECIFICATION PySpec
CHECK_DEADLOCK FALSE
CONSTANTS
  PyThread = {ta, tb}
  Recv = {ra, rb, rc}
  ClosesFirst = FALSE
  MaxPyCalls = 4
  NoThread = NoThread
INVARIANTS NoStandoff
