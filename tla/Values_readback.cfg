SPECIFICATION ValuesSpec
CONSTANTS
  W8 = 4
  W16 = 5
  W32 = 6
  W64 = 7
  FloatBits = 5
  DoubleBits = 6
  NotANumber = 999
  Sentinel = 13
  Lengths = {0, 1, 2, 15, 16, 31, 32}
  MaxItems = 2
  MaxPuts = 2
CHECK_DEADLOCK FALSE
INVARIANTS TypedReadBack
