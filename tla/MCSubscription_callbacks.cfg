SPECIFICATION FairSpec
CONSTANTS
  s1 = s1
  s2 = s2
  p1 = p1
  p2 = p2
  NoValue = NoValue
  Earlier = Earlier
  Sub <- OneSub
  Publisher <- TwoPublishers
  Cached <- OneSub
  Depth = 2
  MaxValues = 3
CHECK_DEADLOCK FALSE
INVARIANTS NeverTwoCalls SettlesOnLatest
PROPERTIES ListenerPromise ReleasedExactlyOnce
