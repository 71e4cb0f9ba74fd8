SPECIFICATION FairSpec
CONSTANT
  Boot <- MCBoot
  LogLevels <- MCLogLevels
  Chars = 2
  FifoSize = 2
  PollLimit = 2
  MaxDepth = 2
INVARIANT StreamsOrderly
INVARIANT AllShown
PROPERTY NotHeldUp
