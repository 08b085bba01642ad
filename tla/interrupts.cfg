\* Two keys that share a flag and one with its own, a terminal to open, and
\* rates that are refused and accepted at the ends of the range.
SPECIFICATION FairSpec
CONSTANTS
  Hertz = {3, 1024, 2048}
  MaxTerms = 2
  Held = {"lshift", "rshift", "alt"}
  Typed = {"F2", "caps"}
  FifoSize = 1
INVARIANTS
  TypeOK
  HandlersAtomic
  NothingLeftInService
  TimerNeverRuns
  RateIsWhatWasWritten
  FlagsFollowKeys
PROPERTIES
  ReadWaitsForTick
  KeysAreHandled
  RtcReadReturns
