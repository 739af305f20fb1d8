CONSTANTS
  MaxSends = 3

SPECIFICATION ReuseSpec

INVARIANTS
  NotDeaf
  ToldOnce

CHECK_DEADLOCK FALSE
