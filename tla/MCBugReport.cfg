SPECIFICATION FairReportSpec
CONSTANTS
  t1 = t1
  t2 = t2
  SIGABRT = SIGABRT
  SIGSEGV = SIGSEGV
  Tids <- MCTids
  Signals <- MCSignals
  Abort = SIGABRT
  Nothing = Nothing
  Lines = 2
  MaxFaults = 3
  MaxCalls = 2
INVARIANTS ReportSurvivesDump JumpIsValid
PROPERTIES ProcessEnds
CHECK_DEADLOCK FALSE
