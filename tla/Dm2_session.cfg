SPECIFICATION Spec
CONSTANTS
  Suites <- MCSuites
  MaxClicks = 2
  MaxEntries = 5
  MaxProcs = 3
INVARIANT InSequence
 
 
INVARIANT ReportServed
 
CHECK_DEADLOCK FALSE
