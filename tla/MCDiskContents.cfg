\* The mounted image of MCDiskContents; one readdir may fail.
CONSTANTS
  Tree <- TreeMC
  Limit = 100
  Faults = {"readdir"}
  MaxFaults = 1
SPECIFICATION Spec
INVARIANTS CompleteUnlessReported
CHECK_DEADLOCK FALSE
