SPECIFICATION BranchesSpec
CONSTANTS
    NumBranches = 3
    Keys = {k1, k2}
    MaxConcurrent = 2
INVARIANTS LoneBranchesAreIsolated JoinKeepsAssignments ParentIsRestored
CHECK_DEADLOCK FALSE
