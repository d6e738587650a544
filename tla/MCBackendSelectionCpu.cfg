CONSTANTS
    Zips <- MCZips
    Installed <- MCInstalled
    Policies <- MCPolicies
    SameSize = {"tokens.txt", "cmvn.txt"}
    MaxImports = 0
    MaxStarts = 1
    MaxFaults = 0
SPECIFICATION SelectionSpec
INVARIANT FallsBackToCpu
CHECK_DEADLOCK FALSE
