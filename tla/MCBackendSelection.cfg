CONSTANTS
    Zips <- MCZips
    Installed <- MCInstalled
    Policies <- MCPolicies
    SameSize = {"tokens.txt", "cmvn.txt"}
    MaxImports = 1
    MaxStarts = 2
    MaxFaults = 1
SPECIFICATION SelectionSpec
INVARIANTS
    
    PolicyObeyed
    NoNeedlessFailure
CHECK_DEADLOCK FALSE
