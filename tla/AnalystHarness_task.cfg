SPECIFICATION Spec
CONSTANTS
    Reads <- MCReads
    Writes <- MCWrites
    Tools <- MCTools
    Input = {i1, i2}
    EmptyInput = i1
    Entitled <- MCEntitled
    MaxIterations = 4
    MaxQueries = 3
    MaxTasks = 1
    MaxOutages = 1
CHECK_DEADLOCK FALSE
INVARIANTS
    NothingUnauthorized
    NoSilentNoOp
