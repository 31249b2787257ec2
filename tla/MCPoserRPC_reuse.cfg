CONSTANTS
    Kinds = {"RPC"}
    Names = {"p", "q"}
    ParamTypes <- MCParamTypes
    Values = {0, 1}
    RegNames <- MCNoRegs
    CallerReusesKeys = TRUE
    MaxSets = 2
    MaxCalls = 1
SPECIFICATION Spec
INVARIANT NoCallError
CHECK_DEADLOCK FALSE
