CONSTANTS
    Kinds = {"RPC", "RPC2"}
    Names = {"p", "q"}
    ParamTypes <- MCParamTypes
    Values = {0, 1}
    RegNames <- MCNoRegs
    CallerReusesKeys = FALSE
    MaxSets = 3
    MaxCalls = 1
SPECIFICATION Spec
INVARIANT TypeOK
PROPERTY RepliesFollowDeclaration
INVARIANT NoCallError
CHECK_DEADLOCK FALSE
