CONSTANTS
    Kinds = {"RPC2"}
    Names = {"p", "q"}
    ParamTypes <- MCParamTypes
    Values = {0, 1}
    RegNames <- MCTwoRegs
    CallerReusesKeys = FALSE
    MaxSets = 2
    MaxCalls = 1
SPECIFICATION Spec
INVARIANT EmulatorSeesCallerRegisters
CHECK_DEADLOCK FALSE
