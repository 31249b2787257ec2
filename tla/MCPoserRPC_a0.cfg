\* An RPC2 caller sets the register A0 and reads it back before the call.
CONSTANTS
    Kinds = {"RPC2"}
    Names = {"p", "q"}
    ParamTypes <- MCParamTypes
    Values = {0, 1}
    RegNames <- MCA0Reg
    CallerReusesKeys = FALSE
    MaxSets = 1
    MaxCalls = 0
SPECIFICATION Spec
INVARIANT SetThenGet
CHECK_DEADLOCK FALSE
