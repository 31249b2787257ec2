\* RPC2 packets only, no registers, one set and one call: msg['exception']
\* read on a fresh packet and after the call.
CONSTANTS
    Kinds = {"RPC2"}
    Names = {"p"}
    ParamTypes <- MCParamTypes
    Values = {0, 1}
    RegNames <- MCNoRegs
    CallerReusesKeys = FALSE
    MaxSets = 1
    MaxCalls = 1
SPECIFICATION Spec
INVARIANT ExceptionReadable
CHECK_DEADLOCK FALSE
