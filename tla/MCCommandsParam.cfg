\* CM001::Open and GetParam, without a fault.
SPECIFICATION Spec
CONSTANTS
    Used = {"CM_GET_PARAM"}
    Id = {0, 7}
    Version = 16
    Config <- MCConfig
    MaxCalls = 3
    MaxFaults = 0
INVARIANTS
    ParamReachesCaller
CHECK_DEADLOCK FALSE
