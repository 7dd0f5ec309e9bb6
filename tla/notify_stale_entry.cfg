SPECIFICATION SgSpec
CONSTANTS
    SgConfigs <- NotifyConfigs
    LogIds = 4
INVARIANT SgLinearizable
CHECK_DEADLOCK FALSE
