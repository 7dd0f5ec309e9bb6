SPECIFICATION SvSpec
CONSTANTS
  s1 = s1
  s2 = s2
  SvThread = {s1, s2}
  SvConfigs <- MCSvConfigs
  SvCalls = 3
INVARIANT SvQuiescentVerify
PROPERTY SvLinearizable
PROPERTY SvOperationsEnd
CHECK_DEADLOCK FALSE
