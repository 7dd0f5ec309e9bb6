SPECIFICATION HpBufferedSpec
CONSTANTS
  HpThread = {t1, t2}
  HpNodes = 4
  ZombieCap = 3
  StoreBuffer = TRUE
INVARIANT NoUseAfterFree
CHECK_DEADLOCK FALSE
