SPECIFICATION FairSpec
CONSTANTS
  BaseBackoff = 2
  MaxBackoff = 5
  MaxAttempts = 2
  Faults = {"token", "socket", "source"}
INVARIANTS
  TypeOK
  StopIsFinal
  OneStream
  KeepsTrying
PROPERTIES
  FreshBackoff
  Reconnects
  OutageWritesGoOut
