CONSTANTS
  UsbInit = {"absent"}
  DriverMayFail = TRUE
  SlowDetach = FALSE
  PostMayFail = FALSE
  UserUnplug = FALSE
SPECIFICATION Spec
CHECK_DEADLOCK FALSE
INVARIANT CompletedOnlyWhenConfigured
