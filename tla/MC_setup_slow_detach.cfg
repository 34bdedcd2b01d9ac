CONSTANTS
  UsbInit = {"absent"}
  DriverMayFail = FALSE
  SlowDetach = TRUE
  PostMayFail = FALSE
  UserUnplug = FALSE
SPECIFICATION Spec
CHECK_DEADLOCK FALSE
INVARIANT SetupSucceeds
