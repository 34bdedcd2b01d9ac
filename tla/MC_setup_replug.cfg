CONSTANTS
  UsbInit = {"absent"}
  DriverMayFail = FALSE
  SlowDetach = FALSE
  PostMayFail = FALSE
  UserUnplug = TRUE
SPECIFICATION Spec
CHECK_DEADLOCK FALSE
PROPERTY StickEventuallyEjected
