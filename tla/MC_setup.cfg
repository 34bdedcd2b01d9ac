CONSTANTS
  UsbInit = {"absent", "rebooting"}
  DriverMayFail = TRUE
  SlowDetach = TRUE
  PostMayFail = FALSE
  UserUnplug = TRUE
SPECIFICATION Spec
CHECK_DEADLOCK FALSE
INVARIANT TypeOK
PROPERTY SetupTerminates
PROPERTY ImplementsNetSetupSpec
