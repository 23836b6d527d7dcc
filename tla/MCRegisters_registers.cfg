\* Every call of the driver, at every point of which the board may restart.
CONSTANT
  MaxReboots = 1
SPECIFICATION RegSpec
INVARIANTS FilterKept
PROPERTIES ReachesRegister SleepsQuiet CallsEnd
