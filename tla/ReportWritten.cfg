SPECIFICATION PartsSpec
CONSTANTS
  Suites <- MCSuites
  Members <- MCMembers
  Waiter = {"main", "error"}
  Line = {"active", "completed", "error"}
  HistorySize = 2
  MaxLines = 4
  Screen = {"Home", "Equipment", "Menu", "Setup", "Freeze"}
  Home = "Home"
  Options <- MCOptions
  Below <- MCBelow
  Parent <- MCParent
  SetupLine = "SETUP"
  FreezeLine = "FREEZE"
  MaxDepth = 3
  MaxScreens = 5
  MaxOptions = 3
  HomeAttempts = 2
  MaxUnhandled = 2
  MaxWire = 4
  DLE = "DLE"
  STX = "STX"
  ETX = "ETX"
  Data = "Data"
  Expected <- MCExpected
  Payload = {2}
  MaxBytes = 4
  MaxSerialSteps = 2
  Run = {"r1", "r2"}
  Prefix = {"p1", "p2"}
  Display = {1, 2}
  DequeSize = 7
  MaxPrinted = 8
  Key = {"filterPump", "aux"}
  PumpKey = "filterPump"
  MaxKeys = 2
  MaxSteps = 1
  Switches <- MCSwitches
  Auxiliaries <- MCAuxiliaries
  Requestable <- MCRequestable
  Minimum = 1
  Maximum = 4
  Setpoints = {1, 3}
  Water = {0, 2, 4}
  MaxEvents = 2
INVARIANT ReportWritten
CHECK_DEADLOCK FALSE
