SPECIFICATION TargetSpec
CONSTANTS
  pump = pump
  aux = aux
  Device = {pump, aux}
  Heater = {}
  SpaMode = {}
  FilterPump = pump
  Thermostat = {}
  Temp = {}
  MaxRequests = 5
  Targets <- MCTargets
INVARIANT RestoredAfterEveryOperation
CHECK_DEADLOCK FALSE
