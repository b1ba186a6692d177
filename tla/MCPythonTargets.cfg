SPECIFICATION TargetSpec
CONSTANTS
  pump = pump
  aux = aux
  Device = {pump, aux}
  Heater = {}
  SpaMode = {}
  FilterPump = pump
  Thermostat = {}
  Temp = {}
  MaxRequests = 5
  Targets <- MCTargets
INVARIANTS
  UnverifiedTouched
  ClockRestored
  SafeIsRestored
  EndsRestored
CHECK_DEADLOCK FALSE
