SPECIFICATION MCSpec
CONSTANTS
  heater = heater
  spa = spa
  pump = pump
  Device = {heater, spa, pump}
  Heater = {heater}
  SpaMode = {spa}
  FilterPump = pump
  Thermostat = {heater}
  Temp = {1, 2}
  MaxRequests = 2
INVARIANT SuppressedOnlyIfSent
