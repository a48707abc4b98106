\* Nothing fails and nothing times out, so an idle relay waits for ever.
SPECIFICATION LiveSpec
CONSTANTS
  BufferLength = 2
  MaxUnits = 3
  Faults <- NoFaults
PROPERTIES
  EverythingRelayed
CHECK_DEADLOCK FALSE
