\* Files that leave out what the README lets them leave out; nothing else fails.
SPECIFICATION Spec
CONSTANTS
  ServerFiles <- CompleteServerFiles
  ClientFiles <- CompleteClientFiles
  Texts = {}
  MaxConnections = 2
  Faults = {}
INVARIANTS
  OptionalSettingsMayBeOmitted
