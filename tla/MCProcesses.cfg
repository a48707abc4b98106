\* Both programs, with files that vary in every key, and every fault.
SPECIFICATION LiveSpec
CONSTANTS
  ServerFiles <- AnyServerFile
  ClientFiles <- ClientFile
  Texts <- TextsOfThree
  MaxConnections = 3
  Faults = {"bind", "accept", "exception", "assertion"}
INVARIANTS
  AcceptLostOnlyByFailure
  GrantedAsConfigured
PROPERTIES
  AbandonedOnlyByFailures
  DeafServerEnds
