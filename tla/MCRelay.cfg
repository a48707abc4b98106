\* Two directions under one timer, with every fault of the environment, and
\* whether the relay is always released.
SPECIFICATION LiveSpec
CONSTANTS
  BufferLength = 2
  MaxUnits = 3
  Faults <- EveryFault
INVARIANTS
  TypeOK
  TimerDiscipline
  OperationsFitState
  OpenIsWatched
  RelayFaithful
  CountsAgree
PROPERTIES
  CloseIsFinal
  ImplementsWatchdog
  EventuallyReleased
