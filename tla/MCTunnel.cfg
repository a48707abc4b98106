\* A tunnel, possibly after another request, with every
\* fault of the environment: two chains of operations under one timer.
SPECIFICATION Spec
CONSTANTS
  Hosts <- MCHosts
  Endpoints <- MCEndpoints
  Resolutions <- MCResolutions
  NoHost = "no host"
  NoEndpoint = "no endpoint"
  EnableAuth = FALSE
  BufferLength = 2
  MaxHeader = 4
  Requests <- TunnelRequests
  Responses <- TunnelResponses
  MaxRequests = 2
  MaxTunnel = 3
  Faults = {"timeout", "resolve", "connect", "client_close", "origin_close"}
INVARIANTS
  TimerDiscipline
  OperationsFitState
  UpstreamFaithful
  DownstreamFaithful
PROPERTIES
  ImplementsWatchdog
