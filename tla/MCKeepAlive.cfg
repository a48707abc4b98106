\* Two requests over one client connection, to two hosts that share an
\* address, with every fault of the environment.
SPECIFICATION Spec
CONSTANTS
  Hosts <- MCHosts
  Endpoints <- MCEndpoints
  Resolutions <- MCResolutions
  NoHost = "no host"
  NoEndpoint = "no endpoint"
  EnableAuth = FALSE
  BufferLength = 2
  MaxHeader = 4
  Requests <- KeepAliveRequests
  Responses <- KeepAliveResponses
  MaxRequests = 2
  MaxTunnel = 0
  Faults = {"timeout", "resolve", "connect", "client_close", "origin_close"}
INVARIANTS
  TypeOK
  EverythingWatched
  NoMisrouting
  AtMostOnce
  RememberedOriginIsCurrent
  ClosedWriteRecovers
  UpstreamFaithful
  DownstreamFaithful
PROPERTIES
  CloseIsFinal
