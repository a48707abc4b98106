\* Peers that may stop at any point: the connection is released all the same.
SPECIFICATION LiveSpec
CONSTANTS
  Hosts <- OneHost
  Endpoints <- MCEndpoints
  Resolutions <- OneResolution
  NoHost = "no host"
  NoEndpoint = "no endpoint"
  EnableAuth = FALSE
  BufferLength = 2
  MaxHeader = 4
  Requests <- EndingRequests
  Responses <- EndingResponses
  MaxRequests = 1
  MaxTunnel = 1
  Faults = {"timeout", "resolve", "connect", "client_close", "origin_close"}
PROPERTIES
  EventuallyReleased
