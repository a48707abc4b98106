\* Every kind of request and response, headers and contents arriving in pieces,
\* nothing failing outside the proxy.  A client that asks no more leaves the
\* connection waiting, and without timeouts it waits for ever.
SPECIFICATION ResponsiveSpec
CONSTANTS
  Hosts <- OneHost
  Endpoints <- MCEndpoints
  Resolutions <- OneResolution
  NoHost = "no host"
  NoEndpoint = "no endpoint"
  EnableAuth = TRUE
  BufferLength = 2
  MaxHeader = 4
  Requests <- AllRequests
  Responses <- AllResponses
  MaxRequests = 2
  MaxTunnel = 0
  Faults = {}
CHECK_DEADLOCK FALSE
INVARIANTS
  RequestLengthKnown
  ResponseAfterRequest
  UnauthorizedNeverServed
PROPERTIES
  EveryRequestAnswered
