\* A chunked upload.
SPECIFICATION Spec
CONSTANTS
  Hosts <- OneHost
  Endpoints <- MCEndpoints
  Resolutions <- OneResolution
  NoHost = "no host"
  NoEndpoint = "no endpoint"
  EnableAuth = FALSE
  BufferLength = 2
  MaxHeader = 4
  Requests <- UploadRequests
  Responses <- TunnelResponses
  MaxRequests = 1
  MaxTunnel = 0
  Faults = {"timeout"}
INVARIANTS
  ChunkedUploadHasChecker
