\* Two clients and every combination of short streams: the signal may come in the
\* middle of one.
CONSTANTS
  c1 = c1
  c2 = c2
  Client = {c1, c2}
  NoClient = NoClient
  Connection = {1, 2, 3}
  Url <- MCUrl
  Scenario <- MCPairs
  BufferSize = 3
SPECIFICATION Spec
PROPERTY StopFinishesOperations
