\* One client, and every path: the handler of "/h" gets the request for "/h%1z".
CONSTANTS
  c1 = c1
  c2 = c2
  Client = {c1, c2}
  NoClient = NoClient
  Connection = {1, 2, 3}
  Url <- MCUrl
  Scenario <- MCPaths
  BufferSize = 3
SPECIFICATION Spec
INVARIANT InvalidPathsRejected
