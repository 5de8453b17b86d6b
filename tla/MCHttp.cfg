\* Streams in pieces of up to three characters, so that every one of them is split
\* everywhere.  Three objects: one for each client and the newest.
CONSTANTS
  c1 = c1
  c2 = c2
  Client = {c1, c2}
  NoClient = NoClient
  Connection = {1, 2, 3}
  Url <- MCUrl
  Scenario <- MCScenario
  BufferSize = 3
SPECIFICATION FairSpec
INVARIANTS TypeOK AlwaysAccepting ObjectsBusy ParserFollowsGrammar
PROPERTIES ReplyKept ImplementsHttpService Released EveryClientAnswered
