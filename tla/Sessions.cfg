SPECIFICATION AcpSpec
CONSTANTS
  Clients = {acp_client, cli}
  Server = acp_client
  MaxTime = 1
  MaxCopies = 2
  MaxRounds = 1
  MaxJobs = 1
  MaxSent = 2
  NoId = NoId
INVARIANT PromptFindsSession
PROPERTY NothingForgotten
CHECK_DEADLOCK FALSE
