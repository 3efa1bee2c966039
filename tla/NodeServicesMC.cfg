SPECIFICATION ServicesSpec
CONSTANTS
  Accounts = {"acme", "globex", "initech", "umbrella", "vehement", "hooli", "soylent"}
  Targets = {"enterprise", "professional", "professional_legacy", "unknown"}
  MaxChanges = 2
  Messages = {message1, message2, message3}
  MaxRetained = 2
  Policies = {policy1, policy2}
  Contracts = {contract1}
  Owners = {account1, account2}
  Everyone = Everyone
  Ingests = {ingest1, ingest2}
  MaxEdits = 3
  Limit = 1
  Characters = {"x", ".", " ", "newline"}
  MaxLength = 7
  Parameters <- ChunkParameters
  SearchWindow = 2
  Operations = {operation1, operation2}
  MaxRestarts = 1
  MaxSeeds = 1
INVARIANTS
  ServicesTypeOK SecondOpinionOnlyAdds AssessmentsAreRight NoneIsStranded
  TasksAreAnswered CorpusIsSound ChunksCoverTheText ReportsAreTrue
PROPERTIES
  WritesHaveCause ServicesComeToRest
\* assessments, ingests and calls end, changes and restarts are bounded
CHECK_DEADLOCK FALSE
