SPECIFICATION ServicesSpec
CONSTANTS
  object = object
  list = list
  Object = {object}
  List = {list}
  Namespace <- Namespaces
  Value = {one, two}
  Released = released
  Nothing = nothing
  PageSize = 2
  MaxLength = 3
  MaxEdits = 2
  Page = {page}
  Renewal = renewal
  Delivery <- Deliveries
  MaxAttempts = 2
  MaxTokens = 3
  MaxTries = 2
  MaxRestarts = 1
  McpRequest = {ask1, ask2}
  McpSession = {mcp_session}
  McpConfigs <- Servers
  McpKeys = {key1, key2}
  MaxApplies = 1
  MaxInstances = 2
  Question = {question1, question2}
  first_provider = first_provider
  second_provider = second_provider
  WebProvider = {first_provider, second_provider}
  WebConfigs <- WebOrders
  WebPermits = 1
  MaxWebTries = 2
  MaxBody = 5
  MaxChunk = 2
  MaxEvent = 4
  MaxRecords = 1
SYMMETRY Alike
INVARIANTS
  CacheCoherent
  FileAsHeld
  
  
  CutAnyhow
PROPERTIES
  SavesFollow
CHECK_DEADLOCK FALSE
