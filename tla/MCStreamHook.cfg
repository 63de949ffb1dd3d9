SPECIFICATION FairSpec
CONSTANTS
  a = a  b = b  assets = assets  bonds = bonds
  Contracts <- MCContracts
  Queries <- MCQueries
  FirstQuery = assets
  QueryOf <- MCQueryOf
  StrictMode = TRUE
  MaxTokens = 1
  MaxTriggers = 1
  MaxEvents = 2
\* An unmounted hook whose contracts are all archived does nothing more.
CHECK_DEADLOCK FALSE
INVARIANTS OneStream TokenFollows CompleteWhenLoaded
PROPERTIES ComesLive
