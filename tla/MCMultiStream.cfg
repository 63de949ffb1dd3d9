SPECIFICATION FairMultiSpec
CONSTANTS
  a = a  b = b  asset = asset  asset2 = asset2  bond = bond  holding = holding  owned = owned
  Ids <- MCIds
  Name <- MCName
  MappingOf <- MCMappingOf
  Contracts <- MCContracts
  TemplateOf <- MCTemplateOf
  ViewsOf <- MCViewsOf
  Unreadable <- MCUnreadable
  StrictMode = FALSE
  CommitsFirst = TRUE
  MaxDeps = 1
  MaxListens = 1
  MaxEvents = 2
\* An unmounted hook whose contracts are all archived does nothing more.
CHECK_DEADLOCK FALSE
INVARIANTS OneStream EachHearsItsOwn ConnectedIsTrue
PROPERTIES ComesLive
