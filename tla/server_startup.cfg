\* The server from its start to its first request: the ports and the registry.
CONSTANTS
  NULL = NULL
  Uninit = Uninit
  NoFile = NoFile
  default = default
  dom1 = dom1
  a = a
  b = b
  c = c
  ATP_DFLT_DOMAIN = default
  Names <- MCNames
  InitPort = 1
  Retries = 2
  Step = 2
  RegHost = TRUE
  Attempts = 2
  Files <- GoodFiles
  Requests <- TestRequests
  MaxRequests = 1
  Window = 1
  Cuts = FALSE
  Garbage <- MCGarbage
SPECIFICATION FairSpec
INVARIANT TypeOK
PROPERTIES
  GivesUpLast
  EntryServed
  StartupEnds
