\* The server and a client that asks twice, also at once, or in two pieces.
CONSTANTS
  NULL = NULL
  Uninit = Uninit
  NoFile = NoFile
  default = default
  dom1 = dom1
  a = a
  b = b
  c = c
  ATP_DFLT_DOMAIN = default
  Names <- MCNames
  InitPort = 1
  Retries = 0
  Step = 1
  RegHost = FALSE
  Attempts = 0
  Files <- AllFiles
  Requests <- AllRequests
  MaxRequests = 2
  Window = 2
  Cuts = TRUE
  Garbage <- MCGarbage
SPECIFICATION FairSpec
INVARIANTS
  AnsweredExactly
  SpecsDescribe
  TuplesFitSpecs
PROPERTIES
  Answered
  ServerEnds
