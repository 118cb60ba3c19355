\* The client of the test, and a description that is not there at first.
CONSTANTS
  NULL = NULL
  Uninit = Uninit
  NoFile = NoFile
  default = default
  dom1 = dom1
  a = a
  b = b
  c = c
  ATP_DFLT_DOMAIN = default
  Names <- MCNames
  InitPort = 1
  Retries = 1
  Step = 1
  RegHost = FALSE
  Attempts = 2
  Files <- ChangingFiles
  Requests <- TestRequests
  MaxRequests = 2
  Window = 1
  Cuts = FALSE
  Garbage <- MCGarbage
SPECIFICATION Spec
INVARIANT InStep
