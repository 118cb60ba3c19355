\* Two processes, a collection that is killed, then one that must complete.
SPECIFICATION FairSpec
CONSTANTS
  NULL = NULL
  Uninit = Uninit
  Torn = Torn
  p1 = p1
  p2 = p2
  p3 = p3
  default = default
  dom1 = dom1
  dom2 = dom2
  a = a
  b = b
  c1 = c1
  e1 = e1
  ATP_DFLT_DOMAIN = default
  Procs <- TwoProcs
  Plan <- RestartPlan
  Faults <- RestartFaults
  Barrier = TRUE
  Served = FALSE
  DomainNames <- AllDomains
  ParamNames <- AllParams
  ConstraintNames = {c1}
  Exprs = {e1}
  ExpLists <- Hints
  ParamDecls <- LockParams
  ValueDecls <- LockValues
  ConstraintDecls <- LockConstraints
  ExplorationDecls <- LockExplorations
  Gets <- LockGets
  GarbageArrays <- NoGarbage
INVARIANTS
  LockNotStale
  OneDescription
PROPERTIES
  ExportCompletes
