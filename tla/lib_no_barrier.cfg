\* Two processes without the barrier: both create the lock file.
SPECIFICATION Spec
CONSTANTS
  NULL = NULL
  Uninit = Uninit
  Torn = Torn
  p1 = p1
  p2 = p2
  p3 = p3
  default = default
  dom1 = dom1
  dom2 = dom2
  a = a
  b = b
  c1 = c1
  e1 = e1
  ATP_DFLT_DOMAIN = default
  Procs <- TwoProcs
  Plan <- LockPlan
  Faults <- LockFaults
  Barrier = FALSE
  Served = FALSE
  DomainNames <- AllDomains
  ParamNames <- AllParams
  ConstraintNames = {c1}
  Exprs = {e1}
  ExpLists <- Hints
  ParamDecls <- LockParams
  ValueDecls <- LockValues
  ConstraintDecls <- LockConstraints
  ExplorationDecls <- LockExplorations
  Gets <- LockGets
  GarbageArrays <- NoGarbage
INVARIANTS
  SingleWriter
