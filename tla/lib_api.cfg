\* One process, every kind of annotation, one DTA and one RAT execution.
SPECIFICATION Spec
CONSTANTS
  NULL = NULL
  Uninit = Uninit
  Torn = Torn
  p1 = p1
  p2 = p2
  p3 = p3
  default = default
  dom1 = dom1
  dom2 = dom2
  a = a
  b = b
  c1 = c1
  e1 = e1
  ATP_DFLT_DOMAIN = default
  Procs <- OneProc
  Plan <- ApiPlan
  Faults <- ApiFaults
  Barrier = FALSE
  Served = TRUE
  DomainNames <- AllDomains
  ParamNames <- AllParams
  ConstraintNames = {c1}
  Exprs = {e1}
  ExpLists <- Hints
  ParamDecls <- ApiParams
  ValueDecls <- ApiValues
  ConstraintDecls <- ApiConstraints
  ExplorationDecls <- ApiExplorations
  Gets <- ApiGets
  GarbageArrays <- Garbage
INVARIANTS
  TypeOK
  UniqueNames
  RangeTriples
  LoadedIsCollected
PROPERTIES
  EndedForGood
