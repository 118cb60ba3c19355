\* Generated description files, loaded back.
SPECIFICATION Spec
CONSTANTS
  NULL = NULL
  Uninit = Uninit
  default = default
  dom1 = dom1
  dom2 = dom2
  a = a
  b = b
  c = c
  z = z
  c1 = c1
  c2 = c2
  e1 = e1
  e2 = e2
  ATP_DFLT_DOMAIN = default
  Names <- MCNames
  Exprs <- MCExprs
  Descriptions <- MCDescriptions
  KeyOrders <- RangeNotLast
  Garbage <- MCGarbage
INVARIANTS
  TypeOK
  RoundTrip
  NothingWrongYet
  RrlFollows
