\* Two servers in one directory.
CONSTANTS
  NULL = NULL
  Uninit = Uninit
  default = default
  unit = unit
  tens = tens
  single = single
  none = none
  strange = strange
  bare = bare
  dom9 = dom9
  p1 = p1
  p2 = p2
  p3 = p3
  c1 = c1
  c2 = c2
  s1 = s1
  s2 = s2
  dirA = dirA
  ATP_DFLT_DOMAIN = default
  Names <- MCNames
  MaxIndex = 6
  Dirs = {dirA}
  Servers = {s1, s2}
  DirOf <- DirOf2
  domains <- TwoDomains
  Asked <- TwoNames
  Garbage <- MCGarbage
  Faults = {}
SPECIFICATION Spec
INVARIANT
  Exact
