CONSTANTS
  p1 = p1  p2 = p2  p3 = p3
  a = a  b = b  h = h  r = r
  call = call  meth = meth  base = base  literal = literal
  Procs = {p1, p2, p3}
  Files = {a, b, h, r}
  Disk = {a, b, h, r}
  Facts = {call, meth, base, literal}
  Persistent = {call, meth, base}
  Breaking = {literal}
  Linked = {h, r}
  Parallel = FALSE
  MaxFds = 2
  Main <- MCMain
  Work <- MCWork
  Derives <- MCDerives
  Phys <- MCPhys
  Order <- MCOrder
SPECIFICATION FairSpec
INVARIANTS TypeOK OnlyPublishedFacts FactsKept BrokenForAReason
PROPERTIES BrokenForever DatabaseSpec EveryAnalysisEnds
