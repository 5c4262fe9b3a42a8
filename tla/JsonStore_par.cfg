CONSTANTS
  p1 = p1  p2 = p2  p3 = p3
  a = a  b = b  h = h  r = r
  call = call  meth = meth  base = base  literal = literal
  Procs = {p1, p2, p3}
  Files = {a, b, h, r}
  Disk = {a, b, h, r}
  Facts = {call, meth, base, literal}
  Persistent = {call, meth, base}
  Breaking = {literal}
  Linked = {h, r}
  Parallel = TRUE
  MaxFds = 2
  Main <- MCMain
  Work <- MCSharedWork
  Derives <- MCNoDerives
  Phys <- MCAliasPhys
  Order <- MCOrder
SPECIFICATION Spec
INVARIANTS OnlyPublishedFacts
PROPERTIES BrokenForever
