CONSTANTS
  p1 = p1  p2 = p2  p3 = p3
  a = a  b = b  h = h  r = r
  call = call  meth = meth  base = base  literal = literal
  Procs = {p1, p2}
  Files = {a, b, h, r}
  Disk = {a, b, h, r}
  Facts = {call, meth, base, literal}
  Persistent = {call, meth, base}
  Breaking = {literal}
  Linked = {h}
  Parallel = TRUE
  MaxFds = 4
  Main <- MCMain
  Work <- MCSharedWork
  Derives <- MCNoDerives
  Phys <- MCPhys
  Order <- MCOrder
SPECIFICATION FaultFreeSpec
INVARIANTS FactsKept
