CONSTANTS
  a = a  b = b  h = h  g = g
  nspc = nspc  Base = Base  Inner = Inner  go = go  poke = poke  helper = helper  util = util
  ua = ua  ua2 = ua2  ub = ub
  NoLines = NoLines  NoUnit = NoUnit
  Files = {a, b, h, g}
  Headers = {h, g}
  Names = {nspc, Base, Inner, go, poke, helper, util}
  Sizes = {0, 1, 2, 3}
  Units = {ua, ua2, ub}
  Main <- MCMain
  Traversal <- MCTraversal
  Order <- MCOrder
SPECIFICATION Spec
INVARIANTS TypeOK CountersExact TotalsWritten
PROPERTIES NeverLess SameTotals
