CONSTANTS
  acpp = acpp  bcpp = bcpp  ah = ah  mh = mh  std = std
  Base0 = Base0  Inner = Inner  Mid = Mid  Leaf = Leaf  Error = Error  Own = Own
  run = run  go = go  poke = poke  what = what  main = main  malloc = malloc
  ua = ua  ua2 = ua2  ub = ub
  Builtin = Builtin  NoRecord = NoRecord  NoPlace = NoPlace  NoUnit = NoUnit
  Files = {acpp, bcpp, ah, mh, std}
  Names = {Base0, Inner, Mid, Leaf, Error, Own, Builtin}
  Methods = {run, go, poke, what, main, malloc}
  Units = {ua, ua2, ub}
  Main <- MCMain
  Traversal <- MCTraversal
  Order <- MCOrder
  Rank <- MCRank
  Endings <- MCEndings
SPECIFICATION Spec
INVARIANTS TypeOK BothEnds AnalysedIsRecorded PlacelessForAReason
PROPERTIES AnalysedAgain
