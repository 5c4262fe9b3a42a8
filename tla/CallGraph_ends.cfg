CONSTANTS
  a = a  b = b  h = h  std = std
  log = log  check = check  relay = relay  run = run  help = help  printf = printf
  ua = ua  ub = ub  ua2 = ua2
  NoUnit = NoUnit
  Files = {a, b, h, std}
  Signs = {log, check, relay, run, help, printf}
  Units = {ua, ub, ua2}
  Main <- MCMain
  Traversal <- MCTraversal
  Order <- MCOrder
SPECIFICATION Spec
INVARIANTS TypeOK AnalysedIsRecorded CallsAtBothEnds CalleesNamed
PROPERTIES AnalysedAgain
