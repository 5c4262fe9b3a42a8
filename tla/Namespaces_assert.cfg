CONSTANTS
  acpp = acpp  bcpp = bcpp  ah = ah  std = std
  ns = ns  ms = ms  lib = lib  A = A  B = B  T = T
  open = open  key = key  close = close  fn = fn  conv = conv
  Empty = Empty  Builtin = Builtin  Env = Env  C_code = C_code  noRecordName = noRecordName
  NoUnit = NoUnit
  Files = {acpp, bcpp, ah, std}
  Identifiers = {ns, ms, lib, A, B, T, key, fn}
  Parts = {ns, ms, lib, A, B, T, open, key, close, fn, conv, Empty, Builtin, Env, C_code, noRecordName}
  Filtered <- MCFiltered
  Programs <- MCPrograms
  Order <- MCOrder
SPECIFICATION Spec
INVARIANTS NamespacesAgree
