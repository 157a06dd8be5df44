CONSTANTS
  p1 = p1  p2 = p2  f1 = f1  f2 = f2  wts = wts  cnf = cnf  d1 = d1  d2 = d2
  Procs = {p1, p2}
  Files = {f1, f2}
  Paths = {wts, cnf}
  Digests = {d1, d2}
  None = None  Blank = Blank  Garbled = Garbled
  MaxActs = 4
SPECIFICATION Spec
INVARIANTS VerbsKept VerifiedIsFetchable NamedIsKept
SYMMETRY Symmetries
CHECK_DEADLOCK FALSE
