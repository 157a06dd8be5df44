CONSTANTS
  i1 = i1  i2 = i2  A = A  B = B  e1 = e1  s1 = s1  c1 = c1
  Ids = {i1, i2}
  Ambient = {i2}
  Configs = {A, B}
  Empty = Empty
  Defaults = A
  Envs = {e1}  NoEnv = NoEnv
  Secrets = {s1}  NoSecret = NoSecret
  None = None
  Calls = {c1}
  MaxActs = 4
SPECIFICATION Spec
INVARIANTS ProfileOfConfig EnabledRestored OverrideKept
CHECK_DEADLOCK FALSE
