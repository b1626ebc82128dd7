SPECIFICATION Spec
CONSTANTS
  t1 = t1
  t2 = t2
  NULL = NULL
  v1 = v1
  v2 = v2
  Thread = {t1, t2}
  Vector = {v1, v2}
INVARIANT
  PayloadIsOfVector
