SPECIFICATION Spec
CONSTANTS
  e1 = e1
  e2 = e2
  k1 = k1
  Elems = {e1, e2}
  KeyOf <- OneKey
  Tables = {t1, t2, t3}
  NoTable = NoTable
  Readers = {r1}
  MaxTrans = 3
INVARIANTS NothingFreedInUse FreedOnce CloneIsPristine
PROPERTY ImplementsTxSet
SYMMETRY Symm
