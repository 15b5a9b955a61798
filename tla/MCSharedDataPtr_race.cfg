\* Two threads, three handles; the heap never runs out of addresses.
CONSTANTS
  Thread = {t1, t2}
  Handle = {h1, h2, h3}
  Object = {o1, o2, o3, o4, o5}
  Null = Null
  Value = {v1, v2}
  None = None
SPECIFICATION Spec
SYMMETRY MCSymmetry
INVARIANTS
  RefCounts
  NoDangling
  NoLeak
  WritesAlone
PROPERTY
  ImplementsValues
