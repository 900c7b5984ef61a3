CONSTANTS
  Threads = {t1, t2}
  Ids = {a, b, c}
  MaxTime = 1
SPECIFICATION Spec
SYMMETRY Symmetry
INVARIANTS
  TypeOK
  OneRoom
  QueueIndexed
  SearchFindsPlace
PROPERTIES
  ImplementsInterface
