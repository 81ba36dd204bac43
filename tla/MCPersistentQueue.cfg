SPECIFICATION Spec
CONSTANTS
  Producer = {measure_task}
  Consumer = sync_task
  Item = {m1, m2}
  NoItem = NoItem
  Capacity = 3
  Buffered = 2
SYMMETRY Symmetry
INVARIANTS HeldIsHead MirrorAtRest
PROPERTIES RefinesDurableQueue
