SPECIFICATION CreationSpec
CONSTANTS
  Creations = {c1}
  Reconcilers = {k1}
  Creator = Creator
  Runtime = Runtime
  Nobody = Nobody
  MaxDeaths = 1
SYMMETRY Symmetric
INVARIANTS LostResponseResolved
CHECK_DEADLOCK FALSE
