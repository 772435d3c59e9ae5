\* One resume of the conversation, then a keeper that is killed in the middle of a removal.
SPECIFICATION Spec
CONSTANTS
  Sessions = {1, 2}
  Launchers = {k1}
  Keepers = {g1}
  Canonical = Canonical
  App = App
  Outsider = Outsider
  Nobody = Nobody
  None = None
  MaxMishaps = 1
INVARIANT ResumeWhole
CHECK_DEADLOCK FALSE
