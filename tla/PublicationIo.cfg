SPECIFICATION PubSpec
CONSTANTS
  None = None
  own = own twin = twin rival = rival trial = trial original = original changed = changed
  Jobs = {own, twin, rival, trial}
  Contents = {original, changed}
  ContentOf <- MCContentOf
  DryRuns = {trial}
  Officials = {own, trial}
  Altered = Altered
INVARIANT InvalidWroteNothing
CHECK_DEADLOCK FALSE
