SPECIFICATION Spec
CONSTANTS
  a1 = a1
  a2 = a2
  Actor = {a1, a2}
  Free = Free
  Fault <- Faults
  Justification <- Justifications
  Cooldown <- Durations
  EmptyCooldown = 1
  EmptyThreshold = 0
  EmptyWindow = 0
  EmptyDisable = FALSE
  Edit <- Edits
  Cost <- Costs
  Limit <- Budgets
  MaxNow = 2
  MaxSpent = 1
  DbMayFail = TRUE
  MayCrash = TRUE
SYMMETRY Symmetry
INVARIANTS
  CoherentAtRest
PROPERTIES
  ImplementsLifecycle
