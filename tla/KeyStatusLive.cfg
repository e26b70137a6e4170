SPECIFICATION FairSpec
CONSTANTS
  a1 = a1
  a2 = a2
  Actor = {a1, a2}
  Free = Free
  Fault <- Transient
  Justification <- Justifications
  Cooldown <- OneDuration
  EmptyCooldown = 1
  EmptyThreshold = 2
  EmptyWindow = 1
  EmptyDisable = TRUE
  Edit <- NoEdits
  Cost <- Costs
  Limit <- CappedBudget
  MaxNow = 2
  MaxSpent = 1
  DbMayFail = FALSE
  MayCrash = FALSE
PROPERTIES
  CappedKeyTakenOut
  EditReachesSelector
  FailureLeavesRotation
