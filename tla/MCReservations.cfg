SPECIFICATION AllocationSpec
CONSTANTS
  p1 = p1
  p2 = p2
  p3 = p3
  ProviderId = {p1, p2, p3}
  MaxBudget = 10
CHECK_DEADLOCK FALSE
INVARIANTS
  PlanWithinBudget
