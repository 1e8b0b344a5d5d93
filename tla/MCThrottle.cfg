SPECIFICATION ThrottleSpec
CONSTANTS
  Second = 2
  Kilobyte = 2
  Limits = {0, 1, 2}
  LimitedWrites = {1, 5}
  Allowance = 2
  MaxPause = 4
  StepsBack = {1, 3}
  MaxSteps = 1
  MaxBehind = 0
  MaxDebt = 500
INVARIANTS BucketsFit LimitKept
