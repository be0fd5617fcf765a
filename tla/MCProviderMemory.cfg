CONSTANTS
  p1 = p1
  Subscription <- MCSubscription
  WindowName <- MCWindowName
  MaxReset = 3
  FailureThreshold = 2
  Cooldown = 3
  MaxCooldown = 9
  DurationBits = 6
  FailureCap = 9
SPECIFICATION MemorySpec
INVARIANTS MemoryTypeOK SuspensionEarned RefusalStands
PROPERTIES CooldownNeverShrinks
