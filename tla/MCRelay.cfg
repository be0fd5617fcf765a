CONSTANTS
  p1 = p1
  p2 = p2
  s1 = s1
  c1 = c1
  big = big
  small = small
  rule = rule
  none = none
  Cooldown = 1
  MaxCooldown = 1
  DurationBits = 8
  WindowName = {"5h"}
  MaxReset = 1
  NoConversation = none
  StickyIdle = 1
  Model = {big, small}
  Route = {rule, none}
  NoRoute = none
  Provider <- MCTwoProviders
  FailureThreshold = 1
  FailureCap = 1
  Subscription = {p1}
  Slot <- MCOneSlot
  Conversation <- MCConversations
  Plans <- MCWidePlans
  Unusables <- MCUnusables
SPECIFICATION MCSpec
INVARIANTS TypeOK RuleNotSteppedOver HeldTriedLast
PROPERTIES PromiseKept RequestsEnd
