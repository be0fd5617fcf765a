CONSTANTS
  c1 = c1
  c2 = c2
  Caller <- MCTwoCallers
  MaxEdits = 1
  MaxTokens = 2
  MaxRestarts = 1
  Moves = {1}
  None = None
  Torn = Torn
SYMMETRY MCSymmetry
CONSTRAINT SomethingToSay
SPECIFICATION PatchSpec
INVARIANTS PatchTypeOK NoEditLost MonitoredOrGone
