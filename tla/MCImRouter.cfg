SPECIFICATION Spec
CONSTANTS
  Session = {s1, s2}
  Exchange = {x1, x2}
  Watcher = {chat}
  Closer = {c}
  FeedBuffer = 2
  None = None
SYMMETRY Symmetric
INVARIANTS TypeOK RunningIffOneTurn NoClosedFeedUsed NoChatStranded
