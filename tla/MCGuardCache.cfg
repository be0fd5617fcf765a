CONSTANTS
  a1 = a1
  a2 = a2
  mcp = mcp
  mcpOther = mcpOther
  server = server
  serverTool = serverTool
  tool = tool
  secrets = secrets
  network = network
  Groups <- MCGroups
  Item = {mcpOther, server, serverTool}
  GroupOf <- MCGroupOf
  Other <- MCOther
  Catalog = {mcpOther}
  Tool = {tool}
  ItemOf <- MCItemOf
  OwnItemOf <- MCOwnItemOf
  NoItem = noItem
  Named <- MCNamed
  Agent = {a1, a2}
  Card <- MCCards
  Pack = {secrets, network}
  Argument <- MCArguments
  Setting <- MCSettings
  Caller = {c1}
  Saver = {w1}
  SharedIds <- MCSharedIds
  NoGuard = noGuard
SPECIFICATION Spec
INVARIANTS TypeOK VerdictBySaved
