---------------------------- MODULE MCGuardCache ----------------------------
(* One call and one save at a time, over two agents of one configuration   *)
(* that a hook speaks for together: every hazard needs one of each, and a  *)
(* second agent for the strictest rule and for the half of a save that is  *)
(* left when it fails.  The tool is one of an MCP server: it has a switch  *)
(* of its own, the server has one, and the group has its catch-all.        *)
EXTENDS GuardCache

CONSTANTS a1, a2, mcp, mcpOther, server, serverTool, tool, secrets, network

WithTools(tools) == [DefaultCard EXCEPT !.tools = tools]

\* One tool of a server that is on is taken away.
ToolTaken == [DefaultCard EXCEPT !.tools = [item \in {server, serverTool} |-> item = server]]

MCCards == {DefaultCard, ToolTaken}

On(card, packs) == [enabled |-> TRUE, card |-> card, packs |-> packs]
MCSettings ==
  [a \in {a1, a2} |-> IF a = a1 THEN {Default, On(ToolTaken, {network})}
                      ELSE {On(DefaultCard, {network})}]
MCArguments == { {secrets} }
MCSharedIds == { <<a1, a2>> }

MCGroups == <<mcp>>
MCGroupOf == [item \in {mcpOther, server, serverTool} |-> mcp]
MCOther == [g \in {mcp} |-> mcpOther]
MCItemOf == [t \in {tool} |-> server]
MCOwnItemOf == [t \in {tool} |-> serverTool]
MCNamed == [kind \in {"model", "provider"} |-> {}]
=============================================================================
