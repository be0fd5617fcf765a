---------------------------- MODULE MCAgentPatch ----------------------------
(* Two requests of any kind, with an edit and a restart in between.  With  *)
(* one edit no exception is taken back once it is noted; when all three    *)
(* are, neither NoEditLost nor MonitoredOrGone can fail any more, so such  *)
(* a state is checked and not gone on from.                                *)
EXTENDS AgentPatch, TLC

CONSTANTS c1, c2
MCTwoCallers == {c1, c2}
MCSymmetry == Permutations(MCTwoCallers)
SomethingToSay == ~(exposed /\ troubled /\ cutOff)
=============================================================================
