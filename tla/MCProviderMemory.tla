-------------------------- MODULE MCProviderMemory --------------------------
(* One provider with both windows of its plan: nothing in the memories is  *)
(* shared between providers, so a second one adds no behaviour.  A         *)
(* Duration of six bits makes the shift wrap after four doublings, where   *)
(* an int64 of nanoseconds wraps after thirty; the counter runs past the   *)
(* point where every bit has been shifted out.                             *)
EXTENDS ProviderMemory

CONSTANTS p1

MCSubscription == {p1}
MCWindowName == {"5h", "week"}
=============================================================================
