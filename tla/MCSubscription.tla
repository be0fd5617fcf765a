--------------------------- MODULE MCSubscription ---------------------------
(* Two requests of one sign-in, and another that may take its place. *)
EXTENDS Subscription, TLC

Symmetry == Permutations(Provider) \cup Permutations(Request) \cup Permutations(Login) \cup Permutations(Save)
=============================================================================
