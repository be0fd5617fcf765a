----------------------------- MODULE MCImRouter -----------------------------
(* One chat, whoever closes its sessions and a page, over two sessions. *)
EXTENDS ImRouter, TLC
Symmetric == Permutations(Exchange) \cup Permutations(Session)
=============================================================================
