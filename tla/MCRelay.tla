------------------------------- MODULE MCRelay -------------------------------
(* One request walks a plan of three attempts over two providers, one of  *)
(* them with a plan that can run out, while any number of others report:   *)
(* what the others do to this one is what their answers do to the shared   *)
(* memories, between any two of its steps.                                 *)
EXTENDS Relay

CONSTANTS p1, p2, s1, c1, big, small, rule, none

Attempts(seq) == [i \in DOMAIN seq |->
  [provider |-> seq[i][1], model |-> seq[i][2], route |-> seq[i][3]]]

\* A rule asks p1 for the big model and steps down to p2's small one; below
\* it is the chain: p2 for the model the client named.
MCWide == Attempts(<< <<p1, big, rule>>, <<p2, small, rule>>, <<p2, big, none>> >>)

MCOneSlot == {s1}
MCTwoProviders == {p1, p2}
MCWidePlans == {MCWide}
MCUnusables == {{}, {p1}, MCTwoProviders}
MCConversations == {c1, none}

\* Respond and FailToConnect of requests that are not followed, one memory
\* at a time; what a plan reports is that it is spent, or not.
Others ==
  /\ \/ /\ \E p \in Provider, status \in {"ok", "retryable"} : reportProviderStatus(p, status)
        /\ UNCHANGED <<block, quota, sticky>>
     \/ /\ \E p \in Subscription : block' = [block EXCEPT ![p] = MaxReset]
        /\ UNCHANGED <<health, quota, sticky>>
     \/ /\ \E p \in Provider, c \in Conversation : RememberSticky(c, p)
        /\ UNCHANGED <<health, block, quota>>
  /\ UNCHANGED request

MCSpec == Init /\ [][Next \/ Others]_vars /\ \A r \in Slot : WF_vars(Step(r))
=============================================================================
