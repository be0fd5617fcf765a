----------------------------- MODULE MCRoutePlan -----------------------------
(* Planning on two providers, edited between naming models, being signed    *)
(* in for the caller or for the gateway with none named, and being off.    *)
(* A rule asks a named provider, then anybody for a lesser model.          *)
EXTENDS RoutePlan

CONSTANTS p1, p2, big, Big, mid, small, ag, rule1, rule2, none

MCModels == {big, Big, mid, small}
MCSpelling == [m \in MCModels |-> IF m = Big THEN big ELSE m]
MCTier == [m \in MCModels |-> IF m = small THEN "small" ELSE IF m = mid THEN "standard" ELSE "large"]
MCRanking == <<p2, p1>>
MCChain == [a \in {ag} |-> <<p1, p2>>]

Rec(status, models, auth) == [status |-> status, models |-> models, auth |-> auth]

MCRecords == { Rec("enabled", <<small, big>>, "key"), Rec("enabled", <<Big>>, "key"),
               Rec("enabled", <<small, mid>>, "key"),
               Rec("enabled", <<>>, "client"), Rec("enabled", <<>>, "subscription"),
               Rec("disabled", <<>>, "key") }

Target(p, m) == [provider |-> p, model |-> m]

MCRules == { [name |-> rule1, targets |-> << Target(p1, NoModel), Target(NoProvider, small) >>],
             [name |-> rule2, targets |-> << Target(NoProvider, NoModel), Target(p2, big) >>] }

MCGuards == { [providers |-> {p1, p2}, models |-> {big}],
              [providers |-> {p2}, models |-> MCModels] }
=============================================================================
