---------------------------- MODULE MCModelRoutes ----------------------------
(* Up to three rules of a few patterns that cover each other's models, with *)
(* every numbering, agent and switch.  The matching of patterns, which is   *)
(* a function of a pattern and a name alone, is compared with what the      *)
(* wildcard means beforehand, on every pattern and name of four letters.    *)
EXTENDS ModelRoutes

CONSTANTS a, b, ag

Words(letters, n) == UNION {[1 .. k -> letters] : k \in 1 .. n}

\* Taking each piece where it first occurs never misses a match, and never
\* takes a letter twice.
ASSUME GreedyMatching ==
  \A pattern \in Words({a, b, Star}, 4), name \in Words({a, b}, 4) :
    MatchModelPattern(pattern, name) <=> Stands(pattern, name)

MCPatterns == {<<>>, <<a>>, <<a, Star>>, <<Star, b>>, <<a, b>>}
MCModels == {<<a>>, <<a, b>>}
=============================================================================
