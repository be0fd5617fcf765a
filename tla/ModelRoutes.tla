----------------------------- MODULE ModelRoutes -----------------------------
(***************************************************************************)
(* The table of routing rules of object/model_route.go and the one rule a  *)
(* request is routed by: how a pattern covers a model name, how the rules  *)
(* that could all match are ordered, and which of them is taken.  Names of *)
(* models are sequences of letters whose case is already ignored.          *)
(***************************************************************************)
EXTENDS Integers, Sequences, FiniteSetsExt

CONSTANTS
  Name,               \* names of rules, numbered as they sort
  Caller, AnyCaller,  \* agents, and the agent field of a rule for every caller
  Letter, Star,       \* what names and patterns are written with, and the wildcard
  Pattern,            \* the patterns rules are written with
  ModelName,          \* the models clients ask for
  Rank,               \* the operator's own numbering
  MaxMatch            \* maxRouteMatchChars

ASSUME RouteAssumption ==
  /\ Name \subseteq Nat /\ Rank \subseteq Int /\ MaxMatch \in Nat
  /\ AnyCaller \notin Caller
  /\ Star \in Letter /\ Pattern \cup ModelName \subseteq Seq(Letter)

VARIABLES
  routes,   \* the rules by name
  asked     \* the last request, and the rule it was routed by

routeVars == <<routes, asked>>

\* What the operator may fill in.
Form == [match : Pattern, agent : Caller \cup {AnyCaller}, sort : Rank, enabled : BOOLEAN]

StoredRule == {form \in Form : Len(form.match) \in 1 .. MaxMatch}

Nobody == [agent |-> AnyCaller, model |-> <<>>, by |-> {}]

RoutesInit == routes = <<>> /\ asked = Nobody

-----------------------------------------------------------------------------
(* Patterns.                                                               *)

Stars(pattern) == {i \in DOMAIN pattern : pattern[i] = Star}

IsWildcard(pattern) == Stars(pattern) # {}

\* The pattern's letters behind one place and up to another are the name's next
\* ones after the first so many.
Occurs(pattern, from, to, name, at) ==
  /\ at + (to - from) <= Len(name)
  /\ \A k \in 1 .. to - from : pattern[from + k] = name[at + k]

\* How much of the name is used up when the pattern comes to its star s: a prefix
\* at the first, and at the next each piece is taken where it first occurs.
TakesPiece(used, s, pattern, name) ==
  LET before == {r \in DOMAIN used : r < s}
      found == {at \in used[Max(before)] .. Len(name) :
                  Occurs(pattern, Max(before), s - 1, name, at)}
  IN  IF before = {} THEN Occurs(pattern, 0, s - 1, name, 0) /\ used[s] = s - 1
      ELSE found # {} /\ used[s] = Min(found) + (s - 1 - Max(before))

\* The last piece has to end the name, in what the others leave of it.
EndsWithLast(used, pattern, name) ==
  LET last == Max(Stars(pattern))
      begin == Len(name) - (Len(pattern) - last)
  IN  begin >= used[last] /\ Occurs(pattern, last, Len(pattern), name, begin)

MatchModelPattern(pattern, name) ==
  IF ~IsWildcard(pattern) THEN pattern = name
  ELSE \E used \in [Stars(pattern) -> 0 .. Len(name)] :
         /\ \A s \in DOMAIN used : TakesPiece(used, s, pattern, name)
         /\ EndsWithLast(used, pattern, name)

\* Fault: a wildcard counts for its letters.
SpecificityOfLetters(pattern) == Len(pattern) - Cardinality(Stars(pattern))

patternSpecificity(pattern) ==
  IF IsWildcard(pattern) THEN Len(pattern) - Cardinality(Stars(pattern)) - MaxMatch
                         ELSE Len(pattern)

-----------------------------------------------------------------------------
(* The table.                                                              *)

\* The order the rules are tried in.
Before(m, n) ==
  LET left == routes[m]
      right == routes[n]
      leftScore == patternSpecificity(left.match)
      rightScore == patternSpecificity(right.match)
  IN  IF left.sort # right.sort THEN left.sort < right.sort
      ELSE IF leftScore # rightScore THEN leftScore > rightScore
      ELSE IF (left.agent # AnyCaller) # (right.agent # AnyCaller) THEN left.agent # AnyCaller
      ELSE m < n

\* A rule that is on, and for this caller.
Applies(n, agent) == routes[n].enabled /\ routes[n].agent \in {AnyCaller, agent}

\* Fault: the search ends at the first rule, whether it covers the model or not.
MatchFirstOnly(agent, model) ==
  LET applying == {n \in DOMAIN routes : Applies(n, agent)}
  IN  {n \in applying : /\ \A m \in applying \ {n} : Before(n, m)
                        /\ MatchModelPattern(routes[n].match, model)}

\* The first of the rules in their order that covers the model.
MatchModelRoute(agent, model) ==
  LET covering == {n \in DOMAIN routes :
                     Applies(n, agent) /\ MatchModelPattern(routes[n].match, model)}
  IN  {n \in covering : \A m \in covering \ {n} : Before(n, m)}

\* A rule whose pattern is empty or too long is refused.
normalizeModelRoute(rule) == Len(rule.match) \in 1 .. MaxMatch

AddModelRoute(n, rule) ==
  /\ normalizeModelRoute(rule) /\ n \notin DOMAIN routes
  /\ routes' = [m \in DOMAIN routes \cup {n} |-> IF m = n THEN rule ELSE routes[m]]
  /\ asked' = Nobody

UpdateModelRoute(n, rule) ==
  /\ normalizeModelRoute(rule) /\ n \in DOMAIN routes
  /\ routes' = [routes EXCEPT ![n] = rule]
  /\ asked' = Nobody

DeleteModelRoute(n) ==
  /\ n \in DOMAIN routes
  /\ routes' = [m \in DOMAIN routes \ {n} |-> routes[m]]
  /\ asked' = Nobody

AskRoute(agent, model) ==
  /\ asked' = [agent |-> agent, model |-> model, by |-> MatchModelRoute(agent, model)]
  /\ UNCHANGED routes

RoutesNext ==
  \/ \E n \in Name : DeleteModelRoute(n)
  \/ \E n \in Name, rule \in Form : AddModelRoute(n, rule) \/ UpdateModelRoute(n, rule)
  \/ \E agent \in Caller \cup {AnyCaller}, model \in ModelName : AskRoute(agent, model)

RoutesSpec == RoutesInit /\ [][RoutesNext]_routeVars

-----------------------------------------------------------------------------

\* The name can be read along the pattern, read[i] letters of it by the first i.
ReadAlong(read, pattern, name) ==
  /\ read[0] = 0 /\ read[Len(pattern)] = Len(name)
  /\ \A i \in 1 .. Len(pattern) :
       IF pattern[i] = Star THEN read[i - 1] <= read[i]
       ELSE read[i] = read[i - 1] + 1 /\ pattern[i] = name[read[i]]

\* The models a pattern stands for, a wildcard for any run of letters.
Stands(pattern, name) ==
  \E read \in [0 .. Len(pattern) -> 0 .. Len(name)] : ReadAlong(read, pattern, name)

Candidates == {n \in DOMAIN routes :
                 Applies(n, asked.agent) /\ Stands(routes[n].match, asked.model)}

(* A request is routed by a rule exactly when one that is on and for its   *)
(* caller stands for its model, "*" being any run of characters, whatever  *)
(* rules that do not are ordered before it, and by one (MatchModelRoute).  *)
RoutedWhenCovered ==
  asked # Nobody => /\ asked.by \subseteq Candidates /\ Cardinality(asked.by) <= 1
                    /\ Candidates # {} => asked.by # {}

(* "An exact model name beats a wildcard without anyone having to number   *)
(* the rules" (ModelRoute.Sort), whatever the two patterns' lengths.       *)
ExactBeatsWildcard ==
  \A n \in asked.by, m \in Candidates :
    IsWildcard(routes[n].match) /\ ~IsWildcard(routes[m].match)
      => routes[m].sort > routes[n].sort
=============================================================================
