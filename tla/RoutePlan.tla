------------------------------ MODULE RoutePlan ------------------------------
(***************************************************************************)
(* How one request's list of attempts is planned: forwardByModel and       *)
(* forwardByAgent of controllers/proxy.go over PlanModelRoute,             *)
(* PlanAgentRoute and FilterAttempts.  The ladder of the rule that covers  *)
(* the request comes first, what the gateway would do without a rule below *)
(* it, and what the agent is not permitted is then left out.               *)
(*                                                                         *)
(* The providers are read from the database once per question asked of     *)
(* them, and the operator edits them meanwhile, so a plan may mix what was *)
(* read before an edit with what was read after it.                        *)
(***************************************************************************)
EXTENDS Integers, Sequences, AttemptOrder

CONSTANTS
  Provider, NoProvider,  \* provider ids, and a rung that names none
  Record,                \* what the operator may make of a provider
  Ranking,               \* the providers by their priority
  Model, NoModel,        \* model names, and a rung that keeps the client's
  Spelling,              \* a model's name with its case ignored
  Tier,                  \* the size class a model's name reads as
  Agent, NoAgent,        \* agents, and a request that names only a model
  Chain,                 \* each agent's bound provider and its fallbacks
  Rule, NoRule, NoRoute, \* routing rules, none, and its name
  Guard, Unrestricted,   \* agents' permissions, and those of one without any
  MaxAttempts            \* maxRouteAttempts

Tiers == {"small", "standard", "large"}
Auths == {"key", "client", "subscription"}

ASSUME PlanAssumption ==
  /\ Record \subseteq [status : {"enabled", "disabled", "deleted"}, models : Seq(Model), auth : Auths]
  /\ Ranking \in Seq(Provider)
  /\ Tier \in [Model -> Tiers] /\ DOMAIN Spelling = Model
  /\ \A m, n \in Model : Spelling[m] = Spelling[n] => Tier[m] = Tier[n]
  /\ Chain \in [Agent -> Seq(Provider)] /\ NoAgent \notin Agent
  /\ \A rule \in Rule :
       /\ rule.name # NoRoute
       /\ rule.targets \in Seq([provider : Provider \cup {NoProvider},
                                model : Model \cup {NoModel}])
  /\ NoRule \notin Rule /\ NoProvider \notin Provider /\ NoModel \notin Model
  /\ \A guard \in Guard : guard.providers \subseteq Provider /\ guard.models \subseteq Model
  /\ Unrestricted \notin Guard
  /\ MaxAttempts \in Nat \ {0}

VARIABLES
  providers,   \* the table: what is stored of each provider
  pc,
  agent, model, guard, rule,   \* of the request being planned
  pool,        \* the providers read for it
  step,        \* entries of the chain, or rungs of the ladder, read so far
  todo,        \* attempts about to be added, or about to be judged
  attempts     \* the plan so far

request == <<agent, model, guard, rule>>
vars == <<providers, pc, request, pool, step, todo, attempts>>

RouteNames == {rule0.name : rule0 \in Rule} \cup {NoRoute}
Attempt == [provider : Provider, model : Model, route : RouteNames]
Read == [id : Provider, models : Seq(Model), auth : Auths]

Stages == {"idle", "chain", "match", "pool", "ladder", "default", "appending",
           "judging", "planned", "refused"}

Init ==
  /\ providers \in [Provider -> Record]
  /\ pc = "idle"
  /\ agent = NoAgent /\ model = NoModel /\ guard = Unrestricted /\ rule = NoRule
  /\ pool = <<>> /\ step = 0 /\ todo = <<>> /\ attempts = <<>>

-----------------------------------------------------------------------------
(* What is read of a provider, and what it is asked for.                   *)

Enabled(p) == providers[p].status = "enabled"

ReadOf(p) == [id |-> p, models |-> providers[p].models, auth |-> providers[p].auth]

EnabledReads ==
  LET listed == SelectSeq(Ranking, Enabled)
  IN  [i \in 1 .. Len(listed) |-> ReadOf(listed[i])]

Names(read, wanted) == \E i \in DOMAIN read.models : read.models[i] = wanted

ServesAnyModel(read) == read.models = <<>> /\ read.auth \in {"client", "subscription"}

\* A rung that names no provider is for those that name its model, and for
\* those that leave the question to the caller's own account.
ProviderServes(read, wanted) ==
  IF read.models = <<>> THEN read.auth = "client"
  ELSE \E i \in DOMAIN read.models : Spelling[read.models[i]] = Spelling[wanted]

tierPreference ==
  [tier \in Tiers |->
    IF tier = "small" THEN <<"small", "standard", "large">>
    ELSE IF tier = "standard" THEN <<"standard", "large", "small">>
    ELSE <<"large", "standard", "small">>]

\* The smallest of a set of positions.
Least(positions) == CHOOSE i \in positions : \A j \in positions : i <= j

\* The name itself, the same name spelled otherwise, or the first model of the
\* nearest size class.
PickProviderModel(models, requested) ==
  LET same == {i \in DOMAIN models : models[i] = requested}
      spelled == {i \in DOMAIN models : Spelling[models[i]] = Spelling[requested]}
      sized(t) == {i \in DOMAIN models : Tier[models[i]] = tierPreference[Tier[requested]][t]}
  IN  IF models = <<>> \/ same # {} THEN requested
      ELSE IF spelled # {} THEN models[Least(spelled)]
      ELSE models[Least(sized(Least({t \in 1 .. 3 : sized(t) # {}})))]

AttemptOf(read, wanted, route) ==
  [provider |-> read.id, model |-> PickProviderModel(read.models, wanted), route |-> route]

AttemptsOf(reads, wanted, route) ==
  [i \in 1 .. Len(reads) |-> AttemptOf(reads[i], wanted, route)]

\* Those that name the model, then those that name none on purpose; when there
\* are none of either, every provider in rotation.
GetProvidersByModel(wanted) ==
  LET named == SelectSeq(EnabledReads, LAMBDA read : Names(read, wanted))
      open == SelectSeq(EnabledReads, ServesAnyModel)
  IN  IF named \o open = <<>> THEN EnabledReads ELSE named \o open

-----------------------------------------------------------------------------

Goto(stage) == pc' = stage
Keep == UNCHANGED <<providers, request>>

\* What an agent is not permitted to ask for is refused before it is planned.
Ask(a, m) ==
  /\ pc \in {"idle", "planned", "refused"}
  /\ agent' = a /\ model' = m /\ rule' = NoRule
  /\ \/ a = NoAgent /\ guard' = Unrestricted /\ Goto("match")
     \/ a # NoAgent /\ guard' = Unrestricted /\ Goto("chain")
     \/ a # NoAgent /\ \E g \in Guard :
          guard' = g /\ Goto(IF m \in g.models THEN "chain" ELSE "refused")
  /\ pool' = <<>> /\ step' = 0 /\ todo' = <<>> /\ attempts' = <<>>
  /\ UNCHANGED providers

\* GetProvidersByAgent: one entry is read, and skipped when it is gone, off or
\* could not be read.
ReadChain ==
  /\ pc = "chain" /\ step < Len(Chain[agent])
  /\ step' = step + 1
  /\ LET p == Chain[agent][step + 1] IN
       \/ Enabled(p) /\ pool' = Append(pool, ReadOf(p))
       \/ UNCHANGED pool
  /\ Keep /\ UNCHANGED <<pc, todo, attempts>>

\* OrderPool: the strategy puts the chain in an order of its own.
OrderChain ==
  /\ pc = "chain" /\ step = Len(Chain[agent])
  /\ IF pool = <<>> THEN Goto("refused") /\ UNCHANGED pool
     ELSE /\ Goto("match")
          /\ \E place \in [DOMAIN pool -> DOMAIN pool] :
               /\ \A i, j \in DOMAIN pool : place[i] = place[j] => i = j
               /\ pool' = [i \in DOMAIN pool |-> pool[place[i]]]
  /\ step' = 0
  /\ Keep /\ UNCHANGED <<todo, attempts>>

\* MatchModelRoute: which rule covers a request is ModelRoutes' to say.
MatchRule ==
  /\ pc = "match"
  /\ rule' \in Rule \cup {NoRule}
  /\ Goto(IF rule' = NoRule THEN "default" ELSE IF agent = NoAgent THEN "pool" ELSE "ladder")
  /\ UNCHANGED <<providers, agent, model, guard, pool, step, todo, attempts>>

ListPool ==
  /\ pc = "pool"
  /\ pool' = EnabledReads
  /\ Goto("ladder")
  /\ Keep /\ UNCHANGED <<step, todo, attempts>>

\* A query fails where nothing can be planned without its answer.
QueryFails ==
  /\ \/ pc \in {"match", "pool"}
     \/ pc = "chain" /\ step = 0
  /\ Goto("refused")
  /\ Keep /\ UNCHANGED <<pool, step, todo, attempts>>

\* One rung: the provider it names, as it is now, or those of the pool that
\* serve its model.
Rung ==
  /\ pc = "ladder" /\ todo = <<>> /\ step < Len(rule.targets)
  /\ step' = step + 1
  /\ LET target == rule.targets[step + 1]
         wanted == IF target.model = NoModel THEN model ELSE target.model
     IN \/ /\ target.provider \in Provider /\ Enabled(target.provider)
           /\ todo' = AttemptsOf(<<ReadOf(target.provider)>>, wanted, rule.name)
        \/ target.provider \in Provider /\ UNCHANGED todo
        \/ /\ target.provider = NoProvider
           /\ todo' = AttemptsOf(SelectSeq(pool, LAMBDA read : ProviderServes(read, wanted)),
                                 wanted, rule.name)
  /\ Keep /\ UNCHANGED <<pc, pool, attempts>>

\* Fault: the cap is all that keeps an attempt out.
NewWhileRoom(attempt) == Len(attempts) < MaxAttempts

IsNew(attempt) ==
  /\ \A i \in DOMAIN attempts :
       attempts[i].provider # attempt.provider \/ attempts[i].model # attempt.model
  /\ Len(attempts) < MaxAttempts

\* appendAttempts, one attempt of the list it is given.
AddAttempt ==
  /\ pc \in {"ladder", "appending"} /\ todo # <<>>
  /\ todo' = Tail(todo)
  /\ attempts' = IF IsNew(Head(todo)) THEN Append(attempts, Head(todo)) ELSE attempts
  /\ Keep /\ UNCHANGED <<pc, pool, step>>

EndLadder ==
  /\ pc = "ladder" /\ todo = <<>> /\ step = Len(rule.targets)
  /\ Goto("default")
  /\ Keep /\ UNCHANGED <<pool, step, todo, attempts>>

\* Fault: a rule's ladder is all there is.
AppendNothing ==
  /\ pc = "default" /\ todo' = <<>> /\ Goto("appending")
  /\ Keep /\ UNCHANGED <<pool, step, attempts>>

\* What would be tried without a rule is put below it.
AppendDefault ==
  /\ pc = "default"
  /\ IF agent # NoAgent THEN UNCHANGED pool
     ELSE EnabledReads # <<>> /\ pool' = GetProvidersByModel(model)
  /\ todo' = AttemptsOf(pool', model, NoRoute)
  /\ Goto("appending")
  /\ Keep /\ UNCHANGED <<step, attempts>>

\* No provider is in rotation, or they cannot be read: the ladder has to do.
NoDefault ==
  /\ pc = "default" /\ agent = NoAgent
  /\ pool' = <<>>
  /\ Goto(IF attempts = <<>> THEN "refused" ELSE "planned")
  /\ Keep /\ UNCHANGED <<step, todo, attempts>>

\* The plan is whole; an agent with permissions has it judged.
EndPlan ==
  /\ pc = "appending" /\ todo = <<>>
  /\ IF guard = Unrestricted THEN Goto("planned") /\ UNCHANGED <<todo, attempts>>
     ELSE Goto("judging") /\ todo' = attempts /\ attempts' = <<>>
  /\ Keep /\ UNCHANGED <<pool, step>>

\* Fault: an attempt is judged by its provider alone.
AllowedProvider(attempt) == attempt.provider \in guard.providers

Allowed(attempt) ==
  attempt.provider \in guard.providers /\ attempt.model \in guard.models

\* FilterAttempts, one attempt.
JudgeAttempt ==
  /\ pc = "judging" /\ todo # <<>>
  /\ todo' = Tail(todo)
  /\ attempts' = IF Allowed(Head(todo)) THEN Append(attempts, Head(todo)) ELSE attempts
  /\ Keep /\ UNCHANGED <<pc, pool, step>>

EndJudging ==
  /\ pc = "judging" /\ todo = <<>>
  /\ Goto(IF attempts = <<>> THEN "refused" ELSE "planned")
  /\ Keep /\ UNCHANGED <<pool, step, todo, attempts>>

\* The operator edits, disables or deletes a provider.
UpdateProvider(p, record) ==
  /\ providers' = [providers EXCEPT ![p] = record]
  /\ UNCHANGED <<pc, request, pool, step, todo, attempts>>

Next ==
  \/ \E a \in Agent \cup {NoAgent}, m \in Model : Ask(a, m)
  \/ ReadChain \/ OrderChain \/ MatchRule \/ ListPool \/ QueryFails
  \/ Rung \/ AddAttempt \/ EndLadder \/ AppendDefault \/ NoDefault
  \/ EndPlan \/ JudgeAttempt \/ EndJudging
  \/ \E p \in Provider, record \in Record : UpdateProvider(p, record)

Spec == Init /\ [][Next]_vars

-----------------------------------------------------------------------------

(* What the relay takes for granted of every plan, whatever was edited     *)
(* while it was made: no provider is asked for one model twice, what a     *)
(* rule asks for comes before what would be tried without one, and one     *)
(* request never makes more attempts than maxRouteAttempts.                *)
PlanOrderly ==
  pc = "planned" =>
    /\ NoRepeat(attempts) /\ RulesFirst(attempts, NoRoute)
    /\ Len(attempts) <= MaxAttempts

(* "A routing rule that steps down to another model, or across to another  *)
(* provider, must not be a way around what the agent is allowed to ask     *)
(* for" (FilterAttempts).                                                  *)
RulesAreNoWayAround ==
  pc = "planned" /\ guard # Unrestricted =>
    \A i \in DOMAIN attempts :
      attempts[i].provider \in guard.providers /\ attempts[i].model \in guard.models

(* "What the gateway would have done without any rule is appended below    *)
(* it, so a rule whose providers are all gone leaves the request working   *)
(* rather than dead" (PlanModelRoute): until the plan is full, every       *)
(* provider that would be tried without the rule is in it.                 *)
WorksWithoutRule ==
  pc = "planned" /\ guard = Unrestricted /\ Len(attempts) < MaxAttempts =>
    \A i \in DOMAIN pool : \E j \in DOMAIN attempts : attempts[j].provider = pool[i].id
=============================================================================
