------------------------------- MODULE Relay -------------------------------
(***************************************************************************)
(* The relay of controllers/proxy.go: concurrent client requests, each a   *)
(* goroutine that walks its plan of attempts over what the process knows   *)
(* of the providers - the breaker (ProviderHealth), the plans' allowances  *)
(* (ProviderLimit) and which provider answered a conversation last.  The   *)
(* three memories are read and written under locks of their own, so a      *)
(* request decides on what may have changed by the time it acts.           *)
(*                                                                         *)
(* A slot is one client connection: its request ends and another begins.   *)
(***************************************************************************)
EXTENDS Integers, Sequences, Functions, AttemptOrder

CONSTANTS
  Provider, FailureThreshold, Cooldown, MaxCooldown, DurationBits, FailureCap,
  Subscription,    \* the providers with a plan behind them
  WindowName, MaxReset,
  Slot,            \* concurrent requests
  Conversation,    \* conversation keys
  NoConversation,  \* the key of a request whose conversation cannot be told
  StickyIdle,      \* how long a conversation keeps its provider, in ticks
  Model,
  Route, NoRoute,  \* the routing rules, and the name of an attempt no rule made
  Plans,           \* the plans PlanModelRoute and PlanAgentRoute produce
  Unusables        \* the sets of providers a request may be unable to use

VARIABLES
  health,                 \* ProviderHealth
  block, quota,           \* ProviderLimit
  sticky,                 \* stickies.byKey
  pc, gone,               \* where a request is, and whether its client hung up
  conversation,           \* route.conversation
  plan, unusable,         \* the attempts given, the providers to drop
  weighed,                \* how many of them SortAttemptsByHealth has read
  ready, held,            \* its two lists
  order, at,              \* the attempts in the order tried, the one under way
  answer                  \* what the client was handed

Breaker == INSTANCE ProviderHealth
Limits == INSTANCE ProviderLimit

memory == <<health, block, quota, sticky>>
request == <<pc, gone, conversation, plan, unusable, weighed, ready, held, order, at, answer>>
vars == <<memory, request>>

Attempt == [provider : Provider, model : Model, route : Route]

\* What RoutePlan shows of every plan it makes.
ASSUME RelayAssumption ==
  /\ Plans \subseteq Seq(Attempt)
  /\ \A attempts \in Plans : NoRepeat(attempts)
  /\ \A attempts \in Plans : RulesFirst(attempts, NoRoute)
  /\ Unusables \subseteq SUBSET Provider
  /\ Subscription \subseteq Provider
  /\ StickyIdle \in Nat \ {0}

\* What the two memories assume of their constants.
ASSUME MemoryAssumption ==
  /\ FailureThreshold \in Nat \ {0}
  /\ Cooldown \in Nat \ {0}
  /\ MaxCooldown \in Nat /\ Cooldown <= MaxCooldown
  /\ FailureCap \in Nat /\ FailureThreshold <= FailureCap
  /\ MaxReset \in Nat \ {0}
  /\ Provider # {}

Forgotten == [provider |-> CHOOSE p \in Provider : TRUE, left |-> 0]

Statuses == {"ok", "refused", "retryable", "limited"}
Answers == Statuses \cup {"none", "own", "unusable", "synthesized"}
Stages == {"idle", "weighing", "walking", "trying", "skipping", "relaying", "done"}

Busy(r) == pc[r] \notin {"idle", "done"}

TypeOK ==
  /\ Breaker!TypeOK
  /\ Limits!TypeOK
  /\ sticky \in [Conversation -> [provider : Provider, left : 0 .. StickyIdle]]
  /\ pc \in [Slot -> Stages]
  /\ gone \in [Slot -> BOOLEAN]
  /\ conversation \in [Slot -> Conversation \cup {NoConversation}]
  /\ plan \in [Slot -> Seq(Attempt)]
  /\ unusable \in [Slot -> SUBSET Provider]
  /\ weighed \in [Slot -> Nat] /\ \A r \in Slot : weighed[r] <= Len(plan[r])
  /\ ready \in [Slot -> Seq(Attempt)]
  /\ held \in [Slot -> Seq(Attempt)]
  /\ order \in [Slot -> Seq(Attempt)]
  /\ at \in [Slot -> Nat] /\ \A r \in Slot : at[r] <= Len(order[r]) + 1
  /\ answer \in [Slot -> Answers]

Init ==
  /\ Breaker!Init
  /\ Limits!LimitInit
  /\ sticky = [c \in Conversation |-> Forgotten]
  /\ pc = [r \in Slot |-> "idle"]
  /\ gone = [r \in Slot |-> FALSE]
  /\ conversation = [r \in Slot |-> NoConversation]
  /\ plan = [r \in Slot |-> <<>>]
  /\ unusable = [r \in Slot |-> {}]
  /\ weighed = [r \in Slot |-> 0]
  /\ ready = [r \in Slot |-> <<>>]
  /\ held = [r \in Slot |-> <<>>]
  /\ order = [r \in Slot |-> <<>>]
  /\ at = [r \in Slot |-> 0]
  /\ answer = [r \in Slot |-> "none"]

-----------------------------------------------------------------------------
(* What a request reads of the providers.                                  *)

\* A provider in cooldown, or whose plan is spent, is tried last.
HeldBack(p) ==
  \/ Breaker!Suspended(p)
  \/ p \in Subscription /\ Limits!IsSubscriptionSpent(p)

Remembered(c) == c # NoConversation /\ sticky[c].left > 0

-----------------------------------------------------------------------------
(* The request.                                                            *)

\* The request is over, and with it what its goroutine held.
End(r, handed) ==
  /\ pc' = [pc EXCEPT ![r] = "done"]
  /\ answer' = [answer EXCEPT ![r] = handed]
  /\ gone' = [gone EXCEPT ![r] = FALSE]
  /\ conversation' = [conversation EXCEPT ![r] = NoConversation]
  /\ plan' = [plan EXCEPT ![r] = <<>>]
  /\ unusable' = [unusable EXCEPT ![r] = {}]
  /\ weighed' = [weighed EXCEPT ![r] = 0]
  /\ ready' = [ready EXCEPT ![r] = <<>>]
  /\ held' = [held EXCEPT ![r] = <<>>]
  /\ order' = [order EXCEPT ![r] = <<>>]
  /\ at' = [at EXCEPT ![r] = 0]

\* A request is planned; which of its providers it cannot use is known from
\* the provider and the request alone.
Arrive(r) ==
  /\ pc[r] \in {"idle", "done"}
  /\ \E c \in Conversation, attempts \in Plans, skip \in Unusables :
       /\ conversation' = [conversation EXCEPT ![r] = c]
       /\ plan' = [plan EXCEPT ![r] = attempts]
       /\ unusable' = [unusable EXCEPT ![r] = skip]
  /\ pc' = [pc EXCEPT ![r] = "weighing"]
  /\ answer' = [answer EXCEPT ![r] = "none"]
  /\ UNCHANGED <<memory, gone, weighed, ready, held, order, at>>

\* Fault: once one is ready, one held back is dropped rather than kept for last.
WeighDropsHeld(r) ==
  /\ pc[r] = "weighing"
  /\ weighed[r] < Len(plan[r])
  /\ weighed' = [weighed EXCEPT ![r] = @ + 1]
  /\ LET attempt == plan[r][weighed[r] + 1] IN
       IF attempt.provider \in unusable[r] \/ (ready[r] # <<>> /\ HeldBack(attempt.provider))
         THEN UNCHANGED <<ready, held>>
       ELSE IF HeldBack(attempt.provider)
         THEN held' = [held EXCEPT ![r] = Append(@, attempt)] /\ UNCHANGED ready
         ELSE ready' = [ready EXCEPT ![r] = Append(@, attempt)] /\ UNCHANGED held
  /\ UNCHANGED <<memory, pc, gone, conversation, plan, unusable, order, at, answer>>

\* SortAttemptsByHealth reads the memories once per attempt, each read under
\* its own lock, so they may change between two attempts.
Weigh(r) ==
  /\ pc[r] = "weighing"
  /\ weighed[r] < Len(plan[r])
  /\ weighed' = [weighed EXCEPT ![r] = @ + 1]
  /\ LET attempt == plan[r][weighed[r] + 1] IN
       IF attempt.provider \in unusable[r] THEN UNCHANGED <<ready, held>>
       ELSE IF HeldBack(attempt.provider)
         THEN held' = [held EXCEPT ![r] = Append(@, attempt)] /\ UNCHANGED ready
         ELSE ready' = [ready EXCEPT ![r] = Append(@, attempt)] /\ UNCHANGED held
  /\ UNCHANGED <<memory, pc, gone, conversation, plan, unusable, order, at, answer>>

\* Fault: the two lists are joined the wrong way round.
SortedHeldFirst(r) == held[r] \o ready[r]

Sorted(r) == ready[r] \o held[r]

\* Nothing usable is answered at once; otherwise the remembered provider is
\* preferred, unless it is held back by now.
Prefer(r) ==
  /\ pc[r] = "weighing"
  /\ weighed[r] = Len(plan[r])
  /\ IF Sorted(r) = <<>>
       THEN End(r, "unusable")
       ELSE /\ order' = [order EXCEPT ![r] =
                 LET c == conversation[r] IN
                 IF Remembered(c) /\ ~HeldBack(sticky[c].provider)
                   THEN PreferSticky(Sorted(r), sticky[c].provider)
                   ELSE Sorted(r)]
            /\ at' = [at EXCEPT ![r] = 1]
            /\ pc' = [pc EXCEPT ![r] = "walking"]
            /\ UNCHANGED <<gone, conversation, plan, unusable, weighed, ready, held, answer>>
  /\ UNCHANGED memory

Current(r) == order[r][at[r]]
IsLast(r) == at[r] = Len(order[r])

\* The head of the loop: the client is still there, the next attempt is made.
BeginAttempt(r) ==
  /\ pc[r] = "walking" /\ at[r] <= Len(order[r]) /\ ~gone[r]
  /\ pc' = [pc EXCEPT ![r] = "trying"]
  /\ UNCHANGED <<memory, gone, conversation, plan, unusable, weighed, ready, held, order, at, answer>>

\* The client hung up: nobody is left to fail over for, and an upstream call
\* cancelled with it says nothing about the upstream.
Abandon(r) ==
  /\ gone[r]
  /\ \/ pc[r] = "walking" /\ at[r] <= Len(order[r])
     \/ pc[r] = "trying"
  /\ End(r, "none")
  /\ UNCHANGED memory

\* Fault: the attempt that failed is made again.
MoveNowhere(r) ==
  /\ pc' = [pc EXCEPT ![r] = "walking"]
  /\ UNCHANGED <<gone, conversation, plan, unusable, weighed, ready, held, order, at, answer>>

\* On to the next attempt, nothing having been written to the client.
MoveOn(r) ==
  /\ pc' = [pc EXCEPT ![r] = "walking"]
  /\ at' = [at EXCEPT ![r] = @ + 1]
  /\ UNCHANGED <<gone, conversation, plan, unusable, weighed, ready, held, order, answer>>

\* The attempt fails before anything is sent.  A base URL that is none and a
\* sign-in that cannot be renewed count against the provider; a request that
\* cannot be put in the upstream's format does not.
FailLocally(r) ==
  /\ pc[r] = "trying"
  /\ MoveOn(r)
  /\ Breaker!ReportProviderFailure(Current(r).provider) \/ UNCHANGED health
  /\ UNCHANGED <<block, quota, sticky>>

\* A token count is estimated here for an upstream that has no such endpoint.
AnswerCountTokens(r) ==
  /\ pc[r] = "trying"
  /\ End(r, "own")
  /\ UNCHANGED memory

\* The upstream cannot be reached, or sends no headers in time.
FailToConnect(r) ==
  /\ pc[r] = "trying" /\ ~gone[r]
  /\ MoveOn(r)
  /\ Breaker!ReportProviderFailure(Current(r).provider)
  /\ UNCHANGED <<block, quota, sticky>>

isRetryableStatus(status) == status \in {"retryable", "limited"}

reportProviderStatus(p, status) ==
  IF isRetryableStatus(status) THEN Breaker!ReportProviderFailure(p)
                               ELSE Breaker!ReportProviderSuccess(p)

\* Any provider but a plan's carries no limits in its headers.
ObserveLimits(p, status) ==
  IF p \in Subscription
    THEN \E report \in Limits!Report, retryAfter \in 0 .. MaxReset :
           Limits!ObserveSubscriptionLimits(p, status = "limited", report, retryAfter)
    ELSE UNCHANGED <<block, quota>>

RememberSticky(c, p) ==
  sticky' = IF c = NoConversation THEN sticky
            ELSE [sticky EXCEPT ![c] = [provider |-> p, left |-> StickyIdle]]

\* The upstream answers.  A status another upstream may do better than is kept
\* from the client while there is another, once the body that says why has been
\* read; the last one's is relayed as it is.
Respond(r, status) ==
  /\ pc[r] = "trying"
  /\ LET p == Current(r).provider IN
       /\ reportProviderStatus(p, status)
       /\ ObserveLimits(p, status)
       /\ IF status = "ok" THEN RememberSticky(conversation[r], p) ELSE UNCHANGED sticky
  /\ IF isRetryableStatus(status) /\ ~IsLast(r)
       THEN pc' = [pc EXCEPT ![r] = "skipping"] /\ UNCHANGED answer
       ELSE /\ pc' = [pc EXCEPT ![r] = "relaying"]
            /\ answer' = [answer EXCEPT ![r] =
                 IF isRetryableStatus(status) THEN "retryable" ELSE status]
  /\ UNCHANGED <<gone, conversation, plan, unusable, weighed, ready, held, order, at>>

\* The body of a skipped answer ends, or is as long as is read of one.  No
\* timeout of the relay's bounds this read.
UpstreamEndsSkipped(r) ==
  /\ pc[r] = "skipping"
  /\ MoveOn(r)
  /\ UNCHANGED memory

\* Fault: the upstream call is made under a context of its own.
OutliveClient(r) ==
  /\ pc[r] = "skipping" /\ FALSE
  /\ MoveOn(r)
  /\ UNCHANGED memory

\* The client leaves, which cancels the call and with it the read.
CutSkipped(r) ==
  /\ pc[r] = "skipping" /\ gone[r]
  /\ MoveOn(r)
  /\ UNCHANGED memory

\* The body ends, the client leaves, or the upstream goes silent for the idle
\* timeout, which cancels the call.
FinishRelay(r) ==
  /\ pc[r] = "relaying"
  /\ End(r, answer[r])
  /\ UNCHANGED memory

\* Every attempt failed without an answer to relay.
GiveUp(r) ==
  /\ pc[r] = "walking" /\ at[r] > Len(order[r])
  /\ End(r, "synthesized")
  /\ UNCHANGED memory

-----------------------------------------------------------------------------
(* The client, the operator and the clock.                                 *)

HangUp(r) ==
  /\ Busy(r) /\ ~gone[r]
  /\ gone' = [gone EXCEPT ![r] = TRUE]
  /\ UNCHANGED <<memory, pc, conversation, plan, unusable, weighed, ready, held, order, at, answer>>

UpdateProvider(p) ==
  /\ Breaker!ClearProviderHealth(p)
  /\ IF p \in Subscription THEN Limits!ClearProviderQuota(p) ELSE UNCHANGED <<block, quota>>
  /\ UNCHANGED <<sticky, request>>

\* Fault: a conversation already forgotten goes on aging.
AgeAlways(entry) == [entry EXCEPT !.left = @ - 1]

Age(entry) == IF entry.left > 1 THEN [entry EXCEPT !.left = @ - 1] ELSE Forgotten

Tick ==
  /\ Breaker!Elapse
  /\ Limits!Elapse
  /\ sticky' = [c \in Conversation |-> Age(sticky[c])]
  /\ UNCHANGED request

Step(r) ==
  \/ Weigh(r) \/ Prefer(r) \/ BeginAttempt(r) \/ Abandon(r)
  \/ FailLocally(r) \/ AnswerCountTokens(r) \/ FailToConnect(r)
  \/ \E status \in Statuses : Respond(r, status)
  \/ CutSkipped(r) \/ FinishRelay(r) \/ GiveUp(r)

Next ==
  \/ \E r \in Slot : Arrive(r) \/ Step(r) \/ HangUp(r) \/ UpstreamEndsSkipped(r)
  \/ \E p \in Provider : UpdateProvider(p)
  \/ Tick

Spec == Init /\ [][Next]_vars

(***************************************************************************)
(* A goroutine goes on while it can: the dialer and the response header    *)
(* timeout end every wait for an upstream, the idle timeout and the end of *)
(* the body every relay.  Whether the body of a skipped answer ends is the *)
(* upstream's affair alone.                                                *)
(***************************************************************************)
FairSpec == Spec /\ \A r \in Slot : WF_vars(Step(r))

-----------------------------------------------------------------------------
(* What it promises.                                                       *)

\* Under way, with none of its attempts answered for good.
Open(r) == pc[r] \in {"weighing", "walking", "trying", "skipping"}

\* The attempts of a request still ahead of it.
Unweighed(r) ==
  {a \in {plan[r][i] : i \in weighed[r] + 1 .. Len(plan[r])} : a.provider \notin unusable[r]}

Unmade(r) ==
  LET next == IF pc[r] = "walking" THEN at[r] ELSE at[r] + 1
  IN  {order[r][i] : i \in next .. Len(order[r])}

Untried(r) ==
  IF pc[r] = "weighing" THEN Unweighed(r) \cup Range(ready[r]) \cup Range(held[r])
  ELSE IF Open(r) THEN Unmade(r) ELSE {}

\* The one its goroutine is at: made, and not yet known to come to nothing.
Making(r) == IF pc[r] \in {"trying", "skipping"} THEN {Current(r)} ELSE {}

Verdict(handed) ==
  IF handed \in {"ok", "refused", "own"} THEN "answered"
  ELSE IF handed = "none" THEN "left" ELSE "failed"

Phase(r) ==
  IF pc[r] = "idle" THEN "free" ELSE IF Open(r) THEN "open" ELSE Verdict(answer[r])

Promise == INSTANCE Failover WITH
  phase <- [r \in Slot |-> Phase(r)],
  untried <- [r \in Slot |-> Untried(r)],
  making <- [r \in Slot |-> Making(r)]

(* However the sort and the preference reorder a plan while the providers' *)
(* health changes under them, the attempts of a plan that are usable stay  *)
(* to be made until they are made: none is lost in the sort, in the        *)
(* preference or between two attempts, and none is made twice.  The client *)
(* is told of a failure - a retryable status relayed from the last         *)
(* attempt, or an error of the relay's own - only when every usable        *)
(* attempt has been made.                                                  *)
PromiseKept == Promise!Spec

(* "A rule is the operator saying where a model goes, and a conversation   *)
(* that has been answered by some other provider before must not step over *)
(* it" (PreferSticky): an attempt no rule made comes before one a rule     *)
(* made only when the latter was found held back.                          *)
RuleNotSteppedOver ==
  \A r \in Slot : \A i, j \in DOMAIN order[r] :
    i < j /\ order[r][i].route = NoRoute /\ order[r][j].route # NoRoute
      => order[r][j] \in Range(held[r])

(* A provider found in cooldown or out of its plan is tried after every    *)
(* one found ready.  Only a conversation's own provider, in rotation again *)
(* by the time it was preferred, may be ahead, and of its own rule's       *)
(* attempts alone.                                                         *)
HeldTriedLast ==
  \A r \in Slot : \A i, j \in DOMAIN order[r] :
    i < j /\ order[r][i] \in Range(held[r]) /\ order[r][j] \in Range(ready[r])
      => /\ conversation[r] # NoConversation
         /\ order[r][i].route = order[r][j].route

(* "The rungs below the first are the automatic downgrade, taken when the  *)
(* rung above is rate-limited, out of quota or down" (ModelRoute): what a  *)
(* rule asks a lesser model for is sent only when each rung above it has   *)
(* been tried, is held back or cannot be used.                             *)
DowngradeOnlyWhenNeeded ==
  \A r \in Slot : pc[r] = "trying" =>
    \A i, j \in DOMAIN plan[r] :
      LET above == plan[r][i]
          below == plan[r][j] IN
      /\ i < j /\ below = Current(r)
      /\ above.route = below.route /\ below.route # NoRoute
      /\ above.model # below.model
      => \/ above.provider \in unusable[r]
         \/ above \in Range(held[r])
         \/ \E k \in 1 .. at[r] - 1 : order[r][k] = above

(* "proxyIdleTimeout is the longest gap tolerated between two chunks of    *)
(* the upstream response body before the request is aborted" (proxy.go):   *)
(* every request the relay takes comes to an end, however the upstreams    *)
(* fail and whoever edits or suspends the providers meanwhile.             *)
EveryRequestEnds == \A r \in Slot : Busy(r) ~> pc[r] = "done"

(* The same, where every upstream ends the bodies of the answers that are  *)
(* skipped: whatever else the upstreams do, and whoever edits or suspends  *)
(* the providers meanwhile.                                                *)
RequestEndsWithUpstream ==
  (\A r \in Slot : WF_vars(UpstreamEndsSkipped(r))) => EveryRequestEnds

(* A request whose client has hung up ends, wherever it was and whatever   *)
(* its upstream does or leaves undone; any other ends where upstreams do   *)
(* not leave a skipped answer unfinished: no goroutine is left behind.     *)
HungUpRequestEnds == \A r \in Slot : gone[r] ~> pc[r] = "done"

RequestsEnd == HungUpRequestEnds /\ RequestEndsWithUpstream
=============================================================================
