---------------------------- MODULE ProviderLimit ----------------------------
(***************************************************************************)
(* What this process knows of the plan behind a subscription provider:     *)
(* object/provider_limit.go and the cache of object/provider_quota.go.     *)
(*                                                                         *)
(* Two memories decide whether a plan is spent.  The quota cache holds the *)
(* windows a vendor last reported, on an answer or to a probe; limitBlocks *)
(* holds the moment a plan that refused a request said it would take one   *)
(* again.  Times are what is left of them, as in ProviderHealth.           *)
(***************************************************************************)
EXTENDS Integers, FiniteSetsExt

CONSTANTS
  Subscription,  \* the subscription providers
  WindowName,    \* the windows a plan is refused for: "5h" and "week"
  MaxReset       \* bound: the furthest a reset is reported ahead, in ticks

ASSUME LimitAssumption ==
  /\ MaxReset \in Nat \ {0}
  /\ WindowName # {}

VARIABLES
  block,      \* limitBlocks.until, as what is left of it
  quota       \* providerQuotaMap: the cached windows of each provider

limits == <<block, quota>>

\* A window nobody has reported, and one that has: left = 0 is an allowance
\* all spent, reset = 0 a window that has not started.
Unreported == [left |-> 1, reset |-> 0]
Window == [left : {0, 1}, reset : 0 .. MaxReset]

\* What an answer's headers carry: some of the windows, or none.
Report == UNION {[names -> Window] : names \in SUBSET WindowName}

NoWindows == [w \in WindowName |-> Unreported]

TypeOK ==
  /\ block \in [Subscription -> 0 .. MaxReset]
  /\ quota \in [Subscription -> [WindowName -> Window]]

LimitInit ==
  /\ block = [p \in Subscription |-> 0]
  /\ quota = [p \in Subscription |-> NoWindows]

WindowSpent(window) == window.left = 0 /\ window.reset > 0

IsSubscriptionSpent(p) ==
  \/ block[p] > 0
  \/ \E w \in WindowName : WindowSpent(quota[p][w])

-----------------------------------------------------------------------------

\* Windows an answer reports replace those of the same name; the rest stay.
StoreObservedWindows(p, report) ==
  quota' = [quota EXCEPT ![p] =
    [w \in WindowName |-> IF w \in DOMAIN report THEN report[w] ELSE @[w]]]

\* How long a refused plan is left alone: until the last of the windows the
\* refusal reports spent, or for its Retry-After.
RefusedFor(report, retryAfter) ==
  LET spent == {w \in DOMAIN report : WindowSpent(report[w])}
  IN  IF spent = {} THEN retryAfter ELSE Max({report[w].reset : w \in spent})

\* Fault: an answer that is no refusal lifts the block.
ObserveLiftsBlock(p, refused, report, retryAfter) ==
  /\ StoreObservedWindows(p, report)
  /\ block' = [block EXCEPT ![p] = IF refused THEN RefusedFor(report, retryAfter) ELSE 0]

ObserveSubscriptionLimits(p, refused, report, retryAfter) ==
  /\ StoreObservedWindows(p, report)
  /\ block' = [block EXCEPT ![p] =
       LET wait == RefusedFor(report, retryAfter)
       IN  IF refused /\ wait > 0 THEN wait ELSE @]

\* RefreshProviderQuotas: what the vendor answers a probe replaces the whole
\* entry, and a probe that failed leaves one with no windows in it.
StoreProbedQuota(p, windows) ==
  /\ quota' = [quota EXCEPT ![p] = windows]
  /\ UNCHANGED block

\* What an edit of the provider forgets: the cached answer, not the block.
ClearProviderQuota(p) ==
  /\ quota' = [quota EXCEPT ![p] = NoWindows]
  /\ UNCHANGED block

\* Fault: what is over goes on running down.
ElapsePastZero ==
  /\ block' = [p \in Subscription |-> block[p] - 1]
  /\ quota' = [p \in Subscription |-> [w \in WindowName |-> [quota[p][w] EXCEPT !.reset = @ - 1]]]

Elapse ==
  /\ block' = [p \in Subscription |-> IF block[p] > 0 THEN block[p] - 1 ELSE 0]
  /\ quota' = [p \in Subscription |-> [w \in WindowName |->
       [quota[p][w] EXCEPT !.reset = IF @ > 0 THEN @ - 1 ELSE 0]]]
=============================================================================
