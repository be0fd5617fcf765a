--------------------------- MODULE ProviderProofs ---------------------------
(***************************************************************************)
(* Three parts of what decides which provider serves a request.            *)
(*                                                                         *)
(* The memories that hold a provider back keep their invariants for every  *)
(* set of providers and every setting of the threshold, the cooldowns, the *)
(* width of a duration and the windows of a plan.                          *)
(*                                                                         *)
(* Every plan that reaches the relay is orderly, whatever the rules, the   *)
(* chains and the permissions are and however the providers are edited     *)
(* while it is made.  Relay takes exactly this of the plans it is handed   *)
(* (RelayAssumption), so this proof and the one of RelayProofs meet here.  *)
(* Orderliness is not inductive: the invariant follows the list through    *)
(* its stages.  A rule's ladder holds attempts of the rule alone, what is  *)
(* appended below it holds attempts of no rule, and while a plan is judged *)
(* what was kept and what is left are still two ends of an orderly list.   *)
(*                                                                         *)
(* The rule a request is routed by is the first of those that stand for    *)
(* its model, for every table and every pattern: taking each piece of a    *)
(* pattern where it first occurs finds a name exactly when it can be read  *)
(* along the pattern, by induction over the pattern's stars.               *)
(***************************************************************************)
EXTENDS RoutePlan, ProviderMemory, ModelRoutes, WellFoundedInduction,
        FiniteSetTheorems, SequenceTheorems, TLAPS

(* A set of naturals that is not empty has a least element.                *)
LEMMA LeastNatural ==
  ASSUME NEW T, T \subseteq Nat, T # {}
  PROVE  \E m \in T : \A n \in T : m <= n
<1>1. IsWellFoundedOn(OpToRel(<, Nat), Nat)
  BY NatLessThanWellFounded
<1>2. PICK m \in T : \A n \in T : ~ (<<n, m>> \in OpToRel(<, Nat))
  BY <1>1, WFMin
<1>3. \A n \in T : ~ (n < m)
  BY <1>2 DEF OpToRel
<1> QED
  BY <1>3

(* A bounded set of naturals that is not empty has a greatest element.     *)
LEMMA GreatestBelow ==
  ASSUME NEW N \in Nat, NEW T, T \subseteq 0 .. N, T # {}
  PROVE  \E m \in T : \A n \in T : m >= n
<1> DEFINE U == {u \in 0 .. N : \A n \in T : n <= u}
<1>1. U # {} /\ U \subseteq Nat
  <2>1. N \in U
    OBVIOUS
  <2> QED
    BY <2>1
<1> HIDE DEF U
<1>2. PICK m \in U : \A u \in U : m <= u
  BY <1>1, LeastNatural
<1> USE DEF U
<1>3. m \in T
  <2> SUFFICES ASSUME m \notin T
               PROVE  FALSE
    OBVIOUS
  <2>1. \A n \in T : n <= m - 1
    BY <1>2
  <2>2. m - 1 \in 0 .. N
    <3>1. PICK n \in T : TRUE
      OBVIOUS
    <3>2. n \in 0 .. N /\ n <= m - 1 /\ m \in 0 .. N
      BY <2>1
    <3> QED
      BY <3>2
  <2>3. m - 1 \in U
    BY <2>1, <2>2
  <2> QED
    BY <1>2, <2>3
<1> QED
  BY <1>2, <1>3

-----------------------------------------------------------------------------
(* The memories that hold a provider back.                                 *)

(* Whatever the shift wraps to, a suspension is at least one tick and at   *)
(* most the ceiling.                                                       *)
LEMMA CooldownInRange ==
  ASSUME NEW n \in Nat
  PROVE  Breaker!CooldownAfter(n) \in 1 .. MaxCooldown
  BY BreakerAssumption DEF Breaker!CooldownAfter

LEMMA FailureTyped ==
  ASSUME Breaker!TypeOK, NEW p \in Subscription, Breaker!ReportProviderFailure(p)
  PROVE  Breaker!TypeOK'
<1> USE BreakerAssumption DEF Breaker!TypeOK, Breaker!Health
<1> DEFINE counted == health[p].consecutive + 1
           failures == IF counted > FailureCap THEN FailureCap ELSE counted
<1>1. failures \in 0 .. FailureCap
  OBVIOUS
<1>2. Breaker!CooldownAfter(failures) \in 0 .. MaxCooldown
  BY <1>1, CooldownInRange
<1>3. health' = [health EXCEPT ![p] =
        [consecutive |-> failures,
         retry |-> IF failures < FailureThreshold
                     THEN health[p].retry ELSE Breaker!CooldownAfter(failures)]]
  BY DEF Breaker!ReportProviderFailure
<1> QED
  BY <1>1, <1>2, <1>3

(* A refusal holds a plan back for a time within the furthest reset.       *)
LEMMA RefusedForTyped ==
  ASSUME NEW report \in Report, NEW retryAfter \in 0 .. MaxReset
  PROVE  RefusedFor(report, retryAfter) \in 0 .. MaxReset
<1> DEFINE spent == {w \in DOMAIN report : WindowSpent(report[w])}
           resets == {report[w].reset : w \in spent}
<1>1. resets \subseteq 0 .. MaxReset
  BY DEF Report, Window
<1>2. CASE spent = {}
  BY <1>2 DEF RefusedFor
<1>3. CASE spent # {}
  <2>1. PICK m \in resets : \A n \in resets : m >= n
    BY <1>1, <1>3, GreatestBelow, LimitAssumption
  <2>2. Max(resets) \in resets
    BY <2>1 DEF Max
  <2> QED
    BY <1>1, <1>3, <2>2 DEF RefusedFor
<1> QED
  BY <1>2, <1>3

LEMMA ObserveTyped ==
  ASSUME TypeOK, NEW p \in Subscription, NEW refused \in BOOLEAN,
         NEW report \in Report, NEW retryAfter \in 0 .. MaxReset,
         ObserveSubscriptionLimits(p, refused, report, retryAfter)
  PROVE  TypeOK'
<1>1. RefusedFor(report, retryAfter) \in 0 .. MaxReset
  BY RefusedForTyped
<1>2. block' \in [Subscription -> 0 .. MaxReset]
  BY <1>1 DEF TypeOK, ObserveSubscriptionLimits
<1>3. \A w \in DOMAIN report : report[w] \in Window
  BY DEF Report
<1>4. quota' \in [Subscription -> [WindowName -> Window]]
  BY <1>3 DEF TypeOK, ObserveSubscriptionLimits, StoreObservedWindows
<1> QED
  BY <1>2, <1>4 DEF TypeOK

LEMMA ElapseTyped ==
  ASSUME TypeOK, Elapse
  PROVE  TypeOK'
<1>1. block' \in [Subscription -> 0 .. MaxReset]
  BY LimitAssumption DEF TypeOK, Elapse
<1>2. quota' \in [Subscription -> [WindowName -> Window]]
  <2> DEFINE aged(p, w) == [quota[p][w] EXCEPT !.reset = IF @ > 0 THEN @ - 1 ELSE 0]
  <2>1. ASSUME NEW p \in Subscription, NEW w \in WindowName
        PROVE  aged(p, w) \in Window
    <3>1. quota[p][w] \in Window
      BY DEF TypeOK
    <3> QED
      BY <3>1, LimitAssumption DEF Window
  <2>2. quota' = [p \in Subscription |-> [w \in WindowName |-> aged(p, w)]]
    BY DEF Elapse
  <2> HIDE DEF aged
  <2> QED
    BY <2>1, <2>2
<1> QED
  BY <1>1, <1>2 DEF TypeOK

(* The three memories keep their types under every interleaving of         *)
(* answers, failures, probes, edits and the clock.                         *)
THEOREM MemoryTyped == MemorySpec => []MemoryTypeOK
<1>1. MemoryInit => MemoryTypeOK
  BY BreakerAssumption, LimitAssumption
     DEF MemoryInit, MemoryTypeOK, Breaker!Init, Breaker!TypeOK, Breaker!Health, Breaker!Clean,
         LimitInit, TypeOK, NoWindows, Unreported, Window
<1>2. MemoryTypeOK /\ [MemoryNext]_memoryVars => MemoryTypeOK'
  <2> SUFFICES ASSUME MemoryTypeOK, [MemoryNext]_memoryVars
               PROVE  MemoryTypeOK'
    OBVIOUS
  <2> USE DEF MemoryTypeOK
  <2>1. ASSUME NEW p \in Subscription, Succeeds(p)
        PROVE  MemoryTypeOK'
    BY <2>1, BreakerAssumption
       DEF Succeeds, limits, TypeOK, Breaker!ReportProviderSuccess, Breaker!TypeOK,
           Breaker!Health, Breaker!Clean
  <2>2. ASSUME NEW p \in Subscription, Fails(p)
        PROVE  MemoryTypeOK'
    BY <2>2, FailureTyped DEF Fails, limits, TypeOK
  <2>3. ASSUME NEW p \in Subscription, AnswerObserved(p)
        PROVE  MemoryTypeOK'
    <3>1. PICK refused \in BOOLEAN, report \in Report, retryAfter \in 0 .. MaxReset :
            /\ ObserveSubscriptionLimits(p, refused, report, retryAfter)
            /\ said' = [said EXCEPT ![p] =
                 IF refused /\ RefusedFor(report, retryAfter) > 0 THEN RefusedFor(report, retryAfter) ELSE @]
      BY <2>3 DEF AnswerObserved
    <3>2. RefusedFor(report, retryAfter) \in 0 .. MaxReset
      BY RefusedForTyped
    <3>3. TypeOK'
      BY <3>1, ObserveTyped
    <3>4. said' \in [Subscription -> 0 .. MaxReset]
      BY <3>1, <3>2
    <3> QED
      BY <2>3, <3>3, <3>4 DEF AnswerObserved, Breaker!TypeOK
  <2>4. ASSUME NEW p \in Subscription, ProbeAnswered(p)
        PROVE  MemoryTypeOK'
    BY <2>4 DEF ProbeAnswered, StoreProbedQuota, TypeOK, Breaker!TypeOK
  <2>5. ASSUME NEW p \in Subscription, ProviderUpdated(p)
        PROVE  MemoryTypeOK'
    BY <2>5, BreakerAssumption, LimitAssumption
       DEF ProviderUpdated, Breaker!ClearProviderHealth, ClearProviderQuota, TypeOK, NoWindows,
           Unreported, Window, Breaker!TypeOK, Breaker!Health, Breaker!Clean
  <2>6. CASE Tick
    <3>1. Breaker!TypeOK'
      BY <2>6, BreakerAssumption DEF Tick, Breaker!TypeOK, Breaker!Health, Breaker!Elapse
    <3>2. said' \in [Subscription -> 0 .. MaxReset]
      BY <2>6, LimitAssumption DEF Tick
    <3> QED
      BY <2>6, <3>1, <3>2, ElapseTyped DEF Tick
  <2>7. CASE UNCHANGED memoryVars
    BY <2>7 DEF memoryVars, TypeOK, Breaker!TypeOK
  <2> QED
    BY <2>1, <2>2, <2>3, <2>4, <2>5, <2>6, <2>7 DEF MemoryNext
<1> QED
  BY <1>1, <1>2, PTL DEF MemorySpec

(* A suspended provider has failed FailureThreshold times in a row: no     *)
(* interleaving of successes, failures, edits and the clock leaves a       *)
(* window standing with the counter below the threshold.                   *)
THEOREM SuspensionIsEarned == MemorySpec => []SuspensionEarned
<1> USE DEF SuspensionEarned, Breaker!SuspensionEarned, Breaker!Suspended
<1>1. MemoryInit => SuspensionEarned
  BY DEF MemoryInit, Breaker!Init, Breaker!Clean
<1>2. MemoryTypeOK /\ SuspensionEarned /\ [MemoryNext]_memoryVars => SuspensionEarned'
  <2> SUFFICES ASSUME MemoryTypeOK, SuspensionEarned, [MemoryNext]_memoryVars
               PROVE  SuspensionEarned'
    OBVIOUS
  <2> USE BreakerAssumption DEF MemoryTypeOK, Breaker!TypeOK, Breaker!Health
  <2>1. ASSUME NEW p \in Subscription, Succeeds(p) \/ ProviderUpdated(p)
        PROVE  SuspensionEarned'
    BY <2>1 DEF Succeeds, ProviderUpdated, Breaker!ReportProviderSuccess,
                Breaker!ClearProviderHealth, Breaker!Clean
  <2>2. ASSUME NEW p \in Subscription, Fails(p)
        PROVE  SuspensionEarned'
    BY <2>2 DEF Fails, Breaker!ReportProviderFailure
  <2>3. ASSUME NEW p \in Subscription, AnswerObserved(p) \/ ProbeAnswered(p)
        PROVE  SuspensionEarned'
    BY <2>3 DEF AnswerObserved, ProbeAnswered
  <2>4. CASE Tick
    BY <2>4 DEF Tick, Breaker!Elapse
  <2>5. CASE UNCHANGED memoryVars
    BY <2>5 DEF memoryVars
  <2> QED
    BY <2>1, <2>2, <2>3, <2>4, <2>5 DEF MemoryNext
<1> QED
  BY <1>1, <1>2, MemoryTyped, PTL DEF MemorySpec

(* A cooldown is no longer than the next: a shift that wrapped is replaced  *)
(* by the ceiling, and so is every one that is beyond it.                  *)
LEMMA CooldownGrows ==
  ASSUME NEW n \in FailureThreshold .. FailureCap, NEW m \in n .. FailureCap
  PROVE  Breaker!CooldownAfter(n) <= Breaker!CooldownAfter(m)
<1> DEFINE j == n - FailureThreshold
           k == m - FailureThreshold
<1>1. k \in 0 .. FailureCap - FailureThreshold /\ j \in 0 .. k /\ n \in Nat /\ m \in Nat
  BY BreakerAssumption
<1>2. Breaker!CooldownAfter(n) \in 1 .. MaxCooldown
  BY <1>1, CooldownInRange
<1>3. CASE Breaker!Shifted(Cooldown, k) \in 1 .. MaxCooldown
  <2>1. Breaker!Shifted(Cooldown, j) \in 1 .. Breaker!Shifted(Cooldown, k)
    BY <1>1, <1>3, ShiftAssumption
  <2> QED
    BY <1>3, <2>1, BreakerAssumption DEF Breaker!CooldownAfter
<1>4. CASE Breaker!Shifted(Cooldown, k) \notin 1 .. MaxCooldown
  <2>1. Breaker!CooldownAfter(m) = MaxCooldown
    BY <1>4 DEF Breaker!CooldownAfter
  <2> QED
    BY <1>2, <2>1, BreakerAssumption
<1> QED
  BY <1>3, <1>4

\* What is left of a suspension is no more than the failures counted earned.
WithinEarned ==
  \A p \in Subscription :
    Breaker!Suspended(p) => /\ health[p].consecutive >= FailureThreshold
                            /\ health[p].retry <= Breaker!CooldownAfter(health[p].consecutive)

(* A failure leaves every window at least as long as it was.               *)
LEMMA FailureLengthens ==
  ASSUME MemoryTypeOK, WithinEarned, NEW p \in Subscription, Fails(p)
  PROVE  WithinEarned' /\ \A q \in Subscription : health'[q].retry >= health[q].retry
<1> USE BreakerAssumption DEF MemoryTypeOK, Breaker!TypeOK, Breaker!Health, Breaker!Suspended
<1> DEFINE counted == health[p].consecutive + 1
           failures == IF counted > FailureCap THEN FailureCap ELSE counted
           retry == IF failures < FailureThreshold THEN health[p].retry ELSE Breaker!CooldownAfter(failures)
<1>1. /\ health'[p].consecutive = failures /\ health'[p].retry = retry
      /\ \A q \in Subscription \ {p} : health'[q] = health[q]
  BY DEF Fails, Breaker!ReportProviderFailure
<1>2. failures \in health[p].consecutive .. FailureCap /\ health[p].consecutive \in Nat
  OBVIOUS
<1>3. health[p].retry <= retry /\ (retry > 0 => failures >= FailureThreshold /\ retry <= Breaker!CooldownAfter(failures))
  <2>1. CASE failures < FailureThreshold
    <3>1. health[p].retry = 0
      BY <1>2, <2>1 DEF WithinEarned
    <3> QED
      BY <2>1, <3>1
  <2>2. CASE failures >= FailureThreshold
    <3>1. Breaker!CooldownAfter(failures) \in 1 .. MaxCooldown
      BY <1>2, CooldownInRange
    <3>2. health[p].retry > 0 => health[p].retry <= Breaker!CooldownAfter(failures)
      <4> SUFFICES ASSUME health[p].retry > 0
                   PROVE  health[p].retry <= Breaker!CooldownAfter(failures)
        OBVIOUS
      <4>1. health[p].consecutive \in FailureThreshold .. FailureCap
            /\ health[p].retry <= Breaker!CooldownAfter(health[p].consecutive)
        BY DEF WithinEarned
      <4>2. Breaker!CooldownAfter(health[p].consecutive) <= Breaker!CooldownAfter(failures)
        BY <1>2, <4>1, CooldownGrows
      <4>3. Breaker!CooldownAfter(health[p].consecutive) \in 1 .. MaxCooldown
        BY <1>2, CooldownInRange
      <4> QED
        BY <3>1, <4>1, <4>2, <4>3
    <3>3. retry = Breaker!CooldownAfter(failures)
      BY <1>2, <2>2
    <3> QED
      BY <2>2, <3>1, <3>2, <3>3
  <2> QED
    BY <1>2, <2>1, <2>2
<1> HIDE DEF failures, retry
<1>4. WithinEarned'
  BY <1>1, <1>3 DEF WithinEarned
<1>5. \A q \in Subscription : health'[q].retry >= health[q].retry
  <2> TAKE q \in Subscription
  <2>1. health[q].retry \in Nat
    OBVIOUS
  <2>2. CASE q = p
    BY <1>1, <1>3, <2>2
  <2>3. CASE q # p
    BY <1>1, <2>1, <2>3
  <2> QED
    BY <2>2, <2>3
<1> QED
  BY <1>4, <1>5

(* While a provider keeps failing, its window gets shorter by the clock    *)
(* alone, whatever the doubling has wrapped to (ReportProviderFailure).    *)
THEOREM CooldownsOnlyGrow == MemorySpec => CooldownNeverShrinks
<1> DEFINE Shorter == \A p \in Subscription :
             health'[p].retry < health[p].retry
               => \/ health'[p] = Breaker!Clean
                  \/ health'[p].retry = health[p].retry - 1
<1> USE DEF Breaker!Suspended
<1>1. MemoryInit => WithinEarned
  BY DEF MemoryInit, WithinEarned, Breaker!Init, Breaker!Clean
<1>2. MemoryTypeOK /\ WithinEarned /\ [MemoryNext]_memoryVars => WithinEarned' /\ [Shorter]_health
  <2> SUFFICES ASSUME MemoryTypeOK, WithinEarned, [MemoryNext]_memoryVars
               PROVE  WithinEarned' /\ (Shorter \/ UNCHANGED health)
    OBVIOUS
  <2> USE BreakerAssumption DEF MemoryTypeOK, Breaker!TypeOK, Breaker!Health
  <2>1. ASSUME NEW p \in Subscription, Succeeds(p) \/ ProviderUpdated(p)
        PROVE  WithinEarned' /\ Shorter
    <3>1. health' = [health EXCEPT ![p] = Breaker!Clean]
      BY <2>1 DEF Succeeds, ProviderUpdated, Breaker!ReportProviderSuccess, Breaker!ClearProviderHealth
    <3> QED
      BY <3>1 DEF WithinEarned, Breaker!Clean
  <2>2. ASSUME NEW p \in Subscription, Fails(p)
        PROVE  WithinEarned' /\ Shorter
    <3>1. WithinEarned' /\ \A q \in Subscription : health'[q].retry >= health[q].retry
      BY <2>2, FailureLengthens
    <3>2. MemoryTypeOK'
      BY <2>2, FailureTyped DEF Fails, limits, TypeOK
    <3>3. \A q \in Subscription : health[q].retry \in Nat /\ health'[q].retry \in Nat
      BY <3>2
    <3> QED
      BY <3>1, <3>3
  <2>3. ASSUME NEW p \in Subscription, AnswerObserved(p) \/ ProbeAnswered(p)
        PROVE  WithinEarned' /\ UNCHANGED health
    BY <2>3 DEF AnswerObserved, ProbeAnswered, WithinEarned
  <2>4. CASE Tick
    <3>1. \A q \in Subscription :
            /\ health'[q].consecutive = health[q].consecutive
            /\ health'[q].retry = IF health[q].retry > 0 THEN health[q].retry - 1 ELSE 0
      BY <2>4 DEF Tick, Breaker!Elapse
    <3>2. \A q \in Subscription : health[q].retry \in Nat /\ health[q].consecutive \in Nat
      OBVIOUS
    <3>3. \A q \in Subscription : Breaker!CooldownAfter(health[q].consecutive) \in 1 .. MaxCooldown
      BY <3>2, CooldownInRange
    <3>4. WithinEarned'
      BY <3>1, <3>2, <3>3 DEF WithinEarned
    <3> QED
      BY <3>1, <3>2, <3>4
  <2>5. CASE UNCHANGED memoryVars
    BY <2>5 DEF memoryVars, WithinEarned
  <2> QED
    BY <2>1, <2>2, <2>3, <2>4, <2>5 DEF MemoryNext
<1> QED
  BY <1>1, <1>2, MemoryTyped, PTL DEF MemorySpec, CooldownNeverShrinks, Breaker!CooldownNeverShrinks

(* Only the clock and what the last refusal to arrive said hold a plan     *)
(* back: whatever order answers, probes and edits come in, the time left   *)
(* is the one that refusal named, less the ticks since.                    *)
THEOREM RefusalIsKept == MemorySpec => []RefusalStands
<1>1. MemoryInit => RefusalStands
  BY DEF MemoryInit, LimitInit, RefusalStands
<1>2. MemoryTypeOK /\ RefusalStands /\ [MemoryNext]_memoryVars => RefusalStands'
  <2> SUFFICES ASSUME MemoryTypeOK, RefusalStands, [MemoryNext]_memoryVars
               PROVE  RefusalStands'
    OBVIOUS
  <2> USE DEF MemoryTypeOK, TypeOK, RefusalStands
  <2>1. ASSUME NEW p \in Subscription, Succeeds(p) \/ Fails(p)
        PROVE  RefusalStands'
    BY <2>1 DEF Succeeds, Fails, limits
  <2>2. ASSUME NEW p \in Subscription, AnswerObserved(p)
        PROVE  RefusalStands'
    BY <2>2 DEF AnswerObserved, ObserveSubscriptionLimits
  <2>3. ASSUME NEW p \in Subscription, ProbeAnswered(p) \/ ProviderUpdated(p)
        PROVE  RefusalStands'
    BY <2>3 DEF ProbeAnswered, StoreProbedQuota, ProviderUpdated, ClearProviderQuota
  <2>4. CASE Tick
    BY <2>4 DEF Tick, Elapse
  <2>5. CASE UNCHANGED memoryVars
    BY <2>5 DEF memoryVars
  <2> QED
    BY <2>1, <2>2, <2>3, <2>4, <2>5 DEF MemoryNext
<1> QED
  BY <1>1, <1>2, MemoryTyped, PTL DEF MemorySpec

-----------------------------------------------------------------------------
(* The plan of a request.                                                  *)

\* A sequence, of whatever elements.
IsSeq(s) == s \in Seq({s[i] : i \in DOMAIN s})

AllByRule(s) == \A i \in DOMAIN s : s[i].route # NoRoute
NoneByRule(s) == \A i \in DOMAIN s : s[i].route = NoRoute

Pair(attempt) == <<attempt.provider, attempt.model>>

\* The kept attempts and those still to be judged, end to end, are orderly.
TwoEnds(kept, left) ==
  /\ NoRepeat(left) /\ RulesFirst(left, NoRoute)
  /\ \A i \in DOMAIN kept, j \in DOMAIN left :
       /\ kept[i].provider # left[j].provider \/ kept[i].model # left[j].model
       /\ kept[i].route = NoRoute => left[j].route = NoRoute
  /\ Len(kept) + Len(left) <= MaxAttempts

PlanInv ==
  /\ IsSeq(attempts) /\ IsSeq(todo) /\ pc \in Stages
  /\ Len(pool) \in Nat /\ (pc = "chain" => IsSeq(pool))
  /\ NoRepeat(attempts) /\ RulesFirst(attempts, NoRoute) /\ Len(attempts) <= MaxAttempts
  /\ pc \in {"idle", "chain", "match", "pool"} => attempts = <<>> /\ todo = <<>>
  /\ pc \in {"pool", "ladder"} => rule \in Rule
  /\ pc = "ladder" => AllByRule(attempts) /\ AllByRule(todo)
  /\ pc = "default" => AllByRule(attempts) /\ todo = <<>>
  /\ pc = "appending" => NoneByRule(todo)
  /\ pc = "judging" => TwoEnds(attempts, todo)

-----------------------------------------------------------------------------
(* Sequences of whatever elements.                                         *)

(* Whatever set a sequence is over, it is one over its own elements.       *)
LEMMA SeqIsSeq ==
  ASSUME NEW S, NEW s \in Seq(S)
  PROVE  IsSeq(s)
<1>1. DOMAIN s = 1 .. Len(s) /\ Len(s) \in Nat
  OBVIOUS
<1>2. s \in [1 .. Len(s) -> {s[i] : i \in DOMAIN s}]
  BY <1>1
<1> QED
  BY <1>1, <1>2 DEF IsSeq

(* Appending keeps a sequence one, leaves what was there where it was and  *)
(* puts the new element last.                                              *)
LEMMA AppendShape ==
  ASSUME NEW s, IsSeq(s), NEW e
  PROVE  /\ IsSeq(Append(s, e))
         /\ Len(Append(s, e)) = Len(s) + 1
         /\ DOMAIN s = 1 .. Len(s) /\ Len(s) \in Nat
         /\ DOMAIN Append(s, e) = 1 .. (Len(s) + 1)
         /\ \A i \in DOMAIN s : Append(s, e)[i] = s[i]
         /\ Append(s, e)[Len(s) + 1] = e
<1> DEFINE S == {s[i] : i \in DOMAIN s} \cup {e}
<1>1. s \in Seq(S) /\ e \in S
  BY DEF IsSeq
<1>2. /\ Append(s, e) \in Seq(S) /\ Len(Append(s, e)) = Len(s) + 1
      /\ DOMAIN s = 1 .. Len(s) /\ Len(s) \in Nat
      /\ DOMAIN Append(s, e) = 1 .. (Len(s) + 1)
      /\ \A i \in DOMAIN s : Append(s, e)[i] = s[i]
      /\ Append(s, e)[Len(s) + 1] = e
  BY <1>1
<1>3. IsSeq(Append(s, e))
  BY <1>2, SeqIsSeq
<1> QED
  BY <1>2, <1>3

(* The head and the tail of a sequence that is not empty.                  *)
LEMMA TailShape ==
  ASSUME NEW s, IsSeq(s), s # <<>>
  PROVE  /\ IsSeq(Tail(s)) /\ DOMAIN s = 1 .. Len(s) /\ Len(s) \in Nat \ {0}
         /\ Len(Tail(s)) = Len(s) - 1
         /\ DOMAIN Tail(s) = 1 .. (Len(s) - 1)
         /\ \A i \in DOMAIN Tail(s) : Tail(s)[i] = s[i + 1]
         /\ Head(s) = s[1]
<1> DEFINE S == {s[i] : i \in DOMAIN s}
<1>1. s \in Seq(S)
  BY DEF IsSeq
<1>2. /\ Tail(s) \in Seq(S) /\ DOMAIN s = 1 .. Len(s) /\ Len(s) \in Nat \ {0}
      /\ Len(Tail(s)) = Len(s) - 1
      /\ DOMAIN Tail(s) = 1 .. (Len(s) - 1)
      /\ \A i \in DOMAIN Tail(s) : Tail(s)[i] = s[i + 1]
      /\ Head(s) = s[1]
  BY <1>1
<1>3. IsSeq(Tail(s))
  BY <1>2, SeqIsSeq
<1> QED
  BY <1>2, <1>3

(* The empty plan is orderly.                                              *)
LEMMA EmptyOrderly ==
  /\ IsSeq(<<>>) /\ NoRepeat(<<>>) /\ RulesFirst(<<>>, NoRoute) /\ Len(<<>>) = 0
  /\ AllByRule(<<>>) /\ NoneByRule(<<>>)
<1>1. \A S : <<>> \in Seq(S)
  OBVIOUS
<1>2. DOMAIN <<>> = {} /\ Len(<<>>) = 0
  OBVIOUS
<1> QED
  BY <1>1, <1>2 DEF IsSeq, NoRepeat, RulesFirst, AllByRule, NoneByRule

(* What is listed of the table is a list.                                  *)
LEMMA EnabledReadsShape == Len(EnabledReads) \in Nat
<1>1. Len(SelectSeq(Ranking, Enabled)) \in Nat
  BY PlanAssumption
<1> QED
  BY <1>1 DEF EnabledReads

(* Attempts are built for as many providers as were read, of one rule.     *)
LEMMA AttemptsShape ==
  ASSUME NEW reads, Len(reads) \in Nat, NEW wanted, NEW route
  PROVE  /\ IsSeq(AttemptsOf(reads, wanted, route))
         /\ \A i \in DOMAIN AttemptsOf(reads, wanted, route) :
              AttemptsOf(reads, wanted, route)[i].route = route
<1> DEFINE F(i) == AttemptOf(reads[i], wanted, route)
           s == [i \in 1 .. Len(reads) |-> F(i)]
<1>1. AttemptsOf(reads, wanted, route) = s
  BY DEF AttemptsOf
<1>2. DOMAIN s = 1 .. Len(reads) /\ \A i \in DOMAIN s : s[i] = F(i)
  OBVIOUS
<1>3. IsSeq(s)
  <2>1. s \in [1 .. Len(reads) -> {s[i] : i \in DOMAIN s}]
    BY <1>2
  <2> HIDE DEF s
  <2> QED
    BY <2>1 DEF IsSeq
<1>4. \A i \in 1 .. Len(reads) : F(i).route = route
  BY DEF AttemptOf
<1> QED
  BY <1>1, <1>2, <1>3, <1>4

-----------------------------------------------------------------------------
(* What one attempt more does to a plan.                                   *)

(* An attempt that is new to an orderly plan may be put at its end, if it  *)
(* is one without a rule or all the others are by one.                     *)
LEMMA AppendKeepsOrder ==
  ASSUME NEW s, IsSeq(s), NoRepeat(s), RulesFirst(s, NoRoute), NEW e,
         \A i \in DOMAIN s : s[i].provider # e.provider \/ s[i].model # e.model,
         e.route = NoRoute \/ AllByRule(s)
  PROVE  NoRepeat(Append(s, e)) /\ RulesFirst(Append(s, e), NoRoute)
<1> DEFINE longer == Append(s, e)
<1>1. /\ DOMAIN s = 1 .. Len(s) /\ Len(s) \in Nat
      /\ DOMAIN longer = 1 .. (Len(s) + 1)
      /\ \A i \in DOMAIN s : longer[i] = s[i]
      /\ longer[Len(s) + 1] = e
  BY AppendShape
<1> HIDE DEF longer
<1>2. NoRepeat(longer)
  BY <1>1 DEF NoRepeat
<1>3. RulesFirst(longer, NoRoute)
  BY <1>1 DEF RulesFirst, AllByRule
<1> QED
  BY <1>2, <1>3 DEF longer

LEMMA AppendKeepsRoutes ==
  ASSUME NEW s, IsSeq(s), AllByRule(s), NEW e, e.route # NoRoute
  PROVE  AllByRule(Append(s, e))
<1> DEFINE longer == Append(s, e)
<1>1. /\ DOMAIN s = 1 .. Len(s) /\ Len(s) \in Nat
      /\ DOMAIN longer = 1 .. (Len(s) + 1)
      /\ \A i \in DOMAIN s : longer[i] = s[i]
      /\ longer[Len(s) + 1] = e
  BY AppendShape
<1> HIDE DEF longer
<1> QED
  BY <1>1 DEF AllByRule, longer

(* What is left of a list once its head is taken.                          *)
LEMMA TailKeepsRoutes ==
  ASSUME NEW s, IsSeq(s), s # <<>>
  PROVE  /\ AllByRule(s) => AllByRule(Tail(s)) /\ Head(s).route # NoRoute
         /\ NoneByRule(s) => NoneByRule(Tail(s)) /\ Head(s).route = NoRoute
<1> DEFINE rest == Tail(s)
<1>1. /\ DOMAIN s = 1 .. Len(s) /\ Len(s) \in Nat \ {0} /\ DOMAIN rest = 1 .. (Len(s) - 1)
      /\ \A i \in DOMAIN rest : rest[i] = s[i + 1]
      /\ Head(s) = s[1]
  BY TailShape
<1> HIDE DEF rest
<1> QED
  BY <1>1 DEF AllByRule, NoneByRule, rest

(* A judged attempt is dropped: the two ends only come apart.              *)
LEMMA DropKeepsEnds ==
  ASSUME NEW kept, NEW left, IsSeq(kept), IsSeq(left), left # <<>>, TwoEnds(kept, left)
  PROVE  TwoEnds(kept, Tail(left))
<1> DEFINE rest == Tail(left)
<1>1. /\ DOMAIN left = 1 .. Len(left) /\ Len(left) \in Nat \ {0}
      /\ DOMAIN rest = 1 .. (Len(left) - 1) /\ Len(rest) = Len(left) - 1
      /\ \A i \in DOMAIN rest : rest[i] = left[i + 1]
  BY TailShape
<1>2. Len(kept) \in Nat
  BY DEF IsSeq
<1> HIDE DEF rest
<1>3. \A j \in DOMAIN rest : j \in Nat /\ j + 1 \in DOMAIN left /\ rest[j] = left[j + 1]
  BY <1>1
<1>4. NoRepeat(rest) /\ RulesFirst(rest, NoRoute)
  <2>1. NoRepeat(rest)
    <3>1. SUFFICES ASSUME NEW i \in DOMAIN rest, NEW j \in DOMAIN rest,
                          rest[i].provider = rest[j].provider, rest[i].model = rest[j].model
                   PROVE  i = j
      BY DEF NoRepeat
    <3>2. i + 1 = j + 1 BY <1>3, <3>1 DEF TwoEnds, NoRepeat
    <3> QED BY <1>3, <3>2
  <2>2. RulesFirst(rest, NoRoute)
    <3>1. SUFFICES ASSUME NEW i \in DOMAIN rest, NEW j \in DOMAIN rest,
                          i < j, rest[i].route = NoRoute
                   PROVE  rest[j].route = NoRoute
      BY DEF RulesFirst
    <3>2. i + 1 < j + 1 BY <1>3, <3>1
    <3> QED BY <1>3, <3>1, <3>2 DEF TwoEnds, RulesFirst
  <2> QED BY <2>1, <2>2
<1>5. \A i \in DOMAIN kept, j \in DOMAIN rest :
        /\ kept[i].provider # rest[j].provider \/ kept[i].model # rest[j].model
        /\ kept[i].route = NoRoute => rest[j].route = NoRoute
  BY <1>3 DEF TwoEnds
<1>6. Len(kept) + Len(rest) <= MaxAttempts
  BY <1>1, <1>2, PlanAssumption DEF TwoEnds
<1> QED
  BY <1>4, <1>5, <1>6 DEF TwoEnds, rest

(* A judged attempt is kept: it goes from one end to the other.            *)
LEMMA KeepKeepsEnds ==
  ASSUME NEW kept, NEW left, IsSeq(kept), IsSeq(left), left # <<>>,
         NoRepeat(kept), RulesFirst(kept, NoRoute), TwoEnds(kept, left)
  PROVE  /\ TwoEnds(Append(kept, Head(left)), Tail(left))
         /\ NoRepeat(Append(kept, Head(left))) /\ RulesFirst(Append(kept, Head(left)), NoRoute)
<1> DEFINE rest == Tail(left)
           e == Head(left)
           longer == Append(kept, e)
<1>1. /\ DOMAIN left = 1 .. Len(left) /\ Len(left) \in Nat \ {0} /\ 1 \in DOMAIN left
      /\ DOMAIN rest = 1 .. (Len(left) - 1) /\ Len(rest) = Len(left) - 1
      /\ \A i \in DOMAIN rest : rest[i] = left[i + 1] /\ i + 1 \in DOMAIN left /\ 1 < i + 1
      /\ e = left[1]
  BY TailShape
<1>2. /\ DOMAIN kept = 1 .. Len(kept) /\ Len(kept) \in Nat
      /\ DOMAIN longer = 1 .. (Len(kept) + 1) /\ Len(longer) = Len(kept) + 1
      /\ \A i \in DOMAIN kept : longer[i] = kept[i]
      /\ longer[Len(kept) + 1] = e
  BY AppendShape
<1> HIDE DEF rest, e, longer
<1>3. TwoEnds(kept, rest)
  BY DropKeepsEnds DEF rest
<1>4. \A i \in DOMAIN kept :
        /\ kept[i].provider # e.provider \/ kept[i].model # e.model
        /\ kept[i].route = NoRoute => e.route = NoRoute
  BY <1>1 DEF TwoEnds
<1>5. \A j \in DOMAIN rest :
        /\ e.provider # rest[j].provider \/ e.model # rest[j].model
        /\ e.route = NoRoute => rest[j].route = NoRoute
  <2>1. NoRepeat(left) /\ RulesFirst(left, NoRoute)
    BY DEF TwoEnds
  <2> QED
    BY <1>1, <2>1 DEF NoRepeat, RulesFirst
<1>6. \A i \in DOMAIN longer : (i \in DOMAIN kept /\ longer[i] = kept[i]) \/ longer[i] = e
  BY <1>2
<1>7. \A i \in DOMAIN longer, j \in DOMAIN rest :
        /\ longer[i].provider # rest[j].provider \/ longer[i].model # rest[j].model
        /\ longer[i].route = NoRoute => rest[j].route = NoRoute
  BY <1>3, <1>5, <1>6 DEF TwoEnds
<1>8. Len(longer) + Len(rest) <= MaxAttempts
  BY <1>1, <1>2, PlanAssumption DEF TwoEnds
<1>9. NoRepeat(longer)
  BY <1>2, <1>4 DEF NoRepeat
<1>10. RulesFirst(longer, NoRoute)
  BY <1>2, <1>4 DEF RulesFirst
<1> QED
  BY <1>3, <1>7, <1>8, <1>9, <1>10 DEF TwoEnds, longer, e, rest

-----------------------------------------------------------------------------

\* A step that touches neither list, and ends where they are of no rule's.
LEMMA ListsUntouched ==
  ASSUME PlanInv, UNCHANGED <<todo, attempts>>, Len(pool') \in Nat,
         pc' \in {"planned", "refused"} \/ UNCHANGED <<pc, rule, pool>>
  PROVE  PlanInv'
BY DEF PlanInv, Stages, IsSeq, NoRepeat, RulesFirst, AllByRule, NoneByRule, TwoEnds

LEMMA InitPlanInv == Init => PlanInv
BY EmptyOrderly, PlanAssumption DEF Init, PlanInv, Stages

LEMMA AskKeepsPlanInv ==
  ASSUME PlanInv, NEW a \in Agent \cup {NoAgent}, NEW m \in Model, Ask(a, m)
  PROVE  PlanInv'
<1>1. attempts' = <<>> /\ todo' = <<>> /\ pool' = <<>> /\ pc' \in {"chain", "match", "refused"}
  BY DEF Ask, Goto
<1>2. IsSeq(attempts)' /\ IsSeq(todo)' /\ IsSeq(pool)' /\ Len(pool') \in Nat
  BY <1>1, EmptyOrderly DEF IsSeq
<1>3. NoRepeat(attempts)' /\ RulesFirst(attempts, NoRoute)' /\ (Len(attempts) <= MaxAttempts)'
  BY <1>1, EmptyOrderly, PlanAssumption DEF NoRepeat, RulesFirst
<1> QED
  BY <1>1, <1>2, <1>3 DEF PlanInv, Stages

(* Until its ladder is read a plan is empty.                               *)
LEMMA EmptyKeepsPlanInv ==
  ASSUME PlanInv, pc \in {"chain", "match", "pool"}, UNCHANGED <<todo, attempts>>,
         Len(pool') \in Nat, pc' = "chain" => IsSeq(pool)',
         pc' \in {"chain", "match", "pool", "ladder", "default", "refused"},
         pc' \in {"pool", "ladder"} => rule' \in Rule
  PROVE  PlanInv'
<1>1. attempts = <<>> /\ todo = <<>>
  BY DEF PlanInv
<1>2. IsSeq(attempts)' /\ IsSeq(todo)'
  BY <1>1, EmptyOrderly DEF IsSeq
<1>3. NoRepeat(attempts)' /\ RulesFirst(attempts, NoRoute)' /\ (Len(attempts) <= MaxAttempts)'
  BY <1>1, EmptyOrderly, PlanAssumption DEF NoRepeat, RulesFirst
<1>4. AllByRule(attempts)' /\ AllByRule(todo)'
  BY <1>1, EmptyOrderly DEF AllByRule
<1> QED
  BY <1>1, <1>2, <1>3, <1>4 DEF PlanInv, Stages

LEMMA ReadChainKeepsPlanInv == PlanInv /\ ReadChain => PlanInv'
<1> SUFFICES ASSUME PlanInv, ReadChain PROVE PlanInv'
  OBVIOUS
<1> DEFINE read == ReadOf(Chain[agent][step + 1])
<1>1. /\ pc = "chain" /\ UNCHANGED <<pc, rule, todo, attempts>>
      /\ pool' = Append(pool, read) \/ pool' = pool
  BY DEF ReadChain, Keep, request
<1> HIDE DEF read
<1>2. IsSeq(pool) /\ IsSeq(Append(pool, read)) /\ Len(Append(pool, read)) \in Nat /\ Len(pool) \in Nat
  BY <1>1, AppendShape DEF PlanInv
<1>3. IsSeq(pool)' /\ Len(pool') \in Nat
  BY <1>1, <1>2 DEF IsSeq
<1> QED
  BY <1>1, <1>3, EmptyKeepsPlanInv

LEMMA OrderChainKeepsPlanInv == PlanInv /\ OrderChain => PlanInv'
<1> SUFFICES ASSUME PlanInv, OrderChain PROVE PlanInv'
  OBVIOUS
<1>1. pc = "chain" /\ UNCHANGED <<todo, attempts>>
  BY DEF OrderChain, Keep
<1>2. DOMAIN pool = 1 .. Len(pool) /\ Len(pool) \in Nat
  BY <1>1 DEF PlanInv, IsSeq
<1>3. pc' \in {"refused", "match"} /\ Len(pool') \in Nat
  <2>1. CASE pool = <<>>
    BY <1>2, <2>1 DEF OrderChain, Goto, Keep
  <2>2. CASE pool # <<>>
    <3>1. PICK place \in [DOMAIN pool -> DOMAIN pool] :
            pc' = "match" /\ pool' = [i \in DOMAIN pool |-> pool[place[i]]]
      BY <2>2 DEF OrderChain, Goto
    <3> QED
      BY <1>2, <3>1
  <2> QED
    BY <2>1, <2>2
<1> QED
  BY <1>1, <1>3, EmptyKeepsPlanInv

LEMMA MatchRuleKeepsPlanInv == PlanInv /\ MatchRule => PlanInv'
<1> SUFFICES ASSUME PlanInv, MatchRule PROVE PlanInv'
  OBVIOUS
<1>1. pc = "match" /\ UNCHANGED <<pool, todo, attempts>> /\ Len(pool') \in Nat
  BY DEF MatchRule, PlanInv
<1>2. rule' \in Rule \cup {NoRule} /\ pc' \in {"default", "pool", "ladder"}
      /\ (rule' = NoRule => pc' = "default")
  BY DEF MatchRule, Goto
<1> QED
  BY <1>1, <1>2, EmptyKeepsPlanInv

LEMMA ListPoolKeepsPlanInv == PlanInv /\ ListPool => PlanInv'
<1> SUFFICES ASSUME PlanInv, ListPool PROVE PlanInv'
  OBVIOUS
<1>1. pc = "pool" /\ UNCHANGED <<rule, todo, attempts>> /\ pc' = "ladder"
  BY DEF ListPool, Goto, Keep, request
<1>2. rule' \in Rule
  BY <1>1 DEF PlanInv
<1>3. Len(pool') \in Nat
  BY EnabledReadsShape DEF ListPool
<1> QED
  BY <1>1, <1>2, <1>3, EmptyKeepsPlanInv

LEMMA QueryFailsKeepsPlanInv == PlanInv /\ QueryFails => PlanInv'
<1> SUFFICES ASSUME PlanInv, QueryFails PROVE PlanInv'
  OBVIOUS
<1>1. /\ pc \in {"chain", "match", "pool"} /\ pc' = "refused"
      /\ UNCHANGED <<pool, todo, attempts>> /\ Len(pool') \in Nat
  BY DEF QueryFails, Goto, Keep, PlanInv
<1> QED
  BY <1>1, EmptyKeepsPlanInv

LEMMA EndLadderKeepsPlanInv == PlanInv /\ EndLadder => PlanInv'
<1> SUFFICES ASSUME PlanInv, EndLadder PROVE PlanInv'
  OBVIOUS
<1>1. pc = "ladder" /\ todo = <<>> /\ pc' = "default" /\ UNCHANGED <<pool, todo, attempts>>
  BY DEF EndLadder, Goto, Keep
<1> QED
  BY <1>1 DEF PlanInv, Stages, IsSeq, NoRepeat, RulesFirst, AllByRule

(* A rung's attempts are all by its rule.                                  *)
LEMMA RungKeepsPlanInv == PlanInv /\ Rung => PlanInv'
<1> SUFFICES ASSUME PlanInv, Rung PROVE PlanInv'
  OBVIOUS
<1>1. /\ pc = "ladder" /\ pc' = pc /\ rule' = rule /\ pool' = pool
      /\ attempts' = attempts /\ todo = <<>>
  BY DEF Rung, Keep, request
<1>2. rule \in Rule /\ rule.name # NoRoute
  BY <1>1, PlanAssumption DEF PlanInv
<1>3. IsSeq(todo)' /\ AllByRule(todo)'
  <2> DEFINE target == rule.targets[step + 1]
             wanted == IF target.model = NoModel THEN model ELSE target.model
             serving == SelectSeq(pool, LAMBDA read : ProviderServes(read, wanted))
             named == <<ReadOf(target.provider)>>
  <2>1. \/ todo' = AttemptsOf(named, wanted, rule.name)
        \/ todo' = todo
        \/ todo' = AttemptsOf(serving, wanted, rule.name)
    BY DEF Rung
  <2>2. Len(named) \in Nat
    OBVIOUS
  <2>3. Len(serving) \in Nat
    OBVIOUS
  <2> HIDE DEF named, serving, wanted
  <2>4. CASE todo' = AttemptsOf(named, wanted, rule.name)
    BY <1>2, <2>2, <2>4, AttemptsShape DEF IsSeq, AllByRule
  <2>5. CASE todo' = AttemptsOf(serving, wanted, rule.name)
    BY <1>2, <2>3, <2>5, AttemptsShape DEF IsSeq, AllByRule
  <2>6. CASE todo' = todo
    BY <1>1, <2>6 DEF PlanInv, IsSeq, AllByRule
  <2> QED
    BY <2>1, <2>4, <2>5, <2>6
<1> QED
  BY <1>1, <1>2, <1>3 DEF PlanInv, Stages, IsSeq, NoRepeat, RulesFirst, AllByRule

(* Only what is new goes in, and only while there is room: by a rule while *)
(* its ladder is read, without one below it.                               *)
LEMMA AddAttemptKeepsPlanInv == PlanInv /\ AddAttempt => PlanInv'
<1> SUFFICES ASSUME PlanInv, AddAttempt PROVE PlanInv'
  OBVIOUS
<1> DEFINE e == Head(todo)
           longer == Append(attempts, e)
           rest == Tail(todo)
<1>1. /\ pc \in {"ladder", "appending"} /\ todo # <<>> /\ todo' = rest
      /\ pc' = pc /\ rule' = rule /\ pool' = pool
      /\ (IsNew(e) /\ attempts' = longer) \/ attempts' = attempts
  BY DEF AddAttempt, Keep, request
<1>2. /\ IsSeq(attempts) /\ IsSeq(todo) /\ NoRepeat(attempts) /\ RulesFirst(attempts, NoRoute)
      /\ Len(attempts) <= MaxAttempts
  BY DEF PlanInv
<1>3. /\ pc = "ladder" => AllByRule(attempts) /\ AllByRule(todo) /\ rule \in Rule
      /\ pc = "appending" => NoneByRule(todo)
  BY DEF PlanInv
<1>4. IsSeq(rest)
  BY <1>1, <1>2, TailShape
<1>5. /\ pc = "ladder" => AllByRule(rest) /\ e.route # NoRoute
      /\ pc = "appending" => NoneByRule(rest) /\ e.route = NoRoute
  BY <1>1, <1>2, <1>3, TailKeepsRoutes
<1>6. CASE attempts' = attempts
  <2> HIDE DEF rest
  <2> QED
    BY <1>1, <1>2, <1>3, <1>4, <1>5, <1>6
    DEF PlanInv, IsSeq, NoRepeat, RulesFirst, AllByRule, NoneByRule
<1>7. CASE IsNew(e) /\ attempts' = longer
  <2>1. Len(attempts) < MaxAttempts
        /\ \A i \in DOMAIN attempts : attempts[i].provider # e.provider \/ attempts[i].model # e.model
    BY <1>7 DEF IsNew
  <2>2. IsSeq(longer) /\ Len(longer) <= MaxAttempts
    BY <1>2, <2>1, AppendShape, PlanAssumption
  <2>3. NoRepeat(longer) /\ RulesFirst(longer, NoRoute)
    BY <1>1, <1>2, <1>3, <1>5, <2>1, AppendKeepsOrder
  <2>4. pc = "ladder" => AllByRule(longer)
    BY <1>2, <1>3, <1>5, AppendKeepsRoutes
  <2> HIDE DEF rest, longer
  <2> QED
    BY <1>1, <1>3, <1>4, <1>5, <1>7, <2>2, <2>3, <2>4
    DEF PlanInv, IsSeq, NoRepeat, RulesFirst, AllByRule, NoneByRule
<1> QED
  BY <1>1, <1>6, <1>7

(* What is put below the ladder is of no rule.                             *)
LEMMA AppendDefaultKeepsPlanInv == PlanInv /\ AppendDefault => PlanInv'
<1> SUFFICES ASSUME PlanInv, AppendDefault PROVE PlanInv'
  OBVIOUS
<1>1. pc = "default" /\ pc' = "appending" /\ attempts' = attempts
      /\ todo' = AttemptsOf(pool', model, NoRoute)
  BY DEF AppendDefault, Goto, Keep
<1>2. Len(pool') \in Nat
  <2>1. CASE agent # NoAgent
    BY <2>1 DEF AppendDefault, PlanInv
  <2>2. CASE agent = NoAgent
    <3>1. pool' = GetProvidersByModel(model)
      BY <2>2 DEF AppendDefault
    <3> QED
      BY <3>1, EnabledReadsShape DEF GetProvidersByModel
  <2> QED
    BY <2>1, <2>2
<1>3. PICK reads : pool' = reads
  OBVIOUS
<1>4. IsSeq(todo)' /\ NoneByRule(todo)'
  BY <1>1, <1>2, <1>3, AttemptsShape DEF IsSeq, NoneByRule
<1> QED
  BY <1>1, <1>2, <1>4 DEF PlanInv, Stages, IsSeq, NoRepeat, RulesFirst

LEMMA NoDefaultKeepsPlanInv == PlanInv /\ NoDefault => PlanInv'
<1> SUFFICES ASSUME PlanInv, NoDefault PROVE PlanInv'
  OBVIOUS
<1>1. UNCHANGED <<todo, attempts>> /\ pc' \in {"planned", "refused"} /\ Len(pool') \in Nat
  BY EmptyOrderly DEF NoDefault, Goto, Keep
<1> QED
  BY <1>1, ListsUntouched

(* The whole plan is what is left to be judged, and nothing is kept yet.   *)
LEMMA EndPlanKeepsPlanInv == PlanInv /\ EndPlan => PlanInv'
<1> SUFFICES ASSUME PlanInv, EndPlan PROVE PlanInv'
  OBVIOUS
<1>1. CASE guard = Unrestricted
  <2>1. UNCHANGED <<todo, attempts>> /\ pc' = "planned" /\ Len(pool') \in Nat
    BY <1>1 DEF EndPlan, Goto, PlanInv
  <2> QED
    BY <2>1, ListsUntouched
<1>2. CASE guard # Unrestricted
  <2>1. todo' = attempts /\ attempts' = <<>> /\ pc' = "judging" /\ pool' = pool
    BY <1>2 DEF EndPlan, Goto
  <2>2. /\ IsSeq(attempts) /\ NoRepeat(attempts) /\ RulesFirst(attempts, NoRoute)
        /\ Len(attempts) <= MaxAttempts /\ Len(attempts) \in Nat
    BY DEF PlanInv, IsSeq
  <2>3. TwoEnds(<<>>, attempts)
    BY <2>2, EmptyOrderly, PlanAssumption DEF TwoEnds
  <2>4. /\ IsSeq(attempts)' /\ NoRepeat(attempts)' /\ RulesFirst(attempts, NoRoute)'
        /\ (Len(attempts) <= MaxAttempts)'
    BY <2>1, EmptyOrderly, PlanAssumption DEF IsSeq, NoRepeat, RulesFirst
  <2>5. IsSeq(todo)'
    BY <2>1, <2>2 DEF IsSeq
  <2>6. TwoEnds(attempts, todo)'
    BY <2>1, <2>3 DEF TwoEnds, NoRepeat, RulesFirst
  <2> QED
    BY <2>1, <2>4, <2>5, <2>6 DEF PlanInv, Stages
<1> QED
  BY <1>1, <1>2

LEMMA JudgeAttemptKeepsPlanInv == PlanInv /\ JudgeAttempt => PlanInv'
<1> SUFFICES ASSUME PlanInv, JudgeAttempt PROVE PlanInv'
  OBVIOUS
<1> DEFINE longer == Append(attempts, Head(todo))
           rest == Tail(todo)
<1>1. /\ pc = "judging" /\ pc' = pc /\ todo # <<>> /\ todo' = rest /\ pool' = pool
      /\ attempts' = longer \/ attempts' = attempts
  BY DEF JudgeAttempt
<1>2. /\ IsSeq(attempts) /\ IsSeq(todo) /\ NoRepeat(attempts) /\ RulesFirst(attempts, NoRoute)
      /\ TwoEnds(attempts, todo) /\ Len(attempts) <= MaxAttempts
  BY <1>1 DEF PlanInv
<1>3. IsSeq(rest)
  BY <1>1, <1>2, TailShape
<1>4. CASE attempts' = attempts
  <2>1. TwoEnds(attempts, rest)
    BY <1>1, <1>2, DropKeepsEnds
  <2> HIDE DEF rest
  <2>2. IsSeq(attempts)' /\ IsSeq(todo)'
    BY <1>1, <1>2, <1>3, <1>4 DEF IsSeq
  <2>3. NoRepeat(attempts)' /\ RulesFirst(attempts, NoRoute)' /\ (Len(attempts) <= MaxAttempts)'
    BY <1>2, <1>4 DEF NoRepeat, RulesFirst
  <2>4. TwoEnds(attempts, todo)'
    BY <1>1, <1>4, <2>1 DEF TwoEnds, NoRepeat, RulesFirst
  <2> QED
    BY <1>1, <2>2, <2>3, <2>4 DEF PlanInv
<1>5. CASE attempts' = longer
  <2>1. TwoEnds(longer, rest) /\ NoRepeat(longer) /\ RulesFirst(longer, NoRoute)
    BY <1>1, <1>2, KeepKeepsEnds
  <2>2. IsSeq(longer) /\ Len(longer) \in Nat /\ Len(rest) \in Nat
    <3>1. IsSeq(longer) /\ Len(longer) = Len(attempts) + 1 /\ Len(attempts) \in Nat
      BY <1>2, AppendShape
    <3>2. Len(rest) \in Nat
      BY <1>3 DEF IsSeq
    <3> QED
      BY <3>1, <3>2
  <2>3. Len(longer) <= MaxAttempts
    <3>1. Len(longer) + Len(rest) <= MaxAttempts /\ MaxAttempts \in Nat
      BY <2>1, PlanAssumption DEF TwoEnds
    <3> HIDE DEF rest, longer
    <3> QED
      BY <2>2, <3>1
  <2> HIDE DEF rest, longer
  <2>4. IsSeq(attempts)' /\ IsSeq(todo)'
    BY <1>1, <1>3, <1>5, <2>2 DEF IsSeq
  <2>5. NoRepeat(attempts)' /\ RulesFirst(attempts, NoRoute)' /\ (Len(attempts) <= MaxAttempts)'
    BY <1>5, <2>1, <2>3 DEF NoRepeat, RulesFirst
  <2>6. TwoEnds(attempts, todo)'
    BY <1>1, <1>5, <2>1 DEF TwoEnds, NoRepeat, RulesFirst
  <2> QED
    BY <1>1, <2>4, <2>5, <2>6 DEF PlanInv
<1> QED
  BY <1>1, <1>4, <1>5

LEMMA EndJudgingKeepsPlanInv == PlanInv /\ EndJudging => PlanInv'
<1> SUFFICES ASSUME PlanInv, EndJudging PROVE PlanInv'
  OBVIOUS
<1>1. UNCHANGED <<todo, attempts>> /\ pc' \in {"planned", "refused"} /\ Len(pool') \in Nat
  BY DEF EndJudging, Goto, Keep, PlanInv
<1> QED
  BY <1>1, ListsUntouched

LEMMA StepKeepsPlanInv == PlanInv /\ [Next]_vars => PlanInv'
<1> SUFFICES ASSUME PlanInv, [Next]_vars PROVE PlanInv'
  OBVIOUS
<1>1. ASSUME NEW a \in Agent \cup {NoAgent}, NEW m \in Model, Ask(a, m)
      PROVE  PlanInv'
  BY <1>1, AskKeepsPlanInv
<1>2. CASE ReadChain \/ OrderChain \/ MatchRule \/ ListPool \/ QueryFails
  BY <1>2, ReadChainKeepsPlanInv, OrderChainKeepsPlanInv, MatchRuleKeepsPlanInv,
     ListPoolKeepsPlanInv, QueryFailsKeepsPlanInv
<1>3. CASE Rung \/ AddAttempt \/ EndLadder \/ AppendDefault \/ NoDefault
  BY <1>3, RungKeepsPlanInv, AddAttemptKeepsPlanInv, EndLadderKeepsPlanInv,
     AppendDefaultKeepsPlanInv, NoDefaultKeepsPlanInv
<1>4. CASE EndPlan \/ JudgeAttempt \/ EndJudging
  BY <1>4, EndPlanKeepsPlanInv, JudgeAttemptKeepsPlanInv, EndJudgingKeepsPlanInv
<1>5. ASSUME UNCHANGED <<pc, request, pool, step, todo, attempts>>
      PROVE  PlanInv'
  BY <1>5, ListsUntouched DEF PlanInv, request
<1>6. ASSUME NEW p \in Provider, NEW record \in Record, UpdateProvider(p, record)
      PROVE  PlanInv'
  BY <1>5, <1>6 DEF UpdateProvider
<1>7. CASE UNCHANGED vars
  BY <1>5, <1>7 DEF vars
<1> QED
  BY <1>1, <1>2, <1>3, <1>4, <1>6, <1>7 DEF Next

(* Whatever is edited while a plan is made, and whatever the rules, the    *)
(* chains and the permissions are: no provider is asked for one model      *)
(* twice, what a rule asks for comes first, and the plan is never longer   *)
(* than maxRouteAttempts.                                                  *)
THEOREM PlansAreOrderly == Spec => []PlanOrderly
<1>1. PlanInv => PlanOrderly
  BY DEF PlanInv, PlanOrderly
<1> QED
  BY <1>1, InitPlanInv, StepKeepsPlanInv, PTL DEF Spec

-----------------------------------------------------------------------------
(* What is judged.  A request of no agent is under no permission, so a     *)
(* plan that skips the judging, as NoDefault's does, is one of nobody's.   *)

AllAllowed == \A i \in DOMAIN attempts : Allowed(attempts[i])

JudgedInv ==
  /\ agent = NoAgent => guard = Unrestricted
  /\ pc \in {"judging", "planned"} /\ guard # Unrestricted => AllAllowed

LEMMA UnjudgedKeepsJudgedInv ==
  ASSUME JudgedInv, UNCHANGED <<agent, guard>>,
         pc' \in {"judging", "planned"} => pc' = pc /\ UNCHANGED attempts
  PROVE  JudgedInv'
BY DEF JudgedInv, AllAllowed, Allowed

LEMMA JudgeKeepsJudgedInv ==
  ASSUME PlanInv, JudgedInv, JudgeAttempt
  PROVE  JudgedInv'
<1>1. UNCHANGED <<agent, guard, pc>> /\ pc = "judging" /\ IsSeq(attempts)
  BY DEF JudgeAttempt, Keep, request, PlanInv
<1>2. CASE ~Allowed(Head(todo))
  BY <1>1, <1>2 DEF JudgeAttempt, JudgedInv, AllAllowed, Allowed
<1>3. CASE Allowed(Head(todo))
  <2> DEFINE longer == Append(attempts, Head(todo))
  <2>1. attempts' = longer
    BY <1>3 DEF JudgeAttempt
  <2>2. /\ DOMAIN longer = 1 .. Len(attempts) + 1 /\ Len(attempts) \in Nat
        /\ \A i \in 1 .. Len(attempts) : longer[i] = attempts[i]
        /\ longer[Len(attempts) + 1] = Head(todo) /\ DOMAIN attempts = 1 .. Len(attempts)
    BY <1>1, AppendShape DEF IsSeq
  <2> HIDE DEF longer
  <2>3. guard # Unrestricted => \A i \in DOMAIN longer : Allowed(longer[i])
    <3> SUFFICES ASSUME guard # Unrestricted, NEW i \in DOMAIN longer PROVE Allowed(longer[i])
      OBVIOUS
    <3>1. i \in 1 .. Len(attempts) \/ i = Len(attempts) + 1
      BY <2>2
    <3>2. \A k \in 1 .. Len(attempts) : Allowed(attempts[k])
      BY <1>1, <2>2 DEF JudgedInv, AllAllowed
    <3> QED
      BY <1>3, <2>2, <3>1, <3>2
  <2> QED
    BY <1>1, <2>1, <2>3 DEF JudgedInv, AllAllowed, Allowed
<1> QED
  BY <1>2, <1>3

LEMMA StepKeepsJudgedInv == PlanInv /\ JudgedInv /\ [Next]_vars => JudgedInv'
<1> SUFFICES ASSUME PlanInv, JudgedInv, [Next]_vars PROVE JudgedInv'
  OBVIOUS
<1>1. ASSUME NEW a \in Agent \cup {NoAgent}, NEW m \in Model, Ask(a, m)
      PROVE  JudgedInv'
  BY <1>1 DEF Ask, Goto, JudgedInv
<1>2. CASE ReadChain \/ OrderChain \/ MatchRule \/ ListPool \/ QueryFails
  BY <1>2, UnjudgedKeepsJudgedInv
     DEF ReadChain, OrderChain, MatchRule, ListPool, QueryFails, Goto, Keep, request
<1>3. CASE Rung \/ AddAttempt \/ EndLadder \/ AppendDefault
  <2>1. UNCHANGED <<agent, guard>>
    BY <1>3 DEF Rung, AddAttempt, EndLadder, AppendDefault, Keep, request
  <2>2. pc' \notin {"judging", "planned"}
    BY <1>3 DEF Rung, AddAttempt, EndLadder, AppendDefault, Goto
  <2> QED
    BY <2>1, <2>2, UnjudgedKeepsJudgedInv
<1>4. CASE NoDefault
  BY <1>4 DEF NoDefault, Goto, Keep, request, JudgedInv
<1>5. CASE EndPlan
  BY <1>5 DEF EndPlan, Goto, Keep, request, JudgedInv, AllAllowed
<1>6. CASE JudgeAttempt
  BY <1>6, JudgeKeepsJudgedInv
<1>7. CASE EndJudging
  BY <1>7 DEF EndJudging, Goto, Keep, request, JudgedInv, AllAllowed, Allowed
<1>8. ASSUME NEW p \in Provider, NEW record \in Record, UpdateProvider(p, record)
      PROVE  JudgedInv'
  BY <1>8, UnjudgedKeepsJudgedInv DEF UpdateProvider, request
<1>9. CASE UNCHANGED vars
  BY <1>9, UnjudgedKeepsJudgedInv DEF vars, request
<1> QED
  BY <1>1, <1>2, <1>3, <1>4, <1>5, <1>6, <1>7, <1>8, <1>9 DEF Next

(* Whatever a rule substitutes, and whatever was edited on the way: an     *)
(* agent with permissions is asked for nothing it is not permitted         *)
(* (FilterAttempts).                                                       *)
THEOREM NoRuleIsAWayAround == Spec => []RulesAreNoWayAround
<1>1. Init => JudgedInv
  BY DEF Init, JudgedInv
<1>2. JudgedInv => RulesAreNoWayAround
  BY DEF JudgedInv, AllAllowed, Allowed, RulesAreNoWayAround
<1> QED
  BY <1>1, <1>2, InitPlanInv, StepKeepsPlanInv, StepKeepsJudgedInv, PTL DEF Spec

-----------------------------------------------------------------------------
(* What would be tried without a rule.  From the moment it is put below    *)
(* the ladder, each provider of it is in the plan or about to be added, or *)
(* the plan is full.  Only a plan that is judged loses any, and nobody     *)
(* without permissions has a plan judged.                                  *)

Listed(s) == Len(s) \in Nat /\ DOMAIN s = 1 .. Len(s)

Covered(list, p) == \E i \in DOMAIN list : list[i].provider = p
Reached(plan, p) == Len(plan) >= MaxAttempts \/ Covered(plan, p)

BelowInv ==
  /\ Listed(pool)
  /\ pc = "judging" => guard # Unrestricted
  /\ pc = "appending" =>
       \A i \in DOMAIN pool : Reached(attempts, pool[i].id) \/ Covered(todo, pool[i].id)
  /\ pc = "planned" /\ guard = Unrestricted =>
       \A i \in DOMAIN pool : Reached(attempts, pool[i].id)

LEMMA EmptyListed == Listed(<<>>)
BY DEF Listed

(* What is read of the table, all of it or for one model, is a list.       *)
LEMMA EnabledReadsListed == Listed(EnabledReads)
<1> DEFINE n == Len(SelectSeq(Ranking, Enabled))
           F(i) == ReadOf(SelectSeq(Ranking, Enabled)[i])
           s == [i \in 1 .. n |-> F(i)]
<1>1. n \in Nat
  BY PlanAssumption
<1>2. DOMAIN s = 1 .. n
  OBVIOUS
<1>3. EnabledReads = s
  BY DEF EnabledReads
<1> HIDE DEF s
<1>4. Len(s) = n
  BY <1>1, <1>2
<1> QED
  BY <1>1, <1>2, <1>3, <1>4 DEF Listed

LEMMA ByModelListed ==
  ASSUME NEW wanted
  PROVE  Listed(GetProvidersByModel(wanted))
<1> DEFINE named == SelectSeq(EnabledReads, LAMBDA read : Names(read, wanted))
           open == SelectSeq(EnabledReads, ServesAnyModel)
<1>1. Len(named) \in Nat /\ Len(open) \in Nat
  BY EnabledReadsListed DEF Listed
<1>2. GetProvidersByModel(wanted) \in {EnabledReads, named \o open}
  BY DEF GetProvidersByModel
<1> HIDE DEF named, open
<1>3. Listed(named \o open)
  BY <1>1 DEF Listed
<1> QED
  BY <1>2, <1>3, EnabledReadsListed

(* Putting a list below the ladder is about to add each provider of it.    *)
LEMMA AttemptsCover ==
  ASSUME NEW reads, Listed(reads), NEW wanted, NEW route, NEW i \in DOMAIN reads
  PROVE  Covered(AttemptsOf(reads, wanted, route), reads[i].id)
<1>1. DOMAIN AttemptsOf(reads, wanted, route) = 1 .. Len(reads)
  BY DEF AttemptsOf
<1>2. i \in 1 .. Len(reads)
  BY DEF Listed
<1>3. AttemptsOf(reads, wanted, route)[i] = AttemptOf(reads[i], wanted, route)
  BY <1>2 DEF AttemptsOf
<1> QED
  BY <1>1, <1>2, <1>3 DEF Covered, AttemptOf

-----------------------------------------------------------------------------

(* A step that only reads, before the plan is at its end.                  *)
LEMMA ReadKeepsBelowInv ==
  ASSUME Listed(pool)', pc' \notin {"judging", "appending", "planned"}
  PROVE  BelowInv'
BY DEF BelowInv

(* A step that leaves what the invariant speaks of as it is.               *)
LEMMA UntouchedKeepsBelowInv ==
  ASSUME BelowInv, UNCHANGED <<pc, guard, pool, todo, attempts>>
  PROVE  BelowInv'
BY DEF BelowInv, Listed, Reached, Covered

LEMMA AskKeepsBelowInv ==
  ASSUME NEW a \in Agent \cup {NoAgent}, NEW m \in Model, Ask(a, m)
  PROVE  BelowInv'
<1>1. pool' = <<>> /\ pc' \in {"match", "chain", "refused"}
  BY DEF Ask, Goto
<1>2. Listed(pool)'
  BY <1>1, EmptyListed DEF Listed
<1> QED
  BY <1>1, <1>2, ReadKeepsBelowInv

LEMMA ChainKeepsBelowInv ==
  ASSUME PlanInv, BelowInv, ReadChain \/ OrderChain
  PROVE  BelowInv'
<1>1. pc = "chain" /\ pc' \notin {"judging", "appending", "planned"}
  BY DEF ReadChain, OrderChain, Goto
<1>2. CASE pool' = pool
  BY <1>1, <1>2, ReadKeepsBelowInv DEF BelowInv, Listed
<1>3. CASE ReadChain /\ pool' # pool
  <2>1. pool' = Append(pool, ReadOf(Chain[agent][step + 1]))
    BY <1>3 DEF ReadChain
  <2>2. IsSeq(pool)
    BY <1>1 DEF PlanInv
  <2>3. Listed(Append(pool, ReadOf(Chain[agent][step + 1])))
    BY <2>2, AppendShape DEF Listed
  <2> QED
    BY <1>1, <2>1, <2>3, ReadKeepsBelowInv DEF Listed
<1>4. CASE OrderChain /\ pool' # pool
  <2>1. PICK place : pool' = [i \in DOMAIN pool |-> pool[place[i]]]
    BY <1>4 DEF OrderChain
  <2>2. DOMAIN pool' = 1 .. Len(pool) /\ Len(pool) \in Nat
    BY <2>1 DEF BelowInv, Listed
  <2>3. Listed(pool)'
    BY <2>1, <2>2 DEF Listed
  <2> QED
    BY <1>1, <2>3, ReadKeepsBelowInv
<1> QED
  BY <1>2, <1>3, <1>4

LEMMA ListPoolKeepsBelowInv == ListPool => BelowInv'
<1> SUFFICES ASSUME ListPool PROVE BelowInv'
  OBVIOUS
<1>1. pool' = EnabledReads /\ pc' = "ladder"
  BY DEF ListPool, Goto
<1>2. PICK reads : reads = EnabledReads
  OBVIOUS
<1>3. Listed(pool)'
  BY <1>1, <1>2, EnabledReadsListed DEF Listed
<1> QED
  BY <1>1, <1>3, ReadKeepsBelowInv

(* One attempt of the list that is added: it is in the plan now, or one of *)
(* its provider was, or the plan is full; and the plan only grows.         *)
LEMMA AddAttemptKeepsBelowInv == PlanInv /\ BelowInv /\ AddAttempt => BelowInv'
<1> SUFFICES ASSUME PlanInv, BelowInv, AddAttempt PROVE BelowInv'
  OBVIOUS
<1> DEFINE longer == Append(attempts, Head(todo))
           rest == Tail(todo)
<1>1. /\ todo # <<>> /\ todo' = rest /\ UNCHANGED <<pc, guard, pool>>
      /\ pc \in {"ladder", "appending"} /\ IsSeq(attempts) /\ IsSeq(todo)
      /\ attempts' = IF IsNew(Head(todo)) THEN longer ELSE attempts
  BY DEF AddAttempt, Keep, request, PlanInv
<1>2. Listed(pool)'
  BY <1>1 DEF BelowInv, Listed
<1>3. CASE pc = "ladder"
  BY <1>1, <1>2, <1>3, ReadKeepsBelowInv
<1>4. CASE pc = "appending"
  <2>1. /\ DOMAIN todo = 1 .. Len(todo) /\ Len(todo) \in Nat \ {0}
        /\ DOMAIN rest = 1 .. (Len(todo) - 1)
        /\ \A i \in DOMAIN rest : rest[i] = todo[i + 1]
        /\ Head(todo) = todo[1]
    BY <1>1, TailShape
  <2>2. /\ DOMAIN attempts = 1 .. Len(attempts) /\ Len(attempts) \in Nat
        /\ DOMAIN longer = 1 .. (Len(attempts) + 1) /\ Len(longer) = Len(attempts) + 1
        /\ \A i \in DOMAIN attempts : longer[i] = attempts[i]
        /\ longer[Len(attempts) + 1] = Head(todo)
    BY <1>1, AppendShape
  <2> HIDE DEF longer, rest
  <2>3. MaxAttempts \in Nat
    BY PlanAssumption
  <2>4. ASSUME NEW p, Reached(attempts, p)
        PROVE  Reached(attempts', p)
    <3>1. \A i \in DOMAIN attempts : i \in DOMAIN longer
      BY <2>2
    <3>2. CASE attempts' = attempts
      BY <2>4, <3>2 DEF Reached, Covered
    <3>3. CASE attempts' = longer
      <4>1. CASE Len(attempts) >= MaxAttempts
        BY <2>2, <2>3, <3>3, <4>1 DEF Reached
      <4>2. CASE Covered(attempts, p)
        BY <2>2, <3>1, <3>3, <4>2 DEF Reached, Covered
      <4> QED
        BY <2>4, <4>1, <4>2 DEF Reached
    <3> QED
      BY <1>1, <3>2, <3>3
  <2>5. Reached(attempts', Head(todo).provider)
    <3>1. CASE IsNew(Head(todo))
      <4>1. Len(attempts) + 1 \in DOMAIN longer
        BY <2>2
      <4>2. Covered(longer, Head(todo).provider)
        BY <2>2, <4>1 DEF Covered
      <4> QED
        BY <1>1, <3>1, <4>2 DEF Reached, Covered
    <3>2. CASE ~IsNew(Head(todo))
      <4>1. Reached(attempts, Head(todo).provider)
        BY <2>2, <2>3, <3>2 DEF IsNew, Reached, Covered
      <4> QED
        BY <1>1, <3>2, <4>1 DEF Reached, Covered
    <3> QED
      BY <3>1, <3>2
  <2>6. ASSUME NEW p, Covered(todo, p)
        PROVE  Covered(rest, p) \/ Head(todo).provider = p
    <3>1. PICK i \in DOMAIN todo : todo[i].provider = p
      BY <2>6 DEF Covered
    <3>2. CASE i = 1
      BY <2>1, <3>1, <3>2
    <3>3. CASE i # 1
      <4>1. i - 1 \in DOMAIN rest /\ (i - 1) + 1 = i
        BY <2>1, <3>3
      <4>2. rest[i - 1] = todo[i]
        BY <2>1, <4>1
      <4> QED
        BY <3>1, <4>1, <4>2 DEF Covered
    <3> QED
      BY <3>2, <3>3
  <2>7. \A i \in DOMAIN pool : Reached(attempts', pool[i].id) \/ Covered(rest, pool[i].id)
    <3> SUFFICES ASSUME NEW i \in DOMAIN pool
                 PROVE  Reached(attempts', pool[i].id) \/ Covered(rest, pool[i].id)
      OBVIOUS
    <3>1. Reached(attempts, pool[i].id) \/ Covered(todo, pool[i].id)
      BY <1>4 DEF BelowInv
    <3>2. CASE Reached(attempts, pool[i].id)
      BY <2>4, <3>2
    <3>3. CASE Covered(todo, pool[i].id)
      BY <2>5, <2>6, <3>3
    <3> QED
      BY <3>1, <3>2, <3>3
  <2> QED
    BY <1>1, <1>2, <1>4, <2>7 DEF BelowInv, Reached, Covered
<1> QED
  BY <1>1, <1>3, <1>4

LEMMA AppendDefaultKeepsBelowInv == BelowInv /\ AppendDefault => BelowInv'
<1> SUFFICES ASSUME BelowInv, AppendDefault PROVE BelowInv'
  OBVIOUS
<1>1. pc' = "appending" /\ todo' = AttemptsOf(pool', model, NoRoute)
  BY DEF AppendDefault, Goto
<1>2. pool' = pool \/ pool' = GetProvidersByModel(model)
  BY DEF AppendDefault
<1>3. PICK reads : reads = pool'
  OBVIOUS
<1>4. Listed(reads)
  BY <1>2, <1>3, ByModelListed DEF BelowInv
<1>5. \A i \in DOMAIN reads : Covered(AttemptsOf(reads, model, NoRoute), reads[i].id)
  BY <1>4, AttemptsCover
<1> QED
  BY <1>1, <1>3, <1>4, <1>5 DEF BelowInv, Listed, Covered

LEMMA NoDefaultKeepsBelowInv == NoDefault => BelowInv'
<1> SUFFICES ASSUME NoDefault PROVE BelowInv'
  OBVIOUS
<1>1. pool' = <<>> /\ pc' \in {"refused", "planned"}
  BY DEF NoDefault, Goto
<1> QED
  BY <1>1, EmptyListed DEF BelowInv, Listed

LEMMA EndPlanKeepsBelowInv == BelowInv /\ EndPlan => BelowInv'
<1> SUFFICES ASSUME BelowInv, EndPlan PROVE BelowInv'
  OBVIOUS
<1>1. UNCHANGED <<guard, pool>> /\ pc = "appending" /\ todo = <<>>
  BY DEF EndPlan, Keep, request
<1>2. \A i \in DOMAIN pool : Reached(attempts, pool[i].id)
  BY <1>1 DEF BelowInv, Covered
<1>3. CASE guard = Unrestricted
  <2>1. pc' = "planned" /\ UNCHANGED attempts
    BY <1>3 DEF EndPlan, Goto
  <2> QED
    BY <1>1, <1>2, <2>1 DEF BelowInv, Listed, Reached, Covered
<1>4. CASE guard # Unrestricted
  <2>1. pc' = "judging"
    BY <1>4 DEF EndPlan, Goto
  <2> QED
    BY <1>1, <1>4, <2>1 DEF BelowInv, Listed
<1> QED
  BY <1>3, <1>4

LEMMA JudgingKeepsBelowInv ==
  ASSUME BelowInv, JudgeAttempt \/ EndJudging
  PROVE  BelowInv'
<1>1. UNCHANGED <<guard, pool>> /\ guard # Unrestricted /\ pc' \in {"judging", "planned", "refused"}
  BY DEF JudgeAttempt, EndJudging, Goto, Keep, request, BelowInv
<1> QED
  BY <1>1 DEF BelowInv, Listed

LEMMA StepKeepsBelowInv == PlanInv /\ BelowInv /\ [Next]_vars => BelowInv'
<1> SUFFICES ASSUME PlanInv, BelowInv, [Next]_vars PROVE BelowInv'
  OBVIOUS
<1>1. ASSUME NEW a \in Agent \cup {NoAgent}, NEW m \in Model, Ask(a, m)
      PROVE  BelowInv'
  BY <1>1, AskKeepsBelowInv
<1>2. CASE ReadChain \/ OrderChain
  BY <1>2, ChainKeepsBelowInv
<1>3. CASE MatchRule \/ QueryFails \/ Rung \/ EndLadder
  <2>1. pool' = pool /\ pc' \notin {"judging", "appending", "planned"}
    BY <1>3 DEF MatchRule, QueryFails, Rung, EndLadder, Goto
  <2> QED
    BY <2>1, ReadKeepsBelowInv DEF BelowInv, Listed
<1>4. CASE ListPool
  BY <1>4, ListPoolKeepsBelowInv
<1>5. CASE AddAttempt
  BY <1>5, AddAttemptKeepsBelowInv
<1>6. CASE AppendDefault \/ NoDefault
  BY <1>6, AppendDefaultKeepsBelowInv, NoDefaultKeepsBelowInv
<1>7. CASE EndPlan
  BY <1>7, EndPlanKeepsBelowInv
<1>8. CASE JudgeAttempt \/ EndJudging
  BY <1>8, JudgingKeepsBelowInv
<1>9. ASSUME NEW p \in Provider, NEW record \in Record, UpdateProvider(p, record)
      PROVE  BelowInv'
  BY <1>9, UntouchedKeepsBelowInv DEF UpdateProvider, request
<1>10. CASE UNCHANGED vars
  BY <1>10, UntouchedKeepsBelowInv DEF vars, request
<1> QED
  BY <1>1, <1>2, <1>3, <1>4, <1>5, <1>6, <1>7, <1>8, <1>9, <1>10 DEF Next

(* "A rule whose providers are all gone leaves the request working rather  *)
(* than dead" (PlanModelRoute), whatever the rules are and whatever is     *)
(* edited on the way: until the plan is full, every provider that would be *)
(* tried without a rule is in it.                                          *)
THEOREM NoRuleIsADeadEnd == Spec => []WorksWithoutRule
<1>1. Init => BelowInv
  BY EmptyListed DEF Init, BelowInv
<1>2. PlanInv /\ BelowInv => WorksWithoutRule
  <2> SUFFICES ASSUME PlanInv, BelowInv, pc = "planned", guard = Unrestricted,
                      Len(attempts) < MaxAttempts, NEW i \in DOMAIN pool
               PROVE  \E j \in DOMAIN attempts : attempts[j].provider = pool[i].id
    BY DEF WorksWithoutRule
  <2>1. Len(attempts) \in Nat /\ MaxAttempts \in Nat
    BY PlanAssumption DEF PlanInv, IsSeq
  <2>2. Reached(attempts, pool[i].id)
    BY DEF BelowInv
  <2> QED
    BY <2>1, <2>2 DEF Reached, Covered
<1> QED
  BY <1>1, <1>2, InitPlanInv, StepKeepsPlanInv, StepKeepsBelowInv, PTL DEF Spec

-----------------------------------------------------------------------------

LEMMA LeastIsLeast ==
  ASSUME NEW positions, positions \subseteq Nat, positions # {}
  PROVE  Least(positions) \in positions /\ \A i \in positions : Least(positions) <= i
BY LeastNatural DEF Least

\* How far one size class is from another.
Apart(t, u) ==
  IF t = u THEN 0 ELSE IF {t, u} = {"small", "large"} THEN 2 ELSE 1

(* The classes are searched from the nearest to the furthest, each once.   *)
LEMMA PreferenceNearestFirst ==
  ASSUME NEW tier \in Tiers
  PROVE  /\ \A u \in Tiers : \E t \in 1 .. 3 : tierPreference[tier][t] = u
         /\ \A t \in 1 .. 3 : tierPreference[tier][t] \in Tiers
         /\ \A t, u \in 1 .. 3 : t <= u =>
              Apart(tierPreference[tier][t], tier) <= Apart(tierPreference[tier][u], tier)
<1>1. tier \in {"small", "standard", "large"}
  BY DEF Tiers
<1>2. \A t \in 1 .. 3 : t = 1 \/ t = 2 \/ t = 3
  OBVIOUS
<1> QED
  BY <1>1, <1>2 DEF tierPreference, Tiers, Apart

(* "An exact match is always it; otherwise the closest size class the      *)
(* provider offers is taken" (PickProviderModel), of every list of models  *)
(* and every name: what is asked for is a model of the list, the name      *)
(* itself if it is there, and none of the list is of a nearer class.       *)
THEOREM AskedForTheNearest ==
  ASSUME NEW models \in Seq(Model), models # <<>>, NEW requested \in Model
  PROVE  LET picked == PickProviderModel(models, requested)
         IN  /\ \E i \in DOMAIN models : models[i] = picked
             /\ (\E i \in DOMAIN models : models[i] = requested) => picked = requested
             /\ \A j \in DOMAIN models :
                  Apart(Tier[picked], Tier[requested]) <= Apart(Tier[models[j]], Tier[requested])
<1> DEFINE picked == PickProviderModel(models, requested)
           same == {i \in DOMAIN models : models[i] = requested}
           spelled == {i \in DOMAIN models : Spelling[models[i]] = Spelling[requested]}
           sized(t) == {i \in DOMAIN models : Tier[models[i]] = tierPreference[Tier[requested]][t]}
           classes == {t \in 1 .. 3 : sized(t) # {}}
<1>1. /\ DOMAIN models = 1 .. Len(models) /\ Len(models) \in Nat \ {0}
      /\ \A i \in DOMAIN models : models[i] \in Model
  OBVIOUS
<1>2. Tier[requested] \in Tiers /\ \A i \in DOMAIN models : Tier[models[i]] \in Tiers
  BY <1>1, PlanAssumption
<1>3. \A j \in DOMAIN models : Apart(Tier[requested], Tier[requested])
                                  <= Apart(Tier[models[j]], Tier[requested])
  BY <1>2 DEF Apart
<1>4. CASE same # {}
  BY <1>3, <1>4 DEF PickProviderModel
<1>5. CASE same = {} /\ spelled # {}
  <2>1. picked = models[Least(spelled)]
    BY <1>5 DEF PickProviderModel
  <2>2. Least(spelled) \in spelled
    <3>1. spelled \subseteq Nat /\ spelled # {}
      BY <1>1, <1>5
    <3> HIDE DEF spelled
    <3> QED
      BY <3>1, LeastIsLeast
  <2>3. Tier[picked] = Tier[requested]
    BY <1>1, <2>1, <2>2, PlanAssumption
  <2> QED
    BY <1>3, <1>5, <2>1, <2>2, <2>3
<1>6. CASE same = {} /\ spelled = {}
  <2>1. picked = models[Least(sized(Least(classes)))]
    BY <1>6 DEF PickProviderModel
  <2>2. \A j \in DOMAIN models : \E t \in classes : j \in sized(t)
    BY <1>2, PreferenceNearestFirst
  <2>3. classes # {} /\ classes \subseteq Nat
    <3>1. 1 \in DOMAIN models
      BY <1>1
    <3>2. \E t \in classes : 1 \in sized(t)
      BY <2>2, <3>1
    <3> QED
      BY <3>2
  <2> DEFINE nearest == Least(classes)
  <2>4. nearest \in classes /\ \A t \in classes : nearest <= t
    <3> HIDE DEF classes
    <3> QED
      BY <2>3, LeastIsLeast
  <2>5. Least(sized(nearest)) \in sized(nearest)
    <3> DEFINE offered == sized(nearest)
    <3>1. offered \subseteq Nat
      BY <1>1
    <3>2. offered # {}
      <4> HIDE DEF nearest
      <4> QED
        BY <2>4
    <3> HIDE DEF offered
    <3>3. Least(offered) \in offered
      BY <3>1, <3>2, LeastIsLeast
    <3> QED
      BY <3>3 DEF offered
  <2>6. Tier[picked] = tierPreference[Tier[requested]][nearest] /\ nearest \in 1 .. 3
    BY <2>1, <2>4, <2>5
  <2> HIDE DEF nearest
  <2>7. ASSUME NEW j \in DOMAIN models
        PROVE  Apart(Tier[picked], Tier[requested]) <= Apart(Tier[models[j]], Tier[requested])
    <3>1. PICK t \in classes : j \in sized(t)
      BY <2>2
    <3>2. nearest <= t /\ t \in 1 .. 3
      BY <2>4, <3>1
    <3> QED
      BY <1>2, <2>6, <3>1, <3>2, PreferenceNearestFirst
  <2>8. \E i \in DOMAIN models : models[i] = picked
    BY <2>1, <2>5 DEF nearest
  <2> QED
    BY <1>6, <2>7, <2>8
<1> QED
  BY <1>4, <1>5, <1>6

-----------------------------------------------------------------------------
(* Which rule a request is routed by.                                      *)

LEMMA MaxOf ==
  ASSUME NEW N \in Nat, NEW T, T \subseteq 0 .. N, T # {}
  PROVE  Max(T) \in T /\ \A t \in T : t <= Max(T)
BY GreatestBelow DEF Max

LEMMA MinOf ==
  ASSUME NEW T, T \subseteq Nat, T # {}
  PROVE  Min(T) \in T /\ \A t \in T : Min(T) <= t
BY LeastNatural DEF Min

LEMMA WordShape ==
  ASSUME NEW word \in Seq(Letter)
  PROVE  /\ Len(word) \in Nat /\ DOMAIN word = 1 .. Len(word)
         /\ Stars(word) \subseteq 1 .. Len(word)
         /\ \A i \in 1 .. Len(word) : i \in Stars(word) <=> word[i] = Star
BY DEF Stars

(* Between two wildcards a name is read letter by letter.                  *)
LEMMA PiecesAreRead ==
  ASSUME NEW pattern \in Seq(Letter), NEW name \in Seq(Letter),
         NEW read \in [0 .. Len(pattern) -> 0 .. Len(name)], ReadAlong(read, pattern, name),
         NEW i \in 0 .. Len(pattern), NEW j \in i .. Len(pattern),
         \A k \in i + 1 .. j : pattern[k] # Star
  PROVE  read[j] = read[i] + (j - i) /\ Occurs(pattern, i, j, name, read[i])
<1>0. /\ Len(pattern) \in Nat /\ Len(name) \in Nat
      /\ \A k \in 0 .. Len(pattern) : read[k] \in 0 .. Len(name)
  OBVIOUS
<1>1. \A k \in i .. j : read[k] = read[i] + (k - i)
  <2> DEFINE Bad == {k \in i .. j : read[k] # read[i] + (k - i)}
  <2> SUFFICES ASSUME Bad # {} PROVE FALSE
    OBVIOUS
  <2>1. Bad \subseteq Nat
    OBVIOUS
  <2> HIDE DEF Bad
  <2>2. PICK k \in Bad : \A l \in Bad : k <= l
    BY <2>1, LeastNatural
  <2> USE DEF Bad
  <2>3. k # i
    BY <1>0, <2>2
  <2>4. k \in i + 1 .. j /\ k - 1 \in i .. j /\ k - 1 \notin Bad
    BY <1>0, <2>2, <2>3
  <2>5. read[k] = read[k - 1] + 1
    <3>1. k \in 1 .. Len(pattern) /\ pattern[k] # Star
      BY <1>0, <2>4
    <3> QED
      BY <3>1 DEF ReadAlong
  <2> QED
    BY <1>0, <2>4, <2>5
<1>2. \A k \in 1 .. j - i : pattern[i + k] = name[read[i] + k]
  <2> TAKE k \in 1 .. j - i
  <2>1. i + k \in i + 1 .. j /\ read[i + k] = read[i] + k
    BY <1>1
  <2> QED
    BY <2>1 DEF ReadAlong
<1> QED
  BY <1>1, <1>2 DEF Occurs

(* A name that can be read along a pattern is found by taking each piece   *)
(* where it first occurs: every star is come to no later than on any other *)
(* way to read the name, so no piece is passed over that is still needed.  *)
LEMMA StandsIsFound ==
  ASSUME NEW pattern \in Seq(Letter), NEW name \in Seq(Letter),
         IsWildcard(pattern), Stands(pattern, name)
  PROVE  MatchModelPattern(pattern, name)
<1>0. /\ Len(pattern) \in Nat /\ Len(name) \in Nat
      /\ Stars(pattern) \subseteq 1 .. Len(pattern)
      /\ \A i \in 1 .. Len(pattern) : i \in Stars(pattern) <=> pattern[i] = Star
  BY WordShape
<1>1. PICK read \in [0 .. Len(pattern) -> 0 .. Len(name)] : ReadAlong(read, pattern, name)
  BY DEF Stands
<1> DEFINE StarsTo(k) == {s \in Stars(pattern) : s <= k}
           Early(used, k) == \A s \in StarsTo(k) : /\ TakesPiece(used, s, pattern, name)
                                                   /\ used[s] <= read[s - 1]
           Bad == {k \in 0 .. Len(pattern) :
                     \A used \in [StarsTo(k) -> 0 .. Len(name)] : ~ Early(used, k)}
<1>2. Bad = {}
  <2> SUFFICES ASSUME Bad # {} PROVE FALSE
    OBVIOUS
  <2>1. Bad \subseteq Nat
    BY <1>0
  <2> HIDE DEF Bad
  <2>2. PICK k \in Bad : \A l \in Bad : k <= l
    BY <1>0, <2>1, LeastNatural
  <2> USE DEF Bad
  <2>3. k \in 1 .. Len(pattern)
    <3>1. StarsTo(0) = {}
      BY <1>0
    <3>2. [s \in {} |-> 0] \in [StarsTo(0) -> 0 .. Len(name)] /\ Early([s \in {} |-> 0], 0)
      BY <3>1
    <3> HIDE DEF StarsTo, Early
    <3>3. 0 \notin Bad
      BY <3>2
    <3> QED
      BY <1>0, <2>2, <3>3
  <2>4. PICK used \in [StarsTo(k - 1) -> 0 .. Len(name)] : Early(used, k - 1)
    <3> HIDE DEF StarsTo, Early
    <3>1. k - 1 \in 0 .. Len(pattern)
      BY <1>0, <2>3
    <3>2. k - 1 \notin Bad
      <4> HIDE DEF Bad
      <4>1. k \in Nat /\ ~(k <= k - 1)
        BY <1>0, <2>3
      <4> QED
        BY <2>2, <4>1
    <3> QED
      BY <3>1, <3>2
  <2>5. k \in Stars(pattern)
    <3> SUFFICES ASSUME k \notin Stars(pattern) PROVE FALSE
      BY <1>0
    <3>1. StarsTo(k) = StarsTo(k - 1)
      BY <1>0, <2>3
    <3> QED
      BY <1>0, <2>4, <3>1
  <2> DEFINE before == StarsTo(k - 1)
             last == Max(before)
             found == {at \in used[last] .. Len(name) : Occurs(pattern, last, k - 1, name, at)}
             taken == IF before = {} THEN k - 1 ELSE Min(found) + (k - 1 - last)
             longer == [s \in StarsTo(k) |-> IF s = k THEN taken ELSE used[s]]
  <2>6. StarsTo(k) = before \cup {k} /\ k \notin before
    BY <1>0, <2>3, <2>5
  <2>7. /\ taken \in 0 .. Len(name) /\ taken <= read[k - 1]
        /\ IF before = {} THEN Occurs(pattern, 0, k - 1, name, 0) ELSE found # {}
    <3>0. \A l \in 1 .. k - 1 : pattern[l] = Star => l \in before
      BY <1>0, <2>3
    <3>1. CASE before = {}
      <4>1. \A l \in 0 + 1 .. k - 1 : pattern[l] # Star
        BY <3>0, <3>1
      <4>2. 0 \in 0 .. Len(pattern) /\ k - 1 \in 0 .. Len(pattern)
        BY <1>0, <2>3
      <4>3. read[k - 1] = read[0] + (k - 1 - 0) /\ Occurs(pattern, 0, k - 1, name, read[0])
        BY <1>1, <4>1, <4>2, PiecesAreRead
      <4>4. read[0] = 0
        BY <1>1 DEF ReadAlong
      <4>5. read[k - 1] = k - 1 /\ k - 1 \in 0 .. Len(name)
        <5>1. read[k - 1] \in 0 .. Len(name)
          BY <1>1, <4>2
        <5>2. read[k - 1] = k - 1
          BY <2>3, <4>3, <4>4
        <5> QED
          BY <5>1, <5>2
      <4> QED
        BY <3>1, <4>3, <4>4, <4>5
    <3>2. CASE before # {}
      <4>1. last \in before /\ \A s \in before : s <= last
        <5>1. before \subseteq 0 .. Len(pattern)
          BY <1>0
        <5> HIDE DEF before
        <5> QED
          BY <1>0, <3>2, <5>1, MaxOf
      <4>0. last \in 1 .. k - 1 /\ last \in Stars(pattern) /\ k - 1 \in last .. Len(pattern)
        BY <1>0, <2>3, <4>1
      <4>2. read[k - 1] = read[last] + (k - 1 - last) /\ Occurs(pattern, last, k - 1, name, read[last])
        <5>1. \A l \in last + 1 .. k - 1 : pattern[l] # Star
          <6> HIDE DEF before, last
          <6> QED
            BY <3>0, <4>0, <4>1
        <5>2. last \in 0 .. Len(pattern) /\ k - 1 \in last .. Len(pattern)
          BY <1>0, <2>3, <4>0
        <5> HIDE DEF last
        <5> QED
          BY <1>1, <5>1, <5>2, PiecesAreRead
      <4>3. used[last] <= read[last]
        <5>1. used[last] <= read[last - 1]
          BY <1>0, <2>4, <4>1
        <5>2. read[last - 1] <= read[last]
          BY <1>0, <1>1, <4>1 DEF ReadAlong
        <5> QED
          BY <1>0, <4>1, <5>1, <5>2
      <4>4. /\ read[last] \in 0 .. Len(name) /\ read[k - 1] \in 0 .. Len(name)
            /\ used[last] \in 0 .. Len(name)
        <5>1. last \in 0 .. Len(pattern) /\ k - 1 \in 0 .. Len(pattern)
          BY <1>0, <2>3, <4>0
        <5> HIDE DEF last, before
        <5> QED
          BY <4>1, <5>1 DEF before
      <4>6. read[last] \in found /\ found \subseteq Nat
        <5>1. read[last] \in used[last] .. Len(name)
          <6> HIDE DEF last
          <6> QED
            BY <1>0, <4>3, <4>4
        <5>2. used[last] .. Len(name) \subseteq Nat
          <6> HIDE DEF last
          <6> QED
            BY <1>0, <4>4
        <5>3. found \subseteq used[last] .. Len(name)
          OBVIOUS
        <5> HIDE DEF last
        <5> QED
          BY <4>2, <5>1, <5>2, <5>3 DEF found
      <4>5. Min(found) \in found /\ Min(found) <= read[last]
        <5> HIDE DEF found
        <5> QED
          BY <4>6, MinOf
      <4>7. taken = Min(found) + (k - 1 - last)
        BY <3>2
      <4>8. Min(found) \in Nat
        <5> HIDE DEF found
        <5> QED
          BY <4>5, <4>6
      <4> HIDE DEF last, taken, found, before
      <4> QED
        BY <1>0, <2>3, <3>2, <4>0, <4>2, <4>4, <4>5, <4>6, <4>7, <4>8
    <3> QED
      BY <1>0, <3>1, <3>2
  <2>8. longer \in [StarsTo(k) -> 0 .. Len(name)]
    BY <1>0, <2>6, <2>7
  <2>9. ASSUME NEW s \in StarsTo(k)
        PROVE  TakesPiece(longer, s, pattern, name) /\ longer[s] <= read[s - 1]
    <3>1. CASE s = k
      <4>1. {r \in DOMAIN longer : r < s} = before
        BY <1>0, <2>3, <3>1
      <4>2. before # {} => last \in before
        <5>1. before \subseteq 0 .. Len(pattern)
          BY <1>0
        <5> HIDE DEF before
        <5> QED
          BY <1>0, <5>1, MaxOf
      <4>3. before # {} => longer[last] = used[last]
        BY <1>0, <2>6, <4>2
      <4>4. longer[s] = taken
        BY <1>0, <3>1
      <4> HIDE DEF before, taken, longer
      <4> QED
        BY <1>0, <2>7, <3>1, <4>1, <4>3, <4>4 DEF TakesPiece, taken
    <3>2. CASE s # k
      <4>1. s \in before
        BY <1>0, <2>6, <3>2
      <4> DEFINE earlier == {r \in before : r < s}
      <4>2. {r \in DOMAIN longer : r < s} = earlier /\ {r \in DOMAIN used : r < s} = earlier
        BY <1>0, <2>6, <4>1
      <4>3. longer[s] = used[s] /\ (earlier # {} => longer[Max(earlier)] = used[Max(earlier)])
        <5>1. earlier \subseteq 0 .. Len(pattern)
          BY <1>0
        <5>2. earlier # {} => Max(earlier) \in earlier
          <6> HIDE DEF earlier
          <6> QED
            BY <1>0, <5>1, MaxOf
        <5> QED
          BY <1>0, <2>6, <4>1, <5>2
      <4>4. TakesPiece(used, s, pattern, name) /\ used[s] <= read[s - 1]
        BY <1>0, <2>4, <4>1
      <4> HIDE DEF longer, earlier
      <4> QED
        BY <1>0, <4>2, <4>3, <4>4 DEF TakesPiece
    <3> QED
      BY <1>0, <3>1, <3>2
  <2> QED
    BY <1>0, <2>8, <2>9
<1>3. PICK used \in [StarsTo(Len(pattern)) -> 0 .. Len(name)] : Early(used, Len(pattern))
  BY <1>0, <1>2
<1>4. StarsTo(Len(pattern)) = Stars(pattern)
  BY <1>0
<1>5. EndsWithLast(used, pattern, name)
  <2> DEFINE last == Max(Stars(pattern))
  <2>1. last \in Stars(pattern) /\ \A s \in Stars(pattern) : s <= last
    <3>1. Stars(pattern) \subseteq 0 .. Len(pattern)
      BY <1>0
    <3> QED
      BY <1>0, <3>1, MaxOf DEF IsWildcard
  <2>2. /\ Len(name) = read[last] + (Len(pattern) - last)
        /\ Occurs(pattern, last, Len(pattern), name, read[last])
    <3>1. \A k \in last + 1 .. Len(pattern) : pattern[k] # Star
      <4> HIDE DEF last
      <4> QED
        BY <1>0, <2>1
    <3>2. last \in 0 .. Len(pattern) /\ Len(pattern) \in last .. Len(pattern)
      BY <1>0, <2>1
    <3>3. read[Len(pattern)] = Len(name)
      BY <1>1 DEF ReadAlong
    <3> HIDE DEF last
    <3> QED
      BY <1>1, <3>1, <3>2, <3>3, PiecesAreRead
  <2>3. used[last] <= read[last - 1] /\ read[last - 1] <= read[last]
    BY <1>0, <1>1, <1>3, <1>4, <2>1 DEF ReadAlong
  <2>4. used[last] \in Nat /\ read[last] \in Nat /\ read[last - 1] \in Nat /\ last \in Nat
    BY <1>0, <1>4, <2>1
  <2>5. Len(name) - (Len(pattern) - last) = read[last]
    BY <1>0, <2>2, <2>4
  <2> HIDE DEF last
  <2> QED
    BY <1>0, <2>2, <2>3, <2>4, <2>5 DEF EndsWithLast, last
<1> QED
  BY <1>0, <1>3, <1>4, <1>5 DEF MatchModelPattern
(* What is found by taking each piece where it first occurs can be read    *)
(* along the pattern: a wildcard stands for what lies between two pieces,  *)
(* and no letter of the name is used twice.                                *)
LEMMA FoundStands ==
  ASSUME NEW pattern \in Seq(Letter), NEW name \in Seq(Letter),
         IsWildcard(pattern), MatchModelPattern(pattern, name)
  PROVE  Stands(pattern, name)
<1>0. /\ Len(pattern) \in Nat /\ Len(name) \in Nat
      /\ Stars(pattern) \subseteq 1 .. Len(pattern)
      /\ \A i \in 1 .. Len(pattern) : i \in Stars(pattern) <=> pattern[i] = Star
  BY WordShape
<1>1. PICK used \in [Stars(pattern) -> 0 .. Len(name)] :
        /\ \A s \in Stars(pattern) : TakesPiece(used, s, pattern, name)
        /\ EndsWithLast(used, pattern, name)
  BY DEF MatchModelPattern
<1> DEFINE final == Max(Stars(pattern))
           later(i) == {t \in Stars(pattern) : t > i}
           next(i) == Min(later(i))
           read == [i \in 0 .. Len(pattern) |->
                      IF later(i) = {} THEN Len(name) - (Len(pattern) - i)
                                       ELSE used[next(i)] - (next(i) - 1 - i)]
<1>2. final \in Stars(pattern) /\ \A s \in Stars(pattern) : s <= final
  <2>1. Stars(pattern) \subseteq 0 .. Len(pattern)
    BY <1>0
  <2> QED
    BY <1>0, <2>1, MaxOf DEF IsWildcard
\* The piece a place of the pattern is in: the star it begins behind, and where
\* in the name it is taken.
<1> DEFINE Within(i, r, at) ==
             /\ r \in 0 .. i /\ at \in 0 .. Len(name) /\ at + (i - r) <= Len(name)
             /\ read[i] = at + (i - r)
             /\ r < i => pattern[i] = name[at + (i - r)]
             /\ r = 0 => at = 0
             /\ r # 0 => r \in Stars(pattern) /\ used[r] <= at
             /\ \A s \in Stars(pattern) : s <= i => s <= r
<1>3. ASSUME NEW i \in 0 .. Len(pattern)
      PROVE  \E r, at \in Nat : Within(i, r, at)
  <2>1. CASE later(i) = {}
    <3> DEFINE begin == Len(name) - (Len(pattern) - final)
    <3>1. begin >= used[final] /\ Occurs(pattern, final, Len(pattern), name, begin)
      BY <1>1 DEF EndsWithLast
    <3>2. final \in 1 .. i
      BY <1>0, <1>2, <2>1
    <3>3. read[i] = Len(name) - (Len(pattern) - i)
      BY <2>1
    <3>4. used[final] \in 0 .. Len(name)
      BY <1>1, <1>2
    <3> HIDE DEF final, read, later
    <3>5. begin \in Nat /\ begin + (i - final) <= Len(name) /\ read[i] = begin + (i - final)
      BY <1>0, <3>1, <3>2, <3>3, <3>4
    <3>6. final < i => pattern[i] = name[begin + (i - final)]
      <4> HAVE final < i
      <4>1. i - final \in 1 .. Len(pattern) - final /\ final + (i - final) = i
        BY <1>0, <3>2
      <4> QED
        BY <3>1, <4>1 DEF Occurs
    <3> HIDE DEF begin
    <3>7. Within(i, final, begin)
      BY <1>0, <1>2, <3>1, <3>2, <3>5, <3>6
    <3> QED
      BY <3>2, <3>5, <3>7
  <2>2. CASE later(i) # {}
    <3> DEFINE t == next(i)
               before == {r \in Stars(pattern) : r < t}
               last == Max(before)
               found == {at \in used[last] .. Len(name) : Occurs(pattern, last, t - 1, name, at)}
    <3>1. t \in Stars(pattern) /\ t > i /\ \A s \in Stars(pattern) : s > i => t <= s
      <4>1. later(i) \subseteq Nat
        BY <1>0
      <4>2. t \in later(i) /\ \A s \in later(i) : t <= s
        <5> HIDE DEF later
        <5> QED
          BY <2>2, <4>1, MinOf
      <4> QED
        BY <4>2
    <3>2. read[i] = used[t] - (t - 1 - i)
      BY <2>2
    <3>3. IF before = {} THEN Occurs(pattern, 0, t - 1, name, 0) /\ used[t] = t - 1
          ELSE found # {} /\ used[t] = Min(found) + (t - 1 - last)
      <4>1. TakesPiece(used, t, pattern, name) /\ DOMAIN used = Stars(pattern)
        BY <1>1, <3>1
      <4> HIDE DEF t
      <4> QED
        BY <4>1 DEF TakesPiece
    <3>4. t \in 1 .. Len(pattern) /\ i <= t - 1 /\ used[t] \in 0 .. Len(name)
      BY <1>0, <1>1, <3>1
    <3> HIDE DEF t, read
    <3>5. CASE before = {}
      <4>1. i < t /\ \A s \in Stars(pattern) : ~ (s <= i)
        BY <1>0, <3>1, <3>4, <3>5
      <4>2. read[i] = i /\ i <= Len(name)
        BY <1>0, <3>2, <3>3, <3>4, <3>5
      <4>3. 0 < i => pattern[i] = name[i]
        <5> HAVE 0 < i
        <5>1. i \in 1 .. t - 1 - 0
          BY <3>4
        <5>2. pattern[0 + i] = name[0 + i]
          BY <3>3, <3>5, <5>1 DEF Occurs
        <5> QED
          BY <5>2
      <4>4. Within(i, 0, 0)
        BY <1>0, <4>1, <4>2, <4>3
      <4> QED
        BY <4>4
    <3>6. CASE before # {}
      <4> DEFINE at == Min(found)
      <4>1. last \in before /\ \A s \in before : s <= last
        <5>1. before \subseteq 0 .. Len(pattern)
          BY <1>0
        <5> HIDE DEF before
        <5> QED
          BY <1>0, <3>6, <5>1, MaxOf
      <4>2. last \in Stars(pattern) /\ last \in 1 .. t - 1 /\ used[last] \in 0 .. Len(name)
        <5> HIDE DEF last
        <5> QED
          BY <1>0, <1>1, <3>4, <4>1
      <4>3. last <= i /\ \A s \in Stars(pattern) : s <= i => s <= last
        <5> HIDE DEF last
        <5> QED
          BY <1>0, <3>1, <3>4, <4>1, <4>2
      <4>4. at \in found /\ found \subseteq Nat
        <5>1. used[last] .. Len(name) \subseteq Nat
          <6> HIDE DEF last
          <6> QED
            BY <1>0, <4>2
        <5>2. found # {} /\ found \subseteq Nat
          BY <3>3, <3>6, <5>1
        <5> HIDE DEF found
        <5> QED
          BY <5>2, MinOf
      <4>5. /\ at \in Nat /\ used[last] <= at /\ at <= Len(name)
            /\ Occurs(pattern, last, t - 1, name, at)
        <5> HIDE DEF at, last
        <5> QED
          BY <1>0, <4>2, <4>4
      <4>6. used[t] = at + (t - 1 - last)
        BY <3>3, <3>6
      <4> HIDE DEF last, at, found, before
      <4>7. read[i] = at + (i - last) /\ at + (i - last) <= Len(name)
        BY <1>0, <3>2, <3>4, <4>2, <4>3, <4>5, <4>6
      <4>8. last < i => pattern[i] = name[at + (i - last)]
        <5> HAVE last < i
        <5>1. i - last \in 1 .. (t - 1) - last /\ last + (i - last) = i
          BY <3>4, <4>2
        <5> QED
          BY <4>5, <5>1 DEF Occurs
      <4>9. Within(i, last, at)
        BY <1>0, <4>2, <4>3, <4>5, <4>7, <4>8
      <4> HIDE DEF Within
      <4> QED
        BY <4>2, <4>5, <4>9
    <3> QED
      BY <3>5, <3>6
  <2> QED
    BY <2>1, <2>2
<1>4. read \in [0 .. Len(pattern) -> 0 .. Len(name)]
  <2>1. ASSUME NEW i \in 0 .. Len(pattern) PROVE read[i] \in 0 .. Len(name)
    <3> HIDE DEF read
    <3>1. PICK r, at \in Nat : Within(i, r, at)
      BY <1>3
    <3> QED
      BY <1>0, <3>1
  <2> QED
    BY <2>1
<1>5. read[0] = 0
  <2> HIDE DEF read
  <2>1. PICK r, at \in Nat : Within(0, r, at)
    BY <1>0, <1>3
  <2> QED
    BY <2>1
<1>6. read[Len(pattern)] = Len(name)
  <2>1. later(Len(pattern)) = {}
    BY <1>0
  <2> QED
    BY <1>0, <2>1
<1>7. ASSUME NEW i \in 1 .. Len(pattern), pattern[i] # Star
      PROVE  read[i] = read[i - 1] + 1 /\ pattern[i] = name[read[i]]
  <2>1. later(i - 1) = later(i)
    BY <1>0, <1>7
  <2>2. read[i] = read[i - 1] + 1
    <3>1. CASE later(i) = {}
      BY <1>0, <2>1, <3>1
    <3>2. CASE later(i) # {}
      <4>1. next(i) \in Stars(pattern)
        <5>1. later(i) \subseteq Nat
          BY <1>0
        <5>2. next(i) \in later(i)
          <6> HIDE DEF later
          <6> QED
            BY <3>2, <5>1, MinOf
        <5> QED
          BY <5>2
      <4>2. used[next(i)] \in Nat /\ next(i) \in Nat
        <5> HIDE DEF next
        <5> QED
          BY <1>0, <1>1, <4>1
      <4>3. /\ read[i] = used[next(i)] - (next(i) - 1 - i)
            /\ read[i - 1] = used[next(i)] - (next(i) - 1 - (i - 1))
        <5>1. next(i - 1) = next(i) /\ later(i - 1) # {}
          BY <2>1, <3>2
        <5>2. i \in 0 .. Len(pattern) /\ i - 1 \in 0 .. Len(pattern)
          BY <1>0
        <5> HIDE DEF later, next
        <5> QED
          BY <3>2, <5>1, <5>2
      <4> HIDE DEF read, next
      <4> QED
        BY <4>2, <4>3
    <3> QED
      BY <3>1, <3>2
  <2> HIDE DEF read, later
  <2>3. PICK r, at \in Nat : Within(i, r, at)
    <3>1. i \in 0 .. Len(pattern)
      BY <1>0
    <3> HIDE DEF Within
    <3> QED
      BY <1>3, <3>1
  <2>4. r # i
    BY <1>0, <1>7, <2>3
  <2> QED
    BY <2>2, <2>3, <2>4
<1>8. ASSUME NEW i \in 1 .. Len(pattern), pattern[i] = Star
      PROVE  read[i - 1] <= read[i]
  <2>1. i \in Stars(pattern)
    BY <1>0, <1>8
  <2>2. next(i - 1) = i
    <3>1. later(i - 1) \subseteq Nat /\ i \in later(i - 1) /\ \A t \in later(i - 1) : i <= t
      BY <1>0, <2>1
    <3>2. next(i - 1) \in later(i - 1) /\ next(i - 1) <= i
      <4> HIDE DEF later
      <4> QED
        BY <3>1, MinOf
    <3>3. next(i - 1) \in Nat /\ i <= next(i - 1)
      BY <3>1, <3>2
    <3> HIDE DEF next
    <3> QED
      BY <3>2, <3>3
  <2>3. read[i - 1] = used[i]
    <3>1. later(i - 1) # {}
      BY <2>1
    <3>2. read[i - 1] = used[i] - (i - 1 - (i - 1)) /\ used[i] \in Nat
      <4> HIDE DEF later, next
      <4> QED
        BY <1>1, <2>1, <2>2, <3>1 DEF read
    <3> QED
      BY <3>2
  <2> HIDE DEF read, later, next
  <2>4. PICK r, at \in Nat : Within(i, r, at)
    <3>1. i \in 0 .. Len(pattern)
      BY <1>0
    <3> HIDE DEF Within
    <3> QED
      BY <1>3, <3>1
  <2>5. r = i
    BY <2>1, <2>4
  <2> QED
    BY <1>1, <2>1, <2>3, <2>4, <2>5
<1>9. ReadAlong(read, pattern, name)
  <2> HIDE DEF read
  <2> QED
    BY <1>5, <1>6, <1>7, <1>8 DEF ReadAlong
<1> QED
  BY <1>4, <1>9 DEF Stands
(* Every pattern covers the names it stands for, and no others.            *)
THEOREM MatchingIsStanding ==
  ASSUME NEW pattern \in Seq(Letter), NEW name \in Seq(Letter)
  PROVE  MatchModelPattern(pattern, name) <=> Stands(pattern, name)
<1>0. /\ Len(pattern) \in Nat /\ Len(name) \in Nat
      /\ \A i \in 1 .. Len(pattern) : i \in Stars(pattern) <=> pattern[i] = Star
  BY WordShape
<1>1. CASE IsWildcard(pattern)
  BY <1>1, StandsIsFound, FoundStands
<1>2. CASE ~IsWildcard(pattern)
  <2>1. \A i \in 1 .. Len(pattern) : pattern[i] # Star
    BY <1>0, <1>2 DEF IsWildcard
  <2>2. ASSUME pattern = name PROVE Stands(pattern, name)
    <3> DEFINE read == [i \in 0 .. Len(pattern) |-> i]
    <3>1. read \in [0 .. Len(pattern) -> 0 .. Len(name)]
      BY <2>2
    <3>2. ReadAlong(read, pattern, name)
      BY <1>0, <2>1, <2>2 DEF ReadAlong
    <3> QED
      BY <3>1, <3>2 DEF Stands
  <2>3. ASSUME Stands(pattern, name) PROVE pattern = name
    <3>1. PICK read \in [0 .. Len(pattern) -> 0 .. Len(name)] : ReadAlong(read, pattern, name)
      BY <2>3 DEF Stands
    <3>2. read[0] = 0 /\ read[Len(pattern)] = Len(name)
      BY <3>1 DEF ReadAlong
    <3>3. 0 \in 0 .. Len(pattern) /\ Len(pattern) \in 0 .. Len(pattern)
      BY <1>0
    <3>4. /\ read[Len(pattern)] = read[0] + (Len(pattern) - 0)
          /\ Occurs(pattern, 0, Len(pattern), name, read[0])
      BY <2>1, <3>1, <3>3, PiecesAreRead
    <3>5. Len(pattern) = Len(name)
      BY <1>0, <3>2, <3>4
    <3>6. \A i \in 1 .. Len(pattern) : pattern[i] = name[i]
      <4>1. \A i \in 1 .. Len(pattern) - 0 : pattern[0 + i] = name[0 + i]
        BY <3>2, <3>4 DEF Occurs
      <4> QED
        BY <1>0, <4>1
    <3> QED
      BY <3>5, <3>6, SeqEqual
  <2> QED
    BY <1>2, <2>2, <2>3 DEF MatchModelPattern
<1> QED
  BY <1>1, <1>2

(* An exact name scores more than any pattern with a wildcard in it.       *)
LEMMA ExactScoresMore ==
  ASSUME NEW pattern \in Seq(Letter), Len(pattern) \in 1 .. MaxMatch
  PROVE  /\ patternSpecificity(pattern) \in Int
         /\ IF IsWildcard(pattern) THEN patternSpecificity(pattern) < 0
                                   ELSE patternSpecificity(pattern) > 0
<1>1. IsFiniteSet(1 .. Len(pattern)) /\ Stars(pattern) \in SUBSET (1 .. Len(pattern))
  BY WordShape, FS_Interval
<1>2. IsFiniteSet(Stars(pattern))
  BY <1>1, FS_Subset
<1>3. Cardinality(Stars(pattern)) \in Nat
  BY <1>2, FS_CardinalityType
<1>4. IsWildcard(pattern) => Cardinality(Stars(pattern)) # 0
  BY <1>2, FS_EmptySet DEF IsWildcard
<1> QED
  BY <1>3, <1>4, RouteAssumption DEF patternSpecificity

\* The rules are well formed, and the last request was routed by the ones of now.
RoutesInv ==
  /\ DOMAIN routes \subseteq Name /\ IsFiniteSet(DOMAIN routes)
  /\ \A n \in DOMAIN routes : routes[n] \in StoredRule
  /\ asked # Nobody => /\ asked.model \in ModelName
                       /\ asked.by = MatchModelRoute(asked.agent, asked.model)

LEMMA RulesShape ==
  ASSUME RoutesInv, NEW n \in DOMAIN routes
  PROVE  /\ n \in Nat /\ routes[n].sort \in Int
         /\ routes[n].match \in Seq(Letter) /\ Len(routes[n].match) \in 1 .. MaxMatch
         /\ patternSpecificity(routes[n].match) \in Int
<1>1. /\ n \in Nat /\ routes[n].sort \in Int
      /\ routes[n].match \in Seq(Letter) /\ Len(routes[n].match) \in 1 .. MaxMatch
  BY RouteAssumption DEF RoutesInv, StoredRule, Form
<1> QED
  BY <1>1, ExactScoresMore

(* The order of the rules is total, and no rule is before itself.          *)
LEMMA RulesAreOrdered ==
  ASSUME RoutesInv
  PROVE  /\ \A m, n \in DOMAIN routes : m # n => Before(m, n) \/ Before(n, m)
         /\ \A m, n \in DOMAIN routes : Before(m, n) => ~ Before(n, m)
         /\ \A m, n, o \in DOMAIN routes : Before(m, n) /\ Before(n, o) => Before(m, o)
<1>1. \A n \in DOMAIN routes : /\ n \in Nat /\ routes[n].sort \in Int
                               /\ patternSpecificity(routes[n].match) \in Int
  BY RulesShape
<1> QED
  BY <1>1 DEF Before

(* Of some rules one is before all the others.                             *)
LEMMA OneRuleIsFirst ==
  ASSUME RoutesInv, NEW T, T \subseteq DOMAIN routes, T # {}
  PROVE  \E n \in T : \A m \in T \ {n} : Before(n, m)
<1> DEFINE HasFirst(U) == \E n \in U : \A m \in U \ {n} : Before(n, m)
           Sizes == {k \in Nat : \E U \in SUBSET DOMAIN routes :
                                   U # {} /\ Cardinality(U) = k /\ ~ HasFirst(U)}
<1>0. \A U \in SUBSET DOMAIN routes : IsFiniteSet(U) /\ Cardinality(U) \in Nat
  BY FS_Subset, FS_CardinalityType DEF RoutesInv
<1>1. Sizes = {}
  <2> SUFFICES ASSUME Sizes # {} PROVE FALSE
    OBVIOUS
  <2>1. Sizes \subseteq Nat
    OBVIOUS
  <2> HIDE DEF Sizes
  <2>2. PICK k \in Sizes : \A l \in Sizes : k <= l
    BY <2>1, LeastNatural
  <2> USE DEF Sizes
  <2>3. PICK U \in SUBSET DOMAIN routes : U # {} /\ Cardinality(U) = k /\ ~ HasFirst(U)
    BY <2>2
  <2>4. PICK x \in U : TRUE
    BY <2>3
  <2> DEFINE V == U \ {x}
  <2>5. V \in SUBSET DOMAIN routes /\ V # {}
    BY <2>3, <2>4
  <2>6. Cardinality(V) = k - 1 /\ k \in Nat
    BY <1>0, <2>3, <2>4, FS_RemoveElement
  <2> HIDE DEF HasFirst
  <2>7. HasFirst(V)
    BY <1>0, <2>2, <2>5, <2>6
  <2> USE DEF HasFirst
  <2>8. PICK y \in V : \A m \in V \ {y} : Before(y, m)
    BY <2>7
  <2>9. Before(x, y) \/ Before(y, x)
    BY <2>3, <2>4, <2>8, RulesAreOrdered
  <2> QED
    BY <2>3, <2>4, <2>5, <2>8, <2>9, RulesAreOrdered
<1>2. HasFirst(T)
  <2> HIDE DEF HasFirst
  <2> QED
    BY <1>0, <1>1
<1> QED
  BY <1>2

LEMMA RoutesInvHolds == RoutesSpec => []RoutesInv
<1>1. RoutesInit => RoutesInv
  BY FS_EmptySet DEF RoutesInit, RoutesInv
<1>2. RoutesInv /\ [RoutesNext]_routeVars => RoutesInv'
  <2> SUFFICES ASSUME RoutesInv, [RoutesNext]_routeVars
               PROVE  RoutesInv'
    OBVIOUS
  <2>1. ASSUME NEW n \in Name, DeleteModelRoute(n)
        PROVE  RoutesInv'
    <3>1. IsFiniteSet(DOMAIN routes \ {n})
      BY FS_RemoveElement DEF RoutesInv
    <3> QED
      BY <2>1, <3>1 DEF RoutesInv, DeleteModelRoute
  <2>2. ASSUME NEW n \in Name, NEW rule0 \in Form, AddModelRoute(n, rule0)
        PROVE  RoutesInv'
    <3>1. IsFiniteSet(DOMAIN routes \cup {n})
      BY FS_AddElement DEF RoutesInv
    <3>2. rule0 \in StoredRule
      BY <2>2 DEF AddModelRoute, normalizeModelRoute, StoredRule
    <3> QED
      BY <2>2, <3>1, <3>2 DEF RoutesInv, AddModelRoute
  <2>3. ASSUME NEW n \in Name, NEW rule0 \in Form, UpdateModelRoute(n, rule0)
        PROVE  RoutesInv'
    <3>1. rule0 \in StoredRule
      BY <2>3 DEF UpdateModelRoute, normalizeModelRoute, StoredRule
    <3> QED
      BY <2>3, <3>1 DEF RoutesInv, UpdateModelRoute
  <2>4. ASSUME NEW caller \in Caller \cup {AnyCaller}, NEW name \in ModelName,
               AskRoute(caller, name)
        PROVE  RoutesInv'
    <3>1. routes' = routes
      BY <2>4 DEF AskRoute
    <3>2. MatchModelRoute(caller, name)' = MatchModelRoute(caller, name)
      BY <3>1 DEF MatchModelRoute, Applies, Before
    <3>3. /\ asked'.agent = caller /\ asked'.model = name
          /\ asked'.by = MatchModelRoute(caller, name)
      BY <2>4 DEF AskRoute
    <3>4. (MatchModelRoute(asked.agent, asked.model))' = MatchModelRoute(caller, name)
      BY <3>1, <3>3 DEF MatchModelRoute, Applies, Before
    <3> QED
      BY <3>1, <3>3, <3>4 DEF RoutesInv
  <2>5. CASE UNCHANGED routeVars
    BY <2>5 DEF RoutesInv, routeVars, MatchModelRoute, Applies, Before
  <2> QED
    BY <2>1, <2>2, <2>3, <2>4, <2>5 DEF RoutesNext
<1> QED
  BY <1>1, <1>2, PTL DEF RoutesSpec

(* A rule covers a request exactly when it is one of its candidates.       *)
LEMMA CoveringAreCandidates ==
  ASSUME RoutesInv, asked # Nobody
  PROVE  asked.by = {n \in Candidates : \A m \in Candidates \ {n} : Before(n, m)}
<1>1. asked.model \in Seq(Letter)
  BY RouteAssumption DEF RoutesInv
<1>2. \A n \in DOMAIN routes :
        MatchModelPattern(routes[n].match, asked.model) <=> Stands(routes[n].match, asked.model)
  BY <1>1, RulesShape, MatchingIsStanding
<1>3. Candidates = {n \in DOMAIN routes :
                      Applies(n, asked.agent) /\ MatchModelPattern(routes[n].match, asked.model)}
  BY <1>2 DEF Candidates
<1> QED
  BY <1>3 DEF RoutesInv, MatchModelRoute

(* A request is routed by a rule exactly when one that is on and for its   *)
(* caller stands for its model, and by one: greedy matching finds every    *)
(* way a pattern can stand for a name, and of the rules that do the order  *)
(* names one first, for any table and any patterns (MatchModelRoute).      *)
THEOREM CoveredIsRouted == RoutesSpec => []RoutedWhenCovered
<1>1. RoutesInv => RoutedWhenCovered
  <2> SUFFICES ASSUME RoutesInv, asked # Nobody
               PROVE  /\ asked.by \subseteq Candidates /\ Cardinality(asked.by) <= 1
                      /\ Candidates # {} => asked.by # {}
    BY DEF RoutedWhenCovered
  <2>1. asked.by = {n \in Candidates : \A m \in Candidates \ {n} : Before(n, m)}
    BY CoveringAreCandidates
  <2>2. Candidates \subseteq DOMAIN routes
    BY DEF Candidates
  <2>3. \A m, n \in asked.by : m = n
    BY <2>1, <2>2, RulesAreOrdered
  <2>4. Cardinality(asked.by) <= 1
    <3>1. CASE asked.by = {}
      BY <3>1, FS_EmptySet
    <3>2. CASE asked.by # {}
      <4>1. PICK n \in asked.by : asked.by = {n}
        BY <2>3, <3>2
      <4>2. Cardinality({n}) = 1
        BY FS_Singleton
      <4> QED
        BY <4>1, <4>2
    <3> QED
      BY <3>1, <3>2
  <2>5. Candidates # {} => asked.by # {}
    <3> HAVE Candidates # {}
    <3>1. \E n \in Candidates : \A m \in Candidates \ {n} : Before(n, m)
      BY <2>2, OneRuleIsFirst
    <3> QED
      BY <2>1, <3>1
  <2> QED
    BY <2>1, <2>4, <2>5
<1> QED
  BY <1>1, RoutesInvHolds, PTL

(* An exact model name beats a wildcard whatever the two patterns' lengths, *)
(* unless the operator numbered the wildcard first (ModelRoute.Sort).       *)
THEOREM ExactComesFirst == RoutesSpec => []ExactBeatsWildcard
<1>1. RoutesInv => ExactBeatsWildcard
  <2> SUFFICES ASSUME RoutesInv, NEW n \in asked.by, NEW m \in Candidates,
                      IsWildcard(routes[n].match), ~IsWildcard(routes[m].match)
               PROVE  routes[m].sort > routes[n].sort
    BY DEF ExactBeatsWildcard
  <2>1. asked # Nobody
    BY DEF Nobody
  <2>2. asked.by = {k \in Candidates : \A l \in Candidates \ {k} : Before(k, l)}
    BY <2>1, CoveringAreCandidates
  <2>3. m \in DOMAIN routes /\ n \in DOMAIN routes /\ Before(n, m)
    BY <2>2 DEF Candidates
  <2>4. patternSpecificity(routes[n].match) < 0 /\ patternSpecificity(routes[m].match) > 0
    BY <2>3, RulesShape, ExactScoresMore
  <2>5. /\ patternSpecificity(routes[n].match) \in Int /\ routes[n].sort \in Int
        /\ patternSpecificity(routes[m].match) \in Int /\ routes[m].sort \in Int
    BY <2>3, RulesShape
  <2> QED
    BY <2>3, <2>4, <2>5 DEF Before
<1> QED
  BY <1>1, RoutesInvHolds, PTL
=============================================================================
