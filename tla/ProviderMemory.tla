--------------------------- MODULE ProviderMemory ---------------------------
(***************************************************************************)
(* The three memories that hold a provider back, the breaker's and the two *)
(* of ProviderLimit, against everything that writes them: answers to       *)
(* relayed requests, probes of the vendor's usage endpoint, and edits of   *)
(* the provider, each on a goroutine of its own.  A call reads the         *)
(* provider when it starts and stores what it learned when it ends, so     *)
(* what it stores may be older than anything that happened meanwhile: an   *)
(* answer may come at any moment, and carry anything.                      *)
(***************************************************************************)
EXTENDS ProviderLimit

CONSTANTS FailureThreshold, Cooldown, MaxCooldown, DurationBits, FailureCap

VARIABLES
  health,
  said        \* ghost: what is left of the time its last refusal named

Breaker == INSTANCE ProviderHealth WITH Provider <- Subscription

memoryVars == <<block, quota, health, said>>

\* What the breaker assumes of its constants.
ASSUME BreakerAssumption ==
  /\ FailureThreshold \in Nat \ {0}
  /\ Cooldown \in Nat \ {0}
  /\ MaxCooldown \in Nat /\ Cooldown <= MaxCooldown
  /\ FailureCap \in Nat /\ FailureThreshold <= FailureCap

\* A shift of the cooldown that is within the ceiling is longer than those
\* before it: no bits that are left of one that wrapped read as a window.  15 s,
\* 5 min and 64 bits have this: only the first five are within the ceiling.
ASSUME ShiftAssumption ==
  \A k \in 0 .. FailureCap - FailureThreshold :
    LET shifted == Breaker!Shifted(Cooldown, k)
    IN  shifted \in 1 .. MaxCooldown => \A j \in 0 .. k : Breaker!Shifted(Cooldown, j) \in 1 .. shifted

MemoryTypeOK == Breaker!TypeOK /\ TypeOK /\ said \in [Subscription -> 0 .. MaxReset]

MemoryInit == Breaker!Init /\ LimitInit /\ said = [p \in Subscription |-> 0]

-----------------------------------------------------------------------------

\* An upstream that answered, or could not be reached.
Succeeds(p) == Breaker!ReportProviderSuccess(p) /\ UNCHANGED <<limits, said>>
Fails(p) == Breaker!ReportProviderFailure(p) /\ UNCHANGED <<limits, said>>

\* An answer of any age: refused says whether it was a 429.
AnswerObserved(p) ==
  /\ \E refused \in BOOLEAN, report \in Report, retryAfter \in 0 .. MaxReset :
       /\ ObserveSubscriptionLimits(p, refused, report, retryAfter)
       /\ said' = [said EXCEPT ![p] =
            IF refused /\ RefusedFor(report, retryAfter) > 0 THEN RefusedFor(report, retryAfter) ELSE @]
  /\ UNCHANGED health

ProbeAnswered(p) ==
  /\ \E windows \in [WindowName -> Window] : StoreProbedQuota(p, windows)
  /\ UNCHANGED <<health, said>>

\* An edit and a deletion forget the breaker's entry and the cached windows.
ProviderUpdated(p) ==
  /\ Breaker!ClearProviderHealth(p)
  /\ ClearProviderQuota(p)
  /\ UNCHANGED said

Tick ==
  /\ \/ \E p \in Subscription : Breaker!Suspended(p)
     \/ \E p \in Subscription : block[p] > 0 \/ \E w \in WindowName : quota[p][w].reset > 0
  /\ Breaker!Elapse
  /\ Elapse
  /\ said' = [p \in Subscription |-> IF said[p] > 0 THEN said[p] - 1 ELSE 0]

MemoryNext ==
  \/ \E p \in Subscription : Succeeds(p) \/ Fails(p)
  \/ \E p \in Subscription : AnswerObserved(p) \/ ProbeAnswered(p) \/ ProviderUpdated(p)
  \/ Tick

MemorySpec == MemoryInit /\ [][MemoryNext]_memoryVars

-----------------------------------------------------------------------------

(* A provider is only ever out of rotation because it failed              *)
(* FailureThreshold times in a row with no success and no edit in between: *)
(* every way of emptying the counter also opens the window.                *)
SuspensionEarned == Breaker!SuspensionEarned

(* While a provider keeps failing, the time left of its suspension only    *)
(* goes down by the clock: the doubling never wraps into a shorter window, *)
(* however many failures have been counted.                                *)
CooldownNeverShrinks == Breaker!CooldownNeverShrinks

(* A plan is left alone for exactly as long as the last refusal to arrive  *)
(* said, whatever arrives after it: an answer that is no refusal, whenever *)
(* it was sent and whatever windows it reports, a probe, or an edit        *)
(* neither lifts the block nor shortens it by a tick, and none but a       *)
(* refusal sets one.  "Last" is by arrival: of two refusals whose answers  *)
(* overtake each other the older one has the say, also when the time it    *)
(* names is the shorter (provider_limit.go:170 compares nothing).          *)
RefusalStands == \A p \in Subscription : block[p] = said[p]
=============================================================================
