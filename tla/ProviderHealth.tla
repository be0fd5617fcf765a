--------------------------- MODULE ProviderHealth ---------------------------
(***************************************************************************)
(* The circuit breaker of object/provider_health.go: what this process has *)
(* seen of each upstream provider.  Two failures in a row suspend a        *)
(* provider, for a window that doubles with every further failure up to a  *)
(* ceiling; one success closes the breaker.                                *)
(*                                                                         *)
(* Time is kept as what is LEFT of a window rather than as an absolute     *)
(* retryTime: "now.Before(retryTime)" is then "retry > 0", and the state   *)
(* space is finite without a bound on the clock.  The counters that only   *)
(* the page shows (successes, failures, lastError) are left out.           *)
(***************************************************************************)
EXTENDS Integers

CONSTANTS
  Provider,          \* the provider ids
  FailureThreshold,  \* failures in a row that suspend a provider
  Cooldown,          \* the first suspension, in ticks
  MaxCooldown,       \* the ceiling of a suspension, in ticks
  DurationBits,      \* width of a time.Duration: the shift wraps at it
  FailureCap         \* bound: the failure counter saturates here

VARIABLE health

Health == [consecutive : 0 .. FailureCap, retry : 0 .. MaxCooldown]

\* An entry the map does not hold reads the same as a clean one.
Clean == [consecutive |-> 0, retry |-> 0]

TypeOK == health \in [Provider -> Health]

Init == health = [p \in Provider |-> Clean]

(***************************************************************************)
(* cooldown << k on a signed integer of DurationBits bits.                 *)
(***************************************************************************)
Shifted(duration, k) ==
  LET word == (duration * 2^k) % 2^DurationBits
  IN  IF word >= 2^(DurationBits - 1) THEN word - 2^DurationBits ELSE word

\* Fault: the overflow test is dropped.
CooldownUnguarded(consecutive) ==
  LET cooldown == Shifted(Cooldown, consecutive - FailureThreshold)
  IN  IF cooldown > MaxCooldown THEN MaxCooldown ELSE cooldown

\* The shift wraps to zero or below long before the counter stops growing:
\* whatever is not a duration within the ceiling is the ceiling.
CooldownAfter(consecutive) ==
  LET cooldown == Shifted(Cooldown, consecutive - FailureThreshold)
  IN  IF cooldown \in 1 .. MaxCooldown THEN cooldown ELSE MaxCooldown

Suspended(p) == health[p].retry > 0

-----------------------------------------------------------------------------

\* An upstream that answered is back in rotation whatever it did before.
ReportProviderSuccess(p) == health' = [health EXCEPT ![p] = Clean]

ReportProviderFailure(p) ==
  LET counted == health[p].consecutive + 1
      failures == IF counted > FailureCap THEN FailureCap ELSE counted
  IN  health' = [health EXCEPT ![p] =
        [consecutive |-> failures,
         retry |-> IF failures < FailureThreshold
                     THEN health[p].retry
                     ELSE CooldownAfter(failures)]]

\* Fault: a success or an edit resets the counter alone.
ResetCounterOnly(p) == health' = [health EXCEPT ![p].consecutive = 0]

\* An edited or deleted provider starts over.
ClearProviderHealth(p) == health' = [health EXCEPT ![p] = Clean]

\* One tick of the wall clock: every window that is open is a tick shorter.
Elapse ==
  health' = [p \in Provider |->
    [health[p] EXCEPT !.retry = IF @ > 0 THEN @ - 1 ELSE 0]]

-----------------------------------------------------------------------------

(* A provider is only ever out of rotation because it failed              *)
(* FailureThreshold times in a row with no success and no edit in between: *)
(* every way of emptying the counter also opens the window.                *)
SuspensionEarned ==
  \A p \in Provider : Suspended(p) => health[p].consecutive >= FailureThreshold

(* While a provider keeps failing, the time left of its suspension only    *)
(* goes down by the clock: the doubling never wraps into a shorter window, *)
(* however many failures have been counted.                                *)
CooldownNeverShrinks ==
  [][\A p \in Provider :
       health'[p].retry < health[p].retry
         => \/ health'[p] = Clean
            \/ health'[p].retry = health[p].retry - 1]_health

=============================================================================
