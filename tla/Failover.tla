------------------------------ MODULE Failover ------------------------------
(***************************************************************************)
(* What the relay promises a client, without its breaker, its limits or    *)
(* its memory of conversations: a request is planned as a set of attempts, *)
(* which are made one after another, each at most once, and an attempt is  *)
(* crossed off by making it and in no other way.  The request is told it   *)
(* failed only when nothing is left to try.  What cuts it short is the     *)
(* answer to the attempt under way, or the client leaving.                 *)
(***************************************************************************)
CONSTANTS Slot, Attempt

VARIABLES
  phase,     \* of each request slot: "free", "open", or how it closed
  untried,   \* the attempts of its request that have not been made
  making     \* the attempt that is being made: no element, or one

Init ==
  /\ phase = [r \in Slot |-> "free"]
  /\ untried = [r \in Slot |-> {}]
  /\ making = [r \in Slot |-> {}]

\* A plan is any set of attempts.
Begin(r) ==
  /\ phase[r] # "open"
  /\ phase' = [phase EXCEPT ![r] = "open"]
  /\ untried'[r] \subseteq Attempt
  /\ untried' = [untried EXCEPT ![r] = untried'[r]]
  /\ UNCHANGED making

Try(r, attempt) ==
  /\ phase[r] = "open"
  /\ making[r] = {} /\ attempt \in untried[r]
  /\ untried' = [untried EXCEPT ![r] = @ \ {attempt}]
  /\ making' = [making EXCEPT ![r] = {attempt}]
  /\ UNCHANGED phase

\* The attempt under way came to nothing; those not made are still to make.
Miss(r) ==
  /\ phase[r] = "open"
  /\ making[r] # {}
  /\ making' = [making EXCEPT ![r] = {}]
  /\ UNCHANGED <<phase, untried>>

Close(r, verdict) ==
  /\ phase[r] = "open"
  /\ phase' = [phase EXCEPT ![r] = verdict]
  /\ untried' = [untried EXCEPT ![r] = {}]
  /\ making' = [making EXCEPT ![r] = {}]

\* An upstream's own answer is handed over, a success or a refusal that no
\* other upstream would answer differently.
Answer(r) == making[r] # {} /\ Close(r, "answered")

Fail(r) == untried[r] = {} /\ Close(r, "failed")

Leave(r) == Close(r, "left")

Next ==
  \E r \in Slot :
    \/ Begin(r) \/ Miss(r) \/ Answer(r) \/ Fail(r) \/ Leave(r)
    \/ \E attempt \in untried[r] : Try(r, attempt)

Spec == Init /\ [][Next]_<<phase, untried, making>>
=============================================================================
