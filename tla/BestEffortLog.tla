---------------------------- MODULE BestEffortLog ----------------------------
(***************************************************************************)
(* What a recorder promises: records it takes go into streams; each stream *)
(* is handled in order, every record of it once, by being logged or lost;  *)
(* once a stream is sealed nothing more goes into it, and it is settled    *)
(* only when everything in it has been handled.  A log loses rows, and     *)
(* never changes their order.                                              *)
(***************************************************************************)
EXTENDS Naturals, Sequences

CONSTANTS Record, Stream

VARIABLES
  taken,    \* the records offered so far
  pending,  \* what each stream has taken and not handled
  sealed, settled,
  log

vars == <<taken, pending, sealed, settled, log>>

Init ==
  /\ taken = {} /\ pending = [w \in Stream |-> <<>>]
  /\ sealed = {} /\ settled = {} /\ log = <<>>

TurnAway(r) ==
  /\ r \in Record \ taken /\ taken' = taken \cup {r}
  /\ UNCHANGED <<pending, sealed, settled, log>>

Take(r, w) ==
  /\ r \in Record \ taken /\ taken' = taken \cup {r}
  /\ w \in Stream \ sealed
  /\ pending' = [pending EXCEPT ![w] = Append(@, r)]
  /\ UNCHANGED <<sealed, settled, log>>

Handle(w) ==
  /\ w \in Stream /\ pending[w] # <<>>
  /\ pending' = [pending EXCEPT ![w] = Tail(@)]
  /\ log' \in {log, Append(log, Head(pending[w]))}
  /\ UNCHANGED <<taken, sealed, settled>>

Seal(w) ==
  /\ w \in Stream /\ sealed' = sealed \cup {w}
  /\ UNCHANGED <<taken, pending, settled, log>>

Settle(w) ==
  /\ w \in sealed /\ pending[w] = <<>> /\ settled' = settled \cup {w}
  /\ UNCHANGED <<taken, pending, sealed, log>>

Trim ==
  /\ \E place \in [DOMAIN log' -> DOMAIN log] :
       \A i \in DOMAIN log' : /\ log'[i] = log[place[i]]
                              /\ \A j \in DOMAIN log' : i < j => place[i] < place[j]
  /\ UNCHANGED <<taken, pending, sealed, settled>>

Next ==
  \/ \E r \in Record : TurnAway(r)
  \/ \E r \in Record, w \in Stream : Take(r, w)
  \/ \E w \in Stream : Handle(w) \/ Seal(w) \/ Settle(w)
  \/ Trim

Spec == Init /\ [][Next]_vars
=============================================================================
