---------------------------- MODULE AttemptOrder ----------------------------
(***************************************************************************)
(* PreferSticky of object/provider_pool.go as a function on positions: the *)
(* attempts of a request, with the provider that answered the conversation *)
(* last moved to the front of each stretch it occurs in.  A stretch is a   *)
(* run of attempts that one routing rule put there, or the ruleless ones.  *)
(* With it, what the relay takes for granted of a plan it is handed.       *)
(***************************************************************************)
EXTENDS Integers, Sequences

\* A plan asks no provider for one model twice.
NoRepeat(attempts) ==
  \A i, j \in DOMAIN attempts :
    attempts[i].provider = attempts[j].provider /\ attempts[i].model = attempts[j].model => i = j

\* What a rule asks for comes before what would have been done without one.
RulesFirst(attempts, noRoute) ==
  \A i, j \in DOMAIN attempts :
    i < j /\ attempts[i].route = noRoute => attempts[j].route = noRoute

SameStretch(attempts, i, j) ==
  \A k \in i .. j : attempts[k].route = attempts[j].route

\* b is where the stretch that reaches k begins.
Begins(attempts, b, k) ==
  /\ b \in 1 .. k
  /\ SameStretch(attempts, b, k)
  /\ b > 1 => attempts[b - 1].route # attempts[b].route

\* f is the first attempt of p in the stretch that begins at b.
FirstOf(attempts, p, b, f) ==
  /\ f \in b .. Len(attempts)
  /\ SameStretch(attempts, b, f)
  /\ attempts[f].provider = p
  /\ \A i \in b .. f - 1 : attempts[i].provider # p

\* Where the attempt that ends up at position k comes from.
Source(attempts, p, k) ==
  LET b == CHOOSE i \in 1 .. k : Begins(attempts, i, k)
      Promoted(f) == FirstOf(attempts, p, b, f) /\ k <= f
  IN  IF \E f \in k .. Len(attempts) : Promoted(f)
        THEN IF k = b THEN CHOOSE f \in k .. Len(attempts) : Promoted(f)
                      ELSE k - 1
        ELSE k

\* Fault: a sticky provider goes to the front of the whole list.
PreferStickyAnywhere(attempts, p) ==
  LET Promoted(f) == /\ attempts[f].provider = p
                     /\ \A i \in 1 .. f - 1 : attempts[i].provider # p
  IN  IF \E f \in DOMAIN attempts : Promoted(f)
        THEN LET f == CHOOSE f \in DOMAIN attempts : Promoted(f)
             IN  [k \in DOMAIN attempts |->
                    attempts[IF k > f THEN k ELSE IF k = 1 THEN f ELSE k - 1]]
        ELSE attempts

PreferSticky(attempts, p) ==
  [k \in 1 .. Len(attempts) |-> attempts[Source(attempts, p, k)]]
=============================================================================
