----------------------------- MODULE RelayProofs -----------------------------
(***************************************************************************)
(* The relay keeps its promise for every set of providers, slots and       *)
(* plans, and tries what it was handed in the order it owes; and what is   *)
(* recorded of its attempts is kept as a best-effort log keeps it.         *)
(*                                                                         *)
(* First what PreferSticky does to a list.  Then the promise: the argument *)
(* needs only what a request knows of its own attempts, so the invariant   *)
(* says nothing of the shared memories: none of the three, whatever is     *)
(* written to it when, can lose an attempt.  Then the order: it is fixed   *)
(* once, from lists that were read at different times, so the argument is  *)
(* about the lists.                                                        *)
(*                                                                         *)
(* Last the recorder, for any number of records, writers and requests that *)
(* save the settings, and channels and tables of any size: what a delete   *)
(* leaves of a table, where each record is (Recording), and that it is so  *)
(* the log of BestEffortLog.                                               *)
(***************************************************************************)
EXTENDS Relay, RecordWriter, WellFoundedInduction, FiniteSetTheorems, TLAPS

-----------------------------------------------------------------------------
(* PreferSticky only reorders: for every list of attempts and every        *)
(* provider the preferred order is a permutation of the list it was given. *)

(* A set of naturals that is not empty has a least element.                *)
LEMMA LeastNatural ==
  ASSUME NEW T, T \subseteq Nat, T # {}
  PROVE  \E m \in T : \A n \in T : m <= n
<1>1. IsWellFoundedOn(OpToRel(<, Nat), Nat)
  BY NatLessThanWellFounded
<1>2. PICK m \in T : \A n \in T : ~ (<<n, m>> \in OpToRel(<, Nat))
  BY <1>1, WFMin
<1>3. \A n \in T : ~ (n < m)
  BY <1>2 DEF OpToRel
<1> QED
  BY <1>3

(* ... so what holds of 0, and of a number when it does of the one before, *)
(* holds up to N.                                                          *)
LEMMA UpTo ==
  ASSUME NEW N \in Nat, NEW T, 0 \in T, \A n \in 1 .. N : n - 1 \in T => n \in T
  PROVE  0 .. N \subseteq T
<1> SUFFICES ASSUME (0 .. N) \ T # {}  PROVE FALSE
  OBVIOUS
<1>1. PICK m \in (0 .. N) \ T : \A n \in (0 .. N) \ T : m <= n
  <2>1. (0 .. N) \ T \subseteq Nat
    OBVIOUS
  <2> QED
    BY <2>1, LeastNatural
<1>2. m \in 1 .. N /\ m - 1 \in 0 .. N /\ ~ (m <= m - 1)
  BY <1>1
<1> QED
  BY <1>1, <1>2

(* Every position belongs to one stretch, which begins at one place.       *)
LEMMA StretchBegins ==
  ASSUME NEW S, NEW attempts \in Seq(S), NEW k \in 1 .. Len(attempts)
  PROVE  \E b \in 1 .. k : Begins(attempts, b, k)
<1> DEFINE T == {i \in 1 .. k : SameStretch(attempts, i, k)}
<1>1. T # {} /\ T \subseteq Nat
  <2>1. k \in T
    BY DEF SameStretch
  <2> QED
    BY <2>1
<1> HIDE DEF T
<1>2. PICK b \in T : \A i \in T : b <= i
  BY <1>1, LeastNatural
<1> USE DEF T
<1>3. b > 1 => attempts[b - 1].route # attempts[b].route
  <2> SUFFICES ASSUME b > 1, attempts[b - 1].route = attempts[b].route
               PROVE  FALSE
    OBVIOUS
  <2>1. \A i \in b .. k : attempts[i].route = attempts[k].route
    BY DEF SameStretch
  <2>2. \A i \in b - 1 .. k : attempts[i].route = attempts[k].route
    BY <2>1
  <2>3. b - 1 \in T
    BY <2>2 DEF SameStretch
  <2> QED
    BY <2>3, <1>2
<1> QED
  BY <1>2, <1>3 DEF Begins

LEMMA StretchBeginsOnce ==
  ASSUME NEW S, NEW attempts \in Seq(S), NEW k \in 1 .. Len(attempts),
         NEW b \in 1 .. k, Begins(attempts, b, k),
         NEW c \in 1 .. k, Begins(attempts, c, k)
  PROVE  b = c
<1>1. ASSUME NEW x \in 1 .. k, NEW y \in 1 .. k, x < y,
             Begins(attempts, x, k), Begins(attempts, y, k)
      PROVE  FALSE
  <2>1. attempts[y - 1].route = attempts[k].route /\ attempts[y].route = attempts[k].route
    BY <1>1 DEF Begins, SameStretch
  <2> QED
    BY <2>1, <1>1 DEF Begins
<1> QED
  BY <1>1

LEMMA FirstIsOne ==
  ASSUME NEW S, NEW attempts \in Seq(S), NEW p, NEW b \in 1 .. Len(attempts),
         NEW f, FirstOf(attempts, p, b, f),
         NEW g, FirstOf(attempts, p, b, g)
  PROVE  f = g
<1>1. f \in Int /\ g \in Int /\ b <= f /\ b <= g
  BY DEF FirstOf
<1>2. ~(f < g) /\ ~(g < f)
  BY <1>1 DEF FirstOf
<1> QED
  BY <1>1, <1>2

(* A provider that occurs in a stretch occurs in it somewhere first.       *)
LEMMA FirstExists ==
  ASSUME NEW S, NEW attempts \in Seq(S), NEW p, NEW b \in 1 .. Len(attempts),
         NEW i \in b .. Len(attempts), SameStretch(attempts, b, i),
         attempts[i].provider = p
  PROVE  \E f \in b .. i : FirstOf(attempts, p, b, f)
<1> DEFINE T == {j \in b .. i : attempts[j].provider = p}
<1>1. T # {} /\ T \subseteq Nat
  <2>1. i \in T
    OBVIOUS
  <2> QED
    BY <2>1
<1> HIDE DEF T
<1>2. PICK f \in T : \A j \in T : f <= j
  BY <1>1, LeastNatural
<1> USE DEF T
<1>3. \A j \in b .. f - 1 : attempts[j].provider # p
  BY <1>2
<1>4. SameStretch(attempts, b, f)
  BY <1>2 DEF SameStretch
<1> QED
  BY <1>2, <1>3, <1>4 DEF FirstOf

(* Where the attempt at position k comes from, when its stretch begins at  *)
(* b: a stretch with no occurrence of p from k on is left as it is there.  *)
LEMMA SourceCases ==
  ASSUME NEW S, NEW attempts \in Seq(S), NEW p, NEW k \in 1 .. Len(attempts),
         NEW b \in 1 .. k, Begins(attempts, b, k)
  PROVE  /\ \A f \in k .. Len(attempts) : FirstOf(attempts, p, b, f) =>
              Source(attempts, p, k) = IF k = b THEN f ELSE k - 1
         /\ (\A f \in k .. Len(attempts) : ~ FirstOf(attempts, p, b, f)) =>
              Source(attempts, p, k) = k
<1> DEFINE c == CHOOSE i \in 1 .. k : Begins(attempts, i, k)
<1>1. c = b
  <2>1. c \in 1 .. k /\ Begins(attempts, c, k)
    OBVIOUS
  <2> HIDE DEF c
  <2> QED
    BY <2>1, StretchBeginsOnce
<1> DEFINE Promoted(f) == FirstOf(attempts, p, b, f) /\ k <= f
<1>2. Source(attempts, p, k) =
        IF \E f \in k .. Len(attempts) : Promoted(f)
          THEN IF k = b THEN CHOOSE f \in k .. Len(attempts) : Promoted(f) ELSE k - 1
          ELSE k
  BY <1>1 DEF Source
<1>3. ASSUME NEW f \in k .. Len(attempts), FirstOf(attempts, p, b, f)
      PROVE  Source(attempts, p, k) = IF k = b THEN f ELSE k - 1
  <2>1. Promoted(f)
    BY <1>3
  <2> DEFINE g == CHOOSE g \in k .. Len(attempts) : Promoted(g)
  <2>2. g \in k .. Len(attempts) /\ Promoted(g)
    BY <2>1
  <2>3. g = f
    <3> HIDE DEF g
    <3> QED
      BY <1>3, <2>2, FirstIsOne
  <2> QED
    BY <1>2, <2>1, <2>3
<1>4. ASSUME \A f \in k .. Len(attempts) : ~ FirstOf(attempts, p, b, f)
      PROVE  Source(attempts, p, k) = k
  BY <1>2, <1>4
<1> QED
  BY <1>3, <1>4

(* In a stretch that p first occurs in at f, f goes to the front and what  *)
(* was before it moves back by one; any other stretch stays as it is.      *)
LEMMA SourceShift ==
  ASSUME NEW S, NEW attempts \in Seq(S), NEW p, NEW k \in 1 .. Len(attempts),
         NEW b \in 1 .. k, Begins(attempts, b, k),
         NEW f \in b .. Len(attempts), FirstOf(attempts, p, b, f)
  PROVE  Source(attempts, p, k) = IF k > f THEN k ELSE IF k = b THEN f ELSE k - 1
<1>1. CASE k > f
  <2>1. \A g \in k .. Len(attempts) : ~ FirstOf(attempts, p, b, g)
    BY <1>1, FirstIsOne
  <2> QED
    BY <2>1, <1>1, SourceCases
<1>2. CASE ~(k > f)
  <2>1. f \in k .. Len(attempts)
    BY <1>2
  <2> QED
    BY <2>1, <1>2, SourceCases
<1> QED
  BY <1>1, <1>2

LEMMA SourceStays ==
  ASSUME NEW S, NEW attempts \in Seq(S), NEW p, NEW k \in 1 .. Len(attempts),
         NEW b \in 1 .. k, Begins(attempts, b, k),
         \A f \in b .. Len(attempts) : ~ FirstOf(attempts, p, b, f)
  PROVE  Source(attempts, p, k) = k
<1>1. \A f \in k .. Len(attempts) : ~ FirstOf(attempts, p, b, f)
  OBVIOUS
<1> QED
  BY <1>1, SourceCases

(* An attempt never leaves its stretch.                                    *)
LEMMA SourceInStretch ==
  ASSUME NEW S, NEW attempts \in Seq(S), NEW p, NEW k \in 1 .. Len(attempts),
         NEW b \in 1 .. k, Begins(attempts, b, k)
  PROVE  /\ Source(attempts, p, k) \in b .. Len(attempts)
         /\ Begins(attempts, b, Source(attempts, p, k))
<1>1. CASE \E f \in b .. Len(attempts) : FirstOf(attempts, p, b, f)
  <2>1. PICK f \in b .. Len(attempts) : FirstOf(attempts, p, b, f)
    BY <1>1
  <2>2. Source(attempts, p, k) \in {k, f, k - 1} /\ (Source(attempts, p, k) = k - 1 => k - 1 >= b)
    BY <2>1, SourceShift
  <2>3. SameStretch(attempts, b, k) /\ SameStretch(attempts, b, f)
    BY <2>1 DEF Begins, FirstOf
  <2>4. \A i \in b .. k : SameStretch(attempts, b, i)
    BY <2>3 DEF SameStretch
  <2> QED
    BY <2>2, <2>3, <2>4 DEF Begins
<1>2. CASE \A f \in b .. Len(attempts) : ~ FirstOf(attempts, p, b, f)
  BY <1>2, SourceStays
<1> QED
  BY <1>1, <1>2

(* No attempt is made twice: no two positions take theirs from one.        *)
LEMMA SourceInjective ==
  ASSUME NEW S, NEW attempts \in Seq(S), NEW p,
         NEW k \in 1 .. Len(attempts), NEW l \in 1 .. Len(attempts),
         Source(attempts, p, k) = Source(attempts, p, l)
  PROVE  k = l
<1>1. PICK b \in 1 .. k : Begins(attempts, b, k)
  BY StretchBegins
<1>2. PICK c \in 1 .. l : Begins(attempts, c, l)
  BY StretchBegins
<1>3. b = c
  <2> DEFINE s == Source(attempts, p, k)
  <2>1. s \in 1 .. Len(attempts) /\ b \in 1 .. s /\ c \in 1 .. s
    BY <1>1, <1>2, SourceInStretch
  <2>2. Begins(attempts, b, s) /\ Begins(attempts, c, s)
    BY <1>1, <1>2, SourceInStretch
  <2> HIDE DEF s
  <2> QED
    BY <2>1, <2>2, StretchBeginsOnce
<1>4. b \in 1 .. l /\ Begins(attempts, b, l)
  BY <1>2, <1>3
<1>5. CASE \E f \in b .. Len(attempts) : FirstOf(attempts, p, b, f)
  <2>1. PICK f \in b .. Len(attempts) : FirstOf(attempts, p, b, f)
    BY <1>5
  <2>2. Source(attempts, p, k) = IF k > f THEN k ELSE IF k = b THEN f ELSE k - 1
    BY <1>1, <2>1, SourceShift
  <2>3. Source(attempts, p, l) = IF l > f THEN l ELSE IF l = b THEN f ELSE l - 1
    BY <1>4, <2>1, SourceShift
  <2>4. b \in Int /\ k \in Int /\ l \in Int /\ f \in Int /\ b <= k /\ b <= l /\ b <= f
    BY <1>4
  <2>5. ASSUME NEW s \in Int, s = IF k > f THEN k ELSE IF k = b THEN f ELSE k - 1,
               s = IF l > f THEN l ELSE IF l = b THEN f ELSE l - 1
        PROVE  k = l
    BY <2>4, <2>5
  <2>6. Source(attempts, p, k) \in Int
    BY <1>1, SourceInStretch
  <2> QED
    BY <2>2, <2>3, <2>5, <2>6
<1>6. CASE \A f \in b .. Len(attempts) : ~ FirstOf(attempts, p, b, f)
  BY <1>1, <1>4, <1>6, SourceStays
<1> QED
  BY <1>5, <1>6

(* No attempt is lost: every position is some position's source.           *)
LEMMA SourceOnto ==
  ASSUME NEW S, NEW attempts \in Seq(S), NEW p, NEW j \in 1 .. Len(attempts)
  PROVE  \E k \in 1 .. Len(attempts) : Source(attempts, p, k) = j
<1>1. PICK b \in 1 .. j : Begins(attempts, b, j)
  BY StretchBegins
<1>2. CASE \E f \in b .. Len(attempts) : FirstOf(attempts, p, b, f)
  <2>1. PICK f \in b .. Len(attempts) : FirstOf(attempts, p, b, f)
    BY <1>2
  <2>2. SameStretch(attempts, b, f) /\ SameStretch(attempts, b, j)
    BY <1>1, <2>1 DEF Begins, FirstOf
  <2>3. \A i \in b .. f : Begins(attempts, b, i)
    BY <1>1, <2>2 DEF Begins, SameStretch
  <2>4. CASE j > f
    <3>1. Source(attempts, p, j) = j
      BY <1>1, <2>1, <2>4, SourceShift
    <3> QED
      BY <3>1
  <2>5. CASE j = f
    <3>1. Source(attempts, p, b) = j
      BY <2>1, <2>3, <2>5, SourceShift
    <3> QED
      BY <3>1
  <2>6. CASE j < f
    <3>1. j + 1 \in b .. f /\ j + 1 \in 1 .. Len(attempts) /\ b \in 1 .. j + 1
      BY <2>6
    <3>2. Begins(attempts, b, j + 1)
      BY <2>3, <3>1
    <3>3. Source(attempts, p, j + 1) = j
      BY <2>1, <2>6, <3>1, <3>2, SourceShift
    <3> QED
      BY <3>1, <3>3
  <2> QED
    BY <2>4, <2>5, <2>6
<1>3. CASE \A f \in b .. Len(attempts) : ~ FirstOf(attempts, p, b, f)
  BY <1>1, <1>3, SourceStays
<1> QED
  BY <1>2, <1>3

(* A stretch holds its position k and where k's attempt comes from, with   *)
(* everything between the two.                                             *)
LEMMA SourceStretch ==
  ASSUME NEW S, NEW attempts \in Seq(S), NEW p, NEW k \in 1 .. Len(attempts)
  PROVE  \E b \in 1 .. k :
           /\ Source(attempts, p, k) \in b .. Len(attempts)
           /\ \A i \in b .. k : attempts[i].route = attempts[k].route
           /\ \A i \in b .. Source(attempts, p, k) : attempts[i].route = attempts[k].route
<1>1. PICK b \in 1 .. k : Begins(attempts, b, k)
  BY StretchBegins
<1> DEFINE s == Source(attempts, p, k)
<1>2. s \in b .. Len(attempts) /\ Begins(attempts, b, s)
  BY <1>1, SourceInStretch
<1> HIDE DEF s
<1>3. \A i \in b .. k : attempts[i].route = attempts[k].route
  BY <1>1 DEF Begins, SameStretch
<1>4. \A i \in b .. s : attempts[i].route = attempts[s].route
  BY <1>2 DEF Begins, SameStretch
<1>5. attempts[b].route = attempts[k].route /\ attempts[b].route = attempts[s].route
  BY <1>2, <1>3, <1>4
<1> QED
  BY <1>2, <1>3, <1>4, <1>5 DEF s

(* Two attempts change places only inside one rule's stretch.              *)
LEMMA SwappedInStretch ==
  ASSUME NEW S, NEW attempts \in Seq(S), NEW p,
         NEW k \in 1 .. Len(attempts), NEW l \in 1 .. Len(attempts), k < l,
         Source(attempts, p, l) < Source(attempts, p, k)
  PROVE  attempts[Source(attempts, p, k)].route = attempts[Source(attempts, p, l)].route
<1> DEFINE s == Source(attempts, p, k)
           t == Source(attempts, p, l)
<1>1. PICK b \in 1 .. k :
        /\ s \in b .. Len(attempts)
        /\ \A i \in b .. k : attempts[i].route = attempts[k].route
        /\ \A i \in b .. s : attempts[i].route = attempts[k].route
  BY SourceStretch
<1>2. PICK c \in 1 .. l :
        /\ t \in c .. Len(attempts)
        /\ \A i \in c .. l : attempts[i].route = attempts[l].route
        /\ \A i \in c .. t : attempts[i].route = attempts[l].route
  BY SourceStretch
<1>3. t < s
  OBVIOUS
<1> HIDE DEF s, t
<1>4. attempts[s].route = attempts[k].route /\ attempts[t].route = attempts[l].route
  BY <1>1, <1>2
<1>5. CASE l <= s
  <2>1. l \in b .. s
    BY <1>1, <1>5
  <2> QED
    BY <1>1, <1>4, <2>1 DEF s, t
<1>6. CASE s < l
  <2>1. s \in c .. l
    BY <1>1, <1>2, <1>3, <1>6
  <2> QED
    BY <1>2, <1>4, <2>1 DEF s, t
<1> QED
  BY <1>1, <1>5, <1>6

(* A remembered provider never costs a request an attempt: what is tried   *)
(* is exactly what was planned, in another order, and nothing twice that   *)
(* was planned once.                                                       *)
THEOREM PreferStickyPermutes ==
  ASSUME NEW S, NEW attempts \in Seq(S), NEW p
  PROVE  /\ PreferSticky(attempts, p) \in Seq(S)
         /\ Len(PreferSticky(attempts, p)) = Len(attempts)
         /\ \A k \in 1 .. Len(attempts) :
              /\ Source(attempts, p, k) \in 1 .. Len(attempts)
              /\ PreferSticky(attempts, p)[k] = attempts[Source(attempts, p, k)]
         /\ \A k, l \in 1 .. Len(attempts) :
              Source(attempts, p, k) = Source(attempts, p, l) => k = l
         /\ \A j \in 1 .. Len(attempts) :
              \E k \in 1 .. Len(attempts) : Source(attempts, p, k) = j
<1>1. \A k \in 1 .. Len(attempts) : Source(attempts, p, k) \in 1 .. Len(attempts)
  <2> TAKE k \in 1 .. Len(attempts)
  <2>1. PICK b \in 1 .. k : Begins(attempts, b, k)
    BY StretchBegins
  <2> QED
    BY <2>1, SourceInStretch
<1>2. /\ PreferSticky(attempts, p) \in Seq(S)
      /\ Len(PreferSticky(attempts, p)) = Len(attempts)
  BY <1>1 DEF PreferSticky
<1>3. \A k \in 1 .. Len(attempts) :
         PreferSticky(attempts, p)[k] = attempts[Source(attempts, p, k)]
  BY DEF PreferSticky
<1> QED
  BY <1>1, <1>2, <1>3, SourceInjective, SourceOnto

-----------------------------------------------------------------------------

(* The request variables take values of their types.                       *)
RequestTyped ==
  /\ pc \in [Slot -> Stages]
  /\ answer \in [Slot -> Answers]
  /\ plan \in [Slot -> Seq(Attempt)]
  /\ unusable \in [Slot -> SUBSET Provider]
  /\ weighed \in [Slot -> Nat]
  /\ ready \in [Slot -> Seq(Attempt)]
  /\ held \in [Slot -> Seq(Attempt)]
  /\ order \in [Slot -> Seq(Attempt)]
  /\ at \in [Slot -> Nat]

Distinct(attempts) ==
  \A i, j \in 1 .. Len(attempts) : attempts[i] = attempts[j] => i = j

(* What has been weighed of a plan is in one of the lists, once, and comes *)
(* from the part of the plan that was read.                                *)
Apart(attempts, read, first, last) ==
  /\ read <= Len(attempts)
  /\ Distinct(attempts) /\ Distinct(first) /\ Distinct(last)
  /\ \A i \in 1 .. Len(first), j \in 1 .. Len(last) : first[i] # last[j]
  /\ \A i \in 1 .. Len(first), j \in read + 1 .. Len(attempts) : first[i] # attempts[j]
  /\ \A i \in 1 .. Len(last), j \in read + 1 .. Len(attempts) : last[i] # attempts[j]

WeighedApart(r) ==
  pc[r] = "weighing" => Apart(plan[r], weighed[r], ready[r], held[r])

(* While the attempts are walked: none is in the order twice, and the one  *)
(* under way is one of them.                                               *)
WalkedOnce(r) ==
  pc[r] \in {"walking", "trying", "skipping"} =>
    /\ Distinct(order[r])
    /\ at[r] \in 1 .. Len(order[r]) + 1
    /\ pc[r] # "walking" => at[r] <= Len(order[r])

(* A request that is over, or has yet to come, holds nothing.              *)
HoldsNothing(r) ==
  pc[r] \in {"idle", "done"} => /\ weighed[r] = 0
                                /\ ready[r] = <<>>
                                /\ held[r] = <<>>

RequestInv(r) == WeighedApart(r) /\ WalkedOnce(r) /\ HoldsNothing(r)

Inv == RequestTyped /\ \A r \in Slot : RequestInv(r)

-----------------------------------------------------------------------------

(* A step of one request leaves the others as they were.                   *)
LEMMA Untouched ==
  ASSUME NEW r \in Slot, RequestInv(r),
         pc'[r] = pc[r], plan'[r] = plan[r], weighed'[r] = weighed[r],
         ready'[r] = ready[r], held'[r] = held[r], order'[r] = order[r], at'[r] = at[r]
  PROVE  RequestInv(r)'
BY DEF RequestInv, WeighedApart, WalkedOnce, HoldsNothing

LEMMA EndKeepsInv ==
  ASSUME Inv, NEW r \in Slot, NEW handed \in Answers, End(r, handed)
  PROVE  Inv'
<1>1. RequestTyped'
  BY DEF Inv, RequestTyped, End, Stages
<1>2. ASSUME NEW s \in Slot
      PROVE  RequestInv(s)'
  <2>1. CASE s = r
    BY <2>1 DEF Inv, RequestTyped, End, RequestInv, WeighedApart, WalkedOnce, HoldsNothing
  <2>2. CASE s # r
    BY <2>2, Untouched DEF Inv, RequestTyped, End
  <2> QED
    BY <2>1, <2>2
<1> QED
  BY <1>1, <1>2 DEF Inv

LEMMA MoveOnKeepsInv ==
  ASSUME Inv, NEW r \in Slot, pc[r] \in {"trying", "skipping"}, MoveOn(r)
  PROVE  Inv'
<1>1. RequestTyped'
  BY DEF Inv, RequestTyped, MoveOn, Stages
<1>2. ASSUME NEW s \in Slot
      PROVE  RequestInv(s)'
  <2>1. CASE s = r
    <3>1. pc'[r] = "walking" /\ at'[r] = at[r] + 1 /\ order'[r] = order[r]
      BY DEF Inv, RequestTyped, MoveOn
    <3>2. Distinct(order[r]) /\ at[r] \in 1 .. Len(order[r])
      BY DEF Inv, RequestTyped, RequestInv, WalkedOnce
    <3>3. at'[r] \in 1 .. Len(order'[r]) + 1
      <4>1. Len(order[r]) \in Nat
        BY DEF Inv, RequestTyped
      <4> QED
        BY <3>1, <3>2, <4>1
    <3> QED
      BY <2>1, <3>1, <3>2, <3>3 DEF RequestInv, WeighedApart, WalkedOnce, HoldsNothing
  <2>2. CASE s # r
    BY <2>2, Untouched DEF Inv, RequestTyped, MoveOn
  <2> QED
    BY <2>1, <2>2
<1> QED
  BY <1>1, <1>2 DEF Inv

LEMMA ArriveKeepsInv ==
  ASSUME Inv, NEW r \in Slot, Arrive(r)
  PROVE  Inv'
<1>1. PICK attempts \in Plans, skip \in Unusables :
        /\ plan' = [plan EXCEPT ![r] = attempts]
        /\ unusable' = [unusable EXCEPT ![r] = skip]
  BY DEF Arrive
<1>2. attempts \in Seq(Attempt) /\ skip \in SUBSET Provider /\ Distinct(attempts)
  BY RelayAssumption DEF NoRepeat, Distinct
<1>3. RequestTyped'
  BY <1>1, <1>2 DEF Inv, RequestTyped, Arrive, Stages, Answers
<1>4. ASSUME NEW s \in Slot
      PROVE  RequestInv(s)'
  <2>1. CASE s = r
    <3>1. plan'[r] = attempts /\ weighed'[r] = 0 /\ ready'[r] = <<>> /\ held'[r] = <<>> /\ pc'[r] = "weighing"
      BY <1>1 DEF Inv, RequestTyped, Arrive, RequestInv, HoldsNothing
    <3>2. Apart(attempts, 0, <<>>, <<>>)
      BY <1>2 DEF Apart, Distinct
    <3> QED
      BY <2>1, <3>1, <3>2 DEF RequestInv, WeighedApart, WalkedOnce, HoldsNothing
  <2>2. CASE s # r
    BY <2>2, <1>1, Untouched DEF Inv, RequestTyped, Arrive
  <2> QED
    BY <2>1, <2>2
<1> QED
  BY <1>3, <1>4 DEF Inv

(* The next attempt of the plan is dropped, or goes to the end of a list.  *)
LEMMA ApartSkip ==
  ASSUME NEW attempts \in Seq(Attempt), NEW first \in Seq(Attempt), NEW last \in Seq(Attempt),
         NEW read \in Nat, read < Len(attempts), Apart(attempts, read, first, last)
  PROVE  Apart(attempts, read + 1, first, last)
BY DEF Apart

LEMMA ApartAppend ==
  ASSUME NEW attempts \in Seq(Attempt), NEW first \in Seq(Attempt), NEW last \in Seq(Attempt),
         NEW read \in Nat, read < Len(attempts), Apart(attempts, read, first, last)
  PROVE  Apart(attempts, read + 1, Append(first, attempts[read + 1]), last)
<1> DEFINE a == attempts[read + 1]
           longer == Append(first, a)
<1>1. a \in Attempt /\ read + 1 \in 1 .. Len(attempts)
  OBVIOUS
<1>2. /\ Len(longer) = Len(first) + 1
      /\ \A i \in 1 .. Len(longer) :
           longer[i] = IF i = Len(first) + 1 THEN a ELSE first[i]
  BY <1>1
<1>3. \A i \in 1 .. Len(first) : first[i] # a
  BY <1>1 DEF Apart
<1>4. \A i \in 1 .. Len(last) : last[i] # a
  BY <1>1 DEF Apart
<1>5. \A j \in read + 2 .. Len(attempts) : attempts[j] # a
  BY <1>1 DEF Apart, Distinct
<1> HIDE DEF a, longer
<1>6. Distinct(longer)
  BY <1>2, <1>3 DEF Apart, Distinct
<1>7. \A i \in 1 .. Len(longer), j \in 1 .. Len(last) : longer[i] # last[j]
  BY <1>2, <1>4 DEF Apart
<1>8. \A j \in (read + 1) + 1 .. Len(attempts) :
        /\ j \in read + 1 .. Len(attempts) /\ j \in read + 2 .. Len(attempts)
  OBVIOUS
<1>9. \A i \in 1 .. Len(longer), j \in (read + 1) + 1 .. Len(attempts) : longer[i] # attempts[j]
  BY <1>2, <1>5, <1>8 DEF Apart
<1>10. \A i \in 1 .. Len(last), j \in (read + 1) + 1 .. Len(attempts) : last[i] # attempts[j]
  BY <1>8 DEF Apart
<1>11. read + 1 <= Len(attempts) /\ Distinct(attempts) /\ Distinct(last)
  BY DEF Apart
<1>12. Apart(attempts, read + 1, longer, last)
  BY <1>6, <1>7, <1>9, <1>10, <1>11 DEF Apart
<1> QED
  BY <1>12 DEF longer, a

LEMMA ApartSwap ==
  ASSUME NEW attempts, NEW read, NEW first, NEW last, Apart(attempts, read, first, last)
  PROVE  Apart(attempts, read, last, first)
BY DEF Apart

LEMMA WeighKeepsInv ==
  ASSUME Inv, NEW r \in Slot, Weigh(r)
  PROVE  Inv'
<1> DEFINE a == plan[r][weighed[r] + 1]
<1>1. /\ plan[r] \in Seq(Attempt) /\ ready[r] \in Seq(Attempt) /\ held[r] \in Seq(Attempt)
      /\ weighed[r] \in Nat /\ weighed[r] < Len(plan[r])
      /\ Apart(plan[r], weighed[r], ready[r], held[r])
  BY DEF Inv, RequestTyped, RequestInv, WeighedApart, Weigh
<1>2. a \in Attempt
  BY <1>1
<1>3. \/ UNCHANGED <<ready, held>>
      \/ held' = [held EXCEPT ![r] = Append(@, a)] /\ UNCHANGED ready
      \/ ready' = [ready EXCEPT ![r] = Append(@, a)] /\ UNCHANGED held
  BY DEF Weigh
<1>4. /\ weighed' = [weighed EXCEPT ![r] = @ + 1]
      /\ UNCHANGED <<pc, plan, unusable, order, at, answer>>
      /\ pc[r] = "weighing"
  BY DEF Weigh
<1> HIDE DEF a
<1>5. RequestTyped'
  <2>1. ready' \in [Slot -> Seq(Attempt)] /\ held' \in [Slot -> Seq(Attempt)]
    <3>1. Append(ready[r], a) \in Seq(Attempt) /\ Append(held[r], a) \in Seq(Attempt)
      BY <1>1, <1>2
    <3> QED
      BY <1>3, <3>1 DEF Inv, RequestTyped
  <2>2. weighed' \in [Slot -> Nat]
    <3>1. weighed[r] + 1 \in Nat
      BY <1>1
    <3> QED
      BY <1>4, <3>1 DEF Inv, RequestTyped
  <2> QED
    BY <1>4, <2>1, <2>2 DEF Inv, RequestTyped
<1>6. ASSUME NEW s \in Slot
      PROVE  RequestInv(s)'
  <2>1. CASE s = r
    <3>1. \/ ready'[r] = ready[r] /\ held'[r] = held[r]
          \/ ready'[r] = ready[r] /\ held'[r] = Append(held[r], a)
          \/ ready'[r] = Append(ready[r], a) /\ held'[r] = held[r]
      BY <1>3 DEF Inv, RequestTyped
    <3>2. plan'[r] = plan[r] /\ weighed'[r] = weighed[r] + 1 /\ pc'[r] = "weighing"
      BY <1>4 DEF Inv, RequestTyped
    <3> USE DEF a
    <3>3. Apart(plan[r], weighed[r] + 1, ready'[r], held'[r])
      <4>1. CASE ready'[r] = ready[r] /\ held'[r] = held[r]
        BY <1>1, <4>1, ApartSkip
      <4>2. CASE ready'[r] = ready[r] /\ held'[r] = Append(held[r], a)
        BY <1>1, <4>2, ApartAppend, ApartSwap
      <4>3. CASE ready'[r] = Append(ready[r], a) /\ held'[r] = held[r]
        BY <1>1, <4>3, ApartAppend
      <4> QED
        BY <3>1, <4>1, <4>2, <4>3
    <3> QED
      BY <2>1, <3>2, <3>3 DEF RequestInv, WeighedApart, WalkedOnce, HoldsNothing
  <2>2. CASE s # r
    BY <2>2, <1>3, <1>4, Untouched DEF Inv, RequestTyped
  <2> QED
    BY <2>1, <2>2
<1> QED
  BY <1>5, <1>6 DEF Inv

LEMMA RangeOfSeq ==
  ASSUME NEW attempts \in Seq(Attempt)
  PROVE  /\ \A i \in 1 .. Len(attempts) : attempts[i] \in Range(attempts)
         /\ \A a \in Range(attempts) : \E i \in 1 .. Len(attempts) : attempts[i] = a
<1>1. DOMAIN attempts = 1 .. Len(attempts)
  OBVIOUS
<1> QED
  BY <1>1 DEF Range

LEMMA RangeAppend ==
  ASSUME NEW attempts \in Seq(Attempt), NEW a \in Attempt
  PROVE  Range(Append(attempts, a)) = Range(attempts) \cup {a}
<1> DEFINE longer == Append(attempts, a)
<1>1. /\ longer \in Seq(Attempt) /\ Len(longer) = Len(attempts) + 1 /\ Len(attempts) \in Nat
      /\ \A i \in 1 .. Len(attempts) : longer[i] = attempts[i]
      /\ longer[Len(attempts) + 1] = a
  OBVIOUS
<1> HIDE DEF longer
<1>2. Range(longer) \subseteq Range(attempts) \cup {a}
  BY <1>1, RangeOfSeq
<1>3. Range(attempts) \cup {a} \subseteq Range(longer)
  <2>1. ASSUME NEW i \in 1 .. Len(attempts)
        PROVE  attempts[i] \in Range(longer)
    BY <1>1, RangeOfSeq
  <2>2. a \in Range(longer)
    BY <1>1, RangeOfSeq
  <2> QED
    BY <2>1, <2>2, RangeOfSeq
<1> QED
  BY <1>2, <1>3 DEF longer

(* The ready attempts ahead of the held ones: all of both, none twice.     *)
LEMMA ConcatApart ==
  ASSUME NEW attempts \in Seq(Attempt), NEW first \in Seq(Attempt), NEW last \in Seq(Attempt),
         NEW read \in Nat, Apart(attempts, read, first, last)
  PROVE  /\ first \o last \in Seq(Attempt)
         /\ Distinct(first \o last)
         /\ Range(first \o last) = Range(first) \cup Range(last)
<1> DEFINE both == first \o last
<1>1. /\ both \in Seq(Attempt)
      /\ Len(both) = Len(first) + Len(last)
      /\ \A i \in 1 .. Len(both) :
           both[i] = IF i <= Len(first) THEN first[i] ELSE last[i - Len(first)]
  OBVIOUS
<1>2. Len(first) \in Nat /\ Len(last) \in Nat
  OBVIOUS
<1> HIDE DEF both
<1>3. Distinct(both)
  <2> SUFFICES ASSUME NEW i \in 1 .. Len(both), NEW j \in 1 .. Len(both), both[i] = both[j]
               PROVE  i = j
    BY DEF Distinct
  <2>1. CASE i <= Len(first) /\ j <= Len(first)
    BY <1>1, <1>2, <2>1 DEF Apart, Distinct
  <2>2. CASE i > Len(first) /\ j > Len(first)
    <3>1. i - Len(first) \in 1 .. Len(last) /\ j - Len(first) \in 1 .. Len(last)
      BY <1>1, <1>2, <2>2
    <3>2. last[i - Len(first)] = last[j - Len(first)]
      BY <1>1, <1>2, <2>2
    <3>3. i - Len(first) = j - Len(first)
      BY <3>1, <3>2 DEF Apart, Distinct
    <3> QED
      BY <1>2, <3>3
  <2>3. CASE i <= Len(first) /\ j > Len(first)
    <3>1. i \in 1 .. Len(first) /\ j - Len(first) \in 1 .. Len(last)
      BY <1>1, <1>2, <2>3
    <3>2. first[i] = last[j - Len(first)]
      BY <1>1, <1>2, <2>3
    <3> QED
      BY <3>1, <3>2 DEF Apart
  <2>4. CASE i > Len(first) /\ j <= Len(first)
    <3>1. j \in 1 .. Len(first) /\ i - Len(first) \in 1 .. Len(last)
      BY <1>1, <1>2, <2>4
    <3>2. first[j] = last[i - Len(first)]
      BY <1>1, <1>2, <2>4
    <3> QED
      BY <3>1, <3>2 DEF Apart
  <2> QED
    BY <1>2, <2>1, <2>2, <2>3, <2>4
<1>4. Range(both) = Range(first) \cup Range(last)
  <2>1. ASSUME NEW i \in 1 .. Len(both)
        PROVE  both[i] \in Range(first) \cup Range(last)
    <3>1. CASE i <= Len(first)
      <4>1. i \in 1 .. Len(first) /\ both[i] = first[i]
        BY <1>1, <1>2, <3>1
      <4> QED
        BY <4>1, RangeOfSeq
    <3>2. CASE i > Len(first)
      <4>1. i - Len(first) \in 1 .. Len(last) /\ both[i] = last[i - Len(first)]
        BY <1>1, <1>2, <3>2
      <4> QED
        BY <4>1, RangeOfSeq
    <3> QED
      BY <1>1, <1>2, <3>1, <3>2
  <2>2. ASSUME NEW i \in 1 .. Len(first)
        PROVE  first[i] \in Range(both)
    <3>1. i \in 1 .. Len(both) /\ both[i] = first[i]
      BY <1>1, <1>2
    <3> QED
      BY <1>1, <3>1, RangeOfSeq
  <2>3. ASSUME NEW i \in 1 .. Len(last)
        PROVE  last[i] \in Range(both)
    <3>1. i + Len(first) \in 1 .. Len(both) /\ both[i + Len(first)] = last[i]
      <4>1. i + Len(first) \in 1 .. Len(both) /\ ~(i + Len(first) <= Len(first))
        BY <1>1, <1>2
      <4>2. (i + Len(first)) - Len(first) = i
        BY <1>2
      <4> QED
        BY <1>1, <4>1, <4>2
    <3> QED
      BY <1>1, <3>1, RangeOfSeq
  <2>4. Range(both) \subseteq Range(first) \cup Range(last)
    BY <1>1, <2>1, RangeOfSeq
  <2>5. Range(first) \subseteq Range(both)
    BY <2>2, RangeOfSeq
  <2>6. Range(last) \subseteq Range(both)
    BY <2>3, RangeOfSeq
  <2> QED
    BY <2>4, <2>5, <2>6
<1> QED
  BY <1>1, <1>3, <1>4 DEF both

(* Reordered or not, the attempts are the same and none is there twice.    *)
LEMMA PreferredSame ==
  ASSUME NEW attempts \in Seq(Attempt), Distinct(attempts), NEW p
  PROVE  /\ PreferSticky(attempts, p) \in Seq(Attempt)
         /\ Distinct(PreferSticky(attempts, p))
         /\ Range(PreferSticky(attempts, p)) = Range(attempts)
         /\ Len(PreferSticky(attempts, p)) = Len(attempts)
<1> DEFINE preferred == PreferSticky(attempts, p)
<1>1. /\ preferred \in Seq(Attempt) /\ Len(preferred) = Len(attempts)
      /\ \A k \in 1 .. Len(attempts) : /\ Source(attempts, p, k) \in 1 .. Len(attempts)
                                       /\ preferred[k] = attempts[Source(attempts, p, k)]
      /\ \A k, l \in 1 .. Len(attempts) :
           Source(attempts, p, k) = Source(attempts, p, l) => k = l
      /\ \A j \in 1 .. Len(attempts) :
           \E k \in 1 .. Len(attempts) : Source(attempts, p, k) = j
  BY PreferStickyPermutes
<1> HIDE DEF preferred
<1>2. Distinct(preferred)
  <2> SUFFICES ASSUME NEW k \in 1 .. Len(attempts), NEW l \in 1 .. Len(attempts),
                      preferred[k] = preferred[l]
               PROVE  k = l
    BY <1>1 DEF Distinct
  <2>1. attempts[Source(attempts, p, k)] = attempts[Source(attempts, p, l)]
    BY <1>1
  <2>2. Source(attempts, p, k) = Source(attempts, p, l)
    BY <1>1, <2>1 DEF Distinct
  <2> QED
    BY <1>1, <2>2
<1>3. Range(preferred) = Range(attempts)
  <2>1. ASSUME NEW k \in 1 .. Len(attempts)
        PROVE  preferred[k] \in Range(attempts)
    BY <1>1, RangeOfSeq
  <2>2. ASSUME NEW j \in 1 .. Len(attempts)
        PROVE  attempts[j] \in Range(preferred)
    <3>1. PICK k \in 1 .. Len(attempts) : Source(attempts, p, k) = j
      BY <1>1
    <3>2. preferred[k] = attempts[j]
      BY <1>1, <3>1
    <3> QED
      BY <1>1, <3>2, RangeOfSeq
  <2>3. Range(preferred) \subseteq Range(attempts)
    BY <1>1, <2>1, RangeOfSeq
  <2>4. Range(attempts) \subseteq Range(preferred)
    BY <2>2, RangeOfSeq
  <2> QED
    BY <2>3, <2>4
<1> QED
  BY <1>1, <1>2, <1>3 DEF preferred

(* What the walk starts from: every attempt that was found usable, once.   *)
LEMMA PreferOrders ==
  ASSUME Inv, NEW r \in Slot, Prefer(r), Sorted(r) # <<>>
  PROVE  \E attempts \in Seq(Attempt) :
           /\ order' = [order EXCEPT ![r] = attempts]
           /\ Distinct(attempts) /\ Len(attempts) >= 1
           /\ Range(attempts) = Range(ready[r]) \cup Range(held[r])
<1>1. /\ plan[r] \in Seq(Attempt) /\ ready[r] \in Seq(Attempt) /\ held[r] \in Seq(Attempt)
      /\ weighed[r] \in Nat
      /\ Apart(plan[r], weighed[r], ready[r], held[r])
  BY DEF Inv, RequestTyped, RequestInv, WeighedApart, Prefer
<1>2. /\ Sorted(r) \in Seq(Attempt) /\ Distinct(Sorted(r))
      /\ Range(Sorted(r)) = Range(ready[r]) \cup Range(held[r])
  BY <1>1, ConcatApart DEF Sorted
<1>3. Len(Sorted(r)) >= 1
  BY <1>2
<1>4. \/ order' = [order EXCEPT ![r] = Sorted(r)]
      \/ order' = [order EXCEPT ![r] =
                     PreferSticky(Sorted(r), sticky[conversation[r]].provider)]
  BY DEF Prefer
<1>5. CASE order' = [order EXCEPT ![r] = Sorted(r)]
  BY <1>2, <1>3, <1>5
<1>6. CASE order' = [order EXCEPT ![r] =
                      PreferSticky(Sorted(r), sticky[conversation[r]].provider)]
  <2> DEFINE attempts == PreferSticky(Sorted(r), sticky[conversation[r]].provider)
  <2>1. /\ attempts \in Seq(Attempt) /\ Distinct(attempts)
        /\ Range(attempts) = Range(Sorted(r)) /\ Len(attempts) = Len(Sorted(r))
    BY <1>2, PreferredSame
  <2> HIDE DEF attempts
  <2>2. order' = [order EXCEPT ![r] = attempts]
    BY <1>6 DEF attempts
  <2> QED
    BY <1>2, <1>3, <2>1, <2>2
<1> QED
  BY <1>4, <1>5, <1>6

LEMMA PreferKeepsInv ==
  ASSUME Inv, NEW r \in Slot, Prefer(r)
  PROVE  Inv'
<1>1. CASE Sorted(r) = <<>>
  <2>1. End(r, "unusable")
    BY <1>1 DEF Prefer
  <2> QED
    BY <2>1, EndKeepsInv DEF Answers
<1>2. CASE Sorted(r) # <<>>
  <2>1. PICK attempts \in Seq(Attempt) :
          /\ order' = [order EXCEPT ![r] = attempts]
          /\ Distinct(attempts) /\ Len(attempts) >= 1
    BY <1>2, PreferOrders
  <2>2. /\ at' = [at EXCEPT ![r] = 1]
        /\ pc' = [pc EXCEPT ![r] = "walking"]
        /\ UNCHANGED <<plan, unusable, weighed, ready, held, answer>>
    BY <1>2 DEF Prefer
  <2>3. RequestTyped'
    BY <2>1, <2>2 DEF Inv, RequestTyped, Stages
  <2>4. ASSUME NEW s \in Slot
        PROVE  RequestInv(s)'
    <3>1. CASE s = r
      <4>1. order'[r] = attempts /\ at'[r] = 1 /\ pc'[r] = "walking"
        BY <2>1, <2>2 DEF Inv, RequestTyped
      <4>2. Distinct(order'[r]) /\ at'[r] \in 1 .. Len(order'[r]) + 1
        BY <2>1, <4>1
      <4> QED
        BY <3>1, <4>1, <4>2 DEF RequestInv, WeighedApart, WalkedOnce, HoldsNothing
    <3>2. CASE s # r
      BY <3>2, <2>1, <2>2, Untouched DEF Inv, RequestTyped
    <3> QED
      BY <3>1, <3>2
  <2> QED
    BY <2>3, <2>4 DEF Inv
<1> QED
  BY <1>1, <1>2

(* The steps that only change where a request is.                          *)
LEMMA StageKeepsInv ==
  ASSUME Inv, NEW r \in Slot, NEW stage \in {"trying", "skipping", "relaying"},
         pc[r] \in {"walking", "trying"},
         stage = "relaying" \/ at[r] <= Len(order[r]),
         pc' = [pc EXCEPT ![r] = stage],
         answer' \in [Slot -> Answers],
         UNCHANGED <<plan, unusable, weighed, ready, held, order, at>>
  PROVE  Inv'
<1>1. RequestTyped'
  BY DEF Inv, RequestTyped, Stages
<1>2. ASSUME NEW s \in Slot
      PROVE  RequestInv(s)'
  <2>1. CASE s = r
    <3>1. pc'[r] = stage /\ order'[r] = order[r] /\ at'[r] = at[r]
      BY DEF Inv, RequestTyped
    <3>2. Distinct(order[r]) /\ at[r] \in 1 .. Len(order[r]) + 1
      BY DEF Inv, RequestTyped, RequestInv, WalkedOnce
    <3> QED
      BY <2>1, <3>1, <3>2 DEF RequestInv, WeighedApart, WalkedOnce, HoldsNothing
  <2>2. CASE s # r
    BY <2>2, Untouched DEF Inv, RequestTyped
  <2> QED
    BY <2>1, <2>2
<1> QED
  BY <1>1, <1>2 DEF Inv

LEMMA UnchangedKeepsInv ==
  ASSUME Inv, UNCHANGED <<pc, plan, unusable, weighed, ready, held, order, at, answer>>
  PROVE  Inv'
BY DEF Inv, RequestTyped, RequestInv, WeighedApart, WalkedOnce, HoldsNothing, Distinct, Apart

LEMMA RespondKeepsInv ==
  ASSUME Inv, NEW r \in Slot, NEW status \in Statuses, Respond(r, status)
  PROVE  Inv'
<1>1. pc[r] = "trying" /\ at[r] <= Len(order[r])
  BY DEF Inv, RequestInv, WalkedOnce, Respond
<1>2. UNCHANGED <<plan, unusable, weighed, ready, held, order, at>>
  BY DEF Respond
<1>3. answer' \in [Slot -> Answers]
  BY DEF Respond, Inv, RequestTyped, Answers, Statuses
<1>4. pc' = [pc EXCEPT ![r] = "skipping"] \/ pc' = [pc EXCEPT ![r] = "relaying"]
  BY DEF Respond
<1> QED
  BY <1>1, <1>2, <1>3, <1>4, StageKeepsInv

LEMMA InitHolds == Init => Inv
<1> SUFFICES ASSUME Init
             PROVE  Inv
  OBVIOUS
<1>1. RequestTyped
  BY DEF Init, RequestTyped, Stages, Answers
<1>2. ASSUME NEW r \in Slot
      PROVE  RequestInv(r)
  BY DEF Init, RequestInv, WeighedApart, WalkedOnce, HoldsNothing
<1> QED
  BY <1>1, <1>2 DEF Inv

LEMMA NextKeepsInv == Inv /\ [Next]_vars => Inv'
<1> SUFFICES ASSUME Inv, [Next]_vars
             PROVE  Inv'
  OBVIOUS
<1>1. ASSUME NEW r \in Slot, Arrive(r)
      PROVE  Inv'
  BY <1>1, ArriveKeepsInv
<1>2. ASSUME NEW r \in Slot, Weigh(r)
      PROVE  Inv'
  BY <1>2, WeighKeepsInv
<1>3. ASSUME NEW r \in Slot, Prefer(r)
      PROVE  Inv'
  BY <1>3, PreferKeepsInv
<1>4. ASSUME NEW r \in Slot, BeginAttempt(r)
      PROVE  Inv'
  <2>1. answer' \in [Slot -> Answers]
    BY <1>4 DEF BeginAttempt, Inv, RequestTyped
  <2> QED
    BY <1>4, <2>1, StageKeepsInv DEF BeginAttempt
<1>5. ASSUME NEW r \in Slot, Abandon(r)
      PROVE  Inv'
  BY <1>5, EndKeepsInv DEF Abandon, Answers
<1>6. ASSUME NEW r \in Slot, FailLocally(r)
      PROVE  Inv'
  BY <1>6, MoveOnKeepsInv DEF FailLocally
<1>7. ASSUME NEW r \in Slot, AnswerCountTokens(r)
      PROVE  Inv'
  BY <1>7, EndKeepsInv DEF AnswerCountTokens, Answers
<1>8. ASSUME NEW r \in Slot, FailToConnect(r)
      PROVE  Inv'
  BY <1>8, MoveOnKeepsInv DEF FailToConnect
<1>9. ASSUME NEW r \in Slot, NEW status \in Statuses, Respond(r, status)
      PROVE  Inv'
  BY <1>9, RespondKeepsInv
<1>10. ASSUME NEW r \in Slot, CutSkipped(r) \/ UpstreamEndsSkipped(r)
       PROVE  Inv'
  BY <1>10, MoveOnKeepsInv DEF CutSkipped, UpstreamEndsSkipped
<1>11. ASSUME NEW r \in Slot, FinishRelay(r)
       PROVE  Inv'
  <2>1. answer[r] \in Answers
    BY DEF Inv, RequestTyped
  <2> QED
    BY <1>11, <2>1, EndKeepsInv DEF FinishRelay
<1>12. ASSUME NEW r \in Slot, GiveUp(r)
       PROVE  Inv'
  BY <1>12, EndKeepsInv DEF GiveUp, Answers
<1>13. ASSUME NEW r \in Slot, HangUp(r)
       PROVE  Inv'
  BY <1>13, UnchangedKeepsInv DEF HangUp
<1>14. ASSUME NEW p \in Provider, UpdateProvider(p)
       PROVE  Inv'
  BY <1>14, UnchangedKeepsInv DEF UpdateProvider, request
<1>15. CASE Tick
  BY <1>15, UnchangedKeepsInv DEF Tick, request
<1>16. CASE UNCHANGED vars
  BY <1>16, UnchangedKeepsInv DEF vars, request
<1> QED
  BY <1>1, <1>2, <1>3, <1>4, <1>5, <1>6, <1>7, <1>8, <1>9, <1>10, <1>11, <1>12,
     <1>13, <1>14, <1>15, <1>16 DEF Next, Step

(* No request ever holds an attempt twice or walks past its own list.      *)
THEOREM AttemptsStayApart == Spec => []Inv
BY InitHolds, NextKeepsInv, PTL DEF Spec

-----------------------------------------------------------------------------
(* The promise, one of its steps at a time.                                *)

\* What the promise sees of the relay.
promised == <<[s \in Slot |-> Phase(s)], [s \in Slot |-> Untried(s)], [s \in Slot |-> Making(s)]>>

Same(s) ==
  /\ pc'[s] = pc[s] /\ answer'[s] = answer[s] /\ plan'[s] = plan[s]
  /\ unusable'[s] = unusable[s] /\ weighed'[s] = weighed[s] /\ ready'[s] = ready[s]
  /\ held'[s] = held[s] /\ order'[s] = order[s] /\ at'[s] = at[s]

OnlySlot(r) == \A s \in Slot : s # r => Same(s)

LEMMA SameKept ==
  ASSUME NEW s \in Slot, Same(s)
  PROVE  Phase(s)' = Phase(s) /\ Untried(s)' = Untried(s) /\ Making(s)' = Making(s)
<1>1. Phase(s)' = Phase(s)
  BY DEF Same, Phase, Open, Verdict
<1>2. Untried(s)' = Untried(s)
  BY DEF Same, Untried, Unweighed, Unmade, Open, Range
<1>3. Making(s)' = Making(s)
  BY DEF Same, Making, Current
<1> QED
  BY <1>1, <1>2, <1>3

LEMMA OneSlotMoves ==
  ASSUME NEW r \in Slot, OnlySlot(r)
  PROVE  /\ [s \in Slot |-> Phase(s)]' = [[s \in Slot |-> Phase(s)] EXCEPT ![r] = Phase(r)']
         /\ [s \in Slot |-> Untried(s)]' = [[s \in Slot |-> Untried(s)] EXCEPT ![r] = Untried(r)']
         /\ [s \in Slot |-> Making(s)]' = [[s \in Slot |-> Making(s)] EXCEPT ![r] = Making(r)']
<1>1. \A s \in Slot : s # r => Phase(s)' = Phase(s) /\ Untried(s)' = Untried(s) /\ Making(s)' = Making(s)
  BY SameKept DEF OnlySlot
<1> QED
  BY <1>1

LEMMA PromisedBegin ==
  ASSUME NEW r \in Slot, OnlySlot(r), Phase(r) # "open",
         Phase(r)' = "open", Untried(r)' \subseteq Attempt, Making(r)' = Making(r)
  PROVE  Promise!Begin(r)
BY OneSlotMoves DEF Promise!Begin

LEMMA PromisedTry ==
  ASSUME NEW r \in Slot, OnlySlot(r), Phase(r) = "open", Phase(r)' = "open",
         NEW a \in Untried(r), Untried(r)' = Untried(r) \ {a}, Making(r) = {}, Making(r)' = {a}
  PROVE  Promise!Try(r, a)
<1>1. [s \in Slot |-> Phase(s)]' = [s \in Slot |-> Phase(s)]
  BY OneSlotMoves
<1>2. [s \in Slot |-> Untried(s)]' = [[s \in Slot |-> Untried(s)] EXCEPT ![r] = @ \ {a}]
  BY OneSlotMoves
<1>3. [s \in Slot |-> Making(s)]' = [[s \in Slot |-> Making(s)] EXCEPT ![r] = {a}]
  BY OneSlotMoves
<1> QED
  BY <1>1, <1>2, <1>3 DEF Promise!Try

LEMMA PromisedMiss ==
  ASSUME NEW r \in Slot, OnlySlot(r), Phase(r) = "open", Phase(r)' = "open",
         Untried(r)' = Untried(r), Making(r) # {}, Making(r)' = {}
  PROVE  Promise!Miss(r)
BY OneSlotMoves DEF Promise!Miss

LEMMA PromisedClose ==
  ASSUME NEW r \in Slot, OnlySlot(r), Phase(r) = "open", Untried(r)' = {}, Making(r)' = {},
         NEW verdict, Phase(r)' = verdict
  PROVE  Promise!Close(r, verdict)
BY OneSlotMoves DEF Promise!Close

LEMMA PromisedStutter ==
  ASSUME \A s \in Slot : Phase(s)' = Phase(s) /\ Untried(s)' = Untried(s) /\ Making(s)' = Making(s)
  PROVE  UNCHANGED promised
BY DEF promised

Promised == Promise!Next \/ UNCHANGED promised

LEMMA EndPromised ==
  ASSUME Inv, NEW r \in Slot, Open(r),
         NEW handed \in {"none", "own", "unusable", "synthesized"}, End(r, handed),
         handed \in {"unusable", "synthesized"} => Untried(r) = {},
         handed = "own" => pc[r] = "trying"
  PROVE  Promised
<1>1. OnlySlot(r) /\ pc'[r] = "done" /\ answer'[r] = handed
  BY DEF Inv, RequestTyped, End, OnlySlot, Same
<1>2. Phase(r) = "open" /\ Untried(r)' = {} /\ Making(r)' = {}
  BY <1>1 DEF Open, Phase, Untried, Making
<1>3. CASE handed = "none"
  <2>1. Phase(r)' = "left"
    BY <1>1, <1>3 DEF Phase, Open, Verdict
  <2>2. Promise!Close(r, "left")
    BY <1>1, <1>2, <2>1, PromisedClose
  <2> QED
    BY <2>2 DEF Promised, Promise!Next, Promise!Leave
<1>4. CASE handed = "own"
  <2>1. Phase(r)' = "answered"
    BY <1>1, <1>4 DEF Phase, Open, Verdict
  <2>2. Promise!Close(r, "answered")
    BY <1>1, <1>2, <2>1, PromisedClose
  <2>3. Making(r) # {}
    BY <1>4 DEF Making
  <2> QED
    BY <2>2, <2>3 DEF Promised, Promise!Next, Promise!Answer
<1>5. CASE handed \in {"unusable", "synthesized"}
  <2>1. Phase(r)' = "failed" /\ Untried(r) = {}
    BY <1>1, <1>5 DEF Phase, Open, Verdict
  <2>2. Promise!Close(r, "failed")
    BY <1>1, <1>2, <2>1, PromisedClose
  <2>3. Promise!Fail(r)
    BY <2>1, <2>2 DEF Promise!Fail
  <2> QED
    BY <2>3 DEF Promised, Promise!Next
<1> QED
  BY <1>3, <1>4, <1>5

LEMMA StutterPromised ==
  ASSUME NEW r \in Slot, OnlySlot(r), Phase(r)' = Phase(r), Untried(r)' = Untried(r),
         Making(r)' = Making(r)
  PROVE  Promised
BY SameKept, PromisedStutter DEF OnlySlot, Promised

LEMMA MoveOnPromised ==
  ASSUME Inv, NEW r \in Slot, pc[r] \in {"trying", "skipping"}, MoveOn(r)
  PROVE  Promised
<1>1. OnlySlot(r) /\ pc'[r] = "walking" /\ at'[r] = at[r] + 1 /\ order'[r] = order[r]
  BY DEF Inv, RequestTyped, MoveOn, OnlySlot, Same
<1>2. Phase(r) = "open" /\ Phase(r)' = "open" /\ Untried(r)' = Untried(r)
  BY <1>1 DEF Open, Phase, Untried, Unmade
<1>3. Making(r) # {} /\ Making(r)' = {}
  BY <1>1 DEF Making
<1>4. Promise!Miss(r)
  BY <1>1, <1>2, <1>3, PromisedMiss
<1> QED
  BY <1>4 DEF Promised, Promise!Next

LEMMA ArrivePromised ==
  ASSUME Inv, NEW r \in Slot, Arrive(r)
  PROVE  Promised
<1>1. PICK attempts \in Plans : plan' = [plan EXCEPT ![r] = attempts]
  BY DEF Arrive
<1>2. /\ OnlySlot(r) /\ pc'[r] = "weighing" /\ plan'[r] = attempts
      /\ weighed'[r] = 0 /\ ready'[r] = <<>> /\ held'[r] = <<>>
  BY <1>1 DEF Inv, RequestTyped, Arrive, OnlySlot, Same, RequestInv, HoldsNothing
<1>3. Phase(r) # "open" /\ Phase(r)' = "open"
  BY <1>2 DEF Arrive, Phase, Open, Verdict
<1>4. Untried(r)' \subseteq Attempt
  <2>1. attempts \in Seq(Attempt)
    BY RelayAssumption
  <2>2. Range(ready'[r]) = {} /\ Range(held'[r]) = {}
    BY <1>2 DEF Range
  <2>3. Untried(r)' \subseteq {attempts[i] : i \in 1 .. Len(attempts)}
    BY <1>2, <2>2 DEF Untried, Unweighed
  <2> QED
    BY <2>1, <2>3
<1>5. Making(r)' = Making(r)
  BY <1>2 DEF Arrive, Making
<1>6. Promise!Begin(r)
  BY <1>2, <1>3, <1>4, <1>5, PromisedBegin
<1> QED
  BY <1>6 DEF Promised, Promise!Next

LEMMA BeginAttemptPromised ==
  ASSUME Inv, NEW r \in Slot, BeginAttempt(r)
  PROVE  Promised
<1>1. OnlySlot(r) /\ pc[r] = "walking" /\ pc'[r] = "trying" /\ at'[r] = at[r] /\ order'[r] = order[r]
  BY DEF Inv, RequestTyped, BeginAttempt, OnlySlot, Same
<1>2. /\ order[r] \in Seq(Attempt) /\ Distinct(order[r])
      /\ at[r] \in 1 .. Len(order[r])
  BY DEF Inv, RequestTyped, RequestInv, WalkedOnce, BeginAttempt
<1>3. Untried(r)' = Untried(r) \ {order[r][at[r]]} /\ order[r][at[r]] \in Untried(r)
  <2>1. Untried(r) = {order[r][i] : i \in at[r] .. Len(order[r])}
    BY <1>1 DEF Untried, Unmade, Open
  <2>2. Untried(r)' = {order[r][i] : i \in at[r] + 1 .. Len(order[r])}
    BY <1>1 DEF Untried, Unmade, Open
  <2>3. \A i \in at[r] + 1 .. Len(order[r]) :
          order[r][i] # order[r][at[r]] /\ i \in at[r] .. Len(order[r])
    BY <1>2 DEF Distinct
  <2>4. \A i \in at[r] .. Len(order[r]) : i = at[r] \/ i \in at[r] + 1 .. Len(order[r])
    BY <1>2
  <2>5. at[r] \in at[r] .. Len(order[r])
    BY <1>2
  <2> QED
    BY <2>1, <2>2, <2>3, <2>4, <2>5
<1>4. Phase(r) = "open" /\ Phase(r)' = "open"
  BY <1>1 DEF Phase, Open, Verdict
<1>5. Making(r) = {} /\ Making(r)' = {order[r][at[r]]}
  BY <1>1 DEF Making, Current
<1>6. Promise!Try(r, order[r][at[r]])
  BY <1>1, <1>3, <1>4, <1>5, PromisedTry
<1> QED
  BY <1>3, <1>6 DEF Promised, Promise!Next

LEMMA WeighPromised ==
  ASSUME Inv, NEW r \in Slot, Weigh(r)
  PROVE  Promised
<1> DEFINE a == plan[r][weighed[r] + 1]
           n == weighed[r]
<1>1. /\ plan[r] \in Seq(Attempt) /\ ready[r] \in Seq(Attempt) /\ held[r] \in Seq(Attempt)
      /\ n \in Nat /\ n < Len(plan[r])
  BY DEF Inv, RequestTyped, Weigh
<1>2. /\ pc[r] = "weighing" /\ pc'[r] = "weighing"
      /\ plan'[r] = plan[r] /\ unusable'[r] = unusable[r] /\ weighed'[r] = n + 1
  BY DEF Inv, RequestTyped, Weigh
<1>3. OnlySlot(r)
  BY DEF Inv, RequestTyped, Weigh, OnlySlot, Same
<1>4. \/ ready'[r] = ready[r] /\ held'[r] = held[r] /\ a.provider \in unusable[r]
      \/ ready'[r] = ready[r] /\ held'[r] = Append(held[r], a) /\ a.provider \notin unusable[r]
      \/ ready'[r] = Append(ready[r], a) /\ held'[r] = held[r] /\ a.provider \notin unusable[r]
  BY DEF Inv, RequestTyped, Weigh
<1> DEFINE rest(k) == {b \in {plan[r][i] : i \in k + 1 .. Len(plan[r])} : b.provider \notin unusable[r]}
<1>5. rest(n) = rest(n + 1) \cup (IF a.provider \in unusable[r] THEN {} ELSE {a})
  <2>1. \A i : i \in n + 1 .. Len(plan[r]) <=> (i = n + 1 \/ i \in (n + 1) + 1 .. Len(plan[r]))
    BY <1>1
  <2>2. {plan[r][i] : i \in n + 1 .. Len(plan[r])} =
          {plan[r][i] : i \in (n + 1) + 1 .. Len(plan[r])} \cup {a}
    BY <2>1
  <2> QED
    BY <2>2
<1>6. Untried(r) = rest(n) \cup Range(ready[r]) \cup Range(held[r])
  BY <1>2 DEF Untried, Unweighed
<1>7. Untried(r)' = rest(n + 1) \cup Range(ready'[r]) \cup Range(held'[r])
  BY <1>2 DEF Untried, Unweighed, Range
<1>8. a \in Attempt
  BY <1>1
<1> HIDE DEF a, n, rest
<1>9. Untried(r)' = Untried(r)
  <2>1. CASE ready'[r] = ready[r] /\ held'[r] = held[r] /\ a.provider \in unusable[r]
    BY <2>1, <1>5, <1>6, <1>7
  <2>2. CASE ready'[r] = ready[r] /\ held'[r] = Append(held[r], a) /\ a.provider \notin unusable[r]
    <3>1. Range(Append(held[r], a)) = Range(held[r]) \cup {a}
      BY <1>1, <1>8, RangeAppend
    <3> QED
      BY <2>2, <3>1, <1>5, <1>6, <1>7
  <2>3. CASE ready'[r] = Append(ready[r], a) /\ held'[r] = held[r] /\ a.provider \notin unusable[r]
    <3>1. Range(Append(ready[r], a)) = Range(ready[r]) \cup {a}
      BY <1>1, <1>8, RangeAppend
    <3> QED
      BY <2>3, <3>1, <1>5, <1>6, <1>7
  <2> QED
    BY <1>4, <2>1, <2>2, <2>3
<1>10. Phase(r)' = Phase(r) /\ Making(r)' = Making(r)
  BY <1>2 DEF Phase, Open, Making
<1> QED
  BY <1>3, <1>9, <1>10, StutterPromised

LEMMA PreferPromised ==
  ASSUME Inv, NEW r \in Slot, Prefer(r)
  PROVE  Promised
<1>1. /\ plan[r] \in Seq(Attempt) /\ ready[r] \in Seq(Attempt) /\ held[r] \in Seq(Attempt)
      /\ weighed[r] \in Nat /\ Apart(plan[r], weighed[r], ready[r], held[r])
      /\ pc[r] = "weighing" /\ weighed[r] = Len(plan[r])
  BY DEF Inv, RequestTyped, RequestInv, WeighedApart, Prefer
<1>2. Untried(r) = Range(ready[r]) \cup Range(held[r])
  <2>1. Unweighed(r) = {}
    BY <1>1 DEF Unweighed
  <2> QED
    BY <1>1, <2>1 DEF Untried
<1>3. CASE Sorted(r) = <<>>
  <2>1. End(r, "unusable")
    BY <1>3 DEF Prefer
  <2>2. Range(Sorted(r)) = {}
    BY <1>3 DEF Range
  <2>3. Untried(r) = {}
    BY <1>1, <1>2, <2>2, ConcatApart DEF Sorted
  <2> QED
    BY <1>1, <2>1, <2>3, EndPromised DEF Open
<1>4. CASE Sorted(r) # <<>>
  <2>1. PICK attempts \in Seq(Attempt) :
          /\ order' = [order EXCEPT ![r] = attempts]
          /\ Range(attempts) = Range(ready[r]) \cup Range(held[r])
    BY <1>4, PreferOrders
  <2>2. OnlySlot(r) /\ order'[r] = attempts /\ at'[r] = 1 /\ pc'[r] = "walking"
    BY <1>4, <2>1 DEF Inv, RequestTyped, Prefer, OnlySlot, Same
  <2>3. Untried(r)' = {attempts[i] : i \in 1 .. Len(attempts)}
    BY <2>2 DEF Untried, Unmade, Open
  <2>4. Untried(r)' = Range(attempts)
    BY <2>3, RangeOfSeq
  <2>5. Phase(r)' = Phase(r) /\ Making(r)' = Making(r)
    BY <1>1, <2>2 DEF Phase, Open, Making
  <2> QED
    BY <1>2, <2>1, <2>2, <2>4, <2>5, StutterPromised
<1> QED
  BY <1>3, <1>4

LEMMA RespondPromised ==
  ASSUME Inv, NEW r \in Slot, NEW status \in Statuses, Respond(r, status)
  PROVE  Promised
<1>1. /\ pc[r] = "trying" /\ at[r] \in Nat /\ order[r] \in Seq(Attempt)
      /\ OnlySlot(r) /\ order'[r] = order[r] /\ at'[r] = at[r]
  BY DEF Inv, RequestTyped, Respond, OnlySlot, Same
<1>2. CASE isRetryableStatus(status) /\ ~IsLast(r)
  <2>1. pc'[r] = "skipping"
    BY <1>2 DEF Inv, RequestTyped, Respond
  <2>2. Phase(r)' = Phase(r) /\ Untried(r)' = Untried(r) /\ Making(r)' = Making(r)
    BY <1>1, <2>1 DEF Phase, Open, Untried, Unmade, Making, Current
  <2> QED
    BY <1>1, <2>2, StutterPromised
<1>3. CASE ~(isRetryableStatus(status) /\ ~IsLast(r))
  <2>1. /\ pc'[r] = "relaying"
        /\ answer'[r] = IF isRetryableStatus(status) THEN "retryable" ELSE status
    BY <1>3 DEF Inv, RequestTyped, Respond
  <2>2. /\ Phase(r) = "open" /\ Untried(r)' = {} /\ Untried(r) = Unmade(r)
        /\ Making(r) # {} /\ Making(r)' = {}
    BY <1>1, <2>1 DEF Phase, Open, Untried, Making
  <2>3. CASE isRetryableStatus(status)
    <3>1. Untried(r) = {}
      BY <1>1, <1>3, <2>2, <2>3 DEF IsLast, Unmade
    <3>2. Phase(r)' = "failed"
      BY <2>1, <2>3 DEF Phase, Open, Verdict
    <3>3. Promise!Close(r, "failed")
      BY <1>1, <2>2, <3>2, PromisedClose
    <3>4. Promise!Fail(r)
      BY <3>1, <3>3 DEF Promise!Fail
    <3> QED
      BY <3>4 DEF Promised, Promise!Next
  <2>4. CASE ~isRetryableStatus(status)
    <3>1. status \in {"ok", "refused"}
      BY <2>4 DEF isRetryableStatus, Statuses
    <3>2. Phase(r)' = "answered"
      BY <2>1, <2>4, <3>1 DEF Phase, Open, Verdict
    <3>3. Promise!Close(r, "answered")
      BY <1>1, <2>2, <3>2, PromisedClose
    <3> QED
      BY <2>2, <3>3 DEF Promised, Promise!Next, Promise!Answer
  <2> QED
    BY <2>3, <2>4
<1> QED
  BY <1>2, <1>3

LEMMA FinishRelayPromised ==
  ASSUME Inv, NEW r \in Slot, FinishRelay(r)
  PROVE  Promised
<1>1. OnlySlot(r) /\ pc[r] = "relaying" /\ pc'[r] = "done" /\ answer'[r] = answer[r]
  BY DEF Inv, RequestTyped, FinishRelay, End, OnlySlot, Same
<1>2. Phase(r)' = Phase(r) /\ Untried(r)' = Untried(r) /\ Making(r)' = Making(r)
  BY <1>1 DEF Phase, Open, Untried, Making
<1> QED
  BY <1>1, <1>2, StutterPromised

LEMMA GiveUpPromised ==
  ASSUME Inv, NEW r \in Slot, GiveUp(r)
  PROVE  Promised
<1>1. /\ pc[r] = "walking" /\ End(r, "synthesized") /\ at[r] > Len(order[r])
      /\ at[r] \in Nat /\ order[r] \in Seq(Attempt)
  BY DEF Inv, RequestTyped, GiveUp
<1>2. Untried(r) = {}
  BY <1>1 DEF Untried, Unmade, Open
<1> QED
  BY <1>1, <1>2, EndPromised DEF Open

LEMMA UnchangedPromised ==
  ASSUME UNCHANGED <<pc, plan, unusable, weighed, ready, held, order, at, answer>>
  PROVE  Promised
<1>1. \A s \in Slot : Same(s)
  BY DEF Same
<1> QED
  BY <1>1, SameKept, PromisedStutter DEF Promised

LEMMA NextPromised == Inv /\ [Next]_vars => Promised
<1> SUFFICES ASSUME Inv, [Next]_vars
             PROVE  Promised
  OBVIOUS
<1>1. ASSUME NEW r \in Slot, Arrive(r)
      PROVE  Promised
  BY <1>1, ArrivePromised
<1>2. ASSUME NEW r \in Slot, Weigh(r)
      PROVE  Promised
  BY <1>2, WeighPromised
<1>3. ASSUME NEW r \in Slot, Prefer(r)
      PROVE  Promised
  BY <1>3, PreferPromised
<1>4. ASSUME NEW r \in Slot, BeginAttempt(r)
      PROVE  Promised
  BY <1>4, BeginAttemptPromised
<1>5. ASSUME NEW r \in Slot, Abandon(r)
      PROVE  Promised
  BY <1>5, EndPromised DEF Abandon, Open
<1>6. ASSUME NEW r \in Slot, FailLocally(r)
      PROVE  Promised
  BY <1>6, MoveOnPromised DEF FailLocally
<1>7. ASSUME NEW r \in Slot, AnswerCountTokens(r)
      PROVE  Promised
  BY <1>7, EndPromised DEF AnswerCountTokens, Open
<1>8. ASSUME NEW r \in Slot, FailToConnect(r)
      PROVE  Promised
  BY <1>8, MoveOnPromised DEF FailToConnect
<1>9. ASSUME NEW r \in Slot, NEW status \in Statuses, Respond(r, status)
      PROVE  Promised
  BY <1>9, RespondPromised
<1>10. ASSUME NEW r \in Slot, CutSkipped(r) \/ UpstreamEndsSkipped(r)
       PROVE  Promised
  BY <1>10, MoveOnPromised DEF CutSkipped, UpstreamEndsSkipped
<1>11. ASSUME NEW r \in Slot, FinishRelay(r)
       PROVE  Promised
  BY <1>11, FinishRelayPromised
<1>12. ASSUME NEW r \in Slot, GiveUp(r)
       PROVE  Promised
  BY <1>12, GiveUpPromised
<1>13. ASSUME NEW r \in Slot, HangUp(r)
       PROVE  Promised
  BY <1>13, UnchangedPromised DEF HangUp
<1>14. ASSUME NEW p \in Provider, UpdateProvider(p)
       PROVE  Promised
  BY <1>14, UnchangedPromised DEF UpdateProvider, request
<1>15. CASE Tick
  BY <1>15, UnchangedPromised DEF Tick, request
<1>16. CASE UNCHANGED vars
  BY <1>16, UnchangedPromised DEF vars, request
<1> QED
  BY <1>1, <1>2, <1>3, <1>4, <1>5, <1>6, <1>7, <1>8, <1>9, <1>10, <1>11, <1>12,
     <1>13, <1>14, <1>15, <1>16 DEF Next, Step

LEMMA InitPromised == Init => Promise!Init
BY DEF Init, Promise!Init, Phase, Untried, Unmade, Open, Making

(* For every number of slots, providers, plans and upstream failures, and  *)
(* whatever the breaker, the limits and the memory of conversations say at *)
(* each read, the relay implements the promise: an attempt leaves the ones *)
(* to make by being made and in no other way, one at a time and once each, *)
(* and a request is told it failed only with none left to make.            *)
THEOREM PromiseIsKept == Spec => PromiseKept
<1>1. Init => Promise!Init
  BY InitPromised
<1>2. Inv /\ [Next]_vars =>
        [Promise!Next]_<<[r \in Slot |-> Phase(r)], [r \in Slot |-> Untried(r)],
                          [r \in Slot |-> Making(r)]>>
  BY NextPromised DEF Promised, promised
<1>3. Spec => []Inv
  BY AttemptsStayApart
<1> QED
  BY <1>1, <1>2, <1>3, PTL DEF Spec, PromiseKept, Promise!Spec

-----------------------------------------------------------------------------
(* The shared memories keep their types under every interleaving.          *)

StickyTyped == sticky \in [Conversation -> [provider : Provider, left : 0 .. StickyIdle]]

MemoryTyped == Breaker!TypeOK /\ Limits!TypeOK /\ StickyTyped

LEMMA FailureTyped ==
  ASSUME Breaker!TypeOK, NEW p \in Provider, Breaker!ReportProviderFailure(p)
  PROVE  Breaker!TypeOK'
<1> USE MemoryAssumption DEF Breaker!TypeOK, Breaker!Health
<1> DEFINE counted == health[p].consecutive + 1
           failures == IF counted > FailureCap THEN FailureCap ELSE counted
<1>1. failures \in 0 .. FailureCap
  OBVIOUS
<1>2. Breaker!CooldownAfter(failures) \in 0 .. MaxCooldown
  BY DEF Breaker!CooldownAfter
<1>3. health' = [health EXCEPT ![p] =
        [consecutive |-> failures,
         retry |-> IF failures < FailureThreshold
                     THEN health[p].retry ELSE Breaker!CooldownAfter(failures)]]
  BY DEF Breaker!ReportProviderFailure
<1> QED
  BY <1>1, <1>2, <1>3

LEMMA CleanTyped ==
  ASSUME Breaker!TypeOK, NEW p \in Provider,
         Breaker!ReportProviderSuccess(p) \/ Breaker!ClearProviderHealth(p)
  PROVE  Breaker!TypeOK'
BY MemoryAssumption DEF Breaker!TypeOK, Breaker!Health, Breaker!ReportProviderSuccess,
   Breaker!ClearProviderHealth, Breaker!Clean

(* A bounded set of naturals that is not empty has a greatest element.     *)
LEMMA GreatestBelow ==
  ASSUME NEW N \in Nat, NEW T, T \subseteq 0 .. N, T # {}
  PROVE  \E m \in T : \A n \in T : m >= n
<1> DEFINE U == {u \in 0 .. N : \A n \in T : n <= u}
<1>1. U # {} /\ U \subseteq Nat
  <2>1. N \in U
    OBVIOUS
  <2> QED
    BY <2>1
<1> HIDE DEF U
<1>2. PICK m \in U : \A u \in U : m <= u
  BY <1>1, LeastNatural
<1> USE DEF U
<1>3. m \in T
  <2> SUFFICES ASSUME m \notin T
               PROVE  FALSE
    OBVIOUS
  <2>1. \A n \in T : n <= m - 1
    BY <1>2
  <2>2. m - 1 \in 0 .. N
    <3>1. PICK n \in T : TRUE
      OBVIOUS
    <3>2. n \in 0 .. N /\ n <= m - 1 /\ m \in 0 .. N
      BY <2>1
    <3> QED
      BY <3>2
  <2>3. m - 1 \in U
    BY <2>1, <2>2
  <2> QED
    BY <1>2, <2>3
<1> QED
  BY <1>2, <1>3

LEMMA RefusedForTyped ==
  ASSUME NEW report \in Limits!Report, NEW retryAfter \in 0 .. MaxReset
  PROVE  Limits!RefusedFor(report, retryAfter) \in 0 .. MaxReset
<1> DEFINE spent == {w \in DOMAIN report : Limits!WindowSpent(report[w])}
           resets == {report[w].reset : w \in spent}
<1>1. resets \subseteq 0 .. MaxReset
  BY DEF Limits!Report, Limits!Window
<1>2. CASE spent = {}
  BY <1>2 DEF Limits!RefusedFor
<1>3. CASE spent # {}
  <2>1. PICK m \in resets : \A n \in resets : m >= n
    BY <1>1, <1>3, GreatestBelow, MemoryAssumption
  <2>2. Limits!Max(resets) \in resets
    BY <2>1 DEF Limits!Max
  <2> QED
    BY <1>1, <1>3, <2>2 DEF Limits!RefusedFor
<1> QED
  BY <1>2, <1>3

LEMMA ObserveTyped ==
  ASSUME Limits!TypeOK, NEW p \in Subscription, NEW refused \in BOOLEAN,
         NEW report \in Limits!Report, NEW retryAfter \in 0 .. MaxReset,
         Limits!ObserveSubscriptionLimits(p, refused, report, retryAfter)
  PROVE  Limits!TypeOK'
<1>1. Limits!RefusedFor(report, retryAfter) \in 0 .. MaxReset
  BY RefusedForTyped
<1>2. block' \in [Subscription -> 0 .. MaxReset]
  BY <1>1 DEF Limits!TypeOK, Limits!ObserveSubscriptionLimits
<1>3. \A w \in DOMAIN report : report[w] \in Limits!Window
  BY DEF Limits!Report
<1>4. quota' \in [Subscription -> [WindowName -> Limits!Window]]
  BY <1>3 DEF Limits!TypeOK, Limits!ObserveSubscriptionLimits, Limits!StoreObservedWindows
<1> QED
  BY <1>2, <1>4 DEF Limits!TypeOK

LEMMA ClearQuotaTyped ==
  ASSUME Limits!TypeOK, NEW p \in Subscription, Limits!ClearProviderQuota(p)
  PROVE  Limits!TypeOK'
BY MemoryAssumption DEF Limits!TypeOK, Limits!ClearProviderQuota, Limits!NoWindows,
   Limits!Unreported, Limits!Window

LEMMA ElapseTyped ==
  ASSUME MemoryTyped, Tick
  PROVE  MemoryTyped'
<1>1. Breaker!TypeOK'
  BY MemoryAssumption DEF MemoryTyped, Tick, Breaker!TypeOK, Breaker!Health, Breaker!Elapse
<1>2. Limits!TypeOK'
  <2>1. block' \in [Subscription -> 0 .. MaxReset]
    BY MemoryAssumption DEF MemoryTyped, Tick, Limits!TypeOK, Limits!Elapse
  <2>2. quota' \in [Subscription -> [WindowName -> Limits!Window]]
    <3> DEFINE aged(p, w) == [quota[p][w] EXCEPT !.reset = IF @ > 0 THEN @ - 1 ELSE 0]
    <3>1. ASSUME NEW p \in Subscription, NEW w \in WindowName
          PROVE  aged(p, w) \in Limits!Window
      <4>1. quota[p][w] \in Limits!Window
        BY DEF MemoryTyped, Limits!TypeOK
      <4> QED
        BY <4>1, MemoryAssumption DEF Limits!Window
    <3>2. quota' = [p \in Subscription |-> [w \in WindowName |-> aged(p, w)]]
      BY DEF Tick, Limits!Elapse
    <3> HIDE DEF aged
    <3> QED
      BY <3>1, <3>2
  <2> QED
    BY <2>1, <2>2 DEF Limits!TypeOK
<1>3. StickyTyped'
  BY MemoryAssumption, RelayAssumption
     DEF MemoryTyped, Tick, StickyTyped, Age, Forgotten
<1> QED
  BY <1>1, <1>2, <1>3 DEF MemoryTyped

LEMMA MemoryUnchanged ==
  ASSUME MemoryTyped, UNCHANGED memory
  PROVE  MemoryTyped'
BY DEF MemoryTyped, memory, StickyTyped, Breaker!TypeOK, Limits!TypeOK, Limits!Window, Breaker!Health

LEMMA LimitsUnchanged ==
  ASSUME Limits!TypeOK, UNCHANGED <<block, quota>>
  PROVE  Limits!TypeOK'
BY DEF Limits!TypeOK, Limits!Window

RequestBounded ==
  /\ gone \in [Slot -> BOOLEAN]
  /\ conversation \in [Slot -> Conversation \cup {NoConversation}]
  /\ \A r \in Slot : weighed[r] <= Len(plan[r]) /\ at[r] <= Len(order[r]) + 1

LEMMA TriedProvider ==
  ASSUME Inv, NEW r \in Slot, pc[r] = "trying"
  PROVE  Current(r).provider \in Provider
<1>1. order[r] \in Seq(Attempt) /\ at[r] \in 1 .. Len(order[r])
  BY DEF Inv, RequestTyped, RequestInv, WalkedOnce
<1>2. order[r][at[r]] \in Attempt
  BY <1>1
<1> QED
  BY <1>2 DEF Current, Attempt

LEMMA RespondTyped ==
  ASSUME Inv, MemoryTyped, RequestBounded,
         NEW r \in Slot, NEW status \in Statuses, Respond(r, status)
  PROVE  MemoryTyped'
<1> DEFINE p == Current(r).provider
<1>1. p \in Provider
  BY TriedProvider DEF Respond
<1>2. reportProviderStatus(p, status) /\ ObserveLimits(p, status)
  BY DEF Respond
<1>3. RememberSticky(conversation[r], p) \/ UNCHANGED sticky
  BY DEF Respond
<1> HIDE DEF p
<1>4. Breaker!TypeOK'
  BY <1>1, <1>2, FailureTyped, CleanTyped DEF reportProviderStatus, MemoryTyped
<1>5. Limits!TypeOK'
  <2>1. CASE p \in Subscription
    <3>1. PICK report \in Limits!Report, retryAfter \in 0 .. MaxReset :
            Limits!ObserveSubscriptionLimits(p, status = "limited", report, retryAfter)
      BY <1>2, <2>1 DEF ObserveLimits
    <3>2. (status = "limited") \in BOOLEAN
      OBVIOUS
    <3> QED
      BY <2>1, <3>1, <3>2, ObserveTyped DEF MemoryTyped
  <2>2. CASE p \notin Subscription
    BY <1>2, <2>2, LimitsUnchanged DEF ObserveLimits, MemoryTyped
  <2> QED
    BY <2>1, <2>2
<1>6. StickyTyped'
  <2>1. [provider |-> p, left |-> StickyIdle] \in [provider : Provider, left : 0 .. StickyIdle]
    BY <1>1, RelayAssumption
  <2>2. conversation[r] \in Conversation \cup {NoConversation}
    BY DEF RequestBounded
  <2> QED
    BY <1>3, <2>1, <2>2 DEF RememberSticky, MemoryTyped, StickyTyped
<1> QED
  BY <1>4, <1>5, <1>6 DEF MemoryTyped

LEMMA FailTyped ==
  ASSUME Inv, MemoryTyped, NEW r \in Slot, pc[r] = "trying",
         Breaker!ReportProviderFailure(Current(r).provider) \/ UNCHANGED health,
         UNCHANGED <<block, quota, sticky>>
  PROVE  MemoryTyped'
<1>1. Breaker!TypeOK'
  <2>1. CASE Breaker!ReportProviderFailure(Current(r).provider)
    BY <2>1, TriedProvider, FailureTyped DEF MemoryTyped
  <2>2. CASE UNCHANGED health
    BY <2>2 DEF MemoryTyped, Breaker!TypeOK, Breaker!Health
  <2> QED
    BY <2>1, <2>2
<1>2. Limits!TypeOK' /\ StickyTyped'
  BY LimitsUnchanged DEF MemoryTyped, StickyTyped
<1> QED
  BY <1>1, <1>2 DEF MemoryTyped

LEMMA UpdateTyped ==
  ASSUME MemoryTyped, NEW p \in Provider, UpdateProvider(p)
  PROVE  MemoryTyped'
<1>1. Breaker!TypeOK'
  BY CleanTyped DEF UpdateProvider, MemoryTyped
<1>2. Limits!TypeOK'
  <2>1. CASE p \in Subscription
    BY <2>1, ClearQuotaTyped DEF UpdateProvider, MemoryTyped
  <2>2. CASE p \notin Subscription
    BY <2>2, LimitsUnchanged DEF UpdateProvider, MemoryTyped
  <2> QED
    BY <2>1, <2>2
<1>3. StickyTyped'
  BY DEF UpdateProvider, MemoryTyped, StickyTyped
<1> QED
  BY <1>1, <1>2, <1>3 DEF MemoryTyped

LEMMA MemoryStep ==
  Inv /\ MemoryTyped /\ RequestBounded /\ [Next]_vars => MemoryTyped'
<1> SUFFICES ASSUME Inv, MemoryTyped, RequestBounded, [Next]_vars
             PROVE  MemoryTyped'
  OBVIOUS
<1>1. ASSUME NEW r \in Slot,
             \/ Arrive(r) \/ Weigh(r) \/ Prefer(r) \/ BeginAttempt(r) \/ Abandon(r)
             \/ AnswerCountTokens(r) \/ CutSkipped(r) \/ UpstreamEndsSkipped(r)
             \/ FinishRelay(r) \/ GiveUp(r) \/ HangUp(r)
      PROVE  MemoryTyped'
  <2>1. UNCHANGED memory
    BY <1>1 DEF Arrive, Weigh, Prefer, BeginAttempt, Abandon, AnswerCountTokens,
       CutSkipped, UpstreamEndsSkipped, FinishRelay, GiveUp, HangUp, memory
  <2> QED
    BY <2>1, MemoryUnchanged
<1>2. ASSUME NEW r \in Slot, FailLocally(r) \/ FailToConnect(r)
      PROVE  MemoryTyped'
  BY <1>2, FailTyped DEF FailLocally, FailToConnect
<1>3. ASSUME NEW r \in Slot, NEW status \in Statuses, Respond(r, status)
      PROVE  MemoryTyped'
  BY <1>3, RespondTyped
<1>4. ASSUME NEW p \in Provider, UpdateProvider(p)
      PROVE  MemoryTyped'
  BY <1>4, UpdateTyped
<1>5. CASE Tick
  BY <1>5, ElapseTyped
<1>6. CASE UNCHANGED vars
  BY <1>6, MemoryUnchanged DEF vars
<1> QED
  BY <1>1, <1>2, <1>3, <1>4, <1>5, <1>6 DEF Next, Step

LEMMA EndBounded ==
  ASSUME Inv, RequestBounded, NEW r \in Slot, NEW handed, End(r, handed)
  PROVE  RequestBounded'
<1>1. gone' \in [Slot -> BOOLEAN] /\ conversation' \in [Slot -> Conversation \cup {NoConversation}]
  BY DEF RequestBounded, End
<1>2. weighed'[r] = 0 /\ at'[r] = 0 /\ plan'[r] = <<>> /\ order'[r] = <<>>
  BY DEF Inv, RequestTyped, End
<1>3. \A s \in Slot : s # r => /\ weighed'[s] = weighed[s] /\ at'[s] = at[s]
                              /\ plan'[s] = plan[s] /\ order'[s] = order[s]
  BY DEF Inv, RequestTyped, End
<1>4. ASSUME NEW s \in Slot
      PROVE  weighed'[s] <= Len(plan'[s]) /\ at'[s] <= Len(order'[s]) + 1
  <2>1. CASE s = r
    BY <1>2, <2>1
  <2>2. CASE s # r
    BY <1>3, <2>2 DEF RequestBounded
  <2> QED
    BY <2>1, <2>2
<1> QED
  BY <1>1, <1>4 DEF RequestBounded

LEMMA MoveOnBounded ==
  ASSUME Inv, RequestBounded, NEW r \in Slot, pc[r] \in {"trying", "skipping"}, MoveOn(r)
  PROVE  RequestBounded'
<1>1. at[r] \in 1 .. Len(order[r]) /\ Len(order[r]) \in Nat
  BY DEF Inv, RequestTyped, RequestInv, WalkedOnce
<1>2. at'[r] <= Len(order[r]) + 1
  BY <1>1 DEF MoveOn, Inv, RequestTyped
<1>3. \A s \in Slot : s # r => at'[s] = at[s]
  BY DEF Inv, RequestTyped, MoveOn
<1> QED
  BY <1>2, <1>3 DEF RequestBounded, MoveOn

LEMMA ArriveBounded ==
  ASSUME Inv, RequestBounded, NEW r \in Slot, Arrive(r)
  PROVE  RequestBounded'
<1>1. PICK c \in Conversation, attempts \in Plans :
        /\ conversation' = [conversation EXCEPT ![r] = c]
        /\ plan' = [plan EXCEPT ![r] = attempts]
  BY DEF Arrive
<1>2. plan'[r] = attempts /\ Len(attempts) \in Nat /\ weighed'[r] = 0
  BY <1>1, RelayAssumption DEF Inv, RequestTyped, RequestInv, HoldsNothing, Arrive
<1>3. \A s \in Slot : s # r => plan'[s] = plan[s]
  BY <1>1 DEF Inv, RequestTyped
<1>4. conversation' \in [Slot -> Conversation \cup {NoConversation}]
  BY <1>1 DEF RequestBounded
<1> QED
  BY <1>2, <1>3, <1>4 DEF RequestBounded, Arrive

LEMMA WeighBounded ==
  ASSUME Inv, RequestBounded, NEW r \in Slot, Weigh(r)
  PROVE  RequestBounded'
<1>1. weighed[r] \in Nat /\ Len(plan[r]) \in Nat /\ weighed[r] < Len(plan[r])
  BY DEF Inv, RequestTyped, Weigh
<1>2. weighed'[r] = weighed[r] + 1 /\ \A s \in Slot : s # r => weighed'[s] = weighed[s]
  BY DEF Inv, RequestTyped, Weigh
<1>3. weighed'[r] <= Len(plan[r])
  BY <1>1, <1>2
<1> QED
  BY <1>2, <1>3 DEF RequestBounded, Weigh

LEMMA PreferBounded ==
  ASSUME Inv, RequestBounded, NEW r \in Slot, Prefer(r)
  PROVE  RequestBounded'
<1>1. CASE Sorted(r) = <<>>
  <2>1. End(r, "unusable")
    BY <1>1 DEF Prefer
  <2> QED
    BY <2>1, EndBounded
<1>2. CASE Sorted(r) # <<>>
  <2>1. PICK attempts \in Seq(Attempt) : order' = [order EXCEPT ![r] = attempts]
    BY <1>2, PreferOrders
  <2>2. at' = [at EXCEPT ![r] = 1] /\ UNCHANGED <<gone, conversation, plan, weighed>>
    BY <1>2 DEF Prefer
  <2>3. order'[r] = attempts /\ at'[r] = 1 /\ Len(attempts) \in Nat
    BY <2>1, <2>2 DEF Inv, RequestTyped
  <2>4. \A s \in Slot : s # r => order'[s] = order[s] /\ at'[s] = at[s]
    BY <2>1, <2>2 DEF Inv, RequestTyped
  <2>5. ASSUME NEW s \in Slot
        PROVE  at'[s] <= Len(order'[s]) + 1
    <3>1. CASE s = r
      BY <2>3, <3>1
    <3>2. CASE s # r
      BY <2>4, <3>2 DEF RequestBounded
    <3> QED
      BY <3>1, <3>2
  <2> QED
    BY <2>2, <2>5 DEF RequestBounded
<1> QED
  BY <1>1, <1>2

LEMMA StillBounded ==
  ASSUME RequestBounded, gone' \in [Slot -> BOOLEAN],
         UNCHANGED <<conversation, plan, weighed, order, at>>
  PROVE  RequestBounded'
BY DEF RequestBounded

LEMMA BoundedStep == Inv /\ RequestBounded /\ [Next]_vars => RequestBounded'
<1> SUFFICES ASSUME Inv, RequestBounded, [Next]_vars
             PROVE  RequestBounded'
  OBVIOUS
<1>1. ASSUME NEW r \in Slot, Arrive(r)
      PROVE  RequestBounded'
  BY <1>1, ArriveBounded
<1>2. ASSUME NEW r \in Slot, Weigh(r)
      PROVE  RequestBounded'
  BY <1>2, WeighBounded
<1>3. ASSUME NEW r \in Slot, Prefer(r)
      PROVE  RequestBounded'
  BY <1>3, PreferBounded
<1>4. ASSUME NEW r \in Slot, BeginAttempt(r)
      PROVE  RequestBounded'
  BY <1>4, StillBounded DEF BeginAttempt, RequestBounded
<1>5. ASSUME NEW r \in Slot, NEW status \in Statuses, Respond(r, status)
      PROVE  RequestBounded'
  BY <1>5, StillBounded DEF Respond, RequestBounded
<1>6. ASSUME NEW r \in Slot, Abandon(r) \/ AnswerCountTokens(r) \/ FinishRelay(r) \/ GiveUp(r)
      PROVE  RequestBounded'
  BY <1>6, EndBounded DEF Abandon, AnswerCountTokens, FinishRelay, GiveUp
<1>7. ASSUME NEW r \in Slot,
             FailLocally(r) \/ FailToConnect(r) \/ CutSkipped(r) \/ UpstreamEndsSkipped(r)
      PROVE  RequestBounded'
  BY <1>7, MoveOnBounded DEF FailLocally, FailToConnect, CutSkipped, UpstreamEndsSkipped
<1>8. ASSUME NEW r \in Slot, HangUp(r)
      PROVE  RequestBounded'
  BY <1>8, StillBounded DEF HangUp, RequestBounded
<1>9. ASSUME NEW p \in Provider, UpdateProvider(p)
      PROVE  RequestBounded'
  BY <1>9, StillBounded DEF UpdateProvider, request, RequestBounded
<1>10. CASE Tick
  BY <1>10, StillBounded DEF Tick, request, RequestBounded
<1>11. CASE UNCHANGED vars
  BY <1>11, StillBounded DEF vars, request, RequestBounded
<1> QED
  BY <1>1, <1>2, <1>3, <1>4, <1>5, <1>6, <1>7, <1>8, <1>9, <1>10, <1>11 DEF Next, Step

LEMMA InitTyped == Init => MemoryTyped /\ RequestBounded
<1> SUFFICES ASSUME Init
             PROVE  MemoryTyped /\ RequestBounded
  OBVIOUS
<1>1. Breaker!TypeOK
  BY MemoryAssumption DEF Init, Breaker!Init, Breaker!TypeOK, Breaker!Health, Breaker!Clean
<1>2. Limits!TypeOK
  BY MemoryAssumption DEF Init, Limits!LimitInit, Limits!TypeOK, Limits!NoWindows,
     Limits!Unreported, Limits!Window
<1>3. StickyTyped
  BY MemoryAssumption, RelayAssumption DEF Init, StickyTyped, Forgotten
<1>4. RequestBounded
  BY DEF Init, RequestBounded
<1> QED
  BY <1>1, <1>2, <1>3, <1>4 DEF MemoryTyped

(* Every variable of the relay keeps its type, its positions inside its    *)
(* lists and the shared memories inside their bounds, for every number of  *)
(* requests writing them.                                                  *)
THEOREM RelayTyped == Spec => []TypeOK
<1>1. Inv /\ MemoryTyped /\ RequestBounded => TypeOK
  BY DEF Inv, RequestTyped, MemoryTyped, RequestBounded, StickyTyped, TypeOK
<1> QED
  BY <1>1, InitHolds, InitTyped, NextKeepsInv, MemoryStep, BoundedStep, PTL DEF Spec

-----------------------------------------------------------------------------
(* The order, for every plan whose rules come first and every number of    *)
(* requests changing what the providers are known by meanwhile: no         *)
(* conversation steps over a rule, and what was found held back is tried   *)
(* last.  What was ready is in the plan's order, and a remembered provider *)
(* moves inside its stretch only.                                          *)

(* While a plan is weighed: what was found ready is in the plan's order.   *)
ReadyInOrder(attempts, read, first) ==
  /\ \A i, j \in 1 .. Len(attempts) :
       i < j /\ attempts[i].route = NoRoute => attempts[j].route = NoRoute
  /\ \A i, j \in 1 .. Len(first) :
       i < j /\ first[i].route = NoRoute => first[j].route = NoRoute
  /\ \A i \in 1 .. Len(first), j \in read + 1 .. Len(attempts) :
       first[i].route = NoRoute => attempts[j].route = NoRoute

WeighedInOrder(r) ==
  pc[r] = "weighing" => ReadyInOrder(plan[r], weighed[r], ready[r])

NotSteppedOver(r) ==
  \A i, j \in DOMAIN order[r] :
    i < j /\ order[r][i].route = NoRoute /\ order[r][j].route # NoRoute
      => order[r][j] \in Range(held[r])

TriedLast(r) ==
  \A i, j \in DOMAIN order[r] :
    i < j /\ order[r][i] \in Range(held[r]) /\ order[r][j] \in Range(ready[r])
      => /\ conversation[r] # NoConversation
         /\ order[r][i].route = order[r][j].route

(* There is an order only while it is walked.                              *)
Unordered(r) == pc[r] \in {"idle", "weighing", "done"} => order[r] = <<>>

OrderInv(r) == WeighedInOrder(r) /\ NotSteppedOver(r) /\ TriedLast(r) /\ Unordered(r)

-----------------------------------------------------------------------------
(* One attempt more has been read.                                         *)

LEMMA ReadyInOrderSkip ==
  ASSUME NEW attempts \in Seq(Attempt), NEW first \in Seq(Attempt),
         NEW read \in Nat, read < Len(attempts), ReadyInOrder(attempts, read, first)
  PROVE  ReadyInOrder(attempts, read + 1, first)
BY DEF ReadyInOrder

LEMMA ReadyInOrderAppend ==
  ASSUME NEW attempts \in Seq(Attempt), NEW first \in Seq(Attempt),
         NEW read \in Nat, read < Len(attempts), ReadyInOrder(attempts, read, first)
  PROVE  ReadyInOrder(attempts, read + 1, Append(first, attempts[read + 1]))
<1> DEFINE a == attempts[read + 1]
           longer == Append(first, a)
<1>1. a \in Attempt /\ read + 1 \in 1 .. Len(attempts) /\ read + 1 \in read + 1 .. Len(attempts)
  OBVIOUS
<1>2. /\ Len(longer) = Len(first) + 1 /\ Len(first) \in Nat
      /\ \A i \in 1 .. Len(longer) : longer[i] = IF i = Len(first) + 1 THEN a ELSE first[i]
  BY <1>1
<1>3. \A i \in 1 .. Len(first) : first[i].route = NoRoute => a.route = NoRoute
  BY <1>1 DEF ReadyInOrder
<1>4. \A j \in (read + 1) + 1 .. Len(attempts) :
        /\ j \in 1 .. Len(attempts) /\ j \in read + 1 .. Len(attempts) /\ read + 1 < j
  OBVIOUS
<1>5. \A j \in (read + 1) + 1 .. Len(attempts) : a.route = NoRoute => attempts[j].route = NoRoute
  BY <1>1, <1>4 DEF ReadyInOrder
<1> HIDE DEF a, longer
<1>6. \A i, j \in 1 .. Len(longer) :
        i < j /\ longer[i].route = NoRoute => longer[j].route = NoRoute
  <2> SUFFICES ASSUME NEW i \in 1 .. Len(longer), NEW j \in 1 .. Len(longer),
                      i < j, longer[i].route = NoRoute
               PROVE  longer[j].route = NoRoute
    OBVIOUS
  <2>1. i \in 1 .. Len(first) /\ longer[i] = first[i]
    BY <1>2
  <2>2. CASE j = Len(first) + 1
    BY <1>2, <1>3, <2>1, <2>2
  <2>3. CASE j # Len(first) + 1
    <3>1. j \in 1 .. Len(first) /\ longer[j] = first[j]
      BY <1>2, <2>3
    <3> QED
      BY <2>1, <3>1 DEF ReadyInOrder
  <2> QED
    BY <2>2, <2>3
<1>7. \A i \in 1 .. Len(longer), j \in (read + 1) + 1 .. Len(attempts) :
        longer[i].route = NoRoute => attempts[j].route = NoRoute
  <2> SUFFICES ASSUME NEW i \in 1 .. Len(longer), NEW j \in (read + 1) + 1 .. Len(attempts),
                      longer[i].route = NoRoute
               PROVE  attempts[j].route = NoRoute
    OBVIOUS
  <2>1. CASE i = Len(first) + 1
    BY <1>2, <1>5, <2>1
  <2>2. CASE i # Len(first) + 1
    <3>1. i \in 1 .. Len(first) /\ longer[i] = first[i]
      BY <1>2, <2>2
    <3>2. j \in read + 1 .. Len(attempts)
      BY <1>4
    <3> QED
      BY <3>1, <3>2 DEF ReadyInOrder
  <2> QED
    BY <2>1, <2>2
<1>8. ReadyInOrder(attempts, read + 1, longer)
  BY <1>6, <1>7 DEF ReadyInOrder
<1> QED
  BY <1>8 DEF longer, a

-----------------------------------------------------------------------------
(* The order that is walked: ready before held, a remembered provider      *)
(* moved inside its stretch.                                               *)

LEMMA PlaceInBoth ==
  ASSUME NEW attempts \in Seq(Attempt), NEW first \in Seq(Attempt), NEW last \in Seq(Attempt),
         NEW read \in Nat, Apart(attempts, read, first, last),
         NEW k \in 1 .. Len(first \o last)
  PROVE  /\ (first \o last)[k] \in Range(first) <=> k <= Len(first)
         /\ k <= Len(first) => k \in 1 .. Len(first) /\ (first \o last)[k] = first[k]
         /\ (first \o last)[k] \in Range(last) <=> k > Len(first)
         /\ Len(first) \in Nat
<1> DEFINE both == first \o last
<1>1. /\ Len(both) = Len(first) + Len(last) /\ Len(first) \in Nat /\ Len(last) \in Nat
      /\ both[k] = IF k <= Len(first) THEN first[k] ELSE last[k - Len(first)]
  OBVIOUS
<1> HIDE DEF both
<1>2. \A a \in Range(first) : a \notin Range(last)
  BY RangeOfSeq DEF Apart
<1>3. CASE k <= Len(first)
  <2>1. k \in 1 .. Len(first) /\ both[k] = first[k]
    BY <1>1, <1>3
  <2>2. both[k] \in Range(first)
    BY <2>1, RangeOfSeq
  <2>3. both[k] \notin Range(last) /\ ~(k > Len(first))
    BY <1>1, <1>2, <1>3, <2>2
  <2> QED
    BY <1>1, <1>3, <2>1, <2>2, <2>3 DEF both
<1>4. CASE k > Len(first)
  <2>1. k - Len(first) \in 1 .. Len(last) /\ both[k] = last[k - Len(first)]
    BY <1>1, <1>4 DEF both
  <2>2. both[k] \in Range(last)
    BY <2>1, RangeOfSeq
  <2>3. both[k] \notin Range(first) /\ ~(k <= Len(first))
    BY <1>1, <1>2, <1>4, <2>2
  <2> QED
    BY <1>1, <1>4, <2>2, <2>3 DEF both
<1> QED
  BY <1>1, <1>3, <1>4

(* An attempt without a rule is ahead of a ruled one only if that was held *)
(* back.                                                                   *)
LEMMA SortedNotSteppedOver ==
  ASSUME NEW attempts \in Seq(Attempt), NEW first \in Seq(Attempt), NEW last \in Seq(Attempt),
         NEW read \in Nat, Apart(attempts, read, first, last),
         ReadyInOrder(attempts, read, first),
         NEW i \in 1 .. Len(first \o last), NEW j \in 1 .. Len(first \o last), i < j,
         (first \o last)[i].route = NoRoute, (first \o last)[j].route # NoRoute
  PROVE  (first \o last)[j] \in Range(last)
<1> SUFFICES ASSUME ~(j > Len(first))
             PROVE  FALSE
  BY PlaceInBoth
<1>1. Len(first) \in Nat /\ i \in Nat /\ j \in Nat /\ i <= Len(first) /\ j <= Len(first)
  BY PlaceInBoth
<1>2. /\ i \in 1 .. Len(first) /\ (first \o last)[i] = first[i]
      /\ j \in 1 .. Len(first) /\ (first \o last)[j] = first[j]
  BY <1>1, PlaceInBoth
<1> QED
  BY <1>2 DEF ReadyInOrder

LEMMA PreferredNotSteppedOver ==
  ASSUME NEW attempts \in Seq(Attempt), NEW first \in Seq(Attempt), NEW last \in Seq(Attempt),
         NEW read \in Nat, Apart(attempts, read, first, last),
         ReadyInOrder(attempts, read, first), NEW p,
         NEW i \in 1 .. Len(first \o last), NEW j \in 1 .. Len(first \o last), i < j,
         PreferSticky(first \o last, p)[i].route = NoRoute,
         PreferSticky(first \o last, p)[j].route # NoRoute
  PROVE  PreferSticky(first \o last, p)[j] \in Range(last)
<1> DEFINE both == first \o last
           s == Source(both, p, j)
           t == Source(both, p, i)
<1>1. both \in Seq(Attempt) /\ Len(both) \in Nat
  OBVIOUS
<1> HIDE DEF both
<1>2. i \in 1 .. Len(both) /\ j \in 1 .. Len(both)
  BY DEF both
<1>3. /\ PreferSticky(both, p)[j] = both[s] /\ PreferSticky(both, p)[i] = both[t]
      /\ s \in 1 .. Len(both) /\ t \in 1 .. Len(both)
  <2>1. \A k \in 1 .. Len(both) : /\ Source(both, p, k) \in 1 .. Len(both)
                                  /\ PreferSticky(both, p)[k] = both[Source(both, p, k)]
    BY <1>1, PreferStickyPermutes
  <2> QED
    BY <1>2, <2>1
<1>4. PICK b \in 1 .. j :
        /\ s \in b .. Len(both)
        /\ \A x \in b .. j : both[x].route = both[j].route
        /\ \A x \in b .. s : both[x].route = both[j].route
  BY <1>1, <1>2, SourceStretch
<1>5. PICK c \in 1 .. i :
        /\ t \in c .. Len(both)
        /\ \A x \in c .. i : both[x].route = both[i].route
        /\ \A x \in c .. t : both[x].route = both[i].route
  BY <1>1, <1>2, SourceStretch
<1> HIDE DEF s, t
<1>6. both[i].route = NoRoute
  <2>1. both[t].route = NoRoute /\ t \in c .. t
    BY <1>3, <1>5 DEF both
  <2> QED
    BY <1>5, <2>1
<1>7. both[s].route # NoRoute /\ both[s].route = both[j].route
  <2>1. both[s].route # NoRoute /\ s \in b .. s
    BY <1>3, <1>4 DEF both
  <2> QED
    BY <1>4, <2>1
<1>8. i < s
  <2>1. ~(i \in b .. j)
    BY <1>4, <1>6, <1>7
  <2> QED
    BY <1>2, <1>4, <2>1
<1>9. both[s] \in Range(last)
  BY <1>1, <1>2, <1>3, <1>6, <1>7, <1>8, SortedNotSteppedOver DEF both
<1> QED
  BY <1>3, <1>9 DEF both

(* A held attempt ahead of a ready one was moved there by a preference.    *)
LEMMA SortedTriedLast ==
  ASSUME NEW attempts \in Seq(Attempt), NEW first \in Seq(Attempt), NEW last \in Seq(Attempt),
         NEW read \in Nat, Apart(attempts, read, first, last),
         NEW i \in 1 .. Len(first \o last), NEW j \in 1 .. Len(first \o last), i < j
  PROVE  ~((first \o last)[i] \in Range(last) /\ (first \o last)[j] \in Range(first))
<1>1. Len(first) \in Nat /\ i \in Nat /\ j \in Nat
  BY PlaceInBoth
<1>2. (first \o last)[i] \in Range(last) => i > Len(first)
  BY PlaceInBoth
<1>3. (first \o last)[j] \in Range(first) => j <= Len(first)
  BY PlaceInBoth
<1> QED
  BY <1>1, <1>2, <1>3

LEMMA PreferredTriedLast ==
  ASSUME NEW attempts \in Seq(Attempt), NEW first \in Seq(Attempt), NEW last \in Seq(Attempt),
         NEW read \in Nat, Apart(attempts, read, first, last), NEW p,
         NEW i \in 1 .. Len(first \o last), NEW j \in 1 .. Len(first \o last), i < j,
         PreferSticky(first \o last, p)[i] \in Range(last),
         PreferSticky(first \o last, p)[j] \in Range(first)
  PROVE  PreferSticky(first \o last, p)[i].route = PreferSticky(first \o last, p)[j].route
<1> DEFINE both == first \o last
           s == Source(both, p, j)
           t == Source(both, p, i)
<1>1. both \in Seq(Attempt) /\ Len(both) \in Nat
  OBVIOUS
<1> HIDE DEF both
<1>2. i \in 1 .. Len(both) /\ j \in 1 .. Len(both)
  BY DEF both
<1>3. /\ PreferSticky(both, p)[j] = both[s] /\ PreferSticky(both, p)[i] = both[t]
      /\ s \in 1 .. Len(both) /\ t \in 1 .. Len(both)
  <2>1. \A k \in 1 .. Len(both) : /\ Source(both, p, k) \in 1 .. Len(both)
                                  /\ PreferSticky(both, p)[k] = both[Source(both, p, k)]
    BY <1>1, PreferStickyPermutes
  <2> QED
    BY <1>2, <2>1
<1>4. s < t
  <2> HIDE DEF s, t
  <2>1. both[t] \in Range(last) /\ both[s] \in Range(first)
    BY <1>3 DEF both
  <2>2. ~(t < s)
    BY <1>1, <1>3, <2>1, SortedTriedLast DEF both
  <2>3. s # t
    <3>1. \A a \in Range(first) : a \notin Range(last)
      BY RangeOfSeq DEF Apart
    <3> QED
      BY <2>1, <3>1
  <2> QED
    BY <1>3, <2>2, <2>3
<1>5. both[t].route = both[s].route
  BY <1>1, <1>2, <1>4, SwappedInStretch
<1> QED
  BY <1>3, <1>5 DEF both
(* The walk starts with an order that steps over no rule and tries what is *)
(* held back last.                                                         *)
LEMMA PreferInOrder ==
  ASSUME Inv, NEW r \in Slot, OrderInv(r), Prefer(r), Sorted(r) # <<>>
  PROVE  NotSteppedOver(r)' /\ TriedLast(r)'
<1> DEFINE both == ready[r] \o held[r]
           p == sticky[conversation[r]].provider
<1>1. /\ plan[r] \in Seq(Attempt) /\ ready[r] \in Seq(Attempt) /\ held[r] \in Seq(Attempt)
      /\ weighed[r] \in Nat
      /\ Apart(plan[r], weighed[r], ready[r], held[r])
      /\ ReadyInOrder(plan[r], weighed[r], ready[r])
  BY DEF Inv, RequestTyped, RequestInv, WeighedApart, OrderInv, WeighedInOrder, Prefer
<1>2. /\ ready'[r] = ready[r] /\ held'[r] = held[r] /\ conversation'[r] = conversation[r]
      /\ \/ order' = [order EXCEPT ![r] = both]
         \/ /\ order' = [order EXCEPT ![r] = PreferSticky(both, p)]
            /\ conversation[r] # NoConversation
  BY DEF Prefer, Remembered, Sorted
<1>3. both \in Seq(Attempt)
  BY <1>1
<1>4. CASE order' = [order EXCEPT ![r] = both]
  <2>1. order'[r] = both
    BY <1>4 DEF Inv, RequestTyped
  <2>2. DOMAIN both = 1 .. Len(both)
    BY <1>3
  <2>3. NotSteppedOver(r)'
    <3>1. ASSUME NEW i \in 1 .. Len(both), NEW j \in 1 .. Len(both), i < j,
                 both[i].route = NoRoute, both[j].route # NoRoute
          PROVE  both[j] \in Range(held[r])
      BY <1>1, <3>1, SortedNotSteppedOver
    <3> HIDE DEF both
    <3> QED
      BY <1>2, <2>1, <2>2, <3>1 DEF NotSteppedOver, Range
  <2>4. TriedLast(r)'
    <3>1. ASSUME NEW i \in 1 .. Len(both), NEW j \in 1 .. Len(both), i < j,
                 both[i] \in Range(held[r]), both[j] \in Range(ready[r])
          PROVE  FALSE
      BY <1>1, <3>1, SortedTriedLast
    <3> HIDE DEF both
    <3> QED
      BY <1>2, <2>1, <2>2, <3>1 DEF TriedLast, Range
  <2> QED
    BY <2>3, <2>4
<1>5. CASE order' = [order EXCEPT ![r] = PreferSticky(both, p)] /\ conversation[r] # NoConversation
  <2> DEFINE preferred == PreferSticky(both, p)
  <2> HIDE DEF p
  <2>1. order'[r] = preferred
    BY <1>5 DEF Inv, RequestTyped
  <2>2. DOMAIN preferred = 1 .. Len(both)
    BY DEF PreferSticky
  <2>3. ASSUME NEW i \in 1 .. Len(both), NEW j \in 1 .. Len(both), i < j,
               preferred[i].route = NoRoute, preferred[j].route # NoRoute
        PROVE  preferred[j] \in Range(held[r])
    BY <1>1, <2>3, PreferredNotSteppedOver
  <2>4. ASSUME NEW i \in 1 .. Len(both), NEW j \in 1 .. Len(both), i < j,
               preferred[i] \in Range(held[r]), preferred[j] \in Range(ready[r])
        PROVE  preferred[i].route = preferred[j].route
    <3> DEFINE first == ready[r]
               last == held[r]
    <3>1. /\ first \in Seq(Attempt) /\ last \in Seq(Attempt)
          /\ Apart(plan[r], weighed[r], first, last)
          /\ i \in 1 .. Len(first \o last) /\ j \in 1 .. Len(first \o last)
      BY <1>1
    <3>2. PreferSticky(first \o last, p)[i] \in Range(last) /\ PreferSticky(first \o last, p)[j] \in Range(first)
      BY <2>4
    <3> HIDE DEF first, last
    <3>3. PreferSticky(first \o last, p)[i].route = PreferSticky(first \o last, p)[j].route
      BY <1>1, <2>4, <3>1, <3>2, PreferredTriedLast
    <3> QED
      BY <3>3 DEF first, last
  <2> HIDE DEF preferred, both
  <2>5. NotSteppedOver(r)'
    BY <1>2, <2>1, <2>2, <2>3 DEF NotSteppedOver, Range
  <2>6. TriedLast(r)'
    BY <1>2, <1>5, <2>1, <2>2, <2>4 DEF TriedLast, Range
  <2> QED
    BY <2>5, <2>6
<1> QED
  BY <1>2, <1>4, <1>5

-----------------------------------------------------------------------------
(* The steps.                                                              *)

(* A step of one request leaves the order of the others as it was.         *)
LEMMA OrderUntouched ==
  ASSUME NEW r \in Slot, OrderInv(r),
         pc'[r] = pc[r], plan'[r] = plan[r], weighed'[r] = weighed[r],
         ready'[r] = ready[r], held'[r] = held[r], order'[r] = order[r],
         conversation'[r] = conversation[r]
  PROVE  OrderInv(r)'
BY DEF OrderInv, WeighedInOrder, NotSteppedOver, TriedLast, Unordered

(* The walk goes on in the order it began in.                              *)
LEMMA OrderStands ==
  ASSUME NEW r \in Slot, OrderInv(r), pc'[r] \in {"walking", "trying", "skipping", "relaying"},
         ready'[r] = ready[r], held'[r] = held[r], order'[r] = order[r],
         conversation'[r] = conversation[r]
  PROVE  OrderInv(r)'
BY DEF OrderInv, WeighedInOrder, NotSteppedOver, TriedLast, Unordered

LEMMA NothingOrdered ==
  ASSUME NEW r \in Slot, order'[r] = <<>>, WeighedInOrder(r)'
  PROVE  OrderInv(r)'
BY DEF OrderInv, NotSteppedOver, TriedLast, Unordered

OrderKept == \A r \in Slot : OrderInv(r)

\* The lists' functions, which every step of a slot changes at that slot only.
SlotTyped == RequestTyped /\ conversation \in [Slot -> Conversation \cup {NoConversation}]

LEMMA OrderEnd ==
  ASSUME SlotTyped, OrderKept, NEW r \in Slot, NEW handed, End(r, handed)
  PROVE  OrderKept'
<1>1. OrderInv(r)'
  BY NothingOrdered DEF SlotTyped, RequestTyped, End, WeighedInOrder
<1>2. ASSUME NEW s \in Slot, s # r
      PROVE  OrderInv(s)'
  BY <1>2, OrderUntouched DEF OrderKept, SlotTyped, RequestTyped, End
<1> QED
  BY <1>1, <1>2 DEF OrderKept

LEMMA OrderArrive ==
  ASSUME SlotTyped, Inv, OrderKept, NEW r \in Slot, Arrive(r)
  PROVE  OrderKept'
<1>1. PICK c \in Conversation, attempts \in Plans :
        /\ conversation' = [conversation EXCEPT ![r] = c]
        /\ plan' = [plan EXCEPT ![r] = attempts]
  BY DEF Arrive
<1>2. /\ order'[r] = <<>> /\ plan'[r] = attempts /\ weighed'[r] = 0 /\ ready'[r] = <<>>
  BY <1>1 DEF Arrive, OrderKept, OrderInv, Unordered, SlotTyped, RequestTyped,
     Inv, RequestInv, HoldsNothing
<1>3. ReadyInOrder(attempts, 0, <<>>)
  <2>1. attempts \in Seq(Attempt) /\ RulesFirst(attempts, NoRoute)
    BY RelayAssumption
  <2>2. DOMAIN attempts = 1 .. Len(attempts)
    BY <2>1
  <2> QED
    BY <2>1, <2>2 DEF ReadyInOrder, RulesFirst
<1>4. OrderInv(r)'
  BY <1>2, <1>3, NothingOrdered DEF WeighedInOrder
<1>5. ASSUME NEW s \in Slot, s # r
      PROVE  OrderInv(s)'
  BY <1>1, <1>5, OrderUntouched DEF OrderKept, SlotTyped, RequestTyped, Arrive
<1> QED
  BY <1>4, <1>5 DEF OrderKept

LEMMA OrderWeigh ==
  ASSUME SlotTyped, OrderKept, NEW r \in Slot, Weigh(r)
  PROVE  OrderKept'
<1> DEFINE a == plan[r][weighed[r] + 1]
<1>1. /\ plan[r] \in Seq(Attempt) /\ ready[r] \in Seq(Attempt)
      /\ weighed[r] \in Nat /\ weighed[r] < Len(plan[r])
      /\ ReadyInOrder(plan[r], weighed[r], ready[r])
      /\ order[r] = <<>>
  BY DEF OrderKept, OrderInv, WeighedInOrder, Unordered, SlotTyped, RequestTyped, Weigh
<1>2. \/ UNCHANGED <<ready, held>>
      \/ held' = [held EXCEPT ![r] = Append(@, a)] /\ UNCHANGED ready
      \/ ready' = [ready EXCEPT ![r] = Append(@, a)] /\ UNCHANGED held
  BY DEF Weigh
<1>3. /\ weighed' = [weighed EXCEPT ![r] = @ + 1]
      /\ UNCHANGED <<pc, plan, order, conversation>>
  BY DEF Weigh
<1>4. OrderInv(r)'
  <2>1. \/ ready'[r] = ready[r]
        \/ ready'[r] = Append(ready[r], a)
    BY <1>2 DEF SlotTyped, RequestTyped
  <2>2. weighed'[r] = weighed[r] + 1 /\ plan'[r] = plan[r] /\ order'[r] = <<>>
    BY <1>1, <1>3 DEF SlotTyped, RequestTyped
  <2>3. ReadyInOrder(plan[r], weighed[r] + 1, ready'[r])
    <3>1. CASE ready'[r] = ready[r]
      BY <1>1, <3>1, ReadyInOrderSkip
    <3>2. CASE ready'[r] = Append(ready[r], a)
      BY <1>1, <3>2, ReadyInOrderAppend
    <3> QED
      BY <2>1, <3>1, <3>2
  <2> QED
    BY <2>2, <2>3, NothingOrdered DEF WeighedInOrder
<1> HIDE DEF a
<1>5. ASSUME NEW s \in Slot, s # r
      PROVE  OrderInv(s)'
  <2>1. ready'[s] = ready[s] /\ held'[s] = held[s] /\ weighed'[s] = weighed[s]
    BY <1>2, <1>3, <1>5 DEF SlotTyped, RequestTyped
  <2> QED
    BY <1>3, <2>1, OrderUntouched DEF OrderKept
<1> QED
  BY <1>4, <1>5 DEF OrderKept

LEMMA OrderPrefer ==
  ASSUME SlotTyped, Inv, OrderKept, NEW r \in Slot, Prefer(r)
  PROVE  OrderKept'
<1>1. CASE Sorted(r) = <<>>
  <2>1. End(r, "unusable")
    BY <1>1 DEF Prefer
  <2> QED
    BY <2>1, OrderEnd
<1>2. CASE Sorted(r) # <<>>
  <2>1. PICK attempts \in Seq(Attempt) : order' = [order EXCEPT ![r] = attempts]
    BY <1>2, PreferOrders
  <2>2. pc' = [pc EXCEPT ![r] = "walking"] /\ UNCHANGED <<plan, weighed, ready, held, conversation>>
    BY <1>2 DEF Prefer
  <2>3. NotSteppedOver(r)' /\ TriedLast(r)'
    BY <1>2, PreferInOrder DEF OrderKept
  <2>4. OrderInv(r)'
    BY <2>2, <2>3 DEF SlotTyped, RequestTyped, OrderInv, WeighedInOrder, Unordered
  <2>5. ASSUME NEW s \in Slot, s # r
        PROVE  OrderInv(s)'
    BY <2>1, <2>2, <2>5, OrderUntouched DEF OrderKept, SlotTyped, RequestTyped
  <2> QED
    BY <2>4, <2>5 DEF OrderKept
<1> QED
  BY <1>1, <1>2

(* A step that changes only where a walking request is.                    *)
LEMMA OrderWalk ==
  ASSUME SlotTyped, OrderKept, NEW r \in Slot,
         NEW stage \in {"walking", "trying", "skipping", "relaying"},
         pc' = [pc EXCEPT ![r] = stage],
         UNCHANGED <<plan, weighed, ready, held, order, conversation>>
  PROVE  OrderKept'
<1>1. OrderInv(r)'
  BY OrderStands DEF OrderKept, SlotTyped, RequestTyped
<1>2. ASSUME NEW s \in Slot, s # r
      PROVE  OrderInv(s)'
  BY <1>2, OrderUntouched DEF OrderKept, SlotTyped, RequestTyped
<1> QED
  BY <1>1, <1>2 DEF OrderKept

LEMMA OrderUnchanged ==
  ASSUME OrderKept, UNCHANGED <<pc, plan, weighed, ready, held, order, conversation>>
  PROVE  OrderKept'
BY OrderUntouched DEF OrderKept

LEMMA OrderStep == Inv /\ SlotTyped /\ OrderKept /\ [Next]_vars => OrderKept'
<1> SUFFICES ASSUME Inv, SlotTyped, OrderKept, [Next]_vars
             PROVE  OrderKept'
  OBVIOUS
<1>1. ASSUME NEW r \in Slot, Arrive(r)
      PROVE  OrderKept'
  BY <1>1, OrderArrive
<1>2. ASSUME NEW r \in Slot, Weigh(r)
      PROVE  OrderKept'
  BY <1>2, OrderWeigh
<1>3. ASSUME NEW r \in Slot, Prefer(r)
      PROVE  OrderKept'
  BY <1>3, OrderPrefer
<1>4. ASSUME NEW r \in Slot, Abandon(r) \/ AnswerCountTokens(r) \/ FinishRelay(r) \/ GiveUp(r)
      PROVE  OrderKept'
  BY <1>4, OrderEnd DEF Abandon, AnswerCountTokens, FinishRelay, GiveUp
<1>5. ASSUME NEW r \in Slot,
             FailLocally(r) \/ FailToConnect(r) \/ CutSkipped(r) \/ UpstreamEndsSkipped(r)
      PROVE  OrderKept'
  BY <1>5, OrderWalk DEF FailLocally, FailToConnect, CutSkipped, UpstreamEndsSkipped, MoveOn
<1>6. ASSUME NEW r \in Slot, BeginAttempt(r)
      PROVE  OrderKept'
  BY <1>6, OrderWalk DEF BeginAttempt
<1>7. ASSUME NEW r \in Slot, NEW status \in Statuses, Respond(r, status)
      PROVE  OrderKept'
  BY <1>7, OrderWalk DEF Respond
<1>8. ASSUME NEW r \in Slot, HangUp(r)
      PROVE  OrderKept'
  BY <1>8, OrderUnchanged DEF HangUp
<1>9. ASSUME NEW p \in Provider, UpdateProvider(p)
      PROVE  OrderKept'
  BY <1>9, OrderUnchanged DEF UpdateProvider, request
<1>10. CASE Tick
  BY <1>10, OrderUnchanged DEF Tick, request
<1>11. CASE UNCHANGED vars
  BY <1>11, OrderUnchanged DEF vars, request
<1> QED
  BY <1>1, <1>2, <1>3, <1>4, <1>5, <1>6, <1>7, <1>8, <1>9, <1>10, <1>11 DEF Next, Step

LEMMA InitOrdered == Init => OrderKept
BY DEF Init, OrderKept, OrderInv, WeighedInOrder, NotSteppedOver, TriedLast, Unordered

LEMMA OrderHolds == Spec => []OrderKept
<1>1. TypeOK => SlotTyped
  BY DEF TypeOK, SlotTyped, RequestTyped
<1> QED
  BY <1>1, InitHolds, NextKeepsInv, RelayTyped, InitOrdered, OrderStep, PTL DEF Spec

(* "A conversation that has been answered by some other provider before    *)
(* must not step over" a rule (PreferSticky): whatever is remembered, and  *)
(* whenever health is read, what no rule asked for goes ahead of what one  *)
(* did only when the latter was found held back.                           *)
THEOREM NoRuleSteppedOver == Spec => []RuleNotSteppedOver
<1>1. OrderKept => RuleNotSteppedOver
  BY DEF OrderKept, OrderInv, NotSteppedOver, RuleNotSteppedOver
<1> QED
  BY <1>1, OrderHolds, PTL

(* A provider found in cooldown or out of its plan is tried after every    *)
(* ready one, but for the conversation's own inside its rule's stretch.    *)
THEOREM HeldBackComesLast == Spec => []HeldTriedLast
<1>1. OrderKept => HeldTriedLast
  BY DEF OrderKept, OrderInv, TriedLast, HeldTriedLast
<1> QED
  BY <1>1, OrderHolds, PTL
-----------------------------------------------------------------------------
(* The recorder: what a delete leaves of a table.                          *)

(* left[n] is what it leaves of the first n rows.                          *)
LeftUpTo(table, S, left, N) ==
  \A n \in 0 .. N :
    left[n] = IF n = 0 THEN <<>>
              ELSE IF table[n] \in S THEN left[n - 1] ELSE Append(left[n - 1], table[n])

LEMMA LeftExists ==
  ASSUME NEW R, NEW table \in Seq(R), NEW S, NEW N \in 0 .. Len(table)
  PROVE  \E left \in [0 .. N -> Seq(R)] : LeftUpTo(table, S, left, N)
<1> DEFINE T == {n \in 0 .. Len(table) :
                   \E left \in [0 .. n -> Seq(R)] : LeftUpTo(table, S, left, n)}
<1>1. Len(table) \in Nat
  OBVIOUS
<1>2. 0 \in T
  <2> DEFINE left == [n \in 0 .. 0 |-> <<>>]
  <2>1. left \in [0 .. 0 -> Seq(R)] /\ LeftUpTo(table, S, left, 0)
    BY DEF LeftUpTo
  <2> QED
    BY <1>1, <2>1
<1>3. ASSUME NEW n \in 1 .. Len(table), n - 1 \in T
      PROVE  n \in T
  <2>1. PICK before \in [0 .. n - 1 -> Seq(R)] : LeftUpTo(table, S, before, n - 1)
    BY <1>3
  <2> DEFINE next == IF table[n] \in S THEN before[n - 1] ELSE Append(before[n - 1], table[n])
             left == [i \in 0 .. n |-> IF i = n THEN next ELSE before[i]]
  <2>2. next \in Seq(R)
    BY <1>1, <2>1
  <2>3. left \in [0 .. n -> Seq(R)]
    BY <1>1, <2>1, <2>2
  <2>4. left[n] = next /\ \A i \in 0 .. n - 1 : left[i] = before[i]
    BY <1>1
  <2> HIDE DEF left
  <2>5. ASSUME NEW i \in 0 .. n
        PROVE  left[i] = IF i = 0 THEN <<>>
                         ELSE IF table[i] \in S THEN left[i - 1] ELSE Append(left[i - 1], table[i])
    <3>1. CASE i = n
      BY <1>1, <2>4, <3>1
    <3>2. CASE i # n
      <4>1. i \in 0 .. n - 1 /\ (i # 0 => i - 1 \in 0 .. n - 1)
        BY <1>1, <3>2
      <4> QED
        BY <2>1, <2>4, <4>1 DEF LeftUpTo
    <3> QED
      BY <3>1, <3>2
  <2>6. LeftUpTo(table, S, left, n)
    BY <2>5 DEF LeftUpTo
  <2> QED
    BY <1>1, <2>3, <2>6
<1> HIDE DEF T
<1>4. 0 .. Len(table) \subseteq T
  BY <1>1, <1>2, <1>3, UpTo
<1> QED
  BY <1>4 DEF T

LEMMA WithoutIsLeft ==
  ASSUME NEW R, NEW table \in Seq(R), NEW S
  PROVE  \E left \in [0 .. Len(table) -> Seq(R)] :
           LeftUpTo(table, S, left, Len(table)) /\ Without(table, S) = left[Len(table)]
<1> DEFINE N == Len(table)
           F(left) == [n \in 0 .. N |->
                         IF n = 0 THEN <<>>
                         ELSE IF table[n] \in S THEN left[n - 1] ELSE Append(left[n - 1], table[n])]
           chosen == CHOOSE left : left = F(left)
<1>1. PICK some \in [0 .. N -> Seq(R)] : LeftUpTo(table, S, some, N)
  <2>1. N \in 0 .. Len(table)
    OBVIOUS
  <2> QED
    BY <2>1, LeftExists
<1>2. some = F(some)
  BY <1>1 DEF LeftUpTo
<1>3. chosen = F(chosen)
  BY <1>2
<1>4. Without(table, S) = chosen[N]
  BY DEF Without
<1> HIDE DEF chosen
<1>5. LeftUpTo(table, S, chosen, N)
  BY <1>3 DEF LeftUpTo
<1>6. \A n \in 0 .. N : chosen[n] \in Seq(R)
  <2> DEFINE T == {n \in 0 .. N : chosen[n] \in Seq(R)}
  <2>1. N \in Nat
    OBVIOUS
  <2>2. 0 \in T
    <3>1. 0 \in 0 .. N /\ <<>> \in Seq(R)
      BY <2>1
    <3>2. chosen[0] = <<>>
      BY <1>5, <3>1 DEF LeftUpTo
    <3> QED
      BY <3>1, <3>2
  <2>3. ASSUME NEW n \in 1 .. N, n - 1 \in T  PROVE n \in T
    <3>1. n \in 0 .. N /\ n # 0 /\ table[n] \in R /\ chosen[n - 1] \in Seq(R)
      BY <2>1, <2>3
    <3>2. chosen[n] = IF table[n] \in S THEN chosen[n - 1] ELSE Append(chosen[n - 1], table[n])
      BY <1>5, <3>1 DEF LeftUpTo
    <3>3. Append(chosen[n - 1], table[n]) \in Seq(R)
      BY <3>1
    <3>4. chosen[n] \in Seq(R)
      BY <3>1, <3>2, <3>3
    <3> QED
      BY <3>1, <3>4
  <2> HIDE DEF T, N
  <2>4. 0 .. N \subseteq T
    BY <2>1, <2>2, <2>3, UpTo
  <2> QED
    BY <2>4 DEF T
<1>7. chosen \in [0 .. N -> Seq(R)]
  BY <1>3, <1>6
<1> QED
  BY <1>4, <1>5, <1>7

(* It leaves the rows that are not deleted, each once, and in their order. *)
Places(table, S, rest, n, place) ==
  /\ place \in [1 .. Len(rest) -> 1 .. n]
  /\ \A i \in 1 .. Len(rest) :
       /\ rest[i] = table[place[i]] /\ rest[i] \notin S
       /\ \A j \in 1 .. Len(rest) : i < j => place[i] < place[j]
  /\ \A m \in 1 .. n : table[m] \notin S => \E i \in 1 .. Len(rest) : place[i] = m

LEMMA WithoutPlaces ==
  ASSUME NEW R, NEW table \in Seq(R), NEW S
  PROVE  /\ Without(table, S) \in Seq(R)
         /\ \E place : Places(table, S, Without(table, S), Len(table), place)
<1> DEFINE N == Len(table)
<1>1. PICK left \in [0 .. N -> Seq(R)] : LeftUpTo(table, S, left, N) /\ Without(table, S) = left[N]
  BY WithoutIsLeft
<1> DEFINE T == {n \in 0 .. N : \E place : Places(table, S, left[n], n, place)}
<1>2. N \in Nat
  OBVIOUS
<1>3. 0 \in T
  <2>1. left[0] = <<>>
    BY <1>1, <1>2 DEF LeftUpTo
  <2> DEFINE place == [i \in 1 .. 0 |-> 0]
  <2>2. Len(left[0]) = 0 /\ 1 .. 0 = {}
    BY <2>1
  <2>3. Places(table, S, left[0], 0, place)
    BY <2>2 DEF Places
  <2> QED
    BY <1>2, <2>3
<1>4. ASSUME NEW n \in 1 .. N, n - 1 \in T
      PROVE  n \in T
  <2>1. PICK place : Places(table, S, left[n - 1], n - 1, place)
    BY <1>4
  <2>2. n \in 0 .. N /\ n # 0 /\ n \in Nat /\ n - 1 \in Nat /\ n - 1 \in 0 .. N
    BY <1>2
  <2>3. left[n] = IF table[n] \in S THEN left[n - 1] ELSE Append(left[n - 1], table[n])
    BY <1>1, <2>2 DEF LeftUpTo
  <2>4. left[n - 1] \in Seq(R) /\ table[n] \in R
    BY <1>1, <2>2
  <2> DEFINE b == left[n - 1]
             k == Len(b)
  <2>5. k \in Nat
    BY <2>4
  <2>6. CASE table[n] \in S
    <3>1. left[n] = b
      BY <2>3, <2>6
    <3>2. place \in [1 .. k -> 1 .. n]
      BY <2>1, <2>2, <2>5 DEF Places
    <3>3. \A m \in 1 .. n : table[m] \notin S => m \in 1 .. n - 1
      BY <2>2, <2>6
    <3>4. Places(table, S, b, n, place)
      BY <2>1, <3>2, <3>3 DEF Places
    <3> QED
      BY <2>2, <3>1, <3>4
  <2>7. CASE table[n] \notin S
    <3> DEFINE rest == Append(b, table[n])
               next == [i \in 1 .. k + 1 |-> IF i = k + 1 THEN n ELSE place[i]]
    <3>1. left[n] = rest
      BY <2>3, <2>7
    <3>2. /\ Len(rest) = k + 1 /\ rest[k + 1] = table[n]
          /\ \A i \in 1 .. k : rest[i] = b[i]
      BY <2>4
    <3>3. /\ \A i \in 1 .. k : /\ place[i] \in 1 .. n - 1 /\ b[i] = table[place[i]] /\ b[i] \notin S
                               /\ \A j \in 1 .. k : i < j => place[i] < place[j]
          /\ \A m \in 1 .. n - 1 : table[m] \notin S => \E i \in 1 .. k : place[i] = m
      BY <2>1 DEF Places
    <3>4. next[k + 1] = n /\ \A i \in 1 .. k : next[i] = place[i]
      BY <2>5
    <3>5. next \in [1 .. k + 1 -> 1 .. n]
      BY <2>2, <2>5, <3>3
    <3> HIDE DEF rest, next, b, k
    <3>6. \A i \in 1 .. k + 1 : i = k + 1 \/ i \in 1 .. k
      BY <2>5
    <3>7. ASSUME NEW i \in 1 .. k + 1
          PROVE  /\ rest[i] = table[next[i]] /\ rest[i] \notin S
                 /\ \A j \in 1 .. k + 1 : i < j => next[i] < next[j]
      <4>1. CASE i = k + 1
        BY <2>5, <2>7, <3>2, <3>4, <4>1
      <4>2. CASE i \in 1 .. k
        <5>1. rest[i] = table[next[i]] /\ rest[i] \notin S
          BY <3>2, <3>3, <3>4, <4>2
        <5>2. ASSUME NEW j \in 1 .. k + 1, i < j  PROVE next[i] < next[j]
          <6>1. next[i] = place[i] /\ place[i] \in 1 .. n - 1
            BY <3>3, <3>4, <4>2
          <6>2. CASE j = k + 1
            BY <2>2, <3>4, <6>1, <6>2
          <6>3. CASE j \in 1 .. k
            <7>1. place[i] < place[j]
              BY <3>3, <4>2, <5>2, <6>3
            <7> QED
              BY <3>4, <6>1, <6>3, <7>1
          <6> QED
            BY <3>6, <6>2, <6>3
        <5> QED
          BY <5>1, <5>2
      <4> QED
        BY <3>6, <4>1, <4>2
    <3>8. ASSUME NEW m \in 1 .. n, table[m] \notin S
          PROVE  \E i \in 1 .. k + 1 : next[i] = m
      <4>1. CASE m = n
        BY <2>5, <3>4, <4>1
      <4>2. CASE m # n
        <5>1. m \in 1 .. n - 1
          BY <2>2, <4>2
        <5>2. PICK i \in 1 .. k : place[i] = m
          BY <3>3, <3>8, <5>1
        <5>3. i \in 1 .. k + 1
          BY <2>5
        <5> QED
          BY <3>4, <5>2, <5>3
      <4> QED
        BY <4>1, <4>2
    <3>9. Places(table, S, rest, n, next)
      BY <3>2, <3>5, <3>7, <3>8 DEF Places
    <3> QED
      BY <2>2, <3>1, <3>9
  <2> QED
    BY <2>6, <2>7
<1> HIDE DEF T
<1>5. 0 .. N \subseteq T
  BY <1>2, <1>3, <1>4, UpTo
<1>6. N \in T
  BY <1>2, <1>5
<1> QED
  BY <1>1, <1>2, <1>6 DEF T

(* As many rows go as there are rows to go.                                *)
LEMMA WithoutLength ==
  ASSUME NEW R, NEW table \in Seq(R), NEW S
  PROVE  LET went == {m \in DOMAIN table : table[m] \in S}
         IN  /\ IsFiniteSet(went) /\ Cardinality(went) \in Nat
             /\ Len(Without(table, S)) + Cardinality(went) = Len(table)
<1> DEFINE N == Len(table)
           rest == Without(table, S)
           k == Len(rest)
           went == {m \in DOMAIN table : table[m] \in S}
           stay == {m \in 1 .. N : table[m] \notin S}
<1>1. PICK place : Places(table, S, rest, N, place)
  BY WithoutPlaces
<1>2. rest \in Seq(R) /\ k \in Nat /\ N \in Nat /\ DOMAIN table = 1 .. N
  BY WithoutPlaces
<1> HIDE DEF rest, k, N
<1>3. place \in Bijection(1 .. k, stay)
  <2>1. \A i \in 1 .. k : place[i] \in stay
    BY <1>1 DEF Places, k
  <2>2. place \in [1 .. k -> stay]
    BY <1>1, <2>1 DEF Places, k
  <2>3. ASSUME NEW i \in 1 .. k, NEW j \in 1 .. k, place[i] = place[j]  PROVE i = j
    <3>1. place[i] \in 1 .. N /\ place[j] \in 1 .. N
      BY <2>1
    <3>2. ~ (i < j) /\ ~ (j < i)
      BY <1>1, <2>3, <3>1 DEF Places, k
    <3> QED
      BY <1>2, <3>2
  <2>4. \A m \in stay : \E i \in 1 .. k : place[i] = m
    BY <1>1 DEF Places, k
  <2> QED
    BY <2>2, <2>3, <2>4 DEF Bijection, Injection, Surjection, IsInjective
<1>4. IsFiniteSet(1 .. k) /\ Cardinality(1 .. k) = k /\ IsFiniteSet(1 .. N) /\ Cardinality(1 .. N) = N
  BY <1>2, FS_Interval
<1>5. IsFiniteSet(stay) /\ Cardinality(stay) = k
  BY <1>3, <1>4, FS_Bijection DEF ExistsBijection
<1>6. IsFiniteSet(went) /\ Cardinality(went) \in Nat
  BY <1>2, <1>4, FS_Subset, FS_CardinalityType
<1>7. Cardinality(went \cup stay) = Cardinality(went) + Cardinality(stay) - Cardinality(went \cap stay)
  BY <1>5, <1>6, FS_Union
<1>8. went \cup stay = 1 .. N /\ Cardinality(went \cap stay) = 0
  <2>1. went \cup stay = 1 .. N /\ went \cap stay = {}
    BY <1>2
  <2> QED
    BY <2>1, FS_EmptySet
<1>9. k + Cardinality(went) = N
  <2>1. Cardinality(went \cup stay) = N
    BY <1>4, <1>8
  <2> HIDE DEF went, stay
  <2> QED
    BY <1>2, <1>5, <1>6, <1>7, <1>8, <2>1
<1> QED
  BY <1>6, <1>9 DEF rest, k, N

RowsOnce(table) == \A i, j \in DOMAIN table : table[i] = table[j] => i = j

(* The rows of a set stand before all others.                              *)
OldestFirst(table, S) ==
  \A i, j \in DOMAIN table : i < j /\ table[j] \in S => table[i] \in S

LEMMA WithoutKeeps ==
  ASSUME NEW R, NEW table \in Seq(R), NEW S
  PROVE  /\ \A i \in DOMAIN Without(table, S) :
              /\ Without(table, S)[i] \notin S
              /\ \E m \in DOMAIN table : Without(table, S)[i] = table[m]
         /\ RowsOnce(table) => RowsOnce(Without(table, S))
         /\ \A O : OldestFirst(table, O) => OldestFirst(Without(table, S), O)
<1> DEFINE N == Len(table)
           rest == Without(table, S)
           k == Len(rest)
<1>1. PICK place : Places(table, S, rest, N, place)
  BY WithoutPlaces
<1>2. rest \in Seq(R) /\ k \in Nat /\ N \in Nat /\ DOMAIN table = 1 .. N /\ DOMAIN rest = 1 .. k
  BY WithoutPlaces
<1> HIDE DEF rest, k, N
<1>3. \A i \in 1 .. k : /\ place[i] \in 1 .. N /\ rest[i] = table[place[i]] /\ rest[i] \notin S
                        /\ \A j \in 1 .. k : i < j => place[i] < place[j]
  BY <1>1 DEF Places, k
<1>4. ASSUME RowsOnce(table)  PROVE RowsOnce(rest)
  <2> SUFFICES ASSUME NEW i \in 1 .. k, NEW j \in 1 .. k, rest[i] = rest[j]  PROVE i = j
    BY <1>2 DEF RowsOnce
  <2>1. place[i] = place[j]
    BY <1>2, <1>3, <1>4 DEF RowsOnce
  <2>2. ~ (i < j) /\ ~ (j < i)
    BY <1>2, <1>3, <2>1
  <2> QED
    BY <1>2, <2>2
<1>5. ASSUME NEW O, OldestFirst(table, O)  PROVE OldestFirst(rest, O)
  BY <1>2, <1>3, <1>5 DEF OldestFirst
<1> QED
  BY <1>2, <1>3, <1>4, <1>5 DEF rest

(* When the rows that go are the oldest, the newest are left.              *)
LEMMA WithoutOldest ==
  ASSUME NEW R, NEW table \in Seq(R), NEW S, OldestFirst(table, S)
  PROVE  LET n == Len(table) - Len(Without(table, S))
         IN  /\ n \in 0 .. Len(table)
             /\ Without(table, S) = SubSeq(table, n + 1, Len(table))
<1> DEFINE N == Len(table)
           rest == Without(table, S)
           k == Len(rest)
           went == {m \in DOMAIN table : table[m] \in S}
           stay == {m \in 1 .. N : table[m] \notin S}
<1>1. PICK place : Places(table, S, rest, N, place)
  BY WithoutPlaces
<1>2. /\ rest \in Seq(R) /\ k \in Nat /\ N \in Nat /\ DOMAIN table = 1 .. N /\ DOMAIN rest = 1 .. k
      /\ IsFiniteSet(went) /\ Cardinality(went) \in Nat /\ k + Cardinality(went) = N
  BY WithoutPlaces, WithoutLength
<1> HIDE DEF rest, k, N
<1>3. /\ \A i \in 1 .. k : /\ place[i] \in 1 .. N /\ rest[i] = table[place[i]] /\ rest[i] \notin S
                           /\ \A j \in 1 .. k : i < j => place[i] < place[j]
      /\ \A m \in 1 .. N : table[m] \notin S => \E i \in 1 .. k : place[i] = m
  BY <1>1 DEF Places, k
<1>4. ASSUME NEW i \in 1 .. k  PROVE place[i] = (N - k) + i
  <2>1. 1 \in 1 .. k /\ k - 1 \in Nat
    BY <1>2
  <2>2. place[1] = (N - k) + 1
    <3>1. went = 1 .. place[1] - 1
      <4>1. ASSUME NEW m \in went  PROVE m < place[1]
        <5>1. m # place[1]
          BY <1>3, <2>1
        <5>2. ~ (place[1] < m)
          BY <1>2, <1>3, <2>1 DEF OldestFirst
        <5> QED
          BY <1>2, <1>3, <2>1, <5>1, <5>2
      <4>2. ASSUME NEW m \in 1 .. place[1] - 1  PROVE m \in went
        <5>1. m \in 1 .. N
          BY <1>2, <1>3, <2>1
        <5>2. ASSUME NEW j \in 1 .. k, place[j] = m  PROVE FALSE
          <6>1. j = 1 \/ 1 < j
            OBVIOUS
          <6> QED
            BY <1>2, <1>3, <2>1, <5>2, <6>1
        <5> QED
          BY <1>2, <1>3, <5>1, <5>2
      <4>3. \A m \in went : m \in 1 .. N
        BY <1>2
      <4> QED
        BY <1>2, <1>3, <2>1, <4>1, <4>2, <4>3
    <3>2. place[1] \in 1 .. N
      BY <1>3, <2>1
    <3>3. Cardinality(1 .. place[1] - 1) = place[1] - 1
      <4>1. 1 \in Int /\ place[1] - 1 \in Int /\ (1 > place[1] - 1 => place[1] - 1 = 0)
        BY <1>2, <3>2
      <4>2. Cardinality(1 .. place[1] - 1) = IF 1 > place[1] - 1 THEN 0 ELSE (place[1] - 1) - 1 + 1
        BY <4>1, FS_Interval
      <4> QED
        BY <1>2, <3>2, <4>1, <4>2
    <3>4. Cardinality(went) = place[1] - 1
      BY <3>1, <3>3
    <3> HIDE DEF went
    <3> QED
      BY <1>2, <3>2, <3>4
  <2> DEFINE T == {d \in 0 .. k - 1 : place[1 + d] >= (N - k) + 1 + d}
             U == {d \in 0 .. k - 1 : place[k - d] <= N - d}
  <2>3. 0 .. k - 1 \subseteq T
    <3>1. 0 \in T
      BY <1>2, <2>1, <2>2
    <3>2. ASSUME NEW d \in 1 .. k - 1, d - 1 \in T  PROVE d \in T
      <4>1. d \in 1 .. k /\ 1 + d \in 1 .. k /\ 1 + (d - 1) = d /\ d < 1 + d
        BY <1>2
      <4>2. place[d] \in 1 .. N /\ place[1 + d] \in 1 .. N /\ place[d] < place[1 + d]
        BY <1>3, <4>1
      <4>3. place[d] >= (N - k) + 1 + (d - 1)
        BY <3>2, <4>1
      <4> QED
        BY <1>2, <4>2, <4>3
    <3> HIDE DEF T
    <3> QED
      BY <2>1, <3>1, <3>2, UpTo
  <2>4. 0 .. k - 1 \subseteq U
    <3>1. 0 \in U
      BY <1>2, <1>3, <2>1
    <3>2. ASSUME NEW d \in 1 .. k - 1, d - 1 \in U  PROVE d \in U
      <4>1. k - d \in 1 .. k /\ k - (d - 1) \in 1 .. k /\ k - d < k - (d - 1)
        BY <1>2
      <4>2. /\ place[k - d] \in 1 .. N /\ place[k - (d - 1)] \in 1 .. N
            /\ place[k - d] < place[k - (d - 1)]
        BY <1>3, <4>1
      <4>3. place[k - (d - 1)] <= N - (d - 1)
        BY <3>2
      <4> QED
        BY <1>2, <4>2, <4>3
    <3> HIDE DEF U
    <3> QED
      BY <2>1, <3>1, <3>2, UpTo
  <2>5. i - 1 \in T /\ k - i \in U
    <3>1. i - 1 \in 0 .. k - 1 /\ k - i \in 0 .. k - 1
      BY <1>2
    <3> QED
      BY <2>3, <2>4, <3>1
  <2>6. 1 + (i - 1) = i /\ k - (k - i) = i
    BY <1>2
  <2>7. place[i] >= (N - k) + i /\ place[i] <= N - (k - i)
    <3>1. place[i] >= (N - k) + 1 + (i - 1) /\ place[i] <= N - (k - i)
      BY <2>5, <2>6
    <3> QED
      BY <1>2, <3>1
  <2>8. place[i] \in Int /\ i \in Int
    BY <1>3
  <2> QED
    BY <1>2, <2>7, <2>8
<1>5. N - k \in 0 .. N
  BY <1>2
<1>6. rest = SubSeq(table, (N - k) + 1, N)
  <2> DEFINE newest == SubSeq(table, (N - k) + 1, N)
  <2>1. newest \in Seq(R) /\ Len(newest) = k /\ \A i \in 1 .. k : newest[i] = table[(N - k) + i]
    BY <1>2, <1>5 DEF N
  <2>2. \A i \in 1 .. k : rest[i] = newest[i]
    BY <1>3, <1>4, <2>1
  <2> HIDE DEF newest
  <2>3. Len(rest) = Len(newest)
    BY <2>1 DEF k
  <2>4. rest = newest
    BY <1>2, <2>1, <2>2, <2>3 DEF k
  <2> QED
    BY <2>4 DEF newest
<1> QED
  BY <1>5, <1>6 DEF rest, k, N

-----------------------------------------------------------------------------
(* The channels and their lock.                                            *)

(* Who holds the read lock is about to send on the channel that was there  *)
(* when it took the lock, and that is still there.                         *)
Held == \A r \in Record : sending[r] # None => sending[r] = current

(* The channel that is there is one nobody has taken away to close.        *)
CurrentIsOpen ==
  current # None =>
    /\ current \notin closed /\ writers[current].pc # "unborn"
    /\ \A c \in Caller : callers[c].pc \in {"close", "wait"} => callers[c].queue # current

(* What was taken away, or closed, is a channel that was made.             *)
ChannelsMade ==
  /\ \A w \in closed : writers[w].pc # "unborn"
  /\ \A c \in Caller : callers[c].pc \in {"close", "wait"} =>
       callers[c].queue \in Writer /\ writers[callers[c].queue].pc # "unborn"

WriterInv == RecordTypeOK /\ Held /\ CurrentIsOpen /\ ChannelsMade /\ ~panicked

-----------------------------------------------------------------------------

LEMMA OfferKeeps ==
  ASSUME WriterInv, NEW r \in Record, Offer(r) \/ AddLlmRecord(r)
  PROVE  WriterInv'
<1>1. CASE Offer(r)
  BY <1>1, WriterAssumption DEF WriterInv, RecordTypeOK, Held, CurrentIsOpen, ChannelsMade, Offer
<1>2. CASE AddLlmRecord(r)
  <2>1. PICK w \in Writer : w = sending[r] /\ w = current /\ w \notin closed
    BY <1>2 DEF WriterInv, RecordTypeOK, Held, CurrentIsOpen, AddLlmRecord
  <2>2. /\ sending' = [sending EXCEPT ![r] = None] /\ panicked' = (panicked \/ w \in closed)
        /\ queue' = IF w \notin closed /\ Len(queue[w]) < Capacity
                    THEN [queue EXCEPT ![w] = Append(@, r)] ELSE queue
        /\ UNCHANGED <<offered, current, mode, callers, writers, closed, done, rows>>
    BY <1>2, <2>1 DEF AddLlmRecord
  <2>3. /\ queue' \in [Writer -> Seq(Record)] /\ \A v \in Writer : Len(queue'[v]) <= Capacity
    <3>1. queue \in [Writer -> Seq(Record)] /\ (\A v \in Writer : Len(queue[v]) <= Capacity)
          /\ Capacity \in Nat
      BY WriterAssumption DEF WriterInv, RecordTypeOK
    <3>2. CASE Len(queue[w]) < Capacity
      <4>1. queue' = [queue EXCEPT ![w] = Append(queue[w], r)]
        BY <2>1, <2>2, <3>2
      <4>2. Append(queue[w], r) \in Seq(Record) /\ Len(Append(queue[w], r)) = Len(queue[w]) + 1
            /\ Len(queue[w]) \in Nat
        BY <3>1
      <4> QED
        BY <3>1, <3>2, <4>1, <4>2
    <3> QED
      BY <2>2, <3>1, <3>2
  <2>4. sending' \in [Record -> Writer \cup {None}] /\ \A q \in Record : sending'[q] \in {sending[q], None}
    BY <2>2 DEF WriterInv, RecordTypeOK
  <2> QED
    BY <2>1, <2>2, <2>3, <2>4 DEF WriterInv, RecordTypeOK, Held, CurrentIsOpen, ChannelsMade
<1> QED
  BY <1>1, <1>2

(* A caller goes on, and what the channel is told by is a step of its own. *)
LEMMA CallerShape ==
  ASSUME callers \in [Caller -> Save], NEW c \in Caller, NEW next \in Save,
         callers' = [callers EXCEPT ![c] = next]
  PROVE  callers' \in [Caller -> Save] /\ callers'[c] = next
         /\ \A d \in Caller \ {c} : callers'[d] = callers[d]
  OBVIOUS

LEMMA ThenShape ==
  ASSUME NEW c \in Caller
  PROVE  Then(c) \in Save /\ Then(c).pc \in {"start", "idle"}
<1>1. NoSave \in Save /\ NoSave.pc = "idle"
  BY DEF NoSave, Save
<1>2. [NoSave EXCEPT !.pc = "start"] \in Save /\ [NoSave EXCEPT !.pc = "start"].pc = "start"
  BY DEF NoSave, Save
<1> QED
  BY <1>1, <1>2 DEF Then

LEMMA CallerKeeps ==
  ASSUME WriterInv, NEW c \in Caller, SaveSetting(c) \/ CallerStep(c)
  PROVE  WriterInv'
<1>1. callers \in [Caller -> Save] /\ RecordTypeOK
  BY DEF WriterInv, RecordTypeOK
<1>2. CASE SaveSetting(c)
  <2>1. PICK next \in Save : callers' = [callers EXCEPT ![c] = next] /\ next.pc \in {"stop", "start"}
    <3>1. callers[c] \in Save
      BY <1>1
    <3>2. PICK stage \in {"stop", "start"}, again \in BOOLEAN :
            \/ callers' = [callers EXCEPT ![c].pc = stage]
            \/ callers' = [callers EXCEPT ![c].pc = stage, ![c].again = again]
      BY <1>2 DEF SaveSetting
    <3>3. /\ [callers[c] EXCEPT !.pc = stage] \in Save /\ [callers[c] EXCEPT !.pc = stage].pc = stage
          /\ [callers[c] EXCEPT !.pc = stage, !.again = again] \in Save
          /\ [callers[c] EXCEPT !.pc = stage, !.again = again].pc = stage
      BY <3>1 DEF Save
    <3>4. \/ callers' = [callers EXCEPT ![c] = [callers[c] EXCEPT !.pc = stage]]
          \/ callers' = [callers EXCEPT ![c] = [callers[c] EXCEPT !.pc = stage, !.again = again]]
      BY <3>2
    <3> QED
      BY <3>3, <3>4
  <2>2. /\ callers' \in [Caller -> Save] /\ callers'[c].pc \in {"stop", "start"}
        /\ \A d \in Caller \ {c} : callers'[d] = callers[d]
    BY <1>1, <2>1, CallerShape
  <2>3. mode' \in BOOLEAN /\ UNCHANGED <<offered, sending, current, writers, queue, closed, done, rows, panicked>>
    BY <1>2 DEF SaveSetting
  <2> QED
    BY <2>2, <2>3 DEF WriterInv, RecordTypeOK, Held, CurrentIsOpen, ChannelsMade
<1>3. CASE Stop(c)
  <2>1. /\ current' = None /\ \A r \in Record : sending[r] = None
        /\ callers' = [callers EXCEPT ![c] = Taken(c)]
        /\ UNCHANGED <<offered, sending, mode, writers, queue, closed, done, rows, panicked>>
    BY <1>3 DEF Stop, Unlocked
  <2>2. /\ Taken(c) \in Save
        /\ Taken(c).pc \in {"close", "wait"} => Taken(c).queue = current /\ current # None
    <3>1. CASE current = None
      BY <3>1, ThenShape DEF Taken
    <3>2. CASE current # None
      <4>1. Taken(c) = [callers[c] EXCEPT !.pc = "close", !.queue = current]
        BY <3>2 DEF Taken
      <4>2. callers[c] \in Save /\ current \in Writer
        BY <1>1, <3>2 DEF RecordTypeOK
      <4> QED
        BY <3>2, <4>1, <4>2 DEF Save
    <3> QED
      BY <3>1, <3>2
  <2>3. callers' \in [Caller -> Save] /\ callers'[c] = Taken(c)
        /\ \A d \in Caller \ {c} : callers'[d] = callers[d]
    BY <1>1, <2>1, <2>2, CallerShape
  <2> QED
    BY <2>1, <2>2, <2>3 DEF WriterInv, RecordTypeOK, Held, CurrentIsOpen, ChannelsMade
<1>4. CASE CloseQueue(c)
  <2>1. /\ callers[c].pc = "close" /\ closed' = closed \cup {callers[c].queue}
        /\ UNCHANGED <<offered, sending, current, mode, writers, queue, done, rows, panicked>>
    BY <1>4 DEF CloseQueue
  <2>2. callers' \in [Caller -> Save] /\ callers'[c].queue = callers[c].queue
        /\ \A d \in Caller \ {c} : callers'[d] = callers[d]
    BY <1>1, <1>4 DEF CloseQueue, Save
  <2> QED
    BY <2>1, <2>2 DEF WriterInv, RecordTypeOK, Held, CurrentIsOpen, ChannelsMade
<1>5. CASE Wait(c) \/ LookAtMode(c)
  <2>1. UNCHANGED <<offered, sending, current, mode, writers, queue, closed, done, rows, panicked>>
    BY <1>5 DEF Wait, LookAtMode
  <2>2. PICK next \in Save : /\ callers' = [callers EXCEPT ![c] = next]
                             /\ next.pc \in {"start", "idle", "lock"}
    <3>1. CASE Wait(c)
      BY <3>1, ThenShape DEF Wait
    <3>2. CASE LookAtMode(c)
      <4>1. [callers[c] EXCEPT !.pc = "lock"] \in Save /\ [callers[c] EXCEPT !.pc = "lock"].pc = "lock"
            /\ NoSave \in Save /\ NoSave.pc = "idle"
        BY <1>1 DEF Save, NoSave
      <4>2. \/ callers' = [callers EXCEPT ![c] = [callers[c] EXCEPT !.pc = "lock"]]
            \/ callers' = [callers EXCEPT ![c] = NoSave]
        BY <3>2 DEF LookAtMode
      <4> QED
        BY <4>1, <4>2
    <3> QED
      BY <1>5, <3>1, <3>2
  <2>3. callers' \in [Caller -> Save] /\ callers'[c] = next
        /\ \A d \in Caller \ {c} : callers'[d] = callers[d]
    BY <1>1, <2>2, CallerShape
  <2> QED
    BY <2>1, <2>2, <2>3 DEF WriterInv, RecordTypeOK, Held, CurrentIsOpen, ChannelsMade
<1>6. CASE StartLlmRecordWriter(c)
  <2>1. /\ \A r \in Record : sending[r] = None
        /\ callers' = [callers EXCEPT ![c] = NoSave]
        /\ UNCHANGED <<offered, sending, mode, queue, closed, done, rows, panicked>>
    BY <1>6 DEF StartLlmRecordWriter, Unlocked
  <2>2. NoSave \in Save /\ NoSave.pc = "idle"
    BY DEF NoSave, Save
  <2>3. callers' \in [Caller -> Save] /\ callers'[c].pc = "idle"
        /\ \A d \in Caller \ {c} : callers'[d] = callers[d]
    BY <1>1, <2>1, <2>2, CallerShape
  <2>4. CASE current # None /\ UNCHANGED <<current, writers>>
    BY <2>1, <2>3, <2>4 DEF WriterInv, RecordTypeOK, Held, CurrentIsOpen, ChannelsMade
  <2>5. ASSUME NEW w \in Writer, writers[w].pc = "unborn", current' = w,
               writers' = [writers EXCEPT ![w].pc = "pruning"]
        PROVE  WriterInv'
    <3>1. /\ writers' \in [Writer -> Goroutine] /\ writers'[w].pc = "pruning"
          /\ \A v \in Writer \ {w} : writers'[v] = writers[v]
      BY <1>1, <2>5 DEF RecordTypeOK, Goroutine
    <3>2. /\ w \notin closed
          /\ \A d \in Caller : callers'[d].pc \in {"close", "wait"} => callers'[d].queue # w
      BY <2>3, <2>5 DEF WriterInv, ChannelsMade
    <3> QED
      BY <2>1, <2>3, <2>5, <3>1, <3>2 DEF WriterInv, RecordTypeOK, Held, CurrentIsOpen, ChannelsMade
  <2> QED
    BY <1>6, <2>4, <2>5 DEF StartLlmRecordWriter, Left
<1> QED
  BY <1>2, <1>3, <1>4, <1>5, <1>6 DEF CallerStep

-----------------------------------------------------------------------------
(* The goroutines of the writers.                                          *)

LEMMA AtShape ==
  ASSUME NEW stage \in {"unborn", "pruning", "aged", "counted", "found", "loop", "write", "ended"}
  PROVE  /\ At(stage) \in Goroutine /\ At(stage).pc = stage /\ At(stage).others = 0
         /\ At(stage).excess = 0 /\ At(stage).oldest = {}
         /\ \A r \in Record : LET g == [At(stage) EXCEPT !.hand = r]
                              IN g \in Goroutine /\ g.pc = stage /\ g.hand = r
         /\ \A n \in Nat : LET g == [At(stage) EXCEPT !.excess = n]
                           IN g \in Goroutine /\ g.pc = stage /\ g.excess = n /\ g.others = 0
  BY DEF At, Unborn, Goroutine

LEMMA OthersShape ==
  ASSUME writers \in [Writer -> Goroutine], NEW w, NEW n \in Nat
  PROVE  /\ Others(writers, w, n) \in [Writer -> Goroutine]
         /\ \A v \in Writer :
              /\ Others(writers, w, n)[v].pc = writers[v].pc
              /\ Others(writers, w, n)[v].hand = writers[v].hand
              /\ Others(writers, w, n)[v].excess = writers[v].excess
              /\ Others(writers, w, n)[v].oldest = writers[v].oldest
              /\ Others(writers, w, n)[v].others =
                   IF v # w /\ writers[v].pc \in {"counted", "found"}
                   THEN writers[v].others + n ELSE writers[v].others
<1> SUFFICES ASSUME NEW v \in Writer
             PROVE  LET g == IF v # w /\ writers[v].pc \in {"counted", "found"}
                             THEN [writers[v] EXCEPT !.others = @ + n] ELSE writers[v]
                    IN  /\ g \in Goroutine
                        /\ g.pc = writers[v].pc /\ g.hand = writers[v].hand
                        /\ g.excess = writers[v].excess /\ g.oldest = writers[v].oldest
                        /\ g.others = IF v # w /\ writers[v].pc \in {"counted", "found"}
                                      THEN writers[v].others + n ELSE writers[v].others
  BY DEF Others
<1>1. writers[v] \in Goroutine
  OBVIOUS
<1> QED
  BY <1>1 DEF Goroutine

(* What is never undone: a goroutine that was started was started.         *)
LEMMA WritersOnly ==
  ASSUME WriterInv, UNCHANGED <<offered, sending, current, mode, callers, panicked>>,
         writers' \in [Writer -> Goroutine],
         \A w \in Writer : writers'[w].pc = "unborn" => writers[w].pc = "unborn",
         queue' \in [Writer -> Seq(Record)], \A w \in Writer : Len(queue'[w]) <= Capacity,
         closed' = closed, done' \subseteq closed, rows' \in Seq(Record)
  PROVE  WriterInv'
  BY DEF WriterInv, RecordTypeOK, Held, CurrentIsOpen, ChannelsMade

(* The rows that go are counted by whoever has counted them before.        *)
LEMMA FirstShape ==
  ASSUME rows \in Seq(Record), NEW n \in Nat
  PROVE  First(n) \subseteq Record /\ First(n) \subseteq {rows[i] : i \in DOMAIN rows}
<1>1. \A i \in 1 .. (IF n < Len(rows) THEN n ELSE Len(rows)) : i \in DOMAIN rows /\ rows[i] \in Record
  OBVIOUS
<1> QED
  BY <1>1 DEF First

Gone(S) == {m \in DOMAIN rows : rows[m] \in S}

(* What a delete is: of some rows, counted, by a writer or by the page.    *)
Deletes(S, n, by) ==
  /\ rows' = Without(rows, S) /\ n = Cardinality(Gone(S)) /\ n \in Nat
  /\ writers' \in [Writer -> Goroutine]
  /\ \A v \in Writer \ by :
       /\ writers'[v].pc = writers[v].pc /\ writers'[v].hand = writers[v].hand
       /\ writers'[v].excess = writers[v].excess /\ writers'[v].oldest = writers[v].oldest
       /\ writers[v].pc \in {"counted", "found"} => writers'[v].others = writers[v].others + n
  /\ \A v \in by : writers[v].pc \in {"pruning", "found"} /\ writers'[v].pc \in {"aged", "loop"}

LEMMA GoneCount ==
  ASSUME rows \in Seq(Record), RowsOnce(rows), NEW S \in SUBSET {rows[i] : i \in DOMAIN rows}
  PROVE  Cardinality(Gone(S)) = Cardinality(S) /\ Cardinality(S) \in Nat
<1> DEFINE lying == [m \in Gone(S) |-> rows[m]]
<1>1. lying \in Bijection(Gone(S), S)
  <2>1. lying \in [Gone(S) -> S]
    BY DEF Gone
  <2>2. \A m, l \in Gone(S) : lying[m] = lying[l] => m = l
    BY DEF Gone, RowsOnce
  <2>3. \A r \in S : \E m \in Gone(S) : lying[m] = r
    BY DEF Gone
  <2> QED
    BY <2>1, <2>2, <2>3 DEF Bijection, Injection, Surjection, IsInjective
<1>2. IsFiniteSet(Gone(S)) /\ Cardinality(Gone(S)) \in Nat
  BY WithoutLength DEF Gone
<1>3. Cardinality(S) = Cardinality(Gone(S))
  BY <1>1, <1>2, FS_Bijection DEF ExistsBijection
<1> QED
  BY <1>2, <1>3

LEMMA PruneAgedShape ==
  ASSUME RecordTypeOK, RowsOnce(rows), NEW w \in Writer, PruneAged(w)
  PROVE  \E S, n : Deletes(S, n, {w})
<1>1. PICK S \in SUBSET First(Len(rows)) :
        /\ rows' = Without(rows, S) /\ writers[w].pc = "pruning"
        /\ writers' = [Others(writers, w, Cardinality(S)) EXCEPT ![w] = At("aged")]
  BY DEF PruneAged
<1>2. rows \in Seq(Record) /\ writers \in [Writer -> Goroutine] /\ Len(rows) \in Nat
  BY DEF RecordTypeOK
<1>3. Cardinality(Gone(S)) = Cardinality(S) /\ Cardinality(S) \in Nat
  <2>1. S \in SUBSET {rows[i] : i \in DOMAIN rows}
    BY <1>1, <1>2, FirstShape
  <2> QED
    BY <1>2, <2>1, GoneCount
<1> DEFINE others == Others(writers, w, Cardinality(S))
<1>4. /\ others \in [Writer -> Goroutine]
      /\ \A v \in Writer :
           /\ others[v].pc = writers[v].pc /\ others[v].hand = writers[v].hand
           /\ others[v].excess = writers[v].excess /\ others[v].oldest = writers[v].oldest
           /\ others[v].others = IF v # w /\ writers[v].pc \in {"counted", "found"}
                                 THEN writers[v].others + Cardinality(S) ELSE writers[v].others
  BY <1>2, <1>3, OthersShape
<1>5. At("aged") \in Goroutine /\ At("aged").pc = "aged"
  BY AtShape
<1> HIDE DEF others
<1>6. writers' \in [Writer -> Goroutine] /\ writers'[w].pc = "aged"
      /\ \A v \in Writer \ {w} : writers'[v] = others[v]
  BY <1>1, <1>4, <1>5 DEF others
<1>7. Deletes(S, Cardinality(S), {w})
  BY <1>1, <1>3, <1>4, <1>6 DEF Deletes
<1> QED
  BY <1>7

LEMMA PruneDeleteShape ==
  ASSUME RecordTypeOK, NEW w \in Writer, PruneDelete(w)
  PROVE  \E n : Deletes(writers[w].oldest, n, {w})
<1> DEFINE S == writers[w].oldest
           n == Cardinality(Gone(S))
           others == Others(writers, w, n)
<1>1. /\ writers[w].pc = "found" /\ rows' = Without(rows, S)
      /\ writers' = [others EXCEPT ![w] = At("loop")]
  BY DEF PruneDelete, Gone
<1>2. rows \in Seq(Record) /\ writers \in [Writer -> Goroutine]
  BY DEF RecordTypeOK
<1>3. n \in Nat
  BY <1>2, WithoutLength DEF Gone
<1> HIDE DEF n
<1>4. /\ others \in [Writer -> Goroutine]
      /\ \A v \in Writer :
           /\ others[v].pc = writers[v].pc /\ others[v].hand = writers[v].hand
           /\ others[v].excess = writers[v].excess /\ others[v].oldest = writers[v].oldest
           /\ others[v].others = IF v # w /\ writers[v].pc \in {"counted", "found"}
                                 THEN writers[v].others + n ELSE writers[v].others
  BY <1>2, <1>3, OthersShape
<1>5. At("loop") \in Goroutine /\ At("loop").pc = "loop"
  BY AtShape
<1> HIDE DEF others
<1>6. writers' \in [Writer -> Goroutine] /\ writers'[w].pc = "loop"
      /\ \A v \in Writer \ {w} : writers'[v] = others[v]
  BY <1>1, <1>4, <1>5
<1>7. Deletes(S, n, {w})
  BY <1>1, <1>3, <1>4, <1>6 DEF Deletes, n
<1> QED
  BY <1>7

LEMMA DeleteRowsShape ==
  ASSUME RecordTypeOK, RowsOnce(rows), DeleteRows
  PROVE  \E S, n : Deletes(S, n, {})
<1>1. rows \in Seq(Record) /\ writers \in [Writer -> Goroutine] /\ Len(rows) \in Nat
  BY DEF RecordTypeOK
<1>2. PICK S \in SUBSET {rows[i] : i \in DOMAIN rows} :
        rows' = Without(rows, S) /\ writers' = Others(writers, None, Cardinality(S))
  <2>1. First(Len(rows)) \subseteq {rows[i] : i \in DOMAIN rows}
    BY <1>1, FirstShape
  <2> QED
    BY <2>1 DEF DeleteRows
<1>3. Cardinality(Gone(S)) = Cardinality(S) /\ Cardinality(S) \in Nat
  BY <1>1, GoneCount
<1>4. \A v \in Writer : v # None
  BY WriterAssumption
<1>5. Deletes(S, Cardinality(S), {})
  BY <1>1, <1>2, <1>3, <1>4, OthersShape DEF Deletes
<1> QED
  BY <1>5

-----------------------------------------------------------------------------
(* A record is in one place.                                               *)

Queued(r) == \E w \in Writer : \E i \in DOMAIN queue[w] : queue[w][i] = r
Holds(w, r) == writers[w].pc = "write" /\ writers[w].hand = r

(* It was offered, and is on no way into the table.                        *)
Past(r) ==
  /\ r \in offered /\ sending[r] = None
  /\ ~Queued(r) /\ \A w \in Writer : ~Holds(w, r)

OneWay ==
  /\ \A r \in Record : /\ sending[r] # None => r \in offered
                       /\ Queued(r) => r \in offered /\ sending[r] = None
  /\ \A w, v \in Writer : \A i \in DOMAIN queue[w], j \in DOMAIN queue[v] :
       queue[w][i] = queue[v][j] => w = v /\ i = j
  /\ \A w \in Writer : writers[w].pc = "write" =>
       /\ writers[w].hand \in offered /\ sending[writers[w].hand] = None
       /\ ~Queued(writers[w].hand)
       /\ \A v \in Writer : Holds(v, writers[w].hand) => v = w

(* What a prune has found are the oldest rows, no more than are too many;  *)
(* and what is missing of the rows it counted others have deleted.         *)
PruneOK(w) ==
  /\ writers[w].pc \in {"counted", "found"} =>
       Len(rows) + writers[w].others >= MaxRecords + writers[w].excess
  /\ writers[w].pc = "found" =>
       /\ OldestFirst(rows, writers[w].oldest)
       /\ Cardinality(Gone(writers[w].oldest)) <= writers[w].excess
       /\ \A r \in writers[w].oldest : Past(r)

TableInv ==
  /\ RowsOnce(rows) /\ \A i \in DOMAIN rows : Past(rows[i])
  /\ OneWay /\ \A w \in Writer : PruneOK(w)

-----------------------------------------------------------------------------
(* Every step keeps both.                                                  *)

Recording == WriterInv /\ TableInv

LEMMA WaysUnmoved ==
  ASSUME OneWay, UNCHANGED <<offered, sending, queue>>,
         \A w \in Writer : writers'[w].pc = "write" =>
           writers[w].pc = "write" /\ writers'[w].hand = writers[w].hand
  PROVE  OneWay' /\ \A r : Past(r) => Past(r)'
<1>1. \A r : Queued(r)' <=> Queued(r)
  BY DEF Queued
<1>2. \A w \in Writer : \A r : Holds(w, r)' => Holds(w, r)
  BY DEF Holds
<1>3. \A r : Past(r) => Past(r)'
  BY <1>1, <1>2 DEF Past
<1>4. OneWay'
  BY <1>1, <1>2 DEF OneWay
<1> QED
  BY <1>3, <1>4

(* A table that stays, and a prune that does not go on.                    *)
LEMMA PruneStays ==
  ASSUME NEW w \in Writer, PruneOK(w), UNCHANGED rows, writers'[w] = writers[w],
         \A r : Past(r) => Past(r)'
  PROVE  PruneOK(w)'
  BY DEF PruneOK, Gone

LEMMA TableStays ==
  ASSUME TableInv, UNCHANGED rows, \A r : Past(r) => Past(r)', OneWay',
         NEW W \in SUBSET Writer, \A v \in Writer \ W : writers'[v] = writers[v],
         \A w \in W : PruneOK(w)'
  PROVE  TableInv'
<1>1. \A v \in Writer \ W : PruneOK(v)'
  BY PruneStays DEF TableInv
<1> QED
  BY <1>1 DEF TableInv

LEMMA TableAlone ==
  ASSUME TableInv, UNCHANGED <<writers, rows>>, \A r : Past(r) => Past(r)', OneWay'
  PROVE  TableInv'
<1>1. \A v \in Writer : PruneOK(v)'
  BY PruneStays DEF TableInv
<1> QED
  BY <1>1 DEF TableInv

LEMMA NoPrune ==
  ASSUME NEW w \in Writer, writers'[w].pc \notin {"counted", "found"}
  PROVE  PruneOK(w)'
  BY DEF PruneOK

(* What writers do to no record.                                           *)
LEMMA WriterMoves ==
  ASSUME Recording, NEW w \in Writer, NEW g \in Goroutine, writers' = [writers EXCEPT ![w] = g],
         g.pc # "unborn", g.pc = "write" => writers[w].pc = "write" /\ g.hand = writers[w].hand,
         UNCHANGED <<offered, sending, current, mode, callers, queue, closed, rows, panicked>>,
         done' \subseteq closed,
         (\A r : Past(r) => Past(r)') => PruneOK(w)'
  PROVE  Recording'
<1>1. RecordTypeOK
  BY DEF Recording, WriterInv
<1>2. writers' \in [Writer -> Goroutine] /\ writers'[w] = g
      /\ \A v \in Writer \ {w} : writers'[v] = writers[v]
  BY <1>1 DEF RecordTypeOK
<1>3. WriterInv'
  BY <1>1, <1>2, WritersOnly DEF Recording, RecordTypeOK
<1>4. OneWay' /\ \A r : Past(r) => Past(r)'
  BY <1>2, WaysUnmoved DEF Recording, TableInv
<1>5. TableInv'
  <2>1. {w} \in SUBSET Writer /\ \A v \in {w} : PruneOK(v)'
    BY <1>4
  <2>2. TableInv /\ rows' = rows
    BY DEF Recording
  <2> QED
    BY <1>2, <1>4, <2>1, <2>2, TableStays
<1> QED
  BY <1>3, <1>5 DEF Recording

LEMMA LoopKeepsInv ==
  ASSUME Recording, NEW w \in Writer, Loop(w) \/ EndWriter(w) \/ PruneFails(w)
  PROVE  Recording'
<1>1. PICK stage \in {"pruning", "ended", "loop"} :
        /\ writers' = [writers EXCEPT ![w] = At(stage)]
        /\ UNCHANGED <<offered, sending, current, mode, callers, queue, closed, rows, panicked>>
        /\ done' = done \/ (w \in closed /\ done' = done \cup {w})
  BY DEF Loop, EndWriter, PruneFails, Goes
<1>2. At(stage) \in Goroutine /\ At(stage).pc = stage
  BY AtShape
<1>3. writers \in [Writer -> Goroutine] /\ done \subseteq closed
  BY DEF Recording, WriterInv, RecordTypeOK
<1>4. PruneOK(w)'
  BY <1>1, <1>2, <1>3, NoPrune
<1>5. done' \subseteq closed
  BY <1>1, <1>3
<1> QED
  BY <1>1, <1>2, <1>4, <1>5, WriterMoves

LEMMA PruneCountKeepsInv ==
  ASSUME Recording, NEW w \in Writer, PruneCount(w)
  PROVE  Recording'
<1>1. /\ writers \in [Writer -> Goroutine] /\ rows \in Seq(Record) /\ Len(rows) \in Nat
      /\ done \subseteq closed /\ MaxRecords \in Nat
  BY WriterAssumption DEF Recording, WriterInv, RecordTypeOK
<1> DEFINE excess == Len(rows) - MaxRecords
           g == IF Len(rows) <= MaxRecords THEN At("loop") ELSE [At("counted") EXCEPT !.excess = excess]
<1>2. /\ writers' = [writers EXCEPT ![w] = g]
      /\ UNCHANGED <<offered, sending, current, mode, callers, queue, closed, done, rows, panicked>>
  BY DEF PruneCount, Goes
<1>3. CASE Len(rows) <= MaxRecords
  <2>1. g \in Goroutine /\ g.pc = "loop"
    BY <1>3, AtShape
  <2> HIDE DEF g
  <2>2. PruneOK(w)'
    BY <1>1, <1>2, <2>1, NoPrune
  <2> QED
    BY <1>1, <1>2, <2>1, <2>2, WriterMoves
<1>4. CASE ~ (Len(rows) <= MaxRecords)
  <2>1. excess \in Nat /\ Len(rows) = MaxRecords + excess
    BY <1>1, <1>4
  <2>2. g \in Goroutine /\ g.pc = "counted" /\ g.excess = excess /\ g.others = 0
    <3> HIDE DEF excess
    <3> QED
      BY <1>4, <2>1, AtShape
  <2> HIDE DEF g, excess
  <2>3. PruneOK(w)'
    <3>1. writers'[w] = g
      BY <1>1, <1>2
    <3> QED
      BY <1>1, <1>2, <2>1, <2>2, <3>1 DEF PruneOK
  <2> QED
    BY <1>1, <1>2, <2>2, <2>3, WriterMoves
<1> QED
  BY <1>3, <1>4

(* The rows found are the first ones, as many as there were too many.      *)
LEMMA PruneLookupKeepsInv ==
  ASSUME Recording, NEW w \in Writer, PruneLookup(w)
  PROVE  Recording'
<1>1. /\ writers \in [Writer -> Goroutine] /\ rows \in Seq(Record) /\ Len(rows) \in Nat
      /\ done \subseteq closed /\ writers[w] \in Goroutine /\ RowsOnce(rows)
      /\ \A i \in DOMAIN rows : Past(rows[i])
  BY DEF Recording, WriterInv, RecordTypeOK, TableInv
<1> DEFINE e == writers[w].excess
           oldest == First(e)
           g == [writers[w] EXCEPT !.pc = "found", !.oldest = oldest]
<1>2. /\ writers' = [writers EXCEPT ![w] = g] /\ writers[w].pc = "counted"
      /\ UNCHANGED <<offered, sending, current, mode, callers, queue, closed, done, rows, panicked>>
  BY DEF PruneLookup, Goes
<1>3. e \in Nat
  BY <1>1 DEF Goroutine
<1>4. oldest \subseteq Record /\ oldest \subseteq {rows[i] : i \in DOMAIN rows}
  BY <1>1, <1>3, FirstShape
<1>5. DOMAIN rows = 1 .. Len(rows)
  BY <1>1
<1> DEFINE n == IF e < Len(rows) THEN e ELSE Len(rows)
<1>6. n \in 0 .. Len(rows) /\ n <= e /\ oldest = {rows[i] : i \in 1 .. n}
  BY <1>1, <1>3 DEF First
<1> HIDE DEF e, n, oldest
<1>7. \A i \in DOMAIN rows : rows[i] \in oldest <=> i <= n
  BY <1>1, <1>5, <1>6 DEF RowsOnce
<1>8. OldestFirst(rows, oldest)
  BY <1>1, <1>5, <1>6, <1>7 DEF OldestFirst
<1>9. Cardinality(Gone(oldest)) <= e
  <2>1. Gone(oldest) = 1 .. n
    BY <1>1, <1>5, <1>6, <1>7 DEF Gone
  <2>2. Cardinality(1 .. n) = n
    <3>1. n \in Int /\ 1 \in Int /\ n \in Nat
      BY <1>1, <1>6
    <3>2. Cardinality(1 .. n) = IF 1 > n THEN 0 ELSE n - 1 + 1
      BY <3>1, FS_Interval
    <3> QED
      BY <3>1, <3>2
  <2>3. Cardinality(Gone(oldest)) = n
    BY <2>1, <2>2
  <2> QED
    BY <1>6, <2>3
<1>10. \A r \in oldest : Past(r)
  BY <1>1, <1>4
<1>11. /\ g \in Goroutine /\ g.pc = "found" /\ g.oldest = oldest
       /\ g.excess = e /\ g.others = writers[w].others
  BY <1>1, <1>4 DEF Goroutine, e
<1> HIDE DEF g
<1>12. ASSUME \A r : Past(r) => Past(r)'  PROVE PruneOK(w)'
  <2>1. writers'[w] = g
    BY <1>1, <1>2
  <2>2. PruneOK(w)
    BY DEF Recording, TableInv
  <2>3. Len(rows) + writers[w].others >= MaxRecords + e
    BY <1>2, <2>2 DEF PruneOK, e
  <2> QED
    BY <1>2, <1>8, <1>9, <1>10, <1>11, <1>12, <2>1, <2>3 DEF PruneOK, Gone
<1> QED
  BY <1>1, <1>2, <1>11, <1>12, WriterMoves

(* A delete takes no row twice, and none that is not there.                *)
LEMMA WithoutFewer ==
  ASSUME NEW R, NEW table \in Seq(R), NEW S, NEW O
  PROVE  LET before == {m \in DOMAIN table : table[m] \in O}
             after  == {m \in DOMAIN Without(table, S) : Without(table, S)[m] \in O}
         IN  /\ Cardinality(after) \in Nat /\ Cardinality(before) \in Nat
             /\ Cardinality(after) <= Cardinality(before)
<1> DEFINE N == Len(table)
           rest == Without(table, S)
           k == Len(rest)
           before == {m \in DOMAIN table : table[m] \in O}
           after == {m \in DOMAIN rest : rest[m] \in O}
<1>1. PICK place : Places(table, S, rest, N, place)
  BY WithoutPlaces
<1>2. /\ rest \in Seq(R) /\ k \in Nat /\ N \in Nat /\ DOMAIN table = 1 .. N /\ DOMAIN rest = 1 .. k
      /\ IsFiniteSet(before) /\ Cardinality(before) \in Nat
  <2>1. IsFiniteSet(before) /\ Cardinality(before) \in Nat
    BY WithoutLength
  <2> QED
    BY <2>1, WithoutPlaces
<1> HIDE DEF rest, k, N
<1>3. \A i \in 1 .. k : /\ place[i] \in 1 .. N /\ rest[i] = table[place[i]]
                        /\ \A j \in 1 .. k : i < j => place[i] < place[j]
  BY <1>1 DEF Places, k
<1> DEFINE lying == [i \in after |-> place[i]]
<1>4. lying \in Injection(after, before)
  <2>1. lying \in [after -> before]
    BY <1>2, <1>3
  <2>2. ASSUME NEW i \in after, NEW j \in after, lying[i] = lying[j]  PROVE i = j
    <3>1. i \in 1 .. k /\ j \in 1 .. k /\ place[i] = place[j]
      BY <1>2, <2>2
    <3>2. ~ (i < j) /\ ~ (j < i)
      BY <1>2, <1>3, <3>1
    <3> QED
      BY <1>2, <3>1, <3>2
  <2> QED
    BY <2>1, <2>2 DEF Injection, IsInjective
<1> HIDE DEF after, before
<1>5. IsFiniteSet(after) /\ Cardinality(after) <= Cardinality(before)
  BY <1>2, <1>4, FS_Injection DEF ExistsInjection
<1>6. Cardinality(after) \in Nat
  BY <1>5, FS_CardinalityType
<1> QED
  BY <1>2, <1>5, <1>6 DEF after, before, rest

(* Those who have counted rows see them go, by their own count of others.  *)
LEMMA DeletesKeepInv ==
  ASSUME Recording, NEW S, NEW n, NEW by \in SUBSET Writer, Deletes(S, n, by),
         UNCHANGED <<offered, sending, current, mode, callers, queue, closed, done, panicked>>
  PROVE  Recording'
<1>1. /\ rows \in Seq(Record) /\ writers \in [Writer -> Goroutine] /\ done \subseteq closed
      /\ queue \in [Writer -> Seq(Record)] /\ \A w \in Writer : Len(queue[w]) <= Capacity
      /\ MaxRecords \in Nat /\ WriterInv
  BY WriterAssumption DEF Recording, WriterInv, RecordTypeOK
<1>2. /\ rows' = Without(rows, S) /\ n = Cardinality(Gone(S)) /\ n \in Nat
      /\ writers' \in [Writer -> Goroutine]
      /\ \A v \in Writer \ by :
           /\ writers'[v].pc = writers[v].pc /\ writers'[v].hand = writers[v].hand
           /\ writers'[v].excess = writers[v].excess /\ writers'[v].oldest = writers[v].oldest
           /\ writers[v].pc \in {"counted", "found"} => writers'[v].others = writers[v].others + n
      /\ \A v \in by : writers[v].pc \in {"pruning", "found"} /\ writers'[v].pc \in {"aged", "loop"}
  BY DEF Deletes
<1>3. /\ rows' \in Seq(Record)
      /\ \A i \in DOMAIN rows' : \E m \in DOMAIN rows : rows'[i] = rows[m]
      /\ RowsOnce(rows) => RowsOnce(rows')
      /\ \A O : OldestFirst(rows, O) => OldestFirst(rows', O)
  BY <1>1, <1>2, WithoutPlaces, WithoutKeeps
<1>4. Len(rows') + n = Len(rows) /\ Len(rows) \in Nat /\ Len(rows') \in Nat
  BY <1>1, <1>2, <1>3, WithoutLength DEF Gone
<1>5. WriterInv'
  <2>1. \A v \in Writer : writers'[v].pc = "unborn" => writers[v].pc = "unborn"
    BY <1>2
  <2> QED
    BY <1>1, <1>2, <1>3, <2>1, WritersOnly
<1>6. OneWay' /\ \A r : Past(r) => Past(r)'
  <2>1. OneWay
    BY DEF Recording, TableInv
  <2>2. \A v \in Writer : writers'[v].pc = "write" =>
           writers[v].pc = "write" /\ writers'[v].hand = writers[v].hand
    BY <1>2
  <2> QED
    BY <2>1, <2>2, WaysUnmoved
<1>7. RowsOnce(rows)' /\ \A i \in DOMAIN rows' : Past(rows[i])'
  <2>1. RowsOnce(rows) /\ \A m \in DOMAIN rows : Past(rows[m])
    BY DEF Recording, TableInv
  <2>2. RowsOnce(rows')
    BY <1>3, <2>1
  <2>3. ASSUME NEW i \in DOMAIN rows'  PROVE Past(rows[i])'
    <3>1. PICK m \in DOMAIN rows : rows'[i] = rows[m]
      BY <1>3
    <3>2. PICK r : r = rows[m]
      OBVIOUS
    <3>3. Past(r)'
      BY <1>6, <2>1, <3>2
    <3>4. (rows[i])' = r
      BY <3>1, <3>2
    <3> QED
      BY <3>3, <3>4
  <2> QED
    BY <2>2, <2>3 DEF RowsOnce
<1>8. ASSUME NEW v \in Writer  PROVE PruneOK(v)'
  <2>1. CASE v \in by
    BY <1>2, <2>1, NoPrune
  <2>2. CASE v \notin by
    <3>1. PruneOK(v) /\ writers[v].others \in Nat /\ writers[v].excess \in Nat
      BY <1>1 DEF Recording, TableInv, Goroutine
    <3>2. /\ writers'[v].pc = writers[v].pc
          /\ writers'[v].excess = writers[v].excess /\ writers'[v].oldest = writers[v].oldest
          /\ writers[v].pc \in {"counted", "found"} => writers'[v].others = writers[v].others + n
      BY <1>2, <2>2
    <3>3. writers'[v].pc \in {"counted", "found"} =>
            Len(rows') + writers'[v].others >= MaxRecords + writers'[v].excess
      BY <1>1, <1>2, <1>4, <3>1, <3>2 DEF PruneOK
    <3>4. ASSUME writers'[v].pc = "found"
          PROVE  /\ OldestFirst(rows', writers'[v].oldest)
                 /\ Cardinality(Gone(writers[v].oldest)') <= writers'[v].excess
                 /\ \A r \in writers'[v].oldest : Past(r)'
      <4>1. PICK O : O = writers[v].oldest
        OBVIOUS
      <4>2. OldestFirst(rows, O) /\ Cardinality(Gone(O)) <= writers[v].excess /\ \A r \in O : Past(r)
        BY <3>1, <3>2, <3>4, <4>1 DEF PruneOK
      <4>3. PICK after : after = {m \in DOMAIN Without(rows, S) : Without(rows, S)[m] \in O}
        OBVIOUS
      <4>4. Cardinality(after) \in Nat /\ Cardinality(Gone(O)) \in Nat /\ Cardinality(after) <= Cardinality(Gone(O))
        <5>1. Gone(O) = {m \in DOMAIN rows : rows[m] \in O}
          BY DEF Gone
        <5>2. PICK table \in Seq(Record) : table = rows
          BY <1>1
        <5>3. LET before == {m \in DOMAIN table : table[m] \in O}
                  left   == {m \in DOMAIN Without(table, S) : Without(table, S)[m] \in O}
              IN  /\ Cardinality(left) \in Nat /\ Cardinality(before) \in Nat
                  /\ Cardinality(left) <= Cardinality(before)
          BY WithoutFewer, ZenonT(30)
        <5> QED
          BY <4>3, <5>1, <5>2, <5>3
      <4>5. after = Gone(O)' /\ O = writers'[v].oldest
        BY <1>2, <3>2, <4>1, <4>3 DEF Gone
      <4>6. OldestFirst(rows', O) /\ \A r \in O : Past(r)'
        BY <1>3, <1>6, <4>2
      <4>7. Cardinality(after) <= writers'[v].excess
        BY <3>1, <3>2, <4>2, <4>4
      <4> QED
        BY <4>1, <4>5, <4>6, <4>7 DEF Gone
    <3> QED
      BY <3>2, <3>3, <3>4 DEF PruneOK, Gone, OldestFirst
  <2> QED
    BY <2>1, <2>2
<1>9. TableInv'
  BY <1>6, <1>7, <1>8 DEF TableInv
<1> QED
  BY <1>5, <1>9 DEF Recording

LEMMA AnyDeleteKeepsInv ==
  ASSUME Recording, DeleteRows \/ \E w \in Writer : PruneAged(w) \/ PruneDelete(w)
  PROVE  Recording'
<1>1. RecordTypeOK /\ RowsOnce(rows)
  BY DEF Recording, WriterInv, TableInv
<1>2. UNCHANGED <<offered, sending, current, mode, callers, queue, closed, done, panicked>>
  BY DEF DeleteRows, PruneAged, PruneDelete
<1>3. CASE DeleteRows
  BY <1>1, <1>2, <1>3, DeleteRowsShape, DeletesKeepInv
<1>4. ASSUME NEW w \in Writer, PruneAged(w)  PROVE Recording'
  BY <1>1, <1>2, <1>4, PruneAgedShape, DeletesKeepInv
<1>5. ASSUME NEW w \in Writer, PruneDelete(w)  PROVE Recording'
  <2>1. \E S, n : Deletes(S, n, {w})
    BY <1>1, <1>5, PruneDeleteShape
  <2> QED
    BY <1>2, <2>1, DeletesKeepInv
<1> QED
  BY <1>3, <1>4, <1>5

(* A record goes from its request to a channel, ...                        *)
LEMMA OfferKeepsInv ==
  ASSUME Recording, NEW r \in Record, Offer(r)
  PROVE  Recording'
<1>1. WriterInv' /\ OneWay /\ TableInv
  BY OfferKeeps DEF Recording, TableInv
<1>2. /\ r \notin offered /\ offered' = offered \cup {r}
      /\ \A q \in Record : q # r => sending'[q] = sending[q]
      /\ UNCHANGED <<writers, queue, rows>>
      /\ sending \in [Record -> Writer \cup {None}] /\ sending' = [sending EXCEPT ![r] = current]
      /\ offered \subseteq Record
  BY DEF Offer, Recording, WriterInv, RecordTypeOK
<1>3. \A q : Queued(q)' <=> Queued(q)
  BY <1>2 DEF Queued
<1>4. \A v \in Writer : \A q : Holds(v, q)' <=> Holds(v, q)
  BY <1>2 DEF Holds
<1>5. \A q : Past(q) => Past(q)'
  BY <1>2, <1>3, <1>4 DEF Past
<1>6. OneWay'
  BY <1>1, <1>2, <1>3, <1>4 DEF OneWay
<1>7. TableInv'
  BY <1>1, <1>2, <1>5, <1>6, TableAlone
<1> QED
  BY <1>1, <1>7 DEF Recording

LEMMA AddKeepsInv ==
  ASSUME Recording, NEW r \in Record, AddLlmRecord(r)
  PROVE  Recording'
<1>1. WriterInv' /\ OneWay /\ TableInv
  BY OfferKeeps DEF Recording, TableInv
<1>2. /\ sending[r] # None /\ sending' = [sending EXCEPT ![r] = None] /\ sending[r] \in Writer
      /\ queue \in [Writer -> Seq(Record)] /\ sending \in [Record -> Writer \cup {None}]
      /\ UNCHANGED <<offered, writers, rows>>
      /\ queue' = queue \/ queue' = [queue EXCEPT ![sending[r]] = Append(@, r)]
  BY DEF AddLlmRecord, Recording, WriterInv, RecordTypeOK
<1>3. /\ \A q \in Record : q # r => sending'[q] = sending[q]
      /\ sending'[r] = None /\ r \in offered /\ ~Queued(r)
      /\ \A v \in Writer : ~Holds(v, r)
  BY <1>1, <1>2 DEF OneWay, Holds
<1>4. \A v \in Writer : \A q : Holds(v, q)' <=> Holds(v, q)
  BY <1>2 DEF Holds
<1>5. CASE queue' = queue
  <2>1. \A q : Queued(q)' <=> Queued(q)
    BY <1>5 DEF Queued
  <2>2. \A q : Past(q) => Past(q)'
    BY <1>2, <1>3, <1>4, <2>1 DEF Past
  <2>3. OneWay'
    BY <1>1, <1>2, <1>3, <1>4, <1>5, <2>1 DEF OneWay
  <2>4. TableInv'
    BY <1>1, <1>2, <2>2, <2>3, TableAlone
  <2> QED
    BY <1>1, <2>4 DEF Recording
<1>6. CASE queue' = [queue EXCEPT ![sending[r]] = Append(@, r)]
  <2>1. PICK w \in Writer : w = sending[r]
    BY <1>2
  <2>2. PICK k \in Nat : k = Len(queue[w])
    BY <1>2
  <2>3. /\ DOMAIN queue[w] = 1 .. k /\ DOMAIN queue'[w] = 1 .. k + 1 /\ queue'[w][k + 1] = r
        /\ \A i \in 1 .. k : queue'[w][i] = queue[w][i]
    <3>1. queue'[w] = Append(queue[w], r) /\ queue[w] \in Seq(Record)
      BY <1>2, <1>6, <2>1
    <3> QED
      BY <2>2, <3>1
  <2>4. \A v \in Writer \ {w} : queue'[v] = queue[v]
    BY <1>6, <2>1
  <2>5. \A q : Queued(q)' <=> Queued(q) \/ q = r
    <3>1. ASSUME NEW q, Queued(q)  PROVE Queued(q)'
      <4>1. PICK v \in Writer : \E i \in DOMAIN queue[v] : queue[v][i] = q
        BY <3>1 DEF Queued
      <4>2. \E i \in DOMAIN queue'[v] : queue'[v][i] = q
        BY <2>2, <2>3, <2>4, <4>1
      <4> QED
        BY <4>2 DEF Queued
    <3>2. Queued(r)'
      <4>1. k + 1 \in 1 .. k + 1
        BY <2>2
      <4> QED
        BY <2>3, <4>1 DEF Queued
    <3>3. ASSUME NEW q, Queued(q)', q # r  PROVE Queued(q)
      <4>1. PICK v \in Writer : \E i \in DOMAIN queue'[v] : queue'[v][i] = q
        BY <3>3 DEF Queued
      <4>2. \E i \in DOMAIN queue[v] : queue[v][i] = q
        BY <2>2, <2>3, <2>4, <3>3, <4>1
      <4> QED
        BY <4>2 DEF Queued
    <3> QED
      BY <3>1, <3>2, <3>3
  <2>6. \A q : Past(q) => Past(q)'
    BY <1>2, <1>3, <1>4, <2>5 DEF Past
  <2>7. \A u, v \in Writer : \A i \in DOMAIN queue'[u], j \in DOMAIN queue'[v] :
          queue'[u][i] = queue'[v][j] => u = v /\ i = j
    <3> SUFFICES ASSUME NEW u \in Writer, NEW v \in Writer,
                        NEW i \in DOMAIN queue'[u], NEW j \in DOMAIN queue'[v],
                        queue'[u][i] = queue'[v][j]
                 PROVE  u = v /\ i = j
      OBVIOUS
    <3>1. ASSUME NEW x \in Writer, NEW l \in DOMAIN queue'[x]
          PROVE  \/ x = w /\ l = k + 1 /\ queue'[x][l] = r
                 \/ l \in DOMAIN queue[x] /\ queue'[x][l] = queue[x][l] /\ queue'[x][l] # r
      <4>1. CASE x = w /\ l = k + 1
        BY <2>3, <4>1
      <4>2. CASE ~ (x = w /\ l = k + 1)
        <5>1. l \in DOMAIN queue[x] /\ queue'[x][l] = queue[x][l]
          BY <2>2, <2>3, <2>4, <3>1, <4>2
        <5> QED
          BY <1>3, <5>1 DEF Queued
      <4> QED
        BY <4>1, <4>2
    <3> QED
      BY <1>1, <3>1 DEF OneWay
  <2>8. \A q \in Record : /\ sending'[q] # None => q \in offered'
                          /\ Queued(q)' => q \in offered' /\ sending'[q] = None
    BY <1>1, <1>2, <1>3, <2>5 DEF OneWay
  <2>9. \A v \in Writer : writers'[v].pc = "write" =>
          /\ writers'[v].hand \in offered' /\ sending'[writers'[v].hand] = None
          /\ ~Queued(writers[v].hand)'
          /\ \A u \in Writer : Holds(u, writers[v].hand)' => u = v
    <3> SUFFICES ASSUME NEW v \in Writer, writers[v].pc = "write"
                 PROVE  /\ writers[v].hand \in offered /\ sending'[writers[v].hand] = None
                        /\ ~Queued(writers[v].hand)'
                        /\ \A u \in Writer : Holds(u, writers[v].hand)' => u = v
      BY <1>2
    <3>1. PICK h : h = writers[v].hand
      OBVIOUS
    <3>2. /\ h \in offered /\ sending[h] = None /\ ~Queued(h) /\ h # r
          /\ \A u \in Writer : Holds(u, h) => u = v
      BY <1>1, <1>3, <3>1 DEF OneWay, Holds
    <3>3. h \in Record /\ sending'[h] = None
      BY <1>2, <1>3, <3>2 DEF Recording, WriterInv, RecordTypeOK
    <3>4. ~Queued(h)' /\ \A u \in Writer : Holds(u, h)' => u = v
      BY <1>4, <2>5, <3>2
    <3>5. h = (writers[v].hand)'
      BY <1>2, <3>1
    <3> QED
      BY <3>1, <3>2, <3>3, <3>4, <3>5
  <2>10. OneWay'
    BY <2>7, <2>8, <2>9 DEF OneWay
  <2>11. TableInv'
    BY <1>1, <1>2, <2>6, <2>10, TableAlone
  <2> QED
    BY <1>1, <2>11 DEF Recording
<1> QED
  BY <1>2, <1>5, <1>6

(* ... from there to the writer, ...                                       *)
LEMMA TakeTaskKeepsInv ==
  ASSUME Recording, NEW w \in Writer, TakeTask(w)
  PROVE  Recording'
<1>1. /\ WriterInv /\ OneWay /\ TableInv /\ rows \in Seq(Record) /\ done \subseteq closed
      /\ writers \in [Writer -> Goroutine] /\ queue \in [Writer -> Seq(Record)]
      /\ \A v \in Writer : Len(queue[v]) <= Capacity
      /\ Capacity \in Nat
  BY WriterAssumption DEF Recording, WriterInv, RecordTypeOK, TableInv
<1>2. /\ queue[w] # <<>> /\ writers[w].pc = "loop"
      /\ writers' = [writers EXCEPT ![w] = [At("write") EXCEPT !.hand = Head(queue[w])]]
      /\ queue' = [queue EXCEPT ![w] = Tail(@)]
      /\ UNCHANGED <<offered, sending, current, mode, callers, closed, done, rows, panicked>>
  BY DEF TakeTask, Goes
<1>3. PICK k \in Nat : Len(queue[w]) = k + 1
  <2>1. Len(queue[w]) \in Nat /\ Len(queue[w]) # 0
    BY <1>1, <1>2
  <2>2. Len(queue[w]) - 1 \in Nat /\ Len(queue[w]) = (Len(queue[w]) - 1) + 1
    BY <2>1
  <2> QED
    BY <2>2
<1>4. PICK h \in Record : h = Head(queue[w]) /\ h = queue[w][1]
  BY <1>1, <1>2
<1>5. /\ DOMAIN queue[w] = 1 .. k + 1 /\ DOMAIN queue'[w] = 1 .. k
      /\ \A i \in 1 .. k : queue'[w][i] = queue[w][i + 1]
      /\ queue'[w] \in Seq(Record) /\ Len(queue'[w]) = k
  <2>1. queue'[w] = Tail(queue[w]) /\ queue[w] \in Seq(Record) /\ queue[w] # <<>>
    BY <1>1, <1>2
  <2> QED
    BY <1>3, <2>1
<1>6. \A v \in Writer \ {w} : queue'[v] = queue[v]
  BY <1>1, <1>2
<1>7. queue' \in [Writer -> Seq(Record)] /\ \A v \in Writer : Len(queue'[v]) <= Capacity
  <2>1. k <= Capacity
    BY <1>1, <1>3
  <2> QED
    BY <1>1, <1>2, <1>5, <1>6, <2>1
<1>8. /\ writers' \in [Writer -> Goroutine] /\ writers'[w].pc = "write" /\ writers'[w].hand = h
      /\ \A v \in Writer \ {w} : writers'[v] = writers[v]
  BY <1>1, <1>2, <1>4, AtShape
<1>9. WriterInv'
  <2>1. \A v \in Writer : writers'[v].pc = "unborn" => writers[v].pc = "unborn"
    BY <1>8
  <2> QED
    BY <1>1, <1>2, <1>7, <1>8, <2>1, WritersOnly
<1>10. /\ Queued(h) /\ h \in offered /\ sending[h] = None /\ \A v \in Writer : ~Holds(v, h)
  <2>1. Queued(h)
    <3>1. 1 \in DOMAIN queue[w]
      BY <1>5
    <3> QED
      BY <1>4, <3>1 DEF Queued
  <2> QED
    BY <1>1, <2>1 DEF OneWay, Holds
<1>11. \A v \in Writer : \A i \in DOMAIN queue'[v] :
         \E l \in DOMAIN queue[v] :
           /\ queue'[v][i] = queue[v][l] /\ l = (IF v = w THEN i + 1 ELSE i)
           /\ queue'[v][i] # h
  <2> SUFFICES ASSUME NEW v \in Writer, NEW i \in DOMAIN queue'[v]
               PROVE  \E l \in DOMAIN queue[v] :
                        /\ queue'[v][i] = queue[v][l] /\ l = (IF v = w THEN i + 1 ELSE i)
                        /\ queue'[v][i] # h
    OBVIOUS
  <2>1. \A u \in Writer : \A l \in DOMAIN queue[u] : queue[u][l] = h => u = w /\ l = 1
    <3>1. 1 \in DOMAIN queue[w]
      BY <1>5
    <3> QED
      BY <1>1, <1>4, <3>1 DEF OneWay
  <2>2. CASE v = w
    <3>1. i \in 1 .. k /\ i + 1 \in 1 .. k + 1 /\ i + 1 # 1
      BY <1>5, <2>2
    <3> QED
      BY <1>5, <2>1, <2>2, <3>1
  <2>3. CASE v # w
    BY <1>6, <2>1, <2>3
  <2> QED
    BY <2>2, <2>3
<1>12. \A q : Queued(q)' => Queued(q) /\ q # h
  BY <1>11 DEF Queued
<1>13. \A v \in Writer : \A q : Holds(v, q)' => (Holds(v, q) /\ v # w) \/ (v = w /\ q = h)
  BY <1>8 DEF Holds
<1>14. \A q : Past(q) => Past(q)'
  BY <1>2, <1>10, <1>12, <1>13 DEF Past
<1>15. \A u, v \in Writer : \A i \in DOMAIN queue'[u], j \in DOMAIN queue'[v] :
         queue'[u][i] = queue'[v][j] => u = v /\ i = j
  <2> SUFFICES ASSUME NEW u \in Writer, NEW v \in Writer,
                      NEW i \in DOMAIN queue'[u], NEW j \in DOMAIN queue'[v],
                      queue'[u][i] = queue'[v][j]
               PROVE  u = v /\ i = j
    OBVIOUS
  <2>1. PICK l \in DOMAIN queue[u] : queue'[u][i] = queue[u][l] /\ l = (IF u = w THEN i + 1 ELSE i)
    BY <1>11
  <2>2. PICK m \in DOMAIN queue[v] : queue'[v][j] = queue[v][m] /\ m = (IF v = w THEN j + 1 ELSE j)
    BY <1>11
  <2>3. u = v /\ l = m
    <3>1. queue[u][l] = queue[v][m]
      BY <2>1, <2>2
    <3> QED
      BY <1>1, <3>1 DEF OneWay
  <2>4. CASE u = w
    <3>1. i \in 1 .. k /\ j \in 1 .. k /\ i + 1 = j + 1
      BY <1>5, <2>1, <2>2, <2>3, <2>4
    <3> QED
      BY <2>3, <3>1
  <2>5. CASE u # w
    BY <2>1, <2>2, <2>3, <2>5
  <2> QED
    BY <2>4, <2>5
<1>16. \A v \in Writer : writers'[v].pc = "write" =>
         /\ writers'[v].hand \in offered' /\ sending'[writers'[v].hand] = None
         /\ ~Queued(writers[v].hand)'
         /\ \A u \in Writer : Holds(u, writers[v].hand)' => u = v
  <2> SUFFICES ASSUME NEW v \in Writer, writers'[v].pc = "write"
               PROVE  /\ writers'[v].hand \in offered' /\ sending'[writers'[v].hand] = None
                      /\ ~Queued(writers[v].hand)'
                      /\ \A u \in Writer : Holds(u, writers[v].hand)' => u = v
    OBVIOUS
  <2>1. PICK g : g = writers'[v].hand
    OBVIOUS
  <2>2. /\ g \in offered /\ sending[g] = None /\ ~Queued(g)'
        /\ \A u \in Writer : Holds(u, g)' => u = v
    <3>1. CASE v = w
      <4>1. g = h
        BY <1>8, <2>1, <3>1
      <4> QED
        BY <1>10, <1>12, <1>13, <3>1, <4>1
    <3>2. CASE v # w
      <4>1. writers[v].pc = "write" /\ g = writers[v].hand
        BY <1>8, <2>1, <3>2
      <4>2. /\ g \in offered /\ sending[g] = None /\ ~Queued(g)
            /\ \A u \in Writer : Holds(u, g) => u = v
        BY <1>1, <4>1 DEF OneWay
      <4>3. g # h
        BY <1>10, <4>2
      <4> QED
        BY <1>12, <1>13, <4>2, <4>3
    <3> QED
      BY <3>1, <3>2
  <2> QED
    BY <1>2, <2>1, <2>2
<1>17. \A q \in Record : /\ sending'[q] # None => q \in offered'
                         /\ Queued(q)' => q \in offered' /\ sending'[q] = None
  BY <1>1, <1>2, <1>12 DEF OneWay
<1>18. OneWay'
  BY <1>15, <1>16, <1>17 DEF OneWay
<1>19. TableInv'
  <2>1. PruneOK(w)'
    BY <1>8, NoPrune
  <2>2. {w} \in SUBSET Writer /\ \A v \in {w} : PruneOK(v)'
    BY <2>1
  <2> QED
    BY <1>1, <1>2, <1>8, <1>14, <1>18, <2>2, TableStays
<1> QED
  BY <1>9, <1>19 DEF Recording

(* ... and, where the insert works, from its hand to the end of the table. *)
LEMMA WriteKeepsInv ==
  ASSUME Recording, NEW w \in Writer, Write(w)
  PROVE  Recording'
<1>1. /\ WriterInv /\ OneWay /\ TableInv /\ rows \in Seq(Record) /\ done \subseteq closed
      /\ writers \in [Writer -> Goroutine] /\ queue \in [Writer -> Seq(Record)]
      /\ offered \subseteq Record /\ MaxRecords \in Nat
      /\ \A v \in Writer : Len(queue[v]) <= Capacity
  BY WriterAssumption DEF Recording, WriterInv, RecordTypeOK, TableInv
<1>2. PICK h : h = writers[w].hand
  OBVIOUS
<1>3. /\ writers[w].pc = "write" /\ writers' = [writers EXCEPT ![w] = At("loop")]
      /\ rows' = rows \/ rows' = Append(rows, h)
      /\ UNCHANGED <<offered, sending, current, mode, callers, queue, closed, done, panicked>>
  BY <1>2 DEF Write, Goes
<1>4. /\ h \in offered /\ sending[h] = None /\ ~Queued(h) /\ h \in Record /\ Holds(w, h)
      /\ \A v \in Writer : Holds(v, h) => v = w
  BY <1>1, <1>2, <1>3 DEF OneWay, Holds
<1>5. /\ writers' \in [Writer -> Goroutine] /\ writers'[w].pc = "loop"
      /\ \A v \in Writer \ {w} : writers'[v] = writers[v]
  BY <1>1, <1>3, AtShape
<1>6. WriterInv'
  <2>1. \A v \in Writer : writers'[v].pc = "unborn" => writers[v].pc = "unborn"
    BY <1>5
  <2>2. rows' \in Seq(Record)
    <3>1. Append(rows, h) \in Seq(Record)
      BY <1>1, <1>4
    <3> QED
      BY <1>1, <1>3, <3>1
  <2> QED
    BY <1>1, <1>3, <1>5, <2>1, <2>2, WritersOnly
<1>7. OneWay' /\ \A r : Past(r) => Past(r)'
  <2>1. \A v \in Writer : writers'[v].pc = "write" =>
           writers[v].pc = "write" /\ writers'[v].hand = writers[v].hand
    BY <1>5
  <2> QED
    BY <1>1, <1>3, <2>1, WaysUnmoved
<1>8. PruneOK(w)'
  BY <1>5, NoPrune
<1>9. CASE rows' = rows
  <2>1. {w} \in SUBSET Writer /\ \A v \in {w} : PruneOK(v)'
    BY <1>8
  <2>2. TableInv'
    BY <1>1, <1>5, <1>7, <1>9, <2>1, TableStays
  <2> QED
    BY <1>6, <2>2 DEF Recording
<1>10. CASE rows' = Append(rows, h)
  <2>1. PICK k \in Nat : k = Len(rows)
    BY <1>1
  <2>2. /\ DOMAIN rows = 1 .. k /\ DOMAIN rows' = 1 .. k + 1 /\ Len(rows') = k + 1
        /\ rows'[k + 1] = h /\ \A i \in 1 .. k : rows'[i] = rows[i]
    BY <1>1, <1>10, <2>1
  <2>3. Past(h)' /\ ~Past(h)
    <3>1. ~Queued(h)'
      BY <1>3, <1>4 DEF Queued
    <3>2. \A v \in Writer : ~Holds(v, h)'
      BY <1>4, <1>5 DEF Holds
    <3> QED
      BY <1>3, <1>4, <3>1, <3>2 DEF Past
  <2>4. \A i \in 1 .. k : Past(rows[i]) /\ rows[i] # h
    BY <1>1, <2>2, <2>3 DEF TableInv
  <2>5. \A i \in 1 .. k + 1 : i \in 1 .. k \/ i = k + 1
    OBVIOUS
  <2>6. RowsOnce(rows)'
    <3>1. RowsOnce(rows)
      BY <1>1 DEF TableInv
    <3>2. \A i, j \in 1 .. k + 1 : rows'[i] = rows'[j] => i = j
      BY <2>2, <2>4, <2>5, <3>1 DEF RowsOnce
    <3> QED
      BY <2>2, <3>2 DEF RowsOnce
  <2>7. \A i \in DOMAIN rows' : Past(rows[i])'
    <3> SUFFICES ASSUME NEW i \in 1 .. k + 1  PROVE Past(rows[i])'
      BY <2>2
    <3>1. PICK r : r = rows'[i]
      OBVIOUS
    <3>2. Past(r)'
      BY <1>7, <2>2, <2>3, <2>4, <2>5, <3>1
    <3>3. (rows[i])' = r
      BY <3>1
    <3> QED
      BY <3>2, <3>3
  <2>8. ASSUME NEW v \in Writer \ {w}  PROVE PruneOK(v)'
    <3>1. PruneOK(v) /\ writers'[v] = writers[v] /\ writers[v].others \in Nat /\ writers[v].excess \in Nat
      BY <1>1, <1>5 DEF TableInv, Goroutine
    <3>2. writers'[v].pc \in {"counted", "found"} =>
            Len(rows') + writers'[v].others >= MaxRecords + writers'[v].excess
      BY <1>1, <2>1, <2>2, <3>1 DEF PruneOK
    <3>3. ASSUME writers[v].pc = "found", NEW O, O = writers[v].oldest
          PROVE  /\ OldestFirst(rows', O) /\ Gone(O)' = Gone(O)
                 /\ Cardinality(Gone(O)) <= writers[v].excess /\ \A r \in O : Past(r)'
      <4>1. /\ OldestFirst(rows, O) /\ Cardinality(Gone(O)) <= writers[v].excess
            /\ \A r \in O : Past(r)
        BY <3>1, <3>3 DEF PruneOK
      <4>2. h \notin O
        BY <2>3, <4>1
      <4>3. OldestFirst(rows', O)
        <5> SUFFICES ASSUME NEW i \in 1 .. k + 1, NEW j \in 1 .. k + 1, i < j, rows'[j] \in O
                     PROVE  rows'[i] \in O
          BY <2>2 DEF OldestFirst
        <5>1. j \in 1 .. k
          BY <2>2, <2>5, <4>2
        <5>2. i \in 1 .. k
          BY <5>1
        <5> QED
          BY <2>2, <4>1, <5>1, <5>2 DEF OldestFirst
      <4>4. Gone(O)' = Gone(O)
        <5>1. \A m \in 1 .. k + 1 : rows'[m] \in O => m \in 1 .. k
          BY <2>2, <2>5, <4>2
        <5>2. 1 .. k \subseteq 1 .. k + 1
          OBVIOUS
        <5> QED
          BY <2>2, <5>1, <5>2 DEF Gone
      <4> QED
        BY <1>7, <4>1, <4>3, <4>4
    <3>4. ASSUME writers'[v].pc = "found"
          PROVE  /\ OldestFirst(rows', writers'[v].oldest)
                 /\ Cardinality(Gone(writers[v].oldest)') <= writers'[v].excess
                 /\ \A r \in writers'[v].oldest : Past(r)'
      <4>1. PICK O : O = writers[v].oldest
        OBVIOUS
      <4>2. O = writers'[v].oldest /\ writers[v].pc = "found" /\ writers'[v].excess = writers[v].excess
        BY <3>1, <3>4, <4>1
      <4>3. /\ OldestFirst(rows', O) /\ Gone(O)' = Gone(O)
            /\ Cardinality(Gone(O)) <= writers[v].excess /\ \A r \in O : Past(r)'
        BY <3>3, <4>1, <4>2
      <4> QED
        BY <4>1, <4>2, <4>3 DEF Gone
    <3> QED
      BY <3>2, <3>4 DEF PruneOK, Gone, OldestFirst
  <2>9. TableInv'
    <3>1. \A v \in Writer : PruneOK(v)'
      BY <1>8, <2>8
    <3> QED
      BY <1>7, <2>6, <2>7, <3>1 DEF TableInv
  <2> QED
    BY <1>6, <2>9 DEF Recording
<1> QED
  BY <1>3, <1>9, <1>10

LEMMA CallerKeepsInv ==
  ASSUME Recording, NEW c \in Caller, SaveSetting(c) \/ CallerStep(c)
  PROVE  Recording'
<1>1. WriterInv' /\ WriterInv /\ TableInv /\ OneWay /\ writers \in [Writer -> Goroutine]
  BY CallerKeeps DEF Recording, WriterInv, RecordTypeOK, TableInv
<1>2. /\ UNCHANGED <<offered, sending, queue, rows>>
      /\ writers' = writers \/ \E w \in Writer : writers' = [writers EXCEPT ![w].pc = "pruning"]
  BY DEF SaveSetting, CallerStep, Stop, CloseQueue, Wait, LookAtMode, StartLlmRecordWriter, Left
<1>3. CASE writers' = writers
  <2>1. OneWay' /\ \A r : Past(r) => Past(r)'
    BY <1>1, <1>2, <1>3, WaysUnmoved
  <2>2. TableInv'
    BY <1>1, <1>2, <1>3, <2>1, TableAlone
  <2> QED
    BY <1>1, <2>2 DEF Recording
<1>4. ASSUME NEW w \in Writer, writers' = [writers EXCEPT ![w].pc = "pruning"]
      PROVE  Recording'
  <2>1. writers'[w].pc = "pruning" /\ \A v \in Writer \ {w} : writers'[v] = writers[v]
    BY <1>1, <1>4 DEF Goroutine
  <2>2. OneWay' /\ \A r : Past(r) => Past(r)'
    BY <1>1, <1>2, <2>1, WaysUnmoved
  <2>3. PruneOK(w)'
    BY <2>1, NoPrune
  <2>4. {w} \in SUBSET Writer /\ \A v \in {w} : PruneOK(v)'
    BY <2>3
  <2>5. TableInv'
    BY <1>1, <1>2, <2>1, <2>2, <2>4, TableStays
  <2> QED
    BY <1>1, <2>5 DEF Recording
<1> QED
  BY <1>2, <1>3, <1>4

LEMMA InitRecording == RecordInit => Recording
<1> SUFFICES ASSUME RecordInit  PROVE Recording
  OBVIOUS
<1>1. WriterInv
  <2>1. NoSave \in Save /\ NoSave.pc = "idle" /\ Unborn \in Goroutine
    BY DEF NoSave, Save, Unborn, Goroutine
  <2>2. <<>> \in Seq(Record) /\ 0 <= Capacity /\ Len(<<>>) = 0
    BY WriterAssumption
  <2>3. RecordTypeOK
    <3>1. \A w \in Writer : queue[w] = <<>>
      BY DEF RecordInit
    <3>2. queue \in [Writer -> Seq(Record)] /\ \A w \in Writer : Len(queue[w]) <= Capacity
      BY <2>2, <3>1 DEF RecordInit
    <3>3. rows \in Seq(Record)
      BY <2>2 DEF RecordInit
    <3> QED
      BY <2>1, <3>2, <3>3 DEF RecordInit, RecordTypeOK
  <2> QED
    BY <2>1, <2>3 DEF RecordInit, WriterInv, Held, CurrentIsOpen, ChannelsMade
<1>2. /\ \A w \in Writer : writers[w].pc = "unborn" /\ DOMAIN queue[w] = {}
      /\ DOMAIN rows = {} /\ \A r \in Record : sending[r] = None
  BY DEF RecordInit, Unborn
<1>3. OneWay
  BY <1>2 DEF OneWay, Queued
<1>4. RowsOnce(rows) /\ \A w \in Writer : PruneOK(w)
  BY <1>2 DEF RowsOnce, PruneOK
<1> QED
  BY <1>1, <1>2, <1>3, <1>4 DEF Recording, TableInv

LEMMA NextRecording == Recording /\ [RecordNext]_recordVars => Recording'
<1> SUFFICES ASSUME Recording, [RecordNext]_recordVars  PROVE Recording'
  OBVIOUS
<1>1. CASE UNCHANGED recordVars
  <2>1. UNCHANGED <<offered, sending, current, mode, callers, writers, queue, closed, done, rows, panicked>>
    BY <1>1 DEF recordVars
  <2>2. WriterInv' /\ TableInv
    BY <2>1 DEF Recording, WriterInv, RecordTypeOK, Held, CurrentIsOpen, ChannelsMade
  <2>3. OneWay' /\ \A r : Past(r) => Past(r)'
    BY <2>1, <2>2, WaysUnmoved DEF TableInv
  <2>4. TableInv'
    BY <2>1, <2>2, <2>3, TableAlone
  <2> QED
    BY <2>2, <2>4 DEF Recording
<1>2. ASSUME NEW r \in Record, Offer(r) \/ AddLlmRecord(r)  PROVE Recording'
  BY <1>2, OfferKeepsInv, AddKeepsInv
<1>3. ASSUME NEW c \in Caller, SaveSetting(c) \/ CallerStep(c)  PROVE Recording'
  BY <1>3, CallerKeepsInv
<1>4. ASSUME NEW w \in Writer,
             Loop(w) \/ TakeTask(w) \/ EndWriter(w) \/ Write(w) \/ Prune(w)
      PROVE  Recording'
  BY <1>4, LoopKeepsInv, TakeTaskKeepsInv, WriteKeepsInv, AnyDeleteKeepsInv, PruneCountKeepsInv,
     PruneLookupKeepsInv DEF Prune
<1>5. CASE DeleteRows
  BY <1>5, AnyDeleteKeepsInv
<1> QED
  BY <1>1, <1>2, <1>3, <1>4, <1>5 DEF RecordNext

(* Where the records are, and what a prune has counted and found, holds in *)
(* every state (AddLlmRecord, run, prune, DeleteLlmRecord).                *)
THEOREM RecordingHolds == RecordSpec => []Recording
<1> QED
  BY InitRecording, NextRecording, PTL DEF RecordSpec

(* What the states and the steps are (RecordTypeOK).                             *)
THEOREM RecordsTyped == RecordSpec => []RecordTypeOK
<1> QED
  BY RecordingHolds, PTL DEF Recording, WriterInv

(* Nothing is sent on a channel that was closed: whoever is about to send  *)
(* has seen the channel that is still there, and closing it takes it away  *)
(* under the lock first (StopLlmRecordWriter).                             *)
THEOREM NothingSentOnClosed == RecordSpec => []NoSendOnClosed
<1>1. Recording => NoSendOnClosed
  BY DEF Recording, WriterInv, NoSendOnClosed
<1> QED
  BY <1>1, RecordingHolds, PTL

(* A prune by number leaves the newest rows, and takes no more than are    *)
(* too many, however the page and a second writer delete beside it (prune).*)
THEOREM NewestAreLeft == RecordSpec => PruneLeavesTheNewest
<1>1. ASSUME Recording, NEW w \in Writer, PruneDelete(w)
      PROVE  /\ Len(rows') + writers[w].others >= MaxRecords
             /\ \E n \in 0 .. Len(rows) : rows' = SubSeq(rows, n + 1, Len(rows))
  <2>1. /\ rows \in Seq(Record) /\ Len(rows) \in Nat /\ MaxRecords \in Nat
        /\ writers[w].pc = "found" /\ writers[w].others \in Nat /\ writers[w].excess \in Nat
        /\ PruneOK(w)
    BY <1>1, WriterAssumption DEF Recording, WriterInv, RecordTypeOK, TableInv, Goroutine, PruneDelete
  <2>2. PICK O : O = writers[w].oldest
    OBVIOUS
  <2>3. rows' = Without(rows, O)
    BY <1>1, <2>2 DEF PruneDelete
  <2>4. /\ OldestFirst(rows, O) /\ Cardinality(Gone(O)) <= writers[w].excess
        /\ Len(rows) + writers[w].others >= MaxRecords + writers[w].excess
    BY <2>1, <2>2 DEF PruneOK
  <2>5. PICK table \in Seq(Record) : table = rows
    BY <2>1
  <2>6. /\ Cardinality(Gone(O)) \in Nat
        /\ Len(Without(table, O)) + Cardinality(Gone(O)) = Len(table)
    BY <2>5, WithoutLength DEF Gone
  <2>7. /\ Len(table) - Len(Without(table, O)) \in 0 .. Len(table)
        /\ Without(table, O) =
             SubSeq(table, (Len(table) - Len(Without(table, O))) + 1, Len(table))
    BY <2>4, <2>5, WithoutOldest
  <2>8. Without(table, O) \in Seq(Record) /\ Len(Without(table, O)) \in Nat
    <3>1. Without(table, O) \in Seq(Record)
      BY WithoutPlaces
    <3> QED
      BY <3>1
  <2>9. Len(rows') + writers[w].others >= MaxRecords
    BY <2>1, <2>3, <2>4, <2>5, <2>6, <2>8
  <2> QED
    BY <2>3, <2>5, <2>7, <2>9
<1>2. Recording /\ [RecordNext]_recordVars =>
        [\A w \in Writer :
           PruneDelete(w) =>
             /\ Len(rows') + writers[w].others >= MaxRecords
             /\ \E n \in 0 .. Len(rows) : rows' = SubSeq(rows, n + 1, Len(rows))]_recordVars
  BY <1>1
<1> QED
  BY <1>2, RecordingHolds, PTL DEF RecordSpec, PruneLeavesTheNewest

-----------------------------------------------------------------------------
(* The recorder is a best-effort log.                                      *)

Took == {r \in offered : sending[r] = None}
Pending == [w \in Writer |-> InHand(w) \o queue[w]]
logged == <<Took, Pending, closed, done, rows>>

LEMMA HandFirst ==
  ASSUME NEW R, NEW q \in Seq(R), NEW h \in R
  PROVE  /\ <<>> \o q = q
         /\ <<h>> \o q \in Seq(R) /\ <<h>> \o q # <<>>
         /\ Head(<<h>> \o q) = h /\ Tail(<<h>> \o q) = q
         /\ q # <<>> => <<Head(q)>> \o Tail(q) = q
         /\ \A r \in R : <<h>> \o Append(q, r) = Append(<<h>> \o q, r)
<1>1. Len(q) \in Nat /\ <<h>> \in Seq(R) /\ Len(<<h>>) = 1 /\ <<>> \in Seq(R) /\ Len(<<>>) = 0
  OBVIOUS
<1> DEFINE p == <<h>> \o q
<1>2. /\ p \in Seq(R) /\ Len(p) = 1 + Len(q) /\ p[1] = h
      /\ \A i \in 1 .. Len(q) : p[i + 1] = q[i]
  BY <1>1
<1>3. <<>> \o q = q
  <2>1. <<>> \o q \in Seq(R) /\ Len(<<>> \o q) = Len(q) /\ \A i \in 1 .. Len(q) : (<<>> \o q)[i] = q[i]
    BY <1>1
  <2> QED
    BY <2>1
<1> HIDE DEF p
<1>4. p # <<>> /\ Head(p) = h
  BY <1>1, <1>2
<1>5. Tail(p) = q
  <2>1. Tail(p) \in Seq(R) /\ Len(Tail(p)) = Len(q) /\ \A i \in 1 .. Len(q) : Tail(p)[i] = q[i]
    BY <1>1, <1>2, <1>4
  <2> QED
    BY <2>1
<1>6. ASSUME q # <<>>  PROVE <<Head(q)>> \o Tail(q) = q
  <2>1. PICK t \in Seq(R) : t = Tail(q) /\ Len(t) + 1 = Len(q) /\ \A i \in 1 .. Len(t) : t[i] = q[i + 1]
    <3>1. Tail(q) \in Seq(R) /\ Len(Tail(q)) = Len(q) - 1
      BY <1>6
    <3>2. Len(Tail(q)) + 1 = Len(q)
      BY <1>1, <3>1
    <3>3. \A i \in 1 .. Len(Tail(q)) : Tail(q)[i] = q[i + 1]
      BY <1>6, <3>1
    <3> QED
      BY <3>1, <3>2, <3>3
  <2>2. PICK g \in R : g = Head(q) /\ g = q[1]
    BY <1>1, <1>6
  <2> DEFINE s == <<g>> \o t
  <2>3. s \in Seq(R) /\ Len(s) = Len(q) /\ s[1] = g /\ \A i \in 1 .. Len(t) : s[i + 1] = t[i]
    BY <2>1
  <2> HIDE DEF s
  <2>4. ASSUME NEW i \in 1 .. Len(q)  PROVE s[i] = q[i]
    <3>1. CASE i = 1
      BY <2>2, <2>3, <3>1
    <3>2. CASE i # 1
      <4>1. i - 1 \in 1 .. Len(t) /\ (i - 1) + 1 = i
        BY <1>1, <2>1, <3>2
      <4>2. s[(i - 1) + 1] = t[i - 1] /\ t[i - 1] = q[(i - 1) + 1]
        BY <2>1, <2>3, <4>1
      <4> QED
        BY <4>1, <4>2
    <3> QED
      BY <3>1, <3>2
  <2>5. s = q
    BY <2>3, <2>4
  <2> QED
    BY <2>1, <2>2, <2>5 DEF s
<1>7. ASSUME NEW r \in R  PROVE <<h>> \o Append(q, r) = Append(p, r)
  <2> DEFINE a == Append(q, r)
             s == <<h>> \o a
             t == Append(p, r)
  <2>1. /\ a \in Seq(R) /\ Len(a) = Len(q) + 1 /\ a[Len(q) + 1] = r
        /\ \A i \in 1 .. Len(q) : a[i] = q[i]
    BY <1>1
  <2> HIDE DEF a
  <2>2. s \in Seq(R) /\ Len(s) = 1 + Len(a) /\ s[1] = h /\ \A i \in 1 .. Len(a) : s[i + 1] = a[i]
    BY <1>1, <2>1
  <2>3. t \in Seq(R) /\ Len(t) = Len(p) + 1 /\ t[Len(p) + 1] = r /\ \A i \in 1 .. Len(p) : t[i] = p[i]
    BY <1>2
  <2> HIDE DEF s, t
  <2>4. ASSUME NEW i \in 1 .. Len(q) + 2  PROVE s[i] = t[i]
    <3>1. CASE i = 1
      BY <1>1, <1>2, <2>2, <2>3, <3>1
    <3>2. CASE i # 1 /\ i # Len(q) + 2
      <4>1. PICK j \in 1 .. Len(q) : i = j + 1
        <5>1. i - 1 \in 1 .. Len(q) /\ i = (i - 1) + 1
          BY <1>1, <3>2
        <5> QED
          BY <5>1
      <4>2. j \in 1 .. Len(a) /\ j + 1 \in 1 .. Len(p)
        BY <1>1, <1>2, <2>1, <4>1
      <4>3. s[j + 1] = q[j] /\ t[j + 1] = q[j]
        BY <1>2, <2>1, <2>2, <2>3, <4>2
      <4> QED
        BY <4>1, <4>3
    <3>3. CASE i = Len(q) + 2
      <4>1. Len(a) \in 1 .. Len(a) /\ i = Len(a) + 1 /\ i = Len(p) + 1
        BY <1>1, <1>2, <2>1, <3>3
      <4>2. s[Len(a) + 1] = a[Len(a)] /\ a[Len(a)] = r
        BY <2>1, <2>2, <4>1
      <4> QED
        BY <2>3, <4>1, <4>2
    <3> QED
      BY <3>1, <3>2, <3>3
  <2>5. Len(s) = Len(q) + 2 /\ Len(t) = Len(q) + 2
    BY <1>1, <1>2, <2>1, <2>2, <2>3
  <2>6. s = t
    BY <2>2, <2>3, <2>4, <2>5
  <2> QED
    BY <2>6 DEF s, t, a
<1> QED
  BY <1>2, <1>3, <1>4, <1>5, <1>6, <1>7 DEF p

(* What a stream holds, by what its writer has in hand.                    *)
LEMMA PendingShape ==
  ASSUME Recording, NEW w \in Writer
  PROVE  /\ writers[w].pc # "write" => Pending[w] = queue[w]
         /\ writers[w].pc = "write" =>
              writers[w].hand \in Record /\ Pending[w] = <<writers[w].hand>> \o queue[w]
         /\ queue[w] \in Seq(Record)
<1>1. queue[w] \in Seq(Record) /\ offered \subseteq Record /\ OneWay
  BY DEF Recording, WriterInv, RecordTypeOK, TableInv
<1>2. writers[w].pc = "write" => writers[w].hand \in Record
  BY <1>1 DEF OneWay
<1>3. <<>> \o queue[w] = queue[w]
  <2>1. CASE Record = {}
    BY <1>1, <2>1
  <2>2. ASSUME NEW h \in Record  PROVE <<>> \o queue[w] = queue[w]
    BY <1>1, HandFirst
  <2> QED
    BY <2>1, <2>2
<1> QED
  BY <1>1, <1>2, <1>3 DEF Pending, InHand

LEMMA PendingSame ==
  ASSUME queue' = queue,
         \A w \in Writer : /\ writers'[w].pc = "write" <=> writers[w].pc = "write"
                           /\ writers[w].pc = "write" => writers'[w].hand = writers[w].hand
  PROVE  Pending' = Pending
<1>1. \A w \in Writer : InHand(w)' = InHand(w)
  BY DEF InHand
<1> QED
  BY <1>1 DEF Pending

LEMMA OfferLogs ==
  ASSUME Recording, NEW r \in Record, Offer(r)
  PROVE  Log!Next \/ UNCHANGED logged
<1>1. /\ r \notin offered /\ offered' = offered \cup {r} /\ sending' = [sending EXCEPT ![r] = current]
      /\ UNCHANGED <<writers, queue, closed, done, rows>>
      /\ offered \subseteq Record /\ sending \in [Record -> Writer \cup {None}]
  BY DEF Offer, Recording, WriterInv, RecordTypeOK
<1>2. Pending' = Pending
  BY <1>1, PendingSame
<1>3. \A q \in Record : sending'[q] = IF q = r THEN current ELSE sending[q]
  BY <1>1
<1>4. CASE current = None
  <2>1. r \in Record \ Took /\ Took' = Took \cup {r}
    BY <1>1, <1>3, <1>4 DEF Took
  <2>2. Log!TurnAway(r)
    BY <1>1, <1>2, <2>1 DEF Log!TurnAway, Took, Pending
  <2> QED
    BY <2>2 DEF Log!Next
<1>5. CASE current # None
  <2>1. Took' = Took
    BY <1>1, <1>3, <1>5 DEF Took
  <2> QED
    BY <1>1, <1>2, <2>1 DEF logged
<1> QED
  BY <1>4, <1>5

LEMMA AddLogs ==
  ASSUME Recording, NEW r \in Record, AddLlmRecord(r)
  PROVE  Log!Next
<1>1. PICK w \in Writer :
        /\ w = sending[r] /\ w \notin closed /\ r \in offered
        /\ sending' = [sending EXCEPT ![r] = None]
        /\ queue' = queue \/ queue' = [queue EXCEPT ![w] = Append(@, r)]
        /\ UNCHANGED <<offered, writers, closed, done, rows>>
  <2>1. sending[r] \in Writer /\ sending[r] \notin closed /\ r \in offered
    BY WriterAssumption DEF AddLlmRecord, Recording, WriterInv, RecordTypeOK, Held, CurrentIsOpen, TableInv, OneWay
  <2> QED
    BY <2>1 DEF AddLlmRecord
<1>2. sending \in [Record -> Writer \cup {None}] /\ offered \subseteq Record
      /\ queue \in [Writer -> Seq(Record)] /\ w # None
  BY WriterAssumption DEF Recording, WriterInv, RecordTypeOK
<1>3. r \in Record \ Took /\ Took' = Took \cup {r}
  BY <1>1, <1>2 DEF Took
<1>4. CASE queue' = queue
  <2>1. Pending' = Pending
    BY <1>1, <1>4, PendingSame
  <2>2. Log!TurnAway(r)
    BY <1>1, <1>3, <2>1 DEF Log!TurnAway, Took, Pending
  <2> QED
    BY <2>2 DEF Log!Next
<1>5. CASE queue' = [queue EXCEPT ![w] = Append(@, r)]
  <2>1. queue'[w] = Append(queue[w], r) /\ \A v \in Writer \ {w} : queue'[v] = queue[v]
    BY <1>2, <1>5
  <2>2. \A v \in Writer : InHand(v)' = InHand(v)
    BY <1>1 DEF InHand
  <2>3. InHand(w) \o Append(queue[w], r) = Append(InHand(w) \o queue[w], r)
    <3>1. CASE writers[w].pc = "write"
      <4>1. writers[w].hand \in Record /\ queue[w] \in Seq(Record)
        BY <3>1, PendingShape
      <4> QED
        BY <3>1, <4>1, HandFirst DEF InHand
    <3>2. CASE writers[w].pc # "write"
      <4>1. queue[w] \in Seq(Record) /\ Append(queue[w], r) \in Seq(Record)
        BY <1>2
      <4>2. <<>> \o queue[w] = queue[w] /\ <<>> \o Append(queue[w], r) = Append(queue[w], r)
        BY <4>1, HandFirst
      <4> QED
        BY <3>2, <4>2 DEF InHand
    <3> QED
      BY <3>1, <3>2
  <2>4. Pending' = [Pending EXCEPT ![w] = Append(@, r)]
    BY <2>1, <2>2, <2>3 DEF Pending
  <2>5. Log!Take(r, w)
    BY <1>1, <1>3, <2>4 DEF Log!Take, Took, Pending
  <2> QED
    BY <2>5 DEF Log!Next
<1> QED
  BY <1>1, <1>4, <1>5

LEMMA CallerLogs ==
  ASSUME Recording, NEW c \in Caller, SaveSetting(c) \/ CallerStep(c)
  PROVE  Log!Next \/ UNCHANGED logged
<1>1. /\ UNCHANGED <<offered, sending, queue, done, rows>>
      /\ \/ writers' = writers
         \/ \E w \in Writer : writers[w].pc = "unborn" /\ writers' = [writers EXCEPT ![w].pc = "pruning"]
      /\ \/ closed' = closed
         \/ callers[c].pc = "close" /\ closed' = closed \cup {callers[c].queue}
  BY DEF SaveSetting, CallerStep, Stop, CloseQueue, Wait, LookAtMode, StartLlmRecordWriter, Left
<1>2. Pending' = Pending
  <2>1. writers \in [Writer -> Goroutine]
    BY DEF Recording, WriterInv, RecordTypeOK
  <2>2. CASE writers' = writers
    BY <1>1, <2>2, PendingSame
  <2>3. ASSUME NEW w \in Writer, writers[w].pc = "unborn", writers' = [writers EXCEPT ![w].pc = "pruning"]
        PROVE  Pending' = Pending
    <3>1. writers'[w].pc = "pruning" /\ \A v \in Writer \ {w} : writers'[v] = writers[v]
      BY <2>1, <2>3 DEF Goroutine
    <3> QED
      BY <1>1, <2>3, <3>1, PendingSame
  <2> QED
    BY <1>1, <2>2, <2>3
<1>3. Took' = Took
  BY <1>1 DEF Took
<1>4. CASE closed' = closed
  BY <1>1, <1>2, <1>3, <1>4 DEF logged
<1>5. CASE callers[c].pc = "close" /\ closed' = closed \cup {callers[c].queue}
  <2>1. callers[c].queue \in Writer
    BY <1>5 DEF Recording, WriterInv, ChannelsMade
  <2>2. Log!Seal(callers[c].queue)
    BY <1>1, <1>2, <1>3, <1>5, <2>1 DEF Log!Seal, Took, Pending
  <2> QED
    BY <2>1, <2>2 DEF Log!Next
<1> QED
  BY <1>1, <1>4, <1>5

LEMMA WriterLogs ==
  ASSUME Recording, NEW w \in Writer,
         Loop(w) \/ EndWriter(w) \/ PruneFails(w) \/ PruneCount(w) \/ PruneLookup(w)
  PROVE  Log!Next \/ UNCHANGED logged
<1>1. writers \in [Writer -> Goroutine]
  BY DEF Recording, WriterInv, RecordTypeOK
<1>2. /\ UNCHANGED <<offered, sending, queue, closed, rows>> /\ writers[w].pc # "write"
      /\ \E g : g.pc # "write" /\ writers' = [writers EXCEPT ![w] = g]
  <2>1. At("pruning").pc = "pruning" /\ At("ended").pc = "ended" /\ At("loop").pc = "loop"
    BY AtShape
  <2>2. ASSUME Loop(w) \/ EndWriter(w) \/ PruneFails(w)
        PROVE  \E g : g.pc # "write" /\ writers' = [writers EXCEPT ![w] = g]
    <3>1. PICK g \in {At("pruning"), At("ended"), At("loop")} : writers' = [writers EXCEPT ![w] = g]
      BY <2>2 DEF Loop, EndWriter, PruneFails, Goes
    <3> QED
      BY <2>1, <3>1
  <2>3. ASSUME PruneCount(w)
        PROVE  \E g : g.pc # "write" /\ writers' = [writers EXCEPT ![w] = g]
    <3>1. PICK e : writers' = [writers EXCEPT ![w] = IF Len(rows) <= MaxRecords THEN At("loop")
                                                     ELSE [At("counted") EXCEPT !.excess = e]]
      BY <2>3 DEF PruneCount, Goes
    <3>2. [At("counted") EXCEPT !.excess = e].pc = "counted"
      BY DEF At, Unborn
    <3> QED
      BY <2>1, <3>1, <3>2
  <2>4. ASSUME PruneLookup(w)
        PROVE  \E g : g.pc # "write" /\ writers' = [writers EXCEPT ![w] = g]
    <3>1. PICK O : writers' = [writers EXCEPT ![w] = [writers[w] EXCEPT !.pc = "found", !.oldest = O]]
      BY <2>4 DEF PruneLookup, Goes
    <3>2. [writers[w] EXCEPT !.pc = "found", !.oldest = O].pc = "found"
      BY <1>1 DEF Goroutine
    <3> QED
      BY <3>1, <3>2
  <2>5. UNCHANGED <<offered, sending, queue, closed, rows>> /\ writers[w].pc # "write"
    BY DEF Loop, EndWriter, PruneFails, PruneCount, PruneLookup, Goes
  <2> QED
    BY <2>2, <2>3, <2>4, <2>5
<1>3. writers'[w].pc # "write" /\ \A v \in Writer \ {w} : writers'[v] = writers[v]
  BY <1>1, <1>2
<1>4. Pending' = Pending
  BY <1>2, <1>3, PendingSame
<1>5. Took' = Took
  BY <1>2 DEF Took
<1>6. CASE done' = done
  BY <1>2, <1>4, <1>5, <1>6 DEF logged
<1>7. CASE done' # done
  <2>1. /\ w \in closed /\ queue[w] = <<>> /\ done' = done \cup {w}
    BY <1>7 DEF Loop, EndWriter, PruneFails, PruneCount, PruneLookup
  <2>2. Pending[w] = <<>>
    BY <1>2, <2>1, PendingShape
  <2>3. Log!Settle(w)
    BY <1>2, <1>4, <1>5, <2>1, <2>2 DEF Log!Settle, Took, Pending
  <2> QED
    BY <2>3 DEF Log!Next
<1> QED
  BY <1>6, <1>7

LEMMA TakeTaskLogs ==
  ASSUME Recording, NEW w \in Writer, TakeTask(w)
  PROVE  UNCHANGED logged
<1>1. writers \in [Writer -> Goroutine] /\ queue \in [Writer -> Seq(Record)]
  BY DEF Recording, WriterInv, RecordTypeOK
<1>2. /\ queue[w] # <<>> /\ writers[w].pc = "loop"
      /\ writers' = [writers EXCEPT ![w] = [At("write") EXCEPT !.hand = Head(queue[w])]]
      /\ queue' = [queue EXCEPT ![w] = Tail(@)]
      /\ UNCHANGED <<offered, sending, closed, done, rows>>
  BY DEF TakeTask, Goes
<1>3. Head(queue[w]) \in Record /\ queue[w] \in Seq(Record)
  BY <1>1, <1>2
<1>4. /\ writers'[w].pc = "write" /\ writers'[w].hand = Head(queue[w]) /\ queue'[w] = Tail(queue[w])
      /\ \A v \in Writer \ {w} : writers'[v] = writers[v] /\ queue'[v] = queue[v]
  BY <1>1, <1>2, <1>3, AtShape
<1>5. InHand(w)' \o queue'[w] = InHand(w) \o queue[w]
  <2>1. <<>> \o queue[w] = queue[w] /\ <<Head(queue[w])>> \o Tail(queue[w]) = queue[w]
    BY <1>2, <1>3, HandFirst
  <2> QED
    BY <1>2, <1>4, <2>1 DEF InHand
<1>6. \A v \in Writer \ {w} : InHand(v)' = InHand(v) /\ queue'[v] = queue[v]
  BY <1>4 DEF InHand
<1>7. Pending' = Pending
  BY <1>5, <1>6 DEF Pending
<1>8. Took' = Took
  BY <1>2 DEF Took
<1> QED
  BY <1>2, <1>7, <1>8 DEF logged

LEMMA WriteLogs ==
  ASSUME Recording, NEW w \in Writer, Write(w)
  PROVE  Log!Next
<1>1. writers \in [Writer -> Goroutine] /\ queue \in [Writer -> Seq(Record)]
  BY DEF Recording, WriterInv, RecordTypeOK
<1>2. PICK h : h = writers[w].hand
  OBVIOUS
<1>3. /\ writers[w].pc = "write" /\ writers' = [writers EXCEPT ![w] = At("loop")]
      /\ rows' \in {rows, Append(rows, h)}
      /\ UNCHANGED <<offered, sending, queue, closed, done>>
  BY <1>2 DEF Write, Goes
<1>4. h \in Record /\ queue[w] \in Seq(Record) /\ Pending[w] = <<h>> \o queue[w]
  BY <1>2, <1>3, PendingShape
<1>5. Pending[w] # <<>> /\ Head(Pending[w]) = h /\ Tail(Pending[w]) = queue[w]
  BY <1>4, HandFirst
<1>6. writers'[w].pc = "loop" /\ \A v \in Writer \ {w} : writers'[v] = writers[v]
  BY <1>1, <1>3, AtShape
<1>7. InHand(w)' \o queue'[w] = queue[w]
  <2>1. <<>> \o queue[w] = queue[w]
    BY <1>4, HandFirst
  <2> QED
    BY <1>3, <1>6, <2>1 DEF InHand
<1>8. \A v \in Writer \ {w} : InHand(v)' = InHand(v) /\ queue'[v] = queue[v]
  BY <1>3, <1>6 DEF InHand
<1>9. Pending' = [Pending EXCEPT ![w] = Tail(@)]
  BY <1>5, <1>7, <1>8 DEF Pending
<1>10. Took' = Took
  BY <1>3 DEF Took
<1>11. Log!Handle(w)
  BY <1>3, <1>5, <1>9, <1>10 DEF Log!Handle, Took, Pending
<1> QED
  BY <1>11 DEF Log!Next

LEMMA DeleteLogs ==
  ASSUME Recording, DeleteRows \/ \E w \in Writer : PruneAged(w) \/ PruneDelete(w)
  PROVE  Log!Next
<1>1. RecordTypeOK /\ RowsOnce(rows) /\ rows \in Seq(Record)
  BY DEF Recording, WriterInv, TableInv, RecordTypeOK
<1>2. UNCHANGED <<offered, sending, queue, closed, done>>
  BY DEF DeleteRows, PruneAged, PruneDelete
<1>3. PICK S, n : \E by \in SUBSET Writer : Deletes(S, n, by)
  <2>1. CASE DeleteRows
    <3>1. {} \in SUBSET Writer
      OBVIOUS
    <3> QED
      BY <1>1, <2>1, <3>1, DeleteRowsShape
  <2>2. ASSUME NEW w \in Writer, PruneAged(w) \/ PruneDelete(w)
        PROVE  \E S, n : \E by \in SUBSET Writer : Deletes(S, n, by)
    <3>1. {w} \in SUBSET Writer
      OBVIOUS
    <3>2. \E S, n : Deletes(S, n, {w})
      <4>1. CASE PruneAged(w)
        BY <1>1, <4>1, PruneAgedShape
      <4>2. CASE PruneDelete(w)
        BY <1>1, <4>2, PruneDeleteShape
      <4> QED
        BY <2>2, <4>1, <4>2
    <3> QED
      BY <3>1, <3>2
  <2> QED
    BY <2>1, <2>2
<1>4. rows' = Without(rows, S)
  BY <1>3 DEF Deletes
<1>5. Pending' = Pending
  <2>1. \A w \in Writer : /\ writers'[w].pc = "write" <=> writers[w].pc = "write"
                          /\ writers[w].pc = "write" => writers'[w].hand = writers[w].hand
    BY <1>3 DEF Deletes
  <2> QED
    BY <1>2, <2>1, PendingSame
<1>6. Took' = Took
  BY <1>2 DEF Took
<1>7. \E place \in [DOMAIN rows' -> DOMAIN rows] :
        \A i \in DOMAIN rows' : /\ rows'[i] = rows[place[i]]
                                /\ \A j \in DOMAIN rows' : i < j => place[i] < place[j]
  <2>1. PICK table \in Seq(Record) : table = rows
    BY <1>1
  <2>2. PICK rest \in Seq(Record) : rest = Without(table, S)
    BY WithoutPlaces
  <2>3. PICK place : Places(table, S, rest, Len(table), place)
    BY <2>2, WithoutPlaces
  <2>4. DOMAIN table = 1 .. Len(table) /\ DOMAIN rest = 1 .. Len(rest)
    OBVIOUS
  <2>5. rows' = rest
    BY <1>4, <2>1, <2>2
  <2> QED
    BY <2>1, <2>3, <2>4, <2>5 DEF Places
<1>8. Log!Trim
  BY <1>2, <1>5, <1>6, <1>7 DEF Log!Trim, Took, Pending
<1> QED
  BY <1>8 DEF Log!Next

(* The recorder keeps what a best-effort log promises: what is taken goes  *)
(* to a stream that is not sealed, is handled once and in order, and a     *)
(* stream is settled when it is empty (llm_record.go, all of it).          *)
THEOREM TheLogIsKept == RecordSpec => KeepsTheLog
<1>1. RecordInit => Log!Init
  <2> SUFFICES ASSUME RecordInit  PROVE Log!Init
    OBVIOUS
  <2>1. Pending = [w \in Writer |-> <<>>]
    <3>1. \A w \in Writer : InHand(w) = <<>> /\ queue[w] = <<>>
      BY DEF RecordInit, InHand, Unborn
    <3>2. <<>> \o <<>> = <<>>
      OBVIOUS
    <3> QED
      BY <3>1, <3>2 DEF Pending
  <2> QED
    BY <2>1 DEF RecordInit, Log!Init, Pending
<1>2. ASSUME Recording, [RecordNext]_recordVars  PROVE Log!Next \/ UNCHANGED logged
  <2>1. CASE UNCHANGED recordVars
    BY <2>1 DEF recordVars, logged, Took, Pending, InHand
  <2>2. ASSUME NEW r \in Record, Offer(r) \/ AddLlmRecord(r)  PROVE Log!Next \/ UNCHANGED logged
    BY <1>2, <2>2, OfferLogs, AddLogs
  <2>3. ASSUME NEW c \in Caller, SaveSetting(c) \/ CallerStep(c)  PROVE Log!Next \/ UNCHANGED logged
    BY <1>2, <2>3, CallerLogs
  <2>4. ASSUME NEW w \in Writer,
               Loop(w) \/ TakeTask(w) \/ EndWriter(w) \/ Write(w) \/ Prune(w)
        PROVE  Log!Next \/ UNCHANGED logged
    BY <1>2, <2>4, WriterLogs, TakeTaskLogs, WriteLogs, DeleteLogs DEF Prune
  <2>5. CASE DeleteRows
    BY <1>2, <2>5, DeleteLogs
  <2> QED
    BY <1>2, <2>1, <2>2, <2>3, <2>4, <2>5 DEF RecordNext
<1>3. Recording /\ [RecordNext]_recordVars => [Log!Next]_(Log!vars)
  BY <1>2 DEF logged, Took, Pending, Log!vars
<1> QED
  BY <1>1, <1>3, RecordingHolds, PTL DEF RecordSpec, KeepsTheLog, Log!Spec
=============================================================================
