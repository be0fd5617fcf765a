-------------------------- MODULE GuardCacheProofs --------------------------
(***************************************************************************)
(* The compiled policy decides every tool, model and provider as the card  *)
(* says, for every catalogue, every card and every rule written by hand;   *)
(* and a call that no save overlapped is judged by the saved cards, for    *)
(* any number of agents, calls and saves.                                  *)
(***************************************************************************)
EXTENDS GuardCache, TLAPS

\* The group the s-th line of the switches belongs to.
GroupAt(s) == Groups[(s + 1) \div 2]

CoveredBy(policy, object) == \E i \in DOMAIN policy : object \in policy[i].covers

LEMMA OneBehindTheOther ==
  ASSUME NEW P \in Seq(Line), NEW Q \in Seq(Line)
  PROVE  /\ P \o Q \in Seq(Line) /\ Len(P \o Q) = Len(P) + Len(Q)
         /\ \A i \in 1 .. Len(P) : (P \o Q)[i] = P[i]
         /\ \A i \in 1 .. Len(Q) : (P \o Q)[Len(P) + i] = Q[i]
OBVIOUS

(* The first line that covers an object decides it, so of two policies one *)
(* behind the other the second is only asked about what the first does not *)
(* cover.                                                                  *)
LEMMA FirstCovers ==
  ASSUME NEW P \in Seq(Line), NEW Q \in Seq(Line), NEW object
  PROVE  /\ CoveredBy(P, object) => (Allows(P \o Q, object) <=> Allows(P, object))
         /\ ~CoveredBy(P, object) => (Allows(P \o Q, object) <=> Allows(Q, object))
         /\ CoveredBy(P \o Q, object) <=> CoveredBy(P, object) \/ CoveredBy(Q, object)
<1> DEFINE R == P \o Q
<1>1. /\ R \in Seq(Line) /\ Len(R) = Len(P) + Len(Q)
      /\ \A i \in 1 .. Len(P) : R[i] = P[i]
      /\ \A i \in 1 .. Len(Q) : R[Len(P) + i] = Q[i]
  BY OneBehindTheOther
<1>2. DOMAIN P = 1 .. Len(P) /\ DOMAIN Q = 1 .. Len(Q) /\ DOMAIN R = 1 .. Len(P) + Len(Q)
      /\ Len(P) \in Nat /\ Len(Q) \in Nat
  BY <1>1
<1>3. \A i \in DOMAIN R : \/ i \in 1 .. Len(P)
                          \/ i > Len(P) /\ i - Len(P) \in 1 .. Len(Q) /\ R[i] = Q[i - Len(P)]
  <2> SUFFICES ASSUME NEW i \in DOMAIN R, i \notin 1 .. Len(P)
               PROVE  i > Len(P) /\ i - Len(P) \in 1 .. Len(Q) /\ R[i] = Q[i - Len(P)]
    OBVIOUS
  <2>1. i > Len(P) /\ i - Len(P) \in 1 .. Len(Q) /\ i = Len(P) + (i - Len(P))
    BY <1>2
  <2> QED BY <2>1, <1>1
<1> HIDE DEF R
<1>4. CoveredBy(R, object) <=> CoveredBy(P, object) \/ CoveredBy(Q, object)
  <2>1. ASSUME NEW i \in DOMAIN Q, object \in Q[i].covers PROVE CoveredBy(R, object)
    <3>1. Len(P) + i \in DOMAIN R /\ R[Len(P) + i] = Q[i] BY <1>1, <1>2
    <3> QED BY <3>1, <2>1 DEF CoveredBy
  <2>2. CoveredBy(P, object) => CoveredBy(R, object)
    BY <1>1, <1>2 DEF CoveredBy
  <2>3. CoveredBy(R, object) => CoveredBy(P, object) \/ CoveredBy(Q, object)
    BY <1>1, <1>2, <1>3 DEF CoveredBy
  <2> QED BY <2>1, <2>2, <2>3 DEF CoveredBy
<1>5. ASSUME CoveredBy(P, object) PROVE Allows(R, object) <=> Allows(P, object)
  <2>1. PICK c \in 1 .. Len(P) : object \in P[c].covers
    BY <1>5, <1>2 DEF CoveredBy
  <2>2. ASSUME NEW i \in DOMAIN R, object \in R[i].covers, R[i].effect = "allow",
               \A j \in DOMAIN R : j < i => object \notin R[j].covers
        PROVE  Allows(P, object)
    <3>1. i \in 1 .. Len(P)
      <4> SUFFICES ASSUME i > Len(P) PROVE FALSE BY <1>3
      <4>1. c \in DOMAIN R /\ c < i /\ R[c] = P[c] BY <2>1, <1>1, <1>2
      <4> QED BY <4>1, <2>1, <2>2
    <3>2. \A j \in 1 .. Len(P) : j \in DOMAIN R /\ R[j] = P[j] BY <1>1, <1>2
    <3> QED BY <3>1, <3>2, <2>2, <1>2 DEF Allows
  <2>3. ASSUME NEW i \in DOMAIN P, object \in P[i].covers, P[i].effect = "allow",
               \A j \in DOMAIN P : j < i => object \notin P[j].covers
        PROVE  Allows(R, object)
    <3>1. i \in DOMAIN R /\ R[i] = P[i] BY <1>1, <1>2
    <3>2. \A j \in DOMAIN R : j < i => j \in DOMAIN P /\ R[j] = P[j] BY <1>1, <1>2
    <3> QED BY <3>1, <3>2, <2>3 DEF Allows
  <2> QED BY <2>2, <2>3 DEF Allows
<1>6. ASSUME ~CoveredBy(P, object) PROVE Allows(R, object) <=> Allows(Q, object)
  <2>1. ASSUME NEW i \in DOMAIN R, object \in R[i].covers, R[i].effect = "allow",
               \A j \in DOMAIN R : j < i => object \notin R[j].covers
        PROVE  Allows(Q, object)
    <3>1. i > Len(P) /\ i - Len(P) \in 1 .. Len(Q) /\ R[i] = Q[i - Len(P)]
      BY <1>1, <1>2, <1>3, <1>6, <2>1 DEF CoveredBy
    <3>2. \A j \in DOMAIN Q : j < i - Len(P) => object \notin Q[j].covers
      <4> SUFFICES ASSUME NEW j \in DOMAIN Q, j < i - Len(P) PROVE object \notin Q[j].covers
        OBVIOUS
      <4>1. Len(P) + j \in DOMAIN R /\ Len(P) + j < i /\ R[Len(P) + j] = Q[j] BY <1>1, <1>2
      <4> QED BY <4>1, <2>1
    <3> QED BY <3>1, <3>2, <2>1, <1>2 DEF Allows
  <2>2. ASSUME NEW i \in DOMAIN Q, object \in Q[i].covers, Q[i].effect = "allow",
               \A j \in DOMAIN Q : j < i => object \notin Q[j].covers
        PROVE  Allows(R, object)
    <3>1. Len(P) + i \in DOMAIN R /\ R[Len(P) + i] = Q[i] BY <1>1, <1>2
    <3>2. ASSUME NEW j \in DOMAIN R, j < Len(P) + i PROVE object \notin R[j].covers
      <4>1. CASE j \in 1 .. Len(P) BY <4>1, <1>1, <1>2, <1>6 DEF CoveredBy
      <4>2. CASE j > Len(P) /\ j - Len(P) \in 1 .. Len(Q) /\ R[j] = Q[j - Len(P)]
        <5>1. j - Len(P) < i /\ j - Len(P) \in DOMAIN Q BY <4>2, <3>2, <1>2
        <5> QED BY <5>1, <4>2, <2>2
      <4> QED BY <4>1, <4>2, <1>3
    <3> QED BY <3>1, <3>2, <2>2 DEF Allows
  <2> QED BY <2>1, <2>2 DEF Allows
<1> QED BY <1>4, <1>5, <1>6 DEF R

-----------------------------------------------------------------------------
(* The lines of the switches: two for every group, and one behind them all. *)
LEMMA LinesOfTheSwitches ==
  ASSUME NEW card, IsCard(card)
  PROVE  LET T == appendToolRules(card)
             n == Len(Groups)
         IN  /\ T \in Seq(Line) /\ Len(T) = 2 * n + 1 /\ n \in Nat /\ T[2 * n + 1] = Allow(Item)
             /\ \A s \in 1 .. 2 * n :
                  /\ (s + 1) \div 2 \in 1 .. n
                  /\ T[s] = IF s % 2 = 1 THEN Exceptions(card, GroupAt(s)) ELSE Fallback(card, GroupAt(s))
                  /\ T[s].covers \subseteq {i \in Item : GroupOf[i] = GroupAt(s)}
<1> DEFINE n == Len(Groups)
           L(s) == IF s % 2 = 1 THEN Exceptions(card, GroupAt(s)) ELSE Fallback(card, GroupAt(s))
           F == [s \in 1 .. 2 * n |-> L(s)]
           T == appendToolRules(card)
<1>1. n \in Nat /\ DOMAIN Groups = 1 .. n
  BY PolicyAssumption
<1>2. \A s \in 1 .. 2 * n : (s + 1) \div 2 \in 1 .. n /\ GroupAt(s) \in GroupNames
  <2> SUFFICES ASSUME NEW s \in 1 .. 2 * n PROVE (s + 1) \div 2 \in 1 .. n /\ GroupAt(s) \in GroupNames
    OBVIOUS
  <2>1. (s + 1) \div 2 \in 1 .. n BY <1>1
  <2> QED BY <2>1, <1>1 DEF GroupNames, GroupAt
<1>3. \A g \in GroupNames : ItemsOf(card, g) \subseteq {i \in Item : GroupOf[i] = g}
  BY PolicyAssumption DEF ItemsOf, IsCard
<1>4. \A g \in GroupNames : Exceptions(card, g) \in Line /\ Fallback(card, g) \in Line
  BY <1>3 DEF Exceptions, Fallback, Line, Allow, Deny, Object
<1>5. \A g \in GroupNames :
                           /\ Exceptions(card, g).covers \subseteq {i \in Item : GroupOf[i] = g}
                           /\ Fallback(card, g).covers \subseteq {i \in Item : GroupOf[i] = g}
  BY <1>3 DEF Exceptions, Fallback, Allow, Deny
<1>6. F \in Seq(Line) /\ Len(F) = 2 * n
  <2>1. \A s \in 1 .. 2 * n : L(s) \in Line BY <1>2, <1>4
  <2>2. 2 * n \in Nat BY <1>1
  <2> QED BY <2>1, <2>2
<1>7. /\ T \in Seq(Line) /\ Len(T) = 2 * n + 1 /\ T[2 * n + 1] = Allow(Item)
      /\ \A s \in 1 .. 2 * n : T[s] = L(s)
  <2> DEFINE Q == << Allow(Item) >>
  <2>1. Q \in Seq(Line) /\ Len(Q) = 1 /\ Q[1] = Allow(Item) BY DEF Line, Allow, Object
  <2>2. \A s \in 1 .. 2 * n : F[s] = L(s) OBVIOUS
  <2>3. T = F \o Q BY DEF appendToolRules, GroupAt
  <2> HIDE DEF F, Q, T, L
  <2>a. F \in Seq(Line) /\ Q \in Seq(Line) /\ Len(F) = 2 * n /\ Len(Q) = 1
    BY <1>6, <2>1
  <2>4. /\ F \o Q \in Seq(Line) /\ Len(F \o Q) = Len(F) + Len(Q)
        /\ \A s \in 1 .. Len(F) : (F \o Q)[s] = F[s]
        /\ \A s \in 1 .. Len(Q) : (F \o Q)[Len(F) + s] = Q[s]
    BY <2>a, OneBehindTheOther
  <2> QED BY <2>1, <2>2, <2>3, <2>4, <2>a
<1> HIDE DEF F, T
<1>8. \A s \in 1 .. 2 * n : T[s].covers \subseteq {i \in Item : GroupOf[i] = GroupAt(s)}
  BY <1>2, <1>5, <1>7
<1> QED BY <1>1, <1>2, <1>7, <1>8 DEF T

(* A switch is covered by the two lines of its group and by the last.      *)
LEMMA LinesOfAGroup ==
  ASSUME NEW card, IsCard(card), NEW item \in Item
  PROVE  LET T == appendToolRules(card)
         IN  \E k \in 1 .. Len(Groups) :
               /\ T[2 * k - 1] = Exceptions(card, GroupOf[item])
               /\ T[2 * k] = Fallback(card, GroupOf[item])
               /\ \A s \in 1 .. 2 * Len(Groups) : item \in T[s].covers => s \in {2 * k - 1, 2 * k}
<1> DEFINE n == Len(Groups)
           T == appendToolRules(card)
<1>1. n \in Nat /\ DOMAIN Groups = 1 .. n
  BY PolicyAssumption
<1>2. \A s \in 1 .. 2 * n :
                           /\ (s + 1) \div 2 \in 1 .. n
                           /\ T[s] = IF s % 2 = 1 THEN Exceptions(card, GroupAt(s)) ELSE Fallback(card, GroupAt(s))
                           /\ T[s].covers \subseteq {i \in Item : GroupOf[i] = GroupAt(s)}
  BY LinesOfTheSwitches
<1>3. PICK k \in 1 .. n : Groups[k] = GroupOf[item]
  BY PolicyAssumption, <1>1 DEF GroupNames
<1>4. T[2 * k - 1] = Exceptions(card, GroupOf[item]) /\ T[2 * k] = Fallback(card, GroupOf[item])
  <2>1. (2 * k - 1) % 2 = 1 /\ ((2 * k - 1) + 1) \div 2 = k /\ (2 * k) % 2 = 0 /\ (2 * k + 1) \div 2 = k
    BY <1>1
  <2>2. 2 * k - 1 \in 1 .. 2 * n /\ 2 * k \in 1 .. 2 * n
    BY <1>1
  <2>3. GroupAt(2 * k - 1) = Groups[k] /\ GroupAt(2 * k) = Groups[k]
    BY <2>1 DEF GroupAt
  <2> HIDE DEF T
  <2> QED BY <2>1, <2>2, <2>3, <1>2, <1>3
<1>5. ASSUME NEW s \in 1 .. 2 * n, item \in T[s].covers PROVE s \in {2 * k - 1, 2 * k}
  <2>1. GroupAt(s) = GroupOf[item] BY <1>2, <1>5
  <2>2. (s + 1) \div 2 \in 1 .. n BY <1>2
  <2>3. Groups[(s + 1) \div 2] = Groups[k] BY <2>1, <1>3 DEF GroupAt
  <2>4. \A l, m \in 1 .. n : Groups[l] = Groups[m] => l = m BY <1>1, PolicyAssumption
  <2>5. (s + 1) \div 2 = k BY <2>2, <2>3, <2>4
  <2> QED BY <2>5, <1>1
<1> QED BY <1>4, <1>5

(* The lines of the switches decide a switch as the card has it.           *)
LEMMA SwitchDecides ==
  ASSUME NEW card, IsCard(card), NEW item \in Item
  PROVE  Allows(appendToolRules(card), item) <=> SwitchedOn(card, item)
<1> DEFINE T == appendToolRules(card)
           n == Len(Groups)
           g == GroupOf[item]
<1>1. /\ T \in Seq(Line) /\ Len(T) = 2 * n + 1 /\ n \in Nat /\ T[2 * n + 1] = Allow(Item)
      /\ \E k \in 1 .. n : /\ T[2 * k - 1] = Exceptions(card, g) /\ T[2 * k] = Fallback(card, g)
                           /\ \A s \in 1 .. 2 * n : item \in T[s].covers => s \in {2 * k - 1, 2 * k}
  BY LinesOfAGroup, LinesOfTheSwitches
<1>2. PICK k \in 1 .. n : /\ T[2 * k - 1] = Exceptions(card, g) /\ T[2 * k] = Fallback(card, g)
                          /\ \A s \in 1 .. 2 * n : item \in T[s].covers => s \in {2 * k - 1, 2 * k}
  BY <1>1
<1>3. DOMAIN T = 1 .. 2 * n + 1 /\ 2 * k - 1 \in DOMAIN T /\ 2 * k \in DOMAIN T /\ 2 * n + 1 \in DOMAIN T
  BY <1>1
<1>4. item \in T[2 * n + 1].covers /\ T[2 * n + 1].effect = "allow"
  BY <1>1 DEF Allow
<1>5. \A s \in DOMAIN T : item \in T[s].covers => s \in {2 * k - 1, 2 * k, 2 * n + 1}
  <2> SUFFICES ASSUME NEW s \in DOMAIN T, item \in T[s].covers, s # 2 * n + 1
               PROVE  s \in {2 * k - 1, 2 * k}
    OBVIOUS
  <2>1. s \in 1 .. 2 * n + 1 BY <1>3
  <2>2. n \in Nat BY <1>1
  <2>3. s \in 1 .. 2 * n BY <2>1, <2>2
  <2> QED BY <2>3, <1>2
<1> HIDE DEF T
<1> SUFFICES Allows(T, item) <=> SwitchedOn(card, item)
  BY DEF T
<1>6. CASE Closed(card, g)
  <2>1. T[2 * k - 1] = Allow(ItemsOf(card, g) \ {i \in ItemsOf(card, g) : Off(card, i)})
        /\ T[2 * k] = Deny({i \in Item : GroupOf[i] = g})
    BY <1>2, <1>6 DEF Exceptions, Fallback
  <2>2. item \in T[2 * k].covers /\ T[2 * k].effect = "deny" /\ T[2 * k - 1].effect = "allow"
    BY <2>1 DEF Allow, Deny
  <2>3. item \in T[2 * k - 1].covers <=> SwitchedOn(card, item)
    BY <2>1, <1>6, PolicyAssumption DEF Allow, SwitchedOn, ItemsOf, Off, listed, IsCard
  <2>4. CASE item \in T[2 * k - 1].covers
    <3>1. \A j \in DOMAIN T : j < 2 * k - 1 => item \notin T[j].covers BY <1>5, <1>1, <1>3
    <3> QED BY <3>1, <2>2, <2>3, <2>4, <1>3 DEF Allows
  <2>5. CASE item \notin T[2 * k - 1].covers
    <3>1. \A i \in DOMAIN T : item \in T[i].covers => i = 2 * k \/ 2 * k < i BY <2>5, <1>5, <1>1, <1>3
    <3>2. ~Allows(T, item) BY <3>1, <2>2, <1>3 DEF Allows
    <3> QED BY <3>2, <2>3, <2>5
  <2> QED BY <2>4, <2>5
<1>7. CASE ~Closed(card, g)
  <2>1. T[2 * k - 1] = Deny({i \in ItemsOf(card, g) : Off(card, i)}) /\ T[2 * k] = Deny({})
    BY <1>2, <1>7 DEF Exceptions, Fallback
  <2>2. T[2 * k - 1].effect = "deny" /\ item \notin T[2 * k].covers
    BY <2>1 DEF Deny
  <2>3. item \notin T[2 * k - 1].covers <=> SwitchedOn(card, item)
    BY <2>1, <1>7, PolicyAssumption DEF Deny, SwitchedOn, ItemsOf, Off, listed, IsCard
  <2>4. CASE item \in T[2 * k - 1].covers
    <3>1. \A i \in DOMAIN T : item \in T[i].covers => i = 2 * k - 1 \/ 2 * k - 1 < i
      BY <2>2, <1>5, <1>1
    <3>2. ~Allows(T, item) BY <3>1, <2>2, <2>4, <1>3 DEF Allows
    <3> QED BY <3>2, <2>3, <2>4
  <2>5. CASE item \notin T[2 * k - 1].covers
    <3>1. ASSUME NEW j \in DOMAIN T, j < 2 * n + 1, item \in T[j].covers PROVE FALSE
      <4>1. j \in {2 * k - 1, 2 * k} BY <3>1, <1>5, <1>1, <1>3
      <4> QED BY <4>1, <3>1, <2>2, <2>5
    <3>2. Allows(T, item) BY <3>1, <1>3, <1>4 DEF Allows
    <3> QED BY <3>2, <2>3, <2>5
  <2> QED BY <2>4, <2>5
<1> QED BY <1>6, <1>7

(* The lines of the two lists come from their own names only.              *)
LEMMA LinesOfAList ==
  ASSUME NEW card, IsCard(card), NEW kind \in Kind
  PROVE  /\ appendList(card, kind) \in Seq(Line)
         /\ \A object : CoveredBy(appendList(card, kind), object) => object \in Named[kind]
         /\ \A name \in Named[kind] : Allows(appendList(card, kind), name) <=> ListAllows(card.lists[kind], name)
<1> DEFINE list == card.lists[kind]
           L == appendList(card, kind)
<1>1. list.mode \in {"all", "allow", "deny"} /\ list.covers \subseteq Named[kind]
  BY DEF IsCard
<1>2. Allow(list.covers) \in Line /\ Deny(list.covers) \in Line /\ Allow(Named[kind]) \in Line
  BY <1>1 DEF Allow, Deny, Line, Object, Kind
<1>3. CASE list.mode = "allow"
  <2>1. L = << Allow(list.covers) >> BY <1>3 DEF appendList
  <2> QED BY <2>1, <1>1, <1>2, <1>3 DEF CoveredBy, Allows, ListAllows, Allow
<1>4. CASE list.mode = "deny"
  <2>1. L = << Deny(list.covers), Allow(Named[kind]) >> BY <1>4 DEF appendList
  <2> QED BY <2>1, <1>1, <1>2, <1>4 DEF CoveredBy, Allows, ListAllows, Allow, Deny
<1>5. CASE list.mode = "all"
  <2>1. L = << Allow(Named[kind]) >> BY <1>5 DEF appendList
  <2> QED BY <2>1, <1>1, <1>2, <1>5 DEF CoveredBy, Allows, ListAllows, Allow
<1> QED BY <1>1, <1>3, <1>4, <1>5

(* The lines of the switches cover switches only.                          *)
LEMMA SwitchesOnly ==
  ASSUME NEW card, IsCard(card), NEW object, CoveredBy(appendToolRules(card), object)
  PROVE  object \in Item
<1> DEFINE T == appendToolRules(card)
           n == Len(Groups)
<1>1. /\ T \in Seq(Line) /\ Len(T) = 2 * n + 1 /\ n \in Nat /\ T[2 * n + 1].covers = Item
      /\ \A s \in 1 .. 2 * n : T[s].covers \subseteq Item
  <2>1. \A s \in 1 .. 2 * n : T[s].covers \subseteq {i \in Item : GroupOf[i] = GroupAt(s)}
    BY LinesOfTheSwitches
  <2>2. T[2 * n + 1] = Allow(Item) /\ T \in Seq(Line) /\ Len(T) = 2 * n + 1 /\ n \in Nat
    BY LinesOfTheSwitches
  <2>3. T[2 * n + 1].covers = Item BY <2>2 DEF Allow
  <2> QED BY <2>1, <2>2, <2>3
<1>2. PICK s \in DOMAIN T : object \in T[s].covers
  BY DEF CoveredBy
<1> HIDE DEF T
<1>3. s \in 1 .. 2 * n + 1 /\ n \in Nat
  BY <1>1
<1>4. s = 2 * n + 1 \/ s \in 1 .. 2 * n
  BY <1>3
<1> QED BY <1>1, <1>2, <1>4

-----------------------------------------------------------------------------
(* The rules written by hand decide what they cover, and of the rest every *)
(* switch, model and provider is decided by the lines of its own part.     *)
LEMMA OwnPartDecides ==
  ASSUME NEW card, IsCard(card), NEW object \in Object
  PROVE  LET P == PolicyRules(card)
         IN  /\ Covered(card, object) => (Allows(P, object) <=> Allows(card.rules, object))
             /\ ~Covered(card, object) =>
                  /\ object \in Item => (Allows(P, object) <=> Allows(appendToolRules(card), object))
                  /\ \A kind \in Kind : object \in Named[kind] =>
                       (Allows(P, object) <=> Allows(appendList(card, kind), object))
<1> DEFINE r == card.rules
           m == appendList(card, "model")
           p == appendList(card, "provider")
           t == appendToolRules(card)
           C(x) == CoveredBy(x, object)
           A(x) == Allows(x, object)
<1>1. r \in Seq(Line) /\ m \in Seq(Line) /\ p \in Seq(Line) /\ t \in Seq(Line)
  BY LinesOfAList, LinesOfTheSwitches DEF IsCard, Kind
<1>2. PolicyRules(card) = ((r \o m) \o p) \o t
  BY DEF PolicyRules
<1>3. /\ C(m) => object \in Named["model"]
      /\ C(p) => object \in Named["provider"]
      /\ C(t) => object \in Item
  BY LinesOfAList, SwitchesOnly DEF Kind
<1>4. Covered(card, object) <=> C(r)
  BY DEF Covered, CoveredBy
<1>5. (A(m) => C(m)) /\ (A(p) => C(p)) /\ (A(t) => C(t))
  BY DEF Allows, CoveredBy
<1>6. Named["model"] \cap Named["provider"] = {} /\ Named["model"] \cap Item = {} /\ Named["provider"] \cap Item = {}
  BY PolicyAssumption
<1> HIDE DEF r, m, p, t, C, A
<1>7. /\ r \o m \in Seq(Line) /\ (r \o m) \o p \in Seq(Line)
  BY <1>1
<1>8. /\ C(r) => (A(r \o m) <=> A(r))
      /\ ~C(r) => (A(r \o m) <=> A(m))
      /\ C(r \o m) <=> C(r) \/ C(m)
  BY <1>1, FirstCovers DEF A, C
<1>9. /\ C(r \o m) => (A((r \o m) \o p) <=> A(r \o m))
      /\ ~C(r \o m) => (A((r \o m) \o p) <=> A(p))
      /\ C((r \o m) \o p) <=> C(r \o m) \/ C(p)
  BY <1>1, <1>7, FirstCovers DEF A, C
<1>10. /\ C((r \o m) \o p) => (A(((r \o m) \o p) \o t) <=> A((r \o m) \o p))
       /\ ~C((r \o m) \o p) => (A(((r \o m) \o p) \o t) <=> A(t))
  BY <1>1, <1>7, FirstCovers DEF A, C
<1>11. C(r) => (A(PolicyRules(card)) <=> A(r))
  BY <1>2, <1>8, <1>9, <1>10
<1>12. ~C(r) /\ object \in Item => (A(PolicyRules(card)) <=> A(t))
  BY <1>2, <1>3, <1>6, <1>8, <1>9, <1>10
<1>13. ~C(r) /\ object \in Named["model"] => (A(PolicyRules(card)) <=> A(m))
  BY <1>2, <1>3, <1>5, <1>6, <1>8, <1>9, <1>10
<1>14. ~C(r) /\ object \in Named["provider"] => (A(PolicyRules(card)) <=> A(p))
  BY <1>2, <1>3, <1>5, <1>6, <1>8, <1>9, <1>10
<1> QED BY <1>4, <1>11, <1>12, <1>13, <1>14 DEF A, r, m, p, t, Kind

(* "The switches are what is stored; the policy is what is enforced"       *)
(* (permission_casbin.go): the compiled policy lets a tool through exactly *)
(* when the card does, read switch by switch.                              *)
THEOREM PolicyIsTheCard ==
  ASSUME NEW card, IsCard(card), NEW what \in Use
  PROVE  AllowUse(card, what) <=> Says(card, what)
<1>1. CASE what \in Tool
  <2> DEFINE item == SwitchOf(card, what)
  <2>1. item \in Item \cup {NoItem}
    BY <1>1, PolicyAssumption DEF SwitchOf
  <2>2. CASE item = NoItem
    BY <2>2, <1>1 DEF AllowUse, AllowTool, Says, SaysTool
  <2>3. CASE item \in Item
    <3>1. item \in Object BY <2>3 DEF Object
    <3>2. Allows(PolicyRules(card), item)
            <=> IF Covered(card, item) THEN Allows(card.rules, item) ELSE SwitchedOn(card, item)
      BY <2>3, <3>1, OwnPartDecides, SwitchDecides
    <3>3. item # NoItem BY <2>3, PolicyAssumption
    <3> QED BY <1>1, <3>2, <3>3 DEF AllowUse, AllowTool, Says, SaysTool
  <2> QED BY <2>1, <2>2, <2>3
<1>2. CASE what \notin Tool
  <2>1. PICK kind \in Kind : what \in Named[kind]
    BY <1>2 DEF Use, Kind
  <2>2. what \in Object
    BY <2>1 DEF Object, Kind
  <2>3. \A other \in Kind : what \in Named[other] => other = kind
    BY <2>1, PolicyAssumption DEF Kind
  <2>4. Allows(PolicyRules(card), what)
          <=> IF Covered(card, what) THEN Allows(card.rules, what) ELSE ListAllows(card.lists[kind], what)
    BY <2>1, <2>2, OwnPartDecides, LinesOfAList
  <2> QED BY <1>2, <2>1, <2>3, <2>4 DEF AllowUse, AllowNamed, Says, SaysNamed
<1> QED BY <1>1, <1>2

-----------------------------------------------------------------------------
(* From the card to a verdict.                                             *)

(* What is judged of a call, read off its record.                          *)
PermitsCall(row, g) ==
  row.enabled => /\ Says(row.card, g.what)
                 /\ g.hook => g.breaks \cap row.packs = {}

UnderWay == {"reading", "loading", "rereading", "calling"}

(* A save of an agent that was stored when no call was between its read of *)
(* the row and its look into a cache, and that no other has overtaken.     *)
Dropping(w, a) ==
  /\ saves[w].pc \in {"dropping", "droppingCalls"} /\ saves[w].quiet /\ Saved(w) = a

Clean(a) == a \in settled \/ \E w \in Saver : Dropping(w, a)
CardClean(a) == a \in settled \/ \E w \in Saver : Dropping(w, a) /\ saves[w].pc = "droppingCalls"

(* What was read of a clean agent's row is what is stored, ...             *)
ReadOK(g) ==
  g.pc \in {"loading", "calling"} /\ Clean(Head(g.ids)) =>
    /\ stored[Head(g.ids)].enabled
    /\ g.pc = "loading" => g.card = stored[Head(g.ids)].card
    /\ g.pc = "calling" => g.packs = stored[Head(g.ids)].packs

(* ... and so is what is cached for it.                                    *)
GuardOK(a) ==
  /\ CardClean(a) => guards[a] \in {NoGuard, stored[a].card}
  /\ a \in settled => callGuards[a] \in {NoGuard, stored[a].packs}

(* A call that nothing was saved under has passed the agents it has been   *)
(* asked about, and ends as they permit.                                   *)
Behind(g) == 1 .. (Len(g.all) - Len(g.ids))

Suffix(s, t) ==
  /\ Len(s) <= Len(t)
  /\ \A j \in 1 .. Len(s) : s[j] = t[(Len(t) - Len(s)) + j]

Permitted(g) == \A i \in DOMAIN g.all : PermitsCall(stored[g.all[i]], g)

SureOK(g) ==
  g.trust = "sure" =>
    /\ \A i \in DOMAIN g.all : g.all[i] \in settled
    /\ g.pc \in UnderWay =>
         /\ Suffix(g.ids, g.all)
         /\ \A i \in Behind(g) : PermitsCall(stored[g.all[i]], g)
    /\ g.pc \in {"rereading", "calling"} => g.hook /\ Says(stored[Head(g.ids)].card, g.what)
    /\ g.pc = "done" => /\ g.verdict = "allowed" => Permitted(g)
                        /\ g.verdict = "refused" => ~Permitted(g)

CallShaped(g) ==
  /\ g \in Call
  /\ g.pc \in UnderWay => g.ids # <<>>
  /\ g.pc = "loading" => g.card \in Card
  /\ g.pc = "calling" => g.packs # {}

CallOK(g) == CallShaped(g) /\ ReadOK(g) /\ SureOK(g)

SaveShaped(s) == s \in Save /\ (s.pc # "idle" => s.todo # <<>>)

GuardInv ==
  /\ TypeOK
  /\ \A c \in Caller : CallOK(calls[c])
  /\ \A w \in Saver : SaveShaped(saves[w])
  /\ \A a \in Agent : GuardOK(a)

-----------------------------------------------------------------------------
(* A step of a call.                                                       *)

LEMMA HeadOfSuffix ==
  ASSUME NEW S, NEW s \in Seq(S), NEW t \in Seq(S), s # <<>>
  PROVE  /\ Head(s) \in S /\ Tail(s) \in Seq(S)
         /\ Len(s) \in Nat \ {0} /\ Len(t) \in Nat /\ Len(Tail(s)) = Len(s) - 1
         /\ DOMAIN t = 1 .. Len(t)
         /\ Len(s) # 1 => Tail(s) # <<>>
         /\ Suffix(s, t) =>
              /\ (Len(t) - Len(s)) + 1 \in DOMAIN t
              /\ Head(s) = t[(Len(t) - Len(s)) + 1]
              /\ Suffix(Tail(s), t)
<1>1. /\ Head(s) \in S /\ Tail(s) \in Seq(S) /\ Len(s) \in Nat \ {0} /\ Len(t) \in Nat
      /\ Len(Tail(s)) = Len(s) - 1 /\ DOMAIN t = 1 .. Len(t) /\ Head(s) = s[1]
      /\ \A i \in 1 .. Len(s) - 1 : Tail(s)[i] = s[i + 1]
  OBVIOUS
<1>2. Len(s) # 1 => Tail(s) # <<>>
  <2>1. Len(s) # 1 => Len(Tail(s)) # 0
    BY <1>1
  <2> QED
    BY <2>1
<1>3. ASSUME Suffix(s, t)
      PROVE  /\ (Len(t) - Len(s)) + 1 \in DOMAIN t
             /\ Head(s) = t[(Len(t) - Len(s)) + 1]
             /\ Suffix(Tail(s), t)
  <2> DEFINE n == Len(t)
             k == Len(s)
             r == Tail(s)
  <2>1. n \in Nat /\ k \in Nat \ {0} /\ Len(r) = k - 1 /\ \A i \in 1 .. k - 1 : r[i] = s[i + 1]
    BY <1>1
  <2>2. k <= n /\ \A j \in 1 .. k : s[j] = t[(n - k) + j]
    BY <1>3 DEF Suffix
  <2>3. (n - k) + 1 \in DOMAIN t /\ Head(s) = t[(n - k) + 1]
    BY <1>1, <2>1, <2>2
  <2>4. ASSUME NEW j \in 1 .. k - 1  PROVE r[j] = t[(n - (k - 1)) + j]
    <3>1. j + 1 \in 1 .. k /\ (n - (k - 1)) + j = (n - k) + (j + 1)
      BY <2>1
    <3> QED
      BY <2>1, <2>2, <3>1
  <2>5. k - 1 <= n
    BY <2>1, <2>2
  <2>6. Suffix(r, t)
    BY <2>1, <2>4, <2>5 DEF Suffix
  <2> QED
    BY <2>3, <2>6
<1> QED
  BY <1>1, <1>2, <1>3

LEMMA CallFields ==
  ASSUME NEW g \in Call
  PROVE  /\ g.ids \in Seq(Agent) /\ g.all \in Seq(Agent) /\ g.hook \in BOOLEAN /\ g.what \in Use
         /\ g.breaks \in SUBSET Pack /\ g.card \in Card \cup {NoGuard} /\ g.packs \in SUBSET Pack
         /\ g.pc \in {"idle", "reading", "loading", "rereading", "calling", "done"}
         /\ g.trust \in {"none", "same", "sure"}
         /\ g.verdict \in {"none", "allowed", "refused", "failed"}
BY DEF Call

LEMMA RowFields ==
  ASSUME NEW row \in Permission
  PROVE  row.enabled \in BOOLEAN /\ row.card \in Card /\ row.packs \in SUBSET Pack
BY DEF Permission

(* The same call, further on.                                              *)
SameCall(g, h) ==
  /\ g.all = h.all /\ g.hook = h.hook /\ g.what = h.what /\ g.breaks = h.breaks
  /\ g.trust = h.trust

LEMMA SamePermits ==
  ASSUME NEW g, NEW h, SameCall(g, h)
  PROVE  (\A row : PermitsCall(row, g) <=> PermitsCall(row, h)) /\ (Permitted(g) <=> Permitted(h))
<1>1. \A row : PermitsCall(row, g) <=> PermitsCall(row, h)
  BY DEF SameCall, PermitsCall
<1> QED
  BY <1>1 DEF SameCall, Permitted

Ended(h, verdict) ==
  [h EXCEPT !.pc = "done", !.verdict = verdict, !.ids = <<>>, !.card = NoGuard, !.packs = {}]

LEMMA EndedOK ==
  ASSUME NEW h, CallOK(h), NEW verdict \in {"allowed", "refused", "failed"},
         h.trust = "sure" => /\ verdict = "allowed" => Permitted(h)
                             /\ verdict = "refused" => ~Permitted(h)
  PROVE  CallOK(Ended(h, verdict))
<1> DEFINE g == Ended(h, verdict)
<1>1. h \in Call /\ SureOK(h)
  BY DEF CallOK, CallShaped
<1>2. g \in Call /\ g.pc = "done" /\ g.verdict = verdict /\ SameCall(g, h)
  <2>1. <<>> \in Seq(Agent)
    OBVIOUS
  <2> QED
    BY <1>1, <2>1 DEF Call, Ended, SameCall
<1> HIDE DEF g
<1>3. Permitted(g) <=> Permitted(h)
  BY <1>2, SamePermits
<1>4. SureOK(g)
  BY <1>1, <1>2, <1>3 DEF SureOK, SameCall, UnderWay
<1>5. CallShaped(g) /\ ReadOK(g)
  BY <1>2 DEF CallShaped, ReadOK, UnderWay
<1> QED
  BY <1>4, <1>5 DEF CallOK, g

Onward(h) ==
  [h EXCEPT !.pc = "reading", !.ids = Tail(@), !.card = NoGuard, !.packs = {}]

LEMMA PassedOK ==
  ASSUME NEW h, CallOK(h), h.pc \in UnderWay,
         h.trust = "sure" => PermitsCall(stored[Head(h.ids)], h)
  PROVE  CallOK(IF Len(h.ids) = 1 THEN Ended(h, "allowed") ELSE Onward(h))
<1>1. /\ h \in Call /\ SureOK(h) /\ h.ids # <<>> /\ h.ids \in Seq(Agent) /\ h.all \in Seq(Agent)
  BY CallFields DEF CallOK, CallShaped
<1> DEFINE s == h.ids
           t == h.all
           n == Len(t)
           k == Len(s)
<1>2. /\ Head(s) \in Agent /\ Tail(s) \in Seq(Agent)
      /\ k \in Nat \ {0} /\ n \in Nat /\ Len(Tail(s)) = k - 1
      /\ DOMAIN t = 1 .. n
      /\ k # 1 => Tail(s) # <<>>
      /\ Suffix(s, t) =>
           /\ (n - k) + 1 \in DOMAIN t
           /\ Head(s) = t[(n - k) + 1]
           /\ Suffix(Tail(s), t)
  BY <1>1, HeadOfSuffix
<1>3. ASSUME h.trust = "sure"
      PROVE  /\ Suffix(s, t)
             /\ \A i \in 1 .. (n - (k - 1)) : PermitsCall(stored[t[i]], h)
  <2>1. Suffix(s, t) /\ \A i \in 1 .. (n - k) : PermitsCall(stored[t[i]], h)
    BY <1>1, <1>3 DEF SureOK, Behind
  <2>2. ASSUME NEW i \in 1 .. (n - (k - 1))  PROVE i \in 1 .. (n - k) \/ i = (n - k) + 1
    BY <1>2
  <2> QED
    BY <1>2, <1>3, <2>1, <2>2
<1>4. CASE k = 1
  <2>1. h.trust = "sure" => Permitted(h)
    <3>1. n - (k - 1) = n
      BY <1>2, <1>4
    <3> QED
      BY <1>2, <1>3, <3>1 DEF Permitted
  <2>2. CallOK(Ended(h, "allowed"))
    BY <2>1, EndedOK
  <2> QED
    BY <1>4, <2>2
<1>5. CASE k # 1
  <2> DEFINE g == Onward(h)
  <2>1. g \in Call /\ g.pc = "reading" /\ g.ids = Tail(s) /\ SameCall(g, h)
    BY <1>1, <1>2 DEF Call, Onward, SameCall
  <2> HIDE DEF g
  <2>2. CallShaped(g) /\ ReadOK(g)
    BY <1>2, <1>5, <2>1 DEF CallShaped, ReadOK, UnderWay
  <2>3. ASSUME g.trust = "sure"  PROVE Suffix(g.ids, g.all) /\ \A i \in Behind(g) : PermitsCall(stored[g.all[i]], g)
    <3>1. h.trust = "sure" /\ g.all = t
      BY <2>1, <2>3 DEF SameCall
    <3>2. Behind(g) = 1 .. (n - (k - 1))
      BY <1>2, <2>1, <3>1 DEF Behind
    <3>3. \A i \in Behind(g) : PermitsCall(stored[g.all[i]], h)
      BY <1>3, <3>1, <3>2
    <3> QED
      BY <1>2, <1>3, <2>1, <3>1, <3>3, SamePermits
  <2>4. SureOK(g)
    BY <1>1, <2>1, <2>3 DEF SureOK, SameCall
  <2>5. CallOK(g)
    BY <2>2, <2>4 DEF CallOK
  <2> QED
    BY <1>5, <2>5 DEF g
<1> QED
  BY <1>4, <1>5

(* What is read of the rows, the caches and the saves stays as it is.      *)
LEMMA RowsUnmoved ==
  ASSUME UNCHANGED <<stored, saves, settled>>
  PROVE  /\ \A g : CallOK(g)' <=> CallOK(g)
         /\ \A a : CardClean(a)' <=> CardClean(a)
<1>1. \A a : (Clean(a)' <=> Clean(a)) /\ (CardClean(a)' <=> CardClean(a))
  BY DEF Clean, CardClean, Dropping, Saved
<1>2. \A g : ReadOK(g)' <=> ReadOK(g)
  BY <1>1 DEF ReadOK
<1>3. \A g : SureOK(g)' <=> SureOK(g)
  BY DEF SureOK, Permitted
<1> QED
  BY <1>1, <1>2, <1>3 DEF CallOK

LEMMA CallMoves ==
  ASSUME GuardInv, NEW c \in Caller, NEW g, CallOK(g), Judges(c, g),
         UNCHANGED <<stored, saves, settled>>,
         guards' \in [Agent -> Card \cup {NoGuard}],
         callGuards' \in [Agent -> ((SUBSET Pack) \ {{}}) \cup {NoGuard}],
         \A a \in Agent : GuardOK(a)'
  PROVE  GuardInv'
<1>1. calls \in [Caller -> Call] /\ g \in Call
  BY DEF GuardInv, TypeOK, CallOK, CallShaped
<1>2. calls' \in [Caller -> Call] /\ calls'[c] = g /\ \A d \in Caller \ {c} : calls'[d] = calls[d]
  BY <1>1 DEF Judges
<1>3. \A d \in Caller : CallOK(calls[d])'
  <2> SUFFICES ASSUME NEW d \in Caller  PROVE CallOK(calls[d])'
    OBVIOUS
  <2>1. PICK h : h = calls'[d]
    OBVIOUS
  <2>2. CallOK(h)
    BY <1>2, <2>1 DEF GuardInv
  <2>3. CallOK(h)'
    BY <2>2, RowsUnmoved
  <2> QED
    BY <2>1, <2>3
<1>4. TypeOK'
  BY <1>2 DEF GuardInv, TypeOK
<1>5. \A w \in Saver : SaveShaped(saves[w])'
  BY DEF GuardInv, SaveShaped
<1> QED
  BY <1>3, <1>4, <1>5 DEF GuardInv

LEMMA GuardsUnmoved ==
  ASSUME GuardInv, UNCHANGED <<stored, saves, settled, guards, callGuards>>
  PROVE  /\ guards' \in [Agent -> Card \cup {NoGuard}]
         /\ callGuards' \in [Agent -> ((SUBSET Pack) \ {{}}) \cup {NoGuard}]
         /\ \A a \in Agent : GuardOK(a)'
<1>1. \A a : CardClean(a)' <=> CardClean(a)
  BY RowsUnmoved
<1> QED
  BY <1>1 DEF GuardInv, TypeOK, GuardOK

(* Who is asked about, and what is stored of it.                           *)
LEMMA AskedShape ==
  ASSUME GuardInv, NEW c \in Caller, calls[c].pc \in UnderWay
  PROVE  /\ calls[c] \in Call /\ CallOK(calls[c])
         /\ AskedAbout(c) = Head(calls[c].ids) /\ AskedAbout(c) \in Agent
         /\ stored[AskedAbout(c)] \in Permission
         /\ calls[c].trust = "sure" => AskedAbout(c) \in settled
<1>1. calls[c] \in Call /\ CallOK(calls[c]) /\ stored \in [Agent -> Permission]
  BY DEF GuardInv, TypeOK
<1>2. calls[c].ids # <<>> /\ calls[c].ids \in Seq(Agent) /\ calls[c].all \in Seq(Agent) /\ SureOK(calls[c])
  BY <1>1, CallFields DEF CallOK, CallShaped
<1>3. Head(calls[c].ids) \in Agent
  BY <1>2, HeadOfSuffix
<1>4. ASSUME calls[c].trust = "sure"  PROVE Head(calls[c].ids) \in settled
  <2>1. Suffix(calls[c].ids, calls[c].all) /\ \A i \in DOMAIN calls[c].all : calls[c].all[i] \in settled
    BY <1>2, <1>4 DEF SureOK
  <2> QED
    BY <1>2, <2>1, HeadOfSuffix
<1> QED
  BY <1>1, <1>3, <1>4 DEF AskedAbout

LEMMA EndIs ==
  ASSUME NEW c, NEW verdict
  PROVE  End(c, verdict) <=> Judges(c, Ended(calls[c], verdict))
BY DEF End, Ended

LEMMA PassedIs ==
  ASSUME NEW c
  PROVE  Passed(c) => Judges(c, IF Len(calls[c].ids) = 1 THEN Ended(calls[c], "allowed") ELSE Onward(calls[c]))
BY DEF Passed, End, Ended, Onward

LEMMA AskKeepsInv ==
  ASSUME GuardInv, NEW c \in Caller, NEW ids \in Seq(Agent), ids # <<>>, NEW hook \in BOOLEAN,
         NEW what \in Use, NEW breaks \in SUBSET Pack, Ask(c, ids, hook, what, breaks)
  PROVE  GuardInv'
<1> DEFINE trust == IF \A i \in DOMAIN ids : ids[i] \in settled THEN "sure" ELSE "same"
           g == [pc |-> "reading", ids |-> ids, all |-> ids, hook |-> hook, what |-> what,
                 breaks |-> breaks, card |-> NoGuard, packs |-> {}, verdict |-> "none",
                 trust |-> trust]
<1>1. Judges(c, g) /\ UNCHANGED <<stored, guards, callGuards, saves, settled>>
  BY DEF Ask
<1>2. /\ g \in Call /\ g.pc = "reading" /\ g.ids = ids /\ g.all = ids
      /\ g.trust = "sure" => \A i \in DOMAIN ids : ids[i] \in settled
  <2>1. trust \in {"same", "sure"} /\ (trust = "sure" => \A i \in DOMAIN ids : ids[i] \in settled)
    OBVIOUS
  <2> HIDE DEF trust
  <2> QED
    BY <2>1 DEF Call
<1> HIDE DEF g
<1>3. Suffix(ids, ids) /\ Behind(g) = {}
  <2>1. Len(ids) \in Nat
    OBVIOUS
  <2>2. \A j \in 1 .. Len(ids) : (Len(ids) - Len(ids)) + j = j
    BY <2>1
  <2>3. 1 .. (Len(ids) - Len(ids)) = {}
    BY <2>1
  <2> QED
    BY <1>2, <2>1, <2>2, <2>3 DEF Suffix, Behind
<1>4. CallOK(g)
  BY <1>2, <1>3 DEF CallOK, CallShaped, ReadOK, SureOK, UnderWay
<1> QED
  BY <1>1, <1>4, CallMoves, GuardsUnmoved

LEMMA ReadKeepsInv ==
  ASSUME GuardInv, NEW c \in Caller, ReadPermission(c)
  PROVE  GuardInv'
<1>1. PICK h : h = calls[c]
  OBVIOUS
<1>2. PICK a : a = AskedAbout(c)
  OBVIOUS
<1>3. h.pc = "reading" /\ UNCHANGED <<stored, guards, callGuards, saves, settled>>
  BY <1>1 DEF ReadPermission
<1>4. h \in Call /\ CallOK(h) /\ a = Head(h.ids) /\ a \in Agent /\ stored[a] \in Permission
  BY <1>1, <1>2, <1>3, AskedShape DEF UnderWay
<1>5. CASE ~stored[a].enabled
  <2>1. PermitsCall(stored[a], h)
    BY <1>5 DEF PermitsCall
  <2>2. CallOK(IF Len(h.ids) = 1 THEN Ended(h, "allowed") ELSE Onward(h))
    BY <1>3, <1>4, <2>1, PassedOK DEF UnderWay
  <2>3. Passed(c)
    BY <1>2, <1>5 DEF ReadPermission
  <2> QED
    BY <1>1, <1>3, <2>2, <2>3, PassedIs, CallMoves, GuardsUnmoved
<1>6. CASE stored[a].enabled
  <2> DEFINE g == [h EXCEPT !.pc = "loading", !.card = stored[a].card]
  <2>1. Judges(c, g)
    BY <1>1, <1>2, <1>6 DEF ReadPermission
  <2>2. /\ g \in Call /\ g.pc = "loading" /\ g.card = stored[a].card /\ g.card \in Card
        /\ g.ids = h.ids /\ SameCall(g, h)
    <3>1. stored[a].card \in Card
      BY <1>4, RowFields
    <3> QED
      BY <1>4, <3>1 DEF Call, SameCall
  <2> HIDE DEF g
  <2>3. CallShaped(g)
    BY <1>3, <1>4, <2>2 DEF CallOK, CallShaped, UnderWay
  <2>4. ReadOK(g)
    BY <1>4, <1>6, <2>2 DEF ReadOK
  <2>5. SureOK(g)
    <3>1. \A row : PermitsCall(row, g) <=> PermitsCall(row, h)
      BY <2>2, SamePermits
    <3>2. SureOK(h) /\ Behind(g) = Behind(h)
      BY <1>4, <2>2 DEF CallOK, Behind, SameCall
    <3> QED
      BY <1>3, <2>2, <3>1, <3>2 DEF SureOK, SameCall, UnderWay
  <2>6. CallOK(g)
    BY <2>3, <2>4, <2>5 DEF CallOK
  <2> QED
    BY <1>3, <2>1, <2>6, CallMoves, GuardsUnmoved
<1> QED
  BY <1>5, <1>6

(* The guard of a clean agent is of the stored card.                       *)
LEMMA LoadKeepsInv ==
  ASSUME GuardInv, NEW c \in Caller, LoadAgentGuard(c)
  PROVE  GuardInv'
<1>1. PICK h : h = calls[c]
  OBVIOUS
<1>2. PICK a : a = AskedAbout(c)
  OBVIOUS
<1>3. h.pc = "loading" /\ UNCHANGED <<stored, callGuards, saves, settled>>
  BY <1>1 DEF LoadAgentGuard
<1>4. /\ h \in Call /\ CallOK(h) /\ a = Head(h.ids) /\ a \in Agent /\ stored[a] \in Permission
      /\ h.trust = "sure" => a \in settled
  BY <1>1, <1>2, <1>3, AskedShape DEF UnderWay
<1>5. PICK guard : guard = IF guards[a] # NoGuard THEN guards[a] ELSE h.card
  OBVIOUS
<1>6. guards \in [Agent -> Card \cup {NoGuard}] /\ h.card \in Card /\ guard \in Card /\ IsCard(guard)
      /\ h.what \in Use
  <2>1. guards \in [Agent -> Card \cup {NoGuard}]
    BY DEF GuardInv, TypeOK
  <2>2. h.card \in Card
    BY <1>3, <1>4 DEF CallOK, CallShaped
  <2>3. guard \in Card
    BY <1>4, <1>5, <2>1, <2>2
  <2> QED
    BY <1>4, <2>1, <2>2, <2>3, GuardAssumption, CallFields
<1>7. /\ guards' = [guards EXCEPT ![a] = guard]
      /\ \/ ~AllowUse(guard, h.what) /\ End(c, "refused")
         \/ AllowUse(guard, h.what) /\ h.hook /\ Judges(c, [h EXCEPT !.pc = "rereading", !.card = NoGuard])
         \/ AllowUse(guard, h.what) /\ ~h.hook /\ Passed(c)
  BY <1>1, <1>2, <1>5 DEF LoadAgentGuard
<1>8. Clean(a) => stored[a].enabled /\ h.card = stored[a].card
  BY <1>3, <1>4 DEF CallOK, ReadOK
<1>9. CardClean(a) => guard = stored[a].card
  <2>1. CardClean(a) => Clean(a) /\ guards[a] \in {NoGuard, stored[a].card}
    BY <1>4 DEF CardClean, Clean, GuardInv, GuardOK
  <2> QED
    BY <1>5, <1>8, <2>1
<1>10. /\ guards' \in [Agent -> Card \cup {NoGuard}]
       /\ callGuards' \in [Agent -> ((SUBSET Pack) \ {{}}) \cup {NoGuard}]
       /\ \A b \in Agent : GuardOK(b)'
  <2>1. \A b : CardClean(b)' <=> CardClean(b)
    BY <1>3, RowsUnmoved
  <2>2. guards' \in [Agent -> Card \cup {NoGuard}] /\ \A b \in Agent : guards'[b] = IF b = a THEN guard ELSE guards[b]
    BY <1>4, <1>6, <1>7
  <2>3. \A b \in Agent : GuardOK(b)'
    BY <1>3, <1>9, <2>1, <2>2 DEF GuardInv, GuardOK
  <2> QED
    BY <1>3, <2>2, <2>3 DEF GuardInv, TypeOK
<1>11. h.trust = "sure" => /\ stored[a].enabled
                           /\ AllowUse(guard, h.what) <=> Says(stored[a].card, h.what)
  <2>1. AllowUse(guard, h.what) <=> Says(guard, h.what)
    BY <1>6, PolicyIsTheCard
  <2>2. a \in settled => Clean(a) /\ CardClean(a)
    BY DEF Clean, CardClean
  <2> QED
    BY <1>4, <1>8, <1>9, <2>1, <2>2
<1>12. CASE ~AllowUse(guard, h.what) /\ End(c, "refused")
  <2>1. h.trust = "sure" => ~Permitted(h)
    <3> SUFFICES ASSUME h.trust = "sure", Permitted(h)  PROVE FALSE
      OBVIOUS
    <3>1. ~PermitsCall(stored[a], h)
      BY <1>11, <1>12 DEF PermitsCall
    <3>2. Suffix(h.ids, h.all) /\ h.ids # <<>> /\ h.ids \in Seq(Agent) /\ h.all \in Seq(Agent)
      BY <1>3, <1>4, CallFields DEF CallOK, SureOK, CallShaped, UnderWay
    <3>3. \E i \in DOMAIN h.all : a = h.all[i]
      BY <1>4, <3>2, HeadOfSuffix
    <3> QED
      BY <3>1, <3>3 DEF Permitted
  <2>2. CallOK(Ended(h, "refused"))
    BY <1>4, <2>1, EndedOK
  <2>3. Judges(c, Ended(h, "refused"))
    BY <1>1, <1>12, EndIs
  <2> QED
    BY <1>3, <1>10, <2>2, <2>3, CallMoves
<1>13. CASE AllowUse(guard, h.what) /\ ~h.hook /\ Passed(c)
  <2>1. h.trust = "sure" => PermitsCall(stored[a], h)
    BY <1>11, <1>13 DEF PermitsCall
  <2>2. CallOK(IF Len(h.ids) = 1 THEN Ended(h, "allowed") ELSE Onward(h))
    BY <1>3, <1>4, <2>1, PassedOK DEF UnderWay
  <2>3. Judges(c, IF Len(h.ids) = 1 THEN Ended(h, "allowed") ELSE Onward(h))
    BY <1>1, <1>13, PassedIs
  <2> QED
    BY <1>3, <1>10, <2>2, <2>3, CallMoves
<1>14. CASE AllowUse(guard, h.what) /\ h.hook /\ Judges(c, [h EXCEPT !.pc = "rereading", !.card = NoGuard])
  <2> DEFINE g == [h EXCEPT !.pc = "rereading", !.card = NoGuard]
  <2>1. g \in Call /\ g.pc = "rereading" /\ g.ids = h.ids /\ SameCall(g, h)
    BY <1>4 DEF Call, SameCall
  <2>2. Judges(c, g)
    BY <1>14
  <2> HIDE DEF g
  <2>3. CallShaped(g) /\ ReadOK(g)
    BY <1>3, <1>4, <2>1 DEF CallOK, CallShaped, ReadOK, UnderWay
  <2>4. SureOK(g)
    <3>1. \A row : PermitsCall(row, g) <=> PermitsCall(row, h)
      BY <2>1, SamePermits
    <3>2. SureOK(h) /\ Behind(g) = Behind(h)
      BY <1>4, <2>1 DEF CallOK, Behind, SameCall
    <3>3. g.trust = "sure" => g.hook /\ Says(stored[Head(g.ids)].card, g.what)
      BY <1>4, <1>11, <1>14, <2>1 DEF SameCall
    <3> QED
      BY <1>3, <2>1, <3>1, <3>2, <3>3 DEF SureOK, SameCall, UnderWay
  <2>5. CallOK(g)
    BY <2>3, <2>4 DEF CallOK
  <2> QED
    BY <1>3, <1>10, <2>2, <2>5, CallMoves
<1> QED
  BY <1>7, <1>12, <1>13, <1>14

LEMMA RereadKeepsInv ==
  ASSUME GuardInv, NEW c \in Caller, RereadPermission(c)
  PROVE  GuardInv'
<1>1. PICK h : h = calls[c]
  OBVIOUS
<1>2. PICK a : a = AskedAbout(c)
  OBVIOUS
<1>3. h.pc = "rereading" /\ UNCHANGED <<stored, guards, callGuards, saves, settled>>
  BY <1>1 DEF RereadPermission
<1>4. h \in Call /\ CallOK(h) /\ a = Head(h.ids) /\ a \in Agent /\ stored[a] \in Permission
  BY <1>1, <1>2, <1>3, AskedShape DEF UnderWay
<1>5. h.trust = "sure" => h.hook /\ Says(stored[a].card, h.what)
  BY <1>3, <1>4 DEF CallOK, SureOK
<1>6. CASE ~(stored[a].enabled /\ stored[a].packs # {})
  <2>1. h.trust = "sure" => PermitsCall(stored[a], h)
    BY <1>5, <1>6 DEF PermitsCall
  <2>2. CallOK(IF Len(h.ids) = 1 THEN Ended(h, "allowed") ELSE Onward(h))
    BY <1>3, <1>4, <2>1, PassedOK DEF UnderWay
  <2>3. Passed(c)
    BY <1>2, <1>6 DEF RereadPermission
  <2> QED
    BY <1>1, <1>3, <2>2, <2>3, PassedIs, CallMoves, GuardsUnmoved
<1>7. CASE stored[a].enabled /\ stored[a].packs # {}
  <2> DEFINE g == [h EXCEPT !.pc = "calling", !.packs = stored[a].packs]
  <2>1. Judges(c, g)
    BY <1>1, <1>2, <1>7 DEF RereadPermission
  <2>2. /\ g \in Call /\ g.pc = "calling" /\ g.packs = stored[a].packs
        /\ g.ids = h.ids /\ SameCall(g, h)
    <3>1. stored[a].packs \in SUBSET Pack
      BY <1>4, RowFields
    <3> QED
      BY <1>4, <3>1 DEF Call, SameCall
  <2> HIDE DEF g
  <2>3. CallShaped(g)
    BY <1>3, <1>4, <1>7, <2>2 DEF CallOK, CallShaped, UnderWay
  <2>4. ReadOK(g)
    BY <1>4, <1>7, <2>2 DEF ReadOK
  <2>5. SureOK(g)
    <3>1. \A row : PermitsCall(row, g) <=> PermitsCall(row, h)
      BY <2>2, SamePermits
    <3>2. SureOK(h) /\ Behind(g) = Behind(h)
      BY <1>4, <2>2 DEF CallOK, Behind, SameCall
    <3> QED
      BY <1>3, <1>4, <1>5, <2>2, <3>1, <3>2 DEF SureOK, SameCall, UnderWay
  <2>6. CallOK(g)
    BY <2>3, <2>4, <2>5 DEF CallOK
  <2> QED
    BY <1>3, <2>1, <2>6, CallMoves, GuardsUnmoved
<1> QED
  BY <1>6, <1>7

LEMMA CallGuardKeepsInv ==
  ASSUME GuardInv, NEW c \in Caller, loadCallGuard(c)
  PROVE  GuardInv'
<1>1. PICK h : h = calls[c]
  OBVIOUS
<1>2. PICK a : a = AskedAbout(c)
  OBVIOUS
<1>3. h.pc = "calling" /\ UNCHANGED <<stored, guards, saves, settled>>
  BY <1>1 DEF loadCallGuard
<1>4. /\ h \in Call /\ CallOK(h) /\ a = Head(h.ids) /\ a \in Agent /\ stored[a] \in Permission
      /\ h.trust = "sure" => a \in settled
  BY <1>1, <1>2, <1>3, AskedShape DEF UnderWay
<1>5. PICK guard : guard = IF callGuards[a] # NoGuard THEN callGuards[a] ELSE h.packs
  OBVIOUS
<1>6. /\ callGuards \in [Agent -> ((SUBSET Pack) \ {{}}) \cup {NoGuard}]
      /\ h.packs \in (SUBSET Pack) \ {{}} /\ guard \in (SUBSET Pack) \ {{}}
  <2>1. callGuards \in [Agent -> ((SUBSET Pack) \ {{}}) \cup {NoGuard}]
    BY DEF GuardInv, TypeOK
  <2>2. h.packs \in (SUBSET Pack) \ {{}}
    <3>1. h.packs \in SUBSET Pack
      BY <1>4, CallFields
    <3>2. h.packs # {}
      BY <1>3, <1>4 DEF CallOK, CallShaped
    <3> QED
      BY <3>1, <3>2
  <2> QED
    BY <1>4, <1>5, <2>1, <2>2
<1>7. /\ callGuards' = [callGuards EXCEPT ![a] = guard]
      /\ \/ h.breaks \cap guard # {} /\ End(c, "refused")
         \/ h.breaks \cap guard = {} /\ Passed(c)
  BY <1>1, <1>2, <1>5 DEF loadCallGuard
<1>8. a \in settled => /\ stored[a].enabled /\ h.packs = stored[a].packs
                       /\ guard = stored[a].packs
  <2>1. a \in settled => Clean(a) /\ callGuards[a] \in {NoGuard, stored[a].packs}
    BY <1>4 DEF Clean, GuardInv, GuardOK
  <2>2. Clean(a) => stored[a].enabled /\ h.packs = stored[a].packs
    BY <1>3, <1>4 DEF CallOK, ReadOK
  <2> QED
    BY <1>5, <2>1, <2>2
<1>9. /\ guards' \in [Agent -> Card \cup {NoGuard}]
      /\ callGuards' \in [Agent -> ((SUBSET Pack) \ {{}}) \cup {NoGuard}]
      /\ \A b \in Agent : GuardOK(b)'
  <2>1. \A b : CardClean(b)' <=> CardClean(b)
    BY <1>3, RowsUnmoved
  <2>2. /\ callGuards' \in [Agent -> ((SUBSET Pack) \ {{}}) \cup {NoGuard}]
        /\ \A b \in Agent : callGuards'[b] = IF b = a THEN guard ELSE callGuards[b]
    BY <1>4, <1>6, <1>7
  <2>3. \A b \in Agent : GuardOK(b)'
    BY <1>3, <1>8, <2>1, <2>2 DEF GuardInv, GuardOK
  <2> QED
    BY <1>3, <2>2, <2>3 DEF GuardInv, TypeOK
<1>10. h.trust = "sure" => h.hook /\ Says(stored[a].card, h.what)
  BY <1>3, <1>4 DEF CallOK, SureOK
<1>11. CASE h.breaks \cap guard # {} /\ End(c, "refused")
  <2>1. h.trust = "sure" => ~Permitted(h)
    <3> SUFFICES ASSUME h.trust = "sure", Permitted(h)  PROVE FALSE
      OBVIOUS
    <3>1. ~PermitsCall(stored[a], h)
      BY <1>4, <1>8, <1>10, <1>11 DEF PermitsCall
    <3>2. Suffix(h.ids, h.all) /\ h.ids # <<>> /\ h.ids \in Seq(Agent) /\ h.all \in Seq(Agent)
      BY <1>3, <1>4, CallFields DEF CallOK, SureOK, CallShaped, UnderWay
    <3>3. \E i \in DOMAIN h.all : a = h.all[i]
      BY <1>4, <3>2, HeadOfSuffix
    <3> QED
      BY <3>1, <3>3 DEF Permitted
  <2>2. CallOK(Ended(h, "refused"))
    BY <1>4, <2>1, EndedOK
  <2>3. Judges(c, Ended(h, "refused"))
    BY <1>1, <1>11, EndIs
  <2> QED
    BY <1>3, <1>9, <2>2, <2>3, CallMoves
<1>12. CASE h.breaks \cap guard = {} /\ Passed(c)
  <2>1. h.trust = "sure" => PermitsCall(stored[a], h)
    BY <1>4, <1>8, <1>10, <1>12 DEF PermitsCall
  <2>2. CallOK(IF Len(h.ids) = 1 THEN Ended(h, "allowed") ELSE Onward(h))
    BY <1>3, <1>4, <2>1, PassedOK DEF UnderWay
  <2>3. Judges(c, IF Len(h.ids) = 1 THEN Ended(h, "allowed") ELSE Onward(h))
    BY <1>1, <1>12, PassedIs
  <2> QED
    BY <1>3, <1>9, <2>2, <2>3, CallMoves
<1> QED
  BY <1>7, <1>11, <1>12

LEMMA LookupFailsKeepsInv ==
  ASSUME GuardInv, NEW c \in Caller, LookupFails(c)
  PROVE  GuardInv'
<1>1. CallOK(calls[c])
  BY DEF GuardInv
<1>2. CallOK(Ended(calls[c], "failed"))
  BY <1>1, EndedOK
<1>3. Judges(c, Ended(calls[c], "failed")) /\ UNCHANGED <<stored, guards, callGuards, saves, settled>>
  BY EndIs DEF LookupFails
<1> QED
  BY <1>2, <1>3, CallMoves, GuardsUnmoved

-----------------------------------------------------------------------------
(* A step of a save.                                                       *)

LEMMA SaveFields ==
  ASSUME NEW s \in Save
  PROVE  /\ s.todo \in Seq(Agent) /\ s.set \in Permission /\ s.pack \in SUBSET Pack
         /\ s.on \in BOOLEAN /\ s.quiet \in BOOLEAN
         /\ s.pc \in {"idle", "reading", "storing", "dropping", "droppingCalls"}
BY DEF Save

LEMMA DefaultShape == Default \in Permission /\ NoSave \in Save /\ NoSave.pc = "idle"
<1>1. Default \in Permission
  BY GuardAssumption DEF Default, Permission
<1>2. <<>> \in Seq(Agent)
  OBVIOUS
<1> QED
  BY <1>1, <1>2 DEF NoSave, Save

(* Where no agent becomes clean, what calls have read and what is cached   *)
(* are as good as they were.                                               *)
LEMMA NoneCleaner ==
  ASSUME UNCHANGED stored, settled \subseteq settled', \A a : Clean(a)' => Clean(a)
  PROVE  \A g : CallOK(g) => CallOK(g)'
<1>1. \A g : ReadOK(g) => ReadOK(g)'
  BY DEF ReadOK
<1>2. \A g : SureOK(g) => SureOK(g)'
  BY DEF SureOK, Permitted
<1> QED
  BY <1>1, <1>2 DEF CallOK

LEMMA SaveMoves ==
  ASSUME GuardInv, NEW w \in Saver, NEW s, SaveShaped(s), Saves(w, s),
         UNCHANGED <<stored, calls>>,
         settled \subseteq settled', settled' \subseteq Agent, \A a : Clean(a)' => Clean(a),
         guards' \in [Agent -> Card \cup {NoGuard}],
         callGuards' \in [Agent -> ((SUBSET Pack) \ {{}}) \cup {NoGuard}],
         \A a \in Agent : GuardOK(a)'
  PROVE  GuardInv'
<1>1. saves \in [Saver -> Save] /\ s \in Save
  BY DEF GuardInv, TypeOK, SaveShaped
<1>2. saves' \in [Saver -> Save] /\ saves'[w] = s /\ \A v \in Saver \ {w} : saves'[v] = saves[v]
  BY <1>1 DEF Saves
<1>3. TypeOK'
  BY <1>2 DEF GuardInv, TypeOK
<1>4. \A d \in Caller : CallOK(calls[d])'
  <2> SUFFICES ASSUME NEW d \in Caller  PROVE CallOK(calls[d])'
    OBVIOUS
  <2>1. PICK h : h = calls[d]
    OBVIOUS
  <2>2. CallOK(h)'
    BY <2>1, NoneCleaner DEF GuardInv
  <2>3. h = calls'[d]
    BY <2>1
  <2> QED
    BY <2>2, <2>3
<1>5. \A v \in Saver : SaveShaped(saves[v])'
  BY <1>2 DEF GuardInv, SaveShaped
<1> QED
  BY <1>3, <1>4, <1>5 DEF GuardInv

LEMMA SaveBegins ==
  ASSUME GuardInv, NEW w \in Saver, NEW s, SaveShaped(s), Saves(w, s),
         s.pc \in {"idle", "reading", "storing"},
         UNCHANGED <<stored, guards, callGuards, calls, settled>>
  PROVE  GuardInv'
<1>1. saves'[w] = s /\ \A v \in Saver \ {w} : saves'[v] = saves[v]
  BY DEF Saves, GuardInv, TypeOK
<1>2. \A v \in Saver : \A a : Dropping(v, a)' => Dropping(v, a) /\ saves'[v].pc = saves[v].pc
  BY <1>1 DEF Dropping, Saved
<1>3. \A a : (Clean(a)' => Clean(a)) /\ (CardClean(a)' => CardClean(a))
  BY <1>2 DEF Clean, CardClean
<1>4. /\ \A a \in Agent : GuardOK(a)'
      /\ guards' \in [Agent -> Card \cup {NoGuard}]
      /\ callGuards' \in [Agent -> ((SUBSET Pack) \ {{}}) \cup {NoGuard}]
      /\ settled' \subseteq Agent
  BY <1>3 DEF GuardInv, GuardOK, TypeOK
<1> QED
  BY <1>3, <1>4, SaveMoves

LEMMA BeginKeepsInv ==
  ASSUME GuardInv, NEW w \in Saver,
         \/ \E a \in Agent : \E setting \in Setting[a] : SaveCard(w, a, setting)
         \/ \E ids \in SharedIds, pack \in Pack, on \in BOOLEAN : SetPermissionPack(w, ids, pack, on)
         \/ ReadForPack(w)
         \/ SaveFails(w)
  PROVE  GuardInv'
<1>1. ASSUME NEW a \in Agent, NEW setting \in Setting[a], SaveCard(w, a, setting)  PROVE GuardInv'
  <2> DEFINE s == [NoSave EXCEPT !.pc = "storing", !.todo = <<a>>, !.set = setting]
  <2>1. setting \in Permission
    BY GuardAssumption
  <2>2. s \in Save /\ s.pc = "storing" /\ s.todo # <<>>
    <3>1. <<a>> \in Seq(Agent) /\ <<a>> # <<>>
      OBVIOUS
    <3> QED
      BY <2>1, <3>1, DefaultShape DEF Save, NoSave
  <2>3. Saves(w, s) /\ UNCHANGED <<stored, guards, callGuards, calls, settled>>
    BY <1>1 DEF SaveCard
  <2> HIDE DEF s
  <2> QED
    BY <2>2, <2>3, SaveBegins DEF SaveShaped
<1>2. ASSUME NEW ids \in SharedIds, NEW pack \in Pack, NEW on \in BOOLEAN,
             SetPermissionPack(w, ids, pack, on)
      PROVE  GuardInv'
  <2> DEFINE s == [NoSave EXCEPT !.pc = "reading", !.todo = ids, !.pack = {pack}, !.on = on]
  <2>1. ids \in Seq(Agent) /\ ids # <<>>
    BY GuardAssumption
  <2>2. s \in Save /\ s.pc = "reading" /\ s.todo # <<>>
    BY <2>1, DefaultShape DEF Save, NoSave
  <2>3. Saves(w, s) /\ UNCHANGED <<stored, guards, callGuards, calls, settled>>
    BY <1>2 DEF SetPermissionPack
  <2> HIDE DEF s
  <2> QED
    BY <2>2, <2>3, SaveBegins DEF SaveShaped
<1>3. CASE ReadForPack(w)
  <2>1. PICK t : t = saves[w]
    OBVIOUS
  <2>2. t \in Save /\ t.pc = "reading" /\ t.todo # <<>> /\ t.todo \in Seq(Agent) /\ t.pack \in SUBSET Pack
    BY <1>3, <2>1, SaveFields DEF ReadForPack, GuardInv, SaveShaped
  <2>3. PICK row \in Permission : row = stored[Saved(w)]
    <3>1. Saved(w) \in Agent
      BY <2>1, <2>2, HeadOfSuffix DEF Saved
    <3> QED
      BY <3>1 DEF GuardInv, TypeOK
  <2> DEFINE set == IF t.on THEN [row EXCEPT !.packs = @ \cup t.pack, !.enabled = TRUE]
                    ELSE [row EXCEPT !.packs = @ \ t.pack]
             s == [t EXCEPT !.pc = "storing", !.set = set]
  <2>4. set \in Permission
    BY <2>2 DEF Permission
  <2>5. Saves(w, s) /\ UNCHANGED <<stored, guards, callGuards, calls, settled>>
    BY <1>3, <2>1, <2>3 DEF ReadForPack
  <2> HIDE DEF set
  <2>6. s \in Save /\ s.pc = "storing" /\ s.todo # <<>>
    BY <2>2, <2>4 DEF Save
  <2> HIDE DEF s
  <2> QED
    BY <2>5, <2>6, SaveBegins DEF SaveShaped
<1>4. CASE SaveFails(w)
  <2>1. Saves(w, NoSave) /\ UNCHANGED <<stored, guards, callGuards, calls, settled>>
    BY <1>4 DEF SaveFails
  <2> QED
    BY <2>1, DefaultShape, SaveBegins DEF SaveShaped
<1> QED
  BY <1>1, <1>2, <1>3, <1>4

LEMMA DropKeepsInv ==
  ASSUME GuardInv, NEW w \in Saver, dropAgentEnforcer(w)
  PROVE  GuardInv'
<1>1. PICK t : t = saves[w]
  OBVIOUS
<1>2. PICK a : a = Saved(w)
  OBVIOUS
<1> DEFINE s == [t EXCEPT !.pc = "droppingCalls"]
<1>3. /\ t \in Save /\ t.pc = "dropping" /\ t.todo # <<>> /\ a = Head(t.todo)
      /\ Saves(w, s) /\ guards' = [guards EXCEPT ![a] = NoGuard]
      /\ UNCHANGED <<stored, callGuards, calls, settled>>
      /\ saves \in [Saver -> Save] /\ guards \in [Agent -> Card \cup {NoGuard}]
      /\ callGuards \in [Agent -> ((SUBSET Pack) \ {{}}) \cup {NoGuard}] /\ settled \subseteq Agent
  BY <1>1, <1>2 DEF dropAgentEnforcer, GuardInv, SaveShaped, TypeOK, Saved
<1>4. s \in Save /\ s.pc = "droppingCalls" /\ s.todo = t.todo /\ s.quiet = t.quiet
  BY <1>3 DEF Save
<1> HIDE DEF s
<1>5. saves'[w] = s /\ \A v \in Saver \ {w} : saves'[v] = saves[v]
  BY <1>3 DEF Saves
<1>6. \A v \in Saver : \A b : Dropping(v, b)' => Dropping(v, b) /\ (saves'[v].pc = saves[v].pc \/ b = a)
  BY <1>1, <1>3, <1>4, <1>5 DEF Dropping, Saved
<1>7. \A b : (Clean(b)' => Clean(b)) /\ (CardClean(b)' => CardClean(b) \/ b = a)
  BY <1>3, <1>6 DEF Clean, CardClean
<1>8. a \in Agent
  BY <1>3, SaveFields, HeadOfSuffix
<1>9. guards' \in [Agent -> Card \cup {NoGuard}] /\ guards'[a] = NoGuard /\ \A b \in Agent \ {a} : guards'[b] = guards[b]
  BY <1>3, <1>8
<1>10. \A b \in Agent : GuardOK(b)'
  BY <1>3, <1>7, <1>9 DEF GuardInv, GuardOK
<1> QED
  BY <1>3, <1>4, <1>7, <1>9, <1>10, SaveMoves DEF SaveShaped

(* An agent is settled when what was cached before its save is dropped.    *)
LEMMA DropCallsKeepsInv ==
  ASSUME GuardInv, NEW w \in Saver, dropCallGuard(w)
  PROVE  GuardInv'
<1>1. PICK t : t = saves[w]
  OBVIOUS
<1>2. PICK a : a = Saved(w)
  OBVIOUS
<1>3. /\ t \in Save /\ t.pc = "droppingCalls" /\ t.todo # <<>> /\ a = Head(t.todo)
      /\ callGuards' = [callGuards EXCEPT ![a] = NoGuard]
      /\ UNCHANGED <<stored, guards, calls>>
      /\ saves \in [Saver -> Save] /\ guards \in [Agent -> Card \cup {NoGuard}]
      /\ callGuards \in [Agent -> ((SUBSET Pack) \ {{}}) \cup {NoGuard}] /\ settled \subseteq Agent
      /\ settled' = IF t.quiet THEN settled \cup {a} ELSE settled
  BY <1>1, <1>2 DEF dropCallGuard, Settle, GuardInv, SaveShaped, TypeOK, Saved
<1>4. PICK s : Saves(w, s) /\ SaveShaped(s) /\ s.pc \in {"idle", "reading"}
  <2>1. CASE Len(t.todo) = 1
    <3>1. Saves(w, NoSave)
      BY <1>1, <2>1 DEF dropCallGuard, NextSaved
    <3> QED
      BY <3>1, DefaultShape DEF SaveShaped
  <2>2. CASE Len(t.todo) # 1
    <3> DEFINE s == [t EXCEPT !.pc = "reading", !.todo = Tail(@), !.quiet = FALSE]
    <3>1. Saves(w, s)
      BY <1>1, <2>2 DEF dropCallGuard, NextSaved
    <3>2. Tail(t.todo) \in Seq(Agent) /\ Tail(t.todo) # <<>>
      BY <1>3, <2>2, SaveFields, HeadOfSuffix
    <3>3. s \in Save /\ s.pc = "reading" /\ s.todo # <<>>
      BY <1>3, <3>2 DEF Save
    <3> HIDE DEF s
    <3> QED
      BY <3>1, <3>3 DEF SaveShaped
  <2> QED
    BY <2>1, <2>2
<1>5. saves'[w] = s /\ \A v \in Saver \ {w} : saves'[v] = saves[v]
  BY <1>3, <1>4 DEF Saves
<1>6. \A v \in Saver : \A b : Dropping(v, b)' => Dropping(v, b) /\ saves'[v].pc = saves[v].pc
  BY <1>4, <1>5 DEF Dropping, Saved
<1>7. \A b \in settled' : b \in settled \/ (b = a /\ Dropping(w, a) /\ saves[w].pc = "droppingCalls")
  <2>1. CASE t.quiet
    <3>1. Dropping(w, a) /\ saves[w].pc = "droppingCalls"
      BY <1>1, <1>2, <1>3, <2>1 DEF Dropping
    <3> QED
      BY <1>3, <2>1, <3>1
  <2>2. CASE ~t.quiet
    BY <1>3, <2>2
  <2> QED
    BY <2>1, <2>2
<1>8. \A b : (Clean(b)' => Clean(b)) /\ (CardClean(b)' => CardClean(b))
  BY <1>6, <1>7 DEF Clean, CardClean
<1>9. a \in Agent
  BY <1>3, SaveFields, HeadOfSuffix
<1>10. /\ callGuards' \in [Agent -> ((SUBSET Pack) \ {{}}) \cup {NoGuard}]
       /\ callGuards'[a] = NoGuard /\ \A b \in Agent \ {a} : callGuards'[b] = callGuards[b]
  BY <1>3, <1>9
<1>11. \A b \in Agent : GuardOK(b)'
  BY <1>3, <1>7, <1>8, <1>10 DEF GuardInv, GuardOK
<1>12. settled \subseteq settled' /\ settled' \subseteq Agent
  BY <1>3, <1>9
<1> QED
  BY <1>3, <1>4, <1>8, <1>10, <1>11, <1>12, SaveMoves

(* The row is stored: what was read and cached of it is not clean, but for *)
(* a save that found no call in between; and no call it is about is sure.  *)
LEMMA StoreKeepsInv ==
  ASSUME GuardInv, NEW w \in Saver, StorePermission(w)
  PROVE  GuardInv'
<1>1. PICK t : t = saves[w]
  OBVIOUS
<1>2. PICK a : a = Saved(w)
  OBVIOUS
<1>3. /\ t \in Save /\ t.pc = "storing" /\ t.todo # <<>> /\ a = Head(t.todo) /\ t.set \in Permission
      /\ UNCHANGED <<guards, callGuards>>
      /\ stored' = [stored EXCEPT ![a] = t.set] /\ settled' = settled \ {a}
      /\ stored \in [Agent -> Permission] /\ settled \subseteq Agent
      /\ calls \in [Caller -> Call] /\ saves \in [Saver -> Save]
  BY <1>1, <1>2, SaveFields DEF StorePermission, GuardInv, SaveShaped, TypeOK, Saved
<1>4. a \in Agent
  BY <1>3, SaveFields, HeadOfSuffix
<1>5. stored' \in [Agent -> Permission] /\ \A b \in Agent \ {a} : stored'[b] = stored[b]
  BY <1>3, <1>4
<1> DEFINE mine == [t EXCEPT !.pc = "dropping", !.set = Default, !.quiet = ~Between(a)]
           shared(v) == IF saves[v].todo # <<>> /\ Saved(v) = a THEN [saves[v] EXCEPT !.quiet = FALSE]
                        ELSE saves[v]
<1>6. saves' = [v \in Saver |-> IF v = w THEN mine ELSE shared(v)]
  BY <1>1, <1>2 DEF StorePermission
<1>7. /\ mine \in Save /\ mine.pc = "dropping" /\ mine.todo = t.todo /\ mine.quiet = ~Between(a)
  <2>1. PICK quiet \in BOOLEAN : quiet <=> ~Between(a)
    OBVIOUS
  <2> QED
    BY <1>3, <2>1, DefaultShape DEF Save
<1>8. \A v \in Saver : /\ shared(v) \in Save /\ shared(v).pc = saves[v].pc /\ shared(v).todo = saves[v].todo
                       /\ shared(v).quiet => saves[v].quiet /\ ~(saves[v].todo # <<>> /\ Saved(v) = a)
  <2> SUFFICES ASSUME NEW v \in Saver
               PROVE  /\ shared(v) \in Save /\ shared(v).pc = saves[v].pc /\ shared(v).todo = saves[v].todo
                      /\ shared(v).quiet => saves[v].quiet /\ ~(saves[v].todo # <<>> /\ Saved(v) = a)
    OBVIOUS
  <2>1. PICK o \in Save : o = saves[v]
    BY <1>3
  <2>2. LET p == [o EXCEPT !.quiet = FALSE]
        IN  p \in Save /\ p.pc = o.pc /\ p.todo = o.todo /\ ~p.quiet
    BY DEF Save
  <2> QED
    BY <2>1, <2>2
<1> HIDE DEF mine, shared
<1>9. \A v \in Saver : SaveShaped(saves[v])' /\ saves'[v] \in Save
  BY <1>3, <1>6, <1>7, <1>8 DEF GuardInv, SaveShaped
<1>10. \A v \in Saver : \A b : Dropping(v, b)' =>
         \/ v = w /\ b = a /\ ~Between(a) /\ saves'[v].pc = "dropping"
         \/ v # w /\ b # a /\ Dropping(v, b) /\ saves'[v].pc = saves[v].pc
  <2> SUFFICES ASSUME NEW v \in Saver, NEW b, Dropping(v, b)'
               PROVE  \/ v = w /\ b = a /\ ~Between(a) /\ saves'[v].pc = "dropping"
                      \/ v # w /\ b # a /\ Dropping(v, b) /\ saves'[v].pc = saves[v].pc
    OBVIOUS
  <2>1. saves'[v].pc \in {"dropping", "droppingCalls"} /\ saves'[v].quiet /\ Head(saves'[v].todo) = b
    BY DEF Dropping, Saved
  <2>2. CASE v = w
    BY <1>3, <1>6, <1>7, <2>1, <2>2
  <2>3. CASE v # w
    <3>1. saves'[v] = shared(v)
      BY <1>6, <2>3
    <3>2. /\ saves[v].pc \in {"dropping", "droppingCalls"} /\ saves'[v].pc = saves[v].pc
          /\ saves[v].quiet /\ Head(saves[v].todo) = b
          /\ ~(saves[v].todo # <<>> /\ Saved(v) = a)
      BY <1>8, <2>1, <3>1
    <3>3. saves[v].todo # <<>>
      BY <3>2 DEF GuardInv, SaveShaped
    <3> QED
      BY <2>3, <3>2, <3>3 DEF Dropping, Saved
  <2> QED
    BY <2>2, <2>3
<1>11. /\ Clean(a)' => ~Between(a)
       /\ ~CardClean(a)' /\ a \notin settled'
       /\ \A b : b # a => (Clean(b)' => Clean(b)) /\ (CardClean(b)' => CardClean(b))
  BY <1>3, <1>10 DEF Clean, CardClean
<1>12. \A b \in Agent : GuardOK(b)'
  <2> SUFFICES ASSUME NEW b \in Agent  PROVE GuardOK(b)'
    OBVIOUS
  <2>1. CASE b = a
    BY <1>11, <2>1 DEF GuardOK
  <2>2. CASE b # a
    <3>1. GuardOK(b) /\ stored'[b] = stored[b]
      BY <1>5, <2>2 DEF GuardInv
    <3> QED
      BY <1>3, <1>11, <2>2, <3>1 DEF GuardOK
  <2> QED
    BY <2>1, <2>2
<1>13. \A d \in Caller : calls'[d] \in Call /\ CallOK(calls[d])'
  <2> SUFFICES ASSUME NEW d \in Caller  PROVE calls'[d] \in Call /\ CallOK(calls[d])'
    OBVIOUS
  <2>1. PICK h \in Call : h = calls[d]
    BY <1>3
  <2>2. PICK g : g = calls'[d]
    OBVIOUS
  <2>3. g = [h EXCEPT !.trust = IF \E i \in DOMAIN h.all : h.all[i] = a THEN "none" ELSE h.trust]
    BY <1>2, <2>1, <2>2 DEF StorePermission
  <2>4. /\ g \in Call /\ g.pc = h.pc /\ g.ids = h.ids /\ g.all = h.all /\ g.hook = h.hook
        /\ g.what = h.what /\ g.breaks = h.breaks /\ g.card = h.card /\ g.packs = h.packs
        /\ g.verdict = h.verdict
        /\ g.trust = "sure" => h.trust = "sure" /\ \A i \in DOMAIN h.all : h.all[i] # a
    <3>1. PICK trust \in {"none", h.trust} :
            /\ trust = IF \E i \in DOMAIN h.all : h.all[i] = a THEN "none" ELSE h.trust
            /\ trust = "sure" => h.trust = "sure" /\ \A i \in DOMAIN h.all : h.all[i] # a
      OBVIOUS
    <3>2. g = [h EXCEPT !.trust = trust] /\ h.trust \in {"none", "same", "sure"}
      BY <2>3, <3>1, CallFields
    <3> QED
      BY <3>1, <3>2 DEF Call
  <2>5. CallOK(h) /\ h.ids \in Seq(Agent) /\ h.all \in Seq(Agent)
    BY <2>1, CallFields DEF GuardInv
  <2>6. CallShaped(g)
    BY <2>4, <2>5 DEF CallOK, CallShaped
  <2>7. ReadOK(g)'
    <3> SUFFICES ASSUME g.pc \in {"loading", "calling"}, Clean(Head(g.ids))'
                 PROVE  /\ stored'[Head(g.ids)].enabled
                        /\ g.pc = "loading" => g.card = stored'[Head(g.ids)].card
                        /\ g.pc = "calling" => g.packs = stored'[Head(g.ids)].packs
      BY DEF ReadOK
    <3>1. PICK b : b = Head(g.ids)
      OBVIOUS
    <3>2. b \in Agent
      BY <2>4, <2>5, <2>6, <3>1, HeadOfSuffix DEF CallShaped, UnderWay
    <3>3. b # a
      <4> SUFFICES ASSUME b = a  PROVE FALSE
        OBVIOUS
      <4>1. Between(a)
        BY <2>1, <2>4, <3>1 DEF Between, AskedAbout
      <4> QED
        BY <1>11, <3>1, <4>1
    <3>4. Clean(b) /\ stored'[b] = stored[b]
      BY <1>5, <1>11, <3>1, <3>2, <3>3
    <3> QED
      BY <2>4, <2>5, <3>1, <3>4 DEF CallOK, ReadOK
  <2>8. SureOK(g)'
    <3> SUFFICES ASSUME g.trust = "sure"
                 PROVE  SureOK(g)'
      BY DEF SureOK
    <3>1. h.trust = "sure" /\ SureOK(h) /\ \A i \in DOMAIN h.all : h.all[i] # a /\ h.all[i] \in Agent
      BY <2>4, <2>5 DEF CallOK
    <3>2. \A i \in DOMAIN h.all : stored'[h.all[i]] = stored[h.all[i]]
      BY <1>5, <3>1
    <3>3. \A row : PermitsCall(row, g) <=> PermitsCall(row, h)
      BY <2>4, <3>1, SamePermits DEF SameCall
    <3>4. \A i \in DOMAIN g.all : g.all[i] \in settled'
      BY <1>3, <2>4, <3>1 DEF SureOK
    <3>5. ASSUME g.pc \in UnderWay
          PROVE  /\ Suffix(g.ids, g.all)
                 /\ \A i \in Behind(g) : PermitsCall(stored'[g.all[i]], g)
                 /\ stored'[Head(g.ids)] = stored[Head(g.ids)]
      <4>1. /\ Suffix(h.ids, h.all) /\ h.ids # <<>>
            /\ \A i \in Behind(h) : PermitsCall(stored[h.all[i]], h)
        BY <2>4, <2>5, <3>1, <3>5 DEF CallOK, CallShaped, SureOK
      <4>2. /\ DOMAIN h.all = 1 .. Len(h.all) /\ Len(h.all) \in Nat /\ Len(h.ids) \in Nat
            /\ \E i \in DOMAIN h.all : Head(h.ids) = h.all[i]
        BY <2>5, <4>1, HeadOfSuffix
      <4>3. Behind(g) = Behind(h) /\ Behind(h) \subseteq DOMAIN h.all
        <5>1. PICK n \in Nat, k \in Nat : n = Len(h.all) /\ k = Len(h.ids)
          BY <4>2
        <5>2. 1 .. (n - k) \subseteq 1 .. n
          OBVIOUS
        <5> QED
          BY <2>4, <4>2, <5>1, <5>2 DEF Behind
      <4> QED
        BY <2>4, <3>2, <3>3, <4>1, <4>2, <4>3
    <3>6. g.pc \in {"rereading", "calling"} => g.hook /\ Says(stored'[Head(g.ids)].card, g.what)
      <4> SUFFICES ASSUME g.pc \in {"rereading", "calling"}
                   PROVE  g.hook /\ Says(stored'[Head(g.ids)].card, g.what)
        OBVIOUS
      <4>1. stored'[Head(g.ids)] = stored[Head(g.ids)]
        BY <3>5 DEF UnderWay
      <4>2. h.hook /\ Says(stored[Head(h.ids)].card, h.what)
        BY <2>4, <3>1 DEF SureOK
      <4> QED
        BY <2>4, <4>1, <4>2
    <3>7. Permitted(g)' <=> Permitted(h)
      BY <2>4, <3>2, <3>3 DEF Permitted
    <3>8. g.pc = "done" => /\ g.verdict = "allowed" => Permitted(g)'
                           /\ g.verdict = "refused" => ~Permitted(g)'
      BY <2>4, <3>1, <3>7 DEF SureOK
    <3> QED
      BY <3>4, <3>5, <3>6, <3>8 DEF SureOK
  <2>9. CallOK(g)'
    BY <2>6, <2>7, <2>8 DEF CallOK, CallShaped
  <2> QED
    BY <2>2, <2>4, <2>9
<1>14. TypeOK'
  <2>1. calls' \in [Caller -> Call]
    <3>1. \E f : calls' = [c \in Caller |-> f[c]]
      <4>1. calls' = [c \in Caller |-> calls'[c]]
        BY DEF StorePermission
      <4> QED
        BY <4>1
    <3> QED
      BY <1>13, <3>1
  <2>2. saves' \in [Saver -> Save]
    BY <1>6, <1>9
  <2> QED
    BY <1>3, <1>5, <2>1, <2>2 DEF GuardInv, TypeOK
<1> QED
  BY <1>9, <1>12, <1>13, <1>14 DEF GuardInv

-----------------------------------------------------------------------------

LEMMA InitGuardInv == Init => GuardInv
<1> SUFFICES ASSUME Init  PROVE GuardInv
  OBVIOUS
<1>1. NoCall \in Call /\ NoCall.pc = "idle" /\ NoCall.trust = "none"
  <2>1. (CHOOSE u \in Use : TRUE) \in Use
    BY GuardAssumption
  <2>2. <<>> \in Seq(Agent)
    OBVIOUS
  <2> QED
    BY <2>1, <2>2 DEF NoCall, Call
<1>2. TypeOK
  BY <1>1, DefaultShape DEF Init, TypeOK
<1>3. CallOK(NoCall)
  BY <1>1 DEF CallOK, CallShaped, ReadOK, SureOK, UnderWay
<1>4. \A c \in Caller : CallOK(calls[c])
  BY <1>3 DEF Init
<1>5. \A w \in Saver : SaveShaped(saves[w])
  BY DefaultShape DEF Init, SaveShaped
<1>6. \A a \in Agent : GuardOK(a)
  BY DEF Init, GuardOK
<1> QED
  BY <1>2, <1>4, <1>5, <1>6 DEF GuardInv

LEMMA NextGuardInv == GuardInv /\ [Next]_vars => GuardInv'
<1> SUFFICES ASSUME GuardInv, [Next]_vars  PROVE GuardInv'
  OBVIOUS
<1>1. CASE UNCHANGED vars
  <2>1. UNCHANGED <<stored, guards, callGuards, calls, saves, settled>>
    BY <1>1 DEF vars
  <2>2. \A d \in Caller : CallOK(calls[d])'
    <3> SUFFICES ASSUME NEW d \in Caller  PROVE CallOK(calls[d])'
      OBVIOUS
    <3>1. PICK h : h = calls[d]
      OBVIOUS
    <3>2. CallOK(h)'
      BY <2>1, <3>1, RowsUnmoved DEF GuardInv
    <3>3. h = calls'[d]
      BY <2>1, <3>1
    <3> QED
      BY <3>2, <3>3
  <2> QED
    BY <2>1, <2>2, GuardsUnmoved DEF GuardInv, TypeOK, SaveShaped
<1>2. ASSUME NEW c \in Caller, NEW tool \in Tool, NEW ids \in SharedIds, NEW breaks \in Argument,
             Ask(c, ids, TRUE, tool, breaks)
      PROVE  GuardInv'
  <2>1. ids \in Seq(Agent) /\ ids # <<>> /\ breaks \in SUBSET Pack /\ tool \in Use
    BY GuardAssumption DEF Use
  <2> QED
    BY <1>2, <2>1, AskKeepsInv
<1>3. ASSUME NEW c \in Caller, NEW what \in Use, NEW a \in Agent, Ask(c, <<a>>, FALSE, what, {})
      PROVE  GuardInv'
  <2>1. <<a>> \in Seq(Agent) /\ <<a>> # <<>> /\ {} \in SUBSET Pack
    OBVIOUS
  <2> QED
    BY <1>3, <2>1, AskKeepsInv
<1>4. ASSUME NEW c \in Caller,
             ReadPermission(c) \/ LoadAgentGuard(c) \/ RereadPermission(c) \/ loadCallGuard(c) \/ LookupFails(c)
      PROVE  GuardInv'
  BY <1>4, ReadKeepsInv, LoadKeepsInv, RereadKeepsInv, CallGuardKeepsInv, LookupFailsKeepsInv
<1>5. ASSUME NEW w \in Saver,
             \/ \E a \in Agent : \E setting \in Setting[a] : SaveCard(w, a, setting)
             \/ \E ids \in SharedIds, pack \in Pack, on \in BOOLEAN : SetPermissionPack(w, ids, pack, on)
             \/ ReadForPack(w)
             \/ SaveFails(w)
      PROVE  GuardInv'
  BY <1>5, BeginKeepsInv
<1>6. ASSUME NEW w \in Saver, StorePermission(w) \/ dropAgentEnforcer(w) \/ dropCallGuard(w)
      PROVE  GuardInv'
  BY <1>6, StoreKeepsInv, DropKeepsInv, DropCallsKeepsInv
<1> QED
  BY <1>1, <1>2, <1>3, <1>4, <1>5, <1>6 DEF Next

(* What is read, cached and under way of a clean agent is as the row says, *)
(* in every state (LoadAgentGuard, loadCallGuard, the saves).              *)
THEOREM GuardInvHolds == Spec => []GuardInv
<1> QED
  BY InitGuardInv, NextGuardInv, PTL DEF Spec

(* What the states are (TypeOK).                                           *)
THEOREM TypeCorrect == Spec => []TypeOK
<1> QED
  BY GuardInvHolds, PTL DEF GuardInv

(* "The strictest of their rules is the one that stands" (CheckAgentTool), *)
(* and the rules are the saved ones: a call that no save overlapped, after *)
(* saves that no call was in the middle of, is judged as each saved card   *)
(* of the agents it speaks for says.                                       *)
THEOREM VerdictsAreTheSaved == Spec => []VerdictBySaved
<1>1. GuardInv => VerdictBySaved
  <2> SUFFICES ASSUME GuardInv, NEW c \in Caller, calls[c].pc = "done", calls[c].trust = "sure"
               PROVE  LET permitted == \A i \in DOMAIN calls[c].all : Permits(stored[calls[c].all[i]], c)
                      IN  /\ calls[c].verdict = "allowed" => permitted
                          /\ calls[c].verdict = "refused" => ~permitted
    BY DEF VerdictBySaved
  <2>1. SureOK(calls[c])
    BY DEF GuardInv, CallOK
  <2>2. Permitted(calls[c]) <=> \A i \in DOMAIN calls[c].all : Permits(stored[calls[c].all[i]], c)
    BY DEF Permitted, PermitsCall, Permits
  <2> QED
    BY <2>1, <2>2 DEF SureOK
<1> QED
  BY <1>1, GuardInvHolds, PTL
=============================================================================
