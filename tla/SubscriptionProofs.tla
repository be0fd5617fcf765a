-------------------------- MODULE SubscriptionProofs --------------------------
(* What is kept of every sign-in, for every number of providers, logins,   *)
(* requests and saves.  A login's tokens are held in one place at a time:  *)
(* what it was granted is with the login, with one save, or with one       *)
(* provider and the requests of that provider.  So a refresh token is      *)
(* spent by requests that share one lock, and the rest follows: whoever    *)
(* has renewed holds the token the vendor takes until it is stored, and a  *)
(* request that waited for the lock finds what was stored.                 *)
EXTENDS Subscription, TLAPS

Typed ==
  /\ row \in [Provider -> Held]
  /\ login \in [Login -> [state : {"unused", "running", "over", "away"}, granted : Held]]
  /\ lock \in [Provider -> Request \cup {None}]
  /\ request \in [Request -> [pc : {"idle", "held", "look", "renew", "store"},
                              at : Provider \cup {None}, held : Held]]
  /\ save \in [Save -> [at : Provider \cup {None}, granted : Held]]
  /\ issued \in [Login -> Number] /\ live \in [Login -> Number] /\ expired \in [Login -> Number]
  /\ \A l \in Login : expired[l] <= issued[l]
  /\ lost \subseteq Login /\ troubled \in BOOLEAN /\ replayed \in BOOLEAN

Working(r) == request[r].pc # "idle"
Locking(r) == request[r].pc \in {"look", "renew", "store"}
Saving(s) == save[s].at # None
Filled(p) == row[p] # None
Granted(l) == login[l].granted # None

(* A lock is held by a request of its provider, behind it.                 *)
Shape ==
  /\ \A r \in Request : Working(r) => request[r].at \in Provider /\ request[r].held \in SignIn
  /\ \A s \in Save : Saving(s) => save[s].at \in Provider /\ save[s].granted \in SignIn
  /\ \A r \in Request : Locking(r) => lock[request[r].at] = r
  /\ \A r \in Request, p \in Provider : lock[p] = r => request[r].at = p /\ Locking(r)

-----------------------------------------------------------------------------
(* Where the tokens of a login are.                                        *)

\* No provider has the login, nor a request of one.
Unbound(l) ==
  /\ \A p \in Provider : Filled(p) => row[p].login # l
  /\ \A r \in Request : Working(r) => request[r].held.login # l

\* s is what the login was granted, and nothing has been renewed since.
Fresh(l, s) == s.login = l /\ s.refresh = live[l] /\ issued[l] # 0

RowsApart ==
  /\ \A p, q \in Provider : Filled(p) /\ Filled(q) /\ row[p].login = row[q].login => p = q
  /\ \A p \in Provider : Filled(p) => issued[row[p].login] # 0

RequestsBound ==
  /\ \A r \in Request, p \in Provider :
       Working(r) /\ Filled(p) /\ row[p].login = request[r].held.login => p = request[r].at
  /\ \A r, t \in Request :
       Working(r) /\ Working(t) /\ request[r].held.login = request[t].held.login
         => request[r].at = request[t].at
  /\ \A r \in Request : Working(r) => issued[request[r].held.login] # 0

GrantedOnce ==
  \A l \in Login : Granted(l) =>
    Fresh(l, login[l].granted) /\ Unbound(l)

SavedOnce ==
  /\ \A s \in Save : Saving(s) =>
       LET l == save[s].granted.login
       IN Fresh(l, save[s].granted) /\ Unbound(l) /\ ~Granted(l)
  /\ \A s, t \in Save :
       Saving(s) /\ Saving(t) /\ save[s].granted.login = save[t].granted.login => s = t

Owned == RowsApart /\ RequestsBound /\ GrantedOnce /\ SavedOnce

-----------------------------------------------------------------------------
(* Who holds the refresh token the vendor takes.                           *)

\* r has just been given the one that takes the place of row p's.
AboutToStore(r, p) ==
  /\ request[r].pc = "store" /\ lock[p] = r
  /\ request[r].held.refresh = live[row[p].login] /\ request[r].held.login = row[p].login

Renewable ==
  /\ \A r \in Request : request[r].pc = "store" =>
       request[r].held.refresh = live[request[r].held.login]
  /\ \A p \in Provider : Filled(p) =>
       \/ row[p].refresh = live[row[p].login]
       \/ row[p].login \in lost
       \/ \E r \in Request : AboutToStore(r, p)

-----------------------------------------------------------------------------
(* As long as nothing is out of the usual.                                 *)

\* A request holds its provider's sign-in, or one that has run out and been
\* renewed since; behind the lock it has run out, and it is renewed once.
Abreast(r) ==
  LET now == row[request[r].at]
      mine == request[r].held
  IN /\ now # None /\ mine.told /\ now.login = mine.login
     /\ request[r].pc \in {"held", "look"} => now = mine \/ (RunOut(mine) /\ ~RunOut(now))
     /\ request[r].pc = "look" => RunOut(mine)
     /\ request[r].pc = "renew" => now = mine /\ RunOut(mine)
     /\ request[r].pc = "store" => RunOut(now) /\ ~RunOut(mine)

Calm ==
  /\ ~replayed
  /\ \A p \in Provider : Filled(p) =>
       /\ row[p].told
       /\ \/ row[p].refresh = live[row[p].login]
          \/ \E r \in Request : request[r].pc = "store" /\ lock[p] = r
  /\ \A l \in Login : Granted(l) => login[l].granted.told
  /\ \A s \in Save : Saving(s) => save[s].granted.told
  /\ \A r \in Request : Working(r) => Abreast(r)

CalmUnlessTroubled == ~troubled => Calm

IInv == Typed /\ Shape /\ Owned /\ Renewable /\ CalmUnlessTroubled

-----------------------------------------------------------------------------
(* The steps a request takes behind its lock.                              *)

LEMMA IdleTyped == Idle \in [pc : {"idle", "held", "look", "renew", "store"},
                            at : Provider \cup {None}, held : Held]
BY DEF Idle, Held

LEMMA EndTyped ==
  ASSUME Typed, NEW r \in Request, Ends(r), Unlock(r)
  PROVE  /\ request' \in [Request -> [pc : {"idle", "held", "look", "renew", "store"},
                                      at : Provider \cup {None}, held : Held]]
         /\ lock' \in [Provider -> Request \cup {None}]
BY IdleTyped DEF Typed, Ends, Unlock

LEMMA EndShape ==
  ASSUME Typed, Shape, NEW r \in Request, Ends(r), Unlock(r), UNCHANGED save
  PROVE  Shape'
BY SubscriptionAssumption DEF Typed, Shape, Ends, Unlock, Idle, Working, Locking, Saving

\* The answer arrives, and is to be stored.
Heard(r, refresh, told) ==
  request' = [request EXCEPT ![r].pc = "store", ![r].held = Renewed(request[r].held, refresh, told)]

(* What the vendor has given for a refresh token, if it was heard of.      *)
RedeemedAs(r, refresh, told) ==
  LET s == request[r].held
      l == s.login
      n == issued[l] + 1
  IN /\ request[r].pc = "renew" /\ s \in SignIn /\ s.refresh = live[l]
     /\ n \in Number /\ refresh \in {n, s.refresh} /\ refresh \in Number
     /\ issued' = [issued EXCEPT ![l] = n] /\ live' = [live EXCEPT ![l] = refresh]
     /\ \/ Heard(r, refresh, told) /\ Trouble(~told) /\ UNCHANGED <<lock, lost>>
        \/ /\ Ends(r) /\ Unlock(r) /\ Trouble(TRUE)
           /\ lost' = IF refresh = n THEN lost \cup {l} ELSE lost

LEMMA RedeemDoes ==
  ASSUME Typed, Shape, NEW r \in Request, Redeem(r)
  PROVE  \E refresh \in Number, told \in BOOLEAN : RedeemedAs(r, refresh, told)
<1> DEFINE s == request[r].held
           l == s.login
           n == issued[l] + 1
<1>1. request[r].pc = "renew" /\ s.refresh = live[l] /\ n \in Number
      /\ issued' = [issued EXCEPT ![l] = n]
  BY DEF Redeem
<1>2. s \in SignIn /\ s.refresh \in Number /\ TRUE \in BOOLEAN
  BY <1>1 DEF Shape, Working, SignIn
<1>3. PICK refresh \in {n, s.refresh} :
        /\ live' = [live EXCEPT ![l] = refresh]
        /\ \/ /\ \E told \in BOOLEAN :
                   /\ request' = [request EXCEPT ![r].pc = "store", ![r].held = Renewed(s, refresh, told)]
                   /\ Trouble(~told)
              /\ UNCHANGED <<lock, lost>>
           \/ /\ Ends(r) /\ Unlock(r) /\ Trouble(TRUE)
              /\ lost' = IF refresh = n THEN lost \cup {l} ELSE lost
  BY DEF Redeem
<1>4. refresh \in Number
  BY <1>1, <1>2
<1>5. CASE \E told \in BOOLEAN :
             /\ request' = [request EXCEPT ![r].pc = "store", ![r].held = Renewed(s, refresh, told)]
             /\ Trouble(~told) /\ UNCHANGED <<lock, lost>>
  BY <1>1, <1>2, <1>3, <1>4, <1>5 DEF RedeemedAs, Heard
<1>6. CASE /\ Ends(r) /\ Unlock(r) /\ Trouble(TRUE)
           /\ lost' = IF refresh = n THEN lost \cup {l} ELSE lost
  BY <1>1, <1>2, <1>3, <1>4, <1>6 DEF RedeemedAs
<1> QED
  BY <1>3, <1>5, <1>6

(* A renewed sign-in is the login's, with the token just issued.           *)
LEMMA RenewedIs ==
  ASSUME NEW s \in SignIn, NEW refresh \in Number, NEW told \in BOOLEAN, issued[s.login] + 1 \in Number
  PROVE  /\ Renewed(s, refresh, told) \in SignIn
         /\ Renewed(s, refresh, told).login = s.login
         /\ Renewed(s, refresh, told).access = issued[s.login] + 1
         /\ Renewed(s, refresh, told).refresh = refresh
         /\ Renewed(s, refresh, told).told = told
BY DEF Renewed, SignIn

(* Heard of: the request holds what it is to store.                        *)
LEMMA RedeemHeard ==
  ASSUME Typed, NEW r \in Request, NEW refresh \in Number, NEW told \in BOOLEAN,
         request[r].held \in SignIn, issued[request[r].held.login] + 1 \in Number,
         Heard(r, refresh, told)
  PROVE  /\ request'[r] = [pc |-> "store", at |-> request[r].at,
                           held |-> Renewed(request[r].held, refresh, told)]
         /\ \A t \in Request : t # r => request'[t] = request[t]
         /\ request' \in [Request -> [pc : {"idle", "held", "look", "renew", "store"},
                                      at : Provider \cup {None}, held : Held]]
<1> DEFINE s == Renewed(request[r].held, refresh, told)
<1>1. s \in Held
  BY RenewedIs DEF Held
<1> HIDE DEF s
<1> DEFINE g == [request EXCEPT ![r].pc = "store"]
<1>2. request' = [g EXCEPT ![r].held = s]
  BY DEF Heard, s
<1>3. /\ g \in [Request -> [pc : {"idle", "held", "look", "renew", "store"},
                           at : Provider \cup {None}, held : Held]]
      /\ g[r].pc = "store" /\ g[r].at = request[r].at
      /\ \A t \in Request : t # r => g[t] = request[t]
  BY DEF Typed
<1> HIDE DEF g
<1>4. request'[r] = [pc |-> "store", at |-> request[r].at, held |-> s]
  <2>1. request'[r] = [g[r] EXCEPT !.held = s]
    BY <1>2, <1>3
  <2> QED
    BY <1>3, <2>1
<1>5. \A t \in Request : t # r => request'[t] = request[t]
  BY <1>2, <1>3
<1>6. request' \in [Request -> [pc : {"idle", "held", "look", "renew", "store"},
                               at : Provider \cup {None}, held : Held]]
  <2> DEFINE R == [pc : {"idle", "held", "look", "renew", "store"},
                   at : Provider \cup {None}, held : Held]
  <2>1. request'[r] \in R
    BY <1>1, <1>4 DEF Typed
  <2>2. \A t \in Request : t # r => request'[t] \in R
    BY <1>5 DEF Typed
  <2>3. request' = [t \in Request |-> request'[t]]
    BY <1>2, <1>3
  <2> HIDE DEF R
  <2>4. request' \in [Request -> R]
    BY <2>1, <2>2, <2>3
  <2> QED
    BY <2>4 DEF R
<1> QED
  BY <1>4, <1>5, <1>6 DEF s
-----------------------------------------------------------------------------
(* Types, and who holds which lock.                                        *)

LEMMA SaveTyped ==
  ASSUME Typed, Shape, NEW s \in Save, SaveProvider(s)
  PROVE  Typed'
<1>1. /\ save[s].at \in Provider /\ save[s].granted \in SignIn /\ save[s].granted.login \in Login
      /\ save[s].granted \in Held
  BY DEF SaveProvider, Shape, Saving, SignIn, Held
<1>2. save' \in [Save -> [at : Provider \cup {None}, granted : Held]]
  BY DEF SaveProvider, Typed, Held
<1>3. row' \in [Provider -> Held] /\ lost' \subseteq Login /\ troubled' \in BOOLEAN
  BY <1>1 DEF SaveProvider, Typed, Trouble
<1> QED
  BY <1>2, <1>3 DEF SaveProvider, vendor, Typed

LEMMA SecondLookTyped ==
  ASSUME Typed, NEW r \in Request, SecondLook(r)
  PROVE  Typed'
<1>1. troubled' \in BOOLEAN
  BY DEF SecondLook, Trouble, Typed
<1>2. CASE Ends(r) /\ Unlock(r)
  BY <1>1, <1>2, EndTyped DEF SecondLook, vendor, Typed
<1>3. CASE Goes(r, "renew") /\ UNCHANGED lock
  BY <1>1, <1>3 DEF SecondLook, Goes, vendor, Typed
<1> QED
  BY <1>2, <1>3 DEF SecondLook

LEMMA RedeemTyped ==
  ASSUME Typed, Shape, NEW r \in Request, Redeem(r)
  PROVE  Typed' /\ Shape'
<1>1. PICK refresh \in Number, told \in BOOLEAN : RedeemedAs(r, refresh, told)
  BY RedeemDoes
<1> DEFINE s == request[r].held
           l == s.login
           n == issued[l] + 1
<1>2. s \in SignIn /\ l \in Login /\ n \in Number /\ issued[l] \in Nat /\ expired[l] \in Nat
  BY <1>1 DEF RedeemedAs, SignIn, Typed, Number
<1>3. issued' = [issued EXCEPT ![l] = n] /\ live' = [live EXCEPT ![l] = refresh]
  BY <1>1 DEF RedeemedAs
<1>4. UNCHANGED <<row, login, save, expired, replayed>>
  BY DEF Redeem
<1>5. /\ issued' \in [Login -> Number] /\ live' \in [Login -> Number]
      /\ \A m \in Login : expired[m] <= issued'[m]
  <2>1. issued' \in [Login -> Number] /\ live' \in [Login -> Number]
    BY <1>2, <1>3 DEF Typed
  <2>2. expired[l] <= n
    BY <1>2 DEF Typed
  <2>3. \A m \in Login : issued'[m] = IF m = l THEN n ELSE issued[m]
    BY <1>3 DEF Typed
  <2> HIDE DEF l, n
  <2>4. ASSUME NEW m \in Login
        PROVE  expired[m] <= issued'[m]
    BY <2>2, <2>3 DEF Typed
  <2> QED
    BY <2>1, <2>4
<1>6. lost' \subseteq Login /\ troubled' \in BOOLEAN
  BY <1>1, <1>2 DEF RedeemedAs, Trouble, Typed
<1>7. CASE Heard(r, refresh, told) /\ UNCHANGED lock
  <2>1. /\ request'[r] = [pc |-> "store", at |-> request[r].at, held |-> Renewed(s, refresh, told)]
        /\ \A t \in Request : t # r => request'[t] = request[t]
        /\ request' \in [Request -> [pc : {"idle", "held", "look", "renew", "store"},
                                     at : Provider \cup {None}, held : Held]]
    BY <1>2, <1>7, RedeemHeard
  <2>2. Typed'
    BY <1>4, <1>5, <1>6, <1>7, <2>1 DEF Typed
  <2>3. Renewed(s, refresh, told) \in SignIn
    BY <1>2, RenewedIs
  <2>4. request[r].pc = "renew"
    BY DEF Redeem
  <2>5. Shape'
    BY <1>4, <1>7, <2>1, <2>3, <2>4 DEF Shape, Working, Locking, Saving
  <2> QED
    BY <2>2, <2>5
<1>8. CASE Ends(r) /\ Unlock(r)
  <2>1. Typed'
    BY <1>4, <1>5, <1>6, <1>8, EndTyped DEF Typed
  <2> QED
    BY <1>4, <1>8, <2>1, EndShape
<1> QED
  BY <1>1, <1>7, <1>8 DEF RedeemedAs

LEMMA StoreTyped ==
  ASSUME Typed, Shape, NEW r \in Request, StoreSubscription(r)
  PROVE  Typed'
<1>1. /\ request[r].at \in Provider /\ request[r].held \in SignIn
      /\ request[r].held \in Held /\ request[r].held.login \in Login
  BY DEF StoreSubscription, Shape, Working, SignIn, Held
<1>2. row' \in [Provider -> Held] /\ lost' \subseteq Login /\ troubled' \in BOOLEAN
  BY <1>1 DEF StoreSubscription, Trouble, Typed
<1>3. Ends(r) /\ Unlock(r) /\ UNCHANGED <<login, save, vendor, replayed>>
  BY DEF StoreSubscription
<1> QED
  BY <1>2, <1>3, EndTyped DEF Typed, vendor

LEMMA TypedStep == Typed /\ Shape /\ [Next]_vars => Typed'
<1> SUFFICES ASSUME Typed, Shape, [Next]_vars
             PROVE  Typed'
  OBVIOUS
<1>1. ASSUME NEW l \in Login,
             \/ StartSubscriptionLogin(l) \/ FailSubscriptionLogin(l) \/ ForgetLogin(l)
      PROVE  Typed'
  BY <1>1 DEF StartSubscriptionLogin, FailSubscriptionLogin, ForgetLogin, Away, Held, vendor, Typed
<1>2. ASSUME NEW l \in Login, FinishSubscriptionLogin(l)
      PROVE  Typed'
  BY <1>2, SubscriptionAssumption
     DEF FinishSubscriptionLogin, Trouble, Held, SignIn, Number, Typed
<1>3. ASSUME NEW l \in Login, Expire(l)
      PROVE  Typed'
  BY <1>3, SubscriptionAssumption DEF Expire, Trouble, Number, Typed
<1>4. ASSUME NEW s \in Save, NEW l \in Login, NEW p \in Provider, TakeSubscriptionLogin(s, l, p)
      PROVE  Typed'
  BY <1>4 DEF TakeSubscriptionLogin, Away, Held, vendor, Typed
<1>5. ASSUME NEW s \in Save, SaveProvider(s)
      PROVE  Typed'
  BY <1>5, SaveTyped
<1>6. ASSUME NEW p \in Provider, DropSubscription(p)
      PROVE  Typed'
  BY <1>6 DEF DropSubscription, Trouble, Held, vendor, Typed
<1>7. ASSUME NEW r \in Request, NEW p \in Provider, ReadProvider(r, p)
      PROVE  Typed'
  BY <1>7 DEF ReadProvider, Held, vendor, Typed
<1>8. ASSUME NEW r \in Request, NoRenewal(r)
      PROVE  Typed'
  BY <1>8, IdleTyped DEF NoRenewal, Ends, vendor, Typed
<1>9. ASSUME NEW r \in Request, Lock(r)
      PROVE  Typed'
  BY <1>9 DEF Lock, Goes, Shape, Working, vendor, Typed
<1>10. ASSUME NEW r \in Request, SecondLook(r)
       PROVE  Typed'
  BY <1>10, SecondLookTyped
<1>11. ASSUME NEW r \in Request, Redeem(r)
       PROVE  Typed'
  BY <1>11, RedeemTyped
<1>12. ASSUME NEW r \in Request, RedeemFails(r)
       PROVE  Typed'
  BY <1>12, EndTyped DEF RedeemFails, vendor, Typed
<1>13. ASSUME NEW r \in Request, StoreSubscription(r)
       PROVE  Typed'
  BY <1>13, StoreTyped
<1>14. CASE Restart
  BY <1>14, IdleTyped DEF Restart, Away, Idle, Trouble, Held, SignIn, Shape, Working, Saving, vendor, Typed
<1>15. CASE UNCHANGED vars
  BY <1>15 DEF vars, vendor, Typed
<1> QED
  BY <1>1, <1>2, <1>3, <1>4, <1>5, <1>6, <1>7, <1>8, <1>9, <1>10, <1>11, <1>12, <1>13, <1>14, <1>15
     DEF Next, Renewal

LEMMA ShapeStep == Typed /\ Shape /\ [Next]_vars => Shape'
<1> SUFFICES ASSUME Typed, Shape, [Next]_vars
             PROVE  Shape'
  OBVIOUS
<1> USE DEF Shape, Working, Locking, Saving
<1>1. ASSUME UNCHANGED <<lock, request, save>>
      PROVE  Shape'
  BY <1>1
<1>2. ASSUME NEW s \in Save, NEW l \in Login, NEW p \in Provider, TakeSubscriptionLogin(s, l, p)
      PROVE  Shape'
  BY <1>2 DEF TakeSubscriptionLogin, Held, Typed
<1>3. ASSUME NEW s \in Save, SaveProvider(s)
      PROVE  Shape'
  BY <1>3 DEF SaveProvider, Typed
<1>4. ASSUME NEW r \in Request, NEW p \in Provider, ReadProvider(r, p)
      PROVE  Shape'
  BY <1>4, SubscriptionAssumption DEF ReadProvider, Held, Typed
<1>5. ASSUME NEW r \in Request, NoRenewal(r)
      PROVE  Shape'
  BY <1>5, SubscriptionAssumption DEF NoRenewal, Ends, Idle, Typed
<1>6. ASSUME NEW r \in Request, Lock(r)
      PROVE  Shape'
  BY <1>6, SubscriptionAssumption DEF Lock, Goes, Typed
<1>7. ASSUME NEW r \in Request, SecondLook(r)
      PROVE  Shape'
  <2>1. CASE Ends(r) /\ Unlock(r)
    BY <1>7, <2>1, EndShape DEF SecondLook
  <2>2. CASE Goes(r, "renew") /\ UNCHANGED lock
    BY <1>7, <2>2 DEF SecondLook, Goes, Typed
  <2> QED
    BY <1>7, <2>1, <2>2 DEF SecondLook
<1>8. ASSUME NEW r \in Request, Redeem(r)
      PROVE  Shape'
  BY <1>8, RedeemTyped
<1>9. ASSUME NEW r \in Request, RedeemFails(r) \/ StoreSubscription(r)
      PROVE  Shape'
  BY <1>9, EndShape DEF RedeemFails, StoreSubscription
<1>10. CASE Restart
  BY <1>10, SubscriptionAssumption DEF Restart, Idle, Typed
<1> QED
  BY <1>1, <1>2, <1>3, <1>4, <1>5, <1>6, <1>7, <1>8, <1>9, <1>10
     DEF Next, Renewal, StartSubscriptionLogin, FailSubscriptionLogin, ForgetLogin,
         FinishSubscriptionLogin, Expire, DropSubscription, vars
-----------------------------------------------------------------------------
(* A login's tokens stay in one place.                                     *)

LEMMA Logins ==
  ASSUME Typed, Shape
  PROVE  /\ \A p \in Provider : Filled(p) => row[p].login \in Login
         /\ \A l \in Login : Granted(l) => login[l].granted \in SignIn
         /\ \A s \in Save : Saving(s) => save[s].granted.login \in Login
         /\ \A r \in Request : Working(r) => request[r].held.login \in Login
<1>1. \A p \in Provider : row[p] \in SignIn \cup {None}
  BY DEF Typed, Held
<1>2. \A l \in Login : login[l].granted \in SignIn \cup {None}
  BY DEF Typed, Held
<1> QED
  BY <1>1, <1>2 DEF Filled, Granted, Shape, SignIn

(* A request of one login goes on, or ends, and no other is concerned.     *)
LEMMA OwnedKeeps ==
  ASSUME Typed, Shape, Owned, NEW r \in Request, Working(r),
         \A t \in Request : t # r => request'[t] = request[t],
         \/ request'[r].pc = "idle"
         \/ /\ request'[r].at = request[r].at
            /\ request'[r].held.login = request[r].held.login,
         UNCHANGED <<row, login, save>>,
         \A m \in Login : m # request[r].held.login => issued'[m] = issued[m] /\ live'[m] = live[m],
         issued'[request[r].held.login] # 0
  PROVE  Owned'
<1>1. \A l \in Login : Unbound(l) => l # request[r].held.login
  BY DEF Unbound
<1>2. RowsApart'
  BY Logins DEF Owned, RowsApart, Filled
<1>3. RequestsBound'
  <2>1. \A t \in Request : Working(t)' => /\ Working(t) /\ request'[t].at = request[t].at
                                         /\ request'[t].held.login = request[t].held.login
    BY DEF Working
  <2>2. \A t \in Request : Working(t)' => issued'[request'[t].held.login] # 0
    BY <2>1, Logins DEF Owned, RequestsBound
  <2> QED
    BY <2>1, <2>2 DEF Owned, RequestsBound, Filled
<1>4. \A l \in Login : Unbound(l) => Unbound(l)'
  BY DEF Unbound, Working, Filled
<1>5. ASSUME NEW l \in Login, NEW s, Fresh(l, s), Unbound(l)
      PROVE  Fresh(l, s)'
  BY <1>1, <1>5 DEF Fresh
<1>6. GrantedOnce'
  BY <1>4, <1>5 DEF Owned, GrantedOnce, Granted
<1>7. SavedOnce'
  BY <1>4, <1>5, Logins DEF Owned, SavedOnce, Saving, Granted
<1> QED
  BY <1>2, <1>3, <1>6, <1>7 DEF Owned

LEMMA RequestGoesOwned ==
  ASSUME Typed, Shape, Owned, NEW r \in Request,
         NoRenewal(r) \/ Lock(r) \/ SecondLook(r) \/ RedeemFails(r)
  PROVE  Owned'
<1>1. Working(r) /\ UNCHANGED <<row, login, save, issued, live>>
  BY DEF NoRenewal, Lock, SecondLook, RedeemFails, vendor, Working
<1>2. Ends(r) \/ Goes(r, "look") \/ Goes(r, "renew")
  BY DEF NoRenewal, Lock, SecondLook, RedeemFails
<1>3. /\ \A t \in Request : t # r => request'[t] = request[t]
      /\ \/ request'[r].pc = "idle"
         \/ /\ request'[r].at = request[r].at
            /\ request'[r].held.login = request[r].held.login
  BY <1>2 DEF Ends, Goes, Idle, Typed
<1>4. issued[request[r].held.login] # 0
  BY <1>1 DEF Owned, RequestsBound
<1> QED
  BY <1>1, <1>3, <1>4, OwnedKeeps

LEMMA RedeemOwned ==
  ASSUME Typed, Shape, Owned, NEW r \in Request, Redeem(r)
  PROVE  Owned'
<1>1. PICK refresh \in Number, told \in BOOLEAN : RedeemedAs(r, refresh, told)
  BY RedeemDoes
<1> DEFINE l == request[r].held.login
           n == issued[l] + 1
<1>2. /\ request[r].held \in SignIn /\ l \in Login /\ n \in Number /\ issued[l] \in Nat
      /\ issued' = [issued EXCEPT ![l] = n] /\ live' = [live EXCEPT ![l] = refresh]
  BY <1>1 DEF RedeemedAs, SignIn, Typed, Number
<1>3. /\ \A m \in Login : m # l => issued'[m] = issued[m] /\ live'[m] = live[m]
      /\ issued'[l] # 0
  BY <1>2 DEF Typed
<1>4. /\ \A t \in Request : t # r => request'[t] = request[t]
      /\ \/ request'[r].pc = "idle"
         \/ request'[r].at = request[r].at /\ request'[r].held.login = l
  <2>1. CASE Ends(r)
    BY <2>1 DEF Ends, Idle, Typed
  <2>2. CASE Heard(r, refresh, told)
    <3>1. /\ request'[r] = [pc |-> "store", at |-> request[r].at,
                            held |-> Renewed(request[r].held, refresh, told)]
          /\ \A t \in Request : t # r => request'[t] = request[t]
      BY <1>2, <2>2, RedeemHeard
    <3>2. Renewed(request[r].held, refresh, told).login = l
      BY <1>2, RenewedIs
    <3> QED
      BY <3>1, <3>2
  <2> QED
    BY <1>1, <2>1, <2>2 DEF RedeemedAs
<1>5. Working(r) /\ UNCHANGED <<row, login, save>>
  BY DEF Redeem, Working
<1> HIDE DEF n
<1> QED
  BY <1>3, <1>4, <1>5, OwnedKeeps

(* A save puts the login it carries where no other holds it.               *)
LEMMA SaveOwned ==
  ASSUME Typed, Shape, Owned, NEW s \in Save, SaveProvider(s)
  PROVE  Owned'
<1> DEFINE p == save[s].at
           l == save[s].granted.login
<1>1. /\ Saving(s) /\ p \in Provider /\ save[s].granted \in SignIn /\ l \in Login
      /\ Fresh(l, save[s].granted) /\ Unbound(l) /\ ~Granted(l)
  BY DEF SaveProvider, Shape, Saving, Owned, SavedOnce, SignIn
<1>2. /\ \A t \in Save : t # s => save'[t] = save[t]
      /\ save'[s].at = None /\ UNCHANGED <<login, request, issued, live>>
  BY DEF SaveProvider, Typed, vendor
<1>3. \/ row' = [row EXCEPT ![p] = save[s].granted]
      \/ UNCHANGED row
  BY DEF SaveProvider
<1>4. \A q \in Provider : /\ q # p => row'[q] = row[q]
                          /\ row'[q] = row[q] \/ (q = p /\ row'[q] = save[s].granted)
  BY <1>1, <1>3 DEF Typed
<1> HIDE DEF p
<1>5. RowsApart'
  BY <1>1, <1>2, <1>4 DEF Owned, RowsApart, Unbound, Filled, Fresh
<1>6. RequestsBound'
  BY <1>1, <1>2, <1>4 DEF Owned, RequestsBound, Unbound, Filled, Working
<1>7. \A m \in Login : Unbound(m) /\ m # l => Unbound(m)'
  BY <1>2, <1>4 DEF Unbound, Filled, Working
<1>8. GrantedOnce'
  BY <1>1, <1>2, <1>7 DEF Owned, GrantedOnce, Granted, Fresh
<1>9. SavedOnce'
  <2>1. \A t \in Save : Saving(t)' => Saving(t) /\ t # s /\ save'[t] = save[t]
    BY <1>2 DEF Saving
  <2>2. \A t \in Save : Saving(t)' => save[t].granted.login # l
    BY <1>1, <2>1 DEF Owned, SavedOnce
  <2> QED
    BY <1>2, <1>7, <2>1, <2>2, Logins DEF Owned, SavedOnce, Granted, Fresh
<1> QED
  BY <1>5, <1>6, <1>8, <1>9 DEF Owned

(* A store puts back what the request has renewed.                         *)
LEMMA StoreOwned ==
  ASSUME Typed, Shape, Owned, NEW r \in Request, StoreSubscription(r)
  PROVE  Owned'
<1> DEFINE p == request[r].at
           l == request[r].held.login
<1>1. Working(r) /\ p \in Provider /\ request[r].held \in SignIn /\ l \in Login
  BY DEF StoreSubscription, Shape, Working, SignIn
<1>2. /\ UNCHANGED <<login, save, issued, live>>
      /\ \A t \in Request : t # r => request'[t] = request[t]
      /\ request'[r].pc = "idle"
  BY DEF StoreSubscription, Ends, Idle, vendor, Typed
<1>3. \A q \in Provider : /\ q # p => row'[q] = row[q]
                          /\ row'[q] = row[q] \/ (q = p /\ row'[q] = request[r].held)
  BY <1>1 DEF StoreSubscription, Typed
<1>4. \A t \in Request : Working(t)' => Working(t) /\ request'[t] = request[t]
  BY <1>2 DEF Working
<1>5. /\ issued[l] # 0
      /\ \A q \in Provider : Filled(q) /\ row[q].login = l => q = p
      /\ \A t \in Request : Working(t) /\ request[t].held.login = l => request[t].at = p
  BY <1>1 DEF Owned, RequestsBound
<1> HIDE DEF p
<1>6. RowsApart'
  BY <1>2, <1>3, <1>5 DEF Owned, RowsApart, Filled
<1>7. RequestsBound'
  BY <1>2, <1>3, <1>4, <1>5 DEF Owned, RequestsBound, Filled
<1>8. \A m \in Login : Unbound(m) => Unbound(m)'
  BY <1>1, <1>3, <1>4 DEF Unbound, Filled
<1>9. GrantedOnce'
  BY <1>2, <1>8 DEF Owned, GrantedOnce, Granted, Fresh
<1>10. SavedOnce'
  BY <1>2, <1>8, Logins DEF Owned, SavedOnce, Saving, Granted, Fresh
<1> QED
  BY <1>6, <1>7, <1>9, <1>10 DEF Owned

(* A login that is started, fails or is forgotten brings nothing new.      *)
LEMMA LoginGoesOwned ==
  ASSUME Typed, Shape, Owned, NEW l \in Login,
         StartSubscriptionLogin(l) \/ FailSubscriptionLogin(l) \/ ForgetLogin(l)
  PROVE  Owned'
<1>1. \A m \in Login : Granted(m)' => Granted(m) /\ login'[m].granted = login[m].granted
  BY DEF StartSubscriptionLogin, FailSubscriptionLogin, ForgetLogin, Away, Granted, Typed
<1>2. UNCHANGED <<row, request, save, issued, live>>
  BY DEF StartSubscriptionLogin, FailSubscriptionLogin, ForgetLogin, vendor
<1>3. \A m \in Login : Unbound(m) => Unbound(m)'
  BY <1>2 DEF Unbound, Filled, Working
<1>4. RowsApart' /\ RequestsBound'
  BY <1>2 DEF Owned, RowsApart, RequestsBound, Filled, Working
<1>5. GrantedOnce'
  <2> SUFFICES ASSUME NEW m \in Login, Granted(m)'
               PROVE  Fresh(m, login[m].granted)' /\ Unbound(m)'
    BY DEF GrantedOnce
  <2>1. Granted(m) /\ login'[m].granted = login[m].granted
    BY <1>1
  <2>2. Fresh(m, login[m].granted) /\ Unbound(m)
    BY <2>1 DEF Owned, GrantedOnce
  <2> QED
    BY <1>2, <1>3, <2>1, <2>2 DEF Fresh
<1>6. SavedOnce'
  BY <1>1, <1>2, <1>3, Logins DEF Owned, SavedOnce, Saving, Fresh
<1> QED
  BY <1>4, <1>5, <1>6 DEF Owned

(* What a login is granted is new.                                         *)
LEMMA FinishOwned ==
  ASSUME Typed, Shape, Owned, NEW l \in Login, FinishSubscriptionLogin(l)
  PROVE  Owned'
<1>1. PICK refresh \in {0, 1}, told \in BOOLEAN :
        /\ live' = [live EXCEPT ![l] = refresh]
        /\ login' = [login EXCEPT ![l] = [state |-> "over",
             granted |-> [login |-> l, access |-> 1, refresh |-> refresh, told |-> told]]]
  BY DEF FinishSubscriptionLogin
<1>2. /\ issued[l] = 0 /\ UNCHANGED <<row, request, save>>
      /\ issued' = [issued EXCEPT ![l] = 1]
  BY DEF FinishSubscriptionLogin
<1>3. /\ \A m \in Login : m # l => /\ login'[m] = login[m] /\ live'[m] = live[m]
                                   /\ issued'[m] = issued[m]
      /\ login'[l].granted.login = l /\ login'[l].granted.refresh = live'[l] /\ issued'[l] = 1
  BY <1>1, <1>2 DEF Typed
<1>4. Unbound(l) /\ \A s \in Save : Saving(s) => save[s].granted.login # l
  BY <1>2 DEF Owned, RowsApart, RequestsBound, SavedOnce, Fresh, Unbound
<1>5. \A m \in Login : Unbound(m) => Unbound(m)'
  BY <1>2 DEF Unbound, Filled, Working
<1>6. RowsApart' /\ RequestsBound'
  BY <1>2, <1>3, Logins DEF Owned, RowsApart, RequestsBound, Filled, Working
<1>7. GrantedOnce'
  <2> SUFFICES ASSUME NEW m \in Login, Granted(m)'
               PROVE  Fresh(m, login[m].granted)' /\ Unbound(m)'
    BY DEF GrantedOnce
  <2>1. CASE m = l
    BY <1>3, <1>4, <1>5, <2>1 DEF Fresh
  <2>2. CASE m # l
    <3>1. Granted(m) /\ login'[m] = login[m]
      BY <1>3, <2>2 DEF Granted
    <3>2. Fresh(m, login[m].granted) /\ Unbound(m)
      BY <3>1 DEF Owned, GrantedOnce
    <3> QED
      BY <1>3, <1>5, <2>2, <3>1, <3>2 DEF Fresh
  <2> QED
    BY <2>1, <2>2
<1>8. SavedOnce'
  BY <1>2, <1>3, <1>4, <1>5, Logins DEF Owned, SavedOnce, Saving, Granted, Fresh
<1> QED
  BY <1>6, <1>7, <1>8 DEF Owned

LEMMA OwnedStep == Typed /\ Shape /\ Owned /\ [Next]_vars => Owned'
<1> SUFFICES ASSUME Typed, Shape, Owned, [Next]_vars
             PROVE  Owned'
  OBVIOUS
<1> USE DEF Owned, RowsApart, RequestsBound, GrantedOnce, SavedOnce
<1> USE DEF Unbound, Fresh, Filled, Granted, Working, Saving
<1>1. ASSUME NEW l \in Login,
             StartSubscriptionLogin(l) \/ FailSubscriptionLogin(l) \/ ForgetLogin(l)
      PROVE  Owned'
  BY <1>1, LoginGoesOwned
<1>2. ASSUME NEW l \in Login, FinishSubscriptionLogin(l)
      PROVE  Owned'
  BY <1>2, FinishOwned
<1>3. ASSUME NEW l \in Login, Expire(l)
      PROVE  Owned'
  BY <1>3 DEF Expire
<1>4. ASSUME NEW s \in Save, NEW l \in Login, NEW p \in Provider, TakeSubscriptionLogin(s, l, p)
      PROVE  Owned'
  BY <1>4 DEF TakeSubscriptionLogin, Away, vendor, Typed
<1>5. ASSUME NEW s \in Save, SaveProvider(s)
      PROVE  Owned'
  BY <1>5, SaveOwned
<1>6. ASSUME NEW p \in Provider, DropSubscription(p)
      PROVE  Owned'
  BY <1>6 DEF DropSubscription, vendor, Typed
<1>7. ASSUME NEW r \in Request, NEW p \in Provider, ReadProvider(r, p)
      PROVE  Owned'
  BY <1>7 DEF ReadProvider, vendor, Typed
<1>8. ASSUME NEW r \in Request, NoRenewal(r) \/ Lock(r) \/ SecondLook(r) \/ RedeemFails(r)
      PROVE  Owned'
  BY <1>8, RequestGoesOwned
<1>9. ASSUME NEW r \in Request, Redeem(r)
      PROVE  Owned'
  BY <1>9, RedeemOwned
<1>10. ASSUME NEW r \in Request, StoreSubscription(r)
       PROVE  Owned'
  BY <1>10, StoreOwned
<1>11. CASE Restart
  BY <1>11 DEF Restart, Away, Idle, vendor, Typed
<1>12. CASE UNCHANGED vars
  BY <1>12 DEF vars, vendor
<1> QED
  BY <1>1, <1>2, <1>3, <1>4, <1>5, <1>6, <1>7, <1>8, <1>9, <1>10, <1>11, <1>12 DEF Next, Renewal
-----------------------------------------------------------------------------
(* A stored sign-in can be renewed.                                        *)

LEMMA RedeemRenewable ==
  ASSUME Typed, Shape, Owned, Renewable, NEW r \in Request, Redeem(r)
  PROVE  Renewable'
<1>1. PICK refresh \in Number, told \in BOOLEAN : RedeemedAs(r, refresh, told)
  BY RedeemDoes
<1> DEFINE s == request[r].held
           l == s.login
           n == issued[l] + 1
           at == request[r].at
<1>2. /\ request[r].pc = "renew" /\ s \in SignIn /\ l \in Login /\ s.refresh = live[l]
      /\ n \in Number /\ refresh \in {n, s.refresh} /\ live' = [live EXCEPT ![l] = refresh]
  BY <1>1 DEF RedeemedAs, SignIn
<1>3. /\ lock[at] = r /\ at \in Provider /\ UNCHANGED row
      /\ \A p \in Provider : lock[p] = r => p = at
      /\ \A p \in Provider : Filled(p) /\ row[p].login = l => p = at
      /\ \A t \in Request : Working(t) /\ request[t].held.login = l => request[t].at = at
  BY <1>2 DEF Redeem, Shape, Locking, Working, Owned, RequestsBound
<1>4. live'[l] = refresh /\ \A m \in Login : m # l => live'[m] = live[m]
  BY <1>2 DEF Typed
<1>5. \A t \in Request : request[t].pc = "store" => request[t].held.login # l
  <2> SUFFICES ASSUME NEW t \in Request, request[t].pc = "store", request[t].held.login = l
               PROVE  FALSE
    OBVIOUS
  <2>1. request[t].at = at
    BY <1>3 DEF Working
  <2>2. lock[at] = t
    BY <2>1 DEF Shape, Locking
  <2> QED
    BY <1>2, <1>3, <2>2
<1>6. CASE Heard(r, refresh, told) /\ UNCHANGED <<lock, lost>>
  <2>1. /\ request'[r].pc = "store" /\ request'[r].held.login = l /\ request'[r].held.refresh = refresh
        /\ \A t \in Request : t # r => request'[t] = request[t]
    <3>1. /\ request'[r] = [pc |-> "store", at |-> at, held |-> Renewed(s, refresh, told)]
          /\ \A t \in Request : t # r => request'[t] = request[t]
      BY <1>2, <1>6, RedeemHeard
    <3>2. Renewed(s, refresh, told).login = l /\ Renewed(s, refresh, told).refresh = refresh
      BY <1>2, RenewedIs
    <3> QED
      BY <3>1, <3>2
  <2> HIDE DEF s, l, n, at
  <2>2. ASSUME NEW t \in Request, request'[t].pc = "store"
        PROVE  request'[t].held.refresh = live'[request'[t].held.login]
    <3>1. CASE t = r
      BY <1>4, <2>1, <3>1
    <3>2. CASE t # r
      <4>1. request'[t] = request[t] /\ request[t].held.login # l /\ request[t].held.login \in Login
        BY <1>5, <2>1, <2>2, <3>2, Logins DEF Working
      <4> QED
        BY <1>4, <2>2, <4>1 DEF Renewable
    <3> QED
      BY <3>1, <3>2
  <2>3. ASSUME NEW p \in Provider, Filled(p)
        PROVE  \/ row[p].refresh = live'[row[p].login]
               \/ row[p].login \in lost
               \/ \E t \in Request : AboutToStore(t, p)'
    <3>1. CASE row[p].login = l
      <4>1. p = at
        BY <1>3, <2>3, <3>1
      <4>2. AboutToStore(r, p)'
        BY <1>3, <1>4, <1>6, <2>1, <3>1, <4>1 DEF AboutToStore
      <4> QED
        BY <4>2
    <3>2. CASE row[p].login # l
      <4>1. live'[row[p].login] = live[row[p].login]
        BY <1>4, <2>3, <3>2, Logins
      <4>2. \A t \in Request : AboutToStore(t, p) => AboutToStore(t, p)'
        BY <1>2, <1>3, <1>6, <2>1, <4>1 DEF AboutToStore, s
      <4> QED
        BY <2>3, <4>1, <4>2 DEF Renewable
    <3> QED
      BY <3>1, <3>2
  <2> QED
    BY <1>3, <1>6, <2>2, <2>3 DEF Renewable, Filled
<1>7. CASE Ends(r) /\ Unlock(r) /\ lost' = IF refresh = n THEN lost \cup {l} ELSE lost
  <2>1. request'[r].pc = "idle" /\ \A t \in Request : t # r => request'[t] = request[t]
    BY <1>7 DEF Ends, Idle, Typed
  <2>2. \A p \in Provider : p # at => lock'[p] = lock[p]
    BY <1>3, <1>7 DEF Unlock
  <2>3. ASSUME NEW t \in Request, request'[t].pc = "store"
        PROVE  request'[t].held.refresh = live'[request'[t].held.login]
    <3>1. request'[t] = request[t] /\ request[t].held.login # l /\ request[t].held.login \in Login
      BY <1>5, <2>1, <2>3, Logins DEF Working
    <3> QED
      BY <1>4, <2>3, <3>1 DEF Renewable
  <2>4. ASSUME NEW p \in Provider, Filled(p)
        PROVE  \/ row[p].refresh = live'[row[p].login]
               \/ row[p].login \in lost'
               \/ \E t \in Request : AboutToStore(t, p)'
    <3>1. CASE row[p].login = l
      <4>1. CASE refresh = n
        BY <1>7, <3>1, <4>1
      <4>2. CASE refresh # n
        <5>1. live' = live /\ lost' = lost
          BY <1>2, <1>7, <4>2 DEF Typed
        <5>2. ~ \E t \in Request : AboutToStore(t, p)
          BY <1>5, <3>1 DEF AboutToStore
        <5> QED
          BY <2>4, <5>1, <5>2 DEF Renewable
      <4> QED
        BY <4>1, <4>2
    <3>2. CASE row[p].login # l
      <4>1. live'[row[p].login] = live[row[p].login] /\ lost \subseteq lost'
        BY <1>4, <1>7, <2>4, <3>2, Logins
      <4>2. \A t \in Request : AboutToStore(t, p) => AboutToStore(t, p)'
        <5>1. ASSUME NEW t \in Request, AboutToStore(t, p)
              PROVE  t # r /\ p # at
          BY <1>2, <1>3, <5>1 DEF AboutToStore
        <5> QED
          BY <1>3, <2>1, <2>2, <4>1, <5>1 DEF AboutToStore
      <4> QED
        BY <2>4, <4>1, <4>2 DEF Renewable
    <3> QED
      BY <3>1, <3>2
  <2> QED
    BY <1>3, <2>3, <2>4 DEF Renewable, Filled
<1> QED
  BY <1>1, <1>6, <1>7 DEF RedeemedAs

(* A request that has nothing to store goes on, or gives the lock back.    *)
LEMMA RequestGoesRenewable ==
  ASSUME Typed, Shape, Renewable, NEW r \in Request,
         NoRenewal(r) \/ SecondLook(r) \/ RedeemFails(r)
  PROVE  Renewable'
<1>1. request[r].pc # "store" /\ UNCHANGED <<row, live, lost>>
  BY DEF NoRenewal, SecondLook, RedeemFails, vendor
<1>2. /\ \A t \in Request : t # r => request'[t] = request[t]
      /\ request'[r].pc # "store"
  <2>1. Ends(r) \/ Goes(r, "renew")
    BY DEF NoRenewal, SecondLook, RedeemFails
  <2> QED
    BY <2>1 DEF Ends, Goes, Idle, Typed
<1>3. \A p \in Provider : lock[p] # r => lock'[p] = lock[p]
  BY DEF NoRenewal, SecondLook, RedeemFails, Unlock, Typed
<1>4. \A t \in Request, p \in Provider : AboutToStore(t, p) => AboutToStore(t, p)'
  BY <1>1, <1>2, <1>3 DEF AboutToStore
<1>5. \A t \in Request : request'[t].pc = "store" => request'[t] = request[t]
  BY <1>2
<1> QED
  BY <1>1, <1>4, <1>5 DEF Renewable, Filled

(* What is stored is what the vendor takes; if it is not, the login is     *)
(* lost.                                                                   *)
LEMMA StoreRenewable ==
  ASSUME Typed, Shape, Owned, Renewable, NEW r \in Request, StoreSubscription(r)
  PROVE  Renewable'
<1> DEFINE at == request[r].at
           l == request[r].held.login
<1>1. /\ request[r].pc = "store" /\ at \in Provider /\ lock[at] = r
      /\ \A p \in Provider : lock[p] = r => p = at
      /\ request[r].held.refresh = live[l]
  BY DEF StoreSubscription, Shape, Working, Locking, Renewable
<1>2. /\ UNCHANGED live /\ lost \subseteq lost'
      /\ \A t \in Request : t # r => request'[t] = request[t]
      /\ request'[r].pc = "idle"
      /\ \A p \in Provider : lock[p] # r => lock'[p] = lock[p]
  BY DEF StoreSubscription, Ends, Unlock, Idle, vendor, Typed
<1>3. \A p \in Provider : p # at => row'[p] = row[p]
  BY <1>1 DEF StoreSubscription, Typed
<1>4. row'[at] = request[r].held \/ (row' = row /\ (row[at] = None \/ l \in lost'))
  BY <1>1 DEF StoreSubscription, Typed
<1>5. \A t \in Request : request'[t].pc = "store" => request'[t] = request[t]
  BY <1>2
<1> HIDE DEF at
<1>6. ASSUME NEW p \in Provider, Filled(p)'
      PROVE  \/ row'[p].refresh = live'[row'[p].login]
             \/ row'[p].login \in lost'
             \/ \E t \in Request : AboutToStore(t, p)'
  <2>1. CASE p # at
    <3>1. \A t \in Request : AboutToStore(t, p) => AboutToStore(t, p)'
      BY <1>1, <1>2, <1>3, <2>1 DEF AboutToStore
    <3> QED
      BY <1>2, <1>3, <1>6, <2>1, <3>1 DEF Renewable, Filled
  <2>2. CASE p = at /\ row'[at] = request[r].held
    BY <1>1, <1>2, <2>2
  <2>3. CASE p = at /\ row' = row /\ l \in lost'
    <3>1. \A t \in Request : AboutToStore(t, p) => row[p].login = l
      BY <1>1, <2>3 DEF AboutToStore
    <3> QED
      BY <1>2, <1>6, <2>3, <3>1 DEF Renewable, Filled
  <2> QED
    BY <1>4, <1>6, <2>1, <2>2, <2>3 DEF Filled
<1> QED
  BY <1>2, <1>5, <1>6 DEF Renewable

LEMMA RenewableStep ==
  Typed /\ Shape /\ Owned /\ Renewable /\ [Next]_vars => Renewable'
<1> SUFFICES ASSUME Typed, Shape, Owned, Renewable, [Next]_vars
             PROVE  Renewable'
  OBVIOUS
<1> USE DEF Renewable, AboutToStore, Filled
<1>1. ASSUME UNCHANGED <<row, lock, request, live, lost>>
      PROVE  Renewable'
  BY <1>1
<1>2. ASSUME NEW l \in Login, FinishSubscriptionLogin(l)
      PROVE  Renewable'
  <2>1. /\ issued[l] = 0 /\ UNCHANGED <<row, lock, request, lost>>
        /\ \A m \in Login : m # l => live'[m] = live[m]
    BY <1>2 DEF FinishSubscriptionLogin, Typed
  <2>2. /\ \A p \in Provider : Filled(p) => row[p].login \in Login /\ row[p].login # l
        /\ \A r \in Request : request[r].pc = "store" =>
             request[r].held.login \in Login /\ request[r].held.login # l
    BY <2>1, Logins DEF Owned, RowsApart, RequestsBound, Working
  <2> QED
    BY <2>1, <2>2
<1>3. ASSUME NEW s \in Save, SaveProvider(s)
      PROVE  Renewable'
  BY <1>3 DEF SaveProvider, Shape, Saving, Owned, SavedOnce, Fresh, Unbound, Working, vendor, Typed
<1>4. ASSUME NEW p \in Provider, DropSubscription(p)
      PROVE  Renewable'
  BY <1>4 DEF DropSubscription, vendor, Typed
<1>5. ASSUME NEW r \in Request, NEW p \in Provider, ReadProvider(r, p)
      PROVE  Renewable'
  BY <1>5 DEF ReadProvider, vendor, Typed
<1>6. ASSUME NEW r \in Request, NoRenewal(r) \/ SecondLook(r) \/ RedeemFails(r)
      PROVE  Renewable'
  BY <1>6, RequestGoesRenewable
<1>7. ASSUME NEW r \in Request, Lock(r)
      PROVE  Renewable'
  BY <1>7, SubscriptionAssumption DEF Lock, Goes, vendor, Typed
<1>8. ASSUME NEW r \in Request, Redeem(r)
      PROVE  Renewable'
  BY <1>8, RedeemRenewable
<1>9. ASSUME NEW r \in Request, StoreSubscription(r)
      PROVE  Renewable'
  BY <1>9, StoreRenewable
<1>10. CASE Restart
  BY <1>10 DEF Restart, Idle, vendor, Typed
<1> QED
  BY <1>1, <1>2, <1>3, <1>4, <1>5, <1>6, <1>7, <1>8, <1>9, <1>10
     DEF Next, Renewal, StartSubscriptionLogin, FailSubscriptionLogin, ForgetLogin,
         TakeSubscriptionLogin, Expire, vendor, vars
-----------------------------------------------------------------------------
(* As long as nothing is out of the usual.                                 *)

\* What a login or a save carries is told when it runs out.
Told ==
  /\ \A l \in Login : Granted(l) => login[l].granted.told
  /\ \A s \in Save : Saving(s) => save[s].granted.told

\* A row can be spent, or is about to be replaced.
Spendable(p) ==
  /\ row[p].told
  /\ \/ row[p].refresh = live[row[p].login]
     \/ \E r \in Request : request[r].pc = "store" /\ lock[p] = r

LEMMA CalmIs ==
  Calm <=> /\ ~replayed /\ Told
           /\ \A p \in Provider : Filled(p) => Spendable(p)
           /\ \A r \in Request : Working(r) => Abreast(r)
BY DEF Calm, Told, Spendable

(* A request whose sign-in and provider are left alone stays abreast.      *)
LEMMA AbreastStays ==
  ASSUME NEW r \in Request, Abreast(r), request'[r] = request[r],
         row'[request[r].at] = row[request[r].at], expired' = expired
  PROVE  Abreast(r)'
BY DEF Abreast, RunOut

(* Two requests cannot be behind the lock of one provider.                 *)
LEMMA OneBehindLock ==
  ASSUME Shape, NEW r \in Request, NEW t \in Request, Locking(r), Locking(t),
         request[r].at = request[t].at
  PROVE  r = t
BY DEF Shape, Locking

LEMMA RequestGoesCalm ==
  ASSUME Typed, Shape, Calm, ~troubled', NEW r \in Request,
         NoRenewal(r) \/ Lock(r) \/ SecondLook(r) \/ RedeemFails(r)
  PROVE  Calm'
<1>1. UNCHANGED <<row, login, save, issued, live, expired>> /\ Abreast(r)
  BY DEF NoRenewal, Lock, SecondLook, RedeemFails, vendor, Calm, Working
<1>2. /\ \A t \in Request : t # r => request'[t] = request[t]
      /\ \/ request'[r].pc = "idle"
         \/ /\ request'[r].at = request[r].at /\ request'[r].held = request[r].held
            /\ \/ request[r].pc = "held" /\ request'[r].pc = "look" /\ ~Ready(request[r].held)
               \/ /\ request[r].pc = "look" /\ request'[r].pc = "renew"
                  /\ ~Good(row[request[r].at])
  <2>1. CASE NoRenewal(r) \/ RedeemFails(r)
    BY <2>1 DEF NoRenewal, RedeemFails, Ends, Idle, Typed
  <2>2. CASE Lock(r)
    BY <2>2 DEF Lock, Goes, Typed
  <2>3. CASE SecondLook(r)
    <3>1. \/ Ends(r)
          \/ ~Good(row[request[r].at]) /\ Goes(r, "renew")
      BY <2>3 DEF SecondLook, Trouble
    <3> QED
      BY <2>3, <3>1 DEF SecondLook, Ends, Goes, Idle, Typed
  <2> QED
    BY <2>1, <2>2, <2>3
<1>3. request[r].pc # "store" /\ \A p \in Provider : lock[p] = None \/ lock[p] = r \/ lock'[p] = lock[p]
  BY DEF NoRenewal, Lock, SecondLook, RedeemFails, Unlock, Typed
<1>4. ~replayed'
  <2>1. CASE RedeemFails(r)
    <3>1. request[r].pc = "renew" /\ row[request[r].at] = request[r].held /\ Filled(request[r].at)
      BY <1>1, <2>1 DEF RedeemFails, Abreast, Filled
    <3>2. request[r].at \in Provider /\ lock[request[r].at] = r
      BY <3>1 DEF Shape, Working, Locking
    <3>3. request[r].held.refresh = live[request[r].held.login]
      BY <3>1, <3>2 DEF Calm
    <3> QED
      BY <2>1, <3>3 DEF RedeemFails, Calm
  <2>2. CASE ~RedeemFails(r)
    BY <2>2 DEF NoRenewal, Lock, SecondLook, Calm
  <2> QED
    BY <2>1, <2>2
<1>5. Told'
  BY <1>1 DEF Told, Calm, Granted, Saving
<1>6. ASSUME NEW p \in Provider, Filled(p)'
      PROVE  Spendable(p)'
  <2>1. Spendable(p)
    BY <1>1, <1>6 DEF Calm, Spendable, Filled
  <2>2. ASSUME NEW t \in Request, request[t].pc = "store", lock[p] = t
        PROVE  request'[t].pc = "store" /\ lock'[p] = t
    BY <1>2, <1>3, <2>2, SubscriptionAssumption
  <2> QED
    BY <1>1, <2>1, <2>2 DEF Spendable
<1>7. ASSUME NEW t \in Request, Working(t)'
      PROVE  Abreast(t)'
  <2>1. CASE t # r
    BY <1>1, <1>2, <1>7, <2>1, AbreastStays DEF Calm, Working
  <2>2. CASE t = r
    <3>1. request'[r].pc # "idle" /\ row[request[r].at].told
      <4>1. Working(r) /\ request'[r].pc # "idle"
        BY <1>2, <1>7, <2>2 DEF Working
      <4>2. request[r].at \in Provider /\ Filled(request[r].at)
        BY <1>1, <4>1 DEF Shape, Abreast, Filled
      <4> QED
        BY <4>1, <4>2 DEF Calm
    <3> QED
      BY <1>1, <1>2, <2>2, <3>1 DEF Abreast, RunOut, Ready, Good
  <2> QED
    BY <2>1, <2>2
<1> QED
  BY <1>4, <1>5, <1>6, <1>7, CalmIs DEF Calm, Told, Spendable
LEMMA RedeemCalm ==
  ASSUME Typed, Shape, Owned, Calm, ~troubled', NEW r \in Request, Redeem(r)
  PROVE  Calm'
<1>1. PICK refresh \in Number, told \in BOOLEAN : RedeemedAs(r, refresh, told)
  BY RedeemDoes
<1> DEFINE s == request[r].held
           l == s.login
           n == issued[l] + 1
           at == request[r].at
<1>2. /\ request[r].pc = "renew" /\ s \in SignIn /\ l \in Login /\ n \in Number
      /\ issued[l] \in Nat /\ expired[l] \in Nat /\ expired[l] <= issued[l]
      /\ live' = [live EXCEPT ![l] = refresh]
  BY <1>1 DEF RedeemedAs, SignIn, Typed, Number
<1>3. Heard(r, refresh, told) /\ told /\ UNCHANGED lock
  BY <1>1 DEF RedeemedAs, Trouble
<1>4. UNCHANGED <<row, login, save, expired, replayed>>
  BY DEF Redeem
<1>5. /\ request'[r].pc = "store" /\ request'[r].at = at /\ request'[r].held.login = l
      /\ request'[r].held.access = n /\ request'[r].held.told
      /\ \A t \in Request : t # r => request'[t] = request[t]
  <2>1. /\ request'[r] = [pc |-> "store", at |-> at, held |-> Renewed(s, refresh, told)]
        /\ \A t \in Request : t # r => request'[t] = request[t]
    BY <1>2, <1>3, RedeemHeard
  <2>2. /\ Renewed(s, refresh, told).login = l /\ Renewed(s, refresh, told).access = n
        /\ Renewed(s, refresh, told).told = told
    BY <1>2, RenewedIs
  <2>3. /\ request'[r].pc = "store" /\ request'[r].at = at
        /\ request'[r].held = Renewed(s, refresh, told)
    BY <2>1
  <2> HIDE DEF s, l, n, at
  <2> QED
    BY <1>3, <2>1, <2>2, <2>3
<1>6. /\ at \in Provider /\ lock[at] = r /\ Filled(at) /\ row[at] = s /\ RunOut(s)
      /\ \A p \in Provider : Filled(p) /\ row[p].login = l => p = at
  BY <1>2 DEF Shape, Working, Locking, Calm, Abreast, Filled, Owned, RequestsBound
<1> HIDE DEF at, n
<1>7. Told'
  BY <1>4 DEF Told, Calm, Granted, Saving
<1>8. ASSUME NEW p \in Provider, Filled(p)'
      PROVE  Spendable(p)'
  <2>1. Spendable(p) /\ Filled(p)
    BY <1>4, <1>8 DEF Calm, Spendable, Filled
  <2>2. CASE p = at
    BY <1>3, <1>4, <1>5, <1>6, <2>1, <2>2 DEF Spendable
  <2>3. CASE p # at
    <3>1. row[p].login # l /\ row[p].login \in Login
      BY <1>6, <2>1, <2>3, Logins
    <3>2. live'[row[p].login] = live[row[p].login]
      BY <1>2, <3>1 DEF Typed
    <3>3. \A t \in Request : request[t].pc = "store" => request'[t].pc = "store"
      BY <1>5
    <3> QED
      BY <1>3, <1>4, <2>1, <3>2, <3>3 DEF Spendable
  <2> QED
    BY <2>2, <2>3
<1>9. ASSUME NEW t \in Request, Working(t)'
      PROVE  Abreast(t)'
  <2>1. CASE t # r
    BY <1>4, <1>5, <1>9, <2>1, AbreastStays DEF Calm, Working
  <2>2. CASE t = r
    <3>1. ~(n <= expired[l])
      BY <1>2 DEF n
    <3>2. ~(request'[r].held.access <= expired'[request'[r].held.login])
      BY <1>4, <1>5, <3>1
    <3>3. row'[at].access <= expired'[row'[at].login] /\ row'[at] # None /\ row'[at].login = l
      BY <1>4, <1>6 DEF RunOut, Filled
    <3> QED
      BY <1>5, <2>2, <3>2, <3>3 DEF Abreast, RunOut
  <2> QED
    BY <2>1, <2>2
<1> QED
  BY <1>4, <1>7, <1>8, <1>9, CalmIs DEF Calm, Told, Spendable

LEMMA StoreCalm ==
  ASSUME Typed, Shape, Owned, Renewable, Calm, ~troubled', NEW r \in Request, StoreSubscription(r)
  PROVE  Calm'
<1> DEFINE s == request[r].held
           at == request[r].at
<1>1. /\ request[r].pc = "store" /\ at \in Provider /\ lock[at] = r /\ s \in SignIn
      /\ Filled(at) /\ RunOut(row[at]) /\ s.told /\ row[at].login = s.login
      /\ s.refresh = live[s.login] /\ ~(s.access <= expired[s.login])
  BY DEF StoreSubscription, Shape, Working, Locking, Calm, Abreast, Filled, Renewable, RunOut
<1>2. row' = [row EXCEPT ![at] = s]
  BY <1>1 DEF StoreSubscription, Trouble, Filled
<1>3. /\ UNCHANGED <<login, save, issued, live, expired, replayed>>
      /\ \A t \in Request : t # r => request'[t] = request[t]
      /\ request'[r].pc = "idle"
      /\ \A p \in Provider : lock[p] # r => lock'[p] = lock[p]
      /\ \A p \in Provider : lock[p] = r => p = at
  BY DEF StoreSubscription, Ends, Unlock, Idle, vendor, Typed, Shape
<1>4. row'[at] = s /\ s # None /\ \A p \in Provider : p # at => row'[p] = row[p]
  BY <1>1, <1>2, SubscriptionAssumption DEF Typed
<1> HIDE DEF s, at
<1>5. Told'
  BY <1>3 DEF Told, Calm, Granted, Saving
<1>6. ASSUME NEW p \in Provider, Filled(p)'
      PROVE  Spendable(p)'
  <2>1. CASE p = at
    BY <1>1, <1>3, <1>4, <2>1 DEF Spendable
  <2>2. CASE p # at
    <3>1. Spendable(p) /\ row'[p] = row[p]
      BY <1>4, <1>6, <2>2 DEF Calm, Spendable, Filled
    <3>2. ASSUME NEW t \in Request, request[t].pc = "store", lock[p] = t
          PROVE  request'[t].pc = "store" /\ lock'[p] = t
      BY <1>3, <2>2, <3>2
    <3> QED
      BY <1>3, <3>1, <3>2 DEF Spendable
  <2> QED
    BY <2>1, <2>2
<1>7. ASSUME NEW t \in Request, Working(t)'
      PROVE  Abreast(t)'
  <2>1. t # r /\ request'[t] = request[t] /\ Working(t)
    BY <1>3, <1>7 DEF Working
  <2>2. Abreast(t) /\ request[t].at \in Provider
    BY <2>1 DEF Calm, Shape
  <2>3. CASE request[t].at # at
    BY <1>3, <1>4, <2>1, <2>2, <2>3, AbreastStays
  <2>4. CASE request[t].at = at
    <3>1. ~Locking(t)
      BY <1>1, <2>1, <2>4, OneBehindLock DEF Locking, at
    <3>2. request[t].pc = "held"
      BY <2>1, <3>1 DEF Working, Locking, Typed
    <3>3. RunOut(request[t].held) /\ request[t].held.login = s.login
      BY <1>1, <2>2, <2>4, <3>2 DEF Abreast
    <3>4. request'[t].held.access <= expired'[request'[t].held.login]
      BY <1>3, <2>1, <3>3 DEF RunOut
    <3>5. request'[t].held.told
      BY <2>1, <2>2 DEF Abreast
    <3>6. row'[request'[t].at] = s /\ request'[t].pc = "held" /\ s.login = request'[t].held.login
      BY <1>4, <2>1, <2>4, <3>2, <3>3
    <3>7. ~(s.access <= expired'[s.login])
      BY <1>1, <1>3
    <3> QED
      BY <1>4, <3>4, <3>5, <3>6, <3>7 DEF Abreast, RunOut
  <2> QED
    BY <2>3, <2>4
<1> QED
  BY <1>3, <1>5, <1>6, <1>7, CalmIs DEF Calm, Told, Spendable
LEMMA FinishCalm ==
  ASSUME Typed, Shape, Owned, Calm, ~troubled', NEW l \in Login, FinishSubscriptionLogin(l)
  PROVE  Calm'
<1>1. PICK refresh \in {0, 1}, told \in BOOLEAN :
        /\ live' = [live EXCEPT ![l] = refresh]
        /\ login' = [login EXCEPT ![l] = [state |-> "over",
             granted |-> [login |-> l, access |-> 1, refresh |-> refresh, told |-> told]]]
        /\ Trouble(~told)
  BY DEF FinishSubscriptionLogin
<1>2. told /\ issued[l] = 0 /\ UNCHANGED <<row, lock, request, save, expired, replayed>>
  BY <1>1 DEF FinishSubscriptionLogin, Trouble
<1>3. /\ \A m \in Login \ {l} : login'[m] = login[m] /\ live'[m] = live[m]
      /\ login'[l].granted.told
  BY <1>1, <1>2 DEF Typed
<1>4. Told'
  <2>1. ASSUME NEW m \in Login, Granted(m)'
        PROVE  login'[m].granted.told
    <3>1. CASE m = l
      BY <1>3, <3>1
    <3>2. CASE m # l
      BY <1>3, <2>1, <3>2 DEF Calm, Granted
    <3> QED
      BY <3>1, <3>2
  <2>2. ASSUME NEW s \in Save, Saving(s)'
        PROVE  save'[s].granted.told
    BY <1>2, <2>2 DEF Calm, Saving
  <2> QED
    BY <2>1, <2>2 DEF Told
<1>5. ASSUME NEW p \in Provider, Filled(p)'
      PROVE  Spendable(p)'
  <2>1. Spendable(p) /\ row[p].login \in Login /\ row[p].login # l
    BY <1>2, <1>5, Logins DEF Calm, Spendable, Filled, Owned, RowsApart
  <2>2. live'[row[p].login] = live[row[p].login] /\ row'[p] = row[p]
    BY <1>2, <1>3, <2>1
  <2> QED
    BY <1>2, <2>1, <2>2 DEF Spendable
<1>6. \A r \in Request : Working(r)' => Abreast(r)'
  BY <1>2, AbreastStays DEF Calm, Working
<1> QED
  BY <1>2, <1>4, <1>5, <1>6, CalmIs DEF Calm, Told, Spendable

\* What runs out is waited for by nobody.
LEMMA ExpireCalm ==
  ASSUME Typed, Shape, Calm, ~troubled', NEW l \in Login, Expire(l)
  PROVE  Calm'
<1>1. UNCHANGED <<row, login, lock, request, save, live, replayed>>
  BY DEF Expire
<1>2. \A r \in Request : Working(r) => request[r].pc # "store" /\ ~RunOut(request[r].held)
  BY DEF Expire, Trouble, Working
<1>3. Told'
  BY <1>1 DEF Told, Calm, Granted, Saving
<1>4. \A p \in Provider : Filled(p)' => Spendable(p)'
  BY <1>1 DEF Calm, Spendable, Filled
<1>5. ASSUME NEW r \in Request, Working(r)'
      PROVE  Abreast(r)'
  <2>1. Working(r) /\ Abreast(r)
    BY <1>1, <1>5 DEF Calm, Working
  <2>2. request[r].pc = "held" /\ row[request[r].at] = request[r].held
    BY <1>2, <2>1 DEF Abreast, Working, Typed
  <2> QED
    BY <1>1, <2>1, <2>2 DEF Abreast
<1> QED
  BY <1>1, <1>3, <1>4, <1>5, CalmIs DEF Calm, Told, Spendable

\* A row that is filled was empty, and nobody worked with it.
LEMMA SaveCalm ==
  ASSUME Typed, Shape, Owned, Calm, ~troubled', NEW s \in Save, SaveProvider(s)
  PROVE  Calm'
<1> DEFINE p == save[s].at
<1>1. /\ p \in Provider /\ Saving(s) /\ save[s].granted \in SignIn /\ save[s].granted.told
      /\ save[s].granted.refresh = live[save[s].granted.login]
  BY DEF SaveProvider, Shape, Saving, Calm, Owned, SavedOnce, Fresh
<1>2. /\ UNCHANGED <<login, lock, request, live, expired, replayed>>
      /\ \A t \in Save : Saving(t)' => Saving(t) /\ save'[t] = save[t]
  BY DEF SaveProvider, Saving, vendor, Typed
<1>3. UNCHANGED row \/ (row' = [row EXCEPT ![p] = save[s].granted] /\ ~Filled(p))
  BY DEF SaveProvider, Trouble, Filled
<1>4. \A q \in Provider : /\ q # p => row'[q] = row[q]
                          /\ row'[q] = row[q] \/ (q = p /\ row'[q] = save[s].granted /\ ~Filled(p))
  BY <1>1, <1>3 DEF Typed
<1> HIDE DEF p
<1>5. Told'
  BY <1>2 DEF Told, Calm, Granted
<1>6. ASSUME NEW q \in Provider, Filled(q)'
      PROVE  Spendable(q)'
  <2>1. CASE row'[q] = row[q]
    BY <1>2, <1>6, <2>1 DEF Calm, Spendable, Filled
  <2>2. CASE row'[q] = save[s].granted
    BY <1>1, <1>2, <2>2 DEF Spendable
  <2> QED
    BY <1>4, <2>1, <2>2
<1>7. ASSUME NEW r \in Request, Working(r)'
      PROVE  Abreast(r)'
  <2>1. Working(r) /\ Abreast(r) /\ request[r].at \in Provider /\ Filled(request[r].at)
    BY <1>2, <1>7 DEF Calm, Working, Shape, Abreast, Filled
  <2>2. row'[request[r].at] = row[request[r].at]
    BY <1>4, <2>1
  <2> QED
    BY <1>2, <2>1, <2>2, AbreastStays
<1> QED
  BY <1>2, <1>5, <1>6, <1>7, CalmIs DEF Calm, Told, Spendable

LEMMA CalmStep ==
  Typed /\ Shape /\ Owned /\ Renewable /\ CalmUnlessTroubled /\ [Next]_vars => CalmUnlessTroubled'
<1> SUFFICES ASSUME Typed, Shape, Owned, Renewable, CalmUnlessTroubled, [Next]_vars, ~troubled'
             PROVE  Calm'
  BY DEF CalmUnlessTroubled
<1>1. ~troubled
  BY DEF Next, Renewal, StartSubscriptionLogin, FinishSubscriptionLogin, FailSubscriptionLogin,
     ForgetLogin, Expire, SaveProvider, TakeSubscriptionLogin, DropSubscription, ReadProvider,
     NoRenewal, Lock, SecondLook, Redeem, RedeemFails, StoreSubscription, Restart, Trouble, vars
<1>2. Calm
  BY <1>1 DEF CalmUnlessTroubled
<1>3. ASSUME NEW l \in Login,
             StartSubscriptionLogin(l) \/ FailSubscriptionLogin(l) \/ ForgetLogin(l)
      PROVE  Calm'
  <2>1. \A m \in Login : Granted(m)' => Granted(m) /\ login'[m].granted = login[m].granted
    BY <1>3 DEF StartSubscriptionLogin, FailSubscriptionLogin, ForgetLogin, Away, Granted, Typed
  <2>2. UNCHANGED <<row, lock, request, save, live, expired, replayed>>
    BY <1>3 DEF StartSubscriptionLogin, FailSubscriptionLogin, ForgetLogin, vendor
  <2> QED
    BY <1>2, <2>1, <2>2 DEF Calm, Granted, Saving, Filled, Working, Abreast, RunOut
<1>4. ASSUME NEW l \in Login, FinishSubscriptionLogin(l)
      PROVE  Calm'
  BY <1>2, <1>4, FinishCalm
<1>5. ASSUME NEW l \in Login, Expire(l)
      PROVE  Calm'
  BY <1>2, <1>5, ExpireCalm
<1>6. ASSUME NEW s \in Save, NEW l \in Login, NEW p \in Provider, TakeSubscriptionLogin(s, l, p)
      PROVE  Calm'
  <2>1. /\ \A m \in Login : Granted(m)' => Granted(m) /\ login'[m].granted = login[m].granted
        /\ \A t \in Save : Saving(t)' =>
             save'[t] = save[t] \/ (save'[t].granted = login[l].granted /\ Granted(l))
    BY <1>6 DEF TakeSubscriptionLogin, Away, Granted, Typed
  <2>2. UNCHANGED <<row, lock, request, live, expired, replayed>>
    BY <1>6 DEF TakeSubscriptionLogin, vendor
  <2>3. Told'
    BY <1>2, <2>1 DEF Told, Calm, Granted, Saving
  <2> QED
    BY <1>2, <2>2, <2>3 DEF Calm, Told, Filled, Working, Abreast, RunOut
<1>7. ASSUME NEW s \in Save, SaveProvider(s)
      PROVE  Calm'
  BY <1>2, <1>7, SaveCalm
<1>8. ASSUME NEW p \in Provider, DropSubscription(p)
      PROVE  Calm'
  BY <1>8 DEF DropSubscription, Trouble
<1>9. ASSUME NEW r \in Request, NEW p \in Provider, ReadProvider(r, p)
      PROVE  Calm'
  BY <1>2, <1>9 DEF ReadProvider, Calm, Granted, Saving, Filled, Working, Abreast, RunOut, vendor, Typed
<1>10. ASSUME NEW r \in Request, NoRenewal(r) \/ Lock(r) \/ SecondLook(r) \/ RedeemFails(r)
       PROVE  Calm'
  BY <1>2, <1>10, RequestGoesCalm
<1>11. ASSUME NEW r \in Request, Redeem(r)
       PROVE  Calm'
  BY <1>2, <1>11, RedeemCalm
<1>12. ASSUME NEW r \in Request, StoreSubscription(r)
       PROVE  Calm'
  BY <1>2, <1>12, StoreCalm
<1>13. CASE Restart
  BY <1>2, <1>13 DEF Restart, Trouble, Away, Idle, Calm, Granted, Saving, Filled, Working, Abreast, vendor, Typed
<1>14. CASE UNCHANGED vars
  BY <1>2, <1>14 DEF vars, vendor, Calm, Granted, Saving, Filled, Working, Abreast, RunOut
<1> QED
  BY <1>3, <1>4, <1>5, <1>6, <1>7, <1>8, <1>9, <1>10, <1>11, <1>12, <1>13, <1>14 DEF Next, Renewal

-----------------------------------------------------------------------------

LEMMA InitIInv == Init => IInv
<1> SUFFICES ASSUME Init
             PROVE  IInv
  OBVIOUS
<1>1. Typed
  <2>1. 0 \in Number /\ None \in Held
    BY SubscriptionAssumption DEF Number, Held
  <2>2. login \in [Login -> [state : {"unused", "running", "over", "away"}, granted : Held]]
    BY <2>1 DEF Init, Away
  <2>3. request \in [Request -> [pc : {"idle", "held", "look", "renew", "store"},
                                at : Provider \cup {None}, held : Held]]
    BY IdleTyped DEF Init
  <2>4. save \in [Save -> [at : Provider \cup {None}, granted : Held]]
    BY <2>1 DEF Init
  <2>5. issued \in [Login -> Number] /\ live \in [Login -> Number] /\ expired \in [Login -> Number]
        /\ \A l \in Login : expired[l] <= issued[l]
    BY <2>1 DEF Init
  <2>6. row \in [Provider -> Held] /\ lock \in [Provider -> Request \cup {None}]
    BY <2>1 DEF Init
  <2> QED
    BY <2>2, <2>3, <2>4, <2>5, <2>6 DEF Typed, Init
<1>2. Shape
  BY SubscriptionAssumption DEF Init, Idle, Shape, Working, Saving, Locking
<1>3. Owned /\ Renewable /\ CalmUnlessTroubled
  BY DEF Init, Idle, Away, Owned, RowsApart, RequestsBound, GrantedOnce, SavedOnce, Renewable,
     CalmUnlessTroubled, Calm, Filled, Working, Granted, Saving
<1> QED
  BY <1>1, <1>2, <1>3 DEF IInv

LEMMA IInvHolds == Spec => []IInv
<1>1. IInv /\ [Next]_vars => IInv'
  BY TypedStep, ShapeStep, OwnedStep, RenewableStep, CalmStep DEF IInv
<1> QED
  BY InitIInv, <1>1, PTL DEF Spec

(* Every variable keeps its type, and a request is behind the lock of a    *)
(* provider exactly while it looks, renews or stores.                      *)
THEOREM SignInsTyped == Spec => []TypeOK
<1>1. ASSUME Typed, Shape
      PROVE  TypeOK
  <2>1. ASSUME NEW r \in Request
        PROVE  request[r].pc \in {"look", "renew", "store"} <=> r \in {lock[p] : p \in Provider}
    BY <1>1 DEF Shape, Working, Locking
  <2> QED
    BY <1>1, <2>1 DEF Typed, TypeOK
<1> QED
  BY <1>1, IInvHolds, PTL DEF IInv

(* However many saves take from however many finished logins at once, one  *)
(* sign-in never fills two providers.                                      *)
THEOREM OneSignInFillsOne == Spec => []OneSignInOneProvider
<1>1. IInv => OneSignInOneProvider
  BY DEF IInv, Owned, RowsApart, Filled, OneSignInOneProvider
<1> QED
  BY <1>1, IInvHolds, PTL

(* However many requests find a token spent, none sends a refresh token    *)
(* that another has had replaced, while nothing goes out of the usual.     *)
THEOREM RenewalIsSentOnce == Spec => []RenewedOnce
<1>1. IInv => RenewedOnce
  BY DEF IInv, CalmUnlessTroubled, Calm, RenewedOnce
<1> QED
  BY <1>1, IInvHolds, PTL

(* Whatever fails, is edited or restarts, a stored sign-in is renewable,   *)
(* about to be, or one whose answer or store was lost on the way.          *)
THEOREM SignInsStayRenewable == Spec => []StaysRenewable
<1>1. IInv => StaysRenewable
  BY DEF IInv, Renewable, AboutToStore, Filled, StaysRenewable
<1> QED
  BY <1>1, IInvHolds, PTL
=============================================================================
