---------------------------- MODULE Subscription ----------------------------
(***************************************************************************)
(* The sign-ins Gateway holds (object/provider_subscription.go): a browser *)
(* finishes a login, a save of a provider takes what was granted, and the  *)
(* requests of that provider renew it.  The vendor answers a renewal with  *)
(* a refresh token that takes the place of the one it was asked with, so   *)
(* whoever loses the answer, or stores an older one, has lost the sign-in. *)
(*                                                                         *)
(* Tokens of a login are numbered as the vendor issues them; they run out  *)
(* in that order.                                                          *)
(***************************************************************************)
EXTENDS Naturals

CONSTANTS
  Provider,
  Request,   \* relayed requests, probes and warm-ups: all call EnsureSubscription
  Save,      \* requests that save a provider
  Login,
  MaxToken,  \* bound: tokens the vendor issues to a login
  None

VARIABLES
  row,       \* the sign-in stored with each provider
  login,     \* the map of logins
  lock,      \* subscriptionRefreshes: who holds each
  request, save,
  issued, live, expired, \* the vendor: tokens issued, the refresh token it takes, those run out
  lost,      \* logins whose last refresh token is held by nobody
  troubled,  \* whether anything has gone out of the usual
  replayed   \* whether a refresh token was sent that another has replaced

vendor == <<issued, live, expired>>
vars == <<row, login, lock, request, save, vendor, lost, troubled, replayed>>

Number == 0 .. MaxToken

\* A refresh token of number 0 is none; told: whether the expiry is known.
SignIn == [login : Login, access : Number, refresh : Number, told : BOOLEAN]
Held == SignIn \cup {None}

ASSUME SubscriptionAssumption ==
  /\ MaxToken \in Nat \ {0}
  /\ None \notin Provider \cup Request \cup SignIn

Idle == [pc |-> "idle", at |-> None, held |-> None]
Away == [state |-> "away", granted |-> None]

TypeOK ==
  /\ row \in [Provider -> Held]
  /\ login \in [Login -> [state : {"unused", "running", "over", "away"}, granted : Held]]
  /\ lock \in [Provider -> Request \cup {None}]
  /\ request \in [Request -> [pc : {"idle", "held", "look", "renew", "store"},
                              at : Provider \cup {None}, held : Held]]
  /\ save \in [Save -> [at : Provider \cup {None}, granted : Held]]
  /\ issued \in [Login -> Number] /\ live \in [Login -> Number] /\ expired \in [Login -> Number]
  /\ \A l \in Login : expired[l] <= issued[l]
  /\ \A r \in Request : request[r].pc \in {"look", "renew", "store"} <=> r \in {lock[p] : p \in Provider}
  /\ lost \subseteq Login /\ troubled \in BOOLEAN /\ replayed \in BOOLEAN

Init ==
  /\ row = [p \in Provider |-> None]
  /\ login = [l \in Login |-> [Away EXCEPT !.state = "unused"]]
  /\ lock = [p \in Provider |-> None]
  /\ request = [r \in Request |-> Idle]
  /\ save = [s \in Save |-> [at |-> None, granted |-> None]]
  /\ issued = [l \in Login |-> 0] /\ live = [l \in Login |-> 0] /\ expired = [l \in Login |-> 0]
  /\ lost = {} /\ troubled = FALSE /\ replayed = FALSE

Trouble(happened) == troubled' = (troubled \/ happened)

-----------------------------------------------------------------------------
(* Logins.                                                                 *)

\* A login waits for a browser; those that waited give way to it.
StartSubscriptionLogin(l) ==
  /\ login[l].state = "unused"
  /\ login' = [m \in Login |->
       IF m = l THEN [login[m] EXCEPT !.state = "running"]
       ELSE IF login[m].state = "running" THEN [login[m] EXCEPT !.state = "over"] ELSE login[m]]
  /\ UNCHANGED <<row, lock, request, save, vendor, lost, troubled, replayed>>

\* The code is exchanged without a lock: the login may have been given up
\* meanwhile, and finishes all the same.
FinishSubscriptionLogin(l) ==
  /\ login[l].state \in {"running", "over"} /\ issued[l] = 0
  /\ issued' = [issued EXCEPT ![l] = 1]
  /\ \E refresh \in {0, 1}, told \in BOOLEAN :
       /\ live' = [live EXCEPT ![l] = refresh]
       /\ login' = [login EXCEPT ![l] = [state |-> "over",
            granted |-> [login |-> l, access |-> 1, refresh |-> refresh, told |-> told]]]
       /\ Trouble(~told)
  /\ UNCHANGED <<row, lock, request, save, expired, lost, replayed>>

\* Refused, or nobody came.
FailSubscriptionLogin(l) ==
  /\ login[l].state = "running" /\ login' = [login EXCEPT ![l].state = "over"]
  /\ UNCHANGED <<row, lock, request, save, vendor, lost, troubled, replayed>>

\* Too old to be asked for.
ForgetLogin(l) ==
  /\ login[l].state \in {"running", "over"} /\ login' = [login EXCEPT ![l] = Away]
  /\ UNCHANGED <<row, lock, request, save, vendor, lost, troubled, replayed>>

\* Fault: what was granted stays for another save.
TakeAndKeep(s, l, p) ==
  /\ save[s].at = None /\ login[l].state = "over" /\ login[l].granted # None
  /\ save' = [save EXCEPT ![s] = [at |-> p, granted |-> login[l].granted]]
  /\ UNCHANGED <<row, login, lock, request, vendor, lost, troubled, replayed>>

\* UpdateProvider and AddProvider take what a login was granted ...
TakeSubscriptionLogin(s, l, p) ==
  /\ save[s].at = None /\ login[l].state = "over" /\ login[l].granted # None
  /\ save' = [save EXCEPT ![s] = [at |-> p, granted |-> login[l].granted]]
  /\ login' = [login EXCEPT ![l] = Away]
  /\ UNCHANGED <<row, lock, request, vendor, lost, troubled, replayed>>

\* ... and store it with the rest of the provider, or fail and have lost it.
SaveProvider(s) ==
  LET l == save[s].granted.login
      p == save[s].at
  IN /\ p # None /\ save' = [save EXCEPT ![s] = [at |-> None, granted |-> None]]
     /\ \/ row' = [row EXCEPT ![p] = save[s].granted] /\ Trouble(row[p] # None) /\ UNCHANGED lost
        \/ lost' = lost \cup {l} /\ UNCHANGED <<row, troubled>>
     /\ UNCHANGED <<login, lock, request, vendor, replayed>>

\* The provider is deleted, or switched to a key.  (A save that brings no
\* login leaves the column alone.)
DropSubscription(p) ==
  /\ row[p] # None /\ row' = [row EXCEPT ![p] = None] /\ Trouble(TRUE)
  /\ UNCHANGED <<login, lock, request, save, vendor, lost, replayed>>

-----------------------------------------------------------------------------
(* EnsureSubscription.                                                     *)

RunOut(s) == s.access <= expired[s.login]

\* Before the lock an unknown expiry counts as good, behind it as spent.
Ready(s) == ~s.told \/ ~RunOut(s)
Good(s) == s # None /\ s.told /\ ~RunOut(s)

Ends(r) == request' = [request EXCEPT ![r] = Idle]
Goes(r, pc) == request' = [request EXCEPT ![r].pc = pc]
Unlock(r) == lock' = [p \in Provider |-> IF lock[p] = r THEN None ELSE lock[p]]

ReadProvider(r, p) ==
  /\ request[r].pc = "idle" /\ row[p] # None
  /\ request' = [request EXCEPT ![r] = [pc |-> "held", at |-> p, held |-> row[p]]]
  /\ UNCHANGED <<row, login, lock, save, vendor, lost, troubled, replayed>>

\* It sends what it holds, or has nothing to renew it with.
NoRenewal(r) ==
  /\ request[r].pc = "held" /\ Ends(r)
  /\ Ready(request[r].held) \/ request[r].held.refresh = 0
  /\ UNCHANGED <<row, login, lock, save, vendor, lost, troubled, replayed>>

Lock(r) ==
  LET p == request[r].at IN
  /\ request[r].pc = "held" /\ ~Ready(request[r].held) /\ request[r].held.refresh # 0
  /\ lock[p] = None /\ lock' = [lock EXCEPT ![p] = r] /\ Goes(r, "look")
  /\ UNCHANGED <<row, login, save, vendor, lost, troubled, replayed>>

\* Fault: nobody looks whether another request has renewed it.
NoSecondLook(r) ==
  /\ request[r].pc = "look" /\ Goes(r, "renew")
  /\ UNCHANGED <<row, login, lock, save, vendor, lost, troubled, replayed>>

\* "Another request may have renewed it while this one waited."
SecondLook(r) ==
  /\ request[r].pc = "look"
  /\ \/ Good(row[request[r].at]) /\ Ends(r) /\ Unlock(r) /\ UNCHANGED troubled
     \/ ~Good(row[request[r].at]) /\ Goes(r, "renew") /\ UNCHANGED <<lock, troubled>>
     \/ Goes(r, "renew") /\ Trouble(TRUE) /\ UNCHANGED lock     \* the lookup fails
  /\ UNCHANGED <<row, login, save, vendor, lost, replayed>>

\* Fault: a renewal keeps the refresh token it was asked with.
RenewedWithOld(s, refresh, told) == [s EXCEPT !.access = issued[s.login] + 1, !.told = told]

Renewed(s, refresh, told) ==
  [s EXCEPT !.access = issued[s.login] + 1, !.refresh = refresh, !.told = told]

\* The vendor takes the refresh token, and may put a new one in its place.
\* The answer may not arrive.
Redeem(r) ==
  LET s == request[r].held
      l == s.login
      n == issued[l] + 1
  IN /\ request[r].pc = "renew" /\ s.refresh = live[l] /\ n \in Number
     /\ issued' = [issued EXCEPT ![l] = n]
     /\ \E refresh \in {n, s.refresh} :
          /\ live' = [live EXCEPT ![l] = refresh]
          /\ \/ /\ \E told \in BOOLEAN :
                     /\ request' = [request EXCEPT ![r].pc = "store", ![r].held = Renewed(s, refresh, told)]
                     /\ Trouble(~told)
                /\ UNCHANGED <<lock, lost>>
             \/ /\ Ends(r) /\ Unlock(r) /\ Trouble(TRUE)
                /\ lost' = IF refresh = n THEN lost \cup {l} ELSE lost
     /\ UNCHANGED <<row, login, save, expired, replayed>>

\* Refused, as every token is that another has replaced, or not reached.
RedeemFails(r) ==
  LET s == request[r].held IN
  /\ request[r].pc = "renew" /\ Ends(r) /\ Unlock(r)
  /\ replayed' = (replayed \/ s.refresh # live[s.login])
  /\ UNCHANGED <<row, login, save, vendor, lost, troubled>>

\* Fault: a failed store does not give the lock back.
StoreKeepsLock(r) ==
  LET s == request[r].held IN
  /\ request[r].pc = "store" /\ Ends(r)
  /\ \/ /\ row' = [row EXCEPT ![request[r].at] = IF @ = None THEN None ELSE s]
        /\ Unlock(r) /\ UNCHANGED <<lost, troubled>>
     \/ lost' = lost \cup {s.login} /\ Trouble(TRUE) /\ UNCHANGED <<row, lock>>
  /\ UNCHANGED <<login, save, vendor, replayed>>

\* storeSubscription: the sign-in column of the row as it is now, if it is.
StoreSubscription(r) ==
  LET s == request[r].held
      p == request[r].at
  IN /\ request[r].pc = "store" /\ Ends(r) /\ Unlock(r)
     /\ \/ row' = [row EXCEPT ![p] = s] /\ UNCHANGED <<lost, troubled>>
        \/ row[p] = None /\ lost' = lost \cup {s.login} /\ UNCHANGED <<row, troubled>> \* deleted
        \/ lost' = lost \cup {s.login} /\ Trouble(TRUE) /\ UNCHANGED row
     /\ UNCHANGED <<login, save, vendor, replayed>>

-----------------------------------------------------------------------------

\* A token runs out.  Out of the usual is one that does while a request is
\* still to store it, or has been waiting since the one before it ran out.
Expire(l) ==
  /\ expired[l] < issued[l] /\ expired' = [expired EXCEPT ![l] = @ + 1]
  /\ Trouble(\E r \in Request \ {q \in Request : request[q].pc = "idle"} :
               request[r].pc = "store" \/ RunOut(request[r].held))
  /\ UNCHANGED <<row, login, lock, request, save, issued, live, lost, replayed>>

\* What is in memory is gone; the rows stay.
Restart ==
  /\ login' = [l \in Login |-> IF login[l].state = "unused" THEN login[l] ELSE Away]
  /\ lock' = [p \in Provider |-> None] /\ request' = [r \in Request |-> Idle]
  /\ save' = [s \in Save |-> [at |-> None, granted |-> None]]
  /\ lost' = lost \cup {request[r].held.login : r \in {q \in Request : request[q].pc = "store"}}
                  \cup {save[s].granted.login : s \in {t \in Save : save[t].at # None}}
  /\ Trouble(\E r \in Request : request[r].pc = "store")
  /\ UNCHANGED <<row, vendor, replayed>>

Renewal(r) == NoRenewal(r) \/ Lock(r) \/ SecondLook(r) \/ Redeem(r) \/ RedeemFails(r) \/ StoreSubscription(r)

Next ==
  \/ \E l \in Login : \/ StartSubscriptionLogin(l) \/ FinishSubscriptionLogin(l)
                      \/ FailSubscriptionLogin(l) \/ ForgetLogin(l) \/ Expire(l)
  \/ \E s \in Save : SaveProvider(s) \/ \E l \in Login, p \in Provider : TakeSubscriptionLogin(s, l, p)
  \/ \E p \in Provider : DropSubscription(p)
  \/ \E r \in Request : Renewal(r) \/ \E p \in Provider : ReadProvider(r, p)
  \/ Restart

Spec == Init /\ [][Next]_vars

-----------------------------------------------------------------------------

\* One sign-in fills one provider: two rows that spend the same refresh token
\* would take it from each other.
OneSignInOneProvider ==
  \A p, q \in Provider : row[p] # None /\ row[q] # None /\ row[p].login = row[q].login => p = q

\* However many requests find a token spent, they renew it once - as long as
\* answers arrive and name an expiry, tokens outlive the requests that waited
\* for them, the database answers and nobody edits the provider's sign-in.
RenewedOnce == replayed => troubled

\* A stored sign-in can be renewed: the row holds the refresh token the vendor
\* takes, or the one who has just been given it does and is about to store
\* it - unless an answer, a store or the process itself was lost in between.
StaysRenewable ==
  \A p \in Provider :
    LET l == row[p].login IN
    row[p] # None =>
      \/ row[p].refresh = live[l] \/ l \in lost
      \/ \E r \in Request : request[r].pc = "store" /\ lock[p] = r /\ request[r].held.refresh = live[l]
                            /\ request[r].held.login = l

\* "a renewal in the middle of a request does not touch what somebody is
\* editing on the page" (storeSubscription): whose sign-in a provider holds
\* changes with a save alone.
EditStands ==
  [][\A p \in Provider :
       row'[p] # None /\ row'[p].login # (IF row[p] = None THEN None ELSE row[p].login)
         => \E s \in Save : SaveProvider(s)]_vars
=============================================================================
