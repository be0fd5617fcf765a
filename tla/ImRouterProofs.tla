---------------------------- MODULE ImRouterProofs ----------------------------
(***************************************************************************)
(* A chat and the sessions it drives, for every number of sessions, turns, *)
(* chats and closers, and feeds of any size.                               *)
(*                                                                         *)
(* None of the three properties is inductive.  That a session answers one  *)
(* prompt at a time needs that nothing answers for a session nobody has    *)
(* opened.  That no closed feed is used needs that a feed is subscribed to *)
(* one session only, the one its chat asks, and only while it is open.     *)
(* That no chat is stranded needs more than an event to read: one that is  *)
(* the end of a turn, for the others are read and waited on again.         *)
(***************************************************************************)
EXTENDS ImRouter, FiniteSetTheorems, TLAPS

Made == {s \in Session : live[s].made}

(* What can be found or is stored has been opened, and what has not been   *)
(* opened is as new.                                                       *)
OpenedOnce ==
  /\ registry \subseteq Made /\ rows \subseteq Made
  /\ \A s \in Session : ~live[s].made => live[s] = New

(* An exchange that goes on is one of a session that was opened.           *)
OfASession ==
  \A x \in Exchange : exchanges[x].pc # "none" => exchanges[x].session \in Made

(* A session is running while it has a turn, and has one turn.             *)
OneTurn ==
  \A s \in Session :
    /\ live[s].state = "running" <=> Answering(s) # {}
    /\ \A x, y \in Answering(s) : x = y

SessionInv == SessionTypeOK /\ OpenedOnce /\ OfASession /\ OneTurn

(* Whoever is at work on a session is so on one that was opened.           *)
OnOpened(w) == asks[w].pc \notin {"idle", "find", "open"} => asks[w].session \in Made

ClosersOnOpened == \A c \in Closer : closings[c].pc # "idle" => closings[c].session \in Made

(* Who is subscribed to a session has an open feed, and is a chat that     *)
(* asks this session.                                                      *)
Subscribed(w, s) == w \in live[s].subscribers

FeedIsOpen(w) ==
  \A s \in Session : Subscribed(w, s) =>
    feeds[w].open /\ asks[w].session = s /\ asks[w].pc \in {"send", "watch", "leave"}

(* Who waits, or is about to, is subscribed or has had its feed closed.    *)
EndTold(w) == \E i \in DOMAIN feeds[w].events : feeds[w].events[i] = "done"

TurnGoesOn(w, x) ==
  /\ exchanges[x].for = w /\ exchanges[x].session = asks[w].session
  /\ exchanges[x].pc \notin {"none", "store"}

EndsUp(w) ==
  \/ EndTold(w) \/ ~feeds[w].open \/ feeds[w].lostEnd
  \/ Subscribed(w, asks[w].session) /\ \E x \in Exchange : TurnGoesOn(w, x)

WillWake(w) ==
  /\ asks[w].pc = "send" => Subscribed(w, asks[w].session) \/ ~feeds[w].open
  /\ asks[w].pc = "watch" => EndsUp(w)

ChatOK(w) == OnOpened(w) /\ FeedIsOpen(w) /\ WillWake(w)

ChatInv ==
  /\ asks \in [Watcher -> Ask] /\ closings \in [Closer -> Closing]
  /\ ClosersOnOpened /\ (\A w \in Watcher : ChatOK(w)) /\ ~panicked

-----------------------------------------------------------------------------
(* What the operations do to the sessions, whoever calls them.             *)

LEMMA OpenKeepsSessionInv ==
  ASSUME SessionInv, NEW s \in Session, Open(s)
  PROVE  /\ SessionInv'
         /\ live'[s].made /\ live'[s].subscribers = {} /\ live[s].subscribers = {}
         /\ \A t \in Session \ {s} : live'[t] = live[t]
<1> DEFINE opened == [New EXCEPT !.made = TRUE]
<1>1. /\ live \in [Session -> Live] /\ ~live[s].made /\ live[s] = New
      /\ live' = [live EXCEPT ![s] = opened] /\ registry' = registry \cup {s}
      /\ UNCHANGED <<rows, feeds, exchanges, panicked>>
  BY DEF Open, SessionInv, SessionTypeOK, OpenedOnce
<1>2. opened \in Live /\ opened.made /\ opened.state = "idle" /\ opened.subscribers = {}
  BY DEF New, Live
<1> HIDE DEF opened
<1>3. live' \in [Session -> Live] /\ live'[s] = opened /\ \A t \in Session \ {s} : live'[t] = live[t]
  BY <1>1, <1>2
<1>4. SessionTypeOK'
  BY <1>1, <1>3 DEF SessionInv, SessionTypeOK
<1>5. Made \subseteq Made' /\ s \in Made'
  BY <1>2, <1>3 DEF Made
<1>6. OpenedOnce'
  BY <1>1, <1>2, <1>3, <1>5 DEF SessionInv, OpenedOnce, Made
<1>7. OfASession'
  BY <1>1, <1>5 DEF SessionInv, OfASession
<1>8. Answering(s) = {}
  BY <1>1 DEF SessionInv, OneTurn, New
<1>9. OneTurn'
  BY <1>1, <1>2, <1>3, <1>8 DEF SessionInv, OneTurn, Answering, Alive
<1> QED
  BY <1>1, <1>2, <1>3, <1>4, <1>6, <1>7, <1>9 DEF SessionInv, New

LEMMA StoringKeepsSessionInv ==
  ASSUME SessionInv, NEW s \in Made, StoreOpened(s) \/ Remove(s) \/ Forget(s)
  PROVE  SessionInv' /\ UNCHANGED <<live, feeds, exchanges, panicked>>
<1>1. UNCHANGED <<live, feeds, exchanges, panicked>>
  BY DEF StoreOpened, Remove, Forget
<1>2. registry' \subseteq registry /\ rows' \subseteq rows \cup {s}
  BY DEF StoreOpened, Remove, Forget
<1>3. SessionTypeOK'
  BY <1>1, <1>2 DEF SessionInv, SessionTypeOK, Made
<1>4. OpenedOnce' /\ OfASession' /\ OneTurn'
  BY <1>1, <1>2 DEF SessionInv, OpenedOnce, OfASession, OneTurn, Made, Answering, Alive
<1> QED
  BY <1>1, <1>3, <1>4 DEF SessionInv

(* A turn may be told to stop: it goes on until the agent has exited.      *)
LEMMA CancelledShape ==
  ASSUME SessionTypeOK, NEW s
  PROVE  /\ Cancelled(s) \in [Exchange -> [pc : Phase, session : Session \cup {None},
                                           cancelled : BOOLEAN, for : Watcher \cup {None}]]
         /\ \A x \in Exchange : /\ Cancelled(s)[x].pc = exchanges[x].pc
                                /\ Cancelled(s)[x].session = exchanges[x].session
                                /\ Cancelled(s)[x].for = exchanges[x].for
<1> SUFFICES ASSUME NEW x \in Exchange
             PROVE  LET y == [exchanges[x] EXCEPT !.cancelled = @ \/ x = live[s].cancel]
                    IN  /\ y \in [pc : Phase, session : Session \cup {None},
                                  cancelled : BOOLEAN, for : Watcher \cup {None}]
                        /\ y.pc = exchanges[x].pc /\ y.session = exchanges[x].session
                        /\ y.for = exchanges[x].for
  BY DEF Cancelled
<1> QED
  BY DEF SessionTypeOK

(* The turn an exchange goes through, one phase after another.             *)
LEMMA GoesShape ==
  ASSUME SessionTypeOK, NEW x \in Exchange, NEW from, NEW to \in Phase, Goes(x, from, to)
  PROVE  /\ exchanges' \in [Exchange -> [pc : Phase, session : Session \cup {None},
                                         cancelled : BOOLEAN, for : Watcher \cup {None}]]
         /\ exchanges[x].pc = from /\ exchanges'[x].pc = to
         /\ exchanges'[x].session = exchanges[x].session /\ exchanges'[x].for = exchanges[x].for
         /\ \A y \in Exchange \ {x} : exchanges'[y] = exchanges[y]
  BY DEF SessionTypeOK, Goes

(* The number of a session's turns depends on the phases alone.            *)
LEMMA PhasesAlone ==
  ASSUME NEW s \in Session, SessionTypeOK,
         \A x \in Exchange :
           /\ exchanges'[x].session = exchanges[x].session
           /\ exchanges'[x].pc \in {"prompt", "save", "run"} <=> exchanges[x].pc \in {"prompt", "save", "run"}
  PROVE  Answering(s)' = Answering(s)
  BY DEF Answering, Alive

LEMMA CancelKeepsSessionInv ==
  ASSUME SessionInv, NEW s \in Session, exchanges' = Cancelled(s),
         UNCHANGED <<registry, rows>>,
         live' \in [Session -> Live],
         \A t \in Session : live'[t].made = live[t].made /\ live'[t].state = live[t].state,
         \A t \in Session : ~live[t].made => live'[t] = live[t],
         feeds' \in [Watcher -> Feed], \A w \in Watcher : Len(feeds'[w].events) <= FeedBuffer,
         panicked' \in BOOLEAN
  PROVE  SessionInv'
<1>1. /\ exchanges' \in [Exchange -> [pc : Phase, session : Session \cup {None},
                                      cancelled : BOOLEAN, for : Watcher \cup {None}]]
      /\ \A x \in Exchange : /\ exchanges'[x].pc = exchanges[x].pc
                             /\ exchanges'[x].session = exchanges[x].session
  BY CancelledShape DEF SessionInv
<1>2. SessionTypeOK'
  BY <1>1 DEF SessionInv, SessionTypeOK
<1>3. Made' = Made
  BY DEF Made
<1>4. OpenedOnce'
  BY <1>3 DEF SessionInv, OpenedOnce
<1>5. OfASession'
  BY <1>1, <1>3 DEF SessionInv, OfASession
<1>6. \A t \in Session : Answering(t)' = Answering(t)
  BY <1>1 DEF Answering, Alive
<1>7. OneTurn'
  BY <1>6 DEF SessionInv, OneTurn
<1> QED
  BY <1>2, <1>4, <1>5, <1>7 DEF SessionInv

LEMMA CloseFeedsShape ==
  ASSUME SessionInv, NEW s \in Session, CloseFeeds(s)
  PROVE  /\ SessionInv'
         /\ UNCHANGED <<registry, rows>> /\ Made' = Made
         /\ \A w \in Watcher, t \in Session : Subscribed(w, t)' <=> Subscribed(w, t) /\ t # s
         /\ \A w \in Watcher : /\ feeds'[w].open <=> feeds[w].open /\ ~Subscribed(w, s)
                               /\ feeds'[w].events = feeds[w].events
                               /\ feeds'[w].lostEnd = feeds[w].lostEnd
         /\ panicked' = (panicked \/ \E w \in Watcher : Subscribed(w, s) /\ ~feeds[w].open)
         /\ \A x \in Exchange : /\ exchanges'[x].pc = exchanges[x].pc
                                /\ exchanges'[x].session = exchanges[x].session
                                /\ exchanges'[x].for = exchanges[x].for
<1>1. live \in [Session -> Live] /\ live[s].subscribers \subseteq Watcher /\ feeds \in [Watcher -> Feed]
  BY DEF SessionInv, SessionTypeOK, Live
<1>2. /\ live' = [live EXCEPT ![s].subscribers = {}]
      /\ feeds' = [w \in Watcher |-> IF w \in live[s].subscribers
                                     THEN [feeds[w] EXCEPT !.open = FALSE] ELSE feeds[w]]
      /\ panicked' = (panicked \/ \E w \in live[s].subscribers : ~feeds[w].open)
      /\ exchanges' = Cancelled(s) /\ UNCHANGED <<registry, rows>>
  BY DEF CloseFeeds
<1>3. /\ live' \in [Session -> Live]
      /\ \A t \in Session : live'[t].made = live[t].made /\ live'[t].state = live[t].state
      /\ live'[s].subscribers = {} /\ \A t \in Session \ {s} : live'[t] = live[t]
  BY <1>1, <1>2 DEF Live
<1>4. \A t \in Session : ~live[t].made => live'[t] = live[t]
  <2> SUFFICES ASSUME ~live[s].made  PROVE live'[s] = live[s]
    BY <1>3
  <2>1. live[s] = New
    BY DEF SessionInv, OpenedOnce
  <2>2. live'[s] = [New EXCEPT !.subscribers = {}]
    BY <1>1, <1>2, <2>1
  <2> QED
    BY <2>1, <2>2 DEF New
<1>5. /\ feeds' \in [Watcher -> Feed]
      /\ \A w \in Watcher : /\ feeds'[w].open <=> feeds[w].open /\ w \notin live[s].subscribers
                            /\ feeds'[w].events = feeds[w].events
                            /\ feeds'[w].lostEnd = feeds[w].lostEnd
  <2> SUFFICES ASSUME NEW w \in Watcher
               PROVE  LET f == IF w \in live[s].subscribers
                               THEN [feeds[w] EXCEPT !.open = FALSE] ELSE feeds[w]
                      IN /\ f \in Feed /\ (f.open <=> feeds[w].open /\ w \notin live[s].subscribers)
                         /\ f.events = feeds[w].events /\ f.lostEnd = feeds[w].lostEnd
    BY <1>2
  <2> QED
    BY <1>1 DEF Feed
<1>6. panicked' \in BOOLEAN
  BY <1>2 DEF SessionInv, SessionTypeOK
<1>7. \A w \in Watcher : Len(feeds'[w].events) <= FeedBuffer
  BY <1>5 DEF SessionInv, SessionTypeOK
<1>8. SessionInv'
  BY <1>2, <1>3, <1>4, <1>5, <1>6, <1>7, CancelKeepsSessionInv
<1>9. \A x \in Exchange : /\ exchanges'[x].pc = exchanges[x].pc
                          /\ exchanges'[x].session = exchanges[x].session
                          /\ exchanges'[x].for = exchanges[x].for
  BY <1>2, CancelledShape DEF SessionInv
<1>10. \A w \in Watcher, t \in Session : Subscribed(w, t)' <=> Subscribed(w, t) /\ t # s
  BY <1>3 DEF Subscribed
<1>11. panicked' = (panicked \/ \E w \in Watcher : Subscribed(w, s) /\ ~feeds[w].open)
  BY <1>1, <1>2 DEF Subscribed
<1>12. Made' = Made
  BY <1>3 DEF Made
<1> QED
  BY <1>2, <1>5, <1>8, <1>9, <1>10, <1>11, <1>12 DEF Subscribed

LEMMA InterruptShape ==
  ASSUME SessionInv, NEW s \in Session, Interrupt(s)
  PROVE  /\ SessionInv' /\ UNCHANGED <<registry, live, rows, feeds, panicked>>
         /\ \A x \in Exchange : /\ exchanges'[x].pc = exchanges[x].pc
                                /\ exchanges'[x].session = exchanges[x].session
                                /\ exchanges'[x].for = exchanges[x].for
<1>1. exchanges' = Cancelled(s) /\ UNCHANGED <<registry, live, rows, feeds, panicked>>
  BY DEF Interrupt
<1>2. SessionInv'
  BY <1>1, CancelKeepsSessionInv DEF SessionInv, SessionTypeOK
<1> QED
  BY <1>1, <1>2, CancelledShape DEF SessionInv

LEMMA SubscribeShape ==
  ASSUME SessionInv, NEW w \in Watcher, NEW s \in Session, Subscribe(w, s)
  PROVE  /\ SessionInv' /\ Made' = Made /\ s \in Made
         /\ UNCHANGED <<registry, rows, exchanges, panicked>>
         /\ \A v \in Watcher, t \in Session :
              Subscribed(v, t)' <=> Subscribed(v, t) \/ (v = w /\ t = s)
         /\ feeds'[w].open /\ \A v \in Watcher \ {w} : feeds'[v] = feeds[v]
<1>1. live \in [Session -> Live] /\ feeds \in [Watcher -> Feed] /\ s \in registry /\ s \in Made
  BY DEF SessionInv, SessionTypeOK, Subscribe, OpenedOnce
<1>2. /\ live' = [live EXCEPT ![s].subscribers = @ \cup {w}]
      /\ feeds' = [feeds EXCEPT ![w] = [open |-> TRUE, events |-> <<>>, lostEnd |-> FALSE]]
      /\ UNCHANGED <<registry, rows, exchanges, panicked>>
  BY DEF Subscribe
<1>3. /\ live' \in [Session -> Live]
      /\ live'[s].made = live[s].made /\ live'[s].state = live[s].state
      /\ live'[s].subscribers = live[s].subscribers \cup {w}
      /\ \A t \in Session \ {s} : live'[t] = live[t]
  BY <1>1, <1>2 DEF Live
<1>4. /\ feeds' \in [Watcher -> Feed] /\ feeds'[w].open /\ feeds'[w].events = <<>>
      /\ \A v \in Watcher \ {w} : feeds'[v] = feeds[v]
  <2>1. [open |-> TRUE, events |-> <<>>, lostEnd |-> FALSE] \in Feed
    BY DEF Feed
  <2> QED
    BY <1>1, <1>2, <2>1
<1>5. \A v \in Watcher : Len(feeds'[v].events) <= FeedBuffer
  BY <1>4, SessionAssumption DEF SessionInv, SessionTypeOK
<1>6. SessionTypeOK'
  BY <1>2, <1>3, <1>4, <1>5 DEF SessionInv, SessionTypeOK
<1>7. Made' = Made
  BY <1>3 DEF Made
<1>8. OpenedOnce'
  BY <1>1, <1>2, <1>3, <1>7 DEF SessionInv, OpenedOnce, Made
<1>9. \A t \in Session : Answering(t)' = Answering(t) /\ live'[t].state = live[t].state
  BY <1>2, <1>3 DEF Answering, Alive
<1>10. OfASession' /\ OneTurn'
  BY <1>2, <1>7, <1>9 DEF SessionInv, OfASession, OneTurn
<1> QED
  BY <1>1, <1>2, <1>3, <1>4, <1>6, <1>7, <1>8, <1>10 DEF SessionInv, Subscribed

LEMMA UnsubscribeShape ==
  ASSUME SessionInv, NEW w \in Watcher, NEW s \in Made, Unsubscribe(w, s)
  PROVE  /\ SessionInv' /\ Made' = Made
         /\ UNCHANGED <<registry, rows>>
         /\ \A v \in Watcher, t \in Session :
              Subscribed(v, t)' <=> Subscribed(v, t) /\ ~(v = w /\ t = s)
         /\ \A v \in Watcher \ {w} : feeds'[v] = feeds[v]
         /\ panicked' = (panicked \/ (s \in registry /\ Subscribed(w, s) /\ ~feeds[w].open))
         /\ \A x \in Exchange :
              /\ exchanges'[x].pc = exchanges[x].pc
              /\ exchanges'[x].session = exchanges[x].session
              /\ exchanges[x].for # w => exchanges'[x].for = exchanges[x].for
<1> DEFINE left(x) == IF exchanges[x].for = w THEN [exchanges[x] EXCEPT !.for = None] ELSE exchanges[x]
<1>1. live \in [Session -> Live] /\ feeds \in [Watcher -> Feed] /\ s \in Session /\ live[s].made
  BY DEF SessionInv, SessionTypeOK, Made
<1>2. /\ live' = [live EXCEPT ![s].subscribers = @ \ {w}]
      /\ panicked' = (panicked \/ (s \in registry /\ w \in live[s].subscribers /\ ~feeds[w].open))
      /\ feeds' = [feeds EXCEPT ![w] = NoFeed]
      /\ exchanges' = [x \in Exchange |-> left(x)]
      /\ UNCHANGED <<registry, rows>>
  BY DEF Unsubscribe
<1>3. /\ live' \in [Session -> Live]
      /\ live'[s].made = live[s].made /\ live'[s].state = live[s].state
      /\ live'[s].subscribers = live[s].subscribers \ {w}
      /\ \A t \in Session \ {s} : live'[t] = live[t]
  BY <1>1, <1>2 DEF Live
<1>4. /\ feeds' \in [Watcher -> Feed] /\ feeds'[w].events = <<>>
      /\ \A v \in Watcher \ {w} : feeds'[v] = feeds[v]
  <2>1. NoFeed \in Feed /\ NoFeed.events = <<>>
    BY DEF Feed, NoFeed
  <2> QED
    BY <1>1, <1>2, <2>1
<1>5. \A v \in Watcher : Len(feeds'[v].events) <= FeedBuffer
  BY <1>4, SessionAssumption DEF SessionInv, SessionTypeOK
<1>6. \A x \in Exchange :
        /\ left(x) \in [pc : Phase, session : Session \cup {None},
                        cancelled : BOOLEAN, for : Watcher \cup {None}]
        /\ left(x).pc = exchanges[x].pc /\ left(x).session = exchanges[x].session
        /\ exchanges[x].for # w => left(x).for = exchanges[x].for
  BY DEF SessionInv, SessionTypeOK
<1> HIDE DEF left
<1>7. /\ exchanges' \in [Exchange -> [pc : Phase, session : Session \cup {None},
                                      cancelled : BOOLEAN, for : Watcher \cup {None}]]
      /\ \A x \in Exchange :
           /\ exchanges'[x].pc = exchanges[x].pc /\ exchanges'[x].session = exchanges[x].session
           /\ exchanges[x].for # w => exchanges'[x].for = exchanges[x].for
  BY <1>2, <1>6
<1>8. SessionTypeOK'
  BY <1>2, <1>3, <1>4, <1>5, <1>7 DEF SessionInv, SessionTypeOK
<1>9. Made' = Made
  BY <1>3 DEF Made
<1>10. OpenedOnce'
  BY <1>1, <1>2, <1>3, <1>9 DEF SessionInv, OpenedOnce, Made
<1>11. \A t \in Session : Answering(t)' = Answering(t) /\ live'[t].state = live[t].state
  BY <1>3, <1>7 DEF Answering, Alive
<1>12. OfASession' /\ OneTurn'
  BY <1>7, <1>9, <1>11 DEF SessionInv, OfASession, OneTurn
<1> QED
  BY <1>1, <1>2, <1>3, <1>4, <1>7, <1>8, <1>9, <1>10, <1>12 DEF SessionInv, Subscribed

LEMMA AcceptShape ==
  ASSUME SessionInv, NEW x \in Exchange, NEW s \in Session, NEW w \in Watcher \cup {None},
         Accept(x, s, w)
  PROVE  /\ SessionInv' /\ Made' = Made /\ UNCHANGED <<registry, rows, feeds, panicked>>
         /\ \A v \in Watcher, t \in Session : Subscribed(v, t)' <=> Subscribed(v, t)
         /\ exchanges[x].pc = "none"
         /\ exchanges'[x].pc = "prompt" /\ exchanges'[x].session = s /\ exchanges'[x].for = w
         /\ \A y \in Exchange \ {x} : exchanges'[y] = exchanges[y]
<1> DEFINE asked == [pc |-> "prompt", session |-> s, cancelled |-> FALSE, for |-> w]
<1>1. /\ live \in [Session -> Live] /\ s \in Made /\ live[s].made
      /\ exchanges \in [Exchange -> [pc : Phase, session : Session \cup {None},
                                     cancelled : BOOLEAN, for : Watcher \cup {None}]]
  BY DEF SessionInv, SessionTypeOK, Accept, OpenedOnce, Made
<1>2. /\ live' = [live EXCEPT ![s].state = "running", ![s].cancel = x]
      /\ exchanges' = [exchanges EXCEPT ![x] = asked]
      /\ exchanges[x].pc = "none" /\ live[s].state # "running"
      /\ UNCHANGED <<registry, rows, feeds, panicked>>
  BY DEF Accept, Free
<1>3. /\ live' \in [Session -> Live] /\ live'[s].state = "running"
      /\ live'[s].made = live[s].made /\ live'[s].subscribers = live[s].subscribers
      /\ \A t \in Session \ {s} : live'[t] = live[t]
  BY <1>1, <1>2 DEF Live
<1>4. /\ exchanges' \in [Exchange -> [pc : Phase, session : Session \cup {None},
                                      cancelled : BOOLEAN, for : Watcher \cup {None}]]
      /\ exchanges'[x] = asked /\ \A y \in Exchange \ {x} : exchanges'[y] = exchanges[y]
  <2>1. asked \in [pc : Phase, session : Session \cup {None},
                   cancelled : BOOLEAN, for : Watcher \cup {None}]
    BY DEF Phase
  <2> HIDE DEF asked
  <2> QED
    BY <1>1, <1>2, <2>1
<1>5. SessionTypeOK'
  BY <1>2, <1>3, <1>4 DEF SessionInv, SessionTypeOK
<1>6. Made' = Made
  BY <1>3 DEF Made
<1>7. OpenedOnce'
  BY <1>1, <1>2, <1>3, <1>6 DEF SessionInv, OpenedOnce, Made
<1>8. OfASession'
  BY <1>1, <1>4, <1>6 DEF SessionInv, OfASession
<1>9. Answering(s) = {} /\ Answering(s)' = {x}
  <2>1. Answering(s) = {}
    BY <1>2 DEF SessionInv, OneTurn
  <2> QED
    BY <1>4, <2>1 DEF Answering, Alive
<1>10. \A t \in Session \ {s} : Answering(t)' = Answering(t)
  BY <1>2, <1>4 DEF Answering, Alive
<1>11. OneTurn'
  BY <1>3, <1>9, <1>10 DEF SessionInv, OneTurn
<1> QED
  BY <1>2, <1>3, <1>4, <1>5, <1>6, <1>7, <1>8, <1>11 DEF SessionInv, Subscribed

(* A feed keeps what it was told.                                          *)
FeedsKept ==
  \A w \in Watcher : /\ feeds'[w].open = feeds[w].open
                     /\ EndTold(w) => EndTold(w)'
                     /\ feeds[w].lostEnd => feeds'[w].lostEnd

(* What is said reaches every feed that has room, and the end of a turn    *)
(* leaves its mark in a feed that has none.                                *)
LEMMA PublishShape ==
  ASSUME SessionTypeOK, NEW x \in Exchange, NEW event \in Event, exchanges[x].session \in Session,
         Publish(x, event)
  PROVE  /\ feeds' \in [Watcher -> Feed] /\ \A w \in Watcher : Len(feeds'[w].events) <= FeedBuffer
         /\ panicked' \in BOOLEAN /\ FeedsKept
         /\ \A w \in Watcher :
              event = "done" /\ Subscribed(w, exchanges[x].session) => EndTold(w)' \/ feeds'[w].lostEnd
         /\ panicked' = (panicked \/ \E w \in Watcher :
                                       Subscribed(w, exchanges[x].session) /\ ~feeds[w].open)
<1> DEFINE to == live[exchanges[x].session].subscribers
           heard(w) == IF w \notin to THEN feeds[w]
                       ELSE IF Len(feeds[w].events) < FeedBuffer
                            THEN [feeds[w] EXCEPT !.events = Append(@, event)]
                            ELSE [feeds[w] EXCEPT !.lostEnd = @ \/ event = "done"]
<1>1. feeds' = [w \in Watcher |-> heard(w)] /\ panicked' = (panicked \/ \E w \in to : ~feeds[w].open)
  BY DEF Publish
<1>2. to \subseteq Watcher
  BY DEF SessionTypeOK, Live
<1>3. ASSUME NEW w \in Watcher
      PROVE  /\ heard(w) \in Feed /\ Len(heard(w).events) <= FeedBuffer
             /\ heard(w).open = feeds[w].open
             /\ EndTold(w) => \E i \in DOMAIN heard(w).events : heard(w).events[i] = "done"
             /\ feeds[w].lostEnd => heard(w).lostEnd
             /\ event = "done" /\ w \in to
                  => \/ \E i \in DOMAIN heard(w).events : heard(w).events[i] = "done"
                     \/ heard(w).lostEnd
  <2>1. feeds[w] \in Feed /\ feeds[w].events \in Seq(Event) /\ Len(feeds[w].events) <= FeedBuffer
        /\ Len(feeds[w].events) \in Nat /\ FeedBuffer \in Nat
    BY SessionAssumption DEF SessionTypeOK, Feed
  <2>2. CASE w \notin to
    BY <2>1, <2>2 DEF EndTold
  <2>3. CASE w \in to /\ Len(feeds[w].events) < FeedBuffer
    <3> DEFINE e == Append(feeds[w].events, event)
    <3>1. /\ e \in Seq(Event) /\ Len(e) = Len(feeds[w].events) + 1
          /\ e[Len(e)] = event /\ \A i \in 1 .. Len(feeds[w].events) : e[i] = feeds[w].events[i]
          /\ DOMAIN e = 1 .. Len(e) /\ DOMAIN feeds[w].events = 1 .. Len(feeds[w].events)
      BY <2>1
    <3> HIDE DEF e
    <3>2. heard(w) = [feeds[w] EXCEPT !.events = e]
      BY <2>3 DEF e
    <3>3. /\ heard(w) \in Feed /\ heard(w).events = e
          /\ heard(w).open = feeds[w].open /\ heard(w).lostEnd = feeds[w].lostEnd
      BY <2>1, <3>1, <3>2 DEF Feed
    <3>4. Len(e) <= FeedBuffer /\ Len(e) \in DOMAIN e
      BY <2>1, <2>3, <3>1
    <3>5. EndTold(w) => \E i \in DOMAIN e : e[i] = "done"
      BY <2>1, <3>1 DEF EndTold
    <3> HIDE DEF heard
    <3> QED
      BY <3>1, <3>3, <3>4, <3>5
  <2>4. CASE w \in to /\ ~(Len(feeds[w].events) < FeedBuffer)
    <3>1. heard(w) = [feeds[w] EXCEPT !.lostEnd = @ \/ event = "done"]
      BY <2>4
    <3>2. /\ heard(w) \in Feed /\ heard(w).events = feeds[w].events
          /\ heard(w).open = feeds[w].open
          /\ heard(w).lostEnd = (feeds[w].lostEnd \/ event = "done")
      BY <2>1, <3>1 DEF Feed
    <3> HIDE DEF heard
    <3> QED
      BY <2>1, <3>2 DEF EndTold
  <2> QED
    BY <2>2, <2>3, <2>4
<1> HIDE DEF heard
<1>4. /\ feeds' \in [Watcher -> Feed] /\ \A w \in Watcher : feeds'[w] = heard(w)
  BY <1>1, <1>3
<1>5. panicked' \in BOOLEAN
  BY <1>1 DEF SessionTypeOK
<1>6. panicked' = (panicked \/ \E w \in Watcher :
                                  Subscribed(w, exchanges[x].session) /\ ~feeds[w].open)
  BY <1>1, <1>2 DEF Subscribed
<1> QED
  BY <1>3, <1>4, <1>5, <1>6 DEF EndTold, Subscribed, FeedsKept

-----------------------------------------------------------------------------
(* An exchange that goes on.                                               *)

(* A turn that was not over goes on, or everybody subscribed was told.     *)
NoTurnUntold ==
  \A y \in Exchange : exchanges[y].pc \notin {"none", "store"} =>
    \/ /\ exchanges'[y].pc \notin {"none", "store"}
       /\ exchanges'[y].session = exchanges[y].session /\ exchanges'[y].for = exchanges[y].for
    \/ \A w \in Watcher :
         Subscribed(w, exchanges[y].session) => EndTold(w)' \/ feeds'[w].lostEnd

SendsOnOpenFeedsOnly ==
  (\A w \in Watcher, s \in Session : Subscribed(w, s) => feeds[w].open) => (panicked' => panicked)

SubscribersStay ==
  Made' = Made /\ \A w \in Watcher, s \in Session : Subscribed(w, s)' <=> Subscribed(w, s)

TurnStepShape == SessionInv' /\ SubscribersStay /\ FeedsKept /\ NoTurnUntold /\ SendsOnOpenFeedsOnly

LEMMA PhaseKeepsSessionInv ==
  ASSUME SessionInv, NEW x \in Exchange, NEW from, NEW to \in Phase \ {"none"}, Goes(x, from, to),
         from # "none",
         from \in {"prompt", "save", "run"} <=> to \in {"prompt", "save", "run"},
         UNCHANGED <<registry, live>>, rows' \subseteq rows \cup {exchanges[x].session},
         feeds' \in [Watcher -> Feed], \A w \in Watcher : Len(feeds'[w].events) <= FeedBuffer,
         panicked' \in BOOLEAN
  PROVE  /\ SessionInv' /\ SubscribersStay /\ exchanges[x].session \in Session
         /\ exchanges[x].pc = from /\ exchanges'[x].pc = to
         /\ exchanges'[x].session = exchanges[x].session /\ exchanges'[x].for = exchanges[x].for
         /\ \A y \in Exchange \ {x} : exchanges'[y] = exchanges[y]
<1>1. /\ exchanges' \in [Exchange -> [pc : Phase, session : Session \cup {None},
                                      cancelled : BOOLEAN, for : Watcher \cup {None}]]
      /\ exchanges[x].pc = from /\ exchanges'[x].pc = to
      /\ exchanges'[x].session = exchanges[x].session /\ exchanges'[x].for = exchanges[x].for
      /\ \A y \in Exchange \ {x} : exchanges'[y] = exchanges[y]
  BY GoesShape DEF SessionInv
<1>2. exchanges[x].session \in Made /\ exchanges[x].session \in Session
  BY <1>1 DEF SessionInv, OfASession, Made
<1>3. SessionTypeOK'
  BY <1>1, <1>2 DEF SessionInv, SessionTypeOK
<1>4. OpenedOnce' /\ Made' = Made
  BY <1>2 DEF SessionInv, OpenedOnce, Made
<1>5. OfASession'
  BY <1>1, <1>4 DEF SessionInv, OfASession
<1>6. \A t \in Session : Answering(t)' = Answering(t)
  BY <1>1 DEF Answering, Alive
<1>7. OneTurn'
  BY <1>6 DEF SessionInv, OneTurn
<1> QED
  BY <1>1, <1>2, <1>3, <1>4, <1>5, <1>7 DEF SessionInv, SubscribersStay, Subscribed

LEMMA SaidShape ==
  ASSUME SessionInv, NEW x \in Exchange,
         \/ PublishPrompt(x) \/ PublishError(x)
  PROVE  TurnStepShape
<1>1. PICK from \in {"prompt", "error"}, to \in {"save", "done"} :
        /\ Goes(x, from, to) /\ Publish(x, "said") /\ UNCHANGED <<registry, live, rows>>
        /\ from = "prompt" <=> to = "save"
  BY DEF PublishPrompt, PublishError
<1>2. exchanges[x].session \in Session
  BY <1>1 DEF SessionInv, OfASession, Made, Goes
<1>3. /\ feeds' \in [Watcher -> Feed] /\ \A w \in Watcher : Len(feeds'[w].events) <= FeedBuffer
      /\ panicked' \in BOOLEAN /\ FeedsKept
      /\ panicked' = (panicked \/ \E w \in Watcher :
                                    Subscribed(w, exchanges[x].session) /\ ~feeds[w].open)
  <2>1. SessionTypeOK /\ "said" \in Event /\ "done" \in Event
    BY DEF SessionInv, Event
  <2> QED
    BY <1>1, <1>2, <2>1, PublishShape
<1>4. /\ SessionInv' /\ SubscribersStay
      /\ exchanges[x].pc = from /\ exchanges'[x].pc = to
      /\ exchanges'[x].session = exchanges[x].session /\ exchanges'[x].for = exchanges[x].for
      /\ \A y \in Exchange \ {x} : exchanges'[y] = exchanges[y]
  <2>1. to \in Phase \ {"none"} /\ from # "none"
        /\ (from \in {"prompt", "save", "run"} <=> to \in {"prompt", "save", "run"})
    BY <1>1 DEF Phase
  <2>2. rows' \subseteq rows \cup {exchanges[x].session} /\ UNCHANGED <<registry, live>>
    BY <1>1
  <2> QED
    BY <1>1, <1>3, <2>1, <2>2, PhaseKeepsSessionInv
<1>5. NoTurnUntold
  BY <1>4 DEF NoTurnUntold
<1>6. SendsOnOpenFeedsOnly
  BY <1>2, <1>3 DEF SendsOnOpenFeedsOnly
<1> QED
  BY <1>3, <1>4, <1>5, <1>6 DEF TurnStepShape

LEMMA PublishDoneShape ==
  ASSUME SessionInv, NEW x \in Exchange, PublishDone(x)
  PROVE  TurnStepShape
<1>1. Goes(x, "done", "store") /\ Publish(x, "done") /\ UNCHANGED <<registry, live, rows>>
  BY DEF PublishDone
<1>2. exchanges[x].session \in Session
  BY <1>1 DEF SessionInv, OfASession, Made, Goes
<1>3. /\ feeds' \in [Watcher -> Feed] /\ \A w \in Watcher : Len(feeds'[w].events) <= FeedBuffer
      /\ panicked' \in BOOLEAN /\ FeedsKept
      /\ \A w \in Watcher : Subscribed(w, exchanges[x].session) => EndTold(w)' \/ feeds'[w].lostEnd
      /\ panicked' = (panicked \/ \E w \in Watcher :
                                    Subscribed(w, exchanges[x].session) /\ ~feeds[w].open)
  <2>1. SessionTypeOK /\ "said" \in Event /\ "done" \in Event
    BY DEF SessionInv, Event
  <2> QED
    BY <1>1, <1>2, <2>1, PublishShape
<1>4. /\ SessionInv' /\ SubscribersStay
      /\ \A y \in Exchange \ {x} : exchanges'[y] = exchanges[y]
  BY <1>1, <1>3, PhaseKeepsSessionInv DEF Phase
<1>5. NoTurnUntold
  BY <1>3, <1>4 DEF NoTurnUntold
<1>6. SendsOnOpenFeedsOnly
  BY <1>2, <1>3 DEF SendsOnOpenFeedsOnly
<1> QED
  BY <1>3, <1>4, <1>5, <1>6 DEF TurnStepShape

LEMMA StoreAskedShape ==
  ASSUME SessionInv, NEW x \in Exchange, StoreAsked(x)
  PROVE  TurnStepShape
<1>1. /\ Goes(x, "save", "run") /\ UNCHANGED <<registry, live, feeds, panicked>>
      /\ rows' \subseteq rows \cup {exchanges[x].session}
  BY DEF StoreAsked
<1>2. /\ feeds' \in [Watcher -> Feed] /\ \A w \in Watcher : Len(feeds'[w].events) <= FeedBuffer
      /\ panicked' \in BOOLEAN
  BY <1>1 DEF SessionInv, SessionTypeOK
<1>3. /\ SessionInv' /\ SubscribersStay
      /\ exchanges'[x].pc = "run"
      /\ exchanges'[x].session = exchanges[x].session /\ exchanges'[x].for = exchanges[x].for
      /\ \A y \in Exchange \ {x} : exchanges'[y] = exchanges[y]
  BY <1>1, <1>2, PhaseKeepsSessionInv DEF Phase
<1> QED
  BY <1>1, <1>3 DEF TurnStepShape, FeedsKept, EndTold, NoTurnUntold, SendsOnOpenFeedsOnly

LEMMA EmitShape ==
  ASSUME SessionInv, NEW x \in Exchange, Emit(x)
  PROVE  TurnStepShape
<1>1. exchanges[x].pc = "run" /\ Publish(x, "said") /\ UNCHANGED <<registry, live, rows, exchanges>>
  BY DEF Emit
<1>2. exchanges[x].session \in Session
  BY <1>1 DEF SessionInv, OfASession, Made
<1>3. /\ feeds' \in [Watcher -> Feed] /\ \A w \in Watcher : Len(feeds'[w].events) <= FeedBuffer
      /\ panicked' \in BOOLEAN /\ FeedsKept
      /\ panicked' = (panicked \/ \E w \in Watcher :
                                    Subscribed(w, exchanges[x].session) /\ ~feeds[w].open)
  <2>1. SessionTypeOK /\ "said" \in Event /\ "done" \in Event
    BY DEF SessionInv, Event
  <2> QED
    BY <1>1, <1>2, <2>1, PublishShape
<1>4. SessionInv' /\ SubscribersStay
  BY <1>1, <1>3 DEF SessionInv, SessionTypeOK, OpenedOnce, OfASession, OneTurn, Answering, Alive, Made,
                    SubscribersStay, Subscribed
<1>5. NoTurnUntold /\ SendsOnOpenFeedsOnly
  BY <1>1, <1>2, <1>3 DEF NoTurnUntold, SendsOnOpenFeedsOnly
<1> QED
  BY <1>3, <1>4, <1>5 DEF TurnStepShape

LEMMA EndShape ==
  ASSUME SessionInv, NEW x \in Exchange, NEW failed \in BOOLEAN, End(x, failed)
  PROVE  TurnStepShape
<1> DEFINE next == IF failed THEN "error" ELSE "done"
<1> PICK s \in Session : s = exchanges[x].session
  BY DEF SessionInv, OfASession, Made, End
<1>1. /\ exchanges[x].pc = "run"
      /\ live' = [live EXCEPT ![s].cancel = None, ![s].state = "idle"]
      /\ exchanges' = [exchanges EXCEPT ![x].pc = next]
      /\ UNCHANGED <<registry, rows, feeds, panicked>>
  BY DEF End
<1>2. /\ live \in [Session -> Live] /\ s \in Made /\ s \in Session /\ live[s].made
      /\ exchanges \in [Exchange -> [pc : Phase, session : Session \cup {None},
                                     cancelled : BOOLEAN, for : Watcher \cup {None}]]
  BY <1>1 DEF SessionInv, SessionTypeOK, OfASession, Made
<1>3. next \in Phase /\ next \in {"error", "done"}
  BY DEF Phase
<1> HIDE DEF next
<1>4. /\ exchanges' \in [Exchange -> [pc : Phase, session : Session \cup {None},
                                      cancelled : BOOLEAN, for : Watcher \cup {None}]]
      /\ exchanges'[x].pc = next /\ exchanges'[x].session = s
      /\ exchanges'[x].for = exchanges[x].for
      /\ \A y \in Exchange \ {x} : exchanges'[y] = exchanges[y]
  BY <1>1, <1>2, <1>3
<1>5. /\ live' \in [Session -> Live] /\ live'[s].state = "idle"
      /\ live'[s].made = live[s].made /\ live'[s].subscribers = live[s].subscribers
      /\ \A t \in Session \ {s} : live'[t] = live[t]
  <2> DEFINE free == [live[s] EXCEPT !.cancel = None, !.state = "idle"]
  <2>1. /\ free \in Live /\ free.state = "idle"
        /\ free.made = live[s].made /\ free.subscribers = live[s].subscribers
    <3>1. live[s] \in Live
      BY <1>2
    <3>2. free \in Live
      BY <3>1 DEF Live
    <3>3. free.state = "idle"
      BY <3>1 DEF Live
    <3>4. free.made = live[s].made /\ free.subscribers = live[s].subscribers
      BY <3>1 DEF Live
    <3> QED
      BY <3>2, <3>3, <3>4
  <2>2. live' = [live EXCEPT ![s] = free]
    BY <1>1, <1>2
  <2> HIDE DEF free
  <2> QED
    BY <1>2, <2>1, <2>2
<1>6. SessionTypeOK'
  BY <1>1, <1>4, <1>5 DEF SessionInv, SessionTypeOK
<1>7. Made' = Made
  BY <1>5 DEF Made
<1>8. OpenedOnce'
  BY <1>1, <1>2, <1>5, <1>7 DEF SessionInv, OpenedOnce, Made
<1>9. OfASession'
  BY <1>2, <1>4, <1>7 DEF SessionInv, OfASession
<1>10. Answering(s)' = {}
  <2>1. x \in Answering(s)
    BY <1>1 DEF Answering, Alive
  <2>2. \A y \in Answering(s) : y = x
    BY <1>2, <2>1 DEF SessionInv, OneTurn
  <2>3. ASSUME NEW y \in Exchange, exchanges'[y].session = s,
               exchanges'[y].pc \in {"prompt", "save", "run"}
        PROVE  FALSE
    <3>1. y # x
      BY <1>3, <1>4, <2>3
    <3>2. y \in Answering(s)
      BY <1>4, <2>3, <3>1 DEF Answering, Alive
    <3> QED
      BY <2>2, <3>1, <3>2
  <2> QED
    BY <2>3 DEF Answering, Alive
<1>11. \A t \in Session \ {s} : Answering(t)' = Answering(t)
  BY <1>4 DEF Answering, Alive
<1>12. OneTurn'
  <2>1. \A t \in Session \ {s} : live'[t].state = live[t].state
    BY <1>5
  <2>2. OneTurn
    BY DEF SessionInv
  <2> QED
    BY <1>5, <1>10, <1>11, <2>1, <2>2 DEF OneTurn
<1>13. SubscribersStay
  BY <1>5, <1>7 DEF SubscribersStay, Subscribed
<1>14. NoTurnUntold
  BY <1>3, <1>4 DEF NoTurnUntold
<1> QED
  BY <1>1, <1>6, <1>8, <1>9, <1>12, <1>13, <1>14
     DEF SessionInv, TurnStepShape, FeedsKept, EndTold, SendsOnOpenFeedsOnly

LEMMA StoreEndedShape ==
  ASSUME SessionInv, NEW x \in Exchange, StoreEnded(x)
  PROVE  TurnStepShape
<1>1. /\ exchanges[x].pc = "store" /\ rows' = rows \cup {exchanges[x].session}
      /\ exchanges' = [exchanges EXCEPT ![x] = Idle]
      /\ UNCHANGED <<registry, live, feeds, panicked>>
  BY DEF StoreEnded
<1>2. exchanges[x].session \in Made
  BY <1>1 DEF SessionInv, OfASession
<1>3. /\ exchanges' \in [Exchange -> [pc : Phase, session : Session \cup {None},
                                      cancelled : BOOLEAN, for : Watcher \cup {None}]]
      /\ exchanges'[x].pc = "none" /\ \A y \in Exchange \ {x} : exchanges'[y] = exchanges[y]
  <2>1. Idle \in [pc : Phase, session : Session \cup {None},
                  cancelled : BOOLEAN, for : Watcher \cup {None}] /\ Idle.pc = "none"
    BY DEF Idle, Phase
  <2>2. exchanges \in [Exchange -> [pc : Phase, session : Session \cup {None},
                                    cancelled : BOOLEAN, for : Watcher \cup {None}]]
    BY DEF SessionInv, SessionTypeOK
  <2> QED
    BY <1>1, <2>1, <2>2
<1>4. SessionTypeOK'
  BY <1>1, <1>2, <1>3 DEF SessionInv, SessionTypeOK, Made
<1>5. OpenedOnce' /\ Made' = Made
  BY <1>1, <1>2 DEF SessionInv, OpenedOnce, Made
<1>6. OfASession'
  BY <1>3, <1>5 DEF SessionInv, OfASession
<1>7. \A t \in Session : Answering(t)' = Answering(t)
  BY <1>1, <1>3 DEF Answering, Alive
<1>8. OneTurn'
  BY <1>1, <1>7 DEF SessionInv, OneTurn
<1> QED
  BY <1>1, <1>3, <1>4, <1>5, <1>6, <1>8
     DEF SessionInv, TurnStepShape, SubscribersStay, Subscribed, FeedsKept, EndTold, NoTurnUntold,
         SendsOnOpenFeedsOnly

LEMMA TurnStep ==
  ASSUME SessionInv, NEW x \in Exchange, Proceed(x) \/ Emit(x)
  PROVE  TurnStepShape
  BY SaidShape, PublishDoneShape, StoreAskedShape, EmitShape, EndShape, StoreEndedShape DEF Proceed

LEMMA RestoredShape ==
  ASSUME SessionInv, Restored
  PROVE  /\ SessionInv' /\ UNCHANGED panicked
         /\ \A w \in Watcher, s \in Session : ~Subscribed(w, s)'
<1> DEFINE again(s) == [New EXCEPT !.made = live[s].made]
<1>1. /\ registry' = rows /\ UNCHANGED <<rows, panicked>>
      /\ live' = [s \in Session |-> again(s)]
      /\ feeds' = [w \in Watcher |-> NoFeed] /\ exchanges' = [x \in Exchange |-> Idle]
  BY DEF Restored
<1>2. \A s \in Session : /\ again(s) \in Live /\ again(s).made = live[s].made
                         /\ again(s).state = "idle" /\ again(s).subscribers = {}
                         /\ ~live[s].made => again(s) = New
  <2> SUFFICES ASSUME NEW s \in Session
               PROVE  /\ again(s) \in Live /\ again(s).made = live[s].made
                      /\ again(s).state = "idle" /\ again(s).subscribers = {}
                      /\ ~live[s].made => again(s) = New
    OBVIOUS
  <2>1. again(s) = [made |-> live[s].made, state |-> "idle", cancel |-> None, subscribers |-> {}]
    BY DEF New
  <2>2. live[s].made \in BOOLEAN
    BY DEF SessionInv, SessionTypeOK, Live
  <2>3. ~live[s].made => live[s].made = FALSE
    BY <2>2
  <2> QED
    BY <2>1, <2>2, <2>3 DEF Live, New
<1> HIDE DEF again
<1>3. /\ live' \in [Session -> Live]
      /\ \A s \in Session : /\ live'[s].made = live[s].made /\ live'[s].state = "idle"
                            /\ live'[s].subscribers = {} /\ (~live'[s].made => live'[s] = New)
  BY <1>1, <1>2
<1>4. NoFeed \in Feed /\ NoFeed.events = <<>> /\ Len(NoFeed.events) <= FeedBuffer
  BY SessionAssumption DEF NoFeed, Feed
<1>5. /\ Idle \in [pc : Phase, session : Session \cup {None},
                   cancelled : BOOLEAN, for : Watcher \cup {None}]
      /\ Idle.pc = "none"
  BY DEF Idle, Phase
<1>6. SessionTypeOK'
  BY <1>1, <1>3, <1>4, <1>5 DEF SessionInv, SessionTypeOK
<1>7. Made' = Made
  BY <1>3 DEF Made
<1>8. OpenedOnce' /\ OfASession'
  BY <1>1, <1>3, <1>5, <1>7 DEF SessionInv, OpenedOnce, OfASession
<1>9. \A s \in Session : Answering(s)' = {}
  BY <1>1, <1>5 DEF Answering, Alive
<1>10. OneTurn'
  BY <1>3, <1>9 DEF OneTurn
<1> QED
  BY <1>1, <1>3, <1>6, <1>8, <1>10 DEF SessionInv, Subscribed

-----------------------------------------------------------------------------
(* The chats.                                                              *)

(* Whose subscription and feed stay, and whose turn goes on or is told.    *)
LEMMA ChatStays ==
  ASSUME NEW w \in Watcher, ChatOK(w), asks'[w] = asks[w], Made \subseteq Made',
         \A s \in Session : Subscribed(w, s)' <=> Subscribed(w, s),
         feeds'[w].open = feeds[w].open, EndTold(w) => EndTold(w)',
         feeds[w].lostEnd => feeds'[w].lostEnd,
         \A x \in Exchange : exchanges[x].for = w /\ exchanges[x].pc \notin {"none", "store"} =>
           \/ /\ exchanges'[x].pc \notin {"none", "store"}
              /\ exchanges'[x].session = exchanges[x].session /\ exchanges'[x].for = exchanges[x].for
           \/ Subscribed(w, exchanges[x].session) => EndTold(w)' \/ feeds'[w].lostEnd
  PROVE  ChatOK(w)'
<1>1. OnOpened(w)'
  BY DEF ChatOK, OnOpened
<1>2. FeedIsOpen(w)'
  BY DEF ChatOK, FeedIsOpen
<1>3. asks[w].pc \in {"send", "watch"} => asks[w].session \in Session
  BY DEF ChatOK, OnOpened, Made
<1>4. asks[w].pc = "send" => WillWake(w)'
  BY <1>3 DEF ChatOK, WillWake
<1>5. ASSUME asks[w].pc = "watch"  PROVE EndsUp(w)'
  <2>1. EndsUp(w) /\ asks[w].session \in Session
    BY <1>3, <1>5 DEF ChatOK, WillWake
  <2>2. CASE EndTold(w) \/ ~feeds[w].open \/ feeds[w].lostEnd
    BY <2>2 DEF EndsUp
  <2>3. ASSUME NEW x \in Exchange, Subscribed(w, asks[w].session), TurnGoesOn(w, x)
        PROVE  EndsUp(w)'
    <3>1. Subscribed(w, asks[w].session)'
      BY <2>1, <2>3 DEF Subscribed
    <3>2. TurnGoesOn(w, x)' \/ EndTold(w)' \/ feeds'[w].lostEnd
      BY <2>3 DEF TurnGoesOn
    <3> QED
      BY <3>1, <3>2 DEF EndsUp
  <2> QED
    BY <2>1, <2>2, <2>3 DEF EndsUp
<1>6. WillWake(w)'
  BY <1>4, <1>5 DEF WillWake
<1> QED
  BY <1>1, <1>2, <1>6 DEF ChatOK

(* One that stands before its subscription waits for nothing yet.          *)
LEMMA ChatBefore ==
  ASSUME NEW w \in Watcher,
         asks'[w].pc \in {"idle", "find", "open", "storing", "subscribe"},
         asks'[w].pc \in {"storing", "subscribe"} => asks'[w].session \in Made',
         \A s \in Session : ~Subscribed(w, s)'
  PROVE  ChatOK(w)'
  BY DEF ChatOK, OnOpened, FeedIsOpen, WillWake

LEMMA NotSubscribedBefore ==
  ASSUME NEW w \in Watcher, ChatOK(w), asks[w].pc \notin {"send", "watch", "leave"}
  PROVE  \A s \in Session : ~Subscribed(w, s)
  BY DEF ChatOK, FeedIsOpen

LEMMA ToShape ==
  ASSUME asks \in [Watcher -> Ask], NEW w \in Watcher, NEW pc, To(w, pc),
         pc \in {"idle", "find", "open", "storing", "subscribe", "send", "watch", "leave"}
  PROVE  /\ asks' \in [Watcher -> Ask]
         /\ asks'[w].pc = pc /\ asks'[w].session = asks[w].session
         /\ \A v \in Watcher \ {w} : asks'[v] = asks[v]
  BY DEF To, Ask

LEMMA ToSessionShape ==
  ASSUME asks \in [Watcher -> Ask], NEW w \in Watcher, NEW pc, NEW s \in Session,
         asks' = [asks EXCEPT ![w].pc = pc, ![w].session = s],
         pc \in {"idle", "find", "open", "storing", "subscribe", "send", "watch", "leave"}
  PROVE  /\ asks' \in [Watcher -> Ask]
         /\ asks'[w].pc = pc /\ asks'[w].session = s
         /\ \A v \in Watcher \ {w} : asks'[v] = asks[v]
  BY DEF Ask

LEMMA QuietShape ==
  ASSUME asks \in [Watcher -> Ask], NEW w \in Watcher, asks' = [asks EXCEPT ![w] = Quiet]
  PROVE  /\ asks' \in [Watcher -> Ask] /\ asks'[w].pc = "idle"
         /\ \A v \in Watcher \ {w} : asks'[v] = asks[v]
<1>1. Quiet \in Ask /\ Quiet.pc = "idle"
  BY DEF Quiet, Ask
<1> QED
  BY <1>1

(* When nothing of the sessions changes, the other chats stay.             *)
LEMMA OthersStay ==
  ASSUME ChatInv, NEW w \in Watcher, \A v \in Watcher \ {w} : asks'[v] = asks[v],
         Made \subseteq Made',
         \A v \in Watcher \ {w}, s \in Session : Subscribed(v, s)' <=> Subscribed(v, s),
         \A v \in Watcher \ {w} : feeds'[v] = feeds[v],
         \A x \in Exchange : exchanges[x].pc \notin {"none", "store"} =>
           /\ exchanges'[x].pc = exchanges[x].pc
           /\ exchanges'[x].session = exchanges[x].session
           /\ exchanges[x].for # w => exchanges'[x].for = exchanges[x].for
  PROVE  \A v \in Watcher \ {w} : ChatOK(v)'
<1> SUFFICES ASSUME NEW v \in Watcher \ {w}  PROVE ChatOK(v)'
  OBVIOUS
<1>1. ChatOK(v) /\ asks'[v] = asks[v] /\ feeds'[v] = feeds[v]
  BY DEF ChatInv
<1>2. EndTold(v) => EndTold(v)'
  BY <1>1 DEF EndTold
<1> QED
  BY <1>1, <1>2, ChatStays

-----------------------------------------------------------------------------
(* Every action keeps both.                                                *)

Inv == SessionInv /\ ChatInv

(* Nothing of what a chat looks at changes.                                *)
LEMMA ChatsUnmoved ==
  ASSUME ChatInv, UNCHANGED asks, Made \subseteq Made',
         \A w \in Watcher, s \in Session : Subscribed(w, s)' <=> Subscribed(w, s),
         FeedsKept, NoTurnUntold
  PROVE  \A w \in Watcher : ChatOK(w)'
<1> SUFFICES ASSUME NEW w \in Watcher  PROVE ChatOK(w)'
  OBVIOUS
<1>1. ChatOK(w)
  BY DEF ChatInv
<1> QED
  BY <1>1, ChatStays DEF FeedsKept, NoTurnUntold

LEMMA ClosersStay ==
  ASSUME ChatInv, UNCHANGED closings, Made \subseteq Made'
  PROVE  closings' \in [Closer -> Closing] /\ ClosersOnOpened'
  BY DEF ChatInv, ClosersOnOpened

LEMMA RunKeepsInv ==
  ASSUME Inv, NEW x \in Exchange, Run(x) \/ Say(x)
  PROVE  Inv'
<1>1. TurnStepShape /\ UNCHANGED <<asks, closings>>
  BY TurnStep DEF Inv, Run, Say
<1>2. \A w \in Watcher : ChatOK(w)'
  BY <1>1, ChatsUnmoved DEF Inv, TurnStepShape, SubscribersStay
<1>3. \A w \in Watcher, s \in Session : Subscribed(w, s) => feeds[w].open
  BY DEF Inv, ChatInv, ChatOK, FeedIsOpen
<1>4. ~panicked'
  BY <1>1, <1>3 DEF Inv, ChatInv, TurnStepShape, SendsOnOpenFeedsOnly
<1> QED
  BY <1>1, <1>2, <1>4, ClosersStay DEF Inv, ChatInv, TurnStepShape, SubscribersStay

LEMMA StopKeepsInv ==
  ASSUME Inv, Stop
  PROVE  Inv'
<1>1. PICK s \in Session : Interrupt(s) /\ UNCHANGED <<asks, closings>>
  BY DEF Stop, Inv, SessionInv, SessionTypeOK
<1>2. /\ SessionInv' /\ UNCHANGED <<registry, live, rows, feeds, panicked>>
      /\ \A x \in Exchange : /\ exchanges'[x].pc = exchanges[x].pc
                             /\ exchanges'[x].session = exchanges[x].session
                             /\ exchanges'[x].for = exchanges[x].for
  BY <1>1, InterruptShape DEF Inv
<1>3. FeedsKept /\ NoTurnUntold /\ Made' = Made
      /\ \A w \in Watcher, t \in Session : Subscribed(w, t)' <=> Subscribed(w, t)
  BY <1>2 DEF FeedsKept, EndTold, NoTurnUntold, Made, Subscribed
<1>4. \A w \in Watcher : ChatOK(w)'
  BY <1>1, <1>3, ChatsUnmoved DEF Inv
<1> QED
  BY <1>1, <1>2, <1>3, <1>4, ClosersStay DEF Inv, ChatInv

LEMMA SendFromPageKeepsInv ==
  ASSUME Inv, SendFromPage
  PROVE  Inv'
<1>1. PICK x \in Exchange, s \in Session : Accept(x, s, None) /\ UNCHANGED <<asks, closings>>
  BY DEF SendFromPage, Inv, SessionInv, SessionTypeOK
<1>2. /\ SessionInv' /\ Made' = Made /\ UNCHANGED <<registry, rows, feeds, panicked>>
      /\ \A v \in Watcher, t \in Session : Subscribed(v, t)' <=> Subscribed(v, t)
      /\ exchanges[x].pc = "none" /\ \A y \in Exchange \ {x} : exchanges'[y] = exchanges[y]
  BY <1>1, AcceptShape DEF Inv
<1>3. FeedsKept /\ NoTurnUntold
  BY <1>2 DEF FeedsKept, EndTold, NoTurnUntold
<1>4. \A w \in Watcher : ChatOK(w)'
  BY <1>1, <1>2, <1>3, ChatsUnmoved DEF Inv
<1> QED
  BY <1>1, <1>2, <1>3, <1>4, ClosersStay DEF Inv, ChatInv

LEMMA RestartKeepsInv ==
  ASSUME Inv, Restart
  PROVE  Inv'
<1>1. /\ SessionInv' /\ UNCHANGED panicked
      /\ \A w \in Watcher, s \in Session : ~Subscribed(w, s)'
  BY RestoredShape DEF Inv, Restart
<1>2. asks' = [w \in Watcher |-> Quiet] /\ closings' = [c \in Closer |-> NoClosing]
  BY DEF Restart
<1>3. Quiet \in Ask /\ Quiet.pc = "idle" /\ NoClosing \in Closing /\ NoClosing.pc = "idle"
  BY DEF Quiet, Ask, NoClosing, Closing
<1>4. \A w \in Watcher : ChatOK(w)'
  BY <1>1, <1>2, <1>3, ChatBefore
<1>5. ClosersOnOpened'
  BY <1>2, <1>3 DEF ClosersOnOpened
<1> QED
  BY <1>1, <1>2, <1>3, <1>4, <1>5 DEF Inv, ChatInv

(* What closes a session is told to whoever is subscribed by the close of  *)
(* its feed, which is open until then.                                     *)
LEMMA CloseFeedsKeepsChats ==
  ASSUME Inv, NEW s \in Session, CloseFeeds(s), UNCHANGED asks
  PROVE  SessionInv' /\ Made' = Made /\ ~panicked' /\ \A w \in Watcher : ChatOK(w)'
<1>1. /\ SessionInv' /\ Made' = Made
      /\ \A w \in Watcher, t \in Session : Subscribed(w, t)' <=> Subscribed(w, t) /\ t # s
      /\ \A w \in Watcher : /\ feeds'[w].open <=> feeds[w].open /\ ~Subscribed(w, s)
                            /\ feeds'[w].events = feeds[w].events
                            /\ feeds'[w].lostEnd = feeds[w].lostEnd
      /\ panicked' = (panicked \/ \E w \in Watcher : Subscribed(w, s) /\ ~feeds[w].open)
      /\ \A x \in Exchange : /\ exchanges'[x].pc = exchanges[x].pc
                             /\ exchanges'[x].session = exchanges[x].session
                             /\ exchanges'[x].for = exchanges[x].for
  BY CloseFeedsShape DEF Inv
<1>2. ~panicked'
  BY <1>1 DEF Inv, ChatInv, ChatOK, FeedIsOpen
<1>3. ASSUME NEW w \in Watcher  PROVE ChatOK(w)'
  <2>1. ChatOK(w) /\ asks'[w] = asks[w]
    BY DEF Inv, ChatInv
  <2>2. CASE Subscribed(w, s)
    <3>1. ~feeds'[w].open /\ \A t \in Session : ~Subscribed(w, t)'
      BY <1>1, <2>1, <2>2 DEF ChatOK, FeedIsOpen
    <3> QED
      BY <1>1, <2>1, <3>1 DEF ChatOK, OnOpened, FeedIsOpen, WillWake, EndsUp
  <2>3. CASE ~Subscribed(w, s)
    <3>1. \A t \in Session : Subscribed(w, t)' <=> Subscribed(w, t)
      BY <1>1, <2>3
    <3>2. EndTold(w) => EndTold(w)'
      BY <1>1 DEF EndTold
    <3>3. feeds'[w].open = feeds[w].open
      <4>1. feeds[w].open \in BOOLEAN /\ feeds'[w].open \in BOOLEAN
        BY <1>1 DEF Inv, SessionInv, SessionTypeOK, Feed
      <4> QED
        BY <1>1, <2>3, <4>1
    <3> QED
      BY <1>1, <2>1, <3>1, <3>2, <3>3, ChatStays
  <2> QED
    BY <2>2, <2>3
<1> QED
  BY <1>1, <1>2, <1>3

LEMMA ClosingShape ==
  ASSUME closings \in [Closer -> Closing], NEW c \in Closer, NEW pc,
         pc \in {"idle", "close", "remove", "forget", "open", "storing"}
  PROVE  /\ closings' = [closings EXCEPT ![c].pc = pc]
              => /\ closings' \in [Closer -> Closing]
                 /\ closings'[c].pc = pc /\ closings'[c].session = closings[c].session
                 /\ \A d \in Closer \ {c} : closings'[d] = closings[d]
         /\ closings' = [closings EXCEPT ![c] = NoClosing]
              => /\ closings' \in [Closer -> Closing] /\ closings'[c].pc = "idle"
                 /\ \A d \in Closer \ {c} : closings'[d] = closings[d]
         /\ \A s \in Session :
              closings' = [closings EXCEPT ![c].pc = pc, ![c].session = s]
                => /\ closings' \in [Closer -> Closing]
                   /\ closings'[c].pc = pc /\ closings'[c].session = s
                   /\ \A d \in Closer \ {c} : closings'[d] = closings[d]
<1>1. ASSUME closings' = [closings EXCEPT ![c].pc = pc]
      PROVE  /\ closings' \in [Closer -> Closing]
             /\ closings'[c].pc = pc /\ closings'[c].session = closings[c].session
             /\ \A d \in Closer \ {c} : closings'[d] = closings[d]
  BY <1>1 DEF Closing
<1>2. ASSUME closings' = [closings EXCEPT ![c] = NoClosing]
      PROVE  /\ closings' \in [Closer -> Closing] /\ closings'[c].pc = "idle"
             /\ \A d \in Closer \ {c} : closings'[d] = closings[d]
  <2>1. NoClosing \in Closing /\ NoClosing.pc = "idle"
    BY DEF NoClosing, Closing
  <2> QED
    BY <1>2, <2>1
<1>3. ASSUME NEW s \in Session, closings' = [closings EXCEPT ![c].pc = pc, ![c].session = s]
      PROVE  /\ closings' \in [Closer -> Closing]
             /\ closings'[c].pc = pc /\ closings'[c].session = s
             /\ \A d \in Closer \ {c} : closings'[d] = closings[d]
  BY <1>3 DEF Closing
<1> QED
  BY <1>1, <1>2, <1>3

LEMMA OpenKeepsChats ==
  ASSUME Inv, NEW s \in Session, Open(s)
  PROVE  /\ SessionInv' /\ s \in Made' /\ Made \subseteq Made' /\ UNCHANGED <<feeds, exchanges, panicked>>
         /\ \A w \in Watcher, t \in Session : Subscribed(w, t)' <=> Subscribed(w, t)
<1>1. /\ SessionInv' /\ live'[s].made /\ live'[s].subscribers = {} /\ live[s].subscribers = {}
      /\ \A t \in Session \ {s} : live'[t] = live[t]
  BY OpenKeepsSessionInv DEF Inv
<1>2. UNCHANGED <<feeds, exchanges, panicked>>
  BY DEF Open
<1> QED
  BY <1>1, <1>2 DEF Made, Subscribed

LEMMA NothingPublished ==
  UNCHANGED <<feeds, exchanges>> => FeedsKept /\ NoTurnUntold
  BY DEF FeedsKept, EndTold, NoTurnUntold

LEMMA CloseSessionKeepsInv ==
  ASSUME Inv, NEW c \in Closer, CloseSession(c)
  PROVE  Inv'
<1>1. PICK s \in Session :
        s \in registry /\ closings' = [closings EXCEPT ![c] = [pc |-> "close", session |-> s]]
  BY DEF CloseSession, Inv, SessionInv, SessionTypeOK
<1>2. UNCHANGED <<registry, live, rows, feeds, exchanges, panicked, asks>>
  BY DEF CloseSession, sessionVars
<1>3. s \in Made /\ Made' = Made
  BY <1>1, <1>2 DEF Inv, SessionInv, OpenedOnce, Made
<1>4. SessionInv'
  BY <1>2 DEF Inv, SessionInv, SessionTypeOK, OpenedOnce, OfASession, OneTurn, Answering, Alive, Made
<1>5. closings' \in [Closer -> Closing] /\ ClosersOnOpened'
  <2>1. [pc |-> "close", session |-> s] \in Closing
    BY DEF Closing
  <2> QED
    BY <1>1, <1>3, <2>1 DEF Inv, ChatInv, ClosersOnOpened
<1>6. \A w \in Watcher : ChatOK(w)'
  BY <1>2, <1>3, ChatsUnmoved, NothingPublished DEF Inv, Subscribed
<1> QED
  BY <1>2, <1>4, <1>5, <1>6 DEF Inv, ChatInv

(* What a closer does to the sessions, and where it goes on.               *)
LEMMA CloseStepKeepsInv ==
  ASSUME Inv, NEW c \in Closer, CloseStep(c)
  PROVE  Inv'
<1> DEFINE Then(pc) == closings' = [closings EXCEPT ![c].pc = pc]
           Done == closings' = [closings EXCEPT ![c] = NoClosing]
<1> PICK s : s = closings[c].session
  OBVIOUS
<1>1. UNCHANGED asks /\ asks \in [Watcher -> Ask] /\ closings \in [Closer -> Closing]
      /\ ~panicked /\ SessionInv /\ ClosersOnOpened
  BY DEF CloseStep, Inv, ChatInv
<1>2. ASSUME SessionInv', Made \subseteq Made', ~panicked', \A w \in Watcher : ChatOK(w)',
             \/ Done
             \/ s \in Made' /\ \E pc \in {"remove", "forget", "open"} : Then(pc)
             \/ \E new \in Made' : closings' = [closings EXCEPT ![c].pc = "storing", ![c].session = new]
      PROVE  Inv'
  <2>1. closings' \in [Closer -> Closing]
        /\ (closings'[c].pc = "idle" \/ closings'[c].session \in Made')
        /\ \A d \in Closer \ {c} : closings'[d] = closings[d]
    <3>1. CASE Done
      BY <1>1, <3>1, ClosingShape
    <3>2. CASE s \in Made' /\ \E pc \in {"remove", "forget", "open"} : Then(pc)
      BY <1>1, <3>2, ClosingShape
    <3>3. CASE \E new \in Made' :
                 closings' = [closings EXCEPT ![c].pc = "storing", ![c].session = new]
      BY <1>1, <3>3, ClosingShape DEF Made
    <3> QED
      BY <1>2, <3>1, <3>2, <3>3
  <2>2. ClosersOnOpened'
    BY <1>1, <1>2, <2>1 DEF ClosersOnOpened
  <2> QED
    BY <1>1, <1>2, <2>1, <2>2 DEF Inv, ChatInv
<1>3. closings[c].pc # "idle" => s \in Made /\ s \in Session
  BY <1>1 DEF ClosersOnOpened, Made
<1>4. CASE closings[c].pc = "close" /\ CloseFeeds(s) /\ Then("remove")
  BY <1>1, <1>2, <1>3, <1>4, CloseFeedsKeepsChats
<1>5. CASE \/ closings[c].pc = "remove" /\ Remove(s) /\ Then("forget")
           \/ closings[c].pc = "forget" /\ Forget(s) /\ (Done \/ Then("open"))
           \/ closings[c].pc = "storing" /\ StoreOpened(s) /\ Done
  <2>1. SessionInv' /\ UNCHANGED <<live, feeds, exchanges, panicked>>
    BY <1>1, <1>3, <1>5, StoringKeepsSessionInv
  <2>2. Made' = Made /\ \A w \in Watcher, t \in Session : Subscribed(w, t)' <=> Subscribed(w, t)
    BY <2>1 DEF Made, Subscribed
  <2>3. \A w \in Watcher : ChatOK(w)'
    BY <1>1, <2>1, <2>2, ChatsUnmoved, NothingPublished DEF Inv
  <2> QED
    BY <1>1, <1>2, <1>3, <1>5, <2>1, <2>2, <2>3
<1>6. CASE \E new \in Unmade :
             /\ Open(new)
             /\ closings' = [closings EXCEPT ![c].pc = "storing", ![c].session = new]
  <2>1. PICK new \in Session :
          /\ Open(new)
          /\ closings' = [closings EXCEPT ![c].pc = "storing", ![c].session = new]
    BY <1>6 DEF Unmade
  <2>2. /\ SessionInv' /\ new \in Made' /\ Made \subseteq Made' /\ UNCHANGED <<feeds, exchanges, panicked>>
        /\ \A w \in Watcher, t \in Session : Subscribed(w, t)' <=> Subscribed(w, t)
    BY <2>1, OpenKeepsChats
  <2>3. \A w \in Watcher : ChatOK(w)'
    BY <1>1, <2>2, ChatsUnmoved, NothingPublished DEF Inv
  <2> QED
    BY <1>1, <1>2, <2>1, <2>2, <2>3
<1>7. CASE closings[c].pc = "open" /\ Done /\ UNCHANGED sessionVars
  <2>1. UNCHANGED <<registry, live, rows, feeds, exchanges, panicked>>
    BY <1>7 DEF sessionVars
  <2>2. SessionInv'
    BY <1>1, <2>1 DEF SessionInv, SessionTypeOK, OpenedOnce, OfASession, OneTurn, Answering, Alive, Made
  <2>3. Made' = Made /\ \A w \in Watcher, t \in Session : Subscribed(w, t)' <=> Subscribed(w, t)
    BY <2>1 DEF Made, Subscribed
  <2>4. \A w \in Watcher : ChatOK(w)'
    BY <1>1, <2>1, <2>3, ChatsUnmoved, NothingPublished DEF Inv
  <2> QED
    BY <1>1, <1>2, <1>7, <2>1, <2>2, <2>3, <2>4
<1> QED
  BY <1>4, <1>5, <1>6, <1>7 DEF CloseStep

-----------------------------------------------------------------------------
(* What a chat itself does.                                                *)

(* The chat that moves is looked at by itself, the others stay.            *)
LEMMA ChatMoves ==
  ASSUME Inv, NEW w \in Watcher, UNCHANGED closings, SessionInv', ~panicked',
         asks' \in [Watcher -> Ask], \A v \in Watcher \ {w} : asks'[v] = asks[v],
         Made \subseteq Made',
         \A v \in Watcher \ {w}, s \in Session : Subscribed(v, s)' <=> Subscribed(v, s),
         \A v \in Watcher \ {w} : feeds'[v] = feeds[v],
         \A x \in Exchange : exchanges[x].pc \notin {"none", "store"} =>
           /\ exchanges'[x].pc = exchanges[x].pc
           /\ exchanges'[x].session = exchanges[x].session
           /\ exchanges[x].for # w => exchanges'[x].for = exchanges[x].for,
         ChatOK(w)'
  PROVE  Inv'
<1>1. \A v \in Watcher \ {w} : ChatOK(v)'
  BY OthersStay DEF Inv
<1>2. closings' \in [Closer -> Closing] /\ ClosersOnOpened'
  BY ClosersStay DEF Inv
<1> QED
  BY <1>1, <1>2 DEF Inv, ChatInv

LEMMA OnlyTheChatMoves ==
  ASSUME Inv, NEW w \in Watcher, UNCHANGED <<sessionVars, closings>>,
         asks' \in [Watcher -> Ask], \A v \in Watcher \ {w} : asks'[v] = asks[v],
         ChatOK(w)'
  PROVE  Inv'
<1>1. UNCHANGED <<registry, live, rows, feeds, exchanges, panicked>>
  BY DEF sessionVars
<1>2. SessionInv' /\ Made' = Made
  BY <1>1 DEF Inv, SessionInv, SessionTypeOK, OpenedOnce, OfASession, OneTurn, Answering, Alive, Made
<1>3. \A v \in Watcher, s \in Session : Subscribed(v, s)' <=> Subscribed(v, s)
  BY <1>1 DEF Subscribed
<1> QED
  BY <1>1, <1>2, <1>3, ChatMoves DEF Inv, ChatInv

LEMMA ChatFacts ==
  ASSUME Inv, NEW w \in Watcher
  PROVE  /\ asks \in [Watcher -> Ask] /\ ChatOK(w) /\ SessionInv /\ ~panicked
         /\ asks[w].pc \notin {"idle", "find", "open"}
              => asks[w].session \in Made /\ asks[w].session \in Session
  BY DEF Inv, ChatInv, ChatOK, OnOpened, Made

LEMMA StillNotSubscribed ==
  ASSUME Inv, NEW w \in Watcher, asks[w].pc \notin {"send", "watch", "leave"},
         \A s \in Session : Subscribed(w, s)' <=> Subscribed(w, s)
  PROVE  \A s \in Session : ~Subscribed(w, s)'
  BY ChatFacts, NotSubscribedBefore

LEMMA FindKeepsInv ==
  ASSUME Inv, NEW w \in Watcher, Handle(w) \/ Find(w)
  PROVE  Inv'
<1>1. asks \in [Watcher -> Ask] /\ registry \subseteq Session /\ registry \subseteq Made
  BY DEF Inv, ChatInv, SessionInv, SessionTypeOK, OpenedOnce
<1>2. /\ UNCHANGED <<sessionVars, closings>> /\ asks[w].pc \notin {"send", "watch", "leave"}
      /\ \/ To(w, "find") \/ To(w, "open")
         \/ \E s \in registry : asks' = [asks EXCEPT ![w].pc = "subscribe", ![w].session = s]
  BY DEF Handle, Find, At
<1>3. Made' = Made /\ \A s \in Session : Subscribed(w, s)' <=> Subscribed(w, s)
  BY <1>2 DEF sessionVars, Made, Subscribed
<1>4. /\ asks' \in [Watcher -> Ask] /\ \A v \in Watcher \ {w} : asks'[v] = asks[v]
      /\ \/ asks'[w].pc \in {"find", "open"}
         \/ asks'[w].pc = "subscribe" /\ asks'[w].session \in Made
  <2>1. CASE To(w, "find")
    BY <1>1, <2>1, ToShape
  <2>2. CASE To(w, "open")
    BY <1>1, <2>2, ToShape
  <2>3. CASE \E s \in registry : asks' = [asks EXCEPT ![w].pc = "subscribe", ![w].session = s]
    <3>1. PICK s \in Session : /\ s \in Made
                               /\ asks' = [asks EXCEPT ![w].pc = "subscribe", ![w].session = s]
      BY <1>1, <2>3
    <3>2. "subscribe" \in {"idle", "find", "open", "storing", "subscribe", "send", "watch", "leave"}
      OBVIOUS
    <3>3. /\ asks' \in [Watcher -> Ask] /\ asks'[w].pc = "subscribe" /\ asks'[w].session = s
          /\ \A v \in Watcher \ {w} : asks'[v] = asks[v]
      BY <1>1, <3>1, <3>2, ToSessionShape
    <3> QED
      BY <3>1, <3>3
  <2> QED
    BY <1>2, <2>1, <2>2, <2>3
<1>5. ChatOK(w)'
  BY <1>2, <1>3, <1>4, StillNotSubscribed, ChatBefore
<1> QED
  BY <1>2, <1>4, <1>5, OnlyTheChatMoves

LEMMA OpenForChatKeepsInv ==
  ASSUME Inv, NEW w \in Watcher, OpenForChat(w)
  PROVE  Inv'
<1>1. asks \in [Watcher -> Ask] /\ asks[w].pc = "open" /\ UNCHANGED closings /\ ~panicked
  BY DEF Inv, ChatInv, OpenForChat, At
<1>2. CASE \E s \in Unmade :
             Open(s) /\ asks' = [asks EXCEPT ![w].pc = "storing", ![w].session = s]
  <2>1. PICK s \in Session :
          Open(s) /\ asks' = [asks EXCEPT ![w].pc = "storing", ![w].session = s]
    BY <1>2 DEF Unmade
  <2>2. /\ SessionInv' /\ s \in Made' /\ Made \subseteq Made' /\ UNCHANGED <<feeds, exchanges, panicked>>
        /\ \A v \in Watcher, t \in Session : Subscribed(v, t)' <=> Subscribed(v, t)
    BY <2>1, OpenKeepsChats
  <2>3. "storing" \in {"idle", "find", "open", "storing", "subscribe", "send", "watch", "leave"}
    OBVIOUS
  <2>4. /\ asks' \in [Watcher -> Ask] /\ asks'[w].pc = "storing" /\ asks'[w].session = s
        /\ \A v \in Watcher \ {w} : asks'[v] = asks[v]
    BY <1>1, <2>1, <2>3, ToSessionShape
  <2>5. ChatOK(w)'
    BY <1>1, <2>2, <2>4, StillNotSubscribed, ChatBefore
  <2> QED
    BY <1>1, <2>2, <2>4, <2>5, ChatMoves
<1>3. CASE asks' = [asks EXCEPT ![w] = Quiet] /\ UNCHANGED sessionVars
  <2>1. asks' \in [Watcher -> Ask] /\ asks'[w].pc = "idle" /\ \A v \in Watcher \ {w} : asks'[v] = asks[v]
    BY <1>1, <1>3, QuietShape
  <2>2. \A s \in Session : Subscribed(w, s)' <=> Subscribed(w, s)
    BY <1>3 DEF sessionVars, Subscribed
  <2>3. ChatOK(w)'
    BY <1>1, <2>1, <2>2, StillNotSubscribed, ChatBefore
  <2> QED
    BY <1>1, <1>3, <2>1, <2>3, OnlyTheChatMoves
<1> QED
  BY <1>2, <1>3 DEF OpenForChat

LEMMA StoreForChatKeepsInv ==
  ASSUME Inv, NEW w \in Watcher, StoreForChat(w)
  PROVE  Inv'
<1>1. /\ asks \in [Watcher -> Ask] /\ asks[w].pc = "storing" /\ UNCHANGED closings /\ ~panicked
      /\ StoreOpened(asks[w].session) /\ To(w, "subscribe")
  BY DEF Inv, ChatInv, StoreForChat, At
<1>2. asks[w].session \in Made
  BY <1>1, ChatFacts
<1>3. SessionInv' /\ UNCHANGED <<live, feeds, exchanges, panicked>>
  BY <1>1, <1>2, StoringKeepsSessionInv DEF Inv
<1>4. /\ asks' \in [Watcher -> Ask] /\ asks'[w].pc = "subscribe"
      /\ asks'[w].session = asks[w].session
      /\ \A v \in Watcher \ {w} : asks'[v] = asks[v]
  BY <1>1, ToShape
<1>5. Made' = Made /\ \A v \in Watcher, t \in Session : Subscribed(v, t)' <=> Subscribed(v, t)
  BY <1>3 DEF Made, Subscribed
<1>6. ChatOK(w)'
  BY <1>1, <1>2, <1>4, <1>5, StillNotSubscribed, ChatBefore
<1> QED
  BY <1>1, <1>3, <1>4, <1>5, <1>6, ChatMoves

LEMMA SubscribeChatKeepsInv ==
  ASSUME Inv, NEW w \in Watcher, SubscribeChat(w)
  PROVE  Inv'
<1>1. asks \in [Watcher -> Ask] /\ asks[w].pc = "subscribe" /\ UNCHANGED closings /\ ~panicked
  BY DEF Inv, ChatInv, SubscribeChat, At
<1>2. PICK s \in Session : s = asks[w].session /\ s \in Made
  BY <1>1, ChatFacts
<1>3. \A t \in Session : ~Subscribed(w, t)
  BY <1>1, ChatFacts, NotSubscribedBefore
<1>4. CASE Subscribe(w, s) /\ To(w, "send")
  <2>1. /\ SessionInv' /\ Made' = Made
        /\ UNCHANGED <<registry, rows, exchanges, panicked>>
        /\ \A v \in Watcher, t \in Session :
             Subscribed(v, t)' <=> Subscribed(v, t) \/ (v = w /\ t = s)
        /\ feeds'[w].open /\ \A v \in Watcher \ {w} : feeds'[v] = feeds[v]
    BY <1>4, SubscribeShape DEF Inv
  <2>2. /\ asks' \in [Watcher -> Ask] /\ asks'[w].pc = "send" /\ asks'[w].session = s
        /\ \A v \in Watcher \ {w} : asks'[v] = asks[v]
    BY <1>1, <1>2, <1>4, ToShape
  <2>3. Subscribed(w, s)' /\ \A t \in Session : Subscribed(w, t)' => t = s
    BY <1>3, <2>1
  <2>4. ChatOK(w)'
    <3>1. OnOpened(w)' /\ FeedIsOpen(w)'
      BY <1>2, <2>1, <2>2, <2>3 DEF OnOpened, FeedIsOpen
    <3>2. Subscribed(w, asks[w].session)'
      BY <2>2, <2>3 DEF Subscribed
    <3> QED
      BY <2>2, <3>1, <3>2 DEF ChatOK, WillWake
  <2> QED
    BY <1>1, <2>1, <2>2, <2>4, ChatMoves
<1>5. CASE asks' = [asks EXCEPT ![w] = Quiet] /\ UNCHANGED sessionVars
  <2>1. asks' \in [Watcher -> Ask] /\ asks'[w].pc = "idle" /\ \A v \in Watcher \ {w} : asks'[v] = asks[v]
    BY <1>1, <1>5, QuietShape
  <2>2. \A t \in Session : ~Subscribed(w, t)'
    BY <1>3, <1>5 DEF sessionVars, Subscribed
  <2>3. ChatOK(w)'
    BY <2>1, <2>2, ChatBefore
  <2> QED
    BY <1>1, <1>5, <2>1, <2>3, OnlyTheChatMoves
<1> QED
  BY <1>2, <1>4, <1>5 DEF SubscribeChat

(* A turn accepted for the chat finds it subscribed, or its feed closed.   *)
LEMMA SendFromChatKeepsInv ==
  ASSUME Inv, NEW w \in Watcher, SendFromChat(w)
  PROVE  Inv'
<1>1. asks \in [Watcher -> Ask] /\ asks[w].pc = "send" /\ UNCHANGED closings /\ ~panicked
  BY DEF Inv, ChatInv, SendFromChat, At
<1>2. PICK s \in Session : s = asks[w].session /\ s \in Made
  BY <1>1, ChatFacts
<1>3. /\ Subscribed(w, s) \/ ~feeds[w].open
      /\ \A t \in Session : Subscribed(w, t) => feeds[w].open /\ s = t
  BY <1>1, <1>2, ChatFacts DEF ChatOK, FeedIsOpen, WillWake
<1>4. CASE \E x \in Exchange : Accept(x, s, w) /\ To(w, "watch")
  <2>1. PICK x \in Exchange : Accept(x, s, w) /\ To(w, "watch")
    BY <1>4
  <2>2. /\ SessionInv' /\ Made' = Made /\ UNCHANGED <<registry, rows, feeds, panicked>>
        /\ \A v \in Watcher, t \in Session : Subscribed(v, t)' <=> Subscribed(v, t)
        /\ exchanges[x].pc = "none"
        /\ exchanges'[x].pc = "prompt" /\ exchanges'[x].session = s /\ exchanges'[x].for = w
        /\ \A y \in Exchange \ {x} : exchanges'[y] = exchanges[y]
    BY <2>1, AcceptShape DEF Inv
  <2>3. /\ asks' \in [Watcher -> Ask] /\ asks'[w].pc = "watch" /\ asks'[w].session = s
        /\ \A v \in Watcher \ {w} : asks'[v] = asks[v]
    BY <1>1, <1>2, <2>1, ToShape
  <2>4. ChatOK(w)'
    <3>1. OnOpened(w)' /\ FeedIsOpen(w)'
      BY <1>2, <1>3, <2>2, <2>3 DEF OnOpened, FeedIsOpen
    <3>2. EndsUp(w)'
      <4>1. CASE ~feeds[w].open
        BY <2>2, <4>1 DEF EndsUp
      <4>2. CASE Subscribed(w, s)
        <5>1. Subscribed(w, asks[w].session)'
          BY <2>2, <2>3, <4>2 DEF Subscribed
        <5>2. TurnGoesOn(w, x)'
          BY <2>2, <2>3 DEF TurnGoesOn
        <5> QED
          BY <5>1, <5>2 DEF EndsUp
      <4> QED
        BY <1>3, <4>1, <4>2
    <3> QED
      BY <2>3, <3>1, <3>2 DEF ChatOK, WillWake
  <2>5. \A y \in Exchange : exchanges[y].pc \notin {"none", "store"} => exchanges'[y] = exchanges[y]
    BY <2>2
  <2> QED
    BY <1>1, <2>2, <2>3, <2>4, <2>5, ChatMoves
<1>5. CASE To(w, "leave") /\ UNCHANGED sessionVars
  <2>1. /\ asks' \in [Watcher -> Ask] /\ asks'[w].pc = "leave" /\ asks'[w].session = s
        /\ \A v \in Watcher \ {w} : asks'[v] = asks[v]
    BY <1>1, <1>2, <1>5, ToShape
  <2>2. Made' = Made /\ UNCHANGED feeds /\ \A t \in Session : Subscribed(w, t)' <=> Subscribed(w, t)
    BY <1>5 DEF sessionVars, Made, Subscribed
  <2>3. ChatOK(w)'
    BY <1>2, <1>3, <2>1, <2>2 DEF ChatOK, OnOpened, FeedIsOpen, WillWake
  <2> QED
    BY <1>1, <1>5, <2>1, <2>3, OnlyTheChatMoves
<1> QED
  BY <1>2, <1>4, <1>5 DEF SendFromChat

(* An event read that is not the end leaves the end where it is.           *)
LEMMA TailKeepsTheEnd ==
  ASSUME NEW events \in Seq(Event), events # <<>>, Head(events) # "done"
  PROVE  (\E i \in DOMAIN events : events[i] = "done")
           => \E i \in DOMAIN Tail(events) : Tail(events)[i] = "done"
<1> SUFFICES ASSUME NEW i \in DOMAIN events, events[i] = "done"
             PROVE  \E j \in DOMAIN Tail(events) : Tail(events)[j] = "done"
  OBVIOUS
<1>1. i \in 1 .. Len(events) /\ i # 1
  OBVIOUS
<1>2. i - 1 \in DOMAIN Tail(events) /\ Tail(events)[i - 1] = events[i]
  BY <1>1
<1> QED
  BY <1>2

LEMMA ReadKeepsInv ==
  ASSUME Inv, NEW w \in Watcher, Read(w)
  PROVE  Inv'
<1>1. asks \in [Watcher -> Ask] /\ asks[w].pc = "watch" /\ UNCHANGED closings /\ ~panicked
  BY DEF Inv, ChatInv, Read, At
<1>2. PICK s \in Session : s = asks[w].session /\ s \in Made
  BY <1>1, ChatFacts
<1>3. /\ EndsUp(w)
      /\ \A t \in Session : Subscribed(w, t) => feeds[w].open /\ s = t
  BY <1>1, <1>2, ChatFacts DEF ChatOK, FeedIsOpen, WillWake
<1>4. CASE /\ feeds[w].events # <<>>
           /\ feeds' = [feeds EXCEPT ![w].events = Tail(@)]
           /\ IF Head(feeds[w].events) = "done" THEN To(w, "leave") ELSE UNCHANGED asks
           /\ UNCHANGED <<registry, live, rows, exchanges, panicked>>
  <2>1. /\ feeds \in [Watcher -> Feed] /\ feeds[w].events \in Seq(Event)
        /\ \A v \in Watcher : Len(feeds[v].events) <= FeedBuffer
        /\ FeedBuffer \in Nat
    BY SessionAssumption DEF Inv, SessionInv, SessionTypeOK, Feed
  <2>2. /\ Tail(feeds[w].events) \in Seq(Event) /\ Len(Tail(feeds[w].events)) <= FeedBuffer
    BY <1>4, <2>1
  <2>3. /\ feeds' \in [Watcher -> Feed]
        /\ feeds'[w].open = feeds[w].open /\ feeds'[w].lostEnd = feeds[w].lostEnd
        /\ feeds'[w].events = Tail(feeds[w].events)
        /\ \A v \in Watcher \ {w} : feeds'[v] = feeds[v]
    <3> DEFINE rest == [feeds[w] EXCEPT !.events = Tail(feeds[w].events)]
    <3>1. /\ rest \in Feed /\ rest.open = feeds[w].open /\ rest.lostEnd = feeds[w].lostEnd
          /\ rest.events = Tail(feeds[w].events)
      BY <2>1, <2>2 DEF Feed
    <3>2. feeds' = [feeds EXCEPT ![w] = rest]
      BY <1>4, <2>1
    <3> HIDE DEF rest
    <3> QED
      BY <2>1, <3>1, <3>2
  <2>4. \A v \in Watcher : Len(feeds'[v].events) <= FeedBuffer
    BY <2>1, <2>2, <2>3
  <2>5. SessionInv'
    <3>1. SessionInv
      BY DEF Inv
    <3>2. SessionTypeOK'
      BY <1>4, <2>3, <2>4, <3>1 DEF SessionInv, SessionTypeOK
    <3>3. OpenedOnce' /\ OfASession' /\ OneTurn'
      BY <1>4, <3>1 DEF SessionInv, OpenedOnce, OfASession, OneTurn, Answering, Alive, Made
    <3> QED
      BY <3>2, <3>3 DEF SessionInv
  <2>6. Made' = Made /\ \A v \in Watcher, t \in Session : Subscribed(v, t)' <=> Subscribed(v, t)
    BY <1>4 DEF Made, Subscribed
  <2>7. /\ asks' \in [Watcher -> Ask] /\ \A v \in Watcher \ {w} : asks'[v] = asks[v]
        /\ asks'[w].session = s
        /\ \/ asks'[w].pc = "leave"
           \/ asks'[w] = asks[w] /\ Head(feeds[w].events) # "done"
    <3>1. CASE Head(feeds[w].events) = "done"
      <4>1. To(w, "leave")
        BY <1>4, <3>1
      <4> QED
        BY <1>1, <1>2, <4>1, ToShape
    <3>2. CASE Head(feeds[w].events) # "done"
      BY <1>1, <1>2, <1>4, <3>2
    <3> QED
      BY <3>1, <3>2
  <2>8. ChatOK(w)'
    <3>1. CASE asks'[w].pc = "leave"
      BY <1>2, <1>3, <2>3, <2>6, <2>7, <3>1 DEF ChatOK, OnOpened, FeedIsOpen, WillWake
    <3>2. CASE asks'[w] = asks[w] /\ Head(feeds[w].events) # "done"
      <4>1. EndTold(w) => EndTold(w)'
        BY <1>4, <2>1, <2>3, <3>2, TailKeepsTheEnd DEF EndTold
      <4>2. \A x \in Exchange : exchanges'[x] = exchanges[x]
        BY <1>4
      <4>3. ChatOK(w)
        BY ChatFacts
      <4> QED
        BY <2>3, <2>6, <3>2, <4>1, <4>2, <4>3, ChatStays
    <3> QED
      BY <2>7, <3>1, <3>2
  <2> QED
    BY <1>1, <1>4, <2>3, <2>5, <2>6, <2>7, <2>8, ChatMoves
<1>5. CASE To(w, "leave") /\ UNCHANGED sessionVars
  <2>1. /\ asks' \in [Watcher -> Ask] /\ asks'[w].pc = "leave" /\ asks'[w].session = s
        /\ \A v \in Watcher \ {w} : asks'[v] = asks[v]
    BY <1>1, <1>2, <1>5, ToShape
  <2>2. Made' = Made /\ UNCHANGED feeds /\ \A t \in Session : Subscribed(w, t)' <=> Subscribed(w, t)
    BY <1>5 DEF sessionVars, Made, Subscribed
  <2>3. ChatOK(w)'
    BY <1>2, <1>3, <2>1, <2>2 DEF ChatOK, OnOpened, FeedIsOpen, WillWake
  <2> QED
    BY <1>1, <1>5, <2>1, <2>3, OnlyTheChatMoves
<1> QED
  BY <1>4, <1>5 DEF Read

LEMMA LeaveKeepsInv ==
  ASSUME Inv, NEW w \in Watcher, Leave(w)
  PROVE  Inv'
<1>1. asks \in [Watcher -> Ask] /\ asks[w].pc = "leave" /\ UNCHANGED closings /\ ~panicked
  BY DEF Inv, ChatInv, Leave, At
<1>2. PICK s \in Made : s = asks[w].session
  BY <1>1, ChatFacts
<1>3. Unsubscribe(w, s) /\ asks' = [asks EXCEPT ![w] = Quiet]
  BY <1>2 DEF Leave
<1>4. /\ SessionInv' /\ Made' = Made
      /\ \A v \in Watcher, t \in Session :
           Subscribed(v, t)' <=> Subscribed(v, t) /\ ~(v = w /\ t = s)
      /\ \A v \in Watcher \ {w} : feeds'[v] = feeds[v]
      /\ panicked' = (panicked \/ (s \in registry /\ Subscribed(w, s) /\ ~feeds[w].open))
      /\ \A x \in Exchange :
           /\ exchanges'[x].pc = exchanges[x].pc
           /\ exchanges'[x].session = exchanges[x].session
           /\ exchanges[x].for # w => exchanges'[x].for = exchanges[x].for
  BY <1>3, UnsubscribeShape DEF Inv
<1>5. \A t \in Session : Subscribed(w, t) => feeds[w].open /\ s = t
  BY <1>2, ChatFacts DEF ChatOK, FeedIsOpen
<1>6. ~panicked'
  BY <1>1, <1>2, <1>4, <1>5 DEF Made
<1>7. asks' \in [Watcher -> Ask] /\ asks'[w].pc = "idle" /\ \A v \in Watcher \ {w} : asks'[v] = asks[v]
  BY <1>1, <1>3, QuietShape
<1>8. ChatOK(w)'
  BY <1>4, <1>5, <1>7, ChatBefore
<1>9. \A v \in Watcher \ {w}, t \in Session : Subscribed(v, t)' <=> Subscribed(v, t)
  BY <1>4
<1> QED
  BY <1>1, <1>4, <1>6, <1>7, <1>8, <1>9, ChatMoves

-----------------------------------------------------------------------------

LEMMA InitInv == Init => Inv
<1> SUFFICES ASSUME Init  PROVE Inv
  OBVIOUS
<1>1. /\ registry = {} /\ live = [s \in Session |-> New] /\ rows = {}
      /\ feeds = [w \in Watcher |-> NoFeed] /\ exchanges = [x \in Exchange |-> Idle]
      /\ panicked = FALSE
      /\ asks = [w \in Watcher |-> Quiet] /\ closings = [c \in Closer |-> NoClosing]
  BY DEF Init, SessionInit
<1>2. New \in Live /\ ~New.made /\ New.state = "idle" /\ New.subscribers = {}
  BY DEF New, Live
<1>3. NoFeed \in Feed /\ Len(NoFeed.events) <= FeedBuffer
  BY SessionAssumption DEF NoFeed, Feed
<1>4. /\ Idle \in [pc : Phase, session : Session \cup {None},
                   cancelled : BOOLEAN, for : Watcher \cup {None}]
      /\ Idle.pc = "none"
  BY DEF Idle, Phase
<1>5. SessionTypeOK
  BY <1>1, <1>2, <1>3, <1>4 DEF SessionTypeOK
<1>6. OpenedOnce /\ OfASession
  BY <1>1, <1>2, <1>4 DEF OpenedOnce, OfASession
<1>7. OneTurn
  <2>1. \A s \in Session : Answering(s) = {}
    BY <1>1, <1>4 DEF Answering, Alive
  <2> QED
    BY <1>1, <1>2, <2>1 DEF OneTurn
<1>8. Quiet \in Ask /\ Quiet.pc = "idle" /\ NoClosing \in Closing /\ NoClosing.pc = "idle"
  BY DEF Quiet, Ask, NoClosing, Closing
<1>9. ASSUME NEW w \in Watcher  PROVE ChatOK(w)
  <2>1. asks[w].pc = "idle" /\ \A s \in Session : ~Subscribed(w, s)
    BY <1>1, <1>2, <1>8 DEF Subscribed
  <2> QED
    BY <2>1 DEF ChatOK, OnOpened, FeedIsOpen, WillWake
<1> QED
  BY <1>1, <1>5, <1>6, <1>7, <1>8, <1>9 DEF Inv, SessionInv, ChatInv, ClosersOnOpened

LEMMA NextInv == Inv /\ [Next]_vars => Inv'
<1> SUFFICES ASSUME Inv, [Next]_vars  PROVE Inv'
  OBVIOUS
<1>1. ASSUME NEW w \in Watcher, Handle(w) \/ AskStep(w)  PROVE Inv'
  BY <1>1, FindKeepsInv, OpenForChatKeepsInv, StoreForChatKeepsInv, SubscribeChatKeepsInv,
     SendFromChatKeepsInv, ReadKeepsInv, LeaveKeepsInv DEF AskStep
<1>2. ASSUME NEW c \in Closer, CloseSession(c) \/ CloseStep(c)  PROVE Inv'
  BY <1>2, CloseSessionKeepsInv, CloseStepKeepsInv
<1>3. ASSUME NEW x \in Exchange, Run(x) \/ Say(x)  PROVE Inv'
  BY <1>3, RunKeepsInv
<1>4. CASE Stop \/ SendFromPage \/ Restart
  BY <1>4, StopKeepsInv, SendFromPageKeepsInv, RestartKeepsInv
<1>5. CASE UNCHANGED vars
  BY <1>5 DEF vars, Inv, SessionInv, SessionTypeOK, OpenedOnce, OfASession, OneTurn, Answering, Alive,
              Made, ChatInv, ClosersOnOpened, ChatOK, OnOpened, FeedIsOpen, WillWake, EndsUp,
              Subscribed, EndTold, TurnGoesOn
<1> QED
  BY <1>1, <1>2, <1>3, <1>4, <1>5 DEF Next

LEMMA SpecInv == Spec => []Inv
  BY InitInv, NextInv, PTL DEF Spec

(* The types of the sessions, their feeds and exchanges, the chats and the *)
(* closers; a feed never holds more than its channel has room for.         *)
THEOREM TypeCorrect == Spec => []TypeOK
<1>1. Inv => TypeOK
  BY DEF Inv, SessionInv, ChatInv, TypeOK
<1> QED
  BY <1>1, SpecInv, PTL

(* A session says it is running exactly while one exchange, and no second, *)
(* has taken it and not handed it back: Send refuses a second prompt under *)
(* the lock it takes the session with (store.go), however chats, pages,    *)
(* closes, stops and restarts fall between.                                *)
THEOREM OneTurnAtATime == Spec => []RunningIffOneTurn
<1>1. Inv => RunningIffOneTurn
  <2> SUFFICES ASSUME Inv, NEW s \in Session
               PROVE  Cardinality(Answering(s)) = IF live[s].state = "running" THEN 1 ELSE 0
    BY DEF RunningIffOneTurn
  <2>1. (live[s].state = "running" <=> Answering(s) # {}) /\ \A x, y \in Answering(s) : x = y
    BY DEF Inv, SessionInv, OneTurn
  <2>2. CASE live[s].state = "running"
    <3>1. PICK x \in Answering(s) : Answering(s) = {x}
      BY <2>1, <2>2
    <3> QED
      BY <2>2, <3>1, FS_Singleton
  <2>3. CASE live[s].state # "running"
    BY <2>1, <2>3, FS_EmptySet
  <2> QED
    BY <2>2, <2>3
<1> QED
  BY <1>1, SpecInv, PTL

(* No event is published to a feed that Close or Unsubscribe closed, and   *)
(* neither closes one the other has: who closes it drops it from the       *)
(* subscribers in the same hold of the session's lock.                     *)
THEOREM ClosedFeedsLeftAlone == Spec => []NoClosedFeedUsed
<1>1. Inv => NoClosedFeedUsed
  BY DEF Inv, ChatInv, NoClosedFeedUsed
<1> QED
  BY <1>1, SpecInv, PTL

(* A chat that waits for the end of its turn has the end, or the close of  *)
(* its feed, before it, or is subscribed to a turn of its own that will    *)
(* say so; but for the end that found the feed full.                       *)
THEOREM ChatsAreWoken == Spec => []NoChatStranded
<1>1. Inv => NoChatStranded
  <2> SUFFICES ASSUME Inv, NEW w \in Watcher, asks[w].pc = "watch"
               PROVE  \/ feeds[w].events # <<>> \/ ~feeds[w].open \/ feeds[w].lostEnd
                      \/ \E x \in Alive(asks[w].session) :
                           /\ exchanges[x].for = w /\ exchanges[x].pc # "store"
                           /\ w \in live[asks[w].session].subscribers
    BY DEF NoChatStranded, At
  <2>1. EndsUp(w)
    BY ChatFacts DEF ChatOK, WillWake
  <2>2. EndTold(w) => feeds[w].events # <<>>
    BY DEF EndTold
  <2> QED
    BY <2>1, <2>2 DEF EndsUp, TurnGoesOn, Subscribed, Alive
<1> QED
  BY <1>1, SpecInv, PTL
=============================================================================
