---------------------------- MODULE AgentSession ----------------------------
(***************************************************************************)
(* The sessions Gateway drives agents in (agentsession/store.go) with the  *)
(* rows they are kept in (object/agent_session.go).  A session answers one *)
(* prompt at a time; each prompt is an exchange, a goroutine that runs the *)
(* agent's process (runner.go) and publishes what it says to the feeds     *)
(* subscribed to the session.  A feed is a bounded channel: an event that  *)
(* does not fit is dropped.  The registry and each session have a lock of  *)
(* their own, and a row is written from a copy, after the lock.            *)
(* A module of operations: ImRouter and the pages decide who calls them.   *)
(***************************************************************************)
EXTENDS Naturals, Sequences, FiniteSets

CONSTANTS
  Session,     \* ids; one is used once
  Exchange,    \* the goroutines of exchanges there may be at once
  Watcher,     \* who may hold a feed
  FeedBuffer,  \* events a feed holds
  None

ASSUME SessionAssumption ==
  /\ FeedBuffer \in Nat \ {0}
  /\ None \notin Exchange \cup Watcher /\ IsFiniteSet(Exchange)

\* The end of an exchange is told apart from all else that is said.
Event == {"said", "done"}

VARIABLES
  registry,   \* the sessions that can be looked up
  live,       \* the sessions themselves
  rows,       \* the stored ones; what a row says of them is left out
  feeds,      \* what each watcher has been handed and has not read
  exchanges,
  panicked    \* a closed channel was sent to, or closed again

sessionVars == <<registry, live, rows, feeds, exchanges, panicked>>

\* A session whose turn failed is as free as an idle one.
Live == [made : BOOLEAN, state : {"idle", "running"},
         cancel : Exchange \cup {None}, subscribers : SUBSET Watcher]

Feed == [open : BOOLEAN, events : Seq(Event), lostEnd : BOOLEAN]

\* "prompt" and "save" are still in Send, whose caller waits.
Phase == {"none", "prompt", "save", "run", "error", "done", "store"}

Idle == [pc |-> "none", session |-> None, cancelled |-> FALSE, for |-> None]

SessionTypeOK ==
  /\ registry \subseteq Session /\ live \in [Session -> Live]
  /\ rows \subseteq Session
  /\ feeds \in [Watcher -> Feed] /\ \A w \in Watcher : Len(feeds[w].events) <= FeedBuffer
  /\ exchanges \in [Exchange -> [pc : Phase, session : Session \cup {None},
                                 cancelled : BOOLEAN, for : Watcher \cup {None}]]
  /\ panicked \in BOOLEAN

New == [made |-> FALSE, state |-> "idle", cancel |-> None, subscribers |-> {}]

NoFeed == [open |-> FALSE, events |-> <<>>, lostEnd |-> FALSE]

SessionInit ==
  /\ registry = {} /\ live = [s \in Session |-> New] /\ rows = {}
  /\ feeds = [w \in Watcher |-> NoFeed] /\ exchanges = [x \in Exchange |-> Idle]
  /\ panicked = FALSE

Alive(s) == {x \in Exchange : exchanges[x].session = s}
Answering(s) == {x \in Alive(s) : exchanges[x].pc \in {"prompt", "save", "run"}}

-----------------------------------------------------------------------------
(* Opening, closing, watching.                                             *)

Open(s) ==
  /\ ~live[s].made
  /\ live' = [live EXCEPT ![s] = [New EXCEPT !.made = TRUE]]
  /\ registry' = registry \cup {s}
  /\ UNCHANGED <<rows, feeds, exchanges, panicked>>

\* Open stores it after it can be found.
StoreOpened(s) ==
  /\ rows' = rows \cup {s}
  /\ UNCHANGED <<registry, live, feeds, exchanges, panicked>>

\* cancel() of the context of whatever the session runs.
Cancelled(s) ==
  [x \in Exchange |-> [exchanges[x] EXCEPT !.cancelled = @ \/ x = live[s].cancel]]

\* Fault: the closed feeds stay subscribed.
CloseFeedsOnly(s) ==
  /\ exchanges' = Cancelled(s)
  /\ feeds' = [w \in Watcher |-> IF w \in live[s].subscribers
                                 THEN [feeds[w] EXCEPT !.open = FALSE] ELSE feeds[w]]
  /\ panicked' = (panicked \/ \E w \in live[s].subscribers : ~feeds[w].open)
  /\ UNCHANGED <<live, registry, rows>>

\* Close under the session's lock: the turn is stopped, the feeds are closed.
CloseFeeds(s) ==
  /\ exchanges' = Cancelled(s)
  /\ feeds' = [w \in Watcher |-> IF w \in live[s].subscribers
                                 THEN [feeds[w] EXCEPT !.open = FALSE] ELSE feeds[w]]
  /\ panicked' = (panicked \/ \E w \in live[s].subscribers : ~feeds[w].open)
  /\ live' = [live EXCEPT ![s].subscribers = {}]
  /\ UNCHANGED <<registry, rows>>

\* ... and under the registry's.
Remove(s) ==
  /\ registry' = registry \ {s}
  /\ UNCHANGED <<live, rows, feeds, exchanges, panicked>>

\* DeleteAgentSession, by whoever closed it.
Forget(s) ==
  /\ rows' = rows \ {s}
  /\ UNCHANGED <<registry, live, feeds, exchanges, panicked>>

Interrupt(s) ==
  /\ s \in registry
  /\ exchanges' = Cancelled(s)
  /\ UNCHANGED <<registry, live, rows, feeds, panicked>>

\* The lookup and the lock are one step here and in Send: a session that is
\* removed in between is found as one that is removed right after.
Subscribe(w, s) ==
  /\ s \in registry
  /\ feeds' = [feeds EXCEPT ![w] = [open |-> TRUE, events |-> <<>>, lostEnd |-> FALSE]]
  /\ live' = [live EXCEPT ![s].subscribers = @ \cup {w}]
  /\ UNCHANGED <<registry, rows, exchanges, panicked>>

\* A session no longer registered keeps the feed, which nobody reads again:
\* it is not followed.  Nor does anyone wait for the exchange any more.
Unsubscribe(w, s) ==
  /\ live' = [live EXCEPT ![s].subscribers = @ \ {w}]
  /\ panicked' = (panicked \/ (s \in registry /\ w \in live[s].subscribers /\ ~feeds[w].open))
  /\ feeds' = [feeds EXCEPT ![w] = NoFeed]
  /\ exchanges' = [x \in Exchange |-> IF exchanges[x].for = w THEN [exchanges[x] EXCEPT !.for = None]
                                                              ELSE exchanges[x]]
  /\ UNCHANGED <<registry, rows>>

-----------------------------------------------------------------------------
(* An exchange.                                                            *)

Free(x) == exchanges[x].pc = "none"

\* Fault: a session whose turn is being stopped counts as free.
AcceptWhenStopped(x, s, w) ==
  /\ Free(x) /\ s \in registry
  /\ live[s].state = "running" => live[s].cancel # None /\ exchanges[live[s].cancel].cancelled
  /\ live' = [live EXCEPT ![s].state = "running", ![s].cancel = x]
  /\ exchanges' = [exchanges EXCEPT ![x] =
       [pc |-> "prompt", session |-> s, cancelled |-> FALSE, for |-> w]]
  /\ UNCHANGED <<registry, rows, feeds, panicked>>

\* Send takes the session, unless it is answering (ErrBusy).
Accept(x, s, w) ==
  /\ Free(x) /\ s \in registry /\ live[s].state # "running"
  /\ live' = [live EXCEPT ![s].state = "running", ![s].cancel = x]
  /\ exchanges' = [exchanges EXCEPT ![x] =
       [pc |-> "prompt", session |-> s, cancelled |-> FALSE, for |-> w]]
  /\ UNCHANGED <<registry, rows, feeds, panicked>>

\* Fault: a feed grows.
PublishAlways(x, event) ==
  LET to == live[exchanges[x].session].subscribers
  IN /\ feeds' = [w \in Watcher |->
          IF w \notin to THEN feeds[w]
          ELSE [feeds[w] EXCEPT !.events = Append(@, event)]]
     /\ panicked' = (panicked \/ \E w \in to : ~feeds[w].open)

\* publish: to every subscriber that has room.
Publish(x, event) ==
  LET to == live[exchanges[x].session].subscribers
  IN /\ feeds' = [w \in Watcher |->
          IF w \notin to THEN feeds[w]
          ELSE IF Len(feeds[w].events) < FeedBuffer
               THEN [feeds[w] EXCEPT !.events = Append(@, event)]
               ELSE [feeds[w] EXCEPT !.lostEnd = @ \/ event = "done"]]
     /\ panicked' = (panicked \/ \E w \in to : ~feeds[w].open)

Goes(x, from, to) ==
  exchanges[x].pc = from /\ exchanges' = [exchanges EXCEPT ![x].pc = to]

PublishPrompt(x) ==
  /\ Goes(x, "prompt", "save") /\ Publish(x, "said")
  /\ UNCHANGED <<registry, live, rows>>

\* Send returns after this one, and the turn starts.
StoreAsked(x) ==
  /\ Goes(x, "save", "run")
  /\ rows' = rows \cup {exchanges[x].session}
  /\ UNCHANGED <<registry, live, feeds, panicked>>

\* The agent says something.
Emit(x) ==
  /\ exchanges[x].pc = "run" /\ Publish(x, "said")
  /\ UNCHANGED <<registry, live, rows, exchanges>>

\* The agent has exited, by itself, stopped or timed out; one that was stopped
\* may have answered before it could be.
End(x, failed) ==
  LET s == exchanges[x].session
  IN /\ exchanges[x].pc = "run"
     /\ live' = [live EXCEPT ![s].cancel = None, ![s].state = "idle"]
     /\ exchanges' = [exchanges EXCEPT ![x].pc = IF failed THEN "error" ELSE "done"]
     /\ UNCHANGED <<registry, rows, feeds, panicked>>

PublishError(x) ==
  /\ Goes(x, "error", "done") /\ Publish(x, "said")
  /\ UNCHANGED <<registry, live, rows>>

PublishDone(x) ==
  /\ Goes(x, "done", "store") /\ Publish(x, "done")
  /\ UNCHANGED <<registry, live, rows>>

StoreEnded(x) ==
  /\ exchanges[x].pc = "store"
  /\ rows' = rows \cup {exchanges[x].session}
  /\ exchanges' = [exchanges EXCEPT ![x] = Idle]
  /\ UNCHANGED <<registry, live, feeds, panicked>>

\* The goroutine goes on; turnTimeout stops an agent that would not exit.
Proceed(x) ==
  \/ PublishPrompt(x) \/ StoreAsked(x) \/ PublishError(x) \/ PublishDone(x) \/ StoreEnded(x)
  \/ \E failed \in BOOLEAN : End(x, failed)

\* The process ends and starts again: InitAgentSessions restores what is stored.
Restored ==
  /\ registry' = rows
  /\ live' = [s \in Session |-> [New EXCEPT !.made = live[s].made]]
  /\ feeds' = [w \in Watcher |-> NoFeed] /\ exchanges' = [x \in Exchange |-> Idle]
  /\ UNCHANGED <<rows, panicked>>
=============================================================================
