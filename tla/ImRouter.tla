------------------------------ MODULE ImRouter ------------------------------
(***************************************************************************)
(* A chat bridged to an agent (imbridge/router.go, command.go) over the    *)
(* sessions of AgentSession, beside the pages that drive the same sessions *)
(* (controllers/agent_session.go).  A message is asked by a goroutine of   *)
(* its own, one at a time for a chat; commands are carried out by the loop *)
(* that receives messages, and so at the same time as an ask.              *)
(***************************************************************************)
EXTENDS AgentSession

CONSTANT Closer   \* who closes sessions: the chat's commands, and pages

VARIABLES
  asks,      \* what each chat asks: busy while it is not idle
  closings

vars == <<registry, live, rows, feeds, exchanges, panicked, asks, closings>>

Ask == [pc : {"idle", "find", "open", "storing", "subscribe", "send", "watch", "leave"},
        session : Session \cup {None}]

Closing == [pc : {"idle", "close", "remove", "forget", "open", "storing"},
            session : Session \cup {None}]

Quiet == [pc |-> "idle", session |-> None]
NoClosing == [pc |-> "idle", session |-> None]

TypeOK == SessionTypeOK /\ asks \in [Watcher -> Ask] /\ closings \in [Closer -> Closing]

Init == SessionInit /\ asks = [w \in Watcher |-> Quiet] /\ closings = [c \in Closer |-> NoClosing]

Unmade == {s \in Session : ~live[s].made}
At(w, pc) == asks[w].pc = pc
To(w, pc) == asks' = [asks EXCEPT ![w].pc = pc]

-----------------------------------------------------------------------------
(* A message that is no command.                                           *)

\* handle: the chat is marked busy; busy, it would be told to wait.
Handle(w) ==
  /\ At(w, "idle") /\ To(w, "find") /\ UNCHANGED <<sessionVars, closings>>

\* session: the one opened for this chat ...
Find(w) ==
  /\ At(w, "find") /\ UNCHANGED <<sessionVars, closings>>
  /\ \/ \E s \in registry : asks' = [asks EXCEPT ![w].pc = "subscribe", ![w].session = s]
     \/ registry = {} /\ To(w, "open")

\* ... or a new one, unless it cannot be opened there.
OpenForChat(w) ==
  /\ At(w, "open") /\ UNCHANGED closings
  /\ \/ \E s \in Unmade :
          Open(s) /\ asks' = [asks EXCEPT ![w].pc = "storing", ![w].session = s]
     \/ asks' = [asks EXCEPT ![w] = Quiet] /\ UNCHANGED sessionVars

StoreForChat(w) ==
  /\ At(w, "storing") /\ StoreOpened(asks[w].session) /\ To(w, "subscribe") /\ UNCHANGED closings

SubscribeChat(w) ==
  LET s == asks[w].session
  IN /\ At(w, "subscribe") /\ UNCHANGED closings
     /\ \/ Subscribe(w, s) /\ To(w, "send")
        \/ s \notin registry /\ asks' = [asks EXCEPT ![w] = Quiet] /\ UNCHANGED sessionVars

SendFromChat(w) ==
  LET s == asks[w].session
  IN /\ At(w, "send") /\ UNCHANGED closings
     /\ \/ \E x \in Exchange : Accept(x, s, w) /\ To(w, "watch")
        \/ /\ s \notin registry \/ live[s].state = "running"
           /\ To(w, "leave") /\ UNCHANGED sessionVars

\* Send has returned: the feed is read until it ends or says the turn is over.
Returned(w) == \A x \in Exchange : exchanges[x].for = w => exchanges[x].pc \notin {"prompt", "save"}

\* Fault: the end of a turn is one event among others.
ReadOn(w) ==
  /\ At(w, "watch") /\ Returned(w) /\ UNCHANGED closings
  /\ \/ /\ feeds[w].events # <<>>
        /\ feeds' = [feeds EXCEPT ![w].events = Tail(@)]
        /\ UNCHANGED <<asks, registry, live, rows, exchanges, panicked>>
     \/ feeds[w].events = <<>> /\ ~feeds[w].open /\ To(w, "leave") /\ UNCHANGED sessionVars

Read(w) ==
  /\ At(w, "watch") /\ Returned(w) /\ UNCHANGED closings
  /\ \/ /\ feeds[w].events # <<>>
        /\ feeds' = [feeds EXCEPT ![w].events = Tail(@)]
        /\ IF Head(feeds[w].events) = "done" THEN To(w, "leave") ELSE UNCHANGED asks
        /\ UNCHANGED <<registry, live, rows, exchanges, panicked>>
     \/ feeds[w].events = <<>> /\ ~feeds[w].open /\ To(w, "leave") /\ UNCHANGED sessionVars

\* The deferred Unsubscribe, and the chat is free again.
Leave(w) ==
  /\ At(w, "leave") /\ Unsubscribe(w, asks[w].session)
  /\ asks' = [asks EXCEPT ![w] = Quiet] /\ UNCHANGED closings

AskStep(w) ==
  \/ Find(w) \/ OpenForChat(w) \/ StoreForChat(w) \/ SubscribeChat(w)
  \/ SendFromChat(w) \/ Read(w) \/ Leave(w)

-----------------------------------------------------------------------------
(* Commands and pages.                                                     *)

\* /new and the page close; /agent, /dir and /model open another after it.
CloseSession(c) ==
  /\ closings[c].pc = "idle" /\ UNCHANGED <<sessionVars, asks>>
  /\ \E s \in registry : closings' = [closings EXCEPT ![c] = [pc |-> "close", session |-> s]]

CloseStep(c) ==
  LET s == closings[c].session
      Then(pc) == closings' = [closings EXCEPT ![c].pc = pc]
      Done == closings' = [closings EXCEPT ![c] = NoClosing]
  IN /\ UNCHANGED asks
     /\ \/ closings[c].pc = "close" /\ CloseFeeds(s) /\ Then("remove")
        \/ closings[c].pc = "remove" /\ Remove(s) /\ Then("forget")
        \/ closings[c].pc = "forget" /\ Forget(s) /\ (Done \/ Then("open"))
        \/ /\ closings[c].pc = "open"
           /\ \/ \E new \in Unmade :
                   /\ Open(new)
                   /\ closings' = [closings EXCEPT ![c].pc = "storing", ![c].session = new]
              \/ Done /\ UNCHANGED sessionVars
        \/ closings[c].pc = "storing" /\ StoreOpened(s) /\ Done

\* /stop.
Stop == \E s \in registry : Interrupt(s) /\ UNCHANGED <<asks, closings>>

SendFromPage ==
  /\ \E x \in Exchange, s \in registry : Accept(x, s, None)
  /\ UNCHANGED <<asks, closings>>

Run(x) == Proceed(x) /\ UNCHANGED <<asks, closings>>
Say(x) == Emit(x) /\ UNCHANGED <<asks, closings>>

Restart ==
  /\ Restored
  /\ asks' = [w \in Watcher |-> Quiet] /\ closings' = [c \in Closer |-> NoClosing]

Next ==
  \/ \E w \in Watcher : Handle(w) \/ AskStep(w)
  \/ \E c \in Closer : CloseSession(c) \/ CloseStep(c)
  \/ \E x \in Exchange : Run(x) \/ Say(x)
  \/ Stop \/ SendFromPage \/ Restart

Spec == Init /\ [][Next]_vars

-----------------------------------------------------------------------------

\* A session says it is answering exactly while one exchange, and no second,
\* holds it: nothing is asked of an agent that is still at work, and no
\* session is left waiting for an exchange that is gone.
RunningIffOneTurn ==
  \A s \in Session :
    Cardinality(Answering(s)) = IF live[s].state = "running" THEN 1 ELSE 0

\* No event is sent on a channel that was closed, and none is closed twice:
\* either would end the process.
NoClosedFeedUsed == ~panicked

\* A chat that waits is waited on by something that will wake it: an event it
\* has not read, the close of its feed, or its own turn, which has not ended yet
\* and will find it subscribed.  Only the end of a turn that found the feed full
\* leaves a chat busy for good.
NoChatStranded ==
  \A w \in Watcher : At(w, "watch") =>
    \/ feeds[w].events # <<>> \/ ~feeds[w].open \/ feeds[w].lostEnd
    \/ \E x \in Alive(asks[w].session) :
         /\ exchanges[x].for = w /\ exchanges[x].pc # "store"
         /\ w \in live[asks[w].session].subscribers

Forgotten(s) ==
  live[s].made /\ s \notin registry \cup rows /\ \A c \in Closer : closings[c].session # s

\* imbridge/manager.go:27: "forgetSession removes a stored session, so a
\* conversation ended from a chat does not come back after a restart."
ForgottenStaysForgotten ==
  [][\A s \in Session : Forgotten(s) => Forgotten(s)']_vars
=============================================================================
