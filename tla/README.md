# Casbin Gateway in TLA+

Casbin Gateway is a process on a developer's machine that coding agents are
pointed at. It relays their LLM requests to upstream providers and fails over
between them, holds each agent to the permissions its operator set, and beside
that installs, configures, watches and converses with the agents. It keeps its
rows in SQLite through xorm and everything else in the memory of one process:
maps and slots behind mutexes of their own, worked on by one goroutine per
request and a handful of background ones.

This directory holds TLA+ modules translated from that source, the TLC
instances that check them, and proofs for TLAPS. The relay comes first: it is
where concurrent goroutines decide by shared memories that change under them.
Around it are the other parts whose state outlives a call and is worked on by
more than one of them: sign-ins, records, conversations, backups, updates and
patches. `PROJECT.json` maps each definition to the lines it stands for.

- [The system](#the-system)
- [The modules](#the-modules)
- [What the runs check](#what-the-runs-check)
- [Time, fairness and liveness](#time-fairness-and-liveness)
- [What is proved](#what-is-proved)
- [Where the code and its documentation disagree](#where-the-code-and-its-documentation-disagree)
- [What is not modelled](#what-is-not-modelled)

## The system

### The path of a request

```
client -> hook / relay -> permissions -> plan -> sort by health -> prefer the      -> attempts -> upstream
          (controllers)   (GuardCache)  (RoutePlan,  (Relay)        conversation's     (Relay)
                                         ModelRoutes)               provider (AttemptOrder)
                                                        ^                ^               |
                                                        |  breaker, plan limits, sticky  |
                                                        +--------------------------------+
                                                               what each answer teaches
```

| Component | State | Operations | What is hard |
|---|---|---|---|
| Provider health (`object/provider_health.go`) | `healthMap`, one lock: failures in a row, retry time | report success, report failure, clear on edit | a shift that wraps; resets that must go together |
| Plan limits, quota cache (`provider_limit.go`, `provider_quota.go`) | `limitBlocks`, `providerQuotaMap`, a lock each | observe an answer's headers, store a probe's answer, clear on edit | answers out of order; a call that spans an edit |
| Conversations (`provider_pool.go`) | `stickies.byKey` | remember, look up, age | judged after the sort by memories that moved on |
| Routing rules (`model_route.go`) | rows | add, update, delete, match | which of several rules; a wildcard's meaning |
| Planning (`controllers/proxy.go`, `model_route.go`, `model_tier.go`, `agent.go`, `provider.go`, `permission_casbin.go`) | none of its own; rows read one question at a time | plan by model, plan by agent, filter | one plan made of rows read before and after an edit |
| Relay (`controllers/proxy.go`) | a goroutine per request | try, skip, relay, give up | four memories shared with every other request; clients that leave; silent upstreams |
| Permissions (`permission*.go`) | rows, `guardCache`, `callGuardCache` | save a card, set a pack, judge a call | a row read before the lock of the cache compiled from it; order of policy lines |

What makes each correct: the breaker holds back only what has failed and never
shortens its window by failing again; a plan's refusal stands until the moment
it named; a request is routed by the rule a reader of the table would name; a
plan repeats nothing, keeps a rule first, and is no way around a permission;
no attempt is lost or made twice whatever is learned meanwhile, and a client
is told of failure only when nothing is left; a request ends; a call is judged
by what was saved.

An answer in another format than its client reads is translated on its way
back (`AnswerFormats`, `AnswerTranslation`): what was said must be told whole,
in order, and with its ending. A subscription's token is read, and renewed if
it has run out, before an attempt (`Subscription`); each attempt offers a usage
record (`RecordWriter`).

### Beside it

| Component | State | Operations | What is hard | Promise |
|---|---|---|---|---|
| Subscription sign-ins (`provider_subscription.go`) | token rows, a lock per provider, logins | log in, take a login in a save, renew, store | a refresh token that works once, renewed by several; a crash between renewal and store | a sign-in is in one place, renewed once, and stays renewable |
| Usage and agent records (`llm_record.go`, `agent_record.go`) | a bounded channel, a writer, the table | offer, write, prune, stop, start, drain | stop against late senders; two writers side by side | a best-effort log: nothing twice, nothing out of order, a stop returns with its channel settled |
| Agent sessions (`agentsession/store.go`) and the chat bridge (`imbridge/router.go`) | sessions, feeds, rows; chats | send, interrupt, close, persist; ask, command | a turn that frees its session before it says so; a full feed; close in three steps | one exchange at a time, no channel used after its close, no chat waiting for nothing |
| Backups and cloud sync (`object/cloud_sync.go`, `cloudsync/sync.go`) | a run slot, a pending flag, two trees of files | take, run, push, pull, prune | pruning by a listing others have outdated; a run that is turned away | the newest backups are never dropped, and each gets to the target |
| Self-update (`version/update.go`, `restart.go`) | executables, a note, an update slot | swap, note, restart, claim the port, roll back | a crash between any two renames; two updates at once | what is at the path can serve, or knows of one that can |
| Configuration patches (`agentpatch/`) | the agent's file, files of Gateway's own, a manifest, a credential, an opt-out | patch, look after, take back | edits by the operator; a crash between file and manifest | an edit is not lost; an agent turned off has nothing left in it |
| Connector sign-ins, warm-up, probes, scan, install jobs, agent sign-in, links, snapshots | small | | | not modelled, see below |

## The modules

| Module | Models | Notes on the correspondence |
|---|---|---|
| `ProviderHealth` | `object/provider_health.go` | `health[p]` is an entry of `healthMap`; `retry` is what is left until `retryTime`. One action per exported function. `Shifted` is `cooldown << k` at a width of `DurationBits`. |
| `ProviderLimit` | `object/provider_limit.go`, the cache of `provider_quota.go` | `block` is `limitBlocks.until`, `quota` the cached windows. Action formulas without a `Next`: `ProviderMemory` and `Relay` both use them. |
| `ProviderMemory` | both of the above with all that writes them | composes them with answers, probes and edits that come at any moment. |
| `AttemptOrder` | `PreferSticky` (`provider_pool.go`) | a function on positions; `Source` says where the attempt at each place comes from. |
| `Failover` | nothing: the abstract promise | a request is a set of untried attempts and the one being made; an attempt is crossed off by making it and in no other way. It closes with the answer of the one being made, with failure once none is left, or with its client. |
| `Relay` | `forwardAttempts`, `forwardToProvider` (`controllers/proxy.go`), `SortAttemptsByHealth`, `RememberSticky` | one slot per connection. `Weigh` is one iteration of the sort, because each reads two memories under locks of their own. INSTANCEs `ProviderHealth` and `ProviderLimit`. |
| `ModelRoutes` | `object/model_route.go`: the table, `MatchModelPattern`, `patternSpecificity`, `MatchModelRoute` | patterns and names are sequences of letters. `used[s]` is how much of the name `MatchModelPattern` has cut off when it comes to the star `s`, and `Stands` says what a wildcard means. |
| `RoutePlan` | `PlanModelRoute`, `PlanAgentRoute`, `appendAttempts`, `GetProvidersByModel`, `GetProvidersByAgent`, `PickProviderModel`, `FilterAttempts` | one action per question asked of the database, one per attempt added or judged. |
| `ToolPolicy` | `permission_casbin.go`, `AllowTool`, the lookups of `permission_tools.go` | a policy line is the set of objects it covers and an effect; the first that covers decides. Then what a card says, read switch by switch. |
| `GuardCache` | `LoadAgentGuard`, `loadCallGuard`, `CheckAgentTool`, `UpdateAgentPermission`, `SetPermissionPack` | EXTENDS `ToolPolicy`; a cached enforcer is the card it was compiled from. |
| `Subscription` | `provider_subscription.go`, the part of `provider.go` that saves one | a login's tokens are numbered as the vendor issues them; one action per lock, read, request and store. |
| `AnswerFormats` | the stream decoders, stream writers, bodies and `Collector` of `protocol/` | functions from upstream frames to events, from events to frames, and what a client makes of those. |
| `AnswerTranslation` | `translateResponse` (`controllers/proxy.go`) | an upstream that says one thing at a time, over the four ways round. |
| `BestEffortLog` | nothing: the abstract promise | streams that take, handle in order, are sealed and settle; a log that loses rows and never changes their order. |
| `RecordWriter` | `object/llm_record.go`, `controllers/setting.go` | one action per lock section, channel operation and statement of the writer. |
| `AgentSession` | `agentsession/store.go`, `runner.go`, `object/agent_session.go` | operations on the registry, a session, its feeds, its row; a feed is a bounded channel. |
| `ImRouter` | `imbridge/router.go`, `command.go`, `controllers/agent_session.go` | who calls those operations: a chat's asks and commands, pages, a restart. |
| `SharedTarget` | nothing: what machines promise each other | a backup may be put, and dropped when enough newer ones were put. |
| `CloudSync` | `object/backup.go`, `object/cloud_sync.go`, `cloudsync/sync.go` | one machine, a call to the target a step; the other machines do what `SharedTarget` allows, and this one is shown to do no more. |
| `SelfUpdate` | `version/update.go`, `version/restart.go`, `main.go` | builds are numbers; every rename, removal and start a step, between two of which a process may die and another may be started by hand. |
| `AgentPatch` | `agentpatch/state.go`, `token.go`, `patch.go`, `auto.go`, with `openclaw.go` for the agent | a request carries the changes it has made, or has still to undo; each look at a file and each write is a step. |
| `ProviderProofs`, `RelayProofs`, `GuardCacheProofs`, `SubscriptionProofs`, `ImRouterProofs`, `AnswerProofs`, `UpkeepProofs`, `AgentPatchProofs` | | theorems on the modules they extend: `ProviderProofs` on `ProviderMemory`, `RoutePlan` and `ModelRoutes`, `RelayProofs` on `Relay` and `RecordWriter`, `AnswerProofs` on `AnswerTranslation`, `UpkeepProofs` on `CloudSync` and `SelfUpdate`, the others on the one of their name |
| `MC*` | | instances for TLC |

Liberties taken, each of which only adds behaviour or hides what no property
tells apart:

- `Relay.Respond` reports to the breaker, stores the limits and remembers the
  conversation in one step. The code takes three locks in a row there; each
  write is of the provider of this attempt or the conversation of this request,
  and other requests' reads of the three are separate steps already.
- `Relay.Weigh` and the preference read the breaker, the block and the quota of
  one provider in one step (`HeldBack`); the code reads them one after another,
  each under its own lock. What is found of a provider is then either what was
  so at one moment or a mixture of two, and in both cases a verdict *ready* or
  *held back* that others make true or false at the next step: the properties
  are about what becomes of an attempt once it is found the one or the other, and
  their proofs use no value of the memories.
- Filtering out the providers a request cannot use is part of `Weigh`, since it
  depends on the provider and the request alone.
- `MCRelay` follows one request and lets `Others` do to the memories what any
  number of others would; theorem `PromiseIsKept` is about any number of slots.
- `RoutePlan.MatchRule` takes any rule or none, and `OrderChain` any order:
  which rule covers is `ModelRoutes`' question, and what a pool's strategy
  prefers is a preference only.
- A permission in `RoutePlan` is the providers and models it allows; that a
  card compiles into exactly that is `ToolPolicy`'s.
- Every lookup of the database may fail (`QueryFails`, `LookupFails`,
  `SaveFails`), with what the code then does.
- In `AnswerFormats` a piece of text is a number unlike any other; ids that are
  made up, roles, counters and signatures are left out. Which pieces end an
  object is a constant (`Complete`): arguments parse when they are empty or end
  in one of these. Where the code's branches
  overlap and the first is taken, the arms of a `CASE` are told apart: TLA+ does
  not say which of two that hold it takes, and no proof can go through one.
- In `SelfUpdate`, taking the port and cleaning up (`FinishStartup`) is one
  step, as are the look and the first rename of a rollback. A build that is not
  `Sound` may fail before it has the port or after, when the note and what it
  replaced are gone; the further attempts to remove a file Windows still holds
  open, the launcher beside the executable, the file a failed
  start leaves for the next and the ages of notes are left out.
- In `AgentPatch`, Gateway's own files (a hook and a plugin) are one, and a
  configuration that is not there, or was cut and cannot be parsed, is one with
  nothing in it. A file is written in place: a write that fails, or that a
  restart interrupts, may leave it cut (`ApplyFails`, `RestoreChange`,
  `Restart`). One that comes to its end is a step, since only `Status` looks at
  a file while it is being written, and that may find it changed. The opt-out
  marker is always written.

Definitions marked `Fault:` are slips a change to the code could make. No
specification uses them; `PROJECT.json` pairs each with the property that must
fail once it replaces the definition it stands before.

## What the runs check

| Run | Instance | Properties |
|---|---|---|
| `memory` | 1 provider whose plan has 2 windows, a 6-bit Duration, 9 failures, resets of up to 3 ticks | `SuspensionEarned`: only failing a threshold's number of times in a row takes a provider out. `CooldownNeverShrinks`: while it fails, only the clock shortens its window. `RefusalStands`: a plan is left alone for exactly the time the last refusal to arrive named, less the ticks since; no answer, probe or edit lifts, shortens or sets a block. Of two refusals that overtake each other the older one, arriving last, has the say: `provider_limit.go:170` compares nothing. |
| `relay` | 1 request among any number of others, 2 providers, one with a plan, a rule of two rungs over a chain of one, a conversation or none, providers unusable in part or whole, threshold 1 | `RuleNotSteppedOver`: an attempt no rule made goes before one a rule made only if the latter was held back. `HeldTriedLast`: what was found held back goes after what was found ready, save within one rule for a conversation's own provider. `PromiseKept`: the relay implements `Failover`: no usable attempt is lost in the sort, in the preference or between two attempts, none is made twice, and failure is told only when none is left. `RequestsEnd`: once its client is gone a request ends, whatever its upstream does; any other ends where upstreams end the bodies that are skipped. |
| `routes` | up to 3 rules out of 5 patterns, 2 models, 1 agent or none, 2 ranks | `RoutedWhenCovered`: by one rule, that is on and stands for the model, if there is any. `ExactBeatsWildcard`. The assumption `GreedyMatching` compares the greedy matching with what a wildcard means on every pattern and name of up to four letters. |
| `route_plan` | 2 providers of 6 records each, 2 rules, a chain of 2, 2 permissions, a cap of 3, edits between any two questions | `PlanOrderly`: no attempt twice, a rule's first, within the cap. `RulesAreNoWayAround`: all of it permitted. `WorksWithoutRule`: until the plan is full, all that would be tried without a rule is below it. |
| `guard_cache` | 2 agents of one configuration, 1 call and 1 save at a time, 2 packs, a tool with a switch of its own below its server's | `VerdictBySaved`: a call no save overlapped, after saves no call was in the middle of, is let through exactly when each agent it speaks for permits it, by the rows and the switches. |
| `subscription` | 2 providers, requests, saves and logins, 3 tokens a login | `OneSignInOneProvider`, `RenewedOnce`: no refresh token is sent twice; `StaysRenewable`: a stored sign-in can be renewed - unless the newest token was lost with an answer, a store or the process. |
| `answers` | 3 items in 4 pieces of which every second ends an object, from each of 3 formats to each of 4, streamed or whole on either side | `AnswerToldWhole`: what the client makes of its frames, or of its body, is what the upstream said, in order and every call apart. Answers may be cut in the middle of a call's arguments: a Gemini client then reads a call without any, and the client of an Anthropic body gets an error. `EndingTold`: it ended as the upstream did, and a stream that broke is told as failed. |
| `records` | 4 records, 2 writers, 2 settings saves, a channel of 2, a table of 1 | `NoSendOnClosed`; `StopReturns`: a stop waits for its own writer and is answered; `PruneLeavesTheNewest`; `KeepsTheLog`: the whole implements `BestEffortLog`. |
| `chat` | 2 sessions, 2 exchanges, 1 chat, 1 closer, a feed of 2, restarts | `RunningIffOneTurn`: a session is busy exactly while one exchange works in it. `NoClosedFeedUsed`. `NoChatStranded`: a chat that waits has something that will wake it, unless its feed was full when its turn ended. |
| `cloud` | a retention of 1, 2 moments, 1 restart or press of a button | `KeepsThePromise`: this machine implements `SharedTarget` beside the others. `EverySnapshotCopied`: each backup it took gets to the target or is replaced by newer ones. It does not tell which run does it: the next tick's lists every backup, whatever was left pending. |
| `update` | 2 updates, 3 processes, 3 builds of which the middle one cannot serve | `CanComeBack`: the executable at the path can serve, or the note beside it names one that can, until one of the things happened that the code does not survive (`troubled`): each is listed in the section on disagreements. |
| `patches` | 2 requests, 1 edit, 2 credentials, 1 restart, at which Gateway's address moves (`Moves = {1}`); any write may fail or be interrupted half way | `NoEditLost`: the file says what the operator wrote last, unless that fell between a read and its write, or the file was left cut by a write that failed or was interrupted (`exposed`). `MonitoredOrGone`: at rest, an agent that was turned off has nothing of Gateway's in it, unless something that says so happened (`troubled`); and what a monitored one reports with is accepted, restarts and failures included, unless its credential was revoked under it (`cutOff`). |

A type invariant runs beside these where a bound or an exclusion is in it (a
lock held by just the request behind it, nothing cached that is empty, a memory
within its ceiling).

Why the bounds are enough:

- *Duration.* The doubling matters where the shift leaves the word. Six bits
  wrap within the nine failures counted, and beyond the last the counter
  saturates where every window is the ceiling (`FailureCap`).
- *Resets and idle times.* A window runs down a tick at a time and no property
  compares two of different length, so three ticks in `memory` and one in the
  relay separate "running" from "over". In the relay `MaxReset` = 1 keeps a
  plan spent for as long as no tick happens, and ticks are never forced.
- *Requests.* Requests meet only in the shared memories; what another does to
  the one followed is a change of these between two of its steps.
- *Plans.* Three attempts with two stretches, with a provider in both, are the
  least in which the preference could step over a rule.
- *Rules.* Three rules are what a comparison that is no strict order needs to
  go in a circle; the patterns include two that cover a name of the other's and
  an exact name as short as a wildcard's letters.
- *Permissions.* Every stale enforcer needs one call and one save; the second
  agent is there for the strictest of two rules and for a save that fails half
  way. More groups and rules by hand are left to the theorem `PolicyIsTheCard`.
- *Tokens.* Two requests meet over one spent token; a third token is what one
  that lost the race would renew to. Any number is the theorems'.
- *Records.* Two writers are what a stop and a start beside a drain make; a
  channel of two with four records is full, and a table of one is over its
  limit after the second.
- *Answers.* Three items are a text between two calls, or a call between two
  thoughts; the fourth piece makes one of them continued after another began.
- *Backups.* With a retention of one, the second moment makes the first
  surplus on both sides while another machine's lands between a listing and a
  drop.
- *Updates.* The third build is what an update to a broken one is followed by;
  the third process is one started by hand between an old and a new one.
- *Patches.* A restart that leaves Gateway where it was is one after which fewer
  patches are asked for, so the run always moves it; the theorems are about both
  (`Moves`). One edit before, within or after a patch is each of the places an
  edit can have to it; the second credential is what one issued anew would be.
  Two requests are a patch beside its taking back. A state in which all three
  exceptions are noted is checked and not gone on from (`SomethingToSay`): they
  are not taken back after the one edit, and neither property can fail there.

Deadlock is looked for in all runs but three, where the system may stop: in
`records` when every record was offered and the last writer stopped, in
`answers` when the answer was told, in `update` when no process is left and
nothing at the path to start.

## Time, fairness and liveness

Times are kept as what is left of them, so that "before" is a comparison with
zero and a clock needs no bound; a tick shortens every window at once. No run
forces ticks, so nothing depends on a timeout arriving.

*Relay.* Weak fairness of each slot's `Step`: the goroutine of a request is
scheduled, a dial ends by its timeout, waiting for headers ends by
`ResponseHeaderTimeout`, and relaying a body ends with the body, with the
client, or with the idle timeout that cancels a silent upstream. An upstream
that goes on sending without end is taken to end at some time, as is the
writing of the request body; the body of an answer that is *skipped* is under no
fairness, because the code reads it before the idle timeout is put around it.
`RequestEndsWithUpstream` says in so many words that with the latter every
request ends. Arrivals, hang-ups, edits, ticks and the others' reports are never
required.

*Records.* Weak fairness of the goroutines of requests and of the writer's
statements; strong fairness of taking a record and of noticing that the channel
is closed, since Go's `select` chooses at random between a channel that is ready
and the tick of the prune.

*Cloud sync.* Weak fairness of the timer, of whose turn it is and of each step
of a run; strong fairness of listing either side and of each push: neither the
target nor the disk fails for ever. Nothing is assumed of the other machines but
`SharedTarget`. A theorem gives this machine's half of that; together they are a
rely-guarantee argument for any number of machines.

## What is proved

TLAPS checks, for every value of the constants that satisfies the modules'
named assumptions:

| Theorem | Argument |
|---|---|
| `MemoryTyped`, `SuspensionIsEarned`, `RefusalIsKept` (`ProviderProofs`) | the invariant is inductive together with the type: every action that empties the counter also opens the window, and whatever the shift wraps to, a cooldown lies within the ceiling. `said` is what the last refusal named, less the ticks since, and never reads a memory; that every block is equal to it is inductive as it stands. |
| `CooldownsOnlyGrow` (`ProviderProofs`) | what is left of a suspension is no more than the failures counted earned, and the next failure earns no less: a shift that wrapped is replaced by the ceiling (`ShiftAssumption`). |
| `MatchingIsStanding`, `CoveredIsRouted`, `ExactComesFirst` (`ProviderProofs`) | by induction over a pattern's stars, greedy matching comes to each no later than any other way to read the name, so it misses none; what lies between its pieces is what the wildcards stand for. The rules' order is total and strict, so of finitely many candidates one is first. |
| `PlansAreOrderly`, `NoRuleIsAWayAround`, `NoRuleIsADeadEnd` (`ProviderProofs`) | `PlanInv` follows the list through its stages - all by the rule in the ladder, none by a rule in what is appended, two ends of one orderly list while it is judged; what was judged is permitted; what would be tried without a rule is in the plan or about to be added until the plan is full, and only a plan that is judged loses any. They discharge what `RelayAssumption` takes for granted of a plan. |
| `AskedForTheNearest` (`ProviderProofs`) | a fact about `PickProviderModel` for every list of models. |
| `PreferStickyPermutes` (`RelayProofs`) | `Source` is injective and onto. The promoted place and those it pushes back are told apart by where their stretch begins. |
| `AttemptsStayApart` (`RelayProofs`) | the invariant `Inv`: while a plan is weighed, its two lists and the part not yet read are disjoint and repeat nothing; while it is walked, the order repeats nothing. It says nothing of the shared memories: no value they can take loses an attempt. |
| `PromiseIsKept` (`RelayProofs`) | from `Inv`, each action of the relay maps to one of `Failover` or to a stutter, one lemma per action. What is still to be made are the attempts weighed, not yet weighed or not yet come to, so sorting, preferring and moving on must leave that set as it is, and only beginning an attempt takes one out; one made twice would come back. |
| `RelayTyped` (`RelayProofs`) | the memories' types, inductive with the request's bounds. |
| `NoRuleSteppedOver`, `HeldBackComesLast` (`RelayProofs`) | the order is fixed once, of two lists read at different moments: both are in the plan's order, the ready list first, and the remembered provider moves inside its stretch only. The invariant carries that from the sort to the last attempt. |
| `PolicyIsTheCard` (`GuardCacheProofs`) | what the compiled policy lets through is what the card says, for every catalogue, card and rules by hand. The first of two concatenated policies decides what it covers; a switch is covered by its group's two lines and the last; the parts of a policy are about different objects. |
| `GuardInvHolds`, `TypeCorrect`, `VerdictsAreTheSaved` (`GuardCacheProofs`) | the verdict depends on rows, on what was read of them, on two caches and on what a call holds. `GuardInv` says of each, for an agent that no call read before a save and stored after it, that it is the row's; a call no save overlapped has read only such. |
| `SignInsTyped`, `OneSignInFillsOne`, `RenewalIsSentOnce`, `SignInsStayRenewable` (`SubscriptionProofs`) | a login's tokens are in one place, and so under one lock: with the login, in a save that took it, or in a provider's row. What is behind the lock has looked at the row since, so what it sends is the newest. |
| `TypeCorrect`, `OneTurnAtATime`, `ClosedFeedsLeftAlone`, `ChatsAreWoken` (`ImRouterProofs`) | none is inductive: that a session answers one prompt needs that nothing answers for a session nobody opened; that no closed feed is used needs that a feed is subscribed to the session its chat asks, and only while it is open; that no chat is stranded needs an event that *is* the end of its turn, since others are read and waited on again. |
| `RecordingHolds`, `RecordsTyped`, `NothingSentOnClosed`, `NewestAreLeft` (`RelayProofs`) | who is about to send has seen the channel that is there, and closing takes it away under the lock first. Between a prune's count, its look and its delete rows only go, so what it takes is no more than was too many, and older than what it leaves. |
| `TheLogIsKept` (`RelayProofs`) | the recorder implements `BestEffortLog`. A record is in a batch, in a channel, or in the hands of a sender, once; a drop is a `Trim` of what was pending; a channel settles when its writer has emptied it. |
| `AnswerTyped`, `EndIsTold` (`AnswerProofs`) | what is written is a fold over what was said, so first: whichever format, an event leaves a writer one and a frame leaves a client that listens one (by induction along the fold, from a least counterexample). Then the stream of an answer that ended has its end last (`Closed`), which no format spells as another's failure, and what the client hears last is what it is told. |
| `AnswerIsToldWhole` (`AnswerProofs`) | the invariant is `Faithful`: until an answer ends, the decoder numbers calls as the upstream does (`Numbered`), what was collected is what was said (`Collected`), and reading the frames written so far as the client reads them gives what was said, less what a writer holds back until it can close (`Relaying`); the end writes the rest. What a body or Gemini's last frame carries of a call is a function of its pieces (`Tellable`), half an object included, and whether a body can be written at all is read off what was said (`Encodes`). So first, per format, what each frame adds to what is heard, then what each step of the upstream writes. A call that is continued after another is the exception the property names: an Anthropic stream splits it. |
| `PromiseIsKept`, `NewestAlwaysStay`, `SyncTyped` (`UpkeepProofs`) | what a run drops was surplus in a listing; whatever landed since only makes it more so. The newest ever put are at the target, though every run prunes by a listing others have outdated. What a run takes to be at the target was there once, which the type invariant says too. |
| `UpdatesTyped`, `AlwaysComesBack` (`UpkeepProofs`) | `Calm`, which holds until there is trouble: one update at a time is between its first rename and its note, and one rollback between its two (`OneAtATime`); there is no note while an update renames (`Unnoted`); what was replaced can serve, and is there only for a note or such an update (`Replaced`); between two renames nothing is at the path and what can serve is beside it (`OnTheWay`), and at any other time there is something, which can serve or replaced what can (`Installed`). It says nothing of how a process came to be started: what a start by hand or a second update breaks is one of the named exceptions. |
| `PatchesTyped`, `EditsAreKept`, `MonitoredOrTakenOut` (`AgentPatchProofs`) | what is *listed* to be taken back matters as much as what is on the disk: a change that would be taken back now takes back no edit, and a hook that is there whole, is about to be written or would be put back carries the credential that is accepted. A write that fails puts the file in one of the states the exceptions name. Until a failure or a restart, what is not listed is not there, and what was turned off is clean or still being seen to. |

Each inductive invariant was checked by TLC on the instance of its run before it
was proved; `Calm` and the invariant of the patches were found that way.

Only model-checked are the liveness properties (`RequestsEnd`, `StopReturns`,
`EverySnapshotCopied`): fairness and ENABLED are out of the prover's reach.
Every other property of the runs is a theorem. What decoders, writers and
readers make of a sequence is a fold over it; the prover has no induction over
sequences, so those lemmas go from one element to the next and conclude from
the least length that would fail (`LeastNatural`, `UpTo`).

Nothing is assumed beyond the named `ASSUME` of each module, which TLC evaluates
on the instances. `ShiftAssumption` is one about numbers: 15 s, 5 min and 64 bits
have it, since only the first five shifts are within the ceiling.

## Where the code and its documentation disagree

Met while modelling. Where the name of a property is given it is defined in the
module with the sentence it quotes, and TLC refutes it; none of the runs above
depends on it.

- *Silent upstream* (`controllers/proxy.go:606`, `EveryRequestEnds`). The body
  of a skipped answer is read to its end before the idle timeout is put around
  it: an upstream that sends a status to fail over from and then nothing holds
  the request for as long as its client waits.
- *Downgrade* (`object/provider_pool.go:254`, `DowngradeOnlyWhenNeeded`). The
  rungs of a rule are one stretch, so a conversation once answered by the lower
  rung is sent there when the rung above is back.
- *Quota and limits of an edited provider* (`provider_quota.go:504`,
  `provider.go:787`). A call begun with the old key stores its windows after an
  edit has cleared the cache; and the edit does not clear `limitBlocks`, so a
  plan refused under the old key holds back the new one.
- *A rung without a provider* passes over a subscription without models, which
  the same request without a rule would be sent to (`model_tier.go:107`).
- *Stale permissions* (`permission_casbin.go:86`, `NextDecidedBySaved`). The row
  is read before the cache's lock, so a request may put an enforcer of the old
  permissions back after the save has dropped it.
- *A sign-in edited during its renewal* (`provider_subscription.go:352`,
  `Subscription!EditStands`): renewed tokens of the sign-in before are stored
  over the one that took its place.
- *A chat busy for good* (`imbridge/router.go:148`): the event that ends a turn
  is dropped where the feed is full. *A forgotten session comes back* (`agentsession/store.go:363`,
  `ForgottenStaysForgotten`): a copy taken before is written after.
- *Failures of a translated answer* (`openai.go:423`, `response.go:30`,
  `openai.go:582`, `FailureTold`): an answer that ended in an error is not
  told as one to a client that waits for a Chat Completions or an Anthropic
  body. Further: the Anthropic stream splits a call that is
  continued after another into a second block without a name; its body puts
  unsigned thoughts in reverse (`anthropic.go:418`). Of an answer cut at its
  token limit in the middle of a call's arguments, half an object is left: for a
  Gemini client `geminiArgs` puts `{}` in its place, as its comment says
  (`gemini.go:523`), and in an Anthropic body it is a `json.RawMessage`
  (`anthropic.go:369`) that `json.Marshal` refuses (`:425`), so the client gets
  a 502 in place of all of the answer (`proxy.go:842`). The Responses writer says
  "completed" of an answer cut by its token limit; the Gemini stream puts calls
  after the text; the Chat Completions decoder merges calls without an index.
- *Cloud sync* (`cloud_sync.go:328`, `WorkLeftToARun`; `backup.go:164`,
  `SameFileOnBothSides`): a run that only pulls clears the pending work of one
  that was to push; a run may copy a backup
  that is still being written, and never again; a backup the machine keeps and the target prunes is pushed and pruned again each run; and
  "pruned only after the pull" does not hold of runs without one or whose pull
  failed.
- *Self-update*. "So a version that cannot run does not leave the machine with
  no Gateway at all" (`restart.go`, RollBackFailedStart) is not kept in these
  cases, which `CanComeBack` excepts by name (`troubled`):
  - between the two renames there is no executable at the path, and between the
    swap and the note nothing says there is something to go back to
    (`update.go:280`): a process that dies, leaves or is ended by the next one's
    ClaimPort there is not undone (`CutShort`);
  - a Gateway started by hand or with the system in that time takes itself for
    an ordinary start and deletes what the update has replaced (`restart.go:79`,
    `BeginStartup`);
  - two updates pass the check at once, since it is read under the lock and set
    after a request to the network (`update.go:181`), and one may begin before
    the last one has come to serve: the second moves aside what may be a broken
    build and deletes what the first kept (`MoveAside`);
  - the second rename fails and so does putting the first back (`update.go:326`,
    `restart.go:131`: `Replace`, `PutBack`);
  - the note cannot be written, and nobody asks (`noteRestart`); the new build
    cannot be started and the note is taken back (`restart`); or a rollback
    takes back the note of a later update (`StartPrevious`);
  - a build claims the port, which finishes the update and deletes note and
    backup (`main.go:207`), and then cannot serve (`main.go:217-221`), or it is
    not the build that is installed by then (`FinishStartup`).
- *Patches*. "An installation can never end up unable to unpatch and unable to
  re-patch" (`state.go:186`): a manifest cut short while it was written makes
  both fail for good. A restart between the files and the manifest leaves a patch
  nobody owns: taking it back reports success and leaves it, and the next patch
  backs it up as the original - if that one fails half way it puts back a hook
  whose credential was revoked. A patch over a file the operator edited drops
  what would have told him, so a later taking back reports success and leaves
  the entry. A listing that saw no opt-out patches again after the button; a
  button beside a patch revokes what the new hook carries, and the page says
  patched. A taking back that skipped a file keeps the credential valid. And "a
  failed patch is rolled back before its error returns" (`state.go:135`) does
  not hold of the file at which it failed: that is truncated where it lies
  (`state.go:122`), or written whole where the look after it fails, and is not
  listed yet (`:131`), so nothing puts it back; putting one back truncates it
  too (`:235`). A full disk or a restart in the middle of either can take the
  operator's own words, of which only the backup beside the manifest is left.
  `NoEditLost` and `MonitoredOrGone` name these exceptions (`exposed`,
  `troubled`, `cutOff`).

## What is not modelled

Of the modelled components: the manual quota, vendors' spellings of windows and
the requests to their usage endpoints; the request side of the codecs, headers
and what a usage record says; the order a pool's strategy gives its chain; how
an argument is matched with a pack, how an MCP tool's name is split, and how
tools are taken out of a request's body; what a vendor's sign-in page looks
like; settings, sizes and wire protocols of cloud targets; download and
smoke test of a release; agents patched by an entry that is owned to the
letter, and two installations that share a file. They are data, formatting or
I/O, and no property here depends on them.

Of the system, the parts with state of their own that a continuation would
begin with: the installation scan and the jobs judged by it, where a scan that
began before an invalidation stores what it read as fresh
(`agent/scan.go:74`); the agent sign-in's one slot, with a cancel against a save
under way (`agentauth/login.go:246`); the gate of provider probes
(`provider_probe.go:209`); the connector sign-ins, which are `Subscription`
without its lock and its second look (the fault `NoSecondLook` shows what that
loses); the schedule of warm-ups, marked as fired before they run
(`provider_warmup.go:267`); a URL scheme taken from the operating system and
given back (`agentlink/link.go:142`).

The rest - readers of agents' files, writers of their configuration, the HTTP
API, the web interface, the desktop shell, OS integration - keeps no state whose
order matters: text and I/O, listed in `PROJECT.json` with the reason each is
left. It is most of the repository's lines, and why the map covers a small share
of them.
