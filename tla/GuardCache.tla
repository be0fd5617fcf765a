------------------------------ MODULE GuardCache ------------------------------
(***************************************************************************)
(* What an agent is allowed, from the card it is set on to the verdict on  *)
(* one of its calls: the stored permissions, the enforcers compiled from   *)
(* them and kept until the next save (permission_casbin.go and             *)
(* permission_guard.go), the saves (permission.go, permission_check.go)    *)
(* and the two places that ask - the hook an agent runs before a tool, and *)
(* the relay before a request.  All run at once, each on a goroutine of    *)
(* its own; a cache is locked for one look into it and not across the read *)
(* of the row its enforcer is built from.  What an enforcer of a card lets *)
(* through is ToolPolicy's; a cached one is the card it was compiled from. *)
(***************************************************************************)
EXTENDS ToolPolicy, FiniteSets

CONSTANTS
  Agent,
  Card,      \* the cards there may be
  Pack,      \* rules on a call's arguments
  Argument,  \* the packs a call's arguments may go against
  Setting,   \* what the operator may save on the card of each
  Caller,    \* calls being judged at once
  Saver,     \* saves at once
  SharedIds, \* whom a hook may speak for: one configuration, several agents
  NoGuard

Permission == [enabled : BOOLEAN, card : Card, packs : SUBSET Pack]

ASSUME GuardAssumption ==
  /\ DefaultCard \in Card /\ NoGuard \notin Card /\ \A card \in Card : IsCard(card)
  /\ Setting \in [Agent -> SUBSET Permission] /\ Argument \subseteq SUBSET Pack
  /\ SharedIds \subseteq Seq(Agent) \ {<<>>} /\ Use # {}

\* DefaultAgentPermission: an agent nobody has configured is not restricted.
Default == [enabled |-> FALSE, card |-> DefaultCard, packs |-> {}]

VARIABLES
  stored,       \* the rows
  guards,       \* guardCache: the card the cached enforcer was compiled from
  callGuards,   \* callGuardCache: the packs the cached enforcer holds calls to
  calls,        \* the calls being judged
  saves,        \* the saves under way
  settled       \* the agents whose last save no call was in the middle of

vars == <<stored, guards, callGuards, calls, saves, settled>>

Call == [pc : {"idle", "reading", "loading", "rereading", "calling", "done"},
         ids : Seq(Agent),     \* whom it speaks for, those already asked about left out
         all : Seq(Agent),     \* all of them
         hook : BOOLEAN,       \* from the hook, or from the relay
         what : Use, breaks : SUBSET Pack,
         card : Card \cup {NoGuard},  \* what it takes from the row it has read:
         packs : SUBSET Pack,         \* the card, and then the packs
         verdict : {"none", "allowed", "refused", "failed"},
         trust : {"none", "same", "sure"}]  \* none of their rows has changed since it
                                            \* began, and they were settled then

Save == [pc : {"idle", "reading", "storing", "dropping", "droppingCalls"},
         todo : Seq(Agent), set : Permission, pack : SUBSET Pack, on : BOOLEAN,
         quiet : BOOLEAN]      \* no call was between its read and its look-up

NoSave == [pc |-> "idle", todo |-> <<>>, set |-> Default, pack |-> {}, on |-> FALSE, quiet |-> FALSE]
NoCall == [pc |-> "idle", ids |-> <<>>, all |-> <<>>, hook |-> TRUE, what |-> CHOOSE u \in Use : TRUE,
           breaks |-> {}, card |-> NoGuard, packs |-> {}, verdict |-> "none", trust |-> "none"]

TypeOK ==
  /\ stored \in [Agent -> Permission]
  /\ guards \in [Agent -> Card \cup {NoGuard}]
  /\ callGuards \in [Agent -> ((SUBSET Pack) \ {{}}) \cup {NoGuard}]
  /\ calls \in [Caller -> Call] /\ saves \in [Saver -> Save]
  /\ settled \subseteq Agent

Init ==
  /\ stored = [a \in Agent |-> Default]
  /\ guards = [a \in Agent |-> NoGuard] /\ callGuards = [a \in Agent |-> NoGuard]
  /\ calls = [c \in Caller |-> NoCall] /\ saves = [w \in Saver |-> NoSave]
  /\ settled = Agent

-----------------------------------------------------------------------------
(* A call is judged.                                                       *)

Judges(c, change) == calls' = [calls EXCEPT ![c] = change]
AskedAbout(c) == Head(calls[c].ids)

Ask(c, ids, hook, what, breaks) ==
  /\ calls[c].pc \in {"idle", "done"}
  /\ Judges(c, [pc |-> "reading", ids |-> ids, all |-> ids, hook |-> hook, what |-> what,
                breaks |-> breaks, card |-> NoGuard, packs |-> {}, verdict |-> "none",
                trust |-> IF \A i \in DOMAIN ids : ids[i] \in settled THEN "sure" ELSE "same"])
  /\ UNCHANGED <<stored, guards, callGuards, saves, settled>>

End(c, verdict) ==
  Judges(c, [calls[c] EXCEPT !.pc = "done", !.verdict = verdict, !.ids = <<>>, !.card = NoGuard, !.packs = {}])

\* On to the next agent the call speaks for; when none refuses, it may run.
Passed(c) ==
  IF Len(calls[c].ids) = 1 THEN End(c, "allowed")
  ELSE Judges(c, [calls[c] EXCEPT !.pc = "reading", !.ids = Tail(@), !.card = NoGuard, !.packs = {}])

\* LoadAgentGuard, before its lock: the row says whether there is a guard.
ReadPermission(c) ==
  /\ calls[c].pc = "reading"
  /\ IF ~stored[AskedAbout(c)].enabled THEN Passed(c)
     ELSE Judges(c, [calls[c] EXCEPT !.pc = "loading", !.card = stored[AskedAbout(c)].card])
  /\ UNCHANGED <<stored, guards, callGuards, saves, settled>>

\* Under its lock: the cached guard, or one built from the row that was read.
\* The relay is done with it; the hook goes on to what the call is about.
LoadAgentGuard(c) ==
  /\ calls[c].pc = "loading"
  /\ LET a == AskedAbout(c)
         guard == IF guards[a] # NoGuard THEN guards[a] ELSE calls[c].card
     IN /\ guards' = [guards EXCEPT ![a] = guard]
        /\ IF ~AllowUse(guard, calls[c].what) THEN End(c, "refused")
           ELSE IF calls[c].hook
             THEN Judges(c, [calls[c] EXCEPT !.pc = "rereading", !.card = NoGuard])
             ELSE Passed(c)
  /\ UNCHANGED <<stored, callGuards, saves, settled>>

\* Fault: an agent that is on is asked about its packs, of which it may have none.
RereadWithoutPacks(c) ==
  /\ calls[c].pc = "rereading"
  /\ LET row == stored[AskedAbout(c)] IN
       IF row.enabled THEN Judges(c, [calls[c] EXCEPT !.pc = "calling", !.packs = row.packs])
       ELSE Passed(c)
  /\ UNCHANGED <<stored, guards, callGuards, saves, settled>>

\* The row is read again; without packs in it, or without it, nothing is asked.
RereadPermission(c) ==
  /\ calls[c].pc = "rereading"
  /\ LET row == stored[AskedAbout(c)] IN
       IF row.enabled /\ row.packs # {}
         THEN Judges(c, [calls[c] EXCEPT !.pc = "calling", !.packs = row.packs])
         ELSE Passed(c)
  /\ UNCHANGED <<stored, guards, callGuards, saves, settled>>

loadCallGuard(c) ==
  /\ calls[c].pc = "calling"
  /\ LET a == AskedAbout(c)
         guard == IF callGuards[a] # NoGuard THEN callGuards[a] ELSE calls[c].packs
     IN /\ callGuards' = [callGuards EXCEPT ![a] = guard]
        /\ IF calls[c].breaks \cap guard # {} THEN End(c, "refused") ELSE Passed(c)
  /\ UNCHANGED <<stored, guards, saves, settled>>

\* A row that cannot be read, or an enforcer that cannot be built: the hook
\* lets the call go ahead, the relay answers an error.
LookupFails(c) ==
  /\ calls[c].pc \in {"reading", "loading", "rereading", "calling"}
  /\ End(c, "failed")
  /\ UNCHANGED <<stored, guards, callGuards, saves, settled>>

-----------------------------------------------------------------------------
(* A save.                                                                 *)

Saves(w, change) == saves' = [saves EXCEPT ![w] = change]
Saved(w) == Head(saves[w].todo)

\* The card of one agent is saved as the form has it.
SaveCard(w, a, setting) ==
  /\ saves[w].pc = "idle"
  /\ Saves(w, [NoSave EXCEPT !.pc = "storing", !.todo = <<a>>, !.set = setting])
  /\ UNCHANGED <<stored, guards, callGuards, calls, settled>>

\* A pack is turned on or off for some agents, one after another.
SetPermissionPack(w, ids, pack, on) ==
  /\ saves[w].pc = "idle"
  /\ Saves(w, [NoSave EXCEPT !.pc = "reading", !.todo = ids, !.pack = {pack}, !.on = on])
  /\ UNCHANGED <<stored, guards, callGuards, calls, settled>>

ReadForPack(w) ==
  /\ saves[w].pc = "reading"
  /\ LET row == stored[Saved(w)]
         s == saves[w]
     IN Saves(w, [s EXCEPT !.pc = "storing",
                           !.set = IF s.on THEN [row EXCEPT !.packs = @ \cup s.pack, !.enabled = TRUE]
                                           ELSE [row EXCEPT !.packs = @ \ s.pack]])
  /\ UNCHANGED <<stored, guards, callGuards, calls, settled>>

\* A call is about to look into a cache with a row it read earlier.
Between(a) == \E c \in Caller : calls[c].pc \in {"loading", "calling"} /\ AskedAbout(c) = a

StorePermission(w) ==
  /\ saves[w].pc = "storing"
  /\ LET a == Saved(w) IN
       /\ stored' = [stored EXCEPT ![a] = saves[w].set]
       /\ settled' = settled \ {a}
       /\ saves' = [v \in Saver |->
            IF v = w THEN [saves[w] EXCEPT !.pc = "dropping", !.set = Default, !.quiet = ~Between(a)]
            ELSE IF saves[v].todo # <<>> /\ Saved(v) = a THEN [saves[v] EXCEPT !.quiet = FALSE]
            ELSE saves[v]]
       /\ calls' = [c \in Caller |->
            [calls[c] EXCEPT !.trust = IF \E i \in DOMAIN calls[c].all : calls[c].all[i] = a
                                         THEN "none" ELSE @]]
  /\ UNCHANGED <<guards, callGuards>>

dropAgentEnforcer(w) ==
  /\ saves[w].pc = "dropping"
  /\ guards' = [guards EXCEPT ![Saved(w)] = NoGuard]
  /\ Saves(w, [saves[w] EXCEPT !.pc = "droppingCalls"])
  /\ UNCHANGED <<stored, callGuards, calls, settled>>

\* The save of one agent is over; a pack goes on to the next.
NextSaved(w) ==
  IF Len(saves[w].todo) = 1 THEN Saves(w, NoSave)
  ELSE Saves(w, [saves[w] EXCEPT !.pc = "reading", !.todo = Tail(@), !.quiet = FALSE])

Settle(w) == settled' = IF saves[w].quiet THEN settled \cup {Saved(w)} ELSE settled

\* Fault: what judges the arguments of calls is left as it was.
KeepCallGuard(w) ==
  /\ saves[w].pc = "droppingCalls"
  /\ NextSaved(w) /\ Settle(w)
  /\ UNCHANGED <<stored, guards, callGuards, calls>>

dropCallGuard(w) ==
  /\ saves[w].pc = "droppingCalls"
  /\ callGuards' = [callGuards EXCEPT ![Saved(w)] = NoGuard]
  /\ NextSaved(w) /\ Settle(w)
  /\ UNCHANGED <<stored, guards, calls>>

\* The row cannot be read or written: the save ends there, the agents after
\* this one unsaved.
SaveFails(w) ==
  /\ saves[w].pc \in {"reading", "storing"}
  /\ Saves(w, NoSave)
  /\ UNCHANGED <<stored, guards, callGuards, calls, settled>>

Next ==
  \/ \E c \in Caller, tool \in Tool, ids \in SharedIds, breaks \in Argument :
       Ask(c, ids, TRUE, tool, breaks)
  \/ \E c \in Caller, what \in Use, a \in Agent : Ask(c, <<a>>, FALSE, what, {})
  \/ \E c \in Caller : ReadPermission(c) \/ LoadAgentGuard(c) \/ RereadPermission(c)
                       \/ loadCallGuard(c) \/ LookupFails(c)
  \/ \E w \in Saver, a \in Agent : \E setting \in Setting[a] : SaveCard(w, a, setting)
  \/ \E w \in Saver, ids \in SharedIds, pack \in Pack, on \in BOOLEAN : SetPermissionPack(w, ids, pack, on)
  \/ \E w \in Saver : ReadForPack(w) \/ StorePermission(w) \/ dropAgentEnforcer(w)
                      \/ dropCallGuard(w) \/ SaveFails(w)

Spec == Init /\ [][Next]_vars

-----------------------------------------------------------------------------

Permits(row, c) ==
  row.enabled => /\ Says(row.card, calls[c].what)
                 /\ calls[c].hook => calls[c].breaks \cap row.packs = {}

(* "One configuration file can serve several front ends, and the strictest *)
(* of their rules is the one that stands" (CheckAgentTool), and the rules  *)
(* are the saved ones: a call that no save overlapped, after saves that no *)
(* call was in the middle of, goes ahead exactly when each agent it speaks *)
(* for permits it, whichever cached guards it was judged by.               *)
VerdictBySaved ==
  \A c \in Caller : calls[c].pc = "done" /\ calls[c].trust = "sure" =>
    LET permitted == \A i \in DOMAIN calls[c].all : Permits(stored[calls[c].all[i]], c)
    IN  /\ calls[c].verdict = "allowed" => permitted
        /\ calls[c].verdict = "refused" => ~permitted

(* "dropAgentEnforcer forgets one agent's enforcer, so the next request is *)
(* decided by the permissions that were just saved" (permission_casbin.go): *)
(* once a save is over, the guard the next request is judged by allows     *)
(* what the saved row allows.                                              *)
NextDecidedBySaved ==
  \A a \in Agent :
    /\ stored[a].enabled /\ guards[a] # NoGuard
    /\ \A w \in Saver : saves[w].todo # <<>> => Saved(w) # a
    => guards[a] = stored[a].card
=============================================================================
