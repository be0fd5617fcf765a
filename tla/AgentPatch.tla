----------------------------- MODULE AgentPatch -----------------------------
(***************************************************************************)
(* How Gateway puts its hook into an agent it has found and takes it out   *)
(* again (agentpatch/state.go, token.go, patch.go, auto.go), for an agent  *)
(* that is patched by files of Gateway's own and an entry in a file of the *)
(* operator's (openclaw.go).  A patch keeps what was there before, writes, *)
(* and says so in a manifest, written last; taking it out undoes what the  *)
(* manifest says, where a file is still as the patch left it.              *)
(*                                                                         *)
(* The operator, and the agent itself, write the shared file at any time,  *)
(* and Gateway may be restarted at any time.  A file is written in place,  *)
(* so a write that fails or that a restart interrupts leaves it cut; only  *)
(* Status looks at a file while it is being written, so a write that comes *)
(* to its end is one step.  The files of Gateway's own are one here.       *)
(***************************************************************************)
EXTENDS Naturals, SequencesExt

CONSTANTS
  Caller,       \* requests: the page's two buttons, and every listing of agents
  MaxEdits,     \* bound: what the operator writes
  MaxTokens,    \* bound: credentials issued
  MaxRestarts,  \* bound: restarts of Gateway
  Moves,        \* by how much one may move where Gateway listens: 0 where it may stay
  None, Torn

VARIABLES
  config,      \* the operator's file: what was last said in it, and whether it has the entry
  hook,        \* Gateway's own: the credential it reports with, and to which address; or Torn
  manifest,    \* None, Torn while it is only half written, or the changes it lists
  token,       \* the credential that is accepted, 0 when none
  issued,
  off,         \* the marker that the operator turned monitoring off
  address,     \* where Gateway listens; it may be moved while it is down
  restarts,
  lock,        \* stateMutex
  caller,
  edits,
  exposed,     \* whether the last edit fell between a look at the file and its write, or the
               \* file was cut since
  troubled,    \* whether an unpatch ever ran beside a patch, or anything happened that one does
               \* not undo
  cutOff       \* whether a credential was ever revoked with a hook still there or on its way

files == <<config, hook, manifest>>
marks == <<token, issued, off, address, restarts>>
ghosts == <<edits, exposed, troubled, cutOff>>
patchVars == <<files, marks, lock, caller, ghosts>>

Config == [user : 0 .. MaxEdits, entry : BOOLEAN]
NoConfig == [user |-> 0, entry |-> FALSE]    \* not there, empty, or cut and not to be parsed
HookFile == [token : 1 .. MaxTokens, address : 1 .. MaxRestarts + 1]
Hook == HookFile \cup {None, Torn}
Whole(content) == content \notin {None, Torn}

ConfigChange == [file : {"config"}, before : Config, after : Config]
HookChange == [file : {"hook"}, before : Hook, after : Hook]
Change == ConfigChange \cup HookChange

ASSUME PatchAssumption ==
  /\ MaxEdits \in Nat /\ MaxTokens \in Nat /\ MaxRestarts \in Nat
  /\ Moves \subseteq {0, 1}
  /\ None \notin Caller /\ None \notin HookFile /\ Torn \notin HookFile
  /\ None # Torn /\ None \notin Seq(Change) /\ Torn \notin Seq(Change)

NoRequest == [pc |-> "idle", job |-> "none", token |-> 0, read |-> NoConfig, before |-> NoConfig,
              changes |-> <<>>, why |-> "none", skipped |-> FALSE, failed |-> FALSE]

\* Stages in which a request is behind the lock, and those in which it is not.
Inside == {"load", "own", "restore", "forget", "write", "read", "backup", "put", "save", "saved"}
Outside == {"idle", "look", "status", "issue", "optout", "lock", "revoke", "optin"}

PatchTypeOK ==
  /\ config \in Config /\ hook \in Hook
  /\ manifest \in {None, Torn} \/ manifest \in Seq(Change)
  /\ token \in 0 .. MaxTokens /\ issued \in 0 .. MaxTokens /\ off \in BOOLEAN
  /\ address \in 1 .. MaxRestarts + 1 /\ restarts \in 0 .. MaxRestarts
  /\ lock \in Caller \cup {None}
  /\ \A c \in Caller :
       /\ caller[c].pc \in Inside \cup Outside /\ caller[c].changes \in Seq(Change)
       /\ caller[c].job \in {"none", "patch", "ensure", "unpatch"}
       /\ caller[c].why \in {"none", "revert", "apply", "save"}
       /\ lock = c <=> caller[c].pc \in Inside
  /\ edits \in 0 .. MaxEdits

PatchInit ==
  /\ config = NoConfig /\ hook = None /\ manifest = None
  /\ token = 0 /\ issued = 0 /\ off = FALSE /\ address = 1 /\ restarts = 0
  /\ lock = None /\ caller = [c \in Caller |-> NoRequest]
  /\ edits = 0 /\ exposed = FALSE /\ troubled = FALSE /\ cutOff = FALSE

At(c, pc) == caller[c].pc = pc
Goes(c, pc) == caller' = [caller EXCEPT ![c].pc = pc]
GoesOn(c, pc) ==    \* with its job and its credential only
  caller' = [caller EXCEPT ![c] = [NoRequest EXCEPT !.pc = pc, !.job = caller[c].job, !.token = caller[c].token]]
Ends(c) == caller' = [caller EXCEPT ![c] = NoRequest]
EndsUnlocked(c) == Ends(c) /\ lock' = None
Trouble(happened) == troubled' = (troubled \/ happened)
Busy(jobs) == \E c \in Caller : caller[c].job \in jobs

-----------------------------------------------------------------------------
(* Up to the lock *)

Patch == [NoRequest EXCEPT !.job = "patch", !.pc = "issue"]
EnsurePatched == [NoRequest EXCEPT !.job = "ensure", !.pc = "look"]
Unpatch == [NoRequest EXCEPT !.job = "unpatch", !.pc = "optout"]

Ask(c) ==
  /\ At(c, "idle")
  /\ \E asked \in {Patch, EnsurePatched, Unpatch} :
       /\ caller' = [caller EXCEPT ![c] = asked]
       /\ Trouble(Busy(IF asked.job = "unpatch" THEN {"patch", "ensure"} ELSE {"unpatch"}))
  /\ UNCHANGED <<files, marks, lock, edits, exposed, cutOff>>

isOptedOut(c) ==
  /\ At(c, "look")
  /\ IF off THEN Ends(c) ELSE Goes(c, "status")
  /\ UNCHANGED <<files, marks, lock, ghosts>>

Patched == Whole(hook) /\ hook.address = address /\ config.entry

Current(item) == IF item.file = "hook" THEN hook ELSE config

\* What there is to put back; a file that was not there is removed.
Backup(item) == item.before \notin {None, NoConfig}

\* Who is at the write of a file.
Writes(c, file) ==
  \/ At(c, IF file = "hook" THEN "write" ELSE "put")
  \/ At(c, "restore") /\ Last(caller[c].changes).file = file /\ Backup(Last(caller[c].changes))

\* A file that cannot be read ends it as well; one that is being written is
\* not as it was.
Status(c) ==
  /\ At(c, "status")
  /\ \/ Ends(c)
     \/ ~Patched /\ Goes(c, "issue")
     \/ (\E d \in Caller : Writes(d, "hook") \/ Writes(d, "config")) /\ Goes(c, "issue")
  /\ UNCHANGED <<files, marks, lock, ghosts>>

Carries(c, t) == caller' = [caller EXCEPT ![c].token = t, ![c].pc = "lock"]

\* Fault: every patch mints a credential of its own.
MintAlways(c) ==
  /\ At(c, "issue") /\ issued < MaxTokens
  /\ issued' = issued + 1 /\ token' = issued' /\ Carries(c, token')
  /\ UNCHANGED <<files, off, address, restarts, lock, ghosts>>

IssueIngestToken(c) ==
  /\ At(c, "issue")
  /\ \/ token # 0 /\ Carries(c, token) /\ UNCHANGED <<token, issued>>
     \/ /\ token = 0 /\ issued < MaxTokens
        /\ issued' = issued + 1 /\ token' = issued' /\ Carries(c, token')
     \/ token = 0 /\ Ends(c) /\ UNCHANGED <<token, issued>>
  /\ UNCHANGED <<files, off, address, restarts, lock, ghosts>>

setOptOut(c) ==
  /\ At(c, "optout") /\ off' = TRUE /\ Goes(c, "lock")
  /\ UNCHANGED <<files, token, issued, address, restarts, lock, ghosts>>

\* Fault: the lock is not waited for.
LockAnyway(c) ==
  /\ At(c, "lock") /\ lock' = c /\ Goes(c, "load")
  /\ UNCHANGED <<files, marks, ghosts>>

Lock(c) ==
  /\ At(c, "lock") /\ lock = None
  /\ lock' = c /\ Goes(c, "load")
  /\ UNCHANGED <<files, marks, ghosts>>

-----------------------------------------------------------------------------
(* Taking a patch back: Revert, the first half of Apply, and a patch that  *)
(* failed half way                                                         *)

RollsBack(c, changes, why) ==
  caller' = [caller EXCEPT ![c].pc = "own", ![c].changes = changes, ![c].why = why]

\* What is left to do when nothing is left to take back.
Reverted(c) ==
  IF caller[c].job = "unpatch"
  THEN /\ lock' = None
       /\ IF caller[c].skipped THEN Ends(c) ELSE GoesOn(c, "revoke")
  ELSE GoesOn(c, "write") /\ UNCHANGED lock

\* A manifest that cannot be parsed ends either job.
loadManifest(c) ==
  /\ At(c, "load")
  /\ CASE manifest = None -> Reverted(c)
       [] manifest = Torn -> EndsUnlocked(c)
       [] OTHER -> RollsBack(c, manifest, "revert") /\ UNCHANGED lock
  /\ UNCHANGED <<files, marks, ghosts>>

\* Fault: a file is the patch's as long as the entry is in it.
StillHasOurEntry(item) == item.file = "hook" \/ config.entry

patchStillOwns(item) == Current(item) \in {item.after} \cup ({None, NoConfig} \cap {item.before})

\* The last change first: what is not ours any more is left as it is.
LookAtChange(c) ==
  /\ At(c, "own") /\ caller[c].changes # <<>>
  /\ IF patchStillOwns(Last(caller[c].changes))
     THEN Goes(c, "restore") /\ UNCHANGED troubled
     ELSE /\ caller' = [caller EXCEPT ![c].changes = Front(@), ![c].skipped = TRUE]
          /\ Trouble(TRUE)
  /\ UNCHANGED <<files, marks, lock, edits, exposed, cutOff>>

\* One that cannot be put back does not keep the others from being; it may be
\* cut by then, or be as it was but for its mode.
RestoreChange(c) ==
  LET item == Last(caller[c].changes)
      left(old, cut) == IF Backup(item) THEN {old, item.before, cut} ELSE {old}
      Done(failed) == caller' = [caller EXCEPT ![c].pc = "own", ![c].changes = Front(@),
                                               ![c].failed = @ \/ failed]
  IN  /\ At(c, "restore")
      /\ \/ /\ IF item.file = "hook" THEN hook' = item.before /\ UNCHANGED config
                                      ELSE config' = item.before /\ UNCHANGED hook
           /\ Done(FALSE) /\ UNCHANGED <<exposed, troubled>>
         \/ /\ IF item.file = "hook"
              THEN hook' \in left(hook, Torn) /\ UNCHANGED <<config, exposed>>
              ELSE /\ config' \in left(config, NoConfig) /\ UNCHANGED hook
                   /\ exposed' = (exposed \/ config'.user \notin {config.user, item.before.user})
           /\ Done(TRUE) /\ Trouble(TRUE)
      /\ UNCHANGED <<manifest, marks, lock, edits, cutOff>>

\* The end of a rollback; what a failed save left of the manifest goes too,
\* where it can be removed.
RolledBack(c) ==
  /\ At(c, "own") /\ caller[c].changes = <<>>
  /\ IF caller[c].why = "revert" /\ ~caller[c].failed
     THEN Goes(c, "forget") /\ UNCHANGED lock
     ELSE EndsUnlocked(c)
  /\ \/ UNCHANGED <<manifest, troubled>>
     \/ caller[c].why = "save" /\ manifest' = None /\ UNCHANGED troubled
  /\ UNCHANGED <<config, hook, marks, edits, exposed, cutOff>>

\* The manifest, and then what was kept.
forget(c) ==
  /\ At(c, "forget")
  /\ \/ manifest' = None /\ Reverted(c)
     \/ manifest' \in {manifest, None} /\ EndsUnlocked(c)
  /\ UNCHANGED <<config, hook, marks, ghosts>>

RevokeIngestToken(c) ==
  /\ At(c, "revoke") /\ token' \in {0, token} /\ Ends(c)
  /\ cutOff' = (cutOff \/ (token' = 0 /\ (hook # None \/ Busy({"patch", "ensure"}))))
  /\ UNCHANGED <<files, issued, off, address, restarts, lock, edits, exposed, troubled>>

-----------------------------------------------------------------------------
(* Putting it in: Apply *)

Changed(c, item, pc) ==
  caller' = [caller EXCEPT ![c] = [NoRequest EXCEPT !.pc = pc, !.job = caller[c].job,
                                               !.changes = Append(caller[c].changes, item)]]

NewHook(c) == [token |-> caller[c].token, address |-> address]
NewConfig(c) == [caller[c].read EXCEPT !.entry = TRUE]

\* Any write, and any read of what is written, may fail: the patch takes back
\* what it has listed so far, and not the file at which it failed, which may be
\* cut by then, or whole.
ApplyFails(c) ==
  /\ \/ caller[c].pc \in {"write", "read", "backup", "put"} /\ UNCHANGED <<hook, config, exposed, troubled>>
     \/ At(c, "write") /\ hook' \in {Torn, NewHook(c)} /\ Trouble(TRUE) /\ UNCHANGED <<config, exposed>>
     \/ /\ At(c, "put") /\ config' \in {NoConfig, NewConfig(c)} /\ Trouble(TRUE) /\ UNCHANGED hook
        /\ exposed' = (exposed \/ config'.user # caller[c].read.user)
  /\ RollsBack(c, caller[c].changes, "apply")
  /\ UNCHANGED <<manifest, marks, lock, edits, cutOff>>

\* Fault: the files Gateway owns outright are not listed.
WriteHookUnlisted(c) ==
  /\ At(c, "write") /\ hook' = NewHook(c) /\ Goes(c, "read")
  /\ UNCHANGED <<config, manifest, marks, lock, ghosts>>

WriteHook(c) ==
  /\ At(c, "write") /\ hook' = NewHook(c)
  /\ Changed(c, [file |-> "hook", before |-> hook, after |-> NewHook(c)], "read")
  /\ UNCHANGED <<config, manifest, marks, lock, ghosts>>

ReadConfig(c) ==
  /\ At(c, "read") /\ caller' = [caller EXCEPT ![c].read = config, ![c].pc = "backup"]
  /\ UNCHANGED <<files, marks, lock, ghosts>>

\* WriteFile reads what it replaces once more, for its backup.
BackUpConfig(c) ==
  /\ At(c, "backup") /\ caller' = [caller EXCEPT ![c].before = config, ![c].pc = "put"]
  /\ UNCHANGED <<files, marks, lock, ghosts>>

WriteConfig(c) ==
  /\ At(c, "put") /\ config' = NewConfig(c)
  /\ Changed(c, [file |-> "config", before |-> caller[c].before, after |-> NewConfig(c)], "save")
  /\ UNCHANGED <<hook, manifest, marks, lock, ghosts>>

BeginManifest(c) ==
  /\ At(c, "save") /\ manifest' = Torn /\ Goes(c, "saved")
  /\ UNCHANGED <<config, hook, marks, lock, ghosts>>

saveManifest(c) ==
  /\ At(c, "saved") /\ manifest' = caller[c].changes /\ lock' = None
  /\ IF caller[c].job = "patch" THEN GoesOn(c, "optin") ELSE Ends(c)
  /\ UNCHANGED <<config, hook, marks, ghosts>>

SaveFails(c) ==
  /\ caller[c].pc \in {"save", "saved"}
  /\ RollsBack(c, caller[c].changes, "save")
  /\ UNCHANGED <<files, marks, lock, ghosts>>

clearOptOut(c) ==
  /\ At(c, "optin") /\ off' = FALSE /\ Ends(c)
  /\ UNCHANGED <<files, token, issued, address, restarts, lock, ghosts>>

-----------------------------------------------------------------------------
(* The operator, and the machine *)

\* A write that falls between a look at the file and what the look is for.
Races(c) ==
  \/ caller[c].pc \in {"backup", "put"}
  \/ At(c, "restore") /\ Last(caller[c].changes).file = "config"

EditConfig ==
  /\ edits < MaxEdits /\ edits' = edits + 1
  /\ \E entry \in {FALSE, config.entry} : config' = [user |-> edits', entry |-> entry]
  /\ exposed' = \E c \in Caller : Races(c)
  /\ UNCHANGED <<hook, manifest, marks, lock, caller, troubled, cutOff>>

Restart ==
  /\ restarts < MaxRestarts /\ restarts' = restarts + 1
  /\ \E far \in Moves : address' = address + far
  /\ hook' \in IF \E c \in Caller : Writes(c, "hook") THEN {hook, Torn} ELSE {hook}
  /\ config' \in IF \E c \in Caller : Writes(c, "config") THEN {config, NoConfig} ELSE {config}
  /\ exposed' = (exposed \/ config'.user # config.user)
  /\ caller' = [c \in Caller |-> NoRequest] /\ lock' = None
  /\ Trouble(\E c \in Caller : ~caller[c].pc \in {"idle", "look", "status", "issue"})
  /\ UNCHANGED <<manifest, token, issued, off, edits, cutOff>>

Step(c) ==
  \/ Ask(c) \/ isOptedOut(c) \/ Status(c) \/ IssueIngestToken(c) \/ setOptOut(c) \/ Lock(c)
  \/ loadManifest(c) \/ LookAtChange(c) \/ RestoreChange(c) \/ RolledBack(c) \/ forget(c)
  \/ RevokeIngestToken(c)
  \/ ApplyFails(c) \/ WriteHook(c) \/ ReadConfig(c) \/ BackUpConfig(c) \/ WriteConfig(c)
  \/ BeginManifest(c) \/ saveManifest(c) \/ SaveFails(c) \/ clearOptOut(c)

PatchNext == (\E c \in Caller : Step(c)) \/ EditConfig \/ Restart

PatchSpec == PatchInit /\ [][PatchNext]_patchVars

-----------------------------------------------------------------------------
(* What the operator wrote last is what the file says, through any number  *)
(* of patches, failures, restarts and patches taken back: state.go:65,     *)
(* "Unpatch never overwrites a configuration an operator has changed since *)
(* Patch".  Two things the code does not keep are excepted (exposed): what *)
(* is read and then written may be edited in between; and the file is      *)
(* written in place (state.go:122, :235), so a write that fails or that a  *)
(* restart interrupts may leave it cut, in a patch with nothing listed     *)
(* that would put it back.  While it is being written it is not looked at. *)
NoEditLost == exposed \/ config.user = edits

(* When nothing is going on, an agent whose monitoring was turned off has  *)
(* nothing of ours left in it, unless a restart cut an operation short, a  *)
(* file could not be written or put back or was left to the operator who   *)
(* changed it, or the button was pressed while the agent was being         *)
(* patched; and one that is monitored reports with a credential that is    *)
(* accepted, restarts and failures included (token.go:47), unless its      *)
(* credential was taken away with a hook still in place, or on its way, or *)
(* its hook was cut.                                                       *)
MonitoredOrGone ==
  lock = None /\ ~Busy({"patch", "ensure", "unpatch"}) =>
    IF off THEN troubled \/ (hook = None /\ ~config.entry)
           ELSE Whole(hook) => hook.token = token \/ cutOff
=============================================================================
