-------------------------- MODULE AgentPatchProofs --------------------------
(***************************************************************************)
(* Two promises of the patches, for any number of requests, edits,         *)
(* credentials and restarts: no edit of the operator's is lost, and an     *)
(* agent is monitored or taken out.                                        *)
(*                                                                         *)
(* Neither is inductive, for what is about to be written matters as much   *)
(* as what is there.  The invariant says of every request behind the lock  *)
(* what it has listed and how that relates to the files (ListFits,         *)
(* EditFits), that a change which would be taken back now takes back no    *)
(* edit (ConfigItem), and that whatever credential a hook holds, would be  *)
(* given or would be put back with is accepted (TokensGood).  Until a      *)
(* restart or a failure came in between, what is not listed is not there   *)
(* (DiskKept, DiskFits), and what was turned off is clean or is still      *)
(* being seen to (TurnedOff).                                              *)
(***************************************************************************)
EXTENDS AgentPatch, SequenceTheorems, TLAPS

\* What a patch lists: the hook, and then the shared file.
Shaped(list) ==
  /\ list \in Seq(Change) /\ Len(list) <= 2
  /\ Len(list) >= 1 => list[1] \in HookChange
  /\ Len(list) = 2 => list[2] \in ConfigChange

NoList == {None, Torn}

Request ==
  [pc : Inside \cup Outside, job : {"none", "patch", "ensure", "unpatch"}, token : 0 .. MaxTokens,
   read : Config, before : Config, changes : Seq(Change), why : {"none", "revert", "apply", "save"},
   skipped : BOOLEAN, failed : BOOLEAN]

CallerTyped == caller \in [Caller -> Request]
Others(c) == \A d \in Caller \ {c} : caller'[d] = caller[d]

LEMMA IdleTyped == NoRequest \in Request /\ NoConfig \in Config
<1>1. NoConfig \in Config
  BY PatchAssumption DEF NoConfig, Config
<1>2. 0 \in 0 .. MaxTokens /\ <<>> \in Seq(Change) /\ "idle" \in Inside \cup Outside
  BY PatchAssumption DEF Inside, Outside
<1> QED
  BY <1>1, <1>2 DEF NoRequest, Request

LEMMA GoesShape ==
  ASSUME CallerTyped, NEW c \in Caller, NEW pc \in Inside \cup Outside, Goes(c, pc)
  PROVE  /\ CallerTyped' /\ Others(c)
         /\ caller'[c].pc = pc /\ caller'[c].job = caller[c].job /\ caller'[c].token = caller[c].token
         /\ caller'[c].read = caller[c].read /\ caller'[c].before = caller[c].before
         /\ caller'[c].changes = caller[c].changes /\ caller'[c].why = caller[c].why
         /\ caller'[c].skipped = caller[c].skipped /\ caller'[c].failed = caller[c].failed
<1>1. caller[c] \in Request /\ [caller[c] EXCEPT !.pc = pc] \in Request
  BY DEF CallerTyped, Request
<1>2. caller' = [caller EXCEPT ![c] = [caller[c] EXCEPT !.pc = pc]]
  BY DEF Goes
<1> QED
  BY <1>1, <1>2 DEF CallerTyped, Others, Request

LEMMA GoesOnShape ==
  ASSUME CallerTyped, NEW c \in Caller, NEW pc \in Inside \cup Outside, GoesOn(c, pc)
  PROVE  /\ CallerTyped' /\ Others(c)
         /\ caller'[c].pc = pc /\ caller'[c].job = caller[c].job /\ caller'[c].token = caller[c].token
         /\ caller'[c].read = NoConfig /\ caller'[c].before = NoConfig
         /\ caller'[c].changes = <<>> /\ caller'[c].why = "none"
         /\ caller'[c].skipped = FALSE /\ caller'[c].failed = FALSE
<1> DEFINE r == [NoRequest EXCEPT !.pc = pc, !.job = caller[c].job, !.token = caller[c].token]
<1>1. r \in Request
  BY IdleTyped DEF CallerTyped, Request
<1>2. /\ r.pc = pc /\ r.job = caller[c].job /\ r.token = caller[c].token
      /\ r.read = NoConfig /\ r.before = NoConfig /\ r.changes = <<>> /\ r.why = "none"
      /\ r.skipped = FALSE /\ r.failed = FALSE
  BY DEF NoRequest
<1>3. caller' = [caller EXCEPT ![c] = r]
  BY DEF GoesOn
<1> HIDE DEF r
<1> QED
  BY <1>1, <1>2, <1>3 DEF CallerTyped, Others

LEMMA EndsShape ==
  ASSUME CallerTyped, NEW c \in Caller, Ends(c)
  PROVE  CallerTyped' /\ Others(c) /\ caller'[c] = NoRequest
BY IdleTyped DEF Ends, CallerTyped, Others

LEMMA CarriesShape ==
  ASSUME CallerTyped, NEW c \in Caller, NEW t \in 0 .. MaxTokens, Carries(c, t)
  PROVE  /\ CallerTyped' /\ Others(c)
         /\ caller'[c].pc = "lock" /\ caller'[c].job = caller[c].job /\ caller'[c].token = t
         /\ caller'[c].read = caller[c].read /\ caller'[c].before = caller[c].before
         /\ caller'[c].skipped = caller[c].skipped /\ caller'[c].failed = caller[c].failed
<1>1. "lock" \in Inside \cup Outside
  BY DEF Outside
<1>2. caller[c] \in Request /\ [caller[c] EXCEPT !.token = t, !.pc = "lock"] \in Request
  BY <1>1 DEF CallerTyped, Request
<1>3. caller' = [caller EXCEPT ![c] = [caller[c] EXCEPT !.token = t, !.pc = "lock"]]
  BY DEF Carries
<1> QED
  BY <1>2, <1>3 DEF CallerTyped, Others, Request

LEMMA RollsBackShape ==
  ASSUME CallerTyped, NEW c \in Caller, NEW changes \in Seq(Change),
         NEW why \in {"revert", "apply", "save"}, RollsBack(c, changes, why)
  PROVE  /\ CallerTyped' /\ Others(c)
         /\ caller'[c].pc = "own" /\ caller'[c].job = caller[c].job /\ caller'[c].token = caller[c].token
         /\ caller'[c].read = caller[c].read /\ caller'[c].before = caller[c].before
         /\ caller'[c].changes = changes /\ caller'[c].why = why
         /\ caller'[c].skipped = caller[c].skipped /\ caller'[c].failed = caller[c].failed
<1> DEFINE r == [caller[c] EXCEPT !.pc = "own", !.changes = changes, !.why = why]
<1>1. "own" \in Inside \cup Outside
  BY DEF Inside
<1>2. caller[c] \in Request /\ r \in Request
  BY <1>1 DEF CallerTyped, Request
<1>3. caller' = [caller EXCEPT ![c] = r]
  BY DEF RollsBack
<1> QED
  BY <1>2, <1>3 DEF CallerTyped, Others, Request

LEMMA ChangedShape ==
  ASSUME CallerTyped, NEW c \in Caller, NEW item \in Change, NEW pc \in Inside \cup Outside,
         Changed(c, item, pc)
  PROVE  /\ CallerTyped' /\ Others(c)
         /\ caller'[c].pc = pc /\ caller'[c].job = caller[c].job /\ caller'[c].token = 0
         /\ caller'[c].read = NoConfig /\ caller'[c].before = NoConfig
         /\ caller'[c].changes = Append(caller[c].changes, item) /\ caller'[c].why = "none"
         /\ caller'[c].skipped = FALSE /\ caller'[c].failed = FALSE
<1> DEFINE list == Append(caller[c].changes, item)
           r == [NoRequest EXCEPT !.pc = pc, !.job = caller[c].job, !.changes = list]
<1>1. list \in Seq(Change)
  BY DEF CallerTyped, Request
<1> HIDE DEF list
<1>2. r \in Request
  BY <1>1, IdleTyped DEF CallerTyped, Request
<1>3. /\ r.pc = pc /\ r.job = caller[c].job /\ r.token = 0
      /\ r.read = NoConfig /\ r.before = NoConfig /\ r.changes = list /\ r.why = "none"
      /\ r.skipped = FALSE /\ r.failed = FALSE
  BY DEF NoRequest
<1>4. caller' = [caller EXCEPT ![c] = r]
  BY DEF Changed, list
<1> HIDE DEF r
<1> QED
  BY <1>2, <1>3, <1>4 DEF CallerTyped, Others, list

(* Taking the last change off the list.                                    *)
LEMMA ShorterList ==
  ASSUME NEW list, Shaped(list), list # <<>>
  PROVE  /\ Shaped(Front(list)) /\ Len(Front(list)) = Len(list) - 1
         /\ Front(list) # <<>> => Front(list)[1] = list[1] /\ Len(list) = 2
         /\ Len(list) \in {1, 2} /\ Len(Front(list)) # 2
         /\ Last(list) = list[Len(list)]
         /\ Len(list) = 1 => Last(list).file = "hook" /\ Last(list) \in HookChange
         /\ Len(list) = 2 => Last(list).file = "config" /\ Last(list) \in ConfigChange
         /\ Len(list) = 1 => Front(list) = <<>>
<1>1. list \in Seq(Change) /\ Len(list) \in {1, 2}
  <2>1. list \in Seq(Change) /\ Len(list) <= 2
    BY DEF Shaped
  <2>2. Len(list) \in Nat \ {0}
    BY <2>1, EmptySeq
  <2>3. PICK n \in Nat \ {0} : n = Len(list)
    BY <2>2
  <2>4. n <= 2
    BY <2>1, <2>3
  <2>5. n \in {1, 2}
    BY <2>4
  <2> QED
    BY <2>1, <2>3, <2>5
<1>2. \A i \in 1 .. Len(list) : list[i] \in Change
  BY <1>1, ElementOfSeq
<1>3. /\ SubSeq(list, 1, Len(list) - 1) \in Seq(Change)
      /\ Len(SubSeq(list, 1, Len(list) - 1)) = Len(list) - 1
      /\ Len(list) = 2 => SubSeq(list, 1, Len(list) - 1)[1] = list[1]
  <2>1. CASE Len(list) = 1
    <3>1. SubSeq(list, 1, 0) = <<>> /\ <<>> \in Seq(Change) /\ Len(<<>>) = 0
      BY SubSeqEmpty, EmptySeq
    <3> QED
      BY <2>1, <3>1
  <2>2. CASE Len(list) = 2
    <3>1. \A i \in 1 .. 1 : list[i] \in Change
      BY <1>2, <2>2
    <3>2. /\ SubSeq(list, 1, 1) \in Seq(Change) /\ Len(SubSeq(list, 1, 1)) = IF 1 <= 1 THEN 1 - 1 + 1 ELSE 0
          /\ \A i \in 1 .. 1 - 1 + 1 : SubSeq(list, 1, 1)[i] = list[1 + i - 1]
      BY <3>1, SubSeqProperties
    <3> QED
      BY <2>2, <3>2
  <2> QED
    BY <1>1, <2>1, <2>2
<1>4. /\ Front(list) \in Seq(Change) /\ Len(Front(list)) = Len(list) - 1
      /\ Len(list) = 2 => Front(list)[1] = list[1]
  BY <1>3 DEF Front
<1>5. Len(list) = 1 => Front(list) = <<>>
  BY <1>1, <1>4, EmptySeq
<1>6. Last(list) = list[Len(list)]
  BY DEF Last
<1>7. Len(list) >= 1 => list[1] \in HookChange
  BY DEF Shaped
<1>8. Len(list) = 2 => list[2] \in ConfigChange
  BY DEF Shaped
<1>13. PICK m \in {0, 1} : m = Len(Front(list)) /\ (Len(list) = 2 <=> m = 1)
  BY <1>1, <1>4
<1>9. Shaped(Front(list))
  <2>1. Front(list) \in Seq(Change)
    BY <1>4
  <2>2. Len(Front(list)) <= 2 /\ Len(Front(list)) # 2
    BY <1>13
  <2>3. Len(Front(list)) >= 1 => Front(list)[1] \in HookChange
    BY <1>4, <1>7, <1>13
  <2> QED
    BY <2>1, <2>2, <2>3 DEF Shaped
<1>14. Len(Front(list)) # 2
  BY <1>13
<1>12. Front(list) # <<>> => Len(list) = 2
  BY <1>1, <1>5
<1>10. Len(list) = 1 => Last(list).file = "hook" /\ Last(list) \in HookChange
  BY <1>6, <1>7 DEF HookChange
<1>11. Len(list) = 2 => Last(list).file = "config" /\ Last(list) \in ConfigChange
  BY <1>6, <1>8 DEF ConfigChange
<1>15. Front(list) # <<>> => Front(list)[1] = list[1] /\ Len(list) = 2
  BY <1>4, <1>12
<1> QED
  BY <1>1, <1>4, <1>5, <1>6, <1>9, <1>10, <1>11, <1>14, <1>15

LEMMA LongerList ==
  ASSUME NEW list, Shaped(list), NEW item,
         \/ list = <<>> /\ item \in HookChange
         \/ Len(list) = 1 /\ item \in ConfigChange
  PROVE  /\ item \in Change /\ Shaped(Append(list, item))
         /\ Len(Append(list, item)) = Len(list) + 1 /\ Append(list, item)[Len(list) + 1] = item
         /\ Len(list) = 1 => Append(list, item)[1] = list[1]
<1>1. item \in Change
  BY DEF Change
<1>2. list \in Seq(Change) /\ (list = <<>> => Len(list) = 0)
  BY EmptySeq DEF Shaped
<1>3. /\ Append(list, item) \in Seq(Change) /\ Len(Append(list, item)) = Len(list) + 1
      /\ Append(list, item)[Len(list) + 1] = item
      /\ \A i \in 1 .. Len(list) : Append(list, item)[i] = list[i]
  BY <1>1, <1>2, AppendProperties
<1>4. CASE list = <<>> /\ item \in HookChange
  BY <1>1, <1>2, <1>3, <1>4 DEF Shaped
<1>5. CASE Len(list) = 1 /\ item \in ConfigChange
  <2>1. Append(list, item)[1] = list[1]
    BY <1>3, <1>5
  <2> QED
    BY <1>1, <1>3, <1>5, <2>1 DEF Shaped
<1> QED
  BY <1>4, <1>5

-----------------------------------------------------------------------------
(* The invariant.  Who is behind the lock is alone with the files, but for *)
(* the operator.                                                           *)

RollingBack(c) == caller[c].pc \in {"own", "restore"}
Listing(c) == caller[c].pc \in {"own", "restore", "read", "backup", "put", "save", "saved"}
Carrying(c) ==
  /\ caller[c].job \in {"patch", "ensure"}
  /\ \/ caller[c].pc \in {"lock", "load", "forget", "write"}
     \/ RollingBack(c) /\ caller[c].why = "revert"

FilesTyped ==
  /\ config \in Config /\ hook \in Hook
  /\ manifest \in NoList \/ (Shaped(manifest) /\ Len(manifest) = 2)
MarksTyped ==
  /\ token \in 0 .. MaxTokens /\ issued \in 0 .. MaxTokens /\ off \in BOOLEAN
  /\ restarts \in 0 .. MaxRestarts /\ address \in 1 .. restarts + 1
GhostsTyped ==
  /\ edits \in 0 .. MaxEdits
  /\ exposed \in BOOLEAN /\ troubled \in BOOLEAN /\ cutOff \in BOOLEAN
OneInside ==
  lock \in Caller \cup {None} /\ \A c \in Caller : lock = c <=> caller[c].pc \in Inside

\* What a request is for, by where it is.
JobFits(c) ==
  /\ caller[c].pc = "idle" <=> caller[c].job = "none"
  /\ caller[c].pc \in {"issue", "write", "read", "backup", "put", "save", "saved"}
       => caller[c].job \in {"patch", "ensure"}
  /\ caller[c].pc \in {"look", "status"} => caller[c].job = "ensure"
  /\ caller[c].pc \in {"optout", "revoke"} => caller[c].job = "unpatch"
  /\ caller[c].pc = "optin" => caller[c].job = "patch"
  /\ Carrying(c) => caller[c].token # 0

\* What it has listed, and what is on the disk of that.
ListFits(c) ==
  /\ Listing(c) => Shaped(caller[c].changes)
  /\ RollingBack(c) => caller[c].why \in {"revert", "apply", "save"}
  /\ caller[c].pc = "restore" => caller[c].changes # <<>>
  /\ RollingBack(c) /\ caller[c].why = "revert" =>
       /\ manifest \notin NoList
       /\ caller[c].changes # <<>> => caller[c].changes[1] = manifest[1]
  /\ RollingBack(c) /\ caller[c].why # "revert" =>
       manifest \in NoList /\ caller[c].job \in {"patch", "ensure"}
  /\ caller[c].pc = "forget" => manifest \notin NoList
  /\ caller[c].pc = "write" => caller[c].changes = <<>>
  /\ caller[c].pc \in {"read", "backup", "put"} => Len(caller[c].changes) = 1
  /\ caller[c].pc \in {"save", "saved"} => Len(caller[c].changes) = 2
  /\ caller[c].pc \in {"write", "read", "backup", "put", "save", "saved"} => manifest \in NoList

\* A credential that is relied on is accepted.
Good(t) == t = token \/ cutOff
HookItem(item) == Whole(item.before) => hook # None /\ Good(item.before.token)
TokensGood ==
  /\ Whole(hook) => Good(hook.token)
  /\ manifest \notin NoList => HookItem(manifest[1])
  /\ \A c \in Caller :
       /\ Carrying(c) => Good(caller[c].token)
       /\ Listing(c) /\ caller[c].changes # <<>> => HookItem(caller[c].changes[1])

\* A change that would be taken back now takes back no edit.
ConfigItem(item) ==
  /\ item.before.user <= edits /\ item.after.user <= edits
  /\ exposed \/ item.after.user # edits \/ item.before.user = edits
EditsKept ==
  /\ config.user <= edits /\ (exposed \/ config.user = edits)
  /\ manifest \notin NoList => ConfigItem(manifest[2])
EditFits(c) ==
  /\ caller[c].read.user <= edits /\ caller[c].before.user <= edits
  /\ caller[c].pc \in {"backup", "put"} => exposed \/ caller[c].read.user = edits
  /\ caller[c].pc = "put" => exposed \/ caller[c].before.user = edits
  /\ Listing(c) /\ Len(caller[c].changes) = 2 => ConfigItem(caller[c].changes[2])
  /\ caller[c].pc = "restore" /\ Len(caller[c].changes) = 2 =>
       exposed \/ config \in {caller[c].changes[2].before, caller[c].changes[2].after}

\* Until there is trouble, what is not listed is not there.
Clean == hook = None /\ ~config.entry
CleanList(list) == (list # <<>> => list[1].before = None) /\ (Len(list) = 2 => ~list[2].before.entry)
DiskKept ==
  /\ manifest \notin NoList => CleanList(manifest)
  /\ lock = None /\ manifest \in NoList => Clean
DiskFits(c) ==
  /\ Listing(c) => CleanList(caller[c].changes)
  /\ caller[c].pc = "load" /\ manifest \in NoList => Clean
  /\ RollingBack(c) => /\ caller[c].changes = <<>> => Clean
                       /\ Len(caller[c].changes) = 1 => ~config.entry
  /\ caller[c].pc \in {"forget", "write"} => Clean
  /\ caller[c].pc \in {"read", "backup", "put"} => ~config.entry
  /\ caller[c].pc = "put" => ~caller[c].before.entry
  /\ ~caller[c].skipped /\ ~caller[c].failed

\* And what the operator turned off is taken out, or is still being seen to.
Apart == ~(Busy({"unpatch"}) /\ Busy({"patch", "ensure"}))
SeesTo(c) ==
  \/ caller[c].job = "unpatch" /\ caller[c].pc \in {"lock", "load", "own", "restore"}
  \/ caller[c].job = "patch" /\ caller[c].pc \in Inside \cup {"optin"}
TurnedOff ==
  /\ off => Clean \/ \E c \in Caller : SeesTo(c)
  /\ \A c \in Caller : caller[c].job = "ensure" /\ caller[c].pc # "look" => ~off

Typed == CallerTyped /\ FilesTyped /\ MarksTyped /\ GhostsTyped /\ OneInside

Fits(c) == JobFits(c) /\ ListFits(c) /\ EditFits(c)

IInv ==
  /\ Typed
  /\ \A c \in Caller : Fits(c)
  /\ TokensGood /\ EditsKept
  /\ ~troubled => DiskKept /\ \A c \in Caller : DiskFits(c)
  /\ ~troubled => Apart /\ TurnedOff

LEMMA InitIInv == PatchInit => IInv
<1> SUFFICES ASSUME PatchInit PROVE IInv
  OBVIOUS
<1>1. \A c \in Caller : caller[c] = NoRequest
  BY DEF PatchInit
<1>2. /\ NoRequest.pc = "idle" /\ NoRequest.job = "none" /\ NoRequest.changes = <<>>
      /\ NoRequest.read = NoConfig /\ NoRequest.before = NoConfig
      /\ NoRequest.skipped = FALSE /\ NoRequest.failed = FALSE
      /\ NoConfig.user = 0 /\ NoConfig.entry = FALSE
  BY DEF NoRequest, NoConfig
<1>3. CallerTyped
  BY IdleTyped DEF PatchInit, CallerTyped
<1>4. FilesTyped
  BY IdleTyped DEF PatchInit, FilesTyped, NoList, Hook
<1>5. MarksTyped
  <2>1. off \in BOOLEAN
    BY Zenon DEF PatchInit
  <2>2. token \in 0 .. MaxTokens /\ issued \in 0 .. MaxTokens /\ restarts \in 0 .. MaxRestarts
        /\ address \in 1 .. restarts + 1
    BY PatchAssumption DEF PatchInit
  <2> QED
    BY <2>1, <2>2 DEF MarksTyped
<1>6. GhostsTyped
  <2>1. exposed \in BOOLEAN /\ troubled \in BOOLEAN /\ cutOff \in BOOLEAN
    BY Zenon DEF PatchInit
  <2>2. edits \in 0 .. MaxEdits
    BY PatchAssumption DEF PatchInit
  <2> QED
    BY <2>1, <2>2 DEF GhostsTyped
<1>7. OneInside
  BY <1>1, <1>2, PatchAssumption DEF PatchInit, OneInside, Inside
<1>8. \A c \in Caller : JobFits(c) /\ ListFits(c)
  BY <1>1, <1>2 DEF JobFits, ListFits, Listing, RollingBack, Carrying
<1>9. manifest = None /\ None \in NoList /\ edits = 0 /\ config = NoConfig /\ hook = None /\ off = FALSE
  BY DEF PatchInit, NoList
<1>10. \A c \in Caller : EditFits(c)
  BY <1>1, <1>2, <1>9 DEF EditFits, Listing
<1>11. TokensGood /\ EditsKept
  BY <1>1, <1>2, <1>9 DEF TokensGood, EditsKept, Listing, RollingBack, Carrying, Whole
<1>12. DiskKept /\ \A c \in Caller : DiskFits(c)
  BY <1>1, <1>2, <1>9 DEF DiskKept, DiskFits, Clean, Listing, RollingBack
<1>13. Apart
  BY <1>1, <1>2 DEF Apart, Busy
<1>14. TurnedOff
  BY <1>1, <1>2, <1>9 DEF TurnedOff, Clean
<1> QED
  BY <1>3, <1>4, <1>5, <1>6, <1>7, <1>8, <1>10, <1>11, <1>12, <1>13, <1>14 DEF IInv, Typed, Fits

-----------------------------------------------------------------------------
(* Steps.                                                                  *)

(* Two requests are not behind the lock at once.                           *)
LEMMA OthersOutside ==
  ASSUME OneInside, NEW c \in Caller, lock = c, NEW d \in Caller \ {c}
  PROVE  caller[d].pc \notin Inside
BY DEF OneInside

(* A request that is not behind the lock is not touched by one that is.    *)
LEMMA BystandersFit ==
  ASSUME IInv, NEW c \in Caller, lock = c, Others(c),
         UNCHANGED <<token, cutOff, edits>>, NEW d \in Caller \ {c}
  PROVE  /\ Fits(d)'
         /\ ~troubled => DiskFits(d)'
         /\ Carrying(d)' => Good(caller[d].token)'
         /\ ~Listing(d)'
<1>1. caller'[d] = caller[d] /\ caller[d].pc \notin Inside
  BY OthersOutside DEF IInv, Typed, Others
<1>2. /\ ~Listing(d) /\ ~RollingBack(d)
      /\ caller[d].pc \notin {"load", "own", "restore", "forget", "write", "read", "backup", "put", "save", "saved"}
  BY <1>1 DEF Inside, Listing, RollingBack
<1>3. ~Listing(d)' /\ ~RollingBack(d)'
  BY <1>1, <1>2 DEF Listing, RollingBack
<1>4. JobFits(d)'
  BY <1>1, <1>2, <1>3 DEF IInv, Fits, JobFits, Carrying
<1>5. ListFits(d)'
  BY <1>1, <1>2, <1>3 DEF ListFits
<1>6. EditFits(d)'
  BY <1>1, <1>2, <1>3 DEF IInv, Fits, EditFits
<1>7. ~troubled => DiskFits(d)'
  BY <1>1, <1>2, <1>3 DEF IInv, DiskFits
<1>8. Carrying(d)' => Good(caller[d].token)'
  BY <1>1, <1>2, <1>3 DEF IInv, TokensGood, Carrying, Good
<1> QED
  BY <1>3, <1>4, <1>5, <1>6, <1>7, <1>8 DEF Fits

(* A step of the one behind the lock: what is left is its own part.        *)
LEMMA InsideStep ==
  ASSUME IInv, NEW c \in Caller, lock = c, Others(c), CallerTyped', FilesTyped',
         UNCHANGED <<marks, edits, cutOff>>, exposed' = exposed \/ exposed' = TRUE,
         troubled' \in BOOLEAN, troubled => troubled',
         \/ lock' = c /\ caller'[c].pc \in Inside
         \/ lock' = None /\ caller'[c].pc \notin Inside,
         caller'[c].job \in {caller[c].job, "none"}, caller'[c].pc # "look",
         Fits(c)',
         Whole(hook') => Good(hook.token)',
         manifest' \notin NoList => HookItem(manifest[1])',
         Carrying(c)' => Good(caller[c].token)',
         Listing(c)' /\ caller'[c].changes # <<>> => HookItem(caller[c].changes[1])',
         EditsKept',
         ~troubled' => DiskKept' /\ DiskFits(c)',
         ~troubled' /\ (Clean \/ SeesTo(c)) => Clean' \/ SeesTo(c)' \/ caller[c].job = "ensure"
  PROVE  IInv'
<1>1. \A d \in Caller \ {c} : Fits(d)' /\ (~troubled => DiskFits(d)') /\ (Carrying(d)' => Good(caller[d].token)') /\ ~Listing(d)'
  BY BystandersFit DEF marks
<1>2. \A d \in Caller \ {c} : caller'[d] = caller[d]
  BY DEF Others
<1>3. OneInside'
  BY <1>2, PatchAssumption DEF IInv, Typed, OneInside
<1>4. Typed'
  BY <1>3 DEF IInv, Typed, MarksTyped, GhostsTyped, marks
<1>5. \A d \in Caller : Fits(d)'
  BY <1>1
<1>6. TokensGood'
  BY <1>1 DEF TokensGood
<1>7. ~troubled' => DiskKept' /\ \A d \in Caller : DiskFits(d)'
  BY <1>1
<1>8. ASSUME ~troubled'
      PROVE  Apart'
  <2>1. Apart
    BY <1>8 DEF IInv
  <2>2. \A d \in Caller : caller'[d].job \in {caller[d].job, "none"}
    BY <1>2
  <2> QED
    BY <2>1, <2>2 DEF Apart, Busy
<1>9. ASSUME ~troubled'
      PROVE  TurnedOff'
  <2>1. TurnedOff /\ off' = off
    BY <1>9 DEF IInv, marks
  <2>2. \A d \in Caller : caller'[d].job = "ensure" /\ caller'[d].pc # "look" => ~off'
    <3>1. caller[c].pc # "look"
      BY DEF IInv, Typed, OneInside, Inside
    <3> QED
      BY <1>2, <2>1, <3>1 DEF TurnedOff
  <2>3. ASSUME off'
        PROVE  Clean' \/ \E d \in Caller : SeesTo(d)'
    <3>1. CASE \E d \in Caller \ {c} : SeesTo(d)
      BY <1>2, <3>1 DEF SeesTo
    <3>2. CASE Clean \/ SeesTo(c)
      <4>1. caller[c].job # "ensure"
        BY <2>1, <2>3 DEF TurnedOff, IInv, Typed, OneInside, Inside
      <4> QED
        BY <1>9, <3>2, <4>1
    <3> QED
      BY <2>1, <2>3, <3>1, <3>2 DEF TurnedOff
  <2> QED
    BY <2>2, <2>3 DEF TurnedOff
<1> QED
  BY <1>4, <1>5, <1>6, <1>7, <1>8, <1>9 DEF IInv

(* A request that is over leaves nothing of its own behind.                *)
LEMMA EndedFits ==
  ASSUME NEW c \in Caller, caller'[c] = NoRequest, GhostsTyped'
  PROVE  /\ Fits(c)' /\ DiskFits(c)' /\ ~Listing(c)' /\ ~Carrying(c)'
         /\ caller'[c].pc = "idle" /\ caller'[c].job = "none" /\ caller'[c].pc \notin Inside
<1>1. /\ NoRequest.pc = "idle" /\ NoRequest.job = "none" /\ NoRequest.changes = <<>>
      /\ NoRequest.read = NoConfig /\ NoRequest.before = NoConfig
      /\ NoRequest.skipped = FALSE /\ NoRequest.failed = FALSE
      /\ NoConfig.user = 0 /\ 0 <= edits'
  BY DEF NoRequest, NoConfig, GhostsTyped
<1>2. ~Listing(c)' /\ ~Carrying(c)' /\ ~RollingBack(c)'
  BY <1>1 DEF Listing, Carrying, RollingBack
<1>3. caller'[c].pc \notin Inside
  BY <1>1 DEF Inside
<1>4. JobFits(c)' /\ ListFits(c)'
  BY <1>1, <1>2 DEF JobFits, ListFits
<1>5. EditFits(c)'
  BY <1>1, <1>2 DEF EditFits
<1>6. DiskFits(c)'
  BY <1>1, <1>2 DEF DiskFits
<1> QED
  BY <1>1, <1>2, <1>3, <1>4, <1>5, <1>6 DEF Fits

(* A step of one that is not behind the lock.                              *)
LEMMA OutsideStep ==
  ASSUME IInv, NEW c \in Caller, Others(c), CallerTyped', MarksTyped', GhostsTyped',
         UNCHANGED <<files, edits, exposed>>, troubled => troubled',
         caller[c].pc \notin Inside,
         \/ UNCHANGED lock /\ caller'[c].pc \notin Inside
         \/ lock = None /\ lock' = c /\ caller'[c].pc \in Inside,
         Fits(c)', TokensGood', ~troubled => DiskFits(c)',
         ~troubled' => Apart' /\ TurnedOff'
  PROVE  IInv'
<1>1. \A d \in Caller \ {c} : caller'[d] = caller[d]
  BY DEF Others
<1>2. OneInside'
  BY <1>1, PatchAssumption DEF IInv, Typed, OneInside
<1>3. Typed'
  BY <1>2 DEF IInv, Typed, FilesTyped, files
<1>4. ASSUME NEW d \in Caller \ {c} PROVE Fits(d)' /\ (~troubled => DiskFits(d)')
  <2>1. caller'[d] = caller[d] /\ UNCHANGED <<config, hook, manifest, edits, exposed>>
    BY <1>1 DEF files
  <2>2. JobFits(d)' /\ ListFits(d)'
    BY <2>1 DEF IInv, Fits, JobFits, ListFits, Carrying, Listing, RollingBack
  <2>3. EditFits(d)'
    BY <2>1 DEF IInv, Fits, EditFits, Listing, ConfigItem
  <2>4. ~troubled => DiskFits(d)'
    BY <2>1 DEF IInv, DiskFits, Listing, RollingBack, Clean
  <2> QED
    BY <2>2, <2>3, <2>4 DEF Fits
<1>5. EditsKept'
  BY DEF IInv, EditsKept, ConfigItem, files
<1>6. ~troubled' => DiskKept'
  BY PatchAssumption DEF IInv, DiskKept, Clean, files
<1> QED
  BY <1>3, <1>4, <1>5, <1>6 DEF IInv

(* A request that goes on outside, with a job it had.                      *)
LEMMA OnwardOutside ==
  ASSUME IInv, NEW c \in Caller, Others(c), CallerTyped', MarksTyped', GhostsTyped',
         UNCHANGED <<files, lock, edits, exposed, troubled>>,
         caller[c].pc \notin Inside, caller'[c].pc \notin Inside,
         caller'[c].job = caller[c].job, JobFits(c)',
         caller'[c].read \in {caller[c].read, NoConfig}, caller'[c].before \in {caller[c].before, NoConfig},
         caller'[c].skipped \in {caller[c].skipped, FALSE}, caller'[c].failed \in {caller[c].failed, FALSE},
         TokensGood', ~troubled => TurnedOff'
  PROVE  IInv'
<1>1. ~Listing(c)' /\ ~RollingBack(c)'
      /\ caller'[c].pc \notin {"load", "forget", "write", "read", "backup", "put", "save", "saved", "own", "restore"}
  BY DEF Listing, RollingBack, Inside
<1>2. NoConfig.user = 0 /\ 0 <= edits'
  BY DEF NoConfig, GhostsTyped
<1>3. Fits(c)'
  <2>1. ListFits(c)'
    BY <1>1 DEF ListFits
  <2>2. EditFits(c)'
    BY <1>1, <1>2 DEF IInv, Fits, EditFits
  <2> QED
    BY <2>1, <2>2 DEF Fits
<1>4. ~troubled => DiskFits(c)'
  BY <1>1 DEF IInv, DiskFits
<1>5. ~troubled => Apart'
  BY DEF IInv, Apart, Busy, Others
<1> QED
  BY <1>3, <1>4, <1>5, OutsideStep

(* Whoever sees to what was turned off still does.                         *)
LEMMA StaysTurnedOff ==
  ASSUME TurnedOff, NEW c \in Caller, Others(c), UNCHANGED <<files, off>>,
         SeesTo(c) => SeesTo(c)', caller'[c].job = "ensure" /\ caller'[c].pc # "look" => ~off
  PROVE  TurnedOff'
BY DEF TurnedOff, SeesTo, Others, Clean, files

(* A request that ends outside the lock.                                   *)
LEMMA EndsOutside ==
  ASSUME IInv, NEW c \in Caller, Ends(c), MarksTyped', GhostsTyped',
         UNCHANGED <<files, lock, edits, exposed, troubled>>, caller[c].pc \notin Inside,
         TokensGood', \/ UNCHANGED off /\ ~SeesTo(c)
                      \/ ~off'
  PROVE  IInv'
<1>1. CallerTyped' /\ Others(c) /\ caller'[c] = NoRequest
  BY EndsShape DEF IInv, Typed
<1>2. /\ Fits(c)' /\ DiskFits(c)' /\ caller'[c].pc = "idle" /\ caller'[c].job = "none"
      /\ caller'[c].pc \notin Inside
  BY <1>1, EndedFits
<1>3. ~troubled => Apart'
  BY <1>1, <1>2 DEF IInv, Apart, Busy, Others
<1>4. ~troubled' => TurnedOff'
  BY <1>1, <1>2 DEF IInv, TurnedOff, SeesTo, Others, Clean, files
<1> QED
  BY <1>1, <1>2, <1>3, <1>4, OutsideStep

(* Nothing that is relied on changes.                                      *)
LEMMA TokensStay ==
  ASSUME IInv, NEW c \in Caller, Others(c), UNCHANGED files,
         \A t \in 1 .. MaxTokens : Good(t) => Good(t)',
         Carrying(c)' => caller'[c].token \in 1 .. MaxTokens /\ Good(caller[c].token)',
         ~Listing(c)'
  PROVE  TokensGood'
<1>1. Whole(hook) => hook.token \in 1 .. MaxTokens
  BY DEF IInv, Typed, FilesTyped, Hook, HookFile, Whole
<1>2. \A item \in HookChange : Whole(item.before) => item.before.token \in 1 .. MaxTokens
  BY DEF HookChange, Hook, HookFile, Whole
<1>3. manifest \notin NoList => manifest[1] \in HookChange
  BY DEF IInv, Typed, FilesTyped, Shaped
<1>4. Whole(hook') => Good(hook.token)'
  BY <1>1 DEF IInv, TokensGood, files, Good
<1>5. manifest' \notin NoList => HookItem(manifest[1])'
  BY <1>2, <1>3 DEF IInv, TokensGood, files, HookItem, Good
<1>6. ASSUME NEW d \in Caller
      PROVE  Carrying(d)' => Good(caller[d].token)'
  <2>1. CASE d # c
    <3>1. caller'[d] = caller[d] /\ caller[d].token \in 0 .. MaxTokens
      BY <2>1 DEF Others, IInv, Typed, CallerTyped, Request
    <3>2. Carrying(d) => caller[d].token \in 1 .. MaxTokens /\ Good(caller[d].token)
      BY <3>1 DEF IInv, Fits, JobFits, TokensGood
    <3> QED
      BY <3>1, <3>2 DEF Carrying, RollingBack, Good
  <2> QED
    BY <2>1
<1>7. ASSUME NEW d \in Caller, Listing(d)', caller'[d].changes # <<>>
      PROVE  HookItem(caller[d].changes[1])'
  <2>1. d # c /\ caller'[d] = caller[d]
    BY <1>7 DEF Others
  <2>2. Listing(d) /\ caller[d].changes # <<>>
    BY <1>7, <2>1 DEF Listing
  <2>3. HookItem(caller[d].changes[1]) /\ Shaped(caller[d].changes)
    BY <2>2 DEF IInv, TokensGood, Fits, ListFits
  <2>4. caller[d].changes[1] \in HookChange
    BY <2>2, <2>3, ShorterList DEF Shaped
  <2> QED
    BY <1>2, <2>1, <2>3, <2>4 DEF HookItem, Good, files
<1> QED
  BY <1>4, <1>5, <1>6, <1>7 DEF TokensGood

LEMMA SameTokens ==
  ASSUME IInv, NEW c \in Caller, Others(c), UNCHANGED <<files, token, cutOff>>,
         Carrying(c)' => Carrying(c) /\ caller'[c].token = caller[c].token,
         ~Listing(c)'
  PROVE  TokensGood'
<1>1. \A t \in 1 .. MaxTokens : Good(t) => Good(t)'
  BY DEF Good
<1>2. Carrying(c)' => caller'[c].token \in 1 .. MaxTokens /\ Good(caller[c].token)'
  BY DEF IInv, Fits, JobFits, TokensGood, Good, Typed, CallerTyped, Request
<1> QED
  BY <1>1, <1>2, TokensStay

-----------------------------------------------------------------------------
(* What is done outside the lock.                                          *)

LEMMA AskKeepsIInv ==
  ASSUME IInv, NEW c \in Caller, Ask(c)
  PROVE  IInv'
<1>1. PICK asked \in {Patch, EnsurePatched, Unpatch} :
        /\ caller' = [caller EXCEPT ![c] = asked]
        /\ troubled' = \/ troubled
                       \/ Busy(IF asked.job = "unpatch" THEN {"patch", "ensure"} ELSE {"unpatch"})
  BY DEF Ask, Trouble
<1>2. /\ caller[c].pc = "idle" /\ caller[c].job = "none" /\ caller[c].pc \notin Inside
      /\ UNCHANGED <<files, marks, lock, edits, exposed, cutOff>>
  BY DEF Ask, At, IInv, Fits, JobFits, Inside
<1>3. /\ asked \in Request /\ asked.token = 0
      /\ \/ asked.pc = "issue" /\ asked.job = "patch"
         \/ asked.pc = "look" /\ asked.job = "ensure"
         \/ asked.pc = "optout" /\ asked.job = "unpatch"
      /\ asked.read = NoConfig /\ asked.before = NoConfig
      /\ asked.skipped = FALSE /\ asked.failed = FALSE
  <2>1. {"issue", "look", "optout"} \subseteq Inside \cup Outside
    BY DEF Outside
  <2>2. CASE asked = Patch
    BY <2>1, <2>2, IdleTyped DEF Patch, NoRequest, Request
  <2>3. CASE asked = EnsurePatched
    BY <2>1, <2>3, IdleTyped DEF EnsurePatched, NoRequest, Request
  <2>4. CASE asked = Unpatch
    BY <2>1, <2>4, IdleTyped DEF Unpatch, NoRequest, Request
  <2> QED
    BY <2>2, <2>3, <2>4
<1>4. CallerTyped' /\ Others(c) /\ caller'[c] = asked
  BY <1>1, <1>3 DEF IInv, Typed, CallerTyped, Others
<1>5. troubled' \in BOOLEAN /\ (troubled => troubled')
  BY <1>1, Zenon DEF IInv, Typed, GhostsTyped, Busy
<1>6. MarksTyped' /\ GhostsTyped'
  BY <1>2, <1>5 DEF IInv, Typed, MarksTyped, GhostsTyped, marks
<1>7. ~Listing(c)' /\ ~RollingBack(c)' /\ ~Carrying(c)' /\ caller'[c].pc \notin Inside
  BY <1>3, <1>4 DEF Listing, RollingBack, Carrying, Inside
<1>8. Fits(c)'
  <2>1. JobFits(c)' /\ ListFits(c)'
    BY <1>3, <1>4, <1>7 DEF JobFits, ListFits
  <2>2. NoConfig.user = 0 /\ 0 <= edits'
    BY <1>6 DEF NoConfig, GhostsTyped
  <2>3. EditFits(c)'
    BY <1>3, <1>4, <1>7, <2>2 DEF EditFits
  <2> QED
    BY <2>1, <2>3 DEF Fits
<1>9. DiskFits(c)'
  BY <1>3, <1>4, <1>7 DEF DiskFits
<1>10. TokensGood'
  BY <1>2, <1>4, <1>7, SameTokens DEF marks
<1>11. ASSUME ~troubled'
       PROVE  Apart'
  <2>1. Apart /\ \A d \in Caller : caller'[d].job \in {caller[d].job, asked.job}
    BY <1>1, <1>4, <1>11 DEF IInv, Others
  <2>2. ~Busy(IF asked.job = "unpatch" THEN {"patch", "ensure"} ELSE {"unpatch"})
    BY <1>1, <1>11
  <2>3. CASE asked.job = "unpatch"
    <3>1. ~Busy({"patch", "ensure"})
      BY <2>2, <2>3
    <3>2. ~Busy({"patch", "ensure"})'
      BY <2>1, <2>3, <3>1 DEF Busy
    <3> QED
      BY <3>2 DEF Apart
  <2>4. CASE asked.job # "unpatch"
    <3>1. ~Busy({"unpatch"})
      BY <2>2, <2>4
    <3>2. ~Busy({"unpatch"})'
      BY <2>1, <2>4, <3>1 DEF Busy
    <3> QED
      BY <3>2 DEF Apart
  <2> QED
    BY <2>3, <2>4
<1>12. ~troubled' => TurnedOff'
  <2>1. ~SeesTo(c)
    BY <1>2 DEF SeesTo
  <2>2. UNCHANGED <<files, off>>
    BY <1>2 DEF marks
  <2>3. caller'[c].job = "ensure" => caller'[c].pc = "look"
    BY <1>3, <1>4
  <2> QED
    BY <1>4, <1>5, <2>1, <2>2, <2>3, StaysTurnedOff DEF IInv
<1> QED
  BY <1>2, <1>4, <1>5, <1>6, <1>7, <1>8, <1>9, <1>10, <1>11, <1>12, OutsideStep

LEMMA LooksKeepIInv ==
  ASSUME IInv, NEW c \in Caller, isOptedOut(c) \/ Status(c)
  PROVE  IInv'
<1>1. /\ caller[c].pc \in {"look", "status"} /\ caller[c].job = "ensure" /\ caller[c].pc \notin Inside
      /\ UNCHANGED <<files, marks, lock, ghosts>>
  BY DEF isOptedOut, Status, At, IInv, Fits, JobFits, Inside
<1>2. MarksTyped' /\ GhostsTyped' /\ UNCHANGED <<token, off, edits, exposed, troubled, cutOff>>
  BY <1>1 DEF IInv, Typed, MarksTyped, GhostsTyped, marks, ghosts
<1>3. CASE Ends(c)
  <2>1. CallerTyped' /\ Others(c) /\ caller'[c] = NoRequest
    BY <1>3, EndsShape DEF IInv, Typed
  <2>2. ~Listing(c)' /\ ~Carrying(c)'
    BY <1>2, <2>1, EndedFits
  <2>3. TokensGood'
    BY <1>1, <1>2, <2>1, <2>2, SameTokens
  <2>4. ~SeesTo(c)
    BY <1>1 DEF SeesTo
  <2> QED
    BY <1>1, <1>2, <1>3, <2>3, <2>4, EndsOutside
<1>4. ASSUME NEW pc \in {"status", "issue"}, Goes(c, pc),
             ~troubled => ~off
      PROVE  IInv'
  <2>1. pc \in Inside \cup Outside /\ pc \notin Inside
    BY <1>4 DEF Outside, Inside
  <2>2. /\ CallerTyped' /\ Others(c)
        /\ caller'[c].pc = pc /\ caller'[c].job = caller[c].job
        /\ caller'[c].read = caller[c].read /\ caller'[c].before = caller[c].before
        /\ caller'[c].skipped = caller[c].skipped /\ caller'[c].failed = caller[c].failed
    BY <1>4, <2>1, GoesShape DEF IInv, Typed
  <2>3. ~Listing(c)' /\ ~Carrying(c)'
    BY <2>2, <1>4 DEF Listing, Carrying, RollingBack
  <2>4. TokensGood'
    BY <1>1, <1>2, <2>2, <2>3, SameTokens
  <2>5. JobFits(c)'
    BY <1>1, <1>4, <2>2, <2>3 DEF JobFits
  <2>6. ~SeesTo(c)
    BY <1>1 DEF SeesTo
  <2>7. ~troubled => TurnedOff'
    BY <1>1, <1>2, <1>4, <2>2, <2>6, StaysTurnedOff DEF IInv
  <2> QED
    BY <1>1, <1>2, <2>1, <2>2, <2>4, <2>5, <2>7, OnwardOutside
<1>5. CASE isOptedOut(c)
  <2>1. Ends(c) \/ (~off /\ Goes(c, "status"))
    BY <1>5 DEF isOptedOut
  <2> QED
    BY <1>3, <1>4, <2>1
<1>6. CASE Status(c)
  <2>1. Ends(c) \/ Goes(c, "issue")
    BY <1>6 DEF Status
  <2>2. ~troubled => ~off
    BY <1>1, <1>6 DEF Status, At, IInv, TurnedOff
  <2> QED
    BY <1>3, <1>4, <2>1, <2>2
<1> QED
  BY <1>5, <1>6

LEMMA IssueKeepsIInv ==
  ASSUME IInv, NEW c \in Caller, IssueIngestToken(c)
  PROVE  IInv'
<1>1. /\ caller[c].pc = "issue" /\ caller[c].job \in {"patch", "ensure"} /\ caller[c].pc \notin Inside
      /\ UNCHANGED <<files, off, address, restarts, lock, ghosts>>
  BY DEF IssueIngestToken, At, IInv, Fits, JobFits, Inside
<1>2. GhostsTyped' /\ UNCHANGED <<off, edits, exposed, troubled, cutOff>>
  BY <1>1 DEF IInv, Typed, GhostsTyped, ghosts
<1>3. token \in 0 .. MaxTokens /\ issued \in 0 .. MaxTokens
  BY DEF IInv, Typed, MarksTyped
<1>4. ~SeesTo(c)
  BY <1>1 DEF SeesTo
<1>5. ASSUME token = 0, Ends(c), UNCHANGED <<token, issued>>
      PROVE  IInv'
  <2>1. CallerTyped' /\ Others(c) /\ caller'[c] = NoRequest
    BY <1>5, EndsShape DEF IInv, Typed
  <2>2. ~Listing(c)' /\ ~Carrying(c)'
    BY <1>2, <2>1, EndedFits
  <2>3. TokensGood'
    BY <1>1, <1>2, <1>5, <2>1, <2>2, SameTokens
  <2>4. MarksTyped'
    BY <1>1, <1>5 DEF IInv, Typed, MarksTyped
  <2> QED
    BY <1>1, <1>2, <1>4, <1>5, <2>3, <2>4, EndsOutside
<1>6. ASSUME token' \in 1 .. MaxTokens, issued' \in 0 .. MaxTokens, Carries(c, token'),
             token # 0 => token' = token
      PROVE  IInv'
  <2>0. token' \in 0 .. MaxTokens
    BY <1>6
  <2>1. /\ CallerTyped' /\ Others(c)
        /\ caller'[c].pc = "lock" /\ caller'[c].job = caller[c].job /\ caller'[c].token = token'
        /\ caller'[c].read = caller[c].read /\ caller'[c].before = caller[c].before
        /\ caller'[c].skipped = caller[c].skipped /\ caller'[c].failed = caller[c].failed
    BY <1>6, <2>0, CarriesShape DEF IInv, Typed
  <2>2. MarksTyped'
    BY <1>1, <1>6, <2>0 DEF IInv, Typed, MarksTyped
  <2>3. ~Listing(c)' /\ caller'[c].pc \notin Inside
    BY <2>1 DEF Listing, Inside
  <2>4. \A t \in 1 .. MaxTokens : Good(t) => Good(t)'
    BY <1>2, <1>3, <1>6 DEF Good
  <2>5. caller'[c].token \in 1 .. MaxTokens /\ Good(caller[c].token)'
    BY <1>6, <2>1 DEF Good
  <2>6. TokensGood'
    BY <1>1, <2>1, <2>3, <2>4, <2>5, TokensStay
  <2>7. JobFits(c)'
    <3>1. caller'[c].token # 0
      BY <1>6, <2>1
    <3> QED
      BY <1>1, <2>1, <3>1 DEF JobFits, Carrying, RollingBack
  <2>8. ~troubled => ~off \/ caller'[c].job # "ensure"
    BY <1>1, <2>1 DEF IInv, TurnedOff
  <2>9. ~troubled => TurnedOff'
    BY <1>1, <1>2, <1>4, <2>1, <2>8, StaysTurnedOff DEF IInv
  <2> QED
    BY <1>1, <1>2, <2>1, <2>2, <2>3, <2>6, <2>7, <2>9, OnwardOutside
<1>7. CASE token # 0 /\ Carries(c, token) /\ UNCHANGED <<token, issued>>
  BY <1>3, <1>6, <1>7
<1>8. CASE token = 0 /\ issued < MaxTokens /\ issued' = issued + 1 /\ token' = issued' /\ Carries(c, token')
  <2>1. issued' \in 1 .. MaxTokens
    BY <1>3, <1>8, PatchAssumption
  <2> QED
    BY <1>6, <1>8, <2>1
<1>9. CASE token = 0 /\ Ends(c) /\ UNCHANGED <<token, issued>>
  BY <1>5, <1>9
<1> QED
  BY <1>7, <1>8, <1>9 DEF IssueIngestToken

LEMMA OptOutKeepsIInv ==
  ASSUME IInv, NEW c \in Caller, setOptOut(c)
  PROVE  IInv'
<1>1. /\ caller[c].pc = "optout" /\ caller[c].job = "unpatch" /\ caller[c].pc \notin Inside
      /\ off' = TRUE /\ Goes(c, "lock")
      /\ UNCHANGED <<files, token, issued, address, restarts, lock, ghosts>>
  BY DEF setOptOut, At, IInv, Fits, JobFits, Inside
<1>2. GhostsTyped' /\ UNCHANGED <<edits, exposed, troubled, cutOff>>
  BY <1>1 DEF IInv, Typed, GhostsTyped, ghosts
<1>3. MarksTyped'
  <2>1. off' \in BOOLEAN
    BY <1>1, Zenon
  <2> QED
    BY <1>1, <2>1 DEF IInv, Typed, MarksTyped
<1>4. /\ CallerTyped' /\ Others(c)
      /\ caller'[c].pc = "lock" /\ caller'[c].job = caller[c].job
      /\ caller'[c].read = caller[c].read /\ caller'[c].before = caller[c].before
      /\ caller'[c].skipped = caller[c].skipped /\ caller'[c].failed = caller[c].failed
  <2>1. "lock" \in Inside \cup Outside
    BY DEF Outside
  <2> QED
    BY <1>1, <2>1, GoesShape DEF IInv, Typed
<1>5. ~Listing(c)' /\ ~Carrying(c)' /\ caller'[c].pc \notin Inside /\ SeesTo(c)'
  BY <1>1, <1>4 DEF Listing, Carrying, Inside, SeesTo
<1>6. TokensGood'
  BY <1>1, <1>2, <1>4, <1>5, SameTokens
<1>7. JobFits(c)'
  BY <1>1, <1>4, <1>5 DEF JobFits
<1>8. ASSUME ~troubled
      PROVE  TurnedOff'
  <2>1. \A d \in Caller : caller[d].job # "ensure"
    BY <1>1, <1>8 DEF IInv, Apart, Busy
  <2>2. \A d \in Caller : caller'[d].job # "ensure"
    BY <1>4, <2>1 DEF Others
  <2> QED
    BY <1>5, <2>2 DEF TurnedOff
<1> QED
  BY <1>1, <1>2, <1>3, <1>4, <1>5, <1>6, <1>7, <1>8, OnwardOutside

LEMMA LockKeepsIInv ==
  ASSUME IInv, NEW c \in Caller, Lock(c)
  PROVE  IInv'
<1>1. /\ caller[c].pc = "lock" /\ caller[c].pc \notin Inside /\ lock = None /\ lock' = c
      /\ Goes(c, "load") /\ UNCHANGED <<files, marks, ghosts>>
  BY DEF Lock, At, Inside
<1>2. /\ MarksTyped' /\ GhostsTyped'
      /\ UNCHANGED <<token, off, edits, exposed, troubled, cutOff>>
  BY <1>1 DEF IInv, Typed, MarksTyped, GhostsTyped, marks, ghosts
<1>3. /\ CallerTyped' /\ Others(c)
      /\ caller'[c].pc = "load" /\ caller'[c].job = caller[c].job /\ caller'[c].token = caller[c].token
      /\ caller'[c].read = caller[c].read /\ caller'[c].before = caller[c].before
      /\ caller'[c].skipped = caller[c].skipped /\ caller'[c].failed = caller[c].failed
  <2>1. "load" \in Inside \cup Outside
    BY DEF Inside
  <2> QED
    BY <1>1, <2>1, GoesShape DEF IInv, Typed
<1>4. /\ ~Listing(c)' /\ ~RollingBack(c)' /\ caller'[c].pc \in Inside
      /\ Carrying(c)' => Carrying(c)
  BY <1>1, <1>3 DEF Listing, RollingBack, Carrying, Inside
<1>5. TokensGood'
  BY <1>1, <1>2, <1>3, <1>4, SameTokens
<1>6. Fits(c)'
  <2>1. JobFits(c)'
    BY <1>1, <1>3, <1>4 DEF IInv, Fits, JobFits
  <2>2. ListFits(c)'
    BY <1>3, <1>4 DEF ListFits
  <2>3. EditFits(c)'
    BY <1>2, <1>3, <1>4 DEF IInv, Fits, EditFits
  <2> QED
    BY <2>1, <2>2, <2>3 DEF Fits
<1>7. ~troubled => DiskFits(c)'
  BY <1>1, <1>3, <1>4 DEF IInv, DiskFits, DiskKept, Clean, files
<1>8. ~troubled => Apart'
  BY <1>3 DEF IInv, Apart, Busy, Others
<1>9. ~troubled => TurnedOff'
  <2>1. SeesTo(c) => SeesTo(c)'
    BY <1>1, <1>3 DEF SeesTo, Inside
  <2>2. ~troubled => (caller'[c].job = "ensure" => ~off)
    BY <1>1, <1>3 DEF IInv, TurnedOff
  <2> QED
    BY <1>1, <1>2, <1>3, <2>1, <2>2, StaysTurnedOff DEF IInv
<1> QED
  BY <1>1, <1>2, <1>3, <1>4, <1>5, <1>6, <1>7, <1>8, <1>9, OutsideStep

LEMMA RevokeKeepsIInv ==
  ASSUME IInv, NEW c \in Caller, RevokeIngestToken(c)
  PROVE  IInv'
<1>1. /\ caller[c].pc = "revoke" /\ caller[c].job = "unpatch" /\ caller[c].pc \notin Inside
      /\ token' \in {0, token} /\ Ends(c)
      /\ cutOff' = (cutOff \/ (token' = 0 /\ (hook # None \/ Busy({"patch", "ensure"}))))
      /\ UNCHANGED <<files, issued, off, address, restarts, lock, edits, exposed, troubled>>
  BY DEF RevokeIngestToken, At, IInv, Fits, JobFits, Inside
<1>2. cutOff' \in BOOLEAN /\ (cutOff => cutOff')
  BY <1>1, Zenon DEF IInv, Typed, GhostsTyped
<1>3. MarksTyped' /\ GhostsTyped'
  <2>1. token' \in 0 .. MaxTokens
    BY <1>1, PatchAssumption DEF IInv, Typed, MarksTyped
  <2> QED
    BY <1>1, <1>2, <2>1 DEF IInv, Typed, MarksTyped, GhostsTyped
<1>4. CallerTyped' /\ Others(c) /\ caller'[c] = NoRequest
  BY <1>1, EndsShape DEF IInv, Typed
<1>5. ~Listing(c)' /\ ~Carrying(c)'
  BY <1>3, <1>4, EndedFits
<1>6. TokensGood'
  <2>1. CASE token' = token \/ cutOff'
    <3>1. \A t \in 1 .. MaxTokens : Good(t) => Good(t)'
      BY <1>2, <2>1 DEF Good
    <3> QED
      BY <1>1, <1>4, <1>5, <3>1, TokensStay
  <2>2. CASE token' # token /\ ~cutOff'
    <3>1. hook = None /\ ~Busy({"patch", "ensure"})
      BY <1>1, <2>2
    <3>2. \A d \in Caller : caller[d].job \notin {"patch", "ensure"}
      BY <3>1 DEF Busy
    <3>3. \A d \in Caller : caller'[d].job \notin {"patch", "ensure"}
      <4>1. NoRequest.job = "none"
        BY DEF NoRequest
      <4> QED
        BY <1>4, <3>2, <4>1 DEF Others
    <3>4. \A d \in Caller : ~Carrying(d)'
      BY <3>3 DEF Carrying
    <3>5. ~cutOff
      BY <1>2, <2>2
    <3>6. \A item : HookItem(item) => HookItem(item)'
      BY <1>1, <3>1 DEF HookItem, files
    <3>7. manifest' \notin NoList => HookItem(manifest[1])'
      BY <1>1, <3>6 DEF IInv, TokensGood, files
    <3>8. ASSUME NEW d \in Caller, Listing(d)', caller'[d].changes # <<>>
          PROVE  HookItem(caller[d].changes[1])'
      <4>1. d # c /\ caller'[d] = caller[d]
        BY <1>4, <1>5, <3>8 DEF Others
      <4>2. HookItem(caller[d].changes[1])
        BY <3>8, <4>1 DEF IInv, TokensGood, Listing
      <4> QED
        BY <3>6, <4>1, <4>2
    <3> QED
      BY <1>1, <3>1, <3>4, <3>7, <3>8 DEF TokensGood, files, Whole
  <2> QED
    BY <2>1, <2>2
<1>7. ~SeesTo(c)
  BY <1>1 DEF SeesTo
<1> QED
  BY <1>1, <1>3, <1>4, <1>6, <1>7, EndedFits, EndsOutside

LEMMA OptInKeepsIInv ==
  ASSUME IInv, NEW c \in Caller, clearOptOut(c)
  PROVE  IInv'
<1>1. /\ caller[c].pc = "optin" /\ caller[c].pc \notin Inside /\ off' = FALSE /\ Ends(c)
      /\ UNCHANGED <<files, token, issued, address, restarts, lock, ghosts>>
  BY DEF clearOptOut, At, Inside
<1>2. GhostsTyped' /\ UNCHANGED <<edits, exposed, troubled, cutOff>>
  BY <1>1 DEF IInv, Typed, GhostsTyped, ghosts
<1>3. MarksTyped'
  <2>1. off' \in BOOLEAN
    BY <1>1, Zenon
  <2> QED
    BY <1>1, <2>1 DEF IInv, Typed, MarksTyped
<1>4. CallerTyped' /\ Others(c) /\ caller'[c] = NoRequest
  BY <1>1, EndsShape DEF IInv, Typed
<1>5. ~Listing(c)' /\ ~Carrying(c)'
  BY <1>2, <1>4, EndedFits
<1>6. TokensGood'
  BY <1>1, <1>2, <1>4, <1>5, SameTokens
<1> QED
  BY <1>1, <1>2, <1>3, <1>6, EndsOutside

-----------------------------------------------------------------------------
(* What is done behind the lock.                                           *)

(* A request that ends there lets go of the lock.                          *)
LEMMA EndsInside ==
  ASSUME IInv, NEW c \in Caller, lock = c, EndsUnlocked(c), FilesTyped',
         UNCHANGED <<config, hook, marks, ghosts>>,
         manifest' \notin NoList => HookItem(manifest[1])', EditsKept',
         ~troubled => DiskKept',
         ~troubled /\ (Clean \/ SeesTo(c)) => Clean \/ caller[c].job = "ensure"
  PROVE  IInv'
<1>1. UNCHANGED <<edits, exposed, troubled, cutOff, token>> /\ GhostsTyped' /\ troubled' \in BOOLEAN
  BY DEF IInv, Typed, GhostsTyped, ghosts, marks
<1>2. CallerTyped' /\ Others(c) /\ caller'[c] = NoRequest /\ lock' = None
  BY EndsShape DEF EndsUnlocked, IInv, Typed
<1>3. /\ Fits(c)' /\ DiskFits(c)' /\ ~Listing(c)' /\ ~Carrying(c)'
      /\ caller'[c].pc = "idle" /\ caller'[c].job = "none" /\ caller'[c].pc \notin Inside
  BY <1>1, <1>2, EndedFits
<1>4. Whole(hook') => Good(hook.token)'
  BY <1>1 DEF IInv, TokensGood, Good
<1>5. ~troubled' /\ (Clean \/ SeesTo(c)) => Clean' \/ SeesTo(c)' \/ caller[c].job = "ensure"
  BY <1>1 DEF Clean
<1> QED
  BY <1>1, <1>2, <1>3, <1>4, <1>5, InsideStep

(* Nothing is left to take back.                                           *)
LEMMA RevertedKeepsIInv ==
  ASSUME IInv, NEW c \in Caller, lock = c, caller[c].pc \in {"load", "forget"},
         manifest' = None, UNCHANGED <<config, hook, marks, ghosts>>,
         ~troubled => Clean, Reverted(c)
  PROVE  IInv'
<1>1. /\ UNCHANGED <<edits, exposed, troubled, cutOff, token>> /\ GhostsTyped'
      /\ troubled' \in BOOLEAN /\ manifest' \in NoList
  BY DEF IInv, Typed, GhostsTyped, ghosts, marks, NoList
<1>2. FilesTyped'
  BY <1>1 DEF IInv, Typed, FilesTyped
<1>3. EditsKept'
  BY <1>1 DEF IInv, EditsKept
<1>4. ~troubled => Clean' /\ DiskKept'
  BY <1>1 DEF DiskKept, Clean
<1>5. Whole(hook') => Good(hook.token)'
  BY <1>1 DEF IInv, TokensGood, Good
<1>6. ASSUME NEW pc \in {"revoke", "write"}, GoesOn(c, pc),
             \/ pc = "revoke" /\ lock' = None /\ caller[c].job = "unpatch"
             \/ pc = "write" /\ lock' = c /\ caller[c].job \in {"patch", "ensure"}
      PROVE  IInv'
  <2>1. pc \in Inside \cup Outside /\ (pc \in Inside <=> pc = "write")
    BY <1>6 DEF Inside, Outside
  <2>2. /\ CallerTyped' /\ Others(c)
        /\ caller'[c].pc = pc /\ caller'[c].job = caller[c].job /\ caller'[c].token = caller[c].token
        /\ caller'[c].read = NoConfig /\ caller'[c].before = NoConfig
        /\ caller'[c].changes = <<>> /\ caller'[c].skipped = FALSE /\ caller'[c].failed = FALSE
    BY <1>6, <2>1, GoesOnShape DEF IInv, Typed
  <2>3. /\ ~Listing(c)' /\ ~RollingBack(c)'
        /\ Carrying(c)' => Carrying(c)
    BY <1>6, <2>2 DEF Listing, RollingBack, Carrying
  <2>4. Carrying(c)' => Good(caller[c].token)'
    BY <1>1, <2>2, <2>3 DEF IInv, TokensGood, Good
  <2>5. JobFits(c)'
    BY <1>6, <2>2, <2>3 DEF IInv, Fits, JobFits
  <2>6. ListFits(c)'
    BY <1>1, <1>6, <2>2, <2>3 DEF ListFits
  <2>7. EditFits(c)'
    <3>1. NoConfig.user = 0 /\ 0 <= edits'
      BY <1>1 DEF NoConfig, GhostsTyped
    <3> QED
      BY <1>6, <2>2, <2>3, <3>1 DEF EditFits
  <2>8. ~troubled => DiskFits(c)'
    BY <1>4, <1>6, <2>2, <2>3 DEF DiskFits
  <2>9. Fits(c)'
    BY <2>5, <2>6, <2>7 DEF Fits
  <2>10. \/ lock' = c /\ caller'[c].pc \in Inside
         \/ lock' = None /\ caller'[c].pc \notin Inside
    BY <1>6, <2>1, <2>2
  <2>11. caller'[c].pc # "look"
    BY <1>6, <2>2
  <2>12. ~troubled' /\ (Clean \/ SeesTo(c)) => Clean' \/ SeesTo(c)' \/ caller[c].job = "ensure"
    BY <1>1, <1>4
  <2> QED
    BY <1>1, <1>2, <1>3, <1>4, <1>5, <2>2, <2>3, <2>4, <2>8, <2>9, <2>10, <2>11, <2>12, InsideStep
<1>7. CASE Ends(c) /\ lock' = None
  BY <1>1, <1>2, <1>3, <1>4, <1>7, EndsInside DEF EndsUnlocked
<1>8. caller[c].job \in {"patch", "ensure", "unpatch"}
  BY DEF IInv, Typed, CallerTyped, Request, Fits, JobFits
<1> QED
  BY <1>6, <1>7, <1>8 DEF Reverted

(* What was listed is taken back; what was being written when it came to   *)
(* that may have changed by then, and that is trouble.                     *)
LEMMA RollsBackKeepsIInv ==
  ASSUME IInv, NEW c \in Caller, lock = c, NEW changes, Shaped(changes),
         NEW why \in {"revert", "apply", "save"}, RollsBack(c, changes, why),
         UNCHANGED <<manifest, marks, lock, edits, cutOff>>, FilesTyped',
         exposed' = exposed \/ exposed' = TRUE, troubled' \in BOOLEAN, troubled => troubled',
         ~troubled' => UNCHANGED <<config, hook>>,
         Whole(hook') => Good(hook'.token), hook # None => hook' # None,
         config'.user <= edits, exposed' \/ config'.user = edits,
         \/ why = "revert" /\ caller[c].pc = "load" /\ manifest \notin NoList /\ changes = manifest
         \/ why # "revert" /\ manifest \in NoList /\ caller[c].job \in {"patch", "ensure"},
         changes # <<>> => HookItem(changes[1]),
         Len(changes) = 2 => ConfigItem(changes[2]),
         ~troubled => /\ CleanList(changes) /\ (changes = <<>> => Clean)
                      /\ Len(changes) = 1 => ~config.entry
  PROVE  IInv'
<1>1. UNCHANGED <<manifest, edits, cutOff, token>>
  BY DEF marks
<1>2. /\ CallerTyped' /\ Others(c)
      /\ caller'[c].pc = "own" /\ caller'[c].job = caller[c].job /\ caller'[c].token = caller[c].token
      /\ caller'[c].read = caller[c].read /\ caller'[c].before = caller[c].before
      /\ caller'[c].changes = changes /\ caller'[c].why = why
      /\ caller'[c].skipped = caller[c].skipped /\ caller'[c].failed = caller[c].failed
  <2>1. changes \in Seq(Change)
    BY DEF Shaped
  <2> QED
    BY <2>1, RollsBackShape DEF IInv, Typed
<1>3. Listing(c)' /\ RollingBack(c)' /\ caller'[c].pc \in Inside /\ (Carrying(c)' => Carrying(c))
  BY <1>2 DEF Listing, RollingBack, Carrying, Inside
<1>4. Carrying(c)' => Good(caller[c].token)'
  BY <1>1, <1>2, <1>3 DEF IInv, TokensGood, Good
<1>5. JobFits(c)'
  <2>1. caller[c].job # "none"
    BY DEF IInv, Typed, OneInside, Fits, JobFits, Inside
  <2> QED
    BY <1>2, <1>3, <2>1 DEF IInv, Fits, JobFits
<1>6. ListFits(c)'
  <2>1. Shaped(caller[c].changes)'
    BY <1>2 DEF Shaped
  <2> QED
    BY <1>1, <1>2, <2>1 DEF ListFits
<1>7. EditFits(c)'
  <2>1. Len(caller'[c].changes) = 2 => ConfigItem(caller[c].changes[2])'
    BY <1>1, <1>2 DEF ConfigItem
  <2> QED
    BY <1>1, <1>2, <2>1 DEF IInv, Fits, EditFits
<1>8. ASSUME ~troubled' PROVE DiskKept' /\ DiskFits(c)'
  <2>0. ~troubled /\ UNCHANGED <<config, hook>>
    BY <1>8
  <2>1. CleanList(caller'[c].changes)
    BY <1>2, <2>0
  <2>2. DiskFits(c)'
    BY <1>1, <1>2, <2>0, <2>1 DEF IInv, DiskFits, CleanList, Clean
  <2>3. lock' # None
    BY PatchAssumption
  <2>4. DiskKept'
    BY <1>1, <2>0, <2>3 DEF IInv, DiskKept, CleanList
  <2> QED
    BY <2>2, <2>4
<1>9. EditsKept'
  BY <1>1 DEF IInv, EditsKept, ConfigItem
<1>10. /\ Whole(hook') => Good(hook.token)'
       /\ manifest' \notin NoList => HookItem(manifest[1])'
  BY <1>1 DEF IInv, TokensGood, HookItem, Good
<1>11. Listing(c)' /\ caller'[c].changes # <<>> => HookItem(caller[c].changes[1])'
  BY <1>1, <1>2 DEF HookItem, Good
<1>12. SeesTo(c) => SeesTo(c)'
  BY <1>2 DEF SeesTo, Inside
<1>13. ~troubled' /\ (Clean \/ SeesTo(c)) => Clean' \/ SeesTo(c)' \/ caller[c].job = "ensure"
  BY <1>12 DEF Clean
<1>14. Fits(c)' /\ caller'[c].pc # "look"
  BY <1>2, <1>5, <1>6, <1>7 DEF Fits
<1> QED
  BY <1>1, <1>2, <1>3, <1>4, <1>8, <1>9, <1>10, <1>11, <1>13, <1>14, InsideStep

LEMMA EmptyShaped == Shaped(<<>>) /\ Len(<<>>) = 0
BY EmptySeq DEF Shaped

LEMMA NotEmpty ==
  ASSUME NEW list, Len(list) \in {1, 2}
  PROVE  list # <<>>
<1>1. PICK n \in {1, 2} : n = Len(list)
  OBVIOUS
<1>2. n # 0
  OBVIOUS
<1> QED
  BY <1>1, <1>2, EmptyShaped

LEMMA LoadKeepsIInv ==
  ASSUME IInv, NEW c \in Caller, loadManifest(c)
  PROVE  IInv'
<1>1. /\ caller[c].pc = "load" /\ caller[c].pc \in Inside /\ UNCHANGED <<files, marks, ghosts>>
  BY DEF loadManifest, At, Inside
<1>2. lock = c
  BY <1>1 DEF IInv, Typed, OneInside
<1>3. /\ UNCHANGED <<config, hook, manifest, edits, exposed, troubled, cutOff, token>>
      /\ FilesTyped' /\ troubled' \in BOOLEAN
  BY <1>1 DEF IInv, Typed, FilesTyped, GhostsTyped, ghosts, marks, files
<1>4. ~troubled /\ manifest \in NoList => Clean
  BY <1>1 DEF IInv, DiskFits
<1>5. CASE manifest = None
  <2>1. Reverted(c)
    BY <1>5, PatchAssumption, Zenon DEF loadManifest
  <2>2. ~troubled => Clean
    BY <1>4, <1>5 DEF NoList
  <2> QED
    BY <1>1, <1>2, <1>3, <1>5, <2>1, <2>2, RevertedKeepsIInv
<1>6. CASE manifest = Torn
  <2>1. EndsUnlocked(c)
    BY <1>6, PatchAssumption DEF loadManifest
  <2>2. manifest' \in NoList
    BY <1>3, <1>6 DEF NoList
  <2>3. EditsKept'
    BY <1>3, <2>2 DEF IInv, EditsKept
  <2>4. ~troubled => Clean
    BY <1>4, <1>6 DEF NoList
  <2>5. ~troubled => DiskKept'
    BY <1>3, <2>2, <2>4 DEF DiskKept, Clean
  <2> QED
    BY <1>1, <1>2, <1>3, <2>1, <2>2, <2>3, <2>4, <2>5, EndsInside
<1>7. CASE manifest \notin NoList
  <2>1. RollsBack(c, manifest, "revert") /\ UNCHANGED lock
    BY <1>7 DEF loadManifest, NoList
  <2>2. Shaped(manifest) /\ Len(manifest) = 2
    BY <1>7 DEF IInv, Typed, FilesTyped
  <2>3. manifest # <<>>
    BY <2>2, EmptyShaped
  <2>4. HookItem(manifest[1]) /\ ConfigItem(manifest[2])
    BY <1>7 DEF IInv, TokensGood, EditsKept
  <2>5. ~troubled => CleanList(manifest)
    BY <1>7 DEF IInv, DiskKept
  <2>6. /\ Whole(hook') => Good(hook'.token)
        /\ config'.user <= edits /\ (exposed' \/ config'.user = edits)
    BY <1>3 DEF IInv, TokensGood, EditsKept
  <2> QED
    BY <1>1, <1>2, <1>3, <1>7, <2>1, <2>2, <2>3, <2>4, <2>5, <2>6, RollsBackKeepsIInv
<1> QED
  BY <1>5, <1>6, <1>7 DEF NoList

LEMMA ForgetKeepsIInv ==
  ASSUME IInv, NEW c \in Caller, forget(c)
  PROVE  IInv'
<1>1. /\ caller[c].pc = "forget" /\ caller[c].pc \in Inside /\ UNCHANGED <<config, hook, marks, ghosts>>
  BY DEF forget, At, Inside
<1>2. lock = c
  BY <1>1 DEF IInv, Typed, OneInside
<1>3. UNCHANGED <<config, hook, edits, exposed, troubled, cutOff, token>>
  BY <1>1 DEF ghosts, marks
<1>4. ~troubled => Clean
  BY <1>1 DEF IInv, DiskFits
<1>5. CASE manifest' = None /\ Reverted(c)
  BY <1>1, <1>2, <1>4, <1>5, RevertedKeepsIInv
<1>6. CASE manifest' \in {manifest, None} /\ EndsUnlocked(c)
  <2>1. FilesTyped'
    BY <1>3, <1>6 DEF IInv, Typed, FilesTyped, NoList
  <2>2. manifest' \notin NoList => manifest' = manifest
    BY <1>6 DEF NoList
  <2>3. manifest' \notin NoList => HookItem(manifest[1])'
    BY <1>3, <2>2 DEF IInv, TokensGood, HookItem, Good
  <2>4. EditsKept'
    BY <1>3, <2>2 DEF IInv, EditsKept, ConfigItem
  <2>5. ~troubled => DiskKept'
    BY <1>3, <1>4, <2>2 DEF IInv, DiskKept, CleanList, Clean
  <2> QED
    BY <1>1, <1>2, <1>4, <1>6, <2>1, <2>3, <2>4, <2>5, EndsInside
<1> QED
  BY <1>5, <1>6 DEF forget

LEMMA RolledBackKeepsIInv ==
  ASSUME IInv, NEW c \in Caller, RolledBack(c)
  PROVE  IInv'
<1>1. /\ caller[c].pc = "own" /\ caller[c].pc \in Inside /\ caller[c].changes = <<>>
      /\ RollingBack(c) /\ UNCHANGED <<config, hook, marks, edits, exposed, cutOff>>
  BY DEF RolledBack, At, Inside, RollingBack
<1>2. lock = c
  BY <1>1 DEF IInv, Typed, OneInside
<1>3. /\ UNCHANGED troubled
      /\ manifest' = manifest \/ (caller[c].why = "save" /\ manifest' = None)
  BY DEF RolledBack
<1>4. UNCHANGED <<config, hook, edits, exposed, troubled, cutOff, token>>
  BY <1>1, <1>3 DEF marks
<1>5. ~troubled => Clean
  BY <1>1 DEF IInv, DiskFits
<1>6. FilesTyped'
  BY <1>3, <1>4 DEF IInv, Typed, FilesTyped, NoList
<1>7. manifest' \notin NoList => manifest' = manifest
  BY <1>3 DEF NoList
<1>8. manifest' \notin NoList => HookItem(manifest[1])'
  BY <1>4, <1>7 DEF IInv, TokensGood, HookItem, Good
<1>9. EditsKept'
  BY <1>4, <1>7 DEF IInv, EditsKept, ConfigItem
<1>10. ~troubled => Clean' /\ DiskKept'
  BY <1>4, <1>5, <1>7 DEF IInv, DiskKept, CleanList, Clean
<1>11. CASE EndsUnlocked(c)
  BY <1>1, <1>2, <1>3, <1>5, <1>6, <1>8, <1>9, <1>10, <1>11, EndsInside DEF ghosts
<1>12. CASE caller[c].why = "revert" /\ Goes(c, "forget") /\ UNCHANGED lock
  <2>1. /\ CallerTyped' /\ Others(c)
        /\ caller'[c].pc = "forget" /\ caller'[c].job = caller[c].job /\ caller'[c].token = caller[c].token
        /\ caller'[c].read = caller[c].read /\ caller'[c].before = caller[c].before
        /\ caller'[c].changes = caller[c].changes /\ caller'[c].why = caller[c].why
        /\ caller'[c].skipped = caller[c].skipped /\ caller'[c].failed = caller[c].failed
    <3>1. "forget" \in Inside \cup Outside
      BY DEF Inside
    <3> QED
      BY <1>12, <3>1, GoesShape DEF IInv, Typed
  <2>2. /\ ~Listing(c)' /\ ~RollingBack(c)' /\ caller'[c].pc \in Inside /\ caller'[c].pc # "look"
        /\ Carrying(c)' => Carrying(c)
    BY <1>1, <1>12, <2>1 DEF Listing, RollingBack, Carrying, Inside
  <2>3. manifest \notin NoList /\ manifest' = manifest
    BY <1>1, <1>3, <1>12 DEF IInv, Fits, ListFits
  <2>4. Fits(c)'
    <3>1. JobFits(c)'
      <4>1. caller[c].job # "none"
        BY <1>1 DEF IInv, Fits, JobFits
      <4> QED
        BY <2>1, <2>2, <4>1 DEF IInv, Fits, JobFits
    <3>2. ListFits(c)'
      BY <2>1, <2>2, <2>3 DEF ListFits
    <3>3. EditFits(c)'
      BY <1>4, <2>1, <2>2 DEF IInv, Fits, EditFits
    <3> QED
      BY <3>1, <3>2, <3>3 DEF Fits
  <2>5. ~troubled => DiskFits(c)'
    BY <1>10, <2>1, <2>2 DEF IInv, DiskFits
  <2>6. Carrying(c)' => Good(caller[c].token)'
    BY <1>4, <2>1, <2>2 DEF IInv, TokensGood, Good
  <2>7. Whole(hook') => Good(hook.token)'
    BY <1>4 DEF IInv, TokensGood, Good
  <2>8. troubled' \in BOOLEAN
    BY <1>3 DEF IInv, Typed, GhostsTyped
  <2> QED
    BY <1>1, <1>2, <1>3, <1>4, <1>6, <1>8, <1>9, <1>10, <1>12, <2>1, <2>2, <2>4, <2>5, <2>6, <2>7, <2>8,
       InsideStep
<1> QED
  BY <1>11, <1>12 DEF RolledBack

(* What a patch writes is relied on already.                               *)
LEMMA NewHookGood ==
  ASSUME IInv, NEW c \in Caller, caller[c].pc = "write"
  PROVE  NewHook(c) \in HookFile /\ NewHook(c).token = caller[c].token /\ Good(NewHook(c).token)
<1>1. Carrying(c) /\ caller[c].token # 0 /\ Good(caller[c].token)
  BY DEF IInv, Fits, JobFits, Carrying, TokensGood
<1>2. caller[c].token \in 1 .. MaxTokens
  BY <1>1 DEF IInv, Typed, CallerTyped, Request
<1>3. address \in 1 .. MaxRestarts + 1
  BY PatchAssumption DEF IInv, Typed, MarksTyped
<1> QED
  BY <1>1, <1>2, <1>3 DEF NewHook, HookFile

LEMMA NewConfigKeeps ==
  ASSUME IInv, NEW c \in Caller, caller[c].pc = "put"
  PROVE  /\ NewConfig(c) \in Config /\ NewConfig(c).user = caller[c].read.user
         /\ NewConfig(c).user <= edits /\ (exposed \/ caller[c].read.user = edits)
         /\ caller[c].before \in Config
<1>1. caller[c].read \in Config /\ caller[c].before \in Config
  BY DEF IInv, Typed, CallerTyped, Request
<1>2. caller[c].read.user <= edits /\ (exposed \/ caller[c].read.user = edits)
  BY DEF IInv, Fits, EditFits
<1> QED
  BY <1>1, <1>2 DEF NewConfig, Config

LEMMA FailsKeepIInv ==
  ASSUME IInv, NEW c \in Caller, ApplyFails(c) \/ SaveFails(c)
  PROVE  IInv'
<1> DEFINE list == caller[c].changes
           writing == {"write", "read", "backup", "put", "save", "saved"}
<1>1. /\ caller[c].pc \in writing /\ caller[c].pc \in Inside
      /\ UNCHANGED <<manifest, marks, lock, edits, cutOff>>
      /\ \E why \in {"apply", "save"} : RollsBack(c, list, why)
  BY DEF ApplyFails, SaveFails, Inside, At, files, ghosts
<1>2. lock = c
  BY <1>1 DEF IInv, Typed, OneInside
<1>3. manifest \in NoList /\ caller[c].job \in {"patch", "ensure"}
  BY <1>1 DEF IInv, Fits, ListFits, JobFits
<1>4. PICK why \in {"apply", "save"} : RollsBack(c, list, why)
  BY <1>1
<1>5. UNCHANGED <<edits, token, cutOff>>
  BY <1>1 DEF marks
\* What it has listed can be taken back.
<1>6. /\ Shaped(list) /\ (list # <<>> => HookItem(list[1])) /\ (Len(list) = 2 => ConfigItem(list[2]))
      /\ ~troubled => CleanList(list) /\ (list = <<>> => Clean) /\ (Len(list) = 1 => ~config.entry)
  <2>1. CASE caller[c].pc = "write"
    <3>1. list = <<>> /\ Shaped(list) /\ Len(list) = 0
      BY <2>1, EmptyShaped DEF IInv, Fits, ListFits
    <3>2. ~troubled => Clean
      BY <2>1 DEF IInv, DiskFits
    <3> QED
      BY <3>1, <3>2 DEF CleanList
  <2>2. CASE caller[c].pc # "write"
    <3>1. Listing(c)
      BY <1>1, <2>2 DEF Listing
    <3>2. Shaped(list) /\ Len(list) \in {1, 2} /\ (caller[c].pc \in {"read", "backup", "put"} <=> Len(list) = 1)
      BY <1>1, <2>2, <3>1 DEF IInv, Fits, ListFits
    <3>3. list # <<>>
      BY <3>2, NotEmpty
    <3>4. HookItem(list[1])
      BY <3>1, <3>3 DEF IInv, TokensGood
    <3>5. Len(list) = 2 => ConfigItem(list[2])
      BY <3>1 DEF IInv, Fits, EditFits
    <3>6. ~troubled => CleanList(list) /\ (Len(list) = 1 => ~config.entry)
      BY <3>1, <3>2 DEF IInv, DiskFits
    <3> QED
      BY <3>2, <3>3, <3>4, <3>5, <3>6
  <2> QED
    BY <2>1, <2>2
\* The file at which it failed is as it was, cut, or written.
<1>7. CASE UNCHANGED <<hook, config, exposed, troubled>>
  <2>1. FilesTyped' /\ troubled' \in BOOLEAN
    BY <1>1, <1>7 DEF IInv, Typed, FilesTyped, GhostsTyped
  <2>2. /\ Whole(hook') => Good(hook'.token)
        /\ config'.user <= edits /\ (exposed' \/ config'.user = edits)
    BY <1>7 DEF IInv, TokensGood, EditsKept
  <2> HIDE DEF list
  <2> QED
    BY <1>1, <1>2, <1>3, <1>4, <1>6, <1>7, <2>1, <2>2, RollsBackKeepsIInv
<1>8. CASE /\ caller[c].pc = "write" /\ hook' \in {Torn, NewHook(c)} /\ Trouble(TRUE)
           /\ UNCHANGED <<config, exposed>>
  <2>1. troubled' = TRUE
    BY <1>8 DEF Trouble
  <2>2. NewHook(c) \in HookFile /\ NewHook(c).token = caller[c].token
    BY <1>8, NewHookGood
  <2>3. Torn \in Hook /\ ~Whole(Torn) /\ Torn # None /\ NewHook(c) # None
    BY <2>2, PatchAssumption DEF Hook, Whole
  <2>4. FilesTyped'
    BY <1>1, <1>8, <2>2, <2>3 DEF IInv, Typed, FilesTyped, Hook
  <2>5. Whole(hook') => Good(hook'.token)
    BY <1>8, <2>2, <2>3, NewHookGood
  <2>6. config'.user <= edits /\ (exposed' \/ config'.user = edits)
    BY <1>8 DEF IInv, EditsKept
  <2>7. hook' # None
    BY <1>8, <2>3
  <2> HIDE DEF list
  <2> QED
    BY <1>1, <1>2, <1>3, <1>4, <1>6, <1>8, <2>1, <2>4, <2>5, <2>6, <2>7, RollsBackKeepsIInv
<1>9. CASE /\ caller[c].pc = "put" /\ config' \in {NoConfig, NewConfig(c)} /\ Trouble(TRUE)
           /\ UNCHANGED hook /\ exposed' = (exposed \/ config'.user # caller[c].read.user)
  <2>1. troubled' = TRUE
    BY <1>9 DEF Trouble
  <2>2. /\ NewConfig(c) \in Config /\ NewConfig(c).user = caller[c].read.user
        /\ NewConfig(c).user <= edits /\ (exposed \/ caller[c].read.user = edits)
    BY <1>9, NewConfigKeeps
  <2>3. NoConfig \in Config /\ NoConfig.user = 0 /\ 0 <= edits
    BY IdleTyped DEF NoConfig, IInv, Typed, GhostsTyped
  <2>4. FilesTyped'
    BY <1>1, <1>9, <2>2, <2>3 DEF IInv, Typed, FilesTyped
  <2>5. config'.user <= edits
    BY <1>9, <2>2, <2>3
  <2>6. exposed \in BOOLEAN /\ (config'.user # caller[c].read.user) \in BOOLEAN
    BY DEF IInv, Typed, GhostsTyped
  <2>7. exposed' = exposed \/ exposed' = TRUE
    BY <1>9, <2>6
  <2>8. exposed' \/ config'.user = edits
    BY <1>9, <2>2
  <2>9. Whole(hook') => Good(hook'.token)
    BY <1>9 DEF IInv, TokensGood
  <2> HIDE DEF list
  <2> QED
    BY <1>1, <1>2, <1>3, <1>4, <1>6, <1>9, <2>1, <2>4, <2>5, <2>7, <2>8, <2>9, RollsBackKeepsIInv
<1> QED
  BY <1>7, <1>8, <1>9 DEF ApplyFails, SaveFails, At, files, ghosts

(* A request that stays behind the lock, and changes no file.              *)
LEMMA StaysInside ==
  ASSUME IInv, NEW c \in Caller, lock = c, Others(c), CallerTyped',
         UNCHANGED <<files, marks, lock, edits, exposed, cutOff>>, troubled' \in BOOLEAN,
         troubled => troubled', caller'[c].pc \in Inside, caller'[c].job = caller[c].job,
         Fits(c)', Carrying(c)' => Carrying(c) /\ caller'[c].token = caller[c].token,
         Listing(c)' /\ caller'[c].changes # <<>> => HookItem(caller'[c].changes[1]),
         ~troubled' => DiskFits(c)', SeesTo(c) => SeesTo(c)'
  PROVE  IInv'
<1>1. /\ UNCHANGED <<config, hook, manifest, edits, exposed, cutOff, token>>
      /\ FilesTyped'
  BY DEF IInv, Typed, FilesTyped, marks, files
<1>2. Carrying(c)' => Good(caller[c].token)'
  BY <1>1 DEF IInv, TokensGood, Good
<1>3. /\ Whole(hook') => Good(hook.token)'
      /\ manifest' \notin NoList => HookItem(manifest[1])'
  BY <1>1 DEF IInv, TokensGood, HookItem, Good
<1>4. Listing(c)' /\ caller'[c].changes # <<>> => HookItem(caller[c].changes[1])'
  BY <1>1 DEF HookItem, Good
<1>5. EditsKept'
  BY <1>1 DEF IInv, EditsKept, ConfigItem
<1>6. ~troubled' => DiskKept' /\ DiskFits(c)'
  BY <1>1, PatchAssumption DEF IInv, DiskKept, CleanList
<1>7. ~troubled' /\ (Clean \/ SeesTo(c)) => Clean' \/ SeesTo(c)' \/ caller[c].job = "ensure"
  BY <1>1 DEF Clean
<1>8. caller'[c].pc # "look"
  BY DEF Inside
<1> QED
  BY <1>1, <1>2, <1>3, <1>4, <1>5, <1>6, <1>7, <1>8, InsideStep

LEMMA LookAtChangeKeepsIInv ==
  ASSUME IInv, NEW c \in Caller, LookAtChange(c)
  PROVE  IInv'
<1> DEFINE list == caller[c].changes
<1>1. /\ caller[c].pc = "own" /\ list # <<>> /\ caller[c].pc \in Inside /\ Listing(c) /\ RollingBack(c)
      /\ UNCHANGED <<files, marks, lock, edits, exposed, cutOff>>
  BY DEF LookAtChange, At, Inside, Listing, RollingBack
<1>2. lock = c
  BY <1>1 DEF IInv, Typed, OneInside
<1>3. UNCHANGED <<config, hook, manifest, edits, exposed, cutOff, token>>
  BY <1>1 DEF marks, files
<1>4. Shaped(list) /\ HookItem(list[1]) /\ caller[c].job # "none"
  BY <1>1 DEF IInv, Fits, ListFits, JobFits, TokensGood
<1>5. CASE patchStillOwns(Last(list)) /\ Goes(c, "restore") /\ UNCHANGED troubled
  <2>1. /\ CallerTyped' /\ Others(c)
        /\ caller'[c].pc = "restore" /\ caller'[c].job = caller[c].job /\ caller'[c].token = caller[c].token
        /\ caller'[c].read = caller[c].read /\ caller'[c].before = caller[c].before
        /\ caller'[c].changes = list /\ caller'[c].why = caller[c].why
        /\ caller'[c].skipped = caller[c].skipped /\ caller'[c].failed = caller[c].failed
    <3>1. "restore" \in Inside \cup Outside
      BY DEF Inside
    <3> QED
      BY <1>5, <3>1, GoesShape DEF IInv, Typed
  <2>2. /\ Listing(c)' /\ RollingBack(c)' /\ caller'[c].pc \in Inside /\ (Carrying(c)' => Carrying(c))
        /\ SeesTo(c) => SeesTo(c)'
    BY <1>1, <2>1 DEF Listing, RollingBack, Carrying, Inside, SeesTo
  <2>3. JobFits(c)'
    BY <1>4, <2>1, <2>2 DEF IInv, Fits, JobFits
  <2>4. ListFits(c)'
    <3>1. Shaped(caller[c].changes)'
      BY <1>4, <2>1 DEF Shaped
    <3> QED
      BY <1>1, <1>3, <2>1, <3>1 DEF IInv, Fits, ListFits, RollingBack
  <2>5. EditFits(c)'
    <3>1. Len(list) = 2 => ConfigItem(list[2])
      BY <1>1 DEF IInv, Fits, EditFits
    <3>2. Len(list) = 2 => config \in {list[2].before, list[2].after}
      <4>1. Len(list) = 2 => Last(list) = list[2] /\ Last(list).file = "config" /\ Last(list) \in ConfigChange
        BY <1>1, <1>4, ShorterList
      <4> HIDE DEF list
      <4> QED
        BY <1>5, <4>1 DEF patchStillOwns, Current, NoConfig
    <3> QED
      BY <1>3, <2>1, <3>1, <3>2 DEF IInv, Fits, EditFits, ConfigItem
  <2>6. ~troubled => DiskFits(c)'
    BY <1>1, <1>3, <2>1, <2>2 DEF IInv, DiskFits, CleanList, Clean
  <2>7. Listing(c)' /\ caller'[c].changes # <<>> => HookItem(caller'[c].changes[1])
    BY <1>4, <2>1
  <2>8. troubled' \in BOOLEAN
    BY <1>5 DEF IInv, Typed, GhostsTyped
  <2>9. Fits(c)'
    BY <2>3, <2>4, <2>5 DEF Fits
  <2> QED
    BY <1>1, <1>2, <1>5, <2>1, <2>2, <2>6, <2>7, <2>8, <2>9, StaysInside
<1>6. CASE /\ caller' = [caller EXCEPT ![c].changes = Front(@), ![c].skipped = TRUE]
           /\ Trouble(TRUE)
  <2>1. troubled' = TRUE
    BY <1>6 DEF Trouble
  <2>2. /\ Shaped(Front(list)) /\ Len(Front(list)) # 2
        /\ Front(list) # <<>> => Front(list)[1] = list[1]
    BY <1>1, <1>4, ShorterList
  <2>3. /\ CallerTyped' /\ Others(c)
        /\ caller'[c].pc = "own" /\ caller'[c].job = caller[c].job /\ caller'[c].token = caller[c].token
        /\ caller'[c].read = caller[c].read /\ caller'[c].before = caller[c].before
        /\ caller'[c].changes = Front(list) /\ caller'[c].why = caller[c].why
    <3>1. caller[c] \in Request
      BY DEF IInv, Typed, CallerTyped
    <3>2. PICK shorter : shorter = Front(list) /\ shorter \in Seq(Change)
      BY <2>2 DEF Shaped
    <3>3. [caller[c] EXCEPT !.changes = shorter, !.skipped = TRUE] \in Request
      BY <3>1, <3>2 DEF Request
    <3>4. caller' = [caller EXCEPT ![c] = [caller[c] EXCEPT !.changes = shorter, !.skipped = TRUE]]
      BY <1>6, <3>2
    <3> QED
      BY <1>1, <3>1, <3>2, <3>3, <3>4 DEF IInv, Typed, CallerTyped, Others, Request
  <2>4. /\ Listing(c)' /\ RollingBack(c)' /\ caller'[c].pc \in Inside /\ (Carrying(c)' => Carrying(c))
        /\ SeesTo(c) => SeesTo(c)'
    BY <1>1, <2>3 DEF Listing, RollingBack, Carrying, Inside, SeesTo
  <2>5. JobFits(c)'
    BY <1>4, <2>3, <2>4 DEF IInv, Fits, JobFits
  <2>6. ListFits(c)'
    <3>1. Shaped(caller[c].changes)'
      BY <2>2, <2>3 DEF Shaped
    <3> QED
      BY <1>1, <1>3, <2>2, <2>3, <3>1 DEF IInv, Fits, ListFits, RollingBack
  <2>7. EditFits(c)'
    BY <1>3, <2>2, <2>3 DEF IInv, Fits, EditFits
  <2>8. Listing(c)' /\ caller'[c].changes # <<>> => HookItem(caller'[c].changes[1])
    BY <1>4, <2>2, <2>3
  <2>9. Fits(c)'
    BY <2>5, <2>6, <2>7 DEF Fits
  <2> QED
    BY <1>1, <1>2, <2>1, <2>3, <2>4, <2>8, <2>9, StaysInside
<1> QED
  BY <1>5, <1>6 DEF LookAtChange

(* What is put back, is put back under what is listed still.               *)
LEMMA RestoredShape ==
  ASSUME IInv, NEW c \in Caller, NEW failed \in BOOLEAN, caller[c].changes # <<>>,
         Shaped(caller[c].changes),
         caller' = [caller EXCEPT ![c].pc = "own", ![c].changes = Front(@), ![c].failed = @ \/ failed]
  PROVE  /\ CallerTyped' /\ Others(c)
         /\ caller'[c].pc = "own" /\ caller'[c].job = caller[c].job /\ caller'[c].token = caller[c].token
         /\ caller'[c].read = caller[c].read /\ caller'[c].before = caller[c].before
         /\ caller'[c].changes = Front(caller[c].changes) /\ caller'[c].why = caller[c].why
         /\ caller'[c].skipped = caller[c].skipped /\ (~failed => caller'[c].failed = caller[c].failed)
<1>1. caller[c] \in Request /\ "own" \in Inside \cup Outside
  BY DEF IInv, Typed, CallerTyped, Inside
<1>2. PICK shorter : shorter = Front(caller[c].changes) /\ shorter \in Seq(Change)
  BY ShorterList DEF Shaped
<1>3. PICK b \in BOOLEAN : b = (caller[c].failed \/ failed)
  BY Zenon
<1>4. ~failed => b = caller[c].failed
  <2>1. caller[c].failed \in BOOLEAN
    BY <1>1 DEF Request
  <2> QED
    BY <1>3, <2>1
<1> DEFINE r == [caller[c] EXCEPT !.pc = "own", !.changes = shorter, !.failed = b]
<1>5. r \in Request
  BY <1>1, <1>2, <1>3 DEF Request
<1>6. /\ r.pc = "own" /\ r.job = caller[c].job /\ r.token = caller[c].token
      /\ r.read = caller[c].read /\ r.before = caller[c].before
      /\ r.changes = shorter /\ r.why = caller[c].why /\ r.skipped = caller[c].skipped
  BY <1>1 DEF Request
<1>7. ~failed => r.failed = caller[c].failed
  BY <1>1, <1>4 DEF Request
<1>8. caller' = [caller EXCEPT ![c] = r]
  BY <1>2, <1>3
<1> HIDE DEF r
<1>9. CallerTyped' /\ Others(c) /\ caller'[c] = r
  BY <1>5, <1>8 DEF IInv, Typed, CallerTyped, Others
<1> QED
  BY <1>2, <1>6, <1>7, <1>9

LEMMA RestoreChangeKeepsIInv ==
  ASSUME IInv, NEW c \in Caller, RestoreChange(c)
  PROVE  IInv'
<1> DEFINE list == caller[c].changes
           item == Last(list)
<1>1. /\ caller[c].pc = "restore" /\ caller[c].pc \in Inside /\ Listing(c) /\ RollingBack(c)
      /\ UNCHANGED <<manifest, marks, lock, edits, cutOff>>
  BY DEF RestoreChange, At, Inside, Listing, RollingBack
<1>2. lock = c
  BY <1>1 DEF IInv, Typed, OneInside
<1>3. UNCHANGED <<manifest, edits, cutOff, token>>
  BY <1>1 DEF marks
<1>4. /\ Shaped(list) /\ list # <<>> /\ caller[c].job # "none"
      /\ HookItem(list[1])
  BY <1>1 DEF IInv, Fits, ListFits, JobFits, TokensGood
<1>5. /\ Shaped(Front(list)) /\ Len(Front(list)) = Len(list) - 1
      /\ Front(list) # <<>> => Front(list)[1] = list[1] /\ Len(list) = 2
      /\ Len(list) \in {1, 2} /\ Len(Front(list)) # 2
      /\ item = list[Len(list)]
      /\ Len(list) = 1 => item.file = "hook" /\ item \in HookChange /\ Front(list) = <<>>
      /\ Len(list) = 2 => item.file = "config" /\ item \in ConfigChange
  BY <1>4, ShorterList
\* Whatever is put back, and however it goes:
<1>6. ASSUME NEW failed \in BOOLEAN,
             caller' = [caller EXCEPT ![c].pc = "own", ![c].changes = Front(@), ![c].failed = @ \/ failed]
      PROVE  /\ CallerTyped' /\ Others(c)
             /\ caller'[c].pc = "own" /\ caller'[c].job = caller[c].job /\ caller'[c].token = caller[c].token
             /\ caller'[c].changes = Front(list)
             /\ caller'[c].skipped = caller[c].skipped /\ (~failed => caller'[c].failed = caller[c].failed)
             /\ Listing(c)' /\ RollingBack(c)' /\ caller'[c].pc \in Inside /\ (Carrying(c)' => Carrying(c))
             /\ SeesTo(c) => SeesTo(c)'
             /\ Fits(c)'
  <2>1. /\ CallerTyped' /\ Others(c)
        /\ caller'[c].pc = "own" /\ caller'[c].job = caller[c].job /\ caller'[c].token = caller[c].token
        /\ caller'[c].read = caller[c].read /\ caller'[c].before = caller[c].before
        /\ caller'[c].changes = Front(list) /\ caller'[c].why = caller[c].why
        /\ caller'[c].skipped = caller[c].skipped /\ (~failed => caller'[c].failed = caller[c].failed)
    BY <1>4, <1>6, RestoredShape
  <2>2. /\ Listing(c)' /\ RollingBack(c)' /\ caller'[c].pc \in Inside /\ (Carrying(c)' => Carrying(c))
        /\ SeesTo(c) => SeesTo(c)'
    BY <1>1, <2>1 DEF Listing, RollingBack, Carrying, Inside, SeesTo
  <2>3. JobFits(c)'
    BY <1>4, <2>1, <2>2 DEF IInv, Fits, JobFits
  <2>4. ListFits(c)'
    <3>1. Shaped(caller[c].changes)'
      BY <1>5, <2>1 DEF Shaped
    <3> QED
      BY <1>1, <1>3, <1>5, <2>1, <3>1 DEF IInv, Fits, ListFits, RollingBack
  <2>5. EditFits(c)'
    BY <1>3, <1>5, <2>1 DEF IInv, Fits, EditFits
  <2> QED
    BY <2>1, <2>2, <2>3, <2>4, <2>5 DEF Fits
\* The hook that cannot be put back: as it was, as it is to be, or cut.
<1>7. CASE /\ item.file = "hook" /\ hook' \in IF Backup(item) THEN {hook, item.before, Torn} ELSE {hook}
           /\ UNCHANGED <<config, exposed>>
           /\ caller' = [caller EXCEPT ![c].pc = "own", ![c].changes = Front(@), ![c].failed = @ \/ TRUE]
           /\ Trouble(TRUE)
  <2>1. troubled' = TRUE /\ TRUE \in BOOLEAN
    BY <1>7 DEF Trouble
  <2>2. Len(list) = 1 /\ item = list[1] /\ item \in HookChange /\ Front(list) = <<>>
    BY <1>5, <1>7
  <2>3. hook' \in {hook, list[1].before, Torn} /\ (hook' = hook \/ hook' # None)
    BY <1>7, <2>2, PatchAssumption DEF Backup
  <2> HIDE DEF item
  <2>4. hook' \in Hook
    BY <2>2, <2>3 DEF HookChange, Hook, IInv, Typed, FilesTyped
  <2>5. FilesTyped'
    BY <1>3, <1>7, <2>4 DEF IInv, Typed, FilesTyped
  <2>6. Whole(hook') => Good(hook.token)'
    <3>1. CASE hook' = hook
      BY <1>3, <3>1 DEF IInv, TokensGood, Good
    <3>2. CASE hook' = list[1].before
      BY <1>3, <1>4, <3>2 DEF HookItem, Good
    <3>3. CASE hook' = Torn
      BY <3>3 DEF Whole
    <3> QED
      BY <2>3, <3>1, <3>2, <3>3
  <2>7. manifest' \notin NoList => HookItem(manifest[1])'
    <3>1. hook # None => hook' # None
      BY <2>3
    <3> QED
      BY <1>3, <3>1 DEF IInv, TokensGood, HookItem, Good
  <2>8. EditsKept'
    BY <1>3, <1>7 DEF IInv, EditsKept, ConfigItem
  <2>9. Carrying(c)' => Good(caller[c].token)'
    BY <1>3, <1>6, <1>7, <2>1 DEF IInv, TokensGood, Good
  <2>10. caller'[c].changes = <<>> /\ caller'[c].pc # "look"
    BY <1>6, <1>7, <2>1, <2>2
  <2> QED
    BY <1>1, <1>2, <1>3, <1>6, <1>7, <2>1, <2>5, <2>6, <2>7, <2>8, <2>9, <2>10, InsideStep
\* The shared file that cannot be.
<1>10. CASE /\ item.file # "hook"
            /\ config' \in IF Backup(item) THEN {config, item.before, NoConfig} ELSE {config}
            /\ UNCHANGED hook
            /\ exposed' = (exposed \/ config'.user \notin {config.user, item.before.user})
            /\ caller' = [caller EXCEPT ![c].pc = "own", ![c].changes = Front(@), ![c].failed = @ \/ TRUE]
            /\ Trouble(TRUE)
  <2>1. troubled' = TRUE /\ TRUE \in BOOLEAN
    BY <1>10 DEF Trouble
  <2>2. Len(list) = 2 /\ item = list[2] /\ item \in ConfigChange
    BY <1>5, <1>10
  <2>3. config' \in {config, list[2].before, NoConfig}
    BY <1>10, <2>2
  <2>4. exposed' = (exposed \/ config'.user \notin {config.user, list[2].before.user})
    BY <1>10, <2>2
  <2> HIDE DEF item
  <2>5. config' \in Config /\ config'.user <= edits
    <3>1. NoConfig \in Config /\ NoConfig.user = 0 /\ 0 <= edits
      BY IdleTyped DEF NoConfig, IInv, Typed, GhostsTyped
    <3>2. config \in Config /\ config.user <= edits
      BY DEF IInv, Typed, FilesTyped, EditsKept
    <3>3. list[2].before \in Config /\ list[2].before.user <= edits
      BY <1>1, <2>2 DEF IInv, Fits, EditFits, ConfigItem, ConfigChange
    <3> QED
      BY <2>3, <3>1, <3>2, <3>3
  <2>6. FilesTyped'
    BY <1>3, <1>10, <2>5 DEF IInv, Typed, FilesTyped
  <2>7. exposed' = exposed \/ exposed' = TRUE
    <3>1. exposed \in BOOLEAN /\ (config'.user \notin {config.user, list[2].before.user}) \in BOOLEAN
      BY DEF IInv, Typed, GhostsTyped
    <3> QED
      BY <2>4, <3>1
  <2>8. exposed' \/ config'.user = edits
    <3>1. ConfigItem(list[2]) /\ (exposed \/ config \in {list[2].before, list[2].after})
      BY <1>1, <2>2 DEF IInv, Fits, EditFits
    <3>2. exposed \/ config.user = edits
      BY DEF IInv, EditsKept
    <3>3. ASSUME ~exposed' PROVE config'.user = edits
      <4>1. ~exposed /\ config'.user \in {config.user, list[2].before.user}
        BY <2>4, <3>3
      <4>2. config.user = edits /\ list[2].before.user = edits
        BY <3>1, <3>2, <4>1 DEF ConfigItem
      <4> QED
        BY <4>1, <4>2
    <3> QED
      BY <3>3
  <2>9. EditsKept'
    BY <1>3, <2>4, <2>5, <2>8 DEF IInv, EditsKept, ConfigItem
  <2>10. Whole(hook') => Good(hook.token)'
    BY <1>3, <1>10 DEF IInv, TokensGood, Good
  <2>11. manifest' \notin NoList => HookItem(manifest[1])'
    BY <1>3, <1>10 DEF IInv, TokensGood, HookItem, Good
  <2>12. Listing(c)' /\ caller'[c].changes # <<>> => HookItem(caller[c].changes[1])'
    BY <1>3, <1>4, <1>5, <1>6, <1>10, <2>1 DEF HookItem, Good
  <2>13. Carrying(c)' => Good(caller[c].token)'
    BY <1>3, <1>6, <1>10, <2>1 DEF IInv, TokensGood, Good
  <2>14. caller'[c].pc # "look"
    BY <1>6, <1>10, <2>1
  <2> QED
    BY <1>1, <1>2, <1>3, <1>6, <1>10, <2>1, <2>6, <2>7, <2>9, <2>10, <2>11, <2>12, <2>13, <2>14, InsideStep
\* The hook, the last that is left.
<1>8. CASE /\ item.file = "hook" /\ hook' = item.before /\ UNCHANGED <<config, exposed, troubled>>
           /\ caller' = [caller EXCEPT ![c].pc = "own", ![c].changes = Front(@), ![c].failed = @ \/ FALSE]
  <2>1. Len(list) = 1 /\ item = list[1] /\ item \in HookChange /\ Front(list) = <<>>
    BY <1>5, <1>8
  <2>2. hook' \in Hook /\ hook' = list[1].before
    BY <1>8, <2>1 DEF HookChange
  <2>3. FilesTyped' /\ troubled' \in BOOLEAN
    BY <1>3, <1>8, <2>2 DEF IInv, Typed, FilesTyped, GhostsTyped
  <2>4. FALSE \in BOOLEAN
    OBVIOUS
  <2> HIDE DEF item
  <2>5. Whole(hook') => Good(hook.token)'
    BY <1>3, <1>4, <2>2 DEF HookItem, Good
  <2>6. manifest' \notin NoList => HookItem(manifest[1])'
    <3>1. manifest \notin NoList => manifest[1] = list[1]
      BY <1>1, <1>4 DEF IInv, Fits, ListFits
    <3>2. PICK first : first = list[1]
      OBVIOUS
    <3>3. Whole(first.before) => hook' # None /\ Good(first.before.token)'
      BY <1>3, <1>4, <2>2, <3>2 DEF HookItem, Good, Whole
    <3>4. HookItem(first)'
      BY <3>3 DEF HookItem
    <3> QED
      BY <1>3, <3>1, <3>2, <3>4
  <2>7. ~troubled => DiskFits(c)' /\ DiskKept'
    <3>1. ~troubled => list[1].before = None /\ ~config.entry
      BY <1>1, <1>4, <2>1 DEF IInv, DiskFits, CleanList
    <3>2. ~troubled => Clean'
      BY <1>8, <2>2, <3>1 DEF Clean
    <3>3. CleanList(caller[c].changes)'
      <4>1. CleanList(<<>>)
        BY EmptyShaped DEF CleanList
      <4>2. caller'[c].changes = <<>>
        BY <1>6, <1>8, <2>1, <2>4
      <4> QED
        BY <4>1, <4>2
    <3>4. ~troubled => DiskFits(c)'
      BY <1>1, <1>6, <1>8, <2>1, <2>4, <3>2, <3>3, EmptyShaped DEF IInv, DiskFits
    <3>5. ~troubled => DiskKept'
      BY <1>1, <1>2, <1>3, PatchAssumption DEF IInv, DiskKept, CleanList
    <3> QED
      BY <3>4, <3>5
  <2>8. EditsKept'
    BY <1>3, <1>8 DEF IInv, EditsKept, ConfigItem
  <2>9. Carrying(c)' => Good(caller[c].token)'
    BY <1>3, <1>6, <1>8, <2>4 DEF IInv, TokensGood, Good
  <2>10. caller'[c].changes = <<>>
    BY <1>6, <1>8, <2>1, <2>4
  <2>11. ~troubled' /\ (Clean \/ SeesTo(c)) => Clean' \/ SeesTo(c)' \/ caller[c].job = "ensure"
    <3>1. ~troubled => list[1].before = None /\ ~config.entry
      BY <1>1, <1>4, <2>1 DEF IInv, DiskFits, CleanList
    <3> QED
      BY <1>8, <2>2, <3>1 DEF Clean
  <2>12. caller'[c].pc # "look"
    BY <1>6, <1>8, <2>4
  <2> QED
    BY <1>1, <1>2, <1>3, <1>6, <1>8, <2>3, <2>4, <2>5, <2>6, <2>7, <2>8, <2>9, <2>10, <2>11, <2>12, InsideStep
\* The shared file.
<1>9. CASE /\ item.file # "hook" /\ config' = item.before /\ UNCHANGED <<hook, exposed, troubled>>
           /\ caller' = [caller EXCEPT ![c].pc = "own", ![c].changes = Front(@), ![c].failed = @ \/ FALSE]
  <2>1. Len(list) = 2 /\ item = list[2] /\ item \in ConfigChange /\ Len(Front(list)) = 1
    BY <1>5, <1>9
  <2>2. config' \in Config /\ config' = list[2].before
    BY <1>9, <2>1 DEF ConfigChange
  <2>3. FilesTyped' /\ troubled' \in BOOLEAN
    BY <1>3, <1>9, <2>2 DEF IInv, Typed, FilesTyped, GhostsTyped
  <2>4. FALSE \in BOOLEAN
    OBVIOUS
  <2> HIDE DEF item
  <2>5. Whole(hook') => Good(hook.token)'
    BY <1>3, <1>9 DEF IInv, TokensGood, Good
  <2>6. manifest' \notin NoList => HookItem(manifest[1])'
    BY <1>3, <1>9 DEF IInv, TokensGood, HookItem, Good
  <2>7. Listing(c)' /\ caller'[c].changes # <<>> => HookItem(caller[c].changes[1])'
    BY <1>3, <1>4, <1>5, <1>6, <1>9, <2>4 DEF HookItem, Good
  <2>8. ~troubled => DiskFits(c)' /\ DiskKept'
    <3>1. ~troubled => /\ ~list[2].before.entry /\ list[1].before = None
                       /\ ~caller[c].skipped /\ ~caller[c].failed
      BY <1>1, <1>4, <2>1 DEF IInv, DiskFits, CleanList
    <3>2. Front(list) # <<>> /\ Front(list)[1] = list[1]
      BY <1>5, <2>1, EmptyShaped
    <3>3. ~troubled => CleanList(Front(list))
      BY <2>1, <3>1, <3>2 DEF CleanList
    <3>4. caller'[c].changes = Front(list) /\ caller'[c].pc = "own"
          /\ caller'[c].skipped = caller[c].skipped /\ caller'[c].failed = caller[c].failed
      BY <1>6, <1>9, <2>4
    <3>5. ~troubled => DiskFits(c)'
      BY <2>2, <3>1, <3>2, <3>3, <3>4 DEF DiskFits, CleanList
    <3>6. ~troubled => DiskKept'
      BY <1>1, <1>2, <1>3, PatchAssumption DEF IInv, DiskKept, CleanList
    <3> QED
      BY <3>5, <3>6
  <2>9. EditsKept'
    <3>1. ConfigItem(list[2]) /\ (exposed \/ config \in {list[2].before, list[2].after})
      BY <1>1, <2>1 DEF IInv, Fits, EditFits
    <3>2. config.user <= edits /\ (exposed \/ config.user = edits)
      BY DEF IInv, EditsKept
    <3>3. config'.user <= edits /\ (exposed \/ config'.user = edits)
      BY <2>2, <3>1, <3>2 DEF ConfigItem
    <3> QED
      BY <1>3, <1>9, <3>3 DEF IInv, EditsKept, ConfigItem
  <2>10. Carrying(c)' => Good(caller[c].token)'
    BY <1>3, <1>6, <1>9, <2>4 DEF IInv, TokensGood, Good
  <2>11. ~troubled' /\ (Clean \/ SeesTo(c)) => Clean' \/ SeesTo(c)' \/ caller[c].job = "ensure"
    <3>1. ~troubled => ~list[2].before.entry
      BY <1>1, <1>4, <2>1 DEF IInv, DiskFits, CleanList
    <3>2. SeesTo(c) => SeesTo(c)'
      BY <1>6, <1>9, <2>4
    <3> QED
      BY <1>9, <2>2, <3>1, <3>2 DEF Clean
  <2>12. caller'[c].pc # "look"
    BY <1>6, <1>9, <2>4
  <2> QED
    BY <1>1, <1>2, <1>3, <1>6, <1>9, <2>3, <2>4, <2>5, <2>6, <2>7, <2>8, <2>9, <2>10, <2>11, <2>12, InsideStep
<1> QED
  BY <1>7, <1>8, <1>9, <1>10 DEF RestoreChange

LEMMA WriteHookKeepsIInv ==
  ASSUME IInv, NEW c \in Caller, WriteHook(c)
  PROVE  IInv'
<1> DEFINE written == [token |-> caller[c].token, address |-> address]
           item == [file |-> "hook", before |-> hook, after |-> written]
<1>1. /\ caller[c].pc = "write" /\ caller[c].pc \in Inside
      /\ hook' = written /\ Changed(c, item, "read")
      /\ UNCHANGED <<config, manifest, marks, lock, ghosts>>
  BY DEF WriteHook, NewHook, At, Inside
<1>2. lock = c
  BY <1>1 DEF IInv, Typed, OneInside
<1>3. /\ UNCHANGED <<edits, exposed, troubled, cutOff, token>> /\ troubled' \in BOOLEAN
      /\ GhostsTyped'
  BY <1>1 DEF IInv, Typed, GhostsTyped, marks, ghosts
<1>4. /\ caller[c].job \in {"patch", "ensure"} /\ Carrying(c) /\ manifest \in NoList
      /\ caller[c].changes = <<>> /\ caller[c].token # 0 /\ Good(caller[c].token)
  BY <1>1 DEF IInv, Fits, JobFits, ListFits, Carrying, TokensGood
<1>5. written \in HookFile
  <2>1. caller[c].token \in 1 .. MaxTokens
    BY <1>4 DEF IInv, Typed, CallerTyped, Request
  <2>2. address \in 1 .. MaxRestarts + 1
    BY PatchAssumption DEF IInv, Typed, MarksTyped
  <2> QED
    BY <2>1, <2>2 DEF HookFile
<1>6. /\ written.token = caller[c].token /\ written # None
      /\ item.before = hook /\ item.after = written /\ item.file = "hook"
  BY <1>5, PatchAssumption
<1>7. item \in HookChange /\ item \in Change
  BY <1>5 DEF HookChange, Change, Hook, IInv, Typed, FilesTyped
<1> HIDE DEF item, written
<1>8. /\ CallerTyped' /\ Others(c)
      /\ caller'[c].pc = "read" /\ caller'[c].job = caller[c].job
      /\ caller'[c].read = NoConfig /\ caller'[c].before = NoConfig
      /\ caller'[c].changes = Append(caller[c].changes, item)
      /\ caller'[c].skipped = FALSE /\ caller'[c].failed = FALSE
  <2>1. "read" \in Inside \cup Outside
    BY DEF Inside
  <2> QED
    BY <1>1, <1>7, <2>1, ChangedShape DEF IInv, Typed
<1>9. /\ Shaped(caller'[c].changes) /\ Len(caller'[c].changes) = 1
      /\ caller'[c].changes[1] = item
  <2>1. Shaped(caller[c].changes) /\ Len(caller[c].changes) = 0
    BY <1>4, EmptyShaped
  <2>2. /\ Shaped(Append(caller[c].changes, item))
        /\ Len(Append(caller[c].changes, item)) = Len(caller[c].changes) + 1
        /\ Append(caller[c].changes, item)[Len(caller[c].changes) + 1] = item
    BY <1>4, <1>7, <2>1, LongerList
  <2>3. /\ Len(Append(caller[c].changes, item)) = 1
        /\ Append(caller[c].changes, item)[1] = item
    BY <2>1, <2>2
  <2> QED
    BY <1>8, <2>2, <2>3
<1>10. /\ Listing(c)' /\ ~RollingBack(c)' /\ ~Carrying(c)' /\ caller'[c].pc \in Inside /\ caller'[c].pc # "look"
  BY <1>8 DEF Listing, RollingBack, Carrying, Inside
<1>11. FilesTyped'
  BY <1>1, <1>4, <1>5 DEF IInv, Typed, FilesTyped, Hook, NoList
<1>12. hook' # None /\ Good(hook.token)'
  BY <1>1, <1>3, <1>4, <1>6 DEF Good
<1>13. manifest' \in NoList
  BY <1>1, <1>4 DEF NoList
<1>14. HookItem(caller[c].changes[1])'
  <2>1. Whole(hook) => Good(hook.token)
    BY DEF IInv, TokensGood
  <2>2. PICK first : first = item /\ first.before = hook
    BY <1>6
  <2>3. HookItem(first)'
    BY <1>3, <1>12, <2>1, <2>2 DEF HookItem, Good
  <2>4. caller'[c].changes[1] = first
    BY <1>9, <2>2
  <2> QED
    BY <2>3, <2>4
<1>15. EditsKept'
  BY <1>1, <1>3, <1>13 DEF IInv, EditsKept
<1>16. Fits(c)'
  <2>1. JobFits(c)'
    BY <1>4, <1>8, <1>10 DEF JobFits
  <2>2. ListFits(c)'
    <3>1. Shaped(caller[c].changes)'
      BY <1>9 DEF Shaped
    <3> QED
      BY <1>8, <1>9, <1>10, <1>13, <3>1 DEF ListFits
  <2>3. NoConfig.user = 0 /\ 0 <= edits'
    BY <1>3 DEF NoConfig, GhostsTyped
  <2>4. EditFits(c)'
    BY <1>8, <1>9, <2>3 DEF EditFits
  <2> QED
    BY <2>1, <2>2, <2>4 DEF Fits
<1>17. ~troubled => DiskFits(c)' /\ DiskKept'
  <2>1. ~troubled => Clean
    BY <1>1 DEF IInv, DiskFits
  <2>2. ~troubled => CleanList(caller'[c].changes) /\ ~config'.entry
    BY <1>1, <1>6, <1>9, <2>1 DEF Clean, CleanList
  <2>3. ~troubled => DiskFits(c)'
    BY <1>8, <1>10, <2>2 DEF DiskFits, CleanList
  <2>4. lock' # None
    BY <1>1, <1>2, PatchAssumption
  <2> QED
    BY <1>13, <2>3, <2>4 DEF DiskKept
<1>18. ~troubled' /\ (Clean \/ SeesTo(c)) => Clean' \/ SeesTo(c)' \/ caller[c].job = "ensure"
  BY <1>4, <1>8, <1>10 DEF SeesTo
<1>19. Carrying(c)' => Good(caller[c].token)'
  BY <1>10
<1> QED
  BY <1>1, <1>2, <1>3, <1>8, <1>10, <1>11, <1>12, <1>13, <1>14, <1>15, <1>16, <1>17, <1>18, <1>19, InsideStep

LEMMA ReadsKeepIInv ==
  ASSUME IInv, NEW c \in Caller, ReadConfig(c) \/ BackUpConfig(c)
  PROVE  IInv'
<1>1. /\ caller[c].pc \in {"read", "backup"} /\ caller[c].pc \in Inside /\ Listing(c)
      /\ UNCHANGED <<files, marks, lock, ghosts>>
  BY DEF ReadConfig, BackUpConfig, At, Inside, Listing
<1>2. lock = c
  BY <1>1 DEF IInv, Typed, OneInside
<1>3. /\ UNCHANGED <<config, hook, manifest, edits, exposed, troubled, cutOff, token>>
      /\ troubled' \in BOOLEAN
  BY <1>1 DEF IInv, Typed, GhostsTyped, files, marks, ghosts
<1>4. PICK pc \in {"backup", "put"} :
        /\ CallerTyped' /\ Others(c)
        /\ caller'[c].pc = pc /\ caller'[c].job = caller[c].job
        /\ caller'[c].changes = caller[c].changes
        /\ caller'[c].skipped = caller[c].skipped /\ caller'[c].failed = caller[c].failed
        /\ pc = "backup" => caller'[c].read = config /\ caller'[c].before = caller[c].before
        /\ pc = "put" => /\ caller[c].pc = "backup"
                         /\ caller'[c].read = caller[c].read /\ caller'[c].before = config
  <2>1. caller[c] \in Request /\ config \in Config /\ {"backup", "put"} \subseteq Inside \cup Outside
    BY DEF IInv, Typed, CallerTyped, FilesTyped, Inside
  <2>2. CASE ReadConfig(c)
    <3>1. caller' = [caller EXCEPT ![c] = [caller[c] EXCEPT !.read = config, !.pc = "backup"]]
      BY <2>2 DEF ReadConfig
    <3>2. [caller[c] EXCEPT !.read = config, !.pc = "backup"] \in Request
      BY <2>1 DEF Request
    <3> QED
      BY <2>1, <3>1, <3>2 DEF IInv, Typed, CallerTyped, Others, Request
  <2>3. CASE BackUpConfig(c)
    <3>1. caller' = [caller EXCEPT ![c] = [caller[c] EXCEPT !.before = config, !.pc = "put"]]
          /\ caller[c].pc = "backup"
      BY <2>3 DEF BackUpConfig, At
    <3>2. [caller[c] EXCEPT !.before = config, !.pc = "put"] \in Request
      BY <2>1 DEF Request
    <3> QED
      BY <2>1, <3>1, <3>2 DEF IInv, Typed, CallerTyped, Others, Request
  <2> QED
    BY <2>2, <2>3
<1>5. /\ Listing(c)' /\ ~RollingBack(c)' /\ ~Carrying(c)' /\ caller'[c].pc \in Inside
      /\ SeesTo(c) => SeesTo(c)'
  BY <1>1, <1>4 DEF Listing, RollingBack, Carrying, Inside, SeesTo
<1>6. /\ caller[c].job \in {"patch", "ensure"} /\ manifest \in NoList /\ Shaped(caller[c].changes)
      /\ Len(caller[c].changes) = 1
  BY <1>1 DEF IInv, Fits, JobFits, ListFits
<1>7. Fits(c)'
  <2>1. JobFits(c)'
    BY <1>4, <1>5, <1>6 DEF JobFits
  <2>2. ListFits(c)'
    <3>1. Shaped(caller[c].changes)'
      BY <1>4, <1>6 DEF Shaped
    <3> QED
      BY <1>3, <1>4, <1>5, <1>6, <3>1 DEF ListFits, NoList
  <2>3. config.user <= edits /\ (exposed \/ config.user = edits)
    BY DEF IInv, EditsKept
  <2>4. EditFits(c)'
    BY <1>3, <1>4, <1>6, <2>3 DEF IInv, Fits, EditFits
  <2> QED
    BY <2>1, <2>2, <2>4 DEF Fits
<1>8. ~troubled => DiskFits(c)'
  <2>1. ~troubled => CleanList(caller[c].changes) /\ ~config.entry /\ ~caller[c].skipped /\ ~caller[c].failed
    BY <1>1 DEF IInv, DiskFits
  <2>2. ~troubled => CleanList(caller'[c].changes)
    BY <1>4, <2>1
  <2> QED
    BY <1>3, <1>4, <1>5, <2>1, <2>2 DEF DiskFits, CleanList
<1>9. Listing(c)' /\ caller'[c].changes # <<>> => HookItem(caller'[c].changes[1])
  BY <1>1, <1>4 DEF IInv, TokensGood
<1> QED
  BY <1>1, <1>2, <1>3, <1>4, <1>5, <1>7, <1>8, <1>9, StaysInside

LEMMA WriteConfigKeepsIInv ==
  ASSUME IInv, NEW c \in Caller, WriteConfig(c)
  PROVE  IInv'
<1> DEFINE written == [caller[c].read EXCEPT !.entry = TRUE]
           item == [file |-> "config", before |-> caller[c].before, after |-> written]
           list == caller[c].changes
<1>1. /\ caller[c].pc = "put" /\ caller[c].pc \in Inside /\ Listing(c)
      /\ config' = written /\ Changed(c, item, "save")
      /\ UNCHANGED <<hook, manifest, marks, lock, ghosts>>
  BY DEF WriteConfig, NewConfig, At, Inside, Listing
<1>2. lock = c
  BY <1>1 DEF IInv, Typed, OneInside
<1>3. /\ UNCHANGED <<edits, exposed, troubled, cutOff, token>> /\ troubled' \in BOOLEAN
      /\ GhostsTyped'
  BY <1>1 DEF IInv, Typed, GhostsTyped, marks, ghosts
<1>4. /\ caller[c].job \in {"patch", "ensure"} /\ manifest \in NoList
      /\ Shaped(list) /\ Len(list) = 1
  BY <1>1 DEF IInv, Fits, JobFits, ListFits
<1>5. list # <<>>
  BY <1>4, NotEmpty
<1>6. HookItem(list[1])
  BY <1>1, <1>5 DEF IInv, TokensGood
<1>7. written \in Config /\ written.user = caller[c].read.user /\ caller[c].before \in Config
  <2>1. caller[c].read \in Config /\ caller[c].before \in Config
    BY DEF IInv, Typed, CallerTyped, Request
  <2> QED
    BY <2>1 DEF Config
<1>8. item.before = caller[c].before /\ item.after = written /\ item.file = "config"
  OBVIOUS
<1>9. item \in ConfigChange /\ item \in Change
  BY <1>7 DEF ConfigChange, Change
<1> HIDE DEF item, written, list
<1>10. /\ CallerTyped' /\ Others(c)
       /\ caller'[c].pc = "save" /\ caller'[c].job = caller[c].job
       /\ caller'[c].read = NoConfig /\ caller'[c].before = NoConfig
       /\ caller'[c].changes = Append(list, item)
       /\ caller'[c].skipped = FALSE /\ caller'[c].failed = FALSE
  <2>1. "save" \in Inside \cup Outside
    BY DEF Inside
  <2> QED
    BY <1>1, <1>9, <2>1, ChangedShape DEF IInv, Typed, list
<1>11. /\ Shaped(caller'[c].changes) /\ Len(caller'[c].changes) = 2
       /\ caller'[c].changes[1] = list[1] /\ caller'[c].changes[2] = item
  <2>1. /\ Shaped(Append(list, item)) /\ Len(Append(list, item)) = Len(list) + 1
        /\ Append(list, item)[Len(list) + 1] = item /\ Append(list, item)[1] = list[1]
    BY <1>4, <1>9, LongerList
  <2>2. Len(Append(list, item)) = 2 /\ Append(list, item)[2] = item
    BY <1>4, <2>1
  <2> QED
    BY <1>10, <2>1, <2>2
<1>12. Listing(c)' /\ ~RollingBack(c)' /\ ~Carrying(c)' /\ caller'[c].pc \in Inside /\ caller'[c].pc # "look"
  BY <1>10 DEF Listing, RollingBack, Carrying, Inside
<1>13. FilesTyped'
  BY <1>1, <1>4, <1>7 DEF IInv, Typed, FilesTyped, NoList
<1>14. Whole(hook') => Good(hook.token)'
  BY <1>1, <1>3 DEF IInv, TokensGood, Good
<1>15. manifest' \in NoList
  BY <1>1, <1>4 DEF NoList
<1>16. HookItem(caller[c].changes[1])'
  BY <1>1, <1>3, <1>6, <1>11 DEF HookItem, Good
<1>17. /\ caller[c].read.user <= edits /\ (exposed \/ caller[c].read.user = edits)
       /\ caller[c].before.user <= edits /\ (exposed \/ caller[c].before.user = edits)
  BY <1>1 DEF IInv, Fits, EditFits
<1>18. EditsKept'
  BY <1>1, <1>3, <1>7, <1>15, <1>17 DEF EditsKept
<1>19. Fits(c)'
  <2>1. JobFits(c)'
    BY <1>4, <1>10, <1>12 DEF JobFits
  <2>2. ListFits(c)'
    <3>1. Shaped(caller[c].changes)'
      BY <1>11 DEF Shaped
    <3> QED
      BY <1>10, <1>11, <1>12, <1>15, <3>1 DEF ListFits
  <2>3. NoConfig.user = 0 /\ 0 <= edits'
    BY <1>3 DEF NoConfig, GhostsTyped
  <2>4. ConfigItem(caller[c].changes[2])'
    BY <1>3, <1>7, <1>8, <1>11, <1>17 DEF ConfigItem
  <2>5. EditFits(c)'
    BY <1>10, <1>11, <2>3, <2>4 DEF EditFits
  <2> QED
    BY <2>1, <2>2, <2>5 DEF Fits
<1>20. ~troubled => DiskFits(c)' /\ DiskKept'
  <2>1. ~troubled => CleanList(list) /\ ~caller[c].before.entry
    BY <1>1 DEF IInv, DiskFits, list
  <2>2. ~troubled => CleanList(caller'[c].changes)
    BY <1>5, <1>8, <1>11, <2>1 DEF CleanList
  <2>3. ~troubled => DiskFits(c)'
    BY <1>10, <1>12, <2>2 DEF DiskFits, CleanList
  <2>4. lock' # None
    BY <1>1, <1>2, PatchAssumption
  <2> QED
    BY <1>15, <2>3, <2>4 DEF DiskKept
<1>21. ~troubled' /\ (Clean \/ SeesTo(c)) => Clean' \/ SeesTo(c)' \/ caller[c].job = "ensure"
  BY <1>4, <1>10, <1>12 DEF SeesTo
<1>22. Carrying(c)' => Good(caller[c].token)'
  BY <1>12
<1> QED
  BY <1>1, <1>2, <1>3, <1>10, <1>12, <1>13, <1>14, <1>15, <1>16, <1>18, <1>19, <1>20, <1>21, <1>22, InsideStep

LEMMA BeginManifestKeepsIInv ==
  ASSUME IInv, NEW c \in Caller, BeginManifest(c)
  PROVE  IInv'
<1>1. /\ caller[c].pc = "save" /\ caller[c].pc \in Inside /\ Listing(c) /\ manifest' = Torn
      /\ Goes(c, "saved") /\ UNCHANGED <<config, hook, marks, lock, ghosts>>
  BY DEF BeginManifest, At, Inside, Listing
<1>2. lock = c
  BY <1>1 DEF IInv, Typed, OneInside
<1>3. /\ UNCHANGED <<edits, exposed, troubled, cutOff, token>> /\ troubled' \in BOOLEAN
      /\ manifest' \in NoList
  BY <1>1 DEF IInv, Typed, GhostsTyped, marks, ghosts, NoList
<1>4. /\ CallerTyped' /\ Others(c)
      /\ caller'[c].pc = "saved" /\ caller'[c].job = caller[c].job
      /\ caller'[c].read = caller[c].read /\ caller'[c].before = caller[c].before
      /\ caller'[c].changes = caller[c].changes
      /\ caller'[c].skipped = caller[c].skipped /\ caller'[c].failed = caller[c].failed
  <2>1. "saved" \in Inside \cup Outside
    BY DEF Inside
  <2> QED
    BY <1>1, <2>1, GoesShape DEF IInv, Typed
<1>5. /\ Listing(c)' /\ ~RollingBack(c)' /\ ~Carrying(c)' /\ caller'[c].pc \in Inside /\ caller'[c].pc # "look"
      /\ SeesTo(c) => SeesTo(c)'
  BY <1>1, <1>4 DEF Listing, RollingBack, Carrying, Inside, SeesTo
<1>6. /\ caller[c].job \in {"patch", "ensure"} /\ Shaped(caller[c].changes) /\ Len(caller[c].changes) = 2
      /\ HookItem(caller[c].changes[1])
  <2>1. Shaped(caller[c].changes) /\ Len(caller[c].changes) = 2 /\ caller[c].job \in {"patch", "ensure"}
    BY <1>1 DEF IInv, Fits, JobFits, ListFits
  <2>2. caller[c].changes # <<>>
    BY <2>1, NotEmpty
  <2> QED
    BY <1>1, <2>1, <2>2 DEF IInv, TokensGood
<1>7. FilesTyped'
  BY <1>1, <1>3 DEF IInv, Typed, FilesTyped
<1>8. Whole(hook') => Good(hook.token)'
  BY <1>1, <1>3 DEF IInv, TokensGood, Good
<1>9. HookItem(caller[c].changes[1])'
  BY <1>1, <1>3, <1>4, <1>6 DEF HookItem, Good
<1>10. EditsKept'
  BY <1>1, <1>3 DEF IInv, EditsKept
<1>11. Fits(c)'
  <2>1. JobFits(c)'
    BY <1>4, <1>5, <1>6 DEF JobFits
  <2>2. ListFits(c)'
    <3>1. Shaped(caller[c].changes)'
      BY <1>4, <1>6 DEF Shaped
    <3> QED
      BY <1>3, <1>4, <1>5, <1>6, <3>1 DEF ListFits
  <2>3. EditFits(c)'
    BY <1>1, <1>3, <1>4 DEF IInv, Fits, EditFits, ConfigItem
  <2> QED
    BY <2>1, <2>2, <2>3 DEF Fits
<1>12. ~troubled => DiskFits(c)' /\ DiskKept'
  <2>1. ~troubled => CleanList(caller[c].changes) /\ ~caller[c].skipped /\ ~caller[c].failed
    BY <1>1 DEF IInv, DiskFits
  <2>2. ~troubled => CleanList(caller'[c].changes)
    BY <1>4, <2>1
  <2>3. ~troubled => DiskFits(c)'
    BY <1>4, <1>5, <2>1, <2>2 DEF DiskFits, CleanList
  <2>4. lock' # None
    BY <1>1, <1>2, PatchAssumption
  <2> QED
    BY <1>3, <2>3, <2>4 DEF DiskKept
<1>13. ~troubled' /\ (Clean \/ SeesTo(c)) => Clean' \/ SeesTo(c)' \/ caller[c].job = "ensure"
  BY <1>1, <1>5 DEF Clean
<1>14. Carrying(c)' => Good(caller[c].token)'
  BY <1>5
<1> QED
  BY <1>1, <1>2, <1>3, <1>4, <1>5, <1>7, <1>8, <1>9, <1>10, <1>11, <1>12, <1>13, <1>14, InsideStep

LEMMA SaveManifestKeepsIInv ==
  ASSUME IInv, NEW c \in Caller, saveManifest(c)
  PROVE  IInv'
<1> DEFINE list == caller[c].changes
<1>1. /\ caller[c].pc = "saved" /\ caller[c].pc \in Inside /\ Listing(c) /\ manifest' = list /\ lock' = None
      /\ (caller[c].job = "patch" /\ GoesOn(c, "optin")) \/ (caller[c].job # "patch" /\ Ends(c))
      /\ UNCHANGED <<config, hook, marks, ghosts>>
  BY DEF saveManifest, At, Inside, Listing
<1>2. lock = c
  BY <1>1 DEF IInv, Typed, OneInside
<1>3. /\ UNCHANGED <<edits, exposed, troubled, cutOff, token>> /\ troubled' \in BOOLEAN
      /\ GhostsTyped'
  BY <1>1 DEF IInv, Typed, GhostsTyped, marks, ghosts
<1>4. /\ caller[c].job \in {"patch", "ensure"} /\ Shaped(list) /\ Len(list) = 2
      /\ HookItem(list[1]) /\ ConfigItem(list[2])
  <2>1. Shaped(list) /\ Len(list) = 2 /\ caller[c].job \in {"patch", "ensure"}
    BY <1>1 DEF IInv, Fits, JobFits, ListFits
  <2>2. list # <<>>
    BY <2>1, NotEmpty
  <2> QED
    BY <1>1, <2>1, <2>2 DEF IInv, TokensGood, Fits, EditFits
<1>5. PICK saved : saved = list
  OBVIOUS
<1>6. manifest' = saved /\ Shaped(saved) /\ Len(saved) = 2 /\ HookItem(saved[1]) /\ ConfigItem(saved[2])
  BY <1>1, <1>4, <1>5
<1>7. FilesTyped'
  <2>1. Shaped(manifest)' /\ Len(manifest') = 2
    BY <1>6 DEF Shaped
  <2> QED
    BY <1>1, <2>1 DEF IInv, Typed, FilesTyped
<1>8. Whole(hook') => Good(hook.token)'
  BY <1>1, <1>3 DEF IInv, TokensGood, Good
<1>9. HookItem(manifest[1])'
  BY <1>1, <1>3, <1>6 DEF HookItem, Good
<1>10. EditsKept'
  BY <1>1, <1>3, <1>6 DEF IInv, EditsKept, ConfigItem
<1>11. ~troubled => DiskKept'
  <2>1. ~troubled => CleanList(saved)
    BY <1>1, <1>5 DEF IInv, DiskFits
  <2>2. saved \notin NoList
    BY <1>6, PatchAssumption DEF Shaped, NoList
  <2> QED
    BY <1>3, <1>6, <2>1, <2>2 DEF DiskKept, CleanList, NoList
<1>12. CASE caller[c].job # "patch" /\ Ends(c)
  <2>1. caller[c].job = "ensure"
    BY <1>4, <1>12
  <2> QED
    BY <1>1, <1>2, <1>3, <1>7, <1>9, <1>10, <1>11, <1>12, <2>1, EndsInside DEF EndsUnlocked
<1>13. CASE caller[c].job = "patch" /\ GoesOn(c, "optin")
  <2>1. /\ CallerTyped' /\ Others(c)
        /\ caller'[c].pc = "optin" /\ caller'[c].job = "patch"
        /\ caller'[c].read = NoConfig /\ caller'[c].before = NoConfig
        /\ caller'[c].skipped = FALSE /\ caller'[c].failed = FALSE
    <3>1. "optin" \in Inside \cup Outside
      BY DEF Outside
    <3> QED
      BY <1>13, <3>1, GoesOnShape DEF IInv, Typed
  <2>2. /\ ~Listing(c)' /\ ~RollingBack(c)' /\ ~Carrying(c)'
        /\ caller'[c].pc \notin Inside /\ caller'[c].pc # "look" /\ SeesTo(c)'
    BY <2>1 DEF Listing, RollingBack, Carrying, Inside, SeesTo
  <2>3. Fits(c)'
    <3>1. JobFits(c)'
      BY <2>1, <2>2 DEF JobFits
    <3>2. ListFits(c)'
      BY <2>1, <2>2 DEF ListFits
    <3>3. NoConfig.user = 0 /\ 0 <= edits'
      BY <1>3 DEF NoConfig, GhostsTyped
    <3>4. EditFits(c)'
      BY <2>1, <2>2, <3>3 DEF EditFits
    <3> QED
      BY <3>1, <3>2, <3>4 DEF Fits
  <2>4. DiskFits(c)'
    BY <2>1, <2>2 DEF DiskFits
  <2> QED
    BY <1>1, <1>2, <1>3, <1>7, <1>8, <1>9, <1>10, <1>11, <1>13, <2>1, <2>2, <2>3, <2>4, InsideStep
<1> QED
  BY <1>1, <1>12, <1>13

-----------------------------------------------------------------------------
(* The operator, and the machine.                                          *)

LEMMA EditConfigKeepsIInv == IInv /\ EditConfig => IInv'
<1> SUFFICES ASSUME IInv, EditConfig PROVE IInv'
  OBVIOUS
<1>1. PICK entry \in {FALSE, config.entry} : config' = [user |-> edits', entry |-> entry]
  BY DEF EditConfig
<1>2. /\ edits \in Nat /\ edits' = edits + 1 /\ edits' \in 0 .. MaxEdits
      /\ UNCHANGED <<hook, manifest, marks, lock, caller, troubled, cutOff>>
  BY PatchAssumption DEF EditConfig, IInv, Typed, GhostsTyped
<1>3. exposed' = \E c \in Caller : Races(c)
  BY DEF EditConfig
<1>4. /\ config' \in Config /\ config'.user = edits' /\ (~config.entry => ~config'.entry)
  <2>1. config.entry \in BOOLEAN
    BY DEF IInv, Typed, FilesTyped, Config
  <2>2. entry \in BOOLEAN
    BY <2>1
  <2> QED
    BY <1>1, <1>2, <2>2 DEF Config
<1>5. Typed'
  <2>1. exposed' \in BOOLEAN
    BY <1>3, Zenon
  <2>2. GhostsTyped'
    BY <1>2, <2>1 DEF IInv, Typed, GhostsTyped
  <2> QED
    BY <1>2, <1>4, <2>2 DEF IInv, Typed, CallerTyped, FilesTyped, MarksTyped, OneInside, marks
<1>6. ASSUME NEW c \in Caller PROVE Fits(c)'
  <2>1. JobFits(c)' /\ ListFits(c)'
    BY <1>2 DEF IInv, Fits, JobFits, ListFits, Carrying, Listing, RollingBack
  <2>2. caller[c].read \in Config /\ caller[c].before \in Config
    BY DEF IInv, Typed, CallerTyped, Request
  <2>3. caller'[c].read.user <= edits' /\ caller'[c].before.user <= edits'
    <3>1. caller[c].read.user \in Nat /\ caller[c].before.user \in Nat
      BY <2>2 DEF Config
    <3>2. caller[c].read.user <= edits /\ caller[c].before.user <= edits
      BY DEF IInv, Fits, EditFits
    <3> QED
      BY <1>2, <3>1, <3>2
  <2>4. caller[c].pc \in {"backup", "put"} => exposed'
    BY <1>3 DEF Races
  <2>5. ASSUME Listing(c), Len(caller[c].changes) = 2
        PROVE  ConfigItem(caller[c].changes[2])' /\ (caller[c].pc = "restore" => exposed')
    <3>1. Shaped(caller[c].changes) /\ ConfigItem(caller[c].changes[2])
      BY <2>5 DEF IInv, Fits, ListFits, EditFits
    <3>2. caller[c].changes[2] \in ConfigChange
      BY <2>5, <3>1 DEF Shaped
    <3>3. PICK item \in ConfigChange : item = caller[c].changes[2]
      BY <3>2
    <3>4. item.before.user \in Nat /\ item.after.user \in Nat
      BY DEF ConfigChange, Config
    <3>5. item.before.user <= edits /\ item.after.user <= edits
      BY <3>1, <3>3 DEF ConfigItem
    <3>6. ConfigItem(item)'
      BY <1>2, <3>4, <3>5 DEF ConfigItem
    <3>7. Last(caller[c].changes).file = "config"
      <4>1. caller[c].changes # <<>>
        BY <2>5, NotEmpty
      <4> QED
        BY <2>5, <3>1, <4>1, ShorterList
    <3> QED
      BY <1>2, <1>3, <3>3, <3>6, <3>7 DEF Races, At
  <2>6. EditFits(c)'
    BY <1>2, <2>3, <2>4, <2>5 DEF EditFits, Listing
  <2> QED
    BY <2>1, <2>6 DEF Fits
<1>7. TokensGood'
  BY <1>2 DEF IInv, TokensGood, HookItem, Good, Carrying, Listing, RollingBack, marks
<1>8. EditsKept'
  <2>1. ASSUME manifest \notin NoList PROVE ConfigItem(manifest[2])'
    <3>1. manifest[2] \in ConfigChange /\ ConfigItem(manifest[2])
      BY <2>1 DEF IInv, Typed, FilesTyped, Shaped, EditsKept
    <3>2. PICK item \in ConfigChange : item = manifest[2]
      BY <3>1
    <3>3. item.before.user \in Nat /\ item.after.user \in Nat
      BY DEF ConfigChange, Config
    <3>4. item.before.user <= edits /\ item.after.user <= edits
      BY <3>1, <3>2 DEF ConfigItem
    <3>5. ConfigItem(item)'
      BY <1>2, <3>3, <3>4 DEF ConfigItem
    <3> QED
      BY <1>2, <3>2, <3>5
  <2> QED
    BY <1>2, <1>4, <2>1 DEF EditsKept, NoList
<1>9. Clean => Clean'
  BY <1>2, <1>4 DEF Clean
<1>10. ~troubled' => DiskKept' /\ \A c \in Caller : DiskFits(c)'
  <2>1. ~troubled' => DiskKept'
    BY <1>2, <1>9 DEF IInv, DiskKept, CleanList
  <2>2. ASSUME ~troubled', NEW c \in Caller PROVE DiskFits(c)'
    <3>1. DiskFits(c)
      BY <1>2, <2>2 DEF IInv
    <3> QED
      BY <1>2, <1>4, <1>9, <3>1 DEF DiskFits, CleanList, Listing, RollingBack
  <2> QED
    BY <2>1, <2>2
<1>11. ~troubled' => Apart'
  BY <1>2 DEF IInv, Apart, Busy
<1>12. ~troubled' => TurnedOff'
  BY <1>2, <1>9 DEF IInv, TurnedOff, SeesTo, marks
<1> QED
  BY <1>5, <1>6, <1>7, <1>8, <1>10, <1>11, <1>12 DEF IInv

LEMMA RestartKeepsIInv == IInv /\ Restart => IInv'
<1> SUFFICES ASSUME IInv, Restart PROVE IInv'
  OBVIOUS
<1>1. /\ restarts < MaxRestarts /\ restarts' = restarts + 1 /\ address' \in {address, address + 1}
      /\ caller' = [c \in Caller |-> NoRequest] /\ lock' = None
      /\ UNCHANGED <<manifest, token, issued, off, edits, cutOff>>
  <2>1. PICK far \in Moves : address' = address + far
    BY DEF Restart
  <2>2. far \in {0, 1} /\ address \in Nat
    BY PatchAssumption DEF IInv, Typed, MarksTyped
  <2> QED
    BY <2>1, <2>2 DEF Restart
\* A file that someone was writing may be cut.
<1>2. /\ hook' \in {hook, Torn} /\ config' \in {config, NoConfig}
      /\ (\A c \in Caller : ~Writes(c, "hook") /\ ~Writes(c, "config")) => UNCHANGED <<hook, config>>
      /\ exposed' = (exposed \/ config'.user # config.user)
  BY DEF Restart
<1>3. troubled' = (troubled \/ \E c \in Caller : ~caller[c].pc \in {"idle", "look", "status", "issue"})
  BY DEF Restart, Trouble
<1>4. troubled' \in BOOLEAN /\ (troubled => troubled')
  BY <1>3, Zenon DEF IInv, Typed, GhostsTyped
<1>14. exposed' \in BOOLEAN /\ (exposed => exposed')
  BY <1>2, Zenon DEF IInv, Typed, GhostsTyped
<1>15. /\ config \in Config /\ config.user <= edits /\ (exposed \/ config.user = edits)
       /\ NoConfig \in Config /\ NoConfig.user = 0 /\ 0 <= edits
  BY IdleTyped DEF NoConfig, IInv, Typed, FilesTyped, GhostsTyped, EditsKept
<1>16. hook' \in Hook /\ config' \in Config /\ (hook # None => hook' # None) /\ (Whole(hook') => hook' = hook)
  BY <1>2, <1>15, PatchAssumption DEF IInv, Typed, FilesTyped, Hook, Whole
<1>5. GhostsTyped' /\ FilesTyped'
  BY <1>1, <1>4, <1>14, <1>16 DEF IInv, Typed, GhostsTyped, FilesTyped
<1>6. \A c \in Caller : caller'[c] = NoRequest
  BY <1>1
<1>7. \A c \in Caller :
        /\ Fits(c)' /\ DiskFits(c)' /\ ~Listing(c)' /\ ~Carrying(c)'
        /\ caller'[c].job = "none" /\ caller'[c].pc \notin Inside
  BY <1>5, <1>6, EndedFits
<1>8. Typed'
  <2>1. CallerTyped'
    BY <1>1, IdleTyped DEF CallerTyped
  <2>2. MarksTyped'
    BY <1>1, PatchAssumption DEF IInv, Typed, MarksTyped
  <2>3. OneInside'
    BY <1>1, <1>7, PatchAssumption DEF OneInside
  <2> QED
    BY <1>5, <2>1, <2>2, <2>3 DEF Typed
<1>9. TokensGood'
  <2>1. Whole(hook') => Good(hook.token)'
    BY <1>1, <1>16 DEF IInv, TokensGood, Good
  <2>2. manifest' \notin NoList => HookItem(manifest[1])'
    BY <1>1, <1>16 DEF IInv, TokensGood, HookItem, Good
  <2> QED
    BY <1>7, <2>1, <2>2 DEF TokensGood
<1>10. EditsKept'
  <2>1. config'.user <= edits /\ (exposed' \/ config'.user = edits)
    BY <1>2, <1>15
  <2> QED
    BY <1>1, <1>14, <2>1 DEF IInv, EditsKept, ConfigItem
<1>11. ASSUME ~troubled'
       PROVE  UNCHANGED <<hook, config>> /\ DiskKept' /\ \A c \in Caller : ~SeesTo(c)
  <2>1. \A c \in Caller : caller[c].pc \in {"idle", "look", "status", "issue"}
    BY <1>3, <1>11
  <2>2. \A c \in Caller : caller[c].pc \notin Inside /\ ~SeesTo(c)
    BY <2>1 DEF Inside, SeesTo
  <2>3. lock = None
    BY <2>2 DEF IInv, Typed, OneInside
  <2>4. \A c \in Caller : ~Writes(c, "hook") /\ ~Writes(c, "config")
    BY <2>1 DEF Writes, At
  <2>5. UNCHANGED <<hook, config>>
    BY <1>2, <2>4
  <2> QED
    BY <1>1, <1>4, <1>11, <2>2, <2>3, <2>5 DEF IInv, DiskKept, CleanList, Clean
<1>12. Apart'
  BY <1>7 DEF Apart, Busy
<1>13. ~troubled' => TurnedOff'
  BY <1>1, <1>4, <1>7, <1>11 DEF IInv, TurnedOff, Clean
<1> QED
  BY <1>7, <1>8, <1>9, <1>10, <1>11, <1>12, <1>13 DEF IInv

LEMMA StutterKeepsIInv == IInv /\ UNCHANGED patchVars => IInv'
<1> SUFFICES ASSUME IInv, UNCHANGED patchVars PROVE IInv'
  OBVIOUS
<1>1. UNCHANGED <<config, hook, manifest, token, issued, off, address, restarts, lock, caller,
                  edits, exposed, troubled, cutOff>>
  BY DEF patchVars, files, marks, ghosts
<1>2. Typed'
  BY <1>1 DEF IInv, Typed, CallerTyped, FilesTyped, MarksTyped, GhostsTyped, OneInside
<1>3. \A c \in Caller : JobFits(c)' /\ ListFits(c)'
  BY <1>1 DEF IInv, Fits, JobFits, ListFits, Carrying, Listing, RollingBack
<1>4. \A c \in Caller : EditFits(c)'
  BY <1>1 DEF IInv, Fits, EditFits, Listing, ConfigItem
<1>5. TokensGood' /\ EditsKept'
  BY <1>1 DEF IInv, TokensGood, EditsKept, Carrying, Listing, RollingBack, HookItem, ConfigItem, Good
<1>6. ~troubled' => DiskKept' /\ \A c \in Caller : DiskFits(c)'
  BY <1>1 DEF IInv, DiskKept, DiskFits, CleanList, Clean, Listing, RollingBack
<1>7. ~troubled' => Apart' /\ TurnedOff'
  BY <1>1 DEF IInv, Apart, Busy, TurnedOff, SeesTo, Clean
<1> QED
  BY <1>2, <1>3, <1>4, <1>5, <1>6, <1>7 DEF IInv, Fits

LEMMA StepKeepsIInv == IInv /\ [PatchNext]_patchVars => IInv'
<1>1. ASSUME IInv, NEW c \in Caller, Step(c) PROVE IInv'
  <2>1. CASE Ask(c) \/ isOptedOut(c) \/ Status(c) \/ IssueIngestToken(c) \/ setOptOut(c) \/ Lock(c)
             \/ RevokeIngestToken(c) \/ clearOptOut(c)
    BY <1>1, <2>1, AskKeepsIInv, LooksKeepIInv, IssueKeepsIInv, OptOutKeepsIInv, LockKeepsIInv,
       RevokeKeepsIInv, OptInKeepsIInv
  <2>2. CASE loadManifest(c) \/ LookAtChange(c) \/ RestoreChange(c) \/ RolledBack(c) \/ forget(c)
    BY <1>1, <2>2, LoadKeepsIInv, LookAtChangeKeepsIInv, RestoreChangeKeepsIInv, RolledBackKeepsIInv,
       ForgetKeepsIInv
  <2>3. CASE ApplyFails(c) \/ WriteHook(c) \/ ReadConfig(c) \/ BackUpConfig(c) \/ WriteConfig(c)
             \/ BeginManifest(c) \/ saveManifest(c) \/ SaveFails(c)
    BY <1>1, <2>3, FailsKeepIInv, WriteHookKeepsIInv, ReadsKeepIInv, WriteConfigKeepsIInv,
       BeginManifestKeepsIInv, SaveManifestKeepsIInv
  <2> QED
    BY <1>1, <2>1, <2>2, <2>3 DEF Step
<1> QED
  BY <1>1, EditConfigKeepsIInv, RestartKeepsIInv, StutterKeepsIInv DEF PatchNext

LEMMA IInvHolds == PatchSpec => []IInv
BY InitIInv, StepKeepsIInv, PTL DEF PatchSpec

(* Every request is at a stage the code has, behind the lock exactly when  *)
(* it holds it, and what is on the disk is a whole file, a list of changes *)
(* or half of one.                                                         *)
THEOREM PatchesTyped == PatchSpec => []PatchTypeOK
<1>1. IInv => PatchTypeOK
  <2> SUFFICES ASSUME IInv PROVE PatchTypeOK
    OBVIOUS
  <2>1. manifest \in {None, Torn} \/ manifest \in Seq(Change)
    BY DEF IInv, Typed, FilesTyped, NoList, Shaped
  <2>2. address \in 1 .. MaxRestarts + 1
    BY PatchAssumption DEF IInv, Typed, MarksTyped
  <2>3. \A c \in Caller :
          /\ caller[c].pc \in Inside \cup Outside /\ caller[c].changes \in Seq(Change)
          /\ caller[c].job \in {"none", "patch", "ensure", "unpatch"}
          /\ caller[c].why \in {"none", "revert", "apply", "save"}
    BY DEF IInv, Typed, CallerTyped, Request
  <2> QED
    BY <2>1, <2>2, <2>3 DEF IInv, Typed, FilesTyped, MarksTyped, GhostsTyped, OneInside, PatchTypeOK
<1> QED
  BY <1>1, IInvHolds, PTL

(* What the operator wrote last is what the file says, however many        *)
(* patches, failures, restarts and patches taken back there were, unless   *)
(* it was written between a look at the file and the write, or a write of  *)
(* the file that failed or was interrupted left it cut (state.go:65).      *)
THEOREM EditsAreKept == PatchSpec => []NoEditLost
<1>1. IInv => NoEditLost
  BY DEF IInv, EditsKept, NoEditLost
<1> QED
  BY <1>1, IInvHolds, PTL

(* When nothing is going on, an agent whose monitoring was turned off has  *)
(* nothing of ours left in it, and one that is monitored reports with a    *)
(* credential that is accepted, but for what MonitoredOrGone excepts       *)
(* (token.go:47).                                                          *)
THEOREM MonitoredOrTakenOut == PatchSpec => []MonitoredOrGone
<1>1. IInv => MonitoredOrGone
  <2> SUFFICES ASSUME IInv, lock = None, ~Busy({"patch", "ensure", "unpatch"})
               PROVE  IF off THEN troubled \/ (hook = None /\ ~config.entry)
                             ELSE Whole(hook) => hook.token = token \/ cutOff
    BY DEF MonitoredOrGone
  <2>1. \A c \in Caller : ~SeesTo(c)
    BY DEF Busy, SeesTo
  <2>2. off => troubled \/ Clean
    BY <2>1 DEF IInv, TurnedOff
  <2>3. Whole(hook) => hook.token = token \/ cutOff
    BY DEF IInv, TokensGood, Good
  <2> QED
    BY <2>2, <2>3 DEF Clean
<1> QED
  BY <1>1, IInvHolds, PTL
=============================================================================
