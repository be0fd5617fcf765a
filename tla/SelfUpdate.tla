------------------------------ MODULE SelfUpdate ------------------------------
(***************************************************************************)
(* Gateway replaces its own executable (version/update.go, restart.go): an *)
(* update moves the running one aside, puts the new one in its place,      *)
(* leaves a note of that and starts it; the process started so either      *)
(* comes to serve, or puts back what the note says it replaced and starts  *)
(* that.  Every rename, removal and start is a step, between two of which  *)
(* any process may die; Gateway may also be started by hand.               *)
(*                                                                         *)
(* A build is a number, a newer one's the greater.  What a build needs to  *)
(* serve that its smoke test does not ask for is external: Sound are the   *)
(* builds that can, and one that cannot may fail before it has the port or *)
(* after.  The desktop's launcher, which is swapped beside the executable, *)
(* the texts an update is reported with and the further attempts to remove *)
(* a file that is still open are left out.                                 *)
(***************************************************************************)
EXTENDS Naturals

CONSTANTS Build, Sound, First, Process, Update, None

ASSUME UpdateAssumption ==
  /\ Build \subseteq Nat /\ Sound \subseteq Build /\ First \in Sound /\ None \notin Build

VARIABLES
  exe,       \* the executable at the path Gateway is started from
  old,       \* what an update has replaced
  failed,    \* what a rollback has set aside
  staged,    \* what is unpacked in the staging directory
  note,      \* .update-restart: a restart into an update is under way
  process,   \* Gateways that run; by: whether an update started it
  stage,     \* what the page of each is told of its update
  update,    \* what updates have got to, and in which process
  troubled   \* whether anything happened that the code does not survive

files == <<exe, old, failed, staged>>
updateVars == <<files, note, process, stage, update, troubled>>

File == Build \cup {None}

Down == [pc |-> "down", build |-> None, by |-> FALSE]
NoUpdate == [pc |-> "idle", in |-> None, build |-> None]

UpdateTypeOK ==
  /\ exe \in File /\ old \in File /\ failed \in File /\ staged \in File /\ note \in BOOLEAN
  /\ process \in [Process -> [pc : {"down", "begun", "starting", "undo", "back", "serving", "leaving"},
                              build : File, by : BOOLEAN]]
  /\ stage \in [Process -> {"idle", "going", "failed"}]
  /\ update \in [Update -> [pc : {"idle", "asked", "fetch", "tested", "aside", "swapped", "noted"},
                            in : Process \cup {None}, build : File]]
  /\ troubled \in BOOLEAN
  /\ \A u \in Update : update[u].pc # "idle" => process[update[u].in].pc \in {"serving", "leaving"}
  /\ \A p, q \in Process : process[p].pc = "serving" /\ process[q].pc = "serving" => p = q

UpdateInit ==
  /\ exe = First /\ old = None /\ failed = None /\ staged = None /\ note = FALSE
  /\ process = [p \in Process |-> Down] /\ stage = [p \in Process |-> "idle"]
  /\ update = [u \in Update |-> NoUpdate] /\ troubled = FALSE

Trouble(happened) == troubled' = (troubled \/ happened)

\* A process is gone, and the updates in it.
End(gone) ==
  /\ process' = [p \in Process |-> IF p \in gone THEN Down ELSE process[p]]
  /\ stage' = [p \in Process |-> IF p \in gone THEN "idle" ELSE stage[p]]
  /\ update' = [u \in Update |-> IF update[u].in \in gone THEN NoUpdate ELSE update[u]]

\* An update that has begun to rename and not come to its note.
Renaming(u) == update[u].pc \in {"aside", "swapped"}

\* What is gone is cut short in the middle of that, or between the two renames
\* of a rollback.
CutShort(gone) ==
  \/ \E p \in gone : process[p].pc = "undo"
  \/ \E u \in Update : Renaming(u) /\ update[u].in \in gone

Begun == [pc |-> "begun", build |-> exe, by |-> FALSE]

-----------------------------------------------------------------------------
(* Starting (main.go).                                                     *)

\* By hand, or with the system, whatever is under way.
Start(p) ==
  /\ process[p].pc = "down" /\ exe # None /\ process' = [process EXCEPT ![p] = Begun]
  /\ UNCHANGED <<files, note, stage, update, troubled>>

\* Fault: what an update replaced goes whoever started this.
BeginStartupClean(p) ==
  /\ process[p].pc = "begun" /\ process' = [process EXCEPT ![p].pc = "starting", ![p].by = note]
  /\ staged' = None /\ old' = None /\ failed' = None
  /\ UNCHANGED <<exe, note, stage, update, troubled>>

\* Only where no update started this process is there nothing to go back to;
\* without a note it takes that for granted.
BeginStartup(p) ==
  /\ process[p].pc = "begun" /\ process' = [process EXCEPT ![p].pc = "starting", ![p].by = note]
  /\ staged' = None
  /\ IF note THEN UNCHANGED <<old, failed>> ELSE old' = None /\ failed' = None
  /\ Trouble(~note /\ \E u \in Update : Renaming(u))
  /\ UNCHANGED <<exe, note, stage, update>>

\* Fault: who holds the port is left alone.
FinishStartupBeside(p) ==
  /\ process[p].pc = "starting"
  /\ process' = [process EXCEPT ![p] = IF @.build \in Sound
                                         THEN [@ EXCEPT !.pc = "serving", !.by = FALSE] ELSE Down]
  /\ IF process[p].by THEN note' = FALSE /\ staged' = None /\ old' = None /\ failed' = None
                      ELSE UNCHANGED <<note, staged, old, failed>>
  /\ UNCHANGED <<exe, stage, update, troubled>>

\* ClaimPort ends who holds the port; then the update has taken, and what it
\* replaced goes, before it shows whether this build can serve.
FinishStartup(p) ==
  LET holders == {q \in Process : process[q].pc \in {"serving", "leaving"}}
      serves == process[p].build \in Sound IN
  /\ process[p].pc = "starting"
  /\ process' = [q \in Process |->
       IF q = p /\ serves THEN [process[p] EXCEPT !.pc = "serving", !.by = FALSE]
       ELSE IF q = p \/ q \in holders THEN Down ELSE process[q]]
  /\ stage' = [q \in Process |-> IF q \in holders THEN "idle" ELSE stage[q]]
  /\ update' = [u \in Update |-> NoUpdate]
  /\ IF process[p].by THEN note' = FALSE /\ staged' = None /\ old' = None /\ failed' = None
                      ELSE UNCHANGED <<note, staged, old, failed>>
  /\ Trouble(\/ CutShort(holders)
             \/ process[p].by /\ (~serves \/ exe # process[p].build))
  /\ UNCHANGED exe

\* It panics or is not given the port, and nothing is put back.
StaysDown(p) ==
  /\ process[p].pc = "starting" /\ End({p})
  /\ UNCHANGED <<files, note, troubled>>

\* RollBackFailedStart: the one that failed is moved aside first ...
MoveFailedAside(p) ==
  /\ process[p].pc = "starting" /\ process[p].by /\ old # None /\ exe # None
  /\ failed' = exe /\ exe' = None /\ process' = [process EXCEPT ![p].pc = "undo"]
  /\ UNCHANGED <<old, staged, note, stage, update, troubled>>

\* ... the one it replaced is put back, or that fails and is undone ...
PutBack(p) ==
  /\ process[p].pc = "undo"
  /\ \/ /\ old # None /\ exe' = old /\ old' = None
        /\ process' = [process EXCEPT ![p].pc = "back"] /\ UNCHANGED <<failed, stage, update, troubled>>
     \/ failed # None /\ exe' = failed /\ failed' = None /\ End({p}) /\ UNCHANGED <<old, troubled>>
     \/ End({p}) /\ Trouble(TRUE) /\ UNCHANGED <<exe, old, failed>>
  /\ UNCHANGED <<staged, note>>

\* ... and started, if it can be.  The note goes first, whose ever it is by now.
StartPrevious(p) ==
  /\ process[p].pc = "back" /\ note' = FALSE
  /\ \/ End({p})
     \/ \E q \in Process \ {p} :
          /\ process[q].pc = "down" /\ exe # None
          /\ process' = [process EXCEPT ![p] = Down, ![q] = Begun]
          /\ UNCHANGED <<stage, update>>
  /\ Trouble(old # None)
  /\ UNCHANGED files

-----------------------------------------------------------------------------
(* An update.                                                              *)

Goes(u, pc) == update' = [update EXCEPT ![u].pc = pc]

\* The goroutine ends, and its staging directory with it.
Fails(u) ==
  /\ update' = [update EXCEPT ![u] = NoUpdate] /\ stage' = [stage EXCEPT ![update[u].in] = "failed"]
  /\ staged' = None

\* StartUpdate looks whether one runs ...
StartUpdate(u, p) ==
  /\ update[u].pc = "idle" /\ process[p].pc = "serving" /\ stage[p] # "going"
  /\ update' = [update EXCEPT ![u] = [pc |-> "asked", in |-> p, build |-> None]]
  /\ UNCHANGED <<files, note, process, stage, troubled>>

NoRelease(u) ==
  /\ update[u].pc = "asked" /\ update' = [update EXCEPT ![u] = NoUpdate]
  /\ UNCHANGED <<files, note, process, stage, troubled>>

\* ... and begins, once it knows of a release: another may have by then.
ReleaseFound(u) ==
  LET p == update[u].in IN
  /\ update[u].pc = "asked" /\ stage' = [stage EXCEPT ![p] = "going"] /\ staged' = None
  /\ \E b \in Build : /\ b > process[p].build
                      /\ update' = [update EXCEPT ![u].pc = "fetch", ![u].build = b]
  /\ UNCHANGED <<exe, old, failed, note, process, troubled>>

\* Downloaded, unpacked, and has answered when asked for its version.
Unpack(u) ==
  /\ update[u].pc = "fetch" /\ staged' = update[u].build /\ Goes(u, "tested")
  /\ UNCHANGED <<exe, old, failed, note, process, stage, troubled>>

UpdateFails(u) ==
  /\ update[u].pc \in {"fetch", "tested"} /\ Fails(u)
  /\ UNCHANGED <<exe, old, failed, note, process, troubled>>

\* swap: the running executable is moved aside, and what was there goes, even
\* where that is all there is to go back to ...
MoveAside(u) ==
  /\ update[u].pc = "tested"
  /\ \/ exe # None /\ old' = exe /\ exe' = None /\ Goes(u, "aside") /\ UNCHANGED <<staged, stage>>
     \/ old' = None /\ Fails(u) /\ UNCHANGED exe
  /\ Trouble(note \/ \E v \in Update : Renaming(v))
  /\ UNCHANGED <<failed, note, process>>

\* ... and the new one put in its place, or the old one again.
Replace(u) ==
  /\ update[u].pc = "aside"
  /\ \/ /\ staged # None /\ exe' = staged /\ staged' = None /\ Goes(u, "swapped")
        /\ UNCHANGED <<old, stage, troubled>>
     \/ old # None /\ exe' = old /\ old' = None /\ Fails(u) /\ UNCHANGED troubled
     \/ Fails(u) /\ Trouble(TRUE) /\ UNCHANGED <<exe, old>>
  /\ UNCHANGED <<failed, note, process>>

\* Fault: the note is left once the new one has started, which may not find it.
noteAfterStart(u) ==
  /\ update[u].pc = "swapped" /\ Goes(u, "noted") /\ note' \in {note, TRUE}
  /\ UNCHANGED <<files, process, stage, troubled>>

noteRestart(u) ==
  /\ update[u].pc = "swapped" /\ Goes(u, "noted")
  /\ \/ note' = TRUE /\ UNCHANGED troubled
     \/ Trouble(TRUE) /\ UNCHANGED note          \* it cannot be written, and nobody asks
  /\ UNCHANGED <<files, process, stage>>

\* The new one is started, and this one is to go; or the note is taken back.
restart(u) ==
  LET p == update[u].in IN
  /\ update[u].pc = "noted"
  /\ \/ \E q \in Process :
          /\ process[q].pc = "down" /\ exe # None
          /\ process' = [process EXCEPT ![p].pc = "leaving", ![q] = Begun]
          /\ update' = [update EXCEPT ![u] = NoUpdate] /\ staged' = None
          /\ UNCHANGED <<note, stage, troubled>>
     \/ note' = FALSE /\ Fails(u) /\ Trouble(TRUE) /\ UNCHANGED process
  /\ UNCHANGED <<exe, old, failed>>

Leave(p) ==
  /\ process[p].pc = "leaving" /\ End({p}) /\ Trouble(CutShort({p}))
  /\ UNCHANGED <<files, note>>

-----------------------------------------------------------------------------

\* A process is ended.
Die(p) ==
  /\ process[p].pc # "down" /\ End({p})
  /\ Trouble(CutShort({p}))
  /\ UNCHANGED <<files, note>>

Startup(p) ==
  \/ BeginStartup(p) \/ FinishStartup(p) \/ StaysDown(p)
  \/ MoveFailedAside(p) \/ PutBack(p) \/ StartPrevious(p)

runUpdate(u) ==
  \/ NoRelease(u) \/ ReleaseFound(u) \/ Unpack(u) \/ UpdateFails(u)
  \/ MoveAside(u) \/ Replace(u) \/ noteRestart(u) \/ restart(u)

UpdateNext ==
  \/ \E p \in Process : Start(p) \/ Startup(p) \/ Leave(p) \/ Die(p)
  \/ \E u \in Update : runUpdate(u) \/ \E p \in Process : StartUpdate(u, p)

UpdateSpec == UpdateInit /\ [][UpdateNext]_updateVars

-----------------------------------------------------------------------------

(* "So a version that cannot run does not leave the machine with no        *)
(* Gateway at all" (RollBackFailedStart): whatever a download brought,     *)
(* whichever step fails, whichever process dies and whatever is started by *)
(* hand or updated beside it, what is started next can serve, or knows of  *)
(* one that can and puts that back.  The code does not keep that, and this *)
(* does not claim it, once (troubled)                                      *)
(*  - a process was gone between two renames, or before the note: it died, *)
(*    it left, or ClaimPort ended it (CutShort);                           *)
(*  - Gateway was started by hand in between, which removes what the       *)
(*    update has replaced (BeginStartup);                                  *)
(*  - an update moved the executable aside beside another, or before the   *)
(*    last one had come to serve (MoveAside);                              *)
(*  - the second rename failed and so did its undoing (Replace, PutBack);  *)
(*  - the note was not written (noteRestart), or the new one not started   *)
(*    (restart), or the note of a later update was taken back by a         *)
(*    rollback (StartPrevious);                                            *)
(*  - one that took the note for its own had the port, and cannot serve or *)
(*    is not what is installed (FinishStartup).                            *)
CanComeBack ==
  ~troubled =>
    \/ exe \in Sound
    \/ old \in Sound /\ exe # None /\ (note \/ \E u \in Update : update[u].pc = "swapped")
    \/ old \in Sound /\ exe = None /\ \/ \E u \in Update : update[u].pc = "aside"
                                      \/ \E p \in Process : process[p].pc = "undo"
=============================================================================
