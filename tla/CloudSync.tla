----------------------------- MODULE CloudSync -----------------------------
(***************************************************************************)
(* A machine that takes backups and copies them onto a target it shares    *)
(* with other machines (object/backup.go, object/cloud_sync.go,            *)
(* cloudsync/).  A backup is a file named after the moment it was taken.   *)
(* The machine keeps the newest few, and so does the target; one run at a  *)
(* time copies what the other side lacks.                                  *)
(*                                                                         *)
(* Gateway is set to sync by itself.  Other machines run the same program  *)
(* on the same target: they do there what SharedTarget allows, as this one *)
(* is shown to.  A call to the target is one step, and may fail.           *)
(***************************************************************************)
EXTENDS Naturals, FiniteSets

CONSTANTS
  Retention,   \* how many backups a side keeps
  MaxTime,     \* bound: the last moment a backup is taken at
  MaxEvents,   \* bound: how often Gateway is restarted or a button of its Settings page pressed
  Asked        \* the directions its buttons ask for

ASSUME SyncAssumption ==
  /\ Retention \in Nat \ {0} /\ MaxTime \in Nat /\ MaxEvents \in Nat
  /\ Asked \subseteq {"up", "down", "both"}

VARIABLES
  clock,
  dir,       \* the backup directory: "none", "half" or "whole" of each backup
  writing,   \* the backup that is being written, 0 when none
  waiting,   \* RunCloudSync: the directions whose callers wait for the run that is going
  late,      \* acquireCloudSync: one has waited too long, and is yet to leave its work behind
  pending,   \* cloudSyncPending
  run,       \* the run that is going
  target,    \* what the target holds of each backup
  landed,    \* every backup that ever reached the target
  events     \* restarts and pressed buttons so far

local == <<clock, dir, writing>>
queue == <<waiting, late, pending>>
remote == <<target, landed>>
vars == <<local, queue, run, remote, events>>

Name == 1 .. MaxTime
Direction == {"up", "down", "both"}
Copy == {"none", "half", "whole"}
HeldIn(files) == {n \in Name : files[n] # "none"}

Target == INSTANCE SharedTarget WITH held <- HeldIn(target)
Surplus(names) == Target!Surplus(names)

\* A run: where it is, what it has seen on either side, and the files still to be seen to.
Run == [at : {"idle", "list", "dir", "push", "pull", "prune", "end"},
        direction : Direction, remote : SUBSET Name, local : SUBSET Name, left : SUBSET Name]
Idle == [at |-> "idle", direction |-> "up", remote |-> {}, local |-> {}, left |-> {}]

TypeOK ==
  /\ clock \in 0 .. MaxTime /\ events \in 0 .. MaxEvents
  /\ dir \in [Name -> Copy] /\ target \in [Name -> Copy]
  /\ writing \in 0 .. MaxTime
  /\ waiting \subseteq Direction /\ late \in BOOLEAN /\ pending \in BOOLEAN
  /\ run \in Run
  \* nothing is at the target, or taken to be, that never reached it
  /\ HeldIn(target) \cup run.remote \subseteq landed /\ landed \subseteq Name

Init ==
  /\ clock = 0 /\ events = 0
  /\ dir = [n \in Name |-> "none"] /\ target = [n \in Name |-> "none"]
  /\ writing = 0
  /\ waiting = {} /\ late = FALSE /\ pending = FALSE
  /\ run = Idle
  /\ landed = {}

-----------------------------------------------------------------------------
(* Backups.                                                                *)

\* CreateBackup makes the file and writes it, which takes a while.  Another
\* machine may take one in the same moment; a name that is there is not reused.
TakeBackup ==
  /\ writing = 0
  /\ \E n \in {clock, clock + 1} \cap Name :
       /\ dir[n] = "none"
       /\ dir' = [dir EXCEPT ![n] = "half"] /\ writing' = n /\ clock' = n
  /\ UNCHANGED <<queue, run, remote, events>>

\* pruneBackups: of the files that can be read, those over the retention go,
\* the newest of them first; the first that will not go ends it.
Pruned(files) ==
  LET surplus == Surplus({n \in Name : files[n] = "whole"})
  IN  {[n \in Name |-> IF n \in surplus /\ n > kept THEN "none" ELSE files[n]] :
         kept \in surplus \cup {0}}

\* The file is whole: the old ones are dropped, and a push is asked for.
FinishBackup ==
  /\ writing # 0 /\ "up" \notin waiting
  /\ dir' \in Pruned([dir EXCEPT ![writing] = "whole"])
  /\ writing' = 0 /\ waiting' = waiting \cup {"up"}
  /\ UNCHANGED <<clock, late, pending, run, remote, events>>

\* The disk is full: what was written of the file stays.
BackupFails ==
  /\ writing # 0 /\ writing' = 0
  /\ UNCHANGED <<clock, dir, queue, run, remote, events>>

\* The operator deletes one on the page.
DeleteBackup ==
  /\ \E n \in HeldIn(dir) \ {writing} : dir' = [dir EXCEPT ![n] = "none"]
  /\ UNCHANGED <<clock, writing, queue, run, remote, events>>

-----------------------------------------------------------------------------
(* Whose turn it is.                                                       *)

\* cloudSyncTick, which leaves a run that is going alone.
Tick ==
  /\ run.at = "idle" /\ "both" \notin waiting
  /\ waiting' = waiting \cup {"both"}
  /\ UNCHANGED <<local, late, pending, run, remote, events>>

\* The operator asks for a run on the Settings page.
Press(direction) ==
  /\ events < MaxEvents /\ events' = events + 1 /\ direction \notin waiting
  /\ waiting' = waiting \cup {direction}
  /\ UNCHANGED <<local, late, pending, run, remote>>

\* acquireCloudSync, under the lock.
acquireCloudSync(direction) ==
  /\ direction \in waiting /\ run.at = "idle"
  /\ run' = [Idle EXCEPT !.at = "list", !.direction = direction]
  /\ waiting' = waiting \ {direction} /\ pending' = FALSE
  /\ UNCHANGED <<local, late, remote, events>>

\* One that has waited long enough finds the run still going, and lets go of
\* the lock ...
GiveUp(direction) ==
  /\ direction \in waiting /\ run.at # "idle" /\ ~late
  /\ waiting' = waiting \ {direction} /\ late' = TRUE
  /\ UNCHANGED <<local, pending, run, remote, events>>

\* ... and takes it again to leave its work behind.
LeaveWork ==
  /\ late /\ late' = FALSE /\ pending' = TRUE
  /\ UNCHANGED <<local, waiting, run, remote, events>>

\* The end of RunCloudSync: what was left behind becomes a push of its own.
Finish ==
  /\ run.at = "end" /\ run' = Idle
  /\ pending' = FALSE /\ waiting' = IF pending THEN waiting \cup {"up"} ELSE waiting
  /\ UNCHANGED <<local, late, remote, events>>

-----------------------------------------------------------------------------
(* SyncDir.                                                                *)

\* Fault: only what is newer than all the target holds is new to it.
LeftSince(at, r) ==
  CASE at = "push"  -> {n \in r.local : \A k \in r.remote : n > k}
    [] at = "pull"  -> r.remote \ r.local
    [] at = "prune" -> Surplus(r.remote)

\* The files a run has to see to in each of its passes.
LeftIn(at, r) ==
  CASE at = "push"  -> r.local \ r.remote
    [] at = "pull"  -> r.remote \ r.local
    [] at = "prune" -> Surplus(r.remote)

\* What a run has no more use for is forgotten.
Over == [Idle EXCEPT !.at = "end"]

Enter(at, r) ==
  CASE at = "end"   -> Over
    [] at = "prune" -> [r EXCEPT !.at = at, !.left = LeftIn(at, r), !.local = {}]
    [] OTHER        -> [r EXCEPT !.at = at, !.left = LeftIn(at, r)]

\* Where a run of each direction goes after each pass.
After(direction) ==
  CASE direction = "up"   -> [dir |-> "push", push |-> "prune", prune |-> "end"]
    [] direction = "down" -> [dir |-> "pull", pull |-> "end"]
    [] direction = "both" -> [dir |-> "push", push |-> "pull", pull |-> "prune", prune |-> "end"]

ListTarget ==
  /\ run.at = "list" /\ run' = [run EXCEPT !.at = "dir", !.remote = HeldIn(target)]
  /\ UNCHANGED <<local, queue, remote, events>>

listDir ==
  /\ run.at = "dir"
  /\ run' = Enter(After(run.direction)["dir"], [run EXCEPT !.local = HeldIn(dir)])
  /\ UNCHANGED <<local, queue, remote, events>>

\* Without a listing the run is over.
ListFails ==
  /\ run.at \in {"list", "dir"} /\ run' = Over
  /\ UNCHANGED <<local, queue, remote, events>>

NextPass ==
  /\ run.at \in {"push", "pull", "prune"} /\ run.left = {}
  /\ run' = Enter(After(run.direction)[run.at], run)
  /\ UNCHANGED <<local, queue, remote, events>>

\* The files are gone through in the order of their names.
IsNext(at, n) == run.at = at /\ n \in run.left /\ \A k \in run.left : n <= k

Done(n) == [run EXCEPT !.left = @ \ {n}]

\* Fault: a file that could not be copied counts as one the target holds.
FileFailsUnseen(n) ==
  /\ \E at \in {"push", "pull", "prune"} : IsNext(at, n)
  /\ run' = [Done(n) EXCEPT !.remote = @ \cup {n}]
  /\ UNCHANGED <<local, queue, remote, events>>

\* A file that fails is left behind, and the run goes on.
FileFails(n) ==
  /\ \E at \in {"push", "pull", "prune"} : IsNext(at, n)
  /\ run' = Done(n)
  /\ UNCHANGED <<local, queue, remote, events>>

\* Fault: a file that is gone by the time it is read counts as one that was copied.
PushUnread(n) ==
  /\ IsNext("push", n) /\ target' = [target EXCEPT ![n] = dir[n]]
  /\ landed' = IF dir[n] = "none" THEN landed ELSE landed \cup {n}
  /\ run' = [Done(n) EXCEPT !.remote = @ \cup {n}]
  /\ UNCHANGED <<local, queue, events>>

Push(n) ==
  /\ IsNext("push", n) /\ dir[n] # "none"
  /\ target' = [target EXCEPT ![n] = dir[n]] /\ landed' = landed \cup {n}
  /\ run' = [Done(n) EXCEPT !.remote = @ \cup {n}]
  /\ UNCHANGED <<local, queue, events>>

Pull(n) ==
  /\ IsNext("pull", n) /\ target[n] # "none"
  /\ dir' = [dir EXCEPT ![n] = target[n]] /\ run' = [Done(n) EXCEPT !.local = @ \cup {n}]
  /\ UNCHANGED <<clock, writing, queue, remote, events>>

\* A file that another machine has removed is removed all the same.
Remove(n) ==
  /\ IsNext("prune", n) /\ target' = [target EXCEPT ![n] = "none"]
  /\ run' = [Done(n) EXCEPT !.remote = @ \ {n}]
  /\ UNCHANGED <<local, queue, landed, events>>

-----------------------------------------------------------------------------

\* Another machine syncs, which has taken backups of its own.
Elsewhere ==
  /\ \E n \in Name :
       \/ /\ n <= clock + 1 /\ clock' = IF n > clock THEN n ELSE clock
          /\ target' = [target EXCEPT ![n] = "whole"] /\ landed' = landed \cup {n}
       \/ /\ n \in Surplus(landed) /\ target' = [target EXCEPT ![n] = "none"]
          /\ UNCHANGED <<landed, clock>>
  /\ UNCHANGED <<dir, writing, queue, run, events>>

\* Gateway is restarted: the directory is what is left of it.
Crash ==
  /\ events < MaxEvents /\ events' = events + 1
  /\ writing' = 0 /\ waiting' = {} /\ late' = FALSE /\ pending' = FALSE /\ run' = Idle
  /\ UNCHANGED <<clock, dir, remote>>

-----------------------------------------------------------------------------

Backup == TakeBackup \/ FinishBackup \/ BackupFails \/ DeleteBackup

Turn == \E direction \in Direction : acquireCloudSync(direction)

SyncDir ==
  \/ ListTarget \/ listDir \/ ListFails \/ NextPass \/ Finish
  \/ \E n \in Name : Push(n) \/ Pull(n) \/ Remove(n) \/ FileFails(n)

Next ==
  \/ Backup \/ Tick \/ Turn \/ SyncDir \/ LeaveWork \/ Elsewhere \/ Crash
  \/ \E direction \in Direction : GiveUp(direction)
  \/ \E direction \in Asked : Press(direction)

Spec == Init /\ [][Next]_vars

\* The schedule's loop comes round, a run goes on, and neither the target nor
\* the disk fails for ever: a listing, or a copy of one file, that is tried
\* again and again comes to pass.
FairSpec ==
  /\ Spec
  /\ WF_vars(Tick) /\ WF_vars(Turn) /\ WF_vars(SyncDir)
  /\ SF_vars(ListTarget) /\ SF_vars(listDir)
  /\ \A n \in Name : SF_vars(Push(n))

-----------------------------------------------------------------------------

(* "Only after the pull: a file dropped for the retention has to have been *)
(* somewhere else first", and prune keeps the newest (SyncDir): each run   *)
(* prunes what it listed before others put and dropped, and still does     *)
(* nothing at the target but what the machines promise each other.         *)
KeepsThePromise == Target!Spec

(* What the promise is for: of all backups that ever reached the target,   *)
(* the newest Retention are at it, whichever runs are going.               *)
NewestStayAtTarget == Target!NewestStay

(* "A run already going is not a failure: it either carries this snapshot  *)
(* along or leaves the push queued behind it" (cloudSyncAfterBackup): a    *)
(* backup reaches the target, or is dropped from the directory first,      *)
(* though its push was turned away, its file failed to be copied or the    *)
(* gateway was restarted.                                                  *)
EverySnapshotCopied ==
  \A n \in Name : dir[n] = "whole" ~> n \in landed \/ dir[n] = "none"

(* "Whichever run is in flight picks it up as it finishes"                 *)
(* (acquireCloudSync).  The code does not keep this: the run may finish    *)
(* between the last look at it and the work being left.                    *)
WorkLeftToARun == pending => run.at # "idle"

(* "Snapshots are immutable, so a name present on both sides is the same   *)
(* file on both sides" (SyncDir).  The code does not keep this: a run may  *)
(* read a backup that is being written, and never copies it again.         *)
SameFileOnBothSides ==
  \A n \in Name : dir[n] = "whole" /\ target[n] # "none" => target[n] = "whole"
=============================================================================
