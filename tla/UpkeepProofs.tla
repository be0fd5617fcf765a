---------------------------- MODULE UpkeepProofs ----------------------------
(***************************************************************************)
(* The two things Gateway does to keep itself: its backups, and its own    *)
(* executable.                                                             *)
(*                                                                         *)
(* However many backups are taken, files fail and other machines put and   *)
(* drop, a machine does at the target only what SharedTarget allows, and   *)
(* the newest backups stay there.  A run prunes by what it has seen; what  *)
(* it has seen has reached the target, and of more names more are surplus. *)
(*                                                                         *)
(* However many updates and processes there are, and whichever of them     *)
(* dies, the executable that is left can serve or knows of one that can.   *)
(* That is not inductive: the invariant (Calm) says of every process on    *)
(* its way up what it finds on the disk, of every update what it has made  *)
(* of it, and that of the former there is one and, while it is under way,  *)
(* none of the latter.  It holds until something happened that an update   *)
(* does not survive, which is not forgotten.                               *)
(***************************************************************************)
EXTENDS CloudSync, SelfUpdate, FiniteSetTheorems, TLAPS

-----------------------------------------------------------------------------
(* Cloud sync.                                                             *)

\* A run is a record, whatever it holds.
Formed(r) ==
  r = [at |-> r.at, direction |-> r.direction, remote |-> r.remote, local |-> r.local, left |-> r.left]

SyncInv ==
  /\ landed \subseteq Name
  /\ target \in [Name -> Copy] /\ HeldIn(target) \subseteq landed
  /\ Formed(run) /\ run.remote \subseteq landed
  /\ run.at = "prune" => run.left \subseteq Surplus(landed)
  /\ landed \ Surplus(landed) \subseteq HeldIn(target)

LEMMA NamesFinite ==
  ASSUME NEW names \in SUBSET Name
  PROVE  IsFiniteSet(names)
<1>1. IsFiniteSet(1 .. MaxTime)
  BY FS_Interval, SyncAssumption
<1> QED
  BY <1>1, FS_Subset DEF Name

(* The instance counts as everybody does.                                  *)
LEMMA SameCardinality ==
  ASSUME NEW S
  PROVE  Target!Cardinality(S) = Cardinality(S)
BY DEF Target!Cardinality, Cardinality

(* Of more names, no fewer are over the retention.                         *)
LEMMA SurplusGrows ==
  ASSUME NEW more \in SUBSET Name, NEW names \in SUBSET more
  PROVE  Surplus(names) \subseteq Surplus(more)
<1> SUFFICES ASSUME NEW n \in Surplus(names)
             PROVE  n \in Surplus(more)
  OBVIOUS
<1> DEFINE newer(S) == {k \in S : k > n}
<1>1. n \in names /\ Cardinality(newer(names)) >= Retention
  BY SameCardinality DEF Surplus, Target!Surplus
<1>2. newer(names) \subseteq newer(more) /\ newer(more) \in SUBSET Name /\ newer(names) \in SUBSET Name
  OBVIOUS
<1>3. IsFiniteSet(newer(more)) /\ IsFiniteSet(newer(names))
  BY <1>2, NamesFinite
<1>4. Cardinality(newer(names)) <= Cardinality(newer(more))
  BY <1>2, <1>3, FS_Subset
<1>5. Cardinality(newer(names)) \in Nat /\ Cardinality(newer(more)) \in Nat
  BY <1>3, FS_CardinalityType
<1>6. Cardinality(newer(more)) >= Retention
  BY <1>1, <1>4, <1>5, SyncAssumption
<1> QED
  BY <1>1, <1>6, SameCardinality DEF Surplus, Target!Surplus

-----------------------------------------------------------------------------

\* What a step may do that touches nothing a run or the target is about.
Aside == UNCHANGED <<run, target, landed>>

\* A run goes on, with no more to drop than before or with the surplus of
\* what it has seen.
Onward ==
  /\ Formed(run)' /\ run'.remote \subseteq landed
  /\ run'.at = "prune" => run'.left \subseteq Surplus(landed)
  /\ UNCHANGED remote

LEMMA InitSyncInv == Init => SyncInv
<1> SUFFICES ASSUME Init PROVE SyncInv
  OBVIOUS
<1>1. Surplus({}) = {}
  BY DEF Surplus, Target!Surplus
<1> QED
  BY <1>1 DEF Init, SyncInv, Idle, Copy, HeldIn, Formed

LEMMA StepsAside ==
  ASSUME SyncInv, Aside
  PROVE  SyncInv'
BY DEF SyncInv, Aside, Formed, HeldIn, Surplus, Target!Surplus

LEMMA StepsOnward ==
  ASSUME SyncInv, Onward
  PROVE  SyncInv'
BY DEF SyncInv, Onward, Formed, remote, HeldIn, Surplus, Target!Surplus

LEMMA PassesOnward ==
  ASSUME SyncInv, NEW at, run.remote \subseteq landed,
         run' = Enter(at, run), UNCHANGED remote
  PROVE  Onward
<1>1. run.remote \in SUBSET landed /\ landed \in SUBSET Name
  BY DEF SyncInv
<1>2. Surplus(run.remote) \subseteq Surplus(landed)
  BY <1>1, SurplusGrows
<1> QED
  BY <1>1, <1>2 DEF Onward, Enter, Over, Idle, LeftIn, Formed, SyncInv

LEMMA OthersAside ==
  ASSUME Backup \/ Tick \/ LeaveWork \/ (\E direction \in Direction : GiveUp(direction))
           \/ (\E direction \in Asked : Press(direction)) \/ UNCHANGED vars
  PROVE  Aside
BY DEF Aside, Backup, TakeBackup, FinishBackup, BackupFails, DeleteBackup, Tick, LeaveWork,
       GiveUp, Press, vars, remote

LEMMA RunOnward ==
  ASSUME SyncInv,
         \/ Turn \/ Crash \/ ListTarget \/ listDir \/ ListFails \/ NextPass \/ Finish
         \/ \E n \in Name : FileFails(n) \/ Pull(n)
  PROVE  Onward
<1>1. CASE Turn \/ Crash \/ ListFails \/ Finish
  <2>1. run'.remote = {} /\ run'.at # "prune" /\ Formed(run)' /\ UNCHANGED remote
    <3>1. CASE Turn
      BY <3>1 DEF Turn, acquireCloudSync, Idle, Formed
    <3>2. CASE Crash
      BY <3>2 DEF Crash, Idle, Formed
    <3>3. CASE ListFails
      BY <3>3 DEF ListFails, Over, Idle, Formed
    <3>4. CASE Finish
      BY <3>4 DEF Finish, Idle, Formed
    <3> QED
      BY <1>1, <3>1, <3>2, <3>3, <3>4
  <2> QED
    BY <2>1 DEF Onward
<1>2. CASE ListTarget
  BY <1>2 DEF ListTarget, Onward, SyncInv, Formed
<1>3. CASE listDir
  <2> DEFINE seen == [run EXCEPT !.local = HeldIn(dir)]
             at == After(run.direction)["dir"]
  <2>1. run' = Enter(at, seen) /\ UNCHANGED remote /\ seen.remote = run.remote
    BY <1>3 DEF listDir, SyncInv, Formed
  <2>2. seen.remote \in SUBSET landed /\ landed \in SUBSET Name
    BY <2>1 DEF SyncInv
  <2>3. Surplus(seen.remote) \subseteq Surplus(landed)
    BY <2>2, SurplusGrows
  <2> QED
    BY <2>1, <2>2, <2>3 DEF Onward, Enter, Over, Idle, LeftIn, Formed, SyncInv
<1>4. CASE NextPass
  <2>1. run' = Enter(After(run.direction)[run.at], run) /\ UNCHANGED remote
    BY <1>4 DEF NextPass
  <2> QED
    BY <2>1, PassesOnward DEF SyncInv
<1>5. CASE \E n \in Name : FileFails(n) \/ Pull(n)
  <2>1. PICK n \in Name : FileFails(n) \/ Pull(n)
    BY <1>5
  <2>2. /\ run'.remote = run.remote /\ run'.at = run.at /\ run'.left \subseteq run.left
        /\ Formed(run)' /\ UNCHANGED remote
    <3>1. Formed(run)
      BY DEF SyncInv
    <3>2. CASE FileFails(n)
      BY <3>1, <3>2 DEF FileFails, Done, Formed
    <3>3. CASE Pull(n)
      BY <3>1, <3>3 DEF Pull, Done, Formed
    <3> QED
      BY <2>1, <3>2, <3>3
  <2> QED
    BY <2>2 DEF Onward, SyncInv
<1> QED
  BY <1>1, <1>2, <1>3, <1>4, <1>5

\* What is put, and what is dropped.
Puts(n) ==
  /\ HeldIn(target') = HeldIn(target) \cup {n} /\ landed' = landed \cup {n}
  /\ target' \in [Name -> Copy]

Drops(n) ==
  /\ n \in Surplus(landed) /\ HeldIn(target') = HeldIn(target) \ {n} /\ UNCHANGED landed
  /\ target' \in [Name -> Copy]

LEMMA AtTheTarget ==
  ASSUME SyncInv, dir \in [Name -> Copy],
         \E n \in Name : Push(n) \/ Remove(n)
  PROVE  \E n \in Name : Puts(n) \/ Drops(n)
<1>1. PICK n \in Name : Push(n) \/ Remove(n)
  OBVIOUS
<1>2. CASE Push(n)
  BY <1>1, <1>2 DEF Push, Puts, HeldIn, SyncInv, Copy
<1>3. CASE Remove(n)
  BY <1>1, <1>3 DEF Remove, Drops, HeldIn, SyncInv, Copy, IsNext
<1> QED
  BY <1>1, <1>2, <1>3

LEMMA ElsewhereAtTheTarget ==
  ASSUME SyncInv, Elsewhere
  PROVE  \E n \in Name : Puts(n) \/ Drops(n)
BY DEF Elsewhere, Puts, Drops, HeldIn, SyncInv, Copy

(* The newest stay: one more backup makes no other one newer.              *)
LEMMA NewestStay ==
  ASSUME SyncInv, NEW n \in Name, Puts(n) \/ Drops(n)
  PROVE  /\ landed' \subseteq Name /\ HeldIn(target') \subseteq landed'
         /\ Surplus(landed) \subseteq Surplus(landed')
         /\ landed' \ Surplus(landed') \subseteq HeldIn(target')
<1>1. landed' \in SUBSET Name /\ landed \in SUBSET landed'
  BY DEF SyncInv, Puts, Drops
<1>2. Surplus(landed) \subseteq Surplus(landed')
  BY <1>1, SurplusGrows
<1> QED
  BY <1>1, <1>2 DEF SyncInv, Puts, Drops

-----------------------------------------------------------------------------

DirTyped == dir \in [Name -> Copy] /\ writing \in 0 .. MaxTime

LEMMA InitDirTyped == Init => DirTyped
BY SyncAssumption DEF Init, DirTyped, Copy

LEMMA StepKeepsDirTyped ==
  ASSUME DirTyped, SyncInv, [Next]_vars
  PROVE  DirTyped'
<1>1. CASE TakeBackup
  BY <1>1 DEF TakeBackup, DirTyped, Copy, Name
<1>2. CASE FinishBackup
  <2>1. \A copies \in [Name -> Copy] : Pruned(copies) \subseteq [Name -> Copy]
    BY DEF Pruned, Copy
  <2>2. [dir EXCEPT ![writing] = "whole"] \in [Name -> Copy]
    BY DEF DirTyped, Copy
  <2> QED
    <3>1. dir' \in Pruned([dir EXCEPT ![writing] = "whole"]) /\ writing' = 0
      BY <1>2 DEF FinishBackup
    <3>2. dir' \in [Name -> Copy]
      BY <2>1, <2>2, <3>1
    <3> QED
      BY <3>1, <3>2, SyncAssumption DEF DirTyped
<1>3. CASE BackupFails \/ DeleteBackup
  BY <1>3, SyncAssumption DEF BackupFails, DeleteBackup, DirTyped, HeldIn, Copy
<1>4. CASE \E n \in Name : Pull(n)
  BY <1>4 DEF Pull, DirTyped, SyncInv
<1>5. CASE Crash
  BY <1>5, SyncAssumption DEF Crash, DirTyped
<1>6. CASE Tick \/ Turn \/ LeaveWork \/ Elsewhere \/ UNCHANGED vars
             \/ \E direction \in Direction : GiveUp(direction)
  BY <1>6 DEF Tick, Turn, acquireCloudSync, LeaveWork, Elsewhere, GiveUp, vars, local, DirTyped
<1>7. CASE (\E direction \in Asked : Press(direction))
  BY <1>7 DEF Press, local, DirTyped
<1>8. CASE ListTarget \/ listDir \/ ListFails \/ NextPass \/ Finish
             \/ \E n \in Name : Push(n) \/ Remove(n) \/ FileFails(n)
  BY <1>8 DEF ListTarget, listDir, ListFails, NextPass, Finish, Push, Remove, FileFails, local, DirTyped
<1> QED
  BY <1>1, <1>2, <1>3, <1>4, <1>5, <1>6, <1>7, <1>8 DEF Next, Backup, SyncDir

IInv == SyncInv /\ DirTyped

LEMMA PushAndRemoveKeepSyncInv ==
  ASSUME IInv, NEW n \in Name, Push(n) \/ Remove(n)
  PROVE  SyncInv'
<1>1. \E k \in Name : Puts(k) \/ Drops(k)
  BY AtTheTarget DEF IInv, DirTyped
<1>2. /\ landed' \subseteq Name /\ HeldIn(target') \subseteq landed'
      /\ Surplus(landed) \subseteq Surplus(landed')
      /\ landed' \ Surplus(landed') \subseteq HeldIn(target')
  BY <1>1, NewestStay DEF IInv
<1>3. target' \in [Name -> Copy] /\ landed \subseteq landed'
  BY <1>1 DEF Puts, Drops
<1>4. /\ Formed(run)' /\ run'.at = run.at /\ run'.left \subseteq run.left
      /\ \/ Push(n) /\ run'.remote = run.remote \cup {n}
         \/ Remove(n) /\ run'.remote = run.remote \ {n}
  BY DEF Push, Remove, Done, IInv, SyncInv, Formed
<1>5. run'.remote \subseteq landed'
  BY <1>3, <1>4 DEF Push, IInv, SyncInv
<1>6. run'.at = "prune" => run'.left \subseteq Surplus(landed')
  BY <1>2, <1>4 DEF IInv, SyncInv
<1> QED
  BY <1>2, <1>3, <1>4, <1>5, <1>6 DEF SyncInv, HeldIn, Surplus, Target!Surplus

LEMMA ElsewhereKeepsSyncInv ==
  ASSUME IInv, Elsewhere
  PROVE  SyncInv'
<1>1. \E k \in Name : Puts(k) \/ Drops(k)
  BY ElsewhereAtTheTarget DEF IInv
<1>2. /\ landed' \subseteq Name /\ HeldIn(target') \subseteq landed'
      /\ Surplus(landed) \subseteq Surplus(landed')
      /\ landed' \ Surplus(landed') \subseteq HeldIn(target')
  BY <1>1, NewestStay DEF IInv
<1>3. target' \in [Name -> Copy] /\ landed \subseteq landed' /\ UNCHANGED run
  BY <1>1 DEF Puts, Drops, Elsewhere
<1> QED
  BY <1>2, <1>3 DEF IInv, SyncInv, Formed, HeldIn, Surplus, Target!Surplus

LEMMA StepKeepsIInv == IInv /\ [Next]_vars => IInv'
<1> SUFFICES ASSUME IInv, [Next]_vars PROVE IInv'
  OBVIOUS
<1>1. DirTyped'
  BY StepKeepsDirTyped DEF IInv
<1>2. ASSUME Aside PROVE SyncInv'
  BY <1>2, StepsAside DEF IInv
<1>3. ASSUME Onward PROVE SyncInv'
  BY <1>3, StepsOnward DEF IInv
<1>4. CASE \E n \in Name : Push(n) \/ Remove(n)
  BY <1>4, <1>1, PushAndRemoveKeepSyncInv DEF IInv
<1>5. CASE Elsewhere
  BY <1>5, <1>1, ElsewhereKeepsSyncInv DEF IInv
<1>6. CASE Backup \/ Tick \/ LeaveWork \/ (\E direction \in Direction : GiveUp(direction))
             \/ (\E direction \in Asked : Press(direction)) \/ UNCHANGED vars
  BY <1>6, <1>1, <1>2, OthersAside DEF IInv
<1>7. CASE \/ Turn \/ Crash \/ ListTarget \/ listDir \/ ListFails \/ NextPass \/ Finish
           \/ \E n \in Name : FileFails(n) \/ Pull(n)
  BY <1>7, <1>1, <1>3, RunOnward DEF IInv
<1> QED
  BY <1>4, <1>5, <1>6, <1>7 DEF Next, SyncDir

(* prune keeps the newest files at the target, though every run prunes by  *)
(* a listing that others have outdated.                                    *)
THEOREM NewestAlwaysStay == Spec => []NewestStayAtTarget
<1>1. Init => IInv
  BY InitSyncInv, InitDirTyped DEF IInv
<1>2. IInv => NewestStayAtTarget
  BY DEF IInv, SyncInv, NewestStayAtTarget, Target!NewestStay, Surplus
<1> QED
  BY <1>1, <1>2, StepKeepsIInv, PTL DEF Spec

(* Every step of a machine is one that the machines promised each other,   *)
(* or touches nothing they share (SyncDir, prune).                         *)
THEOREM PromiseIsKept == Spec => KeepsThePromise
<1>1. Init => IInv
  BY InitSyncInv, InitDirTyped DEF IInv
<1>2. Init => Target!Init
  BY DEF Init, Target!Init, HeldIn
<1>3. ASSUME IInv, IInv', [Next]_vars
      PROVE  [Target!Next]_(Target!targetVars)
  <2>1. ASSUME \E n \in Name : Puts(n) \/ Drops(n)
        PROVE  Target!Next
    BY <2>1 DEF Puts, Drops, Target!Next, Target!Put, Target!Drop, Surplus, HeldIn
  <2>2. ASSUME Aside \/ Onward PROVE UNCHANGED Target!targetVars
    BY <2>2 DEF Aside, Onward, remote, Target!targetVars, HeldIn
  <2>3. CASE \E n \in Name : Push(n) \/ Remove(n)
    BY <2>1, <2>3, <1>3, AtTheTarget DEF IInv, DirTyped
  <2>4. CASE Elsewhere
    BY <2>1, <2>4, <1>3, ElsewhereAtTheTarget DEF IInv
  <2>5. CASE Backup \/ Tick \/ LeaveWork \/ (\E direction \in Direction : GiveUp(direction))
               \/ (\E direction \in Asked : Press(direction)) \/ UNCHANGED vars
    BY <2>2, <2>5, OthersAside
  <2>6. CASE \/ Turn \/ Crash \/ ListTarget \/ listDir \/ ListFails \/ NextPass \/ Finish
             \/ \E n \in Name : FileFails(n) \/ Pull(n)
    BY <2>2, <2>6, <1>3, RunOnward DEF IInv
  <2> QED
    BY <1>3, <2>3, <2>4, <2>5, <2>6 DEF Next, SyncDir
<1> QED
  BY <1>1, <1>2, <1>3, StepKeepsIInv, PTL DEF Spec, KeepsThePromise, Target!Spec

-----------------------------------------------------------------------------

\* The directions of a run that gets to a pass.
Passes(at, direction) ==
  CASE at \in {"push", "prune"} -> direction # "down"
    [] at = "pull"              -> direction # "up"
    [] OTHER                    -> TRUE

RunTyped == run \in Run /\ Passes(run.at, run.direction)

MarksTyped ==
  /\ clock \in 0 .. MaxTime /\ events \in 0 .. MaxEvents
  /\ waiting \subseteq Direction /\ late \in BOOLEAN /\ pending \in BOOLEAN

LEMMA IdleTyped ==
  ASSUME NEW at \in {"idle", "list", "end"}, NEW direction \in Direction, NEW r,
         r = [at |-> at, direction |-> direction, remote |-> {}, local |-> {}, left |-> {}]
  PROVE  r \in Run /\ Passes(r.at, r.direction)
BY DEF Run, Passes, Direction

LEMMA InitTyped == Init => RunTyped /\ MarksTyped
<1> SUFFICES ASSUME Init PROVE RunTyped /\ MarksTyped
  OBVIOUS
<1>1. "up" \in Direction
  BY DEF Direction
<1>2. RunTyped
  BY <1>1, IdleTyped DEF Init, Idle, RunTyped
<1>3. MarksTyped
  <2>1. clock \in 0 .. MaxTime /\ events \in 0 .. MaxEvents
    BY SyncAssumption DEF Init
  <2>2. waiting \subseteq Direction /\ late \in BOOLEAN /\ pending \in BOOLEAN
    BY Zenon DEF Init
  <2> QED
    BY <2>1, <2>2 DEF MarksTyped
<1> QED
  BY <1>2, <1>3

LEMMA StepKeepsMarks ==
  ASSUME MarksTyped, [Next]_vars
  PROVE  MarksTyped'
<1> USE SyncAssumption DEF MarksTyped
<1>1. CASE TakeBackup
  BY <1>1 DEF TakeBackup, queue, Name
<1>10. CASE FinishBackup
  BY <1>10 DEF FinishBackup, Direction
<1>11. CASE BackupFails \/ DeleteBackup
  BY <1>11 DEF BackupFails, DeleteBackup, queue
<1>2. CASE Tick \/ LeaveWork \/ Finish
  BY <1>2 DEF Tick, LeaveWork, Finish, local, Direction
<1>3. CASE \E direction \in Direction : acquireCloudSync(direction) \/ GiveUp(direction)
  BY <1>3 DEF acquireCloudSync, GiveUp, local
<1>4. CASE \E direction \in Asked : Press(direction)
  BY <1>4 DEF Press, local, Direction
<1>5. CASE ListTarget \/ listDir \/ ListFails \/ NextPass
  BY <1>5 DEF ListTarget, listDir, ListFails, NextPass, local, queue
<1>6. CASE \E n \in Name : Push(n) \/ Remove(n) \/ FileFails(n) \/ Pull(n)
  BY <1>6 DEF Push, Remove, FileFails, Pull, local, queue
<1>7. CASE Elsewhere
  BY <1>7 DEF Elsewhere, queue, Name
<1>8. CASE Crash
  <2>1. events' = events + 1 /\ events < MaxEvents /\ UNCHANGED clock
        /\ waiting' = {} /\ late' = FALSE /\ pending' = FALSE
    BY <1>8 DEF Crash
  <2>2. clock' \in 0 .. MaxTime /\ events' \in 0 .. MaxEvents
    BY <2>1
  <2>3. waiting' \subseteq Direction /\ late' \in BOOLEAN /\ pending' \in BOOLEAN
    BY <2>1, Zenon
  <2> QED
    BY <2>2, <2>3
<1>9. CASE UNCHANGED vars
  BY <1>9 DEF vars, local, queue
<1> QED
  BY <1>1, <1>10, <1>11, <1>2, <1>3, <1>4, <1>5, <1>6, <1>7, <1>8, <1>9 DEF Next, Backup, Turn, SyncDir

(* What a run enters is a pass of its direction, and names are all it has. *)
LEMMA EnteredTyped ==
  ASSUME NEW r \in Run, NEW at \in {"push", "pull", "prune", "end"}, Passes(at, r.direction)
  PROVE  Enter(at, r) \in Run /\ Passes(Enter(at, r).at, Enter(at, r).direction)
<1>1. \A names : Surplus(names) \subseteq names
  BY DEF Surplus, Target!Surplus
<1>2. CASE at = "end"
  BY <1>2 DEF Enter, Over, Idle, Run, Passes, Direction
<1>3. CASE at = "prune"
  BY <1>1, <1>3 DEF Enter, LeftIn, Run, Passes
<1>4. CASE at \in {"push", "pull"}
  BY <1>4 DEF Enter, LeftIn, Run, Passes
<1> QED
  BY <1>2, <1>3, <1>4

LEMMA StepKeepsRun ==
  ASSUME RunTyped, [Next]_vars
  PROVE  RunTyped'
<1>1. CASE Aside
  BY <1>1 DEF Aside, RunTyped
<1>2. CASE Turn \/ Finish \/ Crash \/ ListFails
  <2>1. "up" \in Direction
    BY DEF Direction
  <2>2. CASE Turn
    BY <2>2, IdleTyped DEF Turn, acquireCloudSync, Idle, RunTyped
  <2>3. CASE Finish
    BY <2>1, <2>3, IdleTyped DEF Finish, Idle, RunTyped
  <2>4. CASE Crash
    BY <2>1, <2>4, IdleTyped DEF Crash, Idle, RunTyped
  <2>5. CASE ListFails
    BY <2>1, <2>5, IdleTyped DEF ListFails, Over, Idle, RunTyped
  <2> QED
    BY <1>2, <2>2, <2>3, <2>4, <2>5
<1>3. CASE ListTarget
  BY <1>3 DEF ListTarget, RunTyped, Run, Passes, HeldIn
<1>4. CASE listDir
  <2> DEFINE seen == [run EXCEPT !.local = HeldIn(dir)]
             at == After(run.direction)["dir"]
  <2>1. seen \in Run /\ seen.direction = run.direction
    BY DEF RunTyped, Run, HeldIn
  <2>2. at \in {"push", "pull"} /\ Passes(at, run.direction)
    BY DEF RunTyped, Run, Direction, After, Passes
  <2>3. run' = Enter(at, seen)
    BY <1>4 DEF listDir
  <2> HIDE DEF seen, at
  <2> QED
    BY <2>1, <2>2, <2>3, EnteredTyped DEF RunTyped
<1>5. CASE NextPass
  <2> DEFINE at == After(run.direction)[run.at]
  <2>1. at \in {"push", "pull", "prune", "end"} /\ Passes(at, run.direction)
    BY <1>5 DEF NextPass, RunTyped, Run, Direction, After, Passes
  <2>2. run' = Enter(at, run)
    BY <1>5 DEF NextPass
  <2> HIDE DEF at
  <2> QED
    BY <2>1, <2>2, EnteredTyped DEF RunTyped
<1>6. CASE \E n \in Name : Push(n) \/ Remove(n) \/ FileFails(n) \/ Pull(n)
  <2>1. PICK n \in Name : Push(n) \/ Remove(n) \/ FileFails(n) \/ Pull(n)
    BY <1>6
  <2>2. Done(n) \in Run /\ Done(n).at = run.at /\ Done(n).direction = run.direction
    BY DEF Done, RunTyped, Run
  <2>3. \/ run' = Done(n) \/ run' = [Done(n) EXCEPT !.remote = @ \cup {n}]
        \/ run' = [Done(n) EXCEPT !.remote = @ \ {n}] \/ run' = [Done(n) EXCEPT !.local = @ \cup {n}]
    BY <2>1 DEF Push, Remove, FileFails, Pull
  <2> HIDE DEF Done
  <2>4. run' \in Run /\ run'.at = run.at /\ run'.direction = run.direction
    BY <2>2, <2>3 DEF Run
  <2> QED
    BY <2>4 DEF RunTyped
<1>7. CASE Elsewhere
  BY <1>7 DEF Elsewhere, RunTyped
<1> QED
  BY <1>1, <1>2, <1>3, <1>4, <1>5, <1>6, <1>7, OthersAside DEF Next, SyncDir

(* Type correctness: the run, the directory and the target hold names and  *)
(* copies of them, and nothing is at the target, or taken to be by a run,  *)
(* that never reached it (acquireCloudSync, SyncDir).                      *)
THEOREM SyncTyped == Spec => []TypeOK
<1> DEFINE Typed == IInv /\ RunTyped /\ MarksTyped
<1>1. Init => Typed
  BY InitSyncInv, InitDirTyped, InitTyped DEF IInv
<1>2. Typed /\ [Next]_vars => Typed'
  BY StepKeepsIInv, StepKeepsRun, StepKeepsMarks
<1>3. Typed => TypeOK
  BY DEF IInv, SyncInv, DirTyped, RunTyped, MarksTyped, TypeOK
<1> QED
  BY <1>1, <1>2, <1>3, PTL DEF Spec

-----------------------------------------------------------------------------
(* Self-update.                                                            *)

ProcessRecord ==
  [pc : {"down", "begun", "starting", "undo", "back", "serving", "leaving"}, build : File, by : BOOLEAN]
UpdateRecord ==
  [pc : {"idle", "asked", "fetch", "tested", "aside", "swapped", "noted"},
   in : Process \cup {None}, build : File]

\* The parts of UpdateTypeOK, and that an update is in a process.
FilesTyped ==
  exe \in File /\ old \in File /\ failed \in File /\ staged \in File /\ note \in BOOLEAN
ProcessTyped == process \in [Process -> ProcessRecord]
StageTyped == stage \in [Process -> {"idle", "going", "failed"}]
UpdateTyped == update \in [Update -> UpdateRecord]
InProcess(u) ==
  update[u].pc # "idle" =>
    update[u].in \in Process /\ process[update[u].in].pc \in {"serving", "leaving"}
OneServes ==
  \A p, q \in Process : process[p].pc = "serving" /\ process[q].pc = "serving" => p = q

AllTyped ==
  /\ FilesTyped /\ ProcessTyped /\ StageTyped /\ UpdateTyped /\ troubled \in BOOLEAN
  /\ \A u \in Update : InProcess(u)
  /\ OneServes

LEMMA InitAllTyped == UpdateInit => AllTyped
<1> SUFFICES ASSUME UpdateInit PROVE AllTyped
  OBVIOUS
<1>1. First \in File /\ None \in File
  BY UpdateAssumption DEF File
<1>2. Down \in ProcessRecord /\ NoUpdate \in UpdateRecord
  BY <1>1 DEF Down, NoUpdate, ProcessRecord, UpdateRecord
<1>3. FilesTyped
  BY <1>1 DEF UpdateInit, FilesTyped
<1>4. ProcessTyped /\ UpdateTyped /\ StageTyped
  BY <1>2 DEF UpdateInit, ProcessTyped, UpdateTyped, StageTyped
<1>5. troubled \in BOOLEAN
  BY Zenon DEF UpdateInit
<1>6. \A u \in Update : InProcess(u)
  BY DEF UpdateInit, InProcess, NoUpdate
<1>7. OneServes
  BY DEF UpdateInit, OneServes, Down
<1> QED
  BY <1>3, <1>4, <1>5, <1>6, <1>7 DEF AllTyped

-----------------------------------------------------------------------------
(* What the steps do to the processes and the updates.                     *)

LEMMA Endings ==
  ASSUME AllTyped, NEW gone \in SUBSET Process, End(gone)
  PROVE  /\ ProcessTyped' /\ StageTyped' /\ UpdateTyped'
         /\ \A u \in Update : InProcess(u)'
         /\ OneServes'
<1>1. None \in File
  BY DEF File
<1>2. Down \in ProcessRecord /\ NoUpdate \in UpdateRecord
  BY <1>1 DEF Down, NoUpdate, ProcessRecord, UpdateRecord
<1>3. ProcessTyped' /\ UpdateTyped' /\ StageTyped'
  BY <1>2 DEF End, AllTyped, ProcessTyped, UpdateTyped, StageTyped
<1>4. \A q \in Process : process'[q] = IF q \in gone THEN Down ELSE process[q]
  BY DEF End
<1>5. \A u \in Update : update'[u] = IF update[u].in \in gone THEN NoUpdate ELSE update[u]
  BY DEF End
<1>6. \A u \in Update : InProcess(u)'
  BY <1>4, <1>5 DEF AllTyped, InProcess, NoUpdate
<1>7. OneServes'
  BY <1>4 DEF AllTyped, OneServes, Down
<1> QED
  BY <1>3, <1>6, <1>7

(* A step that ends no process and starts no update.                       *)
LEMMA ProcessMoves ==
  ASSUME AllTyped, ProcessTyped', UNCHANGED <<stage, update>>,
         \A q \in Process : process'[q].pc = process[q].pc \/ process'[q].pc \notin {"serving", "leaving"},
         \A q \in Process : process[q].pc \in {"serving", "leaving"} => process'[q].pc = process[q].pc
  PROVE  StageTyped' /\ UpdateTyped' /\ (\A u \in Update : InProcess(u)') /\ OneServes'
BY DEF AllTyped, StageTyped, UpdateTyped, InProcess, OneServes

LEMMA UpdateMoves ==
  ASSUME AllTyped, StageTyped', UpdateTyped', UNCHANGED process,
         \A u \in Update :
           \/ update'[u].pc = "idle"
           \/ update'[u].in = update[u].in /\ update[u].pc # "idle"
           \/ update'[u].in \in Process /\ process[update'[u].in].pc = "serving"
  PROVE  ProcessTyped' /\ (\A u \in Update : InProcess(u)') /\ OneServes'
BY DEF AllTyped, ProcessTyped, InProcess, OneServes

LEMMA BegunTyped ==
  ASSUME AllTyped
  PROVE  Begun \in ProcessRecord
BY DEF AllTyped, FilesTyped, Begun, ProcessRecord

(* Every step of a process's start keeps the types.                        *)
LEMMA StartupTyped ==
  ASSUME AllTyped, NEW p \in Process, Start(p) \/ Startup(p) \/ Leave(p) \/ Die(p)
  PROVE  AllTyped'
<1> USE DEF FilesTyped
<1>1. None \in File
  BY DEF File
<1>2. process[p] \in ProcessRecord /\ note \in BOOLEAN
  BY DEF AllTyped, ProcessTyped
<1>3. \A b \in BOOLEAN : troubled' = (troubled \/ b) => troubled' \in BOOLEAN
  OBVIOUS
<1>4. troubled' \in BOOLEAN
  <2>1. CASE UNCHANGED troubled
    BY <2>1 DEF AllTyped
  <2>2. CASE \E happened \in BOOLEAN : troubled' = (troubled \/ happened)
    BY <2>2
  <2> QED
    BY <2>1, <2>2 DEF Start, Startup, Leave, Die, Trouble, BeginStartup, FinishStartup, StaysDown,
         MoveFailedAside, PutBack, StartPrevious
<1>5. CASE Start(p)
  <2>1. ProcessTyped'
    BY <1>5, BegunTyped DEF Start, AllTyped, ProcessTyped
  <2>2. \A q \in Process : process'[q] = IF q = p THEN Begun ELSE process[q]
    BY <1>5 DEF Start, AllTyped, ProcessTyped
  <2>3. StageTyped' /\ UpdateTyped' /\ (\A u \in Update : InProcess(u)') /\ OneServes'
    BY <1>5, <2>1, <2>2, ProcessMoves DEF Start, Begun
  <2> QED
    BY <1>4, <1>5, <2>1, <2>3 DEF Start, files, AllTyped
<1>6. CASE BeginStartup(p)
  <2>1. [process[p] EXCEPT !.pc = "starting", !.by = note] \in ProcessRecord
    BY <1>2 DEF ProcessRecord
  <2>2. ProcessTyped'
    BY <1>6, <2>1 DEF BeginStartup, AllTyped, ProcessTyped
  <2>3. \A q \in Process : process'[q].pc = IF q = p THEN "starting" ELSE process[q].pc
    BY <1>6, <1>2 DEF BeginStartup, AllTyped, ProcessTyped, ProcessRecord
  <2>4. process[p].pc = "begun" /\ UNCHANGED <<stage, update>>
    BY <1>6 DEF BeginStartup
  <2>5. StageTyped' /\ UpdateTyped' /\ (\A u \in Update : InProcess(u)') /\ OneServes'
    BY <2>2, <2>3, <2>4, ProcessMoves
  <2> QED
    BY <1>1, <1>4, <1>6, <2>2, <2>5 DEF BeginStartup, AllTyped
<1>7. CASE FinishStartup(p)
  <2>1. [process[p] EXCEPT !.pc = "serving", !.by = FALSE] \in ProcessRecord
    BY <1>2 DEF ProcessRecord
  <2>2. Down \in ProcessRecord /\ NoUpdate \in UpdateRecord
    BY <1>1 DEF Down, NoUpdate, ProcessRecord, UpdateRecord
  <2>3. ProcessTyped' /\ StageTyped' /\ UpdateTyped'
    BY <1>7, <2>1, <2>2 DEF FinishStartup, AllTyped, ProcessTyped, StageTyped, UpdateTyped
  <2>4. \A u \in Update : InProcess(u)'
    BY <1>7 DEF FinishStartup, InProcess, NoUpdate
  <2>5. \A q \in Process : process'[q].pc = "serving" => q = p
    BY <1>7 DEF FinishStartup, Down
  <2> QED
    BY <1>1, <1>4, <1>7, <2>3, <2>4, <2>5 DEF FinishStartup, AllTyped, OneServes
<1>8. CASE StaysDown(p) \/ Leave(p) \/ Die(p)
  BY <1>4, <1>8, Endings DEF StaysDown, Leave, Die, files, AllTyped
<1>9. CASE MoveFailedAside(p)
  <2>1. [process[p] EXCEPT !.pc = "undo"] \in ProcessRecord
    BY <1>2 DEF ProcessRecord
  <2>2. ProcessTyped'
    BY <1>9, <2>1 DEF MoveFailedAside, AllTyped, ProcessTyped
  <2>3. \A q \in Process : process'[q].pc = IF q = p THEN "undo" ELSE process[q].pc
    BY <1>9, <1>2 DEF MoveFailedAside, AllTyped, ProcessTyped, ProcessRecord
  <2>4. StageTyped' /\ UpdateTyped' /\ (\A u \in Update : InProcess(u)') /\ OneServes'
    BY <1>9, <2>2, <2>3, ProcessMoves DEF MoveFailedAside
  <2> QED
    BY <1>1, <1>4, <1>9, <2>2, <2>4 DEF MoveFailedAside, AllTyped
<1>10. CASE PutBack(p)
  <2>1. CASE End({p})
    BY <1>1, <1>4, <1>10, <2>1, Endings DEF PutBack, AllTyped
  <2>2. CASE process' = [process EXCEPT ![p].pc = "back"] /\ UNCHANGED <<stage, update>>
    <3>1. [process[p] EXCEPT !.pc = "back"] \in ProcessRecord
      BY <1>2 DEF ProcessRecord
    <3>2. ProcessTyped'
      BY <2>2, <3>1 DEF AllTyped, ProcessTyped
    <3>3. \A q \in Process : process'[q].pc = IF q = p THEN "back" ELSE process[q].pc
      BY <2>2, <1>2 DEF AllTyped, ProcessTyped, ProcessRecord
    <3>4. StageTyped' /\ UpdateTyped' /\ (\A u \in Update : InProcess(u)') /\ OneServes'
      BY <1>10, <2>2, <3>2, <3>3, ProcessMoves DEF PutBack
    <3> QED
      BY <1>1, <1>4, <1>10, <3>2, <3>4 DEF PutBack, AllTyped
  <2> QED
    BY <1>10, <2>1, <2>2 DEF PutBack
<1>11. CASE StartPrevious(p)
  <2>1. CASE End({p})
    BY <1>4, <1>11, <2>1, Endings DEF StartPrevious, files, AllTyped
  <2>2. ASSUME NEW q \in Process \ {p}, process[q].pc = "down",
               process' = [process EXCEPT ![p] = Down, ![q] = Begun], UNCHANGED <<stage, update>>
        PROVE  AllTyped'
    <3>1. Down \in ProcessRecord
      BY <1>1 DEF Down, ProcessRecord
    <3>2. ProcessTyped'
      BY <2>2, <3>1, BegunTyped DEF AllTyped, ProcessTyped
    <3>3. \A r \in Process : process'[r].pc = IF r = p THEN "down" ELSE IF r = q THEN "begun" ELSE process[r].pc
      BY <2>2 DEF AllTyped, ProcessTyped, Down, Begun
    <3>4. process[p].pc = "back" /\ process[q].pc = "down" /\ q \in Process
      BY <1>11, <2>2 DEF StartPrevious
    <3>5. /\ \A r \in Process : process'[r].pc = process[r].pc \/ process'[r].pc \notin {"serving", "leaving"}
          /\ \A r \in Process : process[r].pc \in {"serving", "leaving"} => process'[r].pc = process[r].pc
      BY <3>3, <3>4
    <3>6. StageTyped' /\ UpdateTyped' /\ (\A u \in Update : InProcess(u)') /\ OneServes'
      BY <2>2, <3>2, <3>5, ProcessMoves
    <3> QED
      BY <1>4, <1>11, <3>2, <3>6 DEF StartPrevious, files, AllTyped
  <2> QED
    BY <1>11, <2>1, <2>2 DEF StartPrevious
<1> QED
  BY <1>5, <1>6, <1>7, <1>8, <1>9, <1>10, <1>11 DEF Startup

(* Only one update moves in a step.                                        *)
LEMMA OthersStay ==
  ASSUME AllTyped, NEW u \in Update, NEW r \in UpdateRecord, update' = [update EXCEPT ![u] = r],
         \/ r.pc = "idle"
         \/ r.in = update[u].in /\ update[u].pc # "idle"
         \/ r.in \in Process /\ process[r.in].pc = "serving",
         StageTyped', UNCHANGED process
  PROVE  UpdateTyped' /\ ProcessTyped' /\ (\A v \in Update : InProcess(v)') /\ OneServes'
<1>1. UpdateTyped'
  BY DEF AllTyped, UpdateTyped
<1>2. \A v \in Update : update'[v] = IF v = u THEN r ELSE update[v]
  BY DEF AllTyped, UpdateTyped
<1>3. \A v \in Update :
           \/ update'[v].pc = "idle"
           \/ update'[v].in = update[v].in /\ update[v].pc # "idle"
           \/ update'[v].in \in Process /\ process[update'[v].in].pc = "serving"
  BY <1>2
<1> QED
  BY <1>1, <1>3, UpdateMoves

LEMMA UpdateTypedStep ==
  ASSUME AllTyped, NEW u \in Update, runUpdate(u) \/ \E p \in Process : StartUpdate(u, p)
  PROVE  AllTyped'
<1> USE DEF FilesTyped
<1>1. None \in File /\ Build \subseteq File
  BY DEF File
<1>2. update[u] \in UpdateRecord
  BY DEF AllTyped, UpdateTyped
<1>3. NoUpdate \in UpdateRecord /\ NoUpdate.pc = "idle"
  BY <1>1 DEF NoUpdate, UpdateRecord
<1>4. troubled' \in BOOLEAN
  <2>1. CASE UNCHANGED troubled
    BY <2>1 DEF AllTyped
  <2>2. CASE \E happened \in BOOLEAN : troubled' = (troubled \/ happened)
    BY <2>2
  <2> QED
    BY <2>1, <2>2 DEF runUpdate, StartUpdate, Trouble, NoRelease, ReleaseFound, Unpack, UpdateFails,
         MoveAside, Replace, noteRestart, restart
<1>5. ASSUME Fails(u), update[u].pc # "idle"
      PROVE  StageTyped' /\ update' = [update EXCEPT ![u] = NoUpdate] /\ staged' = None
  BY <1>5 DEF Fails, AllTyped, StageTyped, InProcess
<1>6. ASSUME NEW pc \in {"fetch", "tested", "aside", "swapped", "noted"}, Goes(u, pc)
      PROVE  /\ update' = [update EXCEPT ![u] = [update[u] EXCEPT !.pc = pc]]
             /\ [update[u] EXCEPT !.pc = pc] \in UpdateRecord
             /\ [update[u] EXCEPT !.pc = pc].in = update[u].in
  BY <1>2, <1>6 DEF Goes, UpdateRecord
<1>7. ASSUME Fails(u), update[u].pc # "idle", UNCHANGED <<exe, failed, process>>, old' \in File, note' \in BOOLEAN
      PROVE  AllTyped'
  <2>1. UpdateTyped' /\ ProcessTyped' /\ (\A v \in Update : InProcess(v)') /\ OneServes'
    BY <1>3, <1>5, <1>7, OthersStay
  <2> QED
    BY <1>1, <1>4, <1>5, <1>7, <2>1 DEF AllTyped
<1>8. ASSUME NEW pc \in {"fetch", "tested", "aside", "swapped", "noted"}, Goes(u, pc), update[u].pc # "idle",
             UNCHANGED <<stage, process>>, FilesTyped'
      PROVE  AllTyped'
  <2>1. UpdateTyped' /\ ProcessTyped' /\ (\A v \in Update : InProcess(v)') /\ OneServes'
    BY <1>6, <1>8, OthersStay DEF AllTyped, StageTyped
  <2> QED
    BY <1>4, <1>8, <2>1 DEF AllTyped, StageTyped
<1>9. CASE NoRelease(u)
  <2>1. UpdateTyped' /\ ProcessTyped' /\ (\A v \in Update : InProcess(v)') /\ OneServes'
    BY <1>3, <1>9, OthersStay DEF NoRelease, AllTyped, StageTyped
  <2> QED
    BY <1>4, <1>9, <2>1 DEF NoRelease, AllTyped, StageTyped, files
<1>10. ASSUME NEW p \in Process, StartUpdate(u, p)
       PROVE  AllTyped'
  <2> DEFINE asked == [pc |-> "asked", in |-> p, build |-> None]
  <2>1. asked \in UpdateRecord
    BY <1>1 DEF UpdateRecord
  <2>2. update' = [update EXCEPT ![u] = asked] /\ UNCHANGED <<stage, process>> /\ process[asked.in].pc = "serving"
    BY <1>10 DEF StartUpdate
  <2>3. UpdateTyped' /\ ProcessTyped' /\ (\A v \in Update : InProcess(v)') /\ OneServes'
    BY <2>1, <2>2, OthersStay DEF AllTyped, StageTyped
  <2> QED
    BY <1>4, <1>10, <2>3 DEF StartUpdate, AllTyped, StageTyped, files
<1>11. CASE ReleaseFound(u)
  <2>1. PICK b \in Build : update' = [update EXCEPT ![u].pc = "fetch", ![u].build = b]
    BY <1>11 DEF ReleaseFound
  <2> DEFINE r == [update[u] EXCEPT !.pc = "fetch", !.build = b]
  <2>2. r \in UpdateRecord /\ r.in = update[u].in
    BY <1>1, <1>2 DEF UpdateRecord
  <2>3. update' = [update EXCEPT ![u] = r]
    BY <2>1 DEF AllTyped, UpdateTyped
  <2>4. StageTyped' /\ UNCHANGED process /\ update[u].pc # "idle"
    BY <1>11 DEF ReleaseFound, AllTyped, StageTyped
  <2> HIDE DEF r
  <2>5. UpdateTyped' /\ ProcessTyped' /\ (\A v \in Update : InProcess(v)') /\ OneServes'
    BY <2>2, <2>3, <2>4, OthersStay
  <2> QED
    BY <1>1, <1>4, <1>11, <2>4, <2>5 DEF ReleaseFound, AllTyped
<1>12. CASE Unpack(u)
  <2>1. update[u].build \in File
    BY <1>2 DEF UpdateRecord
  <2> QED
    BY <1>8, <1>12, <2>1 DEF Unpack, AllTyped
<1>13. CASE UpdateFails(u)
  BY <1>7, <1>13 DEF UpdateFails, AllTyped
<1>14. CASE MoveAside(u)
  BY <1>1, <1>7, <1>8, <1>14 DEF MoveAside, AllTyped
<1>15. CASE Replace(u)
  <2>1. CASE Fails(u)
    <3>1. UpdateTyped' /\ ProcessTyped' /\ (\A v \in Update : InProcess(v)') /\ OneServes'
      BY <1>3, <1>5, <1>15, <2>1, OthersStay DEF Replace
    <3> QED
      BY <1>1, <1>4, <1>5, <1>15, <2>1, <3>1 DEF Replace, AllTyped
  <2>2. CASE staged # None /\ exe' = staged /\ staged' = None /\ Goes(u, "swapped") /\ UNCHANGED <<old, stage>>
    BY <1>1, <1>8, <1>15, <2>2 DEF Replace, AllTyped
  <2> QED
    BY <1>15, <2>1, <2>2 DEF Replace
<1>16. CASE noteRestart(u)
  <2>1. note' \in BOOLEAN
    BY <1>16, Zenon DEF noteRestart, AllTyped
  <2> QED
    BY <1>8, <1>16, <2>1 DEF noteRestart, AllTyped, files
<1>17. CASE restart(u)
  <2>1. CASE note' = FALSE /\ Fails(u) /\ UNCHANGED process
    BY <1>7, <1>17, <2>1 DEF restart, AllTyped
  <2>2. ASSUME NEW q \in Process, process[q].pc = "down",
               process' = [process EXCEPT ![update[u].in].pc = "leaving", ![q] = Begun],
               update' = [update EXCEPT ![u] = NoUpdate], staged' = None, UNCHANGED <<note, stage>>
        PROVE  AllTyped'
    <3>1. PICK p \in Process : p = update[u].in /\ process[p].pc \in {"serving", "leaving"}
      BY <1>17 DEF restart, AllTyped, InProcess
    <3>2. [process[p] EXCEPT !.pc = "leaving"] \in ProcessRecord /\ p # q
      BY <2>2, <3>1 DEF AllTyped, ProcessTyped, ProcessRecord
    <3>3. process' = [r \in Process |-> IF r = q THEN Begun ELSE
                                       IF r = p THEN [process[p] EXCEPT !.pc = "leaving"] ELSE process[r]]
      BY <2>2, <3>1, <3>2 DEF AllTyped, ProcessTyped
    <3>4. ProcessTyped' /\ UpdateTyped' /\ StageTyped'
      BY <1>3, <2>2, <3>2, <3>3, BegunTyped DEF AllTyped, ProcessTyped, UpdateTyped, StageTyped
    <3>5. \A r \in Process : process'[r].pc = IF r = q THEN "begun" ELSE IF r = p THEN "leaving" ELSE process[r].pc
      BY <3>2, <3>3 DEF Begun, ProcessRecord, AllTyped, ProcessTyped
    <3>6. \A v \in Update : update'[v] = IF v = u THEN NoUpdate ELSE update[v]
      BY <2>2 DEF AllTyped, UpdateTyped
    <3>7. \A v \in Update : InProcess(v)'
      <4> SUFFICES ASSUME NEW v \in Update, update'[v].pc # "idle"
                   PROVE  update'[v].in \in Process /\ process'[update'[v].in].pc \in {"serving", "leaving"}
        BY DEF InProcess
      <4>1. update'[v] = update[v]
        BY <1>3, <3>6
      <4>2. PICK r \in Process : r = update[v].in /\ process[r].pc \in {"serving", "leaving"}
        BY <4>1 DEF AllTyped, InProcess
      <4>3. r # q
        BY <2>2, <4>2
      <4>4. process'[r].pc \in {"serving", "leaving"}
        BY <3>5, <4>2, <4>3
      <4> QED
        BY <4>1, <4>2, <4>4
    <3>8. \A r \in Process : process'[r].pc = "serving" => process[r].pc = "serving"
      BY <3>5
    <3>9. OneServes'
      BY <3>8 DEF AllTyped, OneServes
    <3> QED
      BY <1>1, <1>4, <1>17, <2>2, <3>4, <3>7, <3>9 DEF restart, AllTyped
  <2> QED
    BY <1>17, <2>1, <2>2 DEF restart
<1> QED
  BY <1>9, <1>10, <1>11, <1>12, <1>13, <1>14, <1>15, <1>16, <1>17 DEF runUpdate

LEMMA StepTyped == AllTyped /\ [UpdateNext]_updateVars => AllTyped'
<1> SUFFICES ASSUME AllTyped, [UpdateNext]_updateVars PROVE AllTyped'
  OBVIOUS
<1>1. CASE UNCHANGED updateVars
  BY <1>1 DEF updateVars, files, AllTyped, FilesTyped, ProcessTyped, StageTyped, UpdateTyped, InProcess, OneServes
<1> QED
  BY <1>1, StartupTyped, UpdateTypedStep DEF UpdateNext

-----------------------------------------------------------------------------
(* What holds until there is trouble.  One update at a time is between its *)
(* renames and its note, and one rollback between its renames; while an    *)
(* update is there is no note, and what it has replaced, or what a note    *)
(* names, can serve.                                                       *)

Renames == \E u \in Update : Renaming(u)
Undoing(p) == process[p].pc = "undo"

OneAtATime ==
  /\ \A u, v \in Update : Renaming(u) /\ Renaming(v) => u = v
  /\ \A p, q \in Process : Undoing(p) /\ Undoing(q) => p = q
Unnoted == Renames => ~note
Replaced == old \in Sound \cup {None} /\ (old # None => note \/ Renames)
OnTheWay ==
  /\ \A u \in Update : update[u].pc = "aside" => exe = None /\ old \in Sound
  /\ \A p \in Process :
       Undoing(p) => exe = None /\ old \in Sound /\ \A u \in Update : update[u].pc # "aside"
Installed ==
  /\ exe \in Sound \/ exe = None \/ old \in Sound
  /\ exe = None => (\E u \in Update : update[u].pc = "aside") \/ \E p \in Process : Undoing(p)

Calm == OneAtATime /\ Unnoted /\ Replaced /\ OnTheWay /\ Installed

UpdateIInv == AllTyped /\ (~troubled => Calm)

LEMMA InitCalm == UpdateInit => Calm
<1> SUFFICES ASSUME UpdateInit PROVE Calm
  OBVIOUS
<1>1. (\A p \in Process : process[p].pc = "down") /\ (\A u \in Update : update[u].pc = "idle")
  BY DEF UpdateInit, Down, NoUpdate
<1>2. exe \in Sound /\ old = None
  BY UpdateAssumption DEF UpdateInit
<1>3. (\A u \in Update : ~Renaming(u)) /\ \A p \in Process : ~Undoing(p)
  BY <1>1 DEF Renaming, Undoing
<1>4. None \notin Sound
  BY UpdateAssumption
<1> QED
  BY <1>1, <1>2, <1>3, <1>4 DEF Calm, OneAtATime, Unnoted, Replaced, OnTheWay, Installed, Renames

\* No update comes between its renames and its note, or from there, and no
\* rollback between its own.
UpdatesStay ==
  \A u \in Update : /\ update'[u].pc = "aside" <=> update[u].pc = "aside"
                    /\ update'[u].pc = "swapped" <=> update[u].pc = "swapped"
RollbacksStay == \A p \in Process : process'[p].pc = "undo" <=> process[p].pc = "undo"

LEMMA CalmStays ==
  ASSUME Calm, UpdatesStay, RollbacksStay, UNCHANGED <<exe, old, note>>
  PROVE  Calm'
<1>1. /\ \A u \in Update : Renaming(u)' <=> Renaming(u)
      /\ \A p \in Process : Undoing(p)' <=> Undoing(p)
      /\ \A u \in Update : update'[u].pc = "aside" <=> update[u].pc = "aside"
  BY DEF UpdatesStay, RollbacksStay, Renaming, Undoing
<1>2. Renames' <=> Renames
  BY <1>1 DEF Renames
<1>3. OneAtATime' /\ Unnoted' /\ Replaced'
  BY <1>1, <1>2 DEF Calm, OneAtATime, Unnoted, Replaced
<1>4. OnTheWay' /\ Installed'
  BY <1>1 DEF Calm, OnTheWay, Installed
<1> QED
  BY <1>3, <1>4 DEF Calm

(* What is gone, but not in the middle of renames, leaves them be.         *)
LEMMA EndStays ==
  ASSUME AllTyped, NEW gone \in SUBSET Process, End(gone), ~CutShort(gone)
  PROVE  UpdatesStay /\ RollbacksStay
<1>1. /\ \A q \in Process : process'[q] = IF q \in gone THEN Down ELSE process[q]
      /\ \A u \in Update : update'[u] = IF update[u].in \in gone THEN NoUpdate ELSE update[u]
  BY DEF End
<1>2. Down.pc = "down" /\ NoUpdate.pc = "idle"
  BY DEF Down, NoUpdate
<1>3. /\ \A q \in gone : process[q].pc # "undo"
      /\ \A u \in Update : update[u].in \in gone => update[u].pc \notin {"aside", "swapped"}
  BY DEF CutShort, Renaming
<1> QED
  BY <1>1, <1>2, <1>3 DEF UpdatesStay, RollbacksStay

(* One that is not serving has no update, so nothing of one is cut short.  *)
LEMMA NotCutShort ==
  ASSUME AllTyped, NEW p \in Process, process[p].pc \notin {"undo", "serving", "leaving"}
  PROVE  ~CutShort({p})
BY DEF AllTyped, InProcess, CutShort, Renaming

(* Where nothing is being renamed and no note is left, nothing is kept to  *)
(* go back to.                                                             *)
LEMMA NothingKept ==
  ASSUME Calm, ~note, ~Renames
  PROVE  /\ old = None /\ exe \in Sound
         /\ (\A u \in Update : update[u].pc \notin {"aside", "swapped"}) /\ \A p \in Process : ~Undoing(p)
<1>1. old = None /\ None \notin Sound
  BY UpdateAssumption DEF Calm, Replaced
<1>2. (\A u \in Update : update[u].pc \notin {"aside", "swapped"}) /\ \A p \in Process : ~Undoing(p)
  BY <1>1 DEF Calm, OnTheWay, Renames, Renaming
<1>3. exe \in Sound
  BY <1>1, <1>2 DEF Calm, Installed
<1> QED
  BY <1>1, <1>2, <1>3

LEMMA StartKeepsCalm ==
  ASSUME AllTyped, Calm, NEW p \in Process, Start(p)
  PROVE  Calm'
<1>1. /\ \A q \in Process : process'[q] = IF q = p THEN Begun ELSE process[q]
      /\ process[p].pc = "down" /\ UNCHANGED <<exe, old, note, stage, update>>
  BY DEF Start, AllTyped, ProcessTyped, files
<1>2. Begun.pc = "begun"
  BY DEF Begun
<1>3. UpdatesStay /\ RollbacksStay
  BY <1>1, <1>2 DEF UpdatesStay, RollbacksStay
<1> QED
  BY <1>1, <1>3, CalmStays

LEMMA BeginKeepsCalm ==
  ASSUME AllTyped, Calm, NEW p \in Process, BeginStartup(p), ~troubled'
  PROVE  Calm'
<1>1. /\ \A q \in Process : process'[q].pc = IF q = p THEN "starting" ELSE process[q].pc
      /\ process[p].pc = "begun" /\ UNCHANGED <<exe, note, update>>
  BY DEF BeginStartup, AllTyped, ProcessTyped, ProcessRecord
<1>2. old' = old
  <2>1. CASE note
    BY <2>1 DEF BeginStartup
  <2>2. CASE ~note
    <3>1. ~Renames /\ old' = None
      BY <2>2 DEF BeginStartup, Trouble, Renames
    <3> QED
      BY <2>2, <3>1, NothingKept
  <2> QED
    BY <2>1, <2>2
<1>3. UpdatesStay /\ RollbacksStay
  BY <1>1 DEF UpdatesStay, RollbacksStay
<1> QED
  BY <1>1, <1>2, <1>3, CalmStays

LEMMA FinishKeepsCalm ==
  ASSUME AllTyped, Calm, NEW p \in Process, FinishStartup(p), ~troubled'
  PROVE  Calm'
<1> DEFINE holders == {q \in Process : process[q].pc \in {"serving", "leaving"}}
<1>1. /\ ~CutShort(holders)
      /\ process[p].by => process[p].build \in Sound /\ exe = process[p].build
  BY DEF FinishStartup, Trouble
<1>2. \A u \in Update : ~Renaming(u)
  BY <1>1 DEF CutShort, AllTyped, InProcess, Renaming
<1>3. \A u \in Update : update'[u].pc = "idle"
  BY DEF FinishStartup, NoUpdate
<1>4. \A q \in Process : process'[q].pc = "undo" <=> process[q].pc = "undo"
  BY DEF FinishStartup, Down, AllTyped, ProcessTyped, ProcessRecord
<1>5. CASE process[p].by
  <2>1. exe' \in Sound /\ old' = None /\ ~note' /\ exe' = exe
    BY <1>1, <1>5 DEF FinishStartup
  <2>2. None \notin Sound
    BY UpdateAssumption
  <2>3. \A q \in Process : ~Undoing(q)'
    BY <1>4, <2>1, <2>2 DEF Calm, OnTheWay, Undoing
  <2>4. ~Renames' /\ \A u \in Update : ~Renaming(u)'
    BY <1>3 DEF Renames, Renaming
  <2> QED
    BY <1>3, <2>1, <2>2, <2>3, <2>4 DEF Calm, OneAtATime, Unnoted, Replaced, OnTheWay, Installed
<1>6. CASE ~process[p].by
  <2>1. UNCHANGED <<exe, old, note>>
    BY <1>6 DEF FinishStartup
  <2>2. UpdatesStay /\ RollbacksStay
    BY <1>2, <1>3, <1>4 DEF UpdatesStay, RollbacksStay, Renaming
  <2> QED
    BY <2>1, <2>2, CalmStays
<1> QED
  BY <1>5, <1>6

LEMMA MovingAsideKeepsCalm ==
  ASSUME AllTyped, Calm, NEW p \in Process, MoveFailedAside(p)
  PROVE  Calm'
<1>1. /\ \A q \in Process : process'[q].pc = IF q = p THEN "undo" ELSE process[q].pc
      /\ old # None /\ exe # None /\ exe' = None /\ UNCHANGED <<old, note, update>>
  BY DEF MoveFailedAside, AllTyped, ProcessTyped, ProcessRecord
<1>2. /\ \A q \in Process : Undoing(q)' <=> q = p
      /\ \A u \in Update : Renaming(u)' <=> Renaming(u)
      /\ \A u \in Update : update'[u].pc # "aside"
  BY <1>1 DEF Undoing, Renaming, Calm, OnTheWay
<1>3. Renames' <=> Renames
  BY <1>2 DEF Renames
<1>4. old' \in Sound
  BY <1>1 DEF Calm, Replaced
<1>5. OneAtATime' /\ Unnoted' /\ Replaced'
  BY <1>1, <1>2, <1>3 DEF Calm, OneAtATime, Unnoted, Replaced
<1>6. OnTheWay' /\ Installed'
  BY <1>1, <1>2, <1>4 DEF OnTheWay, Installed
<1> QED
  BY <1>5, <1>6 DEF Calm

LEMMA PuttingBackKeepsCalm ==
  ASSUME AllTyped, Calm, NEW p \in Process, PutBack(p), ~troubled'
  PROVE  Calm'
<1>1. /\ Undoing(p) /\ exe = None /\ old \in Sound /\ None \notin Sound
      /\ \A u \in Update : update[u].pc # "aside"
      /\ \A q \in Process : Undoing(q) => q = p
  BY UpdateAssumption DEF PutBack, Calm, OneAtATime, OnTheWay, Undoing
<1>2. note' = note
  BY DEF PutBack
<1>3. /\ \A u \in Update : update'[u].pc # "aside"
      /\ \A u \in Update : Renaming(u)' <=> Renaming(u)
      /\ \A q \in Process : ~Undoing(q)'
  <2>1. CASE End({p})
    <3>1. /\ \A q \in Process : process'[q] = IF q = p THEN Down ELSE process[q]
          /\ \A u \in Update : update'[u] = IF update[u].in = p THEN NoUpdate ELSE update[u]
      BY <2>1 DEF End
    <3>2. \A u \in Update : update[u].pc # "idle" => update[u].in # p
      BY <1>1 DEF Undoing, AllTyped, InProcess
    <3>3. Down.pc = "down" /\ NoUpdate.pc = "idle"
      BY DEF Down, NoUpdate
    <3>4. \A u \in Update : update'[u].pc = update[u].pc
      BY <3>1, <3>2, <3>3
    <3> QED
      BY <1>1, <3>1, <3>3, <3>4 DEF Undoing, Renaming
  <2>2. CASE process' = [process EXCEPT ![p].pc = "back"] /\ update' = update
    <3>1. \A q \in Process : process'[q].pc = IF q = p THEN "back" ELSE process[q].pc
      BY <2>2 DEF AllTyped, ProcessTyped, ProcessRecord
    <3> QED
      BY <1>1, <2>2, <3>1 DEF Undoing, Renaming
  <2> QED
    BY <2>1, <2>2 DEF PutBack
<1>4. \/ exe' \in Sound /\ old' = None
      \/ exe' # None /\ old' = old
  BY <1>1 DEF PutBack, Trouble
<1>5. Renames' <=> Renames
  BY <1>3 DEF Renames
<1>6. OneAtATime'
  BY <1>3 DEF Calm, OneAtATime
<1>7. Unnoted' /\ Replaced'
  BY <1>1, <1>2, <1>4, <1>5 DEF Calm, Unnoted, Replaced
<1>8. OnTheWay' /\ Installed'
  BY <1>1, <1>3, <1>4 DEF OnTheWay, Installed
<1> QED
  BY <1>6, <1>7, <1>8 DEF Calm

LEMMA StartingPreviousKeepsCalm ==
  ASSUME AllTyped, Calm, NEW p \in Process, StartPrevious(p), ~troubled'
  PROVE  Calm'
<1>1. old = None /\ ~note' /\ UNCHANGED <<exe, old>> /\ process[p].pc = "back"
  BY DEF StartPrevious, Trouble, files
<1>2. UpdatesStay /\ RollbacksStay
  <2>1. CASE End({p})
    BY <1>1, <2>1, NotCutShort, EndStays
  <2>2. ASSUME NEW q \in Process \ {p}, process[q].pc = "down",
               process' = [process EXCEPT ![p] = Down, ![q] = Begun], update' = update
        PROVE  UpdatesStay /\ RollbacksStay
    <3>1. \A r \in Process : process'[r].pc = IF r = p THEN "down" ELSE IF r = q THEN "begun" ELSE process[r].pc
      BY <2>2 DEF AllTyped, ProcessTyped, Down, Begun
    <3>2. process[p].pc # "undo" /\ process[q].pc # "undo"
      BY <1>1, <2>2
    <3>3. \A r \in Process : process'[r].pc = "undo" <=> process[r].pc = "undo"
      BY <3>1, <3>2
    <3> QED
      BY <2>2, <3>3 DEF UpdatesStay, RollbacksStay
  <2> QED
    BY <2>1, <2>2 DEF StartPrevious
<1>3. /\ \A u \in Update : Renaming(u)' <=> Renaming(u)
      /\ \A q \in Process : Undoing(q)' <=> Undoing(q)
      /\ \A u \in Update : update'[u].pc = "aside" <=> update[u].pc = "aside"
  BY <1>2 DEF UpdatesStay, RollbacksStay, Renaming, Undoing
<1>4. OneAtATime' /\ Unnoted' /\ Replaced'
  BY <1>1, <1>3 DEF Calm, OneAtATime, Unnoted, Replaced
<1>5. OnTheWay' /\ Installed'
  BY <1>1, <1>3 DEF Calm, OnTheWay, Installed
<1> QED
  BY <1>4, <1>5 DEF Calm

LEMMA ProcessKeepsCalm ==
  ASSUME AllTyped, Calm, NEW p \in Process, Start(p) \/ Startup(p) \/ Leave(p) \/ Die(p), ~troubled'
  PROVE  Calm'
<1>1. CASE StaysDown(p)
  <2>1. End({p}) /\ ~CutShort({p}) /\ UNCHANGED <<exe, old, note>>
    BY <1>1, NotCutShort DEF StaysDown, files
  <2> QED
    BY <2>1, EndStays, CalmStays
<1>2. CASE Leave(p) \/ Die(p)
  <2>1. End({p}) /\ ~CutShort({p}) /\ UNCHANGED <<exe, old, note>>
    BY <1>2 DEF Leave, Die, Trouble, files
  <2> QED
    BY <2>1, EndStays, CalmStays
<1> QED
  BY <1>1, <1>2, StartKeepsCalm, BeginKeepsCalm, FinishKeepsCalm, MovingAsideKeepsCalm, PuttingBackKeepsCalm,
     StartingPreviousKeepsCalm DEF Startup

-----------------------------------------------------------------------------
(* The steps of an update.                                                 *)

(* One goes on, or ends, and the others stay where they are.               *)
LEMMA OneGoes ==
  ASSUME AllTyped, NEW u \in Update
  PROVE  /\ \A pc : Goes(u, pc) => \A v \in Update : update'[v].pc = IF v = u THEN pc ELSE update[v].pc
         /\ Fails(u) => \A v \in Update : update'[v].pc = IF v = u THEN "idle" ELSE update[v].pc
BY DEF Goes, Fails, NoUpdate, AllTyped, UpdateTyped, UpdateRecord

(* Before it renames anything nothing on the disk has changed.             *)
LEMMA AskingKeepsCalm ==
  ASSUME AllTyped, Calm, NEW u \in Update,
         \/ NoRelease(u) \/ ReleaseFound(u) \/ Unpack(u) \/ UpdateFails(u) \/ \E p \in Process : StartUpdate(u, p)
  PROVE  Calm'
<1>1. UNCHANGED <<exe, old, note, process>>
  BY DEF NoRelease, ReleaseFound, Unpack, UpdateFails, StartUpdate, files
<1>2. update[u].pc \in {"idle", "asked", "fetch", "tested"}
  BY DEF NoRelease, ReleaseFound, Unpack, UpdateFails, StartUpdate
<1>3. /\ update'[u].pc \in {"idle", "asked", "fetch", "tested"}
      /\ \A v \in Update \ {u} : update'[v] = update[v]
  BY DEF NoRelease, ReleaseFound, Unpack, UpdateFails, StartUpdate, Goes, Fails, NoUpdate, AllTyped,
         UpdateTyped, UpdateRecord
<1>4. UpdatesStay
  <2>1. ASSUME NEW v \in Update
        PROVE  /\ update'[v].pc = "aside" <=> update[v].pc = "aside"
               /\ update'[v].pc = "swapped" <=> update[v].pc = "swapped"
    BY <1>2, <1>3
  <2> QED
    BY <2>1 DEF UpdatesStay
<1>5. RollbacksStay
  BY <1>1 DEF RollbacksStay
<1> QED
  BY <1>1, <1>4, <1>5, CalmStays

LEMMA MoveAsideKeepsCalm ==
  ASSUME AllTyped, Calm, NEW u \in Update, MoveAside(u), ~troubled'
  PROVE  Calm'
<1>1. ~note /\ ~Renames
  BY DEF MoveAside, Trouble, Renames
<1>2. /\ old = None /\ exe \in Sound /\ None \notin Sound
      /\ (\A v \in Update : update[v].pc \notin {"aside", "swapped"}) /\ \A p \in Process : ~Undoing(p)
  BY <1>1, NothingKept, UpdateAssumption
<1>3. note' = note /\ process' = process
  BY DEF MoveAside
<1>4. CASE old' = exe /\ exe' = None /\ Goes(u, "aside")
  <2>1. \A v \in Update : update'[v].pc = IF v = u THEN "aside" ELSE update[v].pc
    BY <1>4, OneGoes
  <2>2. /\ \A v \in Update : (update'[v].pc = "aside" <=> v = u) /\ (Renaming(v)' <=> v = u)
        /\ \A p \in Process : ~Undoing(p)'
    BY <1>2, <1>3, <2>1 DEF Renaming, Undoing
  <2>3. Renames'
    BY <2>2 DEF Renames
  <2>4. OneAtATime' /\ Unnoted' /\ Replaced'
    BY <1>1, <1>2, <1>3, <1>4, <2>2, <2>3 DEF OneAtATime, Unnoted, Replaced
  <2>5. OnTheWay' /\ Installed'
    BY <1>2, <1>4, <2>2 DEF OnTheWay, Installed
  <2> QED
    BY <2>4, <2>5 DEF Calm
<1>5. CASE old' = None /\ Fails(u) /\ UNCHANGED exe
  <2>1. \A v \in Update : update'[v].pc = IF v = u THEN "idle" ELSE update[v].pc
    BY <1>5, OneGoes
  <2>2. UpdatesStay /\ RollbacksStay
    BY <1>2, <1>3, <2>1 DEF UpdatesStay, RollbacksStay
  <2> QED
    BY <1>2, <1>3, <1>5, <2>2, CalmStays
<1> QED
  BY <1>4, <1>5 DEF MoveAside

LEMMA ReplaceKeepsCalm ==
  ASSUME AllTyped, Calm, NEW u \in Update, Replace(u), ~troubled'
  PROVE  Calm'
<1>1. /\ update[u].pc = "aside" /\ Renaming(u) /\ exe = None /\ old \in Sound /\ None \notin Sound /\ ~note
      /\ (\A v \in Update : Renaming(v) => v = u) /\ \A p \in Process : ~Undoing(p)
  BY UpdateAssumption DEF Replace, Calm, OneAtATime, OnTheWay, Unnoted, Renames, Renaming
<1>2. note' = note /\ process' = process
  BY DEF Replace
<1>3. \A p \in Process : ~Undoing(p)'
  BY <1>1, <1>2 DEF Undoing
<1>4. CASE staged # None /\ exe' = staged /\ Goes(u, "swapped") /\ old' = old
  <2>1. \A v \in Update : update'[v].pc = IF v = u THEN "swapped" ELSE update[v].pc
    BY <1>4, OneGoes
  <2>2. \A v \in Update : update'[v].pc # "aside" /\ (Renaming(v)' <=> v = u)
    BY <1>1, <2>1 DEF Renaming
  <2>3. Renames'
    BY <2>2 DEF Renames
  <2>4. OneAtATime' /\ Unnoted' /\ Replaced'
    BY <1>1, <1>2, <1>3, <1>4, <2>2, <2>3 DEF OneAtATime, Unnoted, Replaced
  <2>5. OnTheWay' /\ Installed'
    BY <1>1, <1>3, <1>4, <2>2 DEF OnTheWay, Installed
  <2> QED
    BY <2>4, <2>5 DEF Calm
<1>5. CASE exe' = old /\ old' = None /\ Fails(u)
  <2>1. \A v \in Update : update'[v].pc = IF v = u THEN "idle" ELSE update[v].pc
    BY <1>5, OneGoes
  <2>2. \A v \in Update : update'[v].pc # "aside" /\ ~Renaming(v)'
    BY <1>1, <2>1 DEF Renaming
  <2>3. ~Renames'
    BY <2>2 DEF Renames
  <2>4. OneAtATime' /\ Unnoted' /\ Replaced'
    BY <1>3, <1>5, <2>2, <2>3 DEF OneAtATime, Unnoted, Replaced
  <2>5. OnTheWay' /\ Installed'
    BY <1>1, <1>3, <1>5, <2>2 DEF OnTheWay, Installed
  <2> QED
    BY <2>4, <2>5 DEF Calm
<1> QED
  BY <1>4, <1>5 DEF Replace, Trouble

LEMMA NoteKeepsCalm ==
  ASSUME AllTyped, Calm, NEW u \in Update, noteRestart(u), ~troubled'
  PROVE  Calm'
<1>1. /\ update[u].pc = "swapped" /\ Renaming(u) /\ \A v \in Update : Renaming(v) => v = u
      /\ \A v \in Update : update[v].pc # "aside"
  BY DEF noteRestart, Calm, OneAtATime, Renaming
<1>2. note' /\ UNCHANGED <<exe, old, process>> /\ Goes(u, "noted")
  BY DEF noteRestart, Trouble, files
<1>3. \A v \in Update : update'[v].pc = IF v = u THEN "noted" ELSE update[v].pc
  BY <1>2, OneGoes
<1>4. /\ \A v \in Update : update'[v].pc # "aside" /\ ~Renaming(v)'
      /\ \A p \in Process : Undoing(p)' <=> Undoing(p)
  BY <1>1, <1>2, <1>3 DEF Renaming, Undoing
<1>5. ~Renames'
  BY <1>4 DEF Renames
<1>6. OneAtATime' /\ Unnoted' /\ Replaced'
  BY <1>2, <1>4, <1>5 DEF Calm, OneAtATime, Unnoted, Replaced
<1>7. OnTheWay' /\ Installed'
  BY <1>1, <1>2, <1>4 DEF Calm, OnTheWay, Installed
<1> QED
  BY <1>6, <1>7 DEF Calm

LEMMA RestartKeepsCalm ==
  ASSUME AllTyped, Calm, NEW u \in Update, restart(u), ~troubled'
  PROVE  Calm'
<1>1. PICK q \in Process :
        /\ process[q].pc = "down"
        /\ process' = [process EXCEPT ![update[u].in].pc = "leaving", ![q] = Begun]
        /\ update' = [update EXCEPT ![u] = NoUpdate]
  BY DEF restart, Trouble
<1>2. UNCHANGED <<exe, old, note>> /\ update[u].pc = "noted"
  BY DEF restart, Trouble
<1>3. PICK p \in Process : p = update[u].in /\ process[p].pc \in {"serving", "leaving"}
  BY <1>2 DEF AllTyped, InProcess
<1>4. \A r \in Process : process'[r].pc = IF r = q THEN "begun" ELSE IF r = p THEN "leaving" ELSE process[r].pc
  BY <1>1, <1>3 DEF AllTyped, ProcessTyped, ProcessRecord, Begun
<1>5. \A v \in Update : update'[v].pc = IF v = u THEN "idle" ELSE update[v].pc
  BY <1>1 DEF AllTyped, UpdateTyped, NoUpdate
<1>6. UpdatesStay
  BY <1>2, <1>5 DEF UpdatesStay
<1>7. process[q].pc # "undo" /\ process[p].pc # "undo"
  BY <1>1, <1>3
<1>8. RollbacksStay
  BY <1>4, <1>7 DEF RollbacksStay
<1> QED
  BY <1>2, <1>6, <1>8, CalmStays

LEMMA UpdateKeepsCalm ==
  ASSUME AllTyped, Calm, NEW u \in Update, runUpdate(u) \/ \E p \in Process : StartUpdate(u, p), ~troubled'
  PROVE  Calm'
BY AskingKeepsCalm, MoveAsideKeepsCalm, ReplaceKeepsCalm, NoteKeepsCalm, RestartKeepsCalm DEF runUpdate

(* Trouble is not forgotten.                                               *)
LEMMA TroubleStays ==
  ASSUME troubled, [UpdateNext]_updateVars
  PROVE  troubled'
<1>1. CASE UNCHANGED updateVars
  BY <1>1 DEF updateVars
<1>2. ASSUME NEW p \in Process, Start(p) \/ Startup(p) \/ Leave(p) \/ Die(p)
      PROVE  troubled'
  BY <1>2 DEF Start, Startup, Leave, Die, Trouble, BeginStartup, FinishStartup, StaysDown,
              MoveFailedAside, PutBack, StartPrevious
<1>3. ASSUME NEW u \in Update, runUpdate(u) \/ \E p \in Process : StartUpdate(u, p)
      PROVE  troubled'
  BY <1>3 DEF runUpdate, StartUpdate, Trouble, NoRelease, ReleaseFound, Unpack, UpdateFails,
              MoveAside, Replace, noteRestart, restart
<1> QED
  BY <1>1, <1>2, <1>3 DEF UpdateNext

LEMMA StepKeepsUpdateIInv == UpdateIInv /\ [UpdateNext]_updateVars => UpdateIInv'
<1> SUFFICES ASSUME UpdateIInv, [UpdateNext]_updateVars, ~troubled'
             PROVE  Calm'
  BY StepTyped DEF UpdateIInv
<1>1. AllTyped /\ Calm
  BY TroubleStays DEF UpdateIInv
<1>2. CASE UNCHANGED updateVars
  BY <1>1, <1>2, CalmStays DEF updateVars, files, UpdatesStay, RollbacksStay
<1> QED
  BY <1>1, <1>2, ProcessKeepsCalm, UpdateKeepsCalm DEF UpdateNext

LEMMA InitUpdateIInv == UpdateInit => UpdateIInv
BY InitAllTyped, InitCalm DEF UpdateIInv

(* The types of an update, and that it is in a process that serves or is   *)
(* about to leave, of which only one serves (FinishStartup, ClaimPort).    *)
THEOREM UpdatesTyped == UpdateSpec => []UpdateTypeOK
<1>1. UpdateIInv => UpdateTypeOK
  BY DEF UpdateIInv, AllTyped, FilesTyped, ProcessTyped, StageTyped, UpdateTyped, InProcess, OneServes,
         ProcessRecord, UpdateRecord, UpdateTypeOK
<1> QED
  BY <1>1, InitUpdateIInv, StepKeepsUpdateIInv, PTL DEF UpdateSpec

(* Whatever a download brought, whichever step fails, whichever process    *)
(* dies and whatever is started by hand or updated beside it, what is      *)
(* started next can serve, or knows of one that can and puts that back     *)
(* (swap, restart, RollBackFailedStart) - until one of the steps that      *)
(* CanComeBack names as troubled was taken, which the code does not keep   *)
(* out.                                                                    *)
THEOREM AlwaysComesBack == UpdateSpec => []CanComeBack
<1>1. Calm => \/ exe \in Sound
              \/ old \in Sound /\ exe # None /\ (note \/ \E u \in Update : update[u].pc = "swapped")
              \/ old \in Sound /\ exe = None /\ \/ \E u \in Update : update[u].pc = "aside"
                                                \/ \E p \in Process : process[p].pc = "undo"
  <2> SUFFICES ASSUME Calm, exe \notin Sound
               PROVE  \/ old \in Sound /\ exe # None /\ (note \/ \E u \in Update : update[u].pc = "swapped")
                      \/ old \in Sound /\ exe = None /\ \/ \E u \in Update : update[u].pc = "aside"
                                                        \/ \E p \in Process : process[p].pc = "undo"
    OBVIOUS
  <2>1. None \notin Sound
    BY UpdateAssumption
  <2>2. CASE exe = None
    BY <2>2 DEF Calm, Installed, OnTheWay, Undoing
  <2>3. CASE exe # None
    <3>1. old \in Sound
      BY <2>3 DEF Calm, Installed
    <3>2. note \/ Renames
      BY <2>1, <3>1 DEF Calm, Replaced
    <3>3. Renames => \E u \in Update : update[u].pc = "swapped"
      BY <2>3 DEF Calm, OnTheWay, Renames, Renaming
    <3> QED
      BY <2>3, <3>1, <3>2, <3>3
  <2> QED
    BY <2>2, <2>3
<1>2. UpdateIInv => CanComeBack
  BY <1>1 DEF UpdateIInv, CanComeBack
<1> QED
  BY <1>2, InitUpdateIInv, StepKeepsUpdateIInv, PTL DEF UpdateSpec
=============================================================================
